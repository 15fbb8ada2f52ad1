----------------------------- MODULE KernelHeap -----------------------------
(***************************************************************************)
(* What the kernel heap promises its users (the MemoryAllocator trait of   *)
(* kmem/heap.rs): memory inside the heap, large enough and aligned for the *)
(* layout, and overlapping no other live allocation.  Which address is     *)
(* chosen and when a request fails is left open.                           *)
(***************************************************************************)
EXTENDS Naturals

CONSTANTS HeapBytes,  \* addresses that may belong to the heap
          Layouts     \* [size, align]

VARIABLES extent,     \* the addresses that do belong to it, fixed by init
          live        \* the live allocations, [addr, layout]

heap_vars == <<extent, live>>

Bytes(a) == a.addr..(a.addr + a.layout.size - 1)

Fits(a) ==
  /\ Bytes(a) \subseteq extent
  /\ a.addr % a.layout.align = 0
  /\ \A b \in live : Bytes(a) \cap Bytes(b) = {}

HeapInit == extent \in SUBSET HeapBytes /\ live = {}

(* init hands the heap another chunk; only before the first allocation.    *)
Grow(chunk) ==
  /\ live = {}
  /\ extent' = extent \cup chunk
  /\ UNCHANGED live

Alloc(a) == Fits(a) /\ live' = live \cup {a} /\ UNCHANGED extent

Dealloc(a) == live' = live \ {a} /\ UNCHANGED extent

HeapNext ==
  \/ \E lo, hi \in HeapBytes : Grow(lo..hi)
  \/ \E addr \in HeapBytes, layout \in Layouts :
       Alloc([addr |-> addr, layout |-> layout])
  \/ \E a \in live : Dealloc(a)

HeapSpec == HeapInit /\ [][HeapNext]_heap_vars
=============================================================================
