--------------------------- MODULE BuddyAllocator ---------------------------
(***************************************************************************)
(* The kernel heap's buddy allocator, kmem/heap/buddy.rs.                  *)
(*                                                                         *)
(* A free list is the sequence of its blocks' addresses, head first: the   *)
(* next pointers live in free blocks, which nobody else writes.  init is   *)
(* one action for each round of its loop, so that zones appear one by one; *)
(* alloc and dealloc are atomic, as they are under LockedHeap's mutex.     *)
(* The recursion of allocate_order and the merge loop of dealloc are given *)
(* by where they end: the smallest order with a free block, the smallest   *)
(* order at which the buddy is not free.                                   *)
(***************************************************************************)
EXTENDS Naturals, Sequences, FiniteSets

CONSTANTS
  MIN_ORDER, MAX_ORDER, MAX_ZONES,
  NODE_SIZE,  \* size_of::<FreeListNode>()
  Heaps,      \* the ranges [start, size] init may be given
  Layouts,    \* the layouts [size, align] callers ask for
  NoBlock     \* None, null

VARIABLES
  heap,         \* the range init was called with
  remaining,    \* bytes of it that init has not yet made part of a zone
  zones,        \* sequence of [base, order]
  max_order,
  free_lists,   \* order -> addresses of its free blocks
  initialized,
  live          \* ghost: the live allocations, [addr, layout]

buddy_vars == <<heap, remaining, zones, max_order, free_lists, initialized,
                live>>

Orders == MIN_ORDER..MAX_ORDER

(* 1 << n, by doubling.                                                    *)
PowerOfTwo[n \in Nat] == IF n = 0 THEN 1 ELSE 2 * PowerOfTwo[n - 1]

block_size(order) == PowerOfTwo[order]

ASSUME BuddyAssumption ==
  /\ MIN_ORDER \in Nat /\ MAX_ORDER \in Nat /\ MIN_ORDER <= MAX_ORDER
  /\ MAX_ZONES \in Nat /\ NODE_SIZE \in Nat
  /\ Layouts \subseteq [size : Nat \ {0}, align : Nat \ {0}]
  /\ \A l \in Layouts : \E k \in 0..l.align : l.align = block_size(k)
  /\ \A h \in Heaps : /\ h.start \in Nat /\ h.size \in Nat
                      /\ h.start % block_size(MIN_ORDER) = 0
                      /\ h.size >= block_size(MIN_ORDER)

LargestOf(S) == CHOOSE n \in S : \A m \in S : m <= n

SmallestOf(S) == CHOOSE n \in S : \A m \in S : n <= m

largest_order_for(size) ==
  LargestOf({MIN_ORDER} \cup {o \in Orders : block_size(o) <= size})

(* Faulty variant: the alignment is not considered.                        *)
FittingSizes(layout) ==
  {o \in Orders : layout.size <= block_size(o) /\ NODE_SIZE <= block_size(o)}

(* The orders that can satisfy a layout; order_for_size takes the smallest *)
(* and is None when there is none.                                         *)
FittingOrders(layout) ==
  {o \in Orders : /\ layout.size <= block_size(o)
                  /\ layout.align <= block_size(o)
                  /\ NODE_SIZE <= block_size(o)}

order_for_size(layout) == SmallestOf(FittingOrders(layout))

zone_for(addr) ==
  CHOOSE z \in {zones[i] : i \in 1..Len(zones)} :
    z.base <= addr /\ addr < z.base + block_size(z.order)

(* offset XOR block_size, for an offset that is a multiple of block_size.  *)
FlipBit(offset, size) ==
  IF (offset \div size) % 2 = 0 THEN offset + size ELSE offset - size

buddy_addr(zone, addr, order) ==
  LET offset == addr - zone.base
      other  == FlipBit(offset, block_size(order))
  IN  IF /\ zone.base <= addr /\ offset < block_size(zone.order)
         /\ offset % block_size(order) = 0
         /\ other < block_size(zone.order)
        THEN zone.base + other
        ELSE NoBlock

Holds(list, addr) == \E i \in 1..Len(list) : list[i] = addr

(* The first node at addr, if there is one, is unlinked.                   *)
remove_free_block(list, addr) ==
  LET at == SmallestOf({i \in 1..Len(list) : list[i] = addr})
  IN  IF Holds(list, addr)
        THEN [i \in 1..(Len(list) - 1) |-> list[IF i < at THEN i ELSE i + 1]]
        ELSE list

push_free_block(list, addr) == <<addr>> \o list
-----------------------------------------------------------------------------
(* new, and the head of init with the range it is called with.             *)
BuddyInit ==
  /\ heap \in Heaps
  /\ remaining = heap.size
  /\ zones = <<>>
  /\ max_order = MIN_ORDER
  /\ free_lists = [o \in Orders |-> <<>>]
  /\ initialized = FALSE
  /\ live = {}

(* Faulty variant: zones that are not aligned to their size.               *)
AddZoneUnaligned ==
  LET addr == heap.start + heap.size - remaining
      order == largest_order_for(remaining)
  IN  /\ ~initialized /\ remaining >= block_size(MIN_ORDER)
      /\ Len(zones) < MAX_ZONES
      /\ zones' = Append(zones, [base |-> addr, order |-> order])
      /\ max_order' = IF order > max_order THEN order ELSE max_order
      /\ free_lists' = [free_lists EXCEPT ![order] = push_free_block(@, addr)]
      /\ remaining' = remaining - block_size(order)
      /\ UNCHANGED <<heap, initialized, live>>

(* A round of init's loop: the largest block that fits at the next address *)
(* becomes a zone and its first free block.                                *)
AddZone ==
  LET addr == heap.start + heap.size - remaining
      order == LargestOf({MIN_ORDER} \cup
                 {o \in Orders : /\ o <= largest_order_for(heap.size)
                                 /\ block_size(o) <= remaining
                                 /\ addr % block_size(o) = 0})
  IN  /\ ~initialized /\ remaining >= block_size(MIN_ORDER)
      /\ Len(zones) < MAX_ZONES
      /\ zones' = Append(zones, [base |-> addr, order |-> order])
      /\ max_order' = IF order > max_order THEN order ELSE max_order
      /\ free_lists' = [free_lists EXCEPT ![order] = push_free_block(@, addr)]
      /\ remaining' = remaining - block_size(order)
      /\ UNCHANGED <<heap, initialized, live>>

InitDone ==
  /\ ~initialized /\ remaining < block_size(MIN_ORDER)
  /\ initialized' = TRUE
  /\ UNCHANGED <<heap, remaining, zones, max_order, free_lists, live>>

(* The orders at which allocate_order(order) can pop a block.              *)
Splittable(order) == {o \in order..max_order : free_lists[o] # <<>>}

alloc(layout) ==
  /\ initialized /\ FittingOrders(layout) # {}
  /\ LET order == order_for_size(layout)
         from  == SmallestOf(Splittable(order))
         addr  == Head(free_lists[from])
     IN  /\ Splittable(order) # {}
         /\ free_lists' =
              [o \in Orders |->
                 IF o = from THEN Tail(free_lists[o])
                 ELSE IF order <= o /\ o < from
                   THEN push_free_block(free_lists[o], addr + block_size(o))
                 ELSE free_lists[o]]
         /\ live' = live \cup {[addr |-> addr, layout |-> layout]}
  /\ UNCHANGED <<heap, remaining, zones, max_order, initialized>>

(* Faulty variant: a merged block keeps the address of the half that was   *)
(* freed, not of the lower one.                                            *)
KeepAddress(zone, addr, order) == addr

(* The block of the given order around addr, in its zone.                  *)
Enclosing(zone, addr, order) ==
  zone.base + ((addr - zone.base) \div block_size(order)) * block_size(order)

(* Faulty variant: freed blocks are not merged.                            *)
MergeNever(zone, addr, order) == order

Buddy(zone, addr, order) == buddy_addr(zone, Enclosing(zone, addr, order), order)

(* The order at which dealloc's merge loop stops.                          *)
MergeTop(zone, addr, order) ==
  SmallestOf({o \in order..zone.order :
    o = zone.order \/ ~Holds(free_lists[o], Buddy(zone, addr, o))})

(* dealloc, with the layout given to alloc: the block merges with its      *)
(* buddy as long as the buddy is free and the zone is not whole again.     *)
dealloc(a) ==
  /\ a \in live
  /\ LET order == order_for_size(a.layout)
         zone  == zone_for(a.addr)
         top   == MergeTop(zone, a.addr, order)
     IN  free_lists' =
           [o \in Orders |->
              IF o = top
                THEN push_free_block(free_lists[o], Enclosing(zone, a.addr, o))
              ELSE IF order <= o /\ o < top
                THEN remove_free_block(free_lists[o], Buddy(zone, a.addr, o))
              ELSE free_lists[o]]
  /\ live' = live \ {a}
  /\ UNCHANGED <<heap, remaining, zones, max_order, initialized>>

BuddyNext ==
  \/ AddZone \/ InitDone
  \/ \E layout \in Layouts : alloc(layout)
  \/ \E a \in live : dealloc(a)

BuddySpec == BuddyInit /\ [][BuddyNext]_buddy_vars
-----------------------------------------------------------------------------
ZoneSet == {zones[i] : i \in 1..Len(zones)}

ZoneBytes(z) == z.base..(z.base + block_size(z.order) - 1)

(* The blocks in existence: free ones and those behind live allocations.   *)
FreeBlocks ==
  UNION {{[addr |-> free_lists[o][i], order |-> o] :
            i \in 1..Len(free_lists[o])} : o \in Orders}

LiveBlocks ==
  {[addr |-> a.addr, order |-> order_for_size(a.layout)] : a \in live}

BlockBytes(b) == b.addr..(b.addr + block_size(b.order) - 1)

(* Every byte of every zone is in exactly one block, free or live, and no  *)
(* block is on a free list twice: a split or a merge neither loses memory  *)
(* nor makes two blocks overlap.  And "a merge can never cross into        *)
(* another zone" (dealloc): each block lies in one zone, at a multiple of  *)
(* its size from the zone's base.                                          *)
ZonesPartitioned ==
  /\ \A x, y \in FreeBlocks \cup LiveBlocks :
       x # y => BlockBytes(x) \cap BlockBytes(y) = {}
  /\ FreeBlocks \cap LiveBlocks = {}
  /\ \A o \in Orders : \A i, j \in 1..Len(free_lists[o]) :
       free_lists[o][i] = free_lists[o][j] => i = j
  /\ UNION {BlockBytes(b) : b \in FreeBlocks \cup LiveBlocks}
       = UNION {ZoneBytes(z) : z \in ZoneSet}
  /\ \A b \in FreeBlocks \cup LiveBlocks : \E z \in ZoneSet :
       /\ BlockBytes(b) \subseteq ZoneBytes(z)
       /\ (b.addr - z.base) % block_size(b.order) = 0

(* Buddies are never both free: dealloc merges as far as it can and alloc  *)
(* splits no more than it must.  With nothing live, every zone is one free *)
(* block again, whatever the order of the calls was.                       *)
FullyCoalesced ==
  /\ \A z \in ZoneSet, x, y \in FreeBlocks :
       /\ BlockBytes(x) \subseteq ZoneBytes(z)
       /\ x.order = y.order /\ x.order < z.order
       => y.addr # buddy_addr(z, x.addr, x.order)
  /\ live = {} =>
       FreeBlocks = {[addr |-> z.base, order |-> z.order] : z \in ZoneSet}

(* init tiles the heap with zones aligned to their own size and leaves out *)
(* less than one minimum block; no zone list overflow on the way.          *)
ZonesTileHeap ==
  initialized =>
    /\ \A z \in ZoneSet : z.base % block_size(z.order) = 0
    /\ \A i, j \in 1..Len(zones) :
         i # j => ZoneBytes(zones[i]) \cap ZoneBytes(zones[j]) = {}
    /\ UNION {ZoneBytes(z) : z \in ZoneSet}
         = heap.start..(heap.start + heap.size - remaining - 1)
    /\ remaining < block_size(MIN_ORDER)
    /\ \A z \in ZoneSet : z.order <= max_order

AllBytes == UNION {h.start..(h.start + h.size) : h \in Heaps}

Promise == INSTANCE KernelHeap WITH
  HeapBytes <- AllBytes,
  extent <- UNION {ZoneBytes(z) : z \in ZoneSet}

(* alloc and dealloc do what the heap promises its users: memory inside    *)
(* the heap, aligned as asked, and overlapping no other live allocation.   *)
ImplementsHeap == Promise!HeapSpec
=============================================================================
