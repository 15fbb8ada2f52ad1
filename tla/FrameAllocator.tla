--------------------------- MODULE FrameAllocator ---------------------------
(***************************************************************************)
(* The physical frame allocator of kmem/frame.rs, BootInfoFrameAllocator.  *)
(*                                                                         *)
(* Frames come from two places.  A cursor (current_region, next_frame)     *)
(* walks the bootloader's memory map once and never turns back; frames     *)
(* that were returned form a LIFO list threaded through the first word of  *)
(* the free frames themselves.  An allocation pops the list, and moves the *)
(* cursor only when the list is empty.                                     *)
(*                                                                         *)
(* Addresses are numbers in 0..MaxAddr (MaxAddr stands for u64::MAX).  The *)
(* loops of allocate_frame, next_usable_region and skip_reserved are given *)
(* by what they compute ("the first region that stops the scan", "the      *)
(* least frame outside every reserved range"); FrameScan.tla checks these  *)
(* definitions against the loops as written.                               *)
(*                                                                         *)
(* `owned' is a ghost variable, the frames the callers hold.  `freed' is a *)
(* ghost variable too, the free list as a sequence, head first: the code   *)
(* has only free_list_head and the words.                                  *)
(***************************************************************************)
EXTENDS Naturals, Sequences

CONSTANTS
  FRAME_SIZE,           \* bytes in a frame
  MaxAddr,              \* the largest address, u64::MAX
  MemoryMap,            \* the bootloader's entries, [base, length, usable]
  MAX_RESERVED_RANGES,  \* capacity of `reserved'
  Reservable,           \* the ranges [start, end] that reserve may be given
  NoFrame,              \* Option::None
  Scribble              \* whatever a caller leaves in a frame it holds

VARIABLES
  current_region,  \* index into MemoryMap, Len(MemoryMap) + 1 at the end
  next_frame,      \* next address to try in current_region, 0: its start
  reserved,        \* the reserved ranges, in the order they were added
  free_list_head,  \* first frame of the free list, or NoFrame
  word,            \* first word of every frame
  freed,           \* ghost: the free list
  owned            \* ghost: the frames handed out and not given back

frame_vars == <<current_region, next_frame, reserved, free_list_head, word,
                freed, owned>>

align_down(value, alignment) == (value \div alignment) * alignment

align_up(value, alignment) == align_down(value + alignment - 1, alignment)

FREE_LIST_END == MaxAddr

Frames == {f \in 0..MaxAddr : align_down(f, FRAME_SIZE) = f}

EntryIndices == 1..Len(MemoryMap)

(* The bounds allocate_frame computes for an entry; checked_add fails on   *)
(* an entry that reaches past the last address.                            *)
Overflows(k) == MemoryMap[k].base + MemoryMap[k].length > MaxAddr

region_start(k) == align_up(MemoryMap[k].base, FRAME_SIZE)

region_end(k) ==
  align_down(MemoryMap[k].base + MemoryMap[k].length, FRAME_SIZE)

(* The frames an entry gives to the allocator.                             *)
RegionFrames(k) ==
  IF MemoryMap[k].usable /\ ~Overflows(k)
    THEN {f \in Frames : region_start(k) <= f /\ f < region_end(k)}
    ELSE {}

ASSUME FrameSizeAssumption == FRAME_SIZE \in Nat /\ FRAME_SIZE > 1

ASSUME MaxAddrAssumption == MaxAddr \in Nat /\ MaxAddr \notin Frames

ASSUME MemoryMapAssumption ==
  MemoryMap \in Seq([base : 0..MaxAddr, length : 0..MaxAddr,
                     usable : BOOLEAN])

(* Usable entries of the bootloader's memory map do not overlap.           *)
ASSUME DisjointRegions ==
  \A j, k \in EntryIndices :
    j # k => RegionFrames(j) \cap RegionFrames(k) = {}

(* The memory map is sorted, so an entry that reaches past the last        *)
(* address has no usable entry behind it.                                  *)
ASSUME OverflowIsLast ==
  \A j, k \in EntryIndices :
    j < k /\ MemoryMap[j].usable /\ Overflows(j) => RegionFrames(k) = {}

ASSUME ReservedAssumption ==
  /\ MAX_RESERVED_RANGES \in Nat
  /\ Reservable \subseteq [start : 0..MaxAddr, end : 0..MaxAddr]

ASSUME ValueAssumption ==
  /\ NoFrame \notin Frames
  /\ Scribble \notin Frames \cup {FREE_LIST_END}
-----------------------------------------------------------------------------
Ranges == {reserved[i] : i \in 1..Len(reserved)}

is_reserved(f) == \E r \in Ranges : r.start <= f /\ f < r.end

(* Faulty variant: the cursor ignores the reserved ranges.                 *)
SkipNothing(from, f) == f = from

(* skip_reserved(from) returns f.                                          *)
SkipsTo(from, f) ==
  /\ from <= f
  /\ ~is_reserved(f)
  /\ \A g \in Frames : from <= g /\ g < f => is_reserved(g)

(* Where the scan of entry k starts: at the cursor in the current entry,   *)
(* at the entry's start in every other.                                    *)
ScanStart(k) ==
  IF k = current_region /\ next_frame # 0 THEN next_frame ELSE region_start(k)

ScanFinds(k, f) == SkipsTo(ScanStart(k), f) /\ f < region_end(k)

HasFrame(k) ==
  \E f \in RegionFrames(k) : ScanStart(k) <= f /\ ~is_reserved(f)

(* The scan leaves its loop at entry k, on the overflow or with a frame.   *)
Stops(k) == MemoryMap[k].usable /\ (Overflows(k) \/ HasFrame(k))

ScanReaches(k) ==
  /\ current_region <= k
  /\ Stops(k)
  /\ \A j \in EntryIndices : current_region <= j /\ j < k => ~Stops(j)
-----------------------------------------------------------------------------
(* new: the cursor at the start of the map, nothing reserved or free.      *)
FrameInit ==
  /\ current_region = 1
  /\ next_frame = 0
  /\ reserved = <<>>
  /\ free_list_head = NoFrame
  /\ word = [f \in Frames |-> Scribble]
  /\ freed = <<>>
  /\ owned = {}

(* reserve, under its documented precondition: before any allocation.      *)
reserve(r) ==
  /\ current_region = 1 /\ next_frame = 0 /\ owned = {} /\ freed = <<>>
  /\ Len(reserved) < MAX_RESERVED_RANGES
  /\ reserved' = Append(reserved, r)
  /\ UNCHANGED <<current_region, next_frame, free_list_head, word, freed,
                 owned>>

(* The caller writes what it likes into the frame f it is given.           *)
HandOut(f) ==
  /\ owned' = owned \cup {f}
  /\ word' = [word EXCEPT ![f] = Scribble]

pop_free_frame(f) ==
  /\ free_list_head = f
  /\ free_list_head' = IF word[f] = FREE_LIST_END THEN NoFrame ELSE word[f]
  /\ freed' = Tail(freed)
  /\ HandOut(f)
  /\ UNCHANGED <<current_region, next_frame, reserved>>

(* Faulty variants: the cursor stays on the frame, or passes one too many. *)
TakeAdvancing(f, step) ==
  /\ free_list_head = NoFrame
  /\ \E k \in EntryIndices :
       /\ ScanReaches(k) /\ ~Overflows(k) /\ ScanFinds(k, f)
       /\ current_region' = k
       /\ next_frame' = f + step
  /\ HandOut(f)
  /\ UNCHANGED <<reserved, free_list_head, freed>>

TakeWithoutAdvance(f) == TakeAdvancing(f, 0)

TakeSkippingOne(f) == TakeAdvancing(f, 2 * FRAME_SIZE)

(* The free list is empty and the scan of the memory map finds f.          *)
take_next_frame(f) ==
  /\ free_list_head = NoFrame
  /\ \E k \in EntryIndices :
       /\ ScanReaches(k)
       /\ ~Overflows(k)
       /\ ScanFinds(k, f)
       /\ current_region' = k
       /\ next_frame' = f + FRAME_SIZE
  /\ HandOut(f)
  /\ UNCHANGED <<reserved, free_list_head, freed>>

(* allocate_frame returns Some(f).                                         *)
allocate_frame(f) == pop_free_frame(f) \/ take_next_frame(f)

(* allocate_frame would return Some(f).                                    *)
NextToReturn(f) ==
  \/ free_list_head = f
  \/ /\ free_list_head = NoFrame
     /\ \E k \in EntryIndices : ScanReaches(k) /\ ~Overflows(k) /\ ScanFinds(k, f)

(* allocate_frame would return None: the entries that still have a frame   *)
(* are all behind one whose end overflows.                                 *)
OutOfFrames ==
  /\ free_list_head = NoFrame
  /\ \A k \in EntryIndices :
       current_region <= k /\ HasFrame(k) =>
         \E j \in EntryIndices :
           current_region <= j /\ j < k /\ MemoryMap[j].usable /\ Overflows(j)

(* allocate_frame returns None: the scan ran off the memory map, or left   *)
(* with `?' on an entry whose end overflows.                               *)
allocate_none ==
  /\ OutOfFrames
  /\ \/ /\ \A k \in EntryIndices : current_region <= k => ~Stops(k)
        /\ current_region' = Len(MemoryMap) + 1
        /\ next_frame' = 0
     \/ \E k \in EntryIndices :
          /\ ScanReaches(k)
          /\ Overflows(k)
          /\ current_region' = k
          /\ next_frame' = IF k = current_region THEN next_frame ELSE 0
  /\ UNCHANGED <<reserved, free_list_head, word, freed, owned>>

(* Faulty variant: the old head is not linked behind the new one.          *)
PushUnlinked(f) ==
  /\ word' = [word EXCEPT ![f] = FREE_LIST_END]
  /\ free_list_head' = f
  /\ freed' = <<f>> \o freed

push_free_frame(f) ==
  /\ word' = [word EXCEPT ![f] = IF free_list_head = NoFrame
                                   THEN FREE_LIST_END
                                   ELSE free_list_head]
  /\ free_list_head' = f
  /\ freed' = <<f>> \o freed

(* deallocate_frame checks nothing: that f is owned is its callers' duty,  *)
(* and appears in FrameNext.                                               *)
deallocate_frame(f) ==
  /\ push_free_frame(f)
  /\ owned' = owned \ {f}
  /\ UNCHANGED <<current_region, next_frame, reserved>>

FrameNext ==
  \/ \E r \in Reservable : reserve(r)
  \/ \E f \in Frames : allocate_frame(f)
  \/ allocate_none
  \/ \E f \in owned : deallocate_frame(f)

(* The allocator as its callers may use it: reserve at boot, then allocate  *)
(* and free in any order, freeing only frames that were handed out.        *)
FrameSpec == FrameInit /\ [][FrameNext]_frame_vars
-----------------------------------------------------------------------------
FreedFrames == {freed[i] : i \in 1..Len(freed)}

Usable == UNION {RegionFrames(k) : k \in EntryIndices}

(* Types of the fields of BootInfoFrameAllocator and of the frames' first   *)
(* words.                                                                   *)
FrameTypeOK ==
  /\ current_region \in 1..(Len(MemoryMap) + 1)
  /\ next_frame \in Nat
  /\ reserved \in Seq(Reservable)
  /\ free_list_head \in Frames \cup {NoFrame}
  /\ word \in [Frames -> Frames \cup {FREE_LIST_END, Scribble}]
  /\ freed \in Seq(Frames)
  /\ owned \subseteq Frames

(* The callers hold no frame of the free list, and the list holds no frame *)
(* twice.                                                                  *)
FreeListDistinct ==
  /\ owned \cap FreedFrames = {}
  /\ \A i, j \in 1..Len(freed) : freed[i] = freed[j] => i = j

(* The next frame allocate_frame returns, from the free list or from the   *)
(* cursor, is never one that a caller still holds: the list has no such    *)
(* frame, and the cursor never comes back to a frame it has passed.        *)
NoDoubleAllocation == \A f \in owned : ~NextToReturn(f)

(* The words of the free frames spell the free list from free_list_head to *)
(* FREE_LIST_END: no push or pop loses a frame or runs into a caller's     *)
(* data.  free_frame_count walks this chain.                               *)
FreeListIntact ==
  /\ free_list_head = IF freed = <<>> THEN NoFrame ELSE freed[1]
  /\ \A i \in 1..Len(freed) :
       word[freed[i]] = IF i = Len(freed) THEN FREE_LIST_END ELSE freed[i + 1]

(* Every frame handed out lies inside a usable entry of the memory map and *)
(* its first byte outside every reserved range.                            *)
OnlyUsableFrames ==
  \A f \in owned \cup FreedFrames : f \in Usable /\ ~is_reserved(f)

(* allocate_frame gives up only when its callers hold every usable frame   *)
(* that is not reserved: the cursor jumps over none.                       *)
NoneMeansExhausted ==
  OutOfFrames => \A f \in Usable : f \in owned \/ is_reserved(f)

(* What the comment on reserve promises: "The range does not need to be    *)
(* page-aligned; frame allocation will automatically avoid any 4 KiB       *)
(* frames that overlap it."                                                *)
ReservedNeverAllocated ==
  \A f \in owned : \A r \in Ranges :
    r.end <= f \/ f + FRAME_SIZE <= r.start \/ r.start = r.end
=============================================================================
