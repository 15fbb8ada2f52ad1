-------------------------- MODULE MCBuddyAllocator --------------------------
(***************************************************************************)
(* Blocks of 2, 4 and 8 bytes over heaps that decompose in different ways. *)
(***************************************************************************)
EXTENDS BuddyAllocator

MCHeaps ==
  { [start |-> 0, size |-> 16],    \* two zones of the largest order
    [start |-> 2, size |-> 15],    \* zones of 2, 4 and 8, one byte left
    [start |-> 8, size |-> 14] }   \* zones of 8, 4 and 2

MCLayouts ==
  { [size |-> 1, align |-> 1], [size |-> 2, align |-> 4],
    [size |-> 5, align |-> 2], [size |-> 9, align |-> 1] }
=============================================================================
