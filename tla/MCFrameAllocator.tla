-------------------------- MODULE MCFrameAllocator --------------------------
(***************************************************************************)
(* FrameAllocator on a memory map with an unaligned entry, one that is not *)
(* usable, one too small to hold a frame, and one whose end overflows.     *)
(***************************************************************************)
EXTENDS FrameScan

MCMemoryMap ==
  << [base |-> 0,  length |-> 3,  usable |-> TRUE],    \* frame 0
     [base |-> 4,  length |-> 4,  usable |-> FALSE],
     [base |-> 9,  length |-> 6,  usable |-> TRUE],    \* frames 10, 12
     [base |-> 17, length |-> 2,  usable |-> TRUE],    \* no whole frame
     [base |-> 20, length |-> 6,  usable |-> TRUE],    \* frames 20, 22, 24
     [base |-> 28, length |-> 10, usable |-> TRUE] >>  \* overflows

(* Ranges that start on a frame; their ends are arbitrary.                 *)
MCReservable ==
  { [start |-> 0, end |-> 1], [start |-> 10, end |-> 13],
    [start |-> 20, end |-> 22], [start |-> 12, end |-> 21],
    [start |-> 22, end |-> 23], [start |-> 24, end |-> 24] }

(* A range that starts in the middle of a frame.                           *)
MCUnalignedReservable == { [start |-> 11, end |-> 13] }
=============================================================================
