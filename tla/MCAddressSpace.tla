--------------------------- MODULE MCAddressSpace ---------------------------
(***************************************************************************)
(* Eight pages of two bytes: a program's at 0 and 1, the break at 2 and 3, *)
(* the mmap area at 4 and 5, the kernel heap at 6, the stack at 7, with    *)
(* one page table for every two pages.  There are fewer frames than pages  *)
(* and tables, so that every allocation after boot can fail.               *)
(***************************************************************************)
EXTENDS AddressSpace

CONSTANT FrameCount

MCMemoryMap ==
  << [base |-> 1, length |-> 2 * FrameCount + 1, usable |-> TRUE] >>

MCKernelHeap == <<6>>

MCTablesOf == [p \in Pages |-> <<p \div 2>>]

Text(p) == [page |-> p, flags |-> {}]

Data(p) == [page |-> p, flags |-> {"W", "NX"}]

(* A small program and a larger one, one that collides with the kernel     *)
(* heap, and two with bad entry points.                                    *)
MCPrograms ==
  { [specs |-> <<Text(0), Data(7)>>, entry |-> "inside"],
    [specs |-> <<Text(0), Data(4), Data(7)>>, entry |-> "inside"],
    [specs |-> <<Text(0), Data(6), Data(7)>>, entry |-> "inside"],
    [specs |-> <<Text(1), Data(7)>>, entry |-> "outside"],
    [specs |-> <<Text(1), Data(7)>>, entry |-> "overflow"] }

MCProtections == {{"W", "NX"}}
=============================================================================
