----------------------------- MODULE MCAtaDrive -----------------------------
(***************************************************************************)
(* Three sectors and commands of two: a request of three takes two         *)
(* commands, the second request below reaches past the end.                *)
(***************************************************************************)
EXTENDS AtaDrive

MCRequests ==
  {<<"write", 0, 3, [i \in 0..2 |-> IF i = 1 THEN 2 ELSE 1]>>,
   <<"write", 1, 3, [i \in 0..2 |-> 2]>>,
   <<"write", 2, 1, [i \in 0..0 |-> 2]>>,
   <<"read", 0, 3, << >>>>,
   <<"read", 3, 0, << >>>>,
   <<"flush", 0, 0, << >>>>}
=============================================================================
