---------------------------- MODULE MCInterrupts ----------------------------
(***************************************************************************)
(* Two scancodes of every kind, at any moment of the start and after it:   *)
(* one that starts a program, turns the mirror on or moves the cursor, and *)
(* one that comes during what follows.                                     *)
(***************************************************************************)
EXTENDS Interrupts
=============================================================================
