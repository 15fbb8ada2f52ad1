----------------------------- MODULE MCExt2Tree -----------------------------
(***************************************************************************)
(* Two names and five inodes: a first directory block has room for one     *)
(* name, so a second name makes the directory grow past its direct blocks. *)
(***************************************************************************)
EXTENDS ShellPaths

CONSTANTS a, b

MCNames == {a, b}

MCTargets == {<<"..", a>>}

MCTyped == {<<"..">>, <<"..", a>>, <<a, "..", b>>, <<"..", "..", a, b>>, <<"/", b>>}
=============================================================================
