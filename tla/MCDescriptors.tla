--------------------------- MODULE MCDescriptors ----------------------------
(***************************************************************************)
(* Two files, on a disk that starts empty, or full, or with a gap before   *)
(* the only file: one created during a listing moves the other along.      *)
(***************************************************************************)
EXTENDS Descriptors

CONSTANTS p, q

MCPaths == {p, q}

MCDisks == {<< >>, <<Gap, q>>, <<p, q>>}

MCData == {<<1>>, <<2>>}

MCFlags ==
  {NoFlags,
   [NoFlags EXCEPT !.write = TRUE, !.creat = TRUE],
   [NoFlags EXCEPT !.creat = TRUE, !.directory = TRUE],
   [NoFlags EXCEPT !.write = TRUE, !.creat = TRUE, !.excl = TRUE],
   [NoFlags EXCEPT !.write = TRUE, !.trunc = TRUE],
   [NoFlags EXCEPT !.write = TRUE, !.append = TRUE]}
=============================================================================
