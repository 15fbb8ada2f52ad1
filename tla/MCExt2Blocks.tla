---------------------------- MODULE MCExt2Blocks ----------------------------
(***************************************************************************)
(* Two files, with one direct pointer and two pointers in a block: file    *)
(* blocks 1 and 2 hang below the indirect block, 3 to 6 below the double   *)
(* and 7 to 14 below the triple indirect one.  The disks: one that is too  *)
(* small; two groups whose seven free blocks are too few for the files; a  *)
(* second group that is dropped for its size; three groups, the third      *)
(* without a copy of the superblock.                                       *)
(***************************************************************************)
EXTENDS Ext2Blocks

MCGoal == [f \in Files |-> IF f = CHOOSE g \in Files : TRUE THEN 0 ELSE 1]

MCData == {<<1>>, <<1, 2, 1>>}
=============================================================================
