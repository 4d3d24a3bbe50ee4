-------------------------------- MODULE MCVfs --------------------------------
(***************************************************************************)
(* The file system for TLC.  Names are interchangeable: no definition      *)
(* orders them or names one.                                               *)
(***************************************************************************)
EXTENDS Vfs, TLC

MCPermutations == Permutations(Names)

(* One block and two, for pages of one byte.                               *)
MCTreeData == {<<1>>, <<1, 1>>}

(* For pages of two bytes: the empty file, which takes a block all the     *)
(* same, and a full page followed by a partial one.                        *)
MCBlockData == {<<>>, <<1, 2, 3>>}
=============================================================================
