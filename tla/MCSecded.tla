------------------------------ MODULE MCSecded ------------------------------
(***************************************************************************)
(* The bytes for TLC.  The code is linear: what flips do to a word does    *)
(* not depend on the byte in it.  Bytes of few bits exercise each data bit *)
(* alone and each pair of them, the dense ones nearly all at once.         *)
(***************************************************************************)
EXTENDS Secded

MCStored == {data \in Bytes : Cardinality(data) \in {0, 1, 2, 7, 8}}
MCInputs == {{}, {0, 2, 4, 6}}
=============================================================================
