------------------------------ MODULE MCIndexing ------------------------------
(***************************************************************************)
(* Instances of VoteIndexing.                                              *)
(***************************************************************************)
EXTENDS VoteIndexing

(* Every vote starts at the same amount and melts step by step. *)
StepByStep == {<<3, 2>>, <<2, 1>>}
=============================================================================
