------------------------------ MODULE MCResult ------------------------------
(***************************************************************************)
(* Instances of ResultPipeline for TLC.                                    *)
(***************************************************************************)
EXTENDS ResultPipeline, TLC

AttemptSymmetry == Permutations(Attempts)
=============================================================================
