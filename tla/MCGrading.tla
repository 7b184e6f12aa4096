------------------------------ MODULE MCGrading ------------------------------
(* Instances of Grading for TLC. *)
EXTENDS Grading

EveryPercentage == 0..100
=============================================================================
