------------------------------ MODULE MCRecorder ------------------------------
(***************************************************************************)
(* Recording and releasing the library's two extremes: a double fault, and *)
(* a scenario in which nothing is wrong.                                   *)
(***************************************************************************)
EXTENDS Release

CONSTANTS f1, f2, double, healthy

MCFault == [s \in Scenario |-> IF s = double THEN f1 ELSE NoFlag]

MCDistractors == [s \in Scenario |-> IF s = double THEN <<f2>> ELSE << >>]
=============================================================================
