------------------------- MODULE MCApprovalWorkflow -------------------------
(***************************************************************************)
(* Instances of the workflow for TLC.  Two workers on one thread is where  *)
(* the checkpoints of one meet the other's.                                *)
(***************************************************************************)
EXTENDS ApprovalWorkflow, TLC

WorkerSymmetry == Permutations(Worker)
=============================================================================
