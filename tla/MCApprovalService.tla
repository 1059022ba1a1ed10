-------------------------- MODULE MCApprovalService --------------------------
(***************************************************************************)
(* Small instances of the approval service for TLC.                        *)
(***************************************************************************)
EXTENDS ApprovalService

CONSTANTS q1, q2, p1, p2
=============================================================================
