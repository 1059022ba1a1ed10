----------------------------- MODULE MCModelCall -----------------------------
(***************************************************************************)
(* A small model with a second to fall back on, a dearer strong one, and a *)
(* judge tier nobody configured.                                           *)
(***************************************************************************)
EXTENDS ModelCall, TLC

CONSTANTS fast, spare, strong

MCCandidates == ("small" :> <<fast, spare>>) @@ ("strong" :> <<strong>>) @@ ("judge" :> <<>>)

MCPrice == (fast :> 1) @@ (spare :> Unpriced) @@ (strong :> 2)

=============================================================================
