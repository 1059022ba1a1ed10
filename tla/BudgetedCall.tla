---------------------------- MODULE BudgetedCall ----------------------------
(***************************************************************************)
(* What a caller of LlmClient.complete may rely on, whatever the transport *)
(* does: a call is refused at once when the budget is spent, and otherwise *)
(* ends in one verdict; while it is open the budget is charged, never past *)
(* a ceiling, and nothing else charges it.                                 *)
(***************************************************************************)
EXTENDS Naturals

CONSTANTS TokenCeiling, UsdCeiling, Verdicts

VARIABLES open, verdict, tokens, usd

cvars == <<open, verdict, tokens, usd>>

Init == open = FALSE /\ verdict = "none" /\ tokens = 0 /\ usd = 0

Charged ==
  /\ tokens' \in tokens .. TokenCeiling
  /\ usd' \in usd .. UsdCeiling

Ask == ~open /\ open' = TRUE /\ verdict' = "none" /\ UNCHANGED <<tokens, usd>>

Refuse == ~open /\ verdict' \in Verdicts /\ UNCHANGED <<open, tokens, usd>>

Charge == open /\ Charged /\ UNCHANGED <<open, verdict>>

Close == open /\ open' = FALSE /\ verdict' \in Verdicts /\ Charged

Next == Ask \/ Refuse \/ Charge \/ Close

Spec == Init /\ [][Next]_cvars
=============================================================================
