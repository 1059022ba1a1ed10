------------------------------ MODULE OnceOnly ------------------------------
(***************************************************************************)
(* What the approval service promises about one proposal, with no file, no *)
(* lock and no database in sight: the target is changed at most once, and  *)
(* never on behalf of a proposal nobody has claimed; and what a caller is  *)
(* told about the change is true when it is told.                          *)
(*                                                                         *)
(* The promise is the module docstring of remediation/approval.py:         *)
(* "executes at most once per proposal", across restarts, with an          *)
(* uncertain outcome that is never retried.                                *)
(***************************************************************************)
EXTENDS Naturals

CONSTANTS Proposal, Caller

VARIABLES
  claimed,   \* proposals whose one execution has been given out
  effects,   \* how often the target was changed for a proposal
  told       \* what each caller was last told: [proposal, outcome]

vars == <<claimed, effects, told>>

Outcome == {"executed", "already_executed", "rejected", "recorded_only",
            "failed", "execution_uncertain"}

Answer == [proposal: Proposal, outcome: Outcome \cup {"none"}]

Init ==
  /\ claimed = {}
  /\ effects = [p \in Proposal |-> 0]
  /\ told \in [Caller -> [proposal: Proposal, outcome: {"none"}]]

Claim(p) ==
  /\ p \notin claimed
  /\ claimed' = claimed \cup {p}
  /\ UNCHANGED <<effects, told>>

Change(p) ==
  /\ p \in claimed
  /\ effects[p] = 0
  /\ effects' = [effects EXCEPT ![p] = 1]
  /\ UNCHANGED <<claimed, told>>

(***************************************************************************)
(* A caller starts a new call, or is left without an answer.               *)
(***************************************************************************)
Forget(c) ==
  /\ \E p \in Proposal : told' = [told EXCEPT ![c] = [proposal |-> p, outcome |-> "none"]]
  /\ UNCHANGED <<claimed, effects>>

Tell(c) ==
  /\ \E a \in [proposal: Proposal, outcome: Outcome] :
       /\ a.outcome \in {"executed", "already_executed"} => effects[a.proposal] = 1
       /\ a.outcome \in {"failed", "execution_uncertain"} => a.proposal \in claimed
       /\ told' = [told EXCEPT ![c] = a]
  /\ UNCHANGED <<claimed, effects>>

Next ==
  \/ \E p \in Proposal : Claim(p) \/ Change(p)
  \/ \E c \in Caller : Forget(c) \/ Tell(c)

Spec == Init /\ [][Next]_vars
=============================================================================
