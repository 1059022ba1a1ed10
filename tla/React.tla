-------------------------------- MODULE React --------------------------------
(***************************************************************************)
(* The single-agent baseline of agent/react.py: one loop that asks a model *)
(* for the next tool call until a stop, then for a report.  With the gate  *)
(* (B2) the report's citations are asked again before it is published.     *)
(*                                                                         *)
(* A model call is one step here, with the verdicts BudgetedCall promises; *)
(* the ceilings it can reach are the set Metered.                          *)
(***************************************************************************)
EXTENDS Tools

CONSTANTS
  Calls,          \* bound: the tool calls a model asks for
  Reports(_),     \* bound: the reports a model writes about the evidence held
  MaxRounds, MaxToolCalls, MaxIdenticalCalls, StallRounds,
  Metered         \* the ceilings other than rounds and calls that are reached

NoCause == "none"

Ceilings == {"budget_tokens", "budget_usd", "budget_wall_clock"}

BudgetStops == {"budget_steps", "budget_tool_calls"} \cup Ceilings

ASSUME ReactAssumption ==
  /\ {MaxRounds, MaxToolCalls, MaxIdenticalCalls, StallRounds} \subseteq Nat \ {0}
  /\ Metered \subseteq Ceilings

(***************************************************************************)
(* What an input model lets through: a window where the tool has one, a    *)
(* pattern of any length, and an id for get_evidence.                      *)
(***************************************************************************)
ASSUME CallAssumption ==
  \A c \in Calls :
    /\ c.shaped \in BOOLEAN
    /\ c.shaped /\ c.tool \in WindowTools => c.window \in Windows \ {"none"}
    /\ c.shaped /\ c.tool = "search_logs" => c.pattern \in Patterns
    /\ c.tool = "get_evidence" => c.cites # {}

VARIABLES
  gate,     \* B2
  stage,    \* deciding, calling, reporting, gating, done, crashed
  stop,     \* StopReason
  chosen,   \* the call the model asked for
  ctx,      \* the ToolContext
  budget,   \* BudgetState: rounds, calls, counts, evidence by round, ceiling reached
  shown,    \* the observations of the transcript that carry evidence
  report,   \* root cause, confidence, and the evidence each claim cites
  rerun,    \* the re-execution of its citations
  usedFloor \* the result's used_floor

rvars == <<gate, stage, stop, chosen, ctx, budget, shown, report, rerun, usedFloor>>

Registry == AllTools \ GraphTools

NoReport == [root |-> NoCause, confidence |-> "none", claims |-> <<>>]

ReactInit ==
  /\ gate \in BOOLEAN
  /\ stage = "deciding" /\ stop = "none" /\ chosen = NoStamp
  /\ ctx = FreshContext("investigation")
  /\ budget = [rounds |-> 0, calls |-> 0, counts |-> [c \in Calls |-> 0], evidence |-> <<>>, over |-> "none"]
  /\ shown = {} /\ report = NoReport /\ rerun = FreshRerun /\ usedFloor = FALSE

-----------------------------------------------------------------------------
\* Mutant: one round more than the limit.
Exhausted_Late(b) ==
  IF b.rounds > MaxRounds THEN "budget_steps"
  ELSE IF b.calls >= MaxToolCalls THEN "budget_tool_calls" ELSE b.over

Exhausted(b) ==
  IF b.rounds >= MaxRounds THEN "budget_steps"
  ELSE IF b.calls >= MaxToolCalls THEN "budget_tool_calls" ELSE b.over

Stalled(b) ==
  /\ Len(b.evidence) > StallRounds
  /\ \A i \in 0 .. StallRounds : b.evidence[Len(b.evidence) - i] = b.evidence[Len(b.evidence)]

StopReason(b) ==
  IF Exhausted(b) # "none" THEN Exhausted(b) ELSE IF Stalled(b) THEN "stalled" ELSE "none"

(***************************************************************************)
(* A ceiling, once reached, stays reached; a call or the time it takes may *)
(* reach one.                                                              *)
(***************************************************************************)
Spending(b) == {b} \cup IF b.over = "none" THEN {[b EXCEPT !.over = m] : m \in Metered} ELSE {}

(***************************************************************************)
(* LlmClient.complete: the verdicts it may come to and what it has spent.  *)
(***************************************************************************)
Consulted ==
  IF Exhausted(budget) # "none" THEN {[verdict |-> Exhausted(budget), budget |-> budget]}
  ELSE {[verdict |-> v, budget |-> b] : v \in {"answer", "llm_error", "model_unavailable", "crash"}, b \in Spending(budget)}
         \cup {[verdict |-> b.over, budget |-> b] : b \in Spending(budget) \ {budget}}

Failed(v) == v \notin {"answer", "crash"}

(***************************************************************************)
(* The model is asked for the next call: it names one, says it has         *)
(* finished, or cannot be asked.                                           *)
(***************************************************************************)
Decide ==
  /\ stage = "deciding"
  /\ \E m \in Consulted :
       /\ budget' = m.budget
       /\ \/ /\ Failed(m.verdict)
             /\ stop' = IF m.verdict \in BudgetStops THEN m.verdict ELSE "model_unavailable"
             /\ usedFloor' = TRUE /\ stage' = "reporting" /\ UNCHANGED chosen
          \/ m.verdict = "crash" /\ stage' = "crashed" /\ UNCHANGED <<stop, chosen, usedFloor>>
          \/ /\ m.verdict = "answer"
             /\ \/ stop' = "complete" /\ stage' = "reporting" /\ UNCHANGED chosen
                \/ \E c \in Calls : chosen' = c /\ stage' = "calling" /\ UNCHANGED stop
             /\ UNCHANGED usedFloor
  /\ UNCHANGED <<gate, ctx, shown, report, rerun>>

(***************************************************************************)
(* A step that gave an observation ends a round, and the budget or a stall *)
(* may end the loop.                                                       *)
(***************************************************************************)
\* Mutant: an observation without evidence does not end a round.
EndRound_Evidence(b, after, observed) ==
  /\ budget' = IF observed.kind = "error" THEN b
               ELSE [b EXCEPT !.rounds = @ + 1, !.evidence = Append(@, Cardinality(DOMAIN after.held))]
  /\ stop' = StopReason(budget')
  /\ stage' = IF stop' = "none" THEN "deciding" ELSE "reporting"
  /\ ctx' = after /\ UNCHANGED shown

EndRound(b, after, observed) ==
  LET ended == [b EXCEPT !.rounds = @ + 1, !.evidence = Append(@, Cardinality(DOMAIN after.held))]
  IN /\ budget' \in Spending(ended)
     /\ stop' = StopReason(budget')
     /\ stage' = IF stop' = "none" THEN "deciding" ELSE "reporting"
     /\ ctx' = after
     /\ shown' = shown \cup (IF observed.kind = "result" THEN {[observed EXCEPT !.kind = chosen.tool]} ELSE {})

Repetitive == budget.counts[chosen] >= MaxIdenticalCalls

(***************************************************************************)
(* _call: a repeated call is refused uncounted, the budget may end the     *)
(* loop, a ToolError is an observation; any other exception is not caught. *)
(***************************************************************************)
CallTool ==
  /\ stage = "calling"
  /\ IF Repetitive THEN EndRound(budget, ctx, Failure)
     ELSE IF Exhausted(budget) # "none"
     THEN stop' = Exhausted(budget) /\ stage' = "reporting" /\ UNCHANGED <<ctx, budget, shown>>
     ELSE LET answer == RegistryCall(Registry, ctx, chosen)
              spent  == [budget EXCEPT !.calls = @ + 1, !.counts[chosen] = @ + 1]
          IN IF answer.seen.kind = "raised"
             THEN stage' = "crashed" /\ ctx' = answer.ctx /\ budget' = spent /\ UNCHANGED <<stop, shown>>
             ELSE EndRound(spent, answer.ctx, answer.seen)
  /\ UNCHANGED <<gate, chosen, report, rerun, usedFloor>>

(***************************************************************************)
(* _write_report: what the model writes is published as it is, hedged if   *)
(* the loop was cut short; a model that cannot be asked leaves it empty.   *)
(* ReactReport takes no other confidence than the three.                   *)
(***************************************************************************)
WriteReport ==
  /\ stage = "reporting"
  /\ \E m \in Consulted :
       /\ budget' = m.budget
       /\ \/ Failed(m.verdict) /\ report' = NoReport /\ usedFloor' = TRUE
             /\ stage' = IF gate THEN "gating" ELSE "done"
          \/ m.verdict = "crash" /\ stage' = "crashed" /\ UNCHANGED <<report, usedFloor>>
          \/ /\ m.verdict = "answer"
             /\ \E r \in Reports(ctx.held) :
                  /\ r.confidence \in {"low", "medium", "high"}
                  /\ report' = [root |-> r.root, claims |-> r.claims,
                                confidence |-> IF stop = "complete" THEN r.confidence ELSE "low"]
             /\ stage' = IF gate THEN "gating" ELSE "done"
             /\ UNCHANGED usedFloor
  /\ UNCHANGED <<gate, stop, chosen, ctx, shown, rerun>>

(***************************************************************************)
(* B2: each citation in turn is asked again, through the tool that stamped *)
(* it, in a context of the gate's own.  Only a ToolError is caught.        *)
(***************************************************************************)
ReExecute ==
  /\ stage = "gating" /\ rerun.asked < Len(report.claims)
  /\ LET ref    == report.claims[rerun.asked + 1]
         stamp  == IF ref \in DOMAIN ctx.held THEN ctx.held[ref].stamp ELSE NoStamp
         answer == RegistryCall(Registry, rerun.ctx, stamp)
         same   == answer.seen.kind = "result" /\ answer.seen.id = ref
     IN IF stamp = NoStamp
        THEN rerun' = [rerun EXCEPT !.asked = @ + 1] /\ UNCHANGED stage
        ELSE /\ rerun' = [asked |-> rerun.asked + 1, ctx |-> answer.ctx,
                          back |-> rerun.back \cup (IF same THEN {ref} ELSE {})]
             /\ stage' = IF answer.seen.kind = "raised" THEN "crashed" ELSE stage
  /\ UNCHANGED <<gate, stop, chosen, ctx, budget, shown, report, usedFloor>>

(***************************************************************************)
(* Then the exit gate runs.  A claim whose citation is not verified goes,  *)
(* and the gate may withdraw the cause (module ExitGate).                  *)
(***************************************************************************)
Gate ==
  /\ stage = "gating" /\ rerun.asked = Len(report.claims)
  /\ LET kept == {i \in 1 .. Len(report.claims) : report.claims[i] \in Verified(ctx.held, rerun)}
     IN \E root \in {report.root, NoCause} :
          report' = [report EXCEPT !.root = root, !.claims = [i \in kept |-> report.claims[i]]]
  /\ stage' = "done"
  /\ UNCHANGED <<gate, stop, chosen, ctx, budget, shown, rerun, usedFloor>>

ReactNext == Decide \/ CallTool \/ WriteReport \/ ReExecute \/ Gate

(***************************************************************************)
(* One thread runs the loop; it never waits for another.                   *)
(***************************************************************************)
ReactSpec == ReactInit /\ [][ReactNext]_rvars /\ WF_rvars(ReactNext)

-----------------------------------------------------------------------------
Stages == {"deciding", "calling", "reporting", "gating", "done", "crashed"}

(***************************************************************************)
(* The state keeps its shape: the loop decides only while no stop is due.  *)
(***************************************************************************)
ReactTypeOK ==
  /\ gate \in BOOLEAN /\ usedFloor \in BOOLEAN /\ stage \in Stages
  /\ stop \in BudgetStops \cup {"none", "complete", "stalled", "model_unavailable"}
  /\ stage \in {"reporting", "gating", "done"} => stop # "none"
  /\ stage \in {"deciding", "calling"} => stop = "none"
  /\ chosen \in Calls \cup {NoStamp}
  /\ budget.rounds \in 0 .. MaxRounds /\ budget.calls \in 0 .. MaxToolCalls
  /\ Len(budget.evidence) = budget.rounds
  /\ \A t \in AllTools : ctx.used[t] \in 0 .. MaxCallsPerTool
  /\ \A t \in AllTools : rerun.ctx.used[t] \in 0 .. MaxCallsPerTool
  /\ report.confidence \in {"none", "low", "medium", "high"}

(***************************************************************************)
(* However the agent came to a record, asking its stamp again of a context *)
(* that holds nothing finds the same record; a proposal rests on evidence  *)
(* such a context does not hold, so it alone cannot be asked again.        *)
(***************************************************************************)
StampReproduces ==
  \A id \in DOMAIN ctx.held :
    LET stamp  == ctx.held[id].stamp
        answer == RegistryCall(Registry, FreshContext("gate"), stamp)
    IN /\ stamp # NoStamp
       /\ stamp.tool # "propose_remediation" => answer.seen = Shown(id, ctx.held[id].rows)

(***************************************************************************)
(* What the agent was shown under an id is what a reader finds under it,   *)
(* except where the record leaves out an argument its rows depend on: a    *)
(* runbook search asked again with another limit, and a proposal made      *)
(* again on other evidence.                                                *)
(***************************************************************************)
ShownIsHeld ==
  \A o \in shown :
    /\ o.id \in DOMAIN ctx.held
    /\ o.rows # ctx.held[o.id].rows => o.kind \in {"runbook_search", "propose_remediation"}

(***************************************************************************)
(* What B2 publishes cites evidence that was gathered and can be asked     *)
(* again: never an id the model made up, never a proposal.                 *)
(***************************************************************************)
GatedClaims ==
  gate /\ stage = "done" =>
    \A i \in DOMAIN report.claims :
      report.claims[i] \in DOMAIN ctx.held /\ report.claims[i].tool # "propose_remediation"

(***************************************************************************)
(* What the input model lets through and the handler or the backend then   *)
(* refuses by an error that is not a ToolError.                            *)
(***************************************************************************)
Unaskable(c) ==
  \/ c.window \in {"wide", "backwards"}
  \/ c.tool = "search_logs" /\ c.pattern = "long"

(***************************************************************************)
(* The failures that escape from a call are a window or a pattern its      *)
(* input model let through.  None escapes from the re-execution, which     *)
(* asks through the same registry and catches no more.                     *)
(***************************************************************************)
OnlyUnaskableEscapes ==
  [][/\ stage = "calling" /\ stage' = "crashed" => Unaskable(chosen)
     /\ stage = "gating" => stage' # "crashed"]_rvars

(***************************************************************************)
(* The loop ends whatever the model asks for.                              *)
(***************************************************************************)
EveryRunEnds == <>(stage \in {"done", "crashed"})

(***************************************************************************)
(* The evidence a run leaves is what the agent saw and what a check of the *)
(* report finds again: the record under every id, its stamp asked anew, and *)
(* the records that a published claim cites.                               *)
(***************************************************************************)
EvidenceStands == StampReproduces /\ ShownIsHeld /\ GatedClaims
=============================================================================
