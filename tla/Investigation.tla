----------------------------- MODULE Investigation -----------------------------
(***************************************************************************)
(* One investigation, agent/graph.py and agent/nodes.py under the budget   *)
(* of agent/budget.py: the entry gate, the hypotheses triage and memory    *)
(* give, rounds of commander, specialists, board and critic, and a report  *)
(* by the reporter or, when a model or the budget fails it, by the         *)
(* deterministic floor.                                                    *)
(*                                                                         *)
(* Services are their rank in triage.  The evidence id of a tool call is   *)
(* the call itself: the same question of the same recording has one id.    *)
(* A model's answer is any answer its schema allows.                       *)
(***************************************************************************)
EXTENDS Integers, Sequences, FiniteSets, SequencesExt

CONSTANTS
  NServices,             \* services triage can rank
  MaxHypotheses, MaxMemoryHypotheses,
  MinSupport,            \* MIN_SUPPORT_TO_CONCLUDE, and the gate's threshold
  MaxRounds, MaxToolCalls, MaxIdenticalCalls, StallRounds,
  MaxAssignments,        \* bound: assignments in one plan
  Assignable,            \* bound: specialists a plan names
  Metered,               \* bound: ceilings other than rounds and calls that are reached
  Configurations         \* AgentOptions: sets of switches that are on

Specialists == {"metrics_analyst", "logs_analyst", "traces_analyst", "change_analyst"}

Service   == 1 .. NServices
NoService == 0
AnyScope  == 0           \* a call that names no service

Switches == {"critic", "graph", "memory"}

Ceilings == {"budget_tokens", "budget_usd", "budget_wall_clock"}

BudgetStops == {"budget_steps", "budget_tool_calls"} \cup Ceilings

StopReason == {"complete", "stalled", "model_unavailable"} \cup BudgetStops

ASSUME LimitAssumption ==
  /\ {NServices, MaxMemoryHypotheses, MaxAssignments} \subseteq Nat
  /\ {MaxHypotheses, MinSupport, MaxRounds, MaxToolCalls, MaxIdenticalCalls, StallRounds}
       \subseteq Nat \ {0}
ASSUME ChoiceAssumption ==
  Assignable \subseteq Specialists /\ Metered \subseteq Ceilings /\ Configurations \subseteq SUBSET Switches

-----------------------------------------------------------------------------
(***************************************************************************)
(* The calls a specialist's plan makes about a service, in order.          *)
(***************************************************************************)
Plan(specialist, s) ==
  CASE specialist = "metrics_analyst" -> << <<"list_anomalies", AnyScope>> >>
    [] specialist = "logs_analyst"    -> << <<"top_error_signatures", s>> >>
    [] specialist = "traces_analyst"  -> << <<"find_traces", s>> >>
    [] specialist = "change_analyst"  -> << <<"recent_changes", AnyScope>>, <<"blast_radius", s>> >>

Recall == <<"similar_incidents", AnyScope>>

Call == {Recall} \cup
        {<<"list_anomalies", AnyScope>>, <<"recent_changes", AnyScope>>} \cup
        ({"top_error_signatures", "find_traces", "blast_radius"} \X Service)

Hypothesis == [service: Service, for: SUBSET Call, against: SUBSET Call]

Confidence == {"none", "low", "medium", "high"}

(***************************************************************************)
(* A report: who wrote it, what it names, how sure it says it is.          *)
(***************************************************************************)
Report == [by: {"nobody", "code", "reporter", "floor"}, named: Service \cup {NoService},
           confidence: Confidence,
           cited: 0 .. 3]    \* records the floor's claims cite

Unwritten == [by |-> "nobody", named |-> NoService, confidence |-> "none", cited |-> 0]

Written(named, confidence) ==
  [by |-> "reporter", named |-> named, confidence |-> confidence, cited |-> 0]

VARIABLES
  step,
  config,       \* the switches that are on
  triage,       \* [ranked, quiet, windows]
  board,        \* notebook.hypotheses, in the order of their ids
  evidence,     \* ids in the evidence store
  plan,         \* what is left of the round's assignments
  asking,       \* what is left of the specialist's calls
  gathered,     \* what the specialist has gathered
  findings,     \* this round's
  objections,   \* hypotheses with an unresolved critique
  convinced,    \* the critic's last verdict
  rounds, toolCalls, callCounts, grown,    \* BudgetState; grown is evidence_by_round
  reached,      \* ceilings of tokens, cost and time that are reached
  stopped,      \* stopped_because
  report,       \* the report as written, then as published
  status

budget == <<rounds, toolCalls, callCounts, grown>>
round  == <<plan, asking, gathered, findings>>
known  == <<config, triage>>
mind   == <<board, evidence, objections, convinced>>
vars   == <<step, known, mind, round, budget, reached, stopped, report, status>>

RunOK ==
  /\ step \in {"entry", "seed", "memory", "commander", "assign", "gather", "answer", "board",
               "critic", "end_round", "report", "floor", "finish", "done", "raised"}
  /\ config \in Configurations
  /\ triage \in [ranked: 0 .. NServices, quiet: BOOLEAN, windows: BOOLEAN]
  /\ stopped \in StopReason \cup {"none"}
  /\ report \in Report
  /\ status \in {"started", "triaged", "investigating", "reporting", "complete", "abstained", "failed"}

BoardOK ==
  /\ evidence \subseteq Call
  /\ board \in Seq(Hypothesis)
  /\ \A i, j \in 1 .. Len(board) : board[i].service = board[j].service => i = j
  /\ \A i \in 1 .. Len(board) : board[i].for \subseteq evidence /\ board[i].against \subseteq evidence
  /\ objections \subseteq 1 .. Len(board) /\ convinced \in BOOLEAN

RoundOK ==
  /\ plan \in Seq(Specialists \X (0 .. Len(board)))
  /\ asking \in Seq(Call)
  /\ gathered \subseteq evidence
  /\ findings \subseteq [about: 1 .. Len(board), supports: BOOLEAN, cites: SUBSET evidence]

BudgetOK ==
  /\ rounds \in 0 .. MaxRounds /\ toolCalls \in 0 .. MaxToolCalls
  /\ callCounts \in [Call -> 0 .. MaxIdenticalCalls]
  /\ grown \in Seq(0 .. Cardinality(Call)) /\ Len(grown) = rounds
  /\ reached \subseteq Ceilings

TypeOK == RunOK /\ BoardOK /\ RoundOK /\ BudgetOK

-----------------------------------------------------------------------------
(***************************************************************************)
(* The notebook.                                                           *)
(***************************************************************************)
Support(h) == Cardinality(h.for) - Cardinality(h.against)

NoHypothesis == 0

Leader(b) ==
  IF b = << >> THEN NoHypothesis
  ELSE CHOOSE i \in 1 .. Len(b) : \A j \in 1 .. Len(b) :
         \/ Support(b[i]) > Support(b[j])
         \/ Support(b[i]) = Support(b[j]) /\ i <= j

Fresh(s) == [service |-> s, for |-> {}, against |-> {}]

(***************************************************************************)
(* The budget.                                                             *)
(***************************************************************************)
ExhaustedAfter(n) ==
  IF n >= MaxRounds                      THEN "budget_steps"
  ELSE IF toolCalls >= MaxToolCalls      THEN "budget_tool_calls"
  ELSE IF "budget_tokens" \in reached     THEN "budget_tokens"
  ELSE IF "budget_usd" \in reached        THEN "budget_usd"
  ELSE IF "budget_wall_clock" \in reached THEN "budget_wall_clock"
  ELSE "none"

Exhausted == ExhaustedAfter(rounds)

StalledAfter(counts) ==
  /\ Len(counts) >= StallRounds + 1
  /\ \A i \in Len(counts) - StallRounds .. Len(counts) : counts[i] = counts[Len(counts)]

Spend == \E more \in SUBSET Metered : reached' = reached \cup more

-----------------------------------------------------------------------------
Init ==
  /\ step = "entry" /\ status = "started"
  /\ config \in Configurations
  /\ triage \in [ranked: 0 .. NServices, quiet: BOOLEAN, windows: BOOLEAN]
  /\ board = << >> /\ evidence = {} /\ objections = {} /\ convinced = FALSE
  /\ plan = << >> /\ asking = << >> /\ gathered = {} /\ findings = {}
  /\ rounds = 0 /\ toolCalls = 0 /\ callCounts = [c \in Call |-> 0] /\ grown = << >>
  /\ reached \in SUBSET (Metered \cap {"budget_wall_clock"})  \* the clock runs from before triage
  /\ stopped = "none" /\ report = Unwritten

(***************************************************************************)
(* BudgetExceededError and LlmError are caught by investigate(), which     *)
(* publishes the floor; what the rounds found is dropped with the frame it *)
(* was found in, the budget and the evidence store are not.                *)
(***************************************************************************)
ToFloor(reason) ==
  /\ step' = "floor" /\ stopped' = reason /\ status' = "investigating"
  /\ board' = [i \in 1 .. Len(board) |-> Fresh(board[i].service)]
  /\ objections' = {} /\ convinced' = FALSE
  /\ plan' = << >> /\ asking' = << >> /\ gathered' = {} /\ findings' = {}
  /\ UNCHANGED <<known, evidence, budget, report>>

OutOfBudget == Exhausted # "none" /\ ToFloor(Exhausted) /\ UNCHANGED reached

(***************************************************************************)
(* LlmClient.complete without an answer: refused before it is made, no     *)
(* model answers, the budget runs out between two attempts or would not    *)
(* cover the next one, or a recorded answer of the wrong shape, which no   *)
(* one catches.                                                            *)
(***************************************************************************)
NoAnswer ==
  \/ OutOfBudget
  \/ /\ Exhausted = "none"
     /\ Spend
     /\ \/ \E reason \in {"model_unavailable"} \cup (Metered \ {"budget_wall_clock"}) \cup reached' :
             ToFloor(reason)
        \/ /\ step' = "raised"
           /\ UNCHANGED <<known, mind, round, budget, stopped, report, status>>

Answered == Exhausted = "none" /\ Spend

-----------------------------------------------------------------------------
Finish(r, reason) ==
  /\ step' = "finish" /\ report' = r /\ stopped' = reason

EntryGate ==
  /\ step = "entry"
  /\ \/ /\ ~triage.windows
        /\ Finish([Unwritten EXCEPT !.by = "code"], "complete") /\ status' = "failed"
     \/ /\ triage.windows
        /\ step' = "seed" /\ status' = "triaged" /\ UNCHANGED <<stopped, report>>
  /\ UNCHANGED <<known, mind, round, budget, reached>>

Least(m, n) == IF m <= n THEN m ELSE n

SeedHypotheses ==
  /\ step = "seed"
  /\ \/ /\ triage.quiet \/ triage.ranked = 0
        /\ Finish([Unwritten EXCEPT !.by = "code"], "complete") /\ status' = "abstained"
        /\ UNCHANGED board
     \/ /\ ~triage.quiet /\ triage.ranked > 0
        /\ board' = [i \in 1 .. Least(triage.ranked, MaxHypotheses) |-> Fresh(i)]
        /\ step' = "memory" /\ status' = "investigating" /\ UNCHANGED <<stopped, report>>
  /\ UNCHANGED <<known, evidence, objections, convinced, round, budget, reached>>

Counted(c) ==
  /\ toolCalls' = toolCalls + 1
  /\ callCounts' = [callCounts EXCEPT ![c] = @ + 1]
  /\ UNCHANGED <<rounds, grown>>

OnBoard == {board[i].service : i \in 1 .. Len(board)}

\* Mutant: a past incident arrives with the record it was found in as support.
ConsultMemory_Supported ==
  /\ step = "memory" /\ Exhausted = "none"
  /\ \/ /\ "memory" \notin config
        /\ UNCHANGED <<mind, budget, reached>>
     \/ /\ "memory" \in config
        /\ Counted(Recall)
        /\ Spend
        /\ evidence' = evidence \cup {Recall}
        /\ \E more \in SeqOf(Service \ OnBoard, MaxMemoryHypotheses) :
             /\ IsInjective(more)
             /\ board' = board \o [i \in 1 .. Len(more) |->
                                     [Fresh(more[i]) EXCEPT !.for = {Recall}]]
        /\ UNCHANGED <<objections, convinced>>
  /\ step' = "commander"
  /\ UNCHANGED <<known, round, stopped, report, status>>

(***************************************************************************)
(* A lookup that cannot answer is noted; one that does is evidence, and    *)
(* the services it names that are not on the board yet join it.            *)
(***************************************************************************)
ConsultMemory ==
  /\ step = "memory" /\ Exhausted = "none"
  /\ \/ /\ "memory" \notin config
        /\ UNCHANGED <<mind, budget, reached>>
     \/ /\ "memory" \in config
        /\ Counted(Recall)
        /\ Spend
        /\ \/ UNCHANGED <<board, evidence>>
           \/ /\ evidence' = evidence \cup {Recall}
              /\ \E more \in SeqOf(Service \ OnBoard, MaxMemoryHypotheses) :
                   /\ IsInjective(more)
                   /\ board' = board \o [i \in 1 .. Len(more) |-> Fresh(more[i])]
        /\ UNCHANGED <<objections, convinced>>
  /\ step' = "commander"
  /\ UNCHANGED <<known, round, stopped, report, status>>

MemoryRefused == step = "memory" /\ OutOfBudget

-----------------------------------------------------------------------------
(***************************************************************************)
(* The commander's plan may name a hypothesis nobody has (0).              *)
(***************************************************************************)
Commander ==
  /\ step = "commander"
  /\ \/ NoAnswer
     \/ /\ Answered
        /\ plan' \in SeqOf(Assignable \X (0 .. Len(board)), MaxAssignments)
        /\ step' = "assign"
        /\ UNCHANGED <<known, mind, asking, gathered, findings, budget, stopped, report, status>>

Assign ==
  /\ step = "assign"
  /\ \/ /\ plan = << >>
        /\ step' = "board" /\ UNCHANGED round
     \/ /\ plan # << >> /\ Head(plan)[2] = NoHypothesis
        /\ plan' = Tail(plan) /\ UNCHANGED <<step, asking, gathered, findings>>
     \/ /\ plan # << >> /\ Head(plan)[2] # NoHypothesis
        /\ asking' = Plan(Head(plan)[1], board[Head(plan)[2]].service)
        /\ gathered' = {}
        /\ step' = "gather" /\ UNCHANGED <<plan, findings>>
  /\ UNCHANGED <<known, mind, budget, reached, stopped, report, status>>

Removed(c) == c[1] = "blast_radius" /\ "graph" \notin config

Repetitive(c) == callCounts[c] >= MaxIdenticalCalls

Skip ==
  /\ step = "gather" /\ asking # << >>
  /\ Removed(Head(asking)) \/ Repetitive(Head(asking))
  /\ asking' = Tail(asking)
  /\ UNCHANGED <<step, known, mind, plan, gathered, findings, budget, reached, stopped, report, status>>

CallTool ==
  /\ step = "gather" /\ asking # << >>
  /\ ~Removed(Head(asking)) /\ ~Repetitive(Head(asking))
  /\ \/ OutOfBudget
     \/ /\ Exhausted = "none"
        /\ Counted(Head(asking))
        /\ Spend
        /\ \/ UNCHANGED <<evidence, gathered>>
           \/ evidence' = evidence \cup {Head(asking)} /\ gathered' = gathered \cup {Head(asking)}
        /\ asking' = Tail(asking)
        /\ UNCHANGED <<step, known, board, objections, convinced, plan, findings, stopped, report, status>>

(***************************************************************************)
(* A specialist that gathered nothing says nothing.                        *)
(***************************************************************************)
Gathered ==
  /\ step = "gather" /\ asking = << >>
  /\ \/ /\ gathered = {}
        /\ plan' = Tail(plan) /\ step' = "assign"
     \/ /\ gathered # {}
        /\ step' = "answer" /\ UNCHANGED plan
  /\ UNCHANGED <<known, mind, asking, gathered, findings, budget, reached, stopped, report, status>>

Answer ==
  /\ step = "answer"
  /\ \/ NoAnswer
     \/ /\ Answered
        /\ \E supports \in BOOLEAN :
             findings' = findings \cup
               {[about |-> Head(plan)[2], supports |-> supports, cites |-> gathered]}
        /\ plan' = Tail(plan) /\ gathered' = {} /\ step' = "assign"
        /\ UNCHANGED <<known, mind, asking, budget, stopped, report, status>>

Cites(i, supports) == UNION {f.cites : f \in {g \in findings : g.about = i /\ g.supports = supports}}

HypothesisBoard ==
  /\ step = "board"
  /\ board' = [i \in 1 .. Len(board) |->
                 [board[i] EXCEPT !.for = @ \cup Cites(i, TRUE), !.against = @ \cup Cites(i, FALSE)]]
  /\ findings' = {}
  /\ step' = IF "critic" \in config THEN "critic" ELSE "end_round"
  /\ UNCHANGED <<known, evidence, objections, convinced, plan, asking, gathered, budget, reached,
                 stopped, report, status>>

\* Mutant: the critic's objection is not kept.
Critic_Forgotten ==
  /\ step = "critic"
  /\ \/ NoAnswer
     \/ /\ Answered
        /\ convinced' \in BOOLEAN
        /\ step' = "end_round"
        /\ UNCHANGED <<known, board, evidence, objections, round, budget, stopped, report, status>>

Critic ==
  /\ step = "critic"
  /\ \/ NoAnswer
     \/ /\ Answered
        /\ convinced' \in BOOLEAN
        /\ objections' = IF convinced' THEN objections ELSE objections \cup {Leader(board)}
        /\ step' = "end_round"
        /\ UNCHANGED <<known, board, evidence, round, budget, stopped, report, status>>

(***************************************************************************)
(* should_continue after the round is counted: budget, then stall, then    *)
(* completion.                                                             *)
(***************************************************************************)
ShouldStop(n, counts) ==
  IF ExhaustedAfter(n) # "none" THEN ExhaustedAfter(n)
  ELSE IF StalledAfter(counts) THEN "stalled"
  ELSE IF \/ board = << >>
          \/ Support(board[Leader(board)]) >= MinSupport /\ objections = {}
       THEN "complete"
  ELSE "none"

Judge(stop) ==
  \/ stop # "none" /\ stopped' = stop /\ step' = "report" /\ status' = "reporting"
  \/ stop = "none" /\ step' = "commander" /\ UNCHANGED <<stopped, status>>

\* Mutant: the round is not counted.
EndRound_Uncounted ==
  /\ step = "end_round"
  /\ Judge(ShouldStop(rounds, grown))
  /\ UNCHANGED <<known, mind, round, budget, reached, report>>

EndRound ==
  /\ step = "end_round"
  /\ rounds' = rounds + 1
  /\ grown' = Append(grown, Cardinality(evidence))
  /\ Judge(ShouldStop(rounds', grown'))
  /\ UNCHANGED <<known, mind, round, toolCalls, callCounts, reached, report>>

-----------------------------------------------------------------------------
\* Mutant: the reporter's confidence is published as it is.
Reporter_AsWritten ==
  /\ step = "report"
  /\ \/ NoAnswer
     \/ /\ Answered
        /\ \E named \in Service \cup {NoService}, confidence \in Confidence \ {"none"} :
             Finish(Written(named, confidence), stopped)
        /\ UNCHANGED <<known, mind, round, budget, status>>

Reporter ==
  /\ step = "report"
  /\ \/ NoAnswer
     \/ /\ Answered
        /\ \E named \in Service \cup {NoService}, confidence \in Confidence \ {"none"} :
             Finish(Written(named, IF stopped = "complete" THEN confidence ELSE "low"), stopped)
        /\ UNCHANGED <<known, mind, round, budget, status>>

(***************************************************************************)
(* build_floor_report ranks the services again, with the dependency graph  *)
(* whatever the configuration, and cites what its own three calls found.   *)
(***************************************************************************)
Floor ==
  /\ step = "floor"
  /\ \E named \in Service, cited \in 0 .. 3 :
       /\ "graph" \in config => named = 1
       /\ Finish([by |-> "floor", named |-> named, confidence |-> "low", cited |-> cited], stopped)
  /\ UNCHANGED <<known, mind, round, budget, reached, status>>

(***************************************************************************)
(* _finish: what the exit gate publishes is the report, its confidence     *)
(* lowered, or an abstention.  It names a service only when the leader of  *)
(* the notebook is that service and has support; the floor is read against *)
(* the notebook its own report implies.                                    *)
(***************************************************************************)
MayName(r) ==
  \/ r.named = NoService
  \/ r.by = "floor" /\ r.cited >= MinSupport
  \/ /\ r.by # "floor" /\ board # << >>
     /\ board[Leader(board)].service = r.named
     /\ Support(board[Leader(board)]) >= MinSupport

Publish ==
  /\ step = "finish"
  /\ \/ MayName(report) /\ UNCHANGED report
     \/ /\ MayName(report) /\ report.confidence = "high"
        /\ report' = [report EXCEPT !.confidence = "medium"]
     \/ report' = [report EXCEPT !.named = NoService, !.confidence = "none"]
  /\ step' = "done"
  /\ status' = IF report'.named = NoService THEN "abstained" ELSE "complete"
  /\ UNCHANGED <<known, mind, round, budget, reached, stopped>>

Over == step \in {"done", "raised"} /\ UNCHANGED vars

Next ==
  \/ EntryGate \/ SeedHypotheses \/ ConsultMemory \/ MemoryRefused
  \/ Commander \/ Assign \/ Skip \/ CallTool \/ Gathered \/ Answer
  \/ HypothesisBoard \/ Critic \/ EndRound
  \/ Reporter \/ Floor \/ Publish \/ Over

Spec == Init /\ [][Next]_vars

(***************************************************************************)
(* One thread runs the investigation, and every call it makes returns or   *)
(* raises: the backend is a local file, a model call has a timeout.        *)
(***************************************************************************)
FairSpec == Spec /\ WF_vars(Next)

-----------------------------------------------------------------------------
Published == step = "done"

(***************************************************************************)
(* "A memory-derived hypothesis cannot carry a report on its own"          *)
(* (nodes.py:209-212), and neither can a leader: a service the reporter    *)
(* names has MinSupport records for it that specialists gathered in this   *)
(* incident.                                                               *)
(***************************************************************************)
NamedIsConfirmed ==
  Published /\ report.by = "reporter" /\ report.named # NoService =>
    \E i \in 1 .. Len(board) :
      /\ board[i].service = report.named
      /\ Cardinality(board[i].for \ {Recall}) >= MinSupport

(***************************************************************************)
(* A report that does not carry the floor's label had a model behind every *)
(* step: no limit of the budget was reached before the reporter answered,  *)
(* and no model failed.  One that does is never more than low.             *)
(***************************************************************************)
FloorIsLabelled ==
  Published =>
    /\ report.by = "reporter" => stopped \in {"complete", "stalled"}
    /\ report.by = "floor" => stopped \in BudgetStops \cup {"model_unavailable"}

(***************************************************************************)
(* "On (b) or (c) the report ... lowers confidence" (SPEC.md:403): what    *)
(* was cut short is published as low or abstains, whoever wrote it.        *)
(***************************************************************************)
CutShortIsHedged ==
  Published /\ stopped # "complete" => report.confidence \in {"none", "low"}

(***************************************************************************)
(* An investigation is complete when its leader has support and no critic  *)
(* has an objection to it that was not answered.                           *)
(***************************************************************************)
CompleteIsEarned ==
  step \in {"report", "finish", "done"} /\ stopped = "complete" /\ rounds > 0 =>
    /\ objections = {}
    /\ "critic" \in config => convinced
    /\ Support(board[Leader(board)]) >= MinSupport

(***************************************************************************)
(* The investigation ends: rounds are bounded, and no model or tool can    *)
(* keep it going.                                                          *)
(***************************************************************************)
InvestigationEnds == <>(step \in {"done", "raised"})

(***************************************************************************)
(* A reader sees whether an investigation was cut short: who wrote the report *)
(* and how sure it is agree with what stopped it.                          *)
(***************************************************************************)
EarlyStopIsTold == FloorIsLabelled /\ CutShortIsHedged
=============================================================================
