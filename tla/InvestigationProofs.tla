------------------------- MODULE InvestigationProofs -------------------------
(***************************************************************************)
(* What an investigation publishes, for every budget, every number of      *)
(* services and every set of switches.  The invariant says what each step  *)
(* of investigate() may rely on: a round is only begun with budget left    *)
(* and a board to work on, nothing a specialist holds came from memory,    *)
(* and a budget that stopped the rounds is still spent when the reporter   *)
(* is asked.                                                               *)
(***************************************************************************)
EXTENDS Investigation, FiniteSetTheorems, WellFoundedInduction, TLAPS

Early    == {"entry", "seed", "memory"}
InRounds == {"commander", "assign", "gather", "answer", "board", "critic", "end_round"}

(***************************************************************************)
(* Before the first round nothing has been asked.                          *)
(***************************************************************************)
Untouched ==
  /\ step \in Early =>
       /\ rounds = 0 /\ toolCalls = 0 /\ callCounts = [c \in Call |-> 0] /\ grown = << >>
       /\ evidence = {} /\ objections = {}
       /\ plan = << >> /\ asking = << >> /\ gathered = {} /\ findings = {}
       /\ stopped = "none" /\ report = Unwritten
  /\ step \in {"entry", "seed"} => board = << >>

Started ==
  /\ step \in InRounds \cup {"memory", "report"} => board # << >>
  /\ step \in InRounds => rounds < MaxRounds
  /\ step \in {"gather", "answer"} => plan # << >> /\ Head(plan)[2] \in 1 .. Len(board)
  /\ step = "end_round" /\ "critic" \in config /\ objections = {} => convinced

(***************************************************************************)
(* What the specialists hold is not what memory recalled.                  *)
(***************************************************************************)
NotRecalled ==
  /\ \A i \in 1 .. Len(board) : Recall \notin board[i].for
  /\ Recall \notin gathered
  /\ \A i \in 1 .. Len(asking) : asking[i] # Recall
  /\ \A f \in findings : Recall \notin f.cites

(***************************************************************************)
(* Why the rounds ended, and what the report may then be.                  *)
(***************************************************************************)
Ended ==
  /\ step = "report" =>
       /\ stopped \in {"complete", "stalled"} \cup BudgetStops
       /\ stopped \in BudgetStops => Exhausted # "none"
  /\ step = "floor" => stopped \in BudgetStops \cup {"model_unavailable"}
  /\ step \in {"finish", "done"} =>
       /\ report.by = "reporter" => stopped \in {"complete", "stalled"}
       /\ report.by = "floor" => stopped \in BudgetStops \cup {"model_unavailable"}
       /\ stopped # "complete" => report.confidence \in {"none", "low"}
  /\ step = "done" => MayName(report)

Inv == TypeOK /\ Untouched /\ Started /\ NotRecalled /\ Ended /\ CompleteIsEarned

-----------------------------------------------------------------------------
(***************************************************************************)
(* Calls and the limits.                                                   *)
(***************************************************************************)
LEMMA Limits ==
  /\ NServices \in Nat /\ MaxMemoryHypotheses \in Nat /\ MaxAssignments \in Nat
  /\ MaxHypotheses \in Nat \ {0} /\ MinSupport \in Nat \ {0} /\ MaxRounds \in Nat \ {0}
  /\ MaxToolCalls \in Nat \ {0} /\ MaxIdenticalCalls \in Nat \ {0} /\ StallRounds \in Nat \ {0}
  BY LimitAssumption

LEMMA CallsAreFinite == IsFiniteSet(Call) /\ Cardinality(Call) \in Nat
<1>1. IsFiniteSet(Service)
  BY Limits, FS_Interval DEF Service
<1>2. /\ IsFiniteSet({"top_error_signatures", "find_traces", "blast_radius"})
      /\ IsFiniteSet({<<"list_anomalies", AnyScope>>, <<"recent_changes", AnyScope>>})
      /\ IsFiniteSet({Recall})
  <2>1. \A a, b : IsFiniteSet({a, b})
    <3>1. TAKE a, b
    <3>2. IsFiniteSet({a} \cup {b})
      BY FS_Singleton, FS_AddElement
    <3>3. {a, b} = {a} \cup {b}
      OBVIOUS
    <3> QED BY <3>2, <3>3
  <2>2. IsFiniteSet({"top_error_signatures", "find_traces"} \cup {"blast_radius"})
    BY <2>1, FS_AddElement
  <2>3. {"top_error_signatures", "find_traces", "blast_radius"}
          = {"top_error_signatures", "find_traces"} \cup {"blast_radius"}
    OBVIOUS
  <2> QED BY <2>1, <2>2, <2>3, FS_Singleton
<1>3. IsFiniteSet({"top_error_signatures", "find_traces", "blast_radius"} \X Service)
  BY <1>1, <1>2, FS_Product
<1>4. IsFiniteSet(Call)
  BY <1>2, <1>3, FS_Union DEF Call
<1> QED BY <1>4, FS_CardinalityType

LEMMA PlanIsCalls ==
  ASSUME NEW specialist \in Specialists, NEW s \in Service
  PROVE  /\ Plan(specialist, s) \in Seq(Call)
         /\ \A i \in 1 .. Len(Plan(specialist, s)) : Plan(specialist, s)[i] # Recall
<1>1. CASE specialist = "metrics_analyst"
  BY <1>1 DEF Plan, Call, Recall
<1>2. CASE specialist = "logs_analyst"
  BY <1>2 DEF Plan, Call, Recall
<1>3. CASE specialist = "traces_analyst"
  BY <1>3 DEF Plan, Call, Recall
<1>4. CASE specialist = "change_analyst"
  BY <1>4 DEF Plan, Call, Recall
<1> QED BY <1>1, <1>2, <1>3, <1>4 DEF Specialists

(***************************************************************************)
(* A set of naturals that has a member has a least one, and so a notebook  *)
(* with a hypothesis has a leader.                                         *)
(***************************************************************************)
LEMMA LeastNatural ==
  ASSUME NEW T \in SUBSET Nat, T # {}
  PROVE  \E x \in T : \A y \in T : x <= y
<1>1. \E x \in T : \A y \in T : ~(<<y, x>> \in OpToRel(<, Nat))
  BY NatLessThanWellFounded, WFMin
<1>2. PICK x \in T : \A y \in T : ~(<<y, x>> \in OpToRel(<, Nat))
  BY <1>1
<1>3. ASSUME NEW y \in T PROVE x <= y
  <2>1. x \in Nat /\ y \in Nat
    OBVIOUS
  <2>2. ~(y < x)
    BY <1>2, <2>1 DEF OpToRel
  <2> QED BY <2>1, <2>2
<1> QED BY <1>3

LEMMA SupportIsInt ==
  ASSUME NEW h, h.for \in SUBSET Call, h.against \in SUBSET Call
  PROVE  /\ Support(h) \in Int /\ Support(h) <= Cardinality(Call)
         /\ Cardinality(h.for) \in Nat /\ Cardinality(h.against) \in Nat
         /\ IsFiniteSet(h.for)
<1>1. IsFiniteSet(h.for) /\ IsFiniteSet(h.against) /\ Cardinality(h.for) <= Cardinality(Call)
  BY CallsAreFinite, FS_Subset
<1>2. Cardinality(h.for) \in Nat /\ Cardinality(h.against) \in Nat
  BY <1>1, FS_CardinalityType
<1> QED BY <1>1, <1>2, CallsAreFinite DEF Support

LEMMA LeaderLeads ==
  ASSUME NEW b \in Seq(Hypothesis), b # << >>
  PROVE  Leader(b) \in 1 .. Len(b)
<1> DEFINE Dom == 1 .. Len(b)
           Behind(i) == Cardinality(Call) - Support(b[i])
           Behinds == {Behind(i) : i \in Dom}
<1>1. Len(b) \in Nat \ {0}
  OBVIOUS
<1>2. ASSUME NEW i \in Dom PROVE Behind(i) \in Nat /\ Support(b[i]) \in Int
  <2>1. b[i] \in Hypothesis
    OBVIOUS
  <2>2. b[i].for \in SUBSET Call /\ b[i].against \in SUBSET Call
    BY <2>1 DEF Hypothesis
  <2> QED BY <2>2, SupportIsInt, CallsAreFinite
<1>3. Behinds \in SUBSET Nat /\ Behinds # {}
  <2>1. 1 \in Dom
    BY <1>1
  <2> QED BY <1>2, <2>1
<1>4. PICK least \in Behinds : \A y \in Behinds : least <= y
  BY <1>3, LeastNatural
<1> DEFINE Best == {i \in Dom : Behind(i) = least}
<1>5. Best \in SUBSET Nat /\ Best # {}
  BY <1>4
<1>6. PICK first \in Best : \A i \in Best : first <= i
  BY <1>5, LeastNatural
<1>7. ASSUME NEW j \in Dom
      PROVE  \/ Support(b[first]) > Support(b[j])
             \/ Support(b[first]) = Support(b[j]) /\ first <= j
  <2>1. first \in Dom /\ Behind(first) = least /\ least <= Behind(j)
    BY <1>4, <1>6
  <2>2. Behind(first) \in Nat /\ Behind(j) \in Nat /\ Support(b[first]) \in Int /\ Support(b[j]) \in Int
    BY <1>2, <2>1
  <2>3. Behind(j) = least => first <= j
    BY <1>6
  <2>4. Support(b[first]) >= Support(b[j])
    BY <2>1, <2>2, CallsAreFinite
  <2>5. Support(b[first]) = Support(b[j]) => Behind(j) = least
    BY <2>1
  <2> HIDE DEF Behind, Best, Behinds
  <2> QED BY <2>2, <2>3, <2>4, <2>5
<1>8. first \in 1 .. Len(b)
  BY <1>6
<1> HIDE DEF Behind, Best, Behinds
<1>9. \E i \in 1 .. Len(b) : \A j \in 1 .. Len(b) :
         \/ Support(b[i]) > Support(b[j])
         \/ Support(b[i]) = Support(b[j]) /\ i <= j
  BY <1>7, <1>8
<1> QED BY <1>9, Zenon DEF Leader

LEMMA WhyExhausted ==
  ASSUME NEW n
  PROVE  ExhaustedAfter(n) \in BudgetStops \cup {"none"}
  BY DEF ExhaustedAfter, BudgetStops, Ceilings

LEMMA SomethingLeft ==
  ASSUME BudgetOK, Exhausted = "none"
  PROVE  rounds < MaxRounds /\ toolCalls < MaxToolCalls
  BY Limits DEF BudgetOK, Exhausted, ExhaustedAfter

(***************************************************************************)
(* A failed model or a spent budget leaves every promise in place.         *)
(***************************************************************************)
LEMMA FloorStep ==
  ASSUME Inv, NEW reason \in BudgetStops \cup {"model_unavailable"},
         reached' \subseteq Ceilings, ToFloor(reason)
  PROVE  Inv'
<1>0. /\ step' = "floor" /\ stopped' = reason
      /\ plan' = << >> /\ asking' = << >> /\ gathered' = {} /\ findings' = {}
      /\ objections' = {} /\ convinced' = FALSE /\ status' = "investigating"
      /\ UNCHANGED <<config, triage, evidence, rounds, toolCalls, callCounts, grown, report>>
  BY DEF ToFloor, known, budget
<1>1. board \in Seq(Hypothesis) /\ Len(board) \in Nat
  BY DEF Inv, TypeOK, BoardOK
<1>2. ASSUME NEW i \in 1 .. Len(board)
      PROVE  /\ board'[i] \in Hypothesis /\ board'[i].service = board[i].service
             /\ board'[i].for = {} /\ board'[i].against = {}
  <2>0. board[i] \in Hypothesis
    BY <1>1
  <2>1. board[i].service \in Service
    BY <2>0 DEF Hypothesis
  <2>2. board'[i] = [service |-> board[i].service, for |-> {}, against |-> {}]
    BY DEF ToFloor, Fresh
  <2> QED BY <2>1, <2>2 DEF Hypothesis
<1>3. board' \in Seq(Hypothesis) /\ Len(board') = Len(board)
  BY <1>1, <1>2 DEF ToFloor
<1>4. RunOK'
  BY <1>0 DEF Inv, TypeOK, RunOK, StopReason
<1>5. BoardOK'
  <2>1. \A i, j \in 1 .. Len(board) : board[i].service = board[j].service => i = j
    BY DEF Inv, TypeOK, BoardOK
  <2>2. \A i, j \in 1 .. Len(board') : board'[i].service = board'[j].service => i = j
    BY <1>2, <1>3, <2>1
  <2>3. evidence \subseteq Call
    BY DEF Inv, TypeOK, BoardOK
  <2> QED BY <1>0, <1>2, <1>3, <2>2, <2>3 DEF BoardOK
<1>6. RoundOK'
  BY <1>0 DEF RoundOK
<1>7. BudgetOK'
  BY <1>0 DEF Inv, TypeOK, BudgetOK
<1>8. Untouched' /\ Started' /\ Ended' /\ CompleteIsEarned'
  BY <1>0 DEF Untouched, Started, Ended, CompleteIsEarned, Early, InRounds
<1>9. NotRecalled'
  BY <1>0, <1>2, <1>3 DEF NotRecalled
<1> QED BY <1>4, <1>5, <1>6, <1>7, <1>8, <1>9 DEF Inv, TypeOK

LEMMA NoAnswerStep ==
  ASSUME Inv, NoAnswer
  PROVE  Inv'
<1>1. reached \subseteq Ceilings /\ Metered \subseteq Ceilings
  BY ChoiceAssumption DEF Inv, TypeOK, BudgetOK
<1>2. CASE OutOfBudget
  <2>1. Exhausted \in BudgetStops
    BY <1>2, WhyExhausted DEF OutOfBudget, Exhausted
  <2> QED BY <1>1, <1>2, <2>1, FloorStep DEF OutOfBudget
<1>3. CASE /\ Spend
           /\ \E reason \in {"model_unavailable"} \cup (Metered \ {"budget_wall_clock"}) \cup reached' :
                ToFloor(reason)
  <2>1. reached' \subseteq Ceilings
    BY <1>1, <1>3 DEF Spend
  <2>2. PICK reason \in {"model_unavailable"} \cup (Metered \ {"budget_wall_clock"}) \cup reached' :
               ToFloor(reason)
    BY <1>3
  <2>3. reason \in BudgetStops \cup {"model_unavailable"}
    BY <1>1, <2>1 DEF BudgetStops
  <2> QED BY <2>1, <2>2, <2>3, FloorStep
<1>4. CASE Spend /\ step' = "raised"
           /\ UNCHANGED <<known, mind, round, budget, stopped, report, status>>
  <2>1. reached' \subseteq Ceilings
    BY <1>1, <1>4 DEF Spend
  <2>2. RunOK' /\ BoardOK' /\ RoundOK' /\ BudgetOK' /\ NotRecalled'
    BY <1>4, <2>1 DEF Inv, TypeOK, RunOK, BoardOK, RoundOK, BudgetOK, NotRecalled,
                      known, mind, round, budget
  <2>3. Untouched' /\ Started' /\ Ended' /\ CompleteIsEarned'
    BY <1>4 DEF Untouched, Started, Ended, CompleteIsEarned, Early, InRounds
  <2> QED BY <2>2, <2>3 DEF Inv, TypeOK
<1> QED BY <1>2, <1>3, <1>4 DEF NoAnswer

-----------------------------------------------------------------------------
LEMMA InitInv == Init => Inv
<1> SUFFICES ASSUME Init PROVE Inv
  OBVIOUS
<1>1. RunOK
  BY DEF Init, RunOK, Report, Unwritten, Confidence, NoService
<1>2. BoardOK /\ RoundOK
  <2>1. board = << >> /\ plan = << >> /\ asking = << >> /\ evidence = {} /\ gathered = {}
        /\ findings = {} /\ objections = {} /\ convinced = FALSE
    BY DEF Init
  <2>2. \A S : << >> \in Seq(S)
    OBVIOUS
  <2>3. 1 .. Len(board) = {}
    BY <2>1
  <2>4. BoardOK
    <3>1. board \in Seq(Hypothesis)
      BY <2>1, <2>2
    <3> QED BY <2>1, <2>3, <3>1 DEF BoardOK
  <2>5. RoundOK
    BY <2>1, <2>2 DEF RoundOK
  <2> QED BY <2>4, <2>5
<1>3. BudgetOK
  <2>1. reached \subseteq Ceilings
    BY ChoiceAssumption DEF Init
  <2> QED BY <2>1, Limits DEF Init, BudgetOK
<1>4. Untouched /\ Started /\ NotRecalled /\ Ended /\ CompleteIsEarned
  BY DEF Init, Untouched, Started, NotRecalled, Ended, CompleteIsEarned, InRounds, Early
<1> QED BY <1>1, <1>2, <1>3, <1>4 DEF Inv, TypeOK

LEMMA EntryGateStep == ASSUME Inv, EntryGate PROVE Inv'
<1>0. /\ step = "entry" /\ stopped = "none"
      /\ rounds = 0 /\ board = << >> /\ findings = {}
      /\ UNCHANGED <<config, triage, board, evidence, objections, convinced, plan, asking, gathered,
                     findings, rounds, toolCalls, callCounts, grown, reached>>
  BY DEF EntryGate, Inv, Untouched, Early, known, mind, round, budget
<1>1. BoardOK' /\ RoundOK' /\ BudgetOK' /\ NotRecalled'
  BY <1>0 DEF Inv, TypeOK, BoardOK, RoundOK, BudgetOK, NotRecalled
<1>2. CASE step' = "finish" /\ stopped' = "complete" /\ status' = "failed"
           /\ report' = [Unwritten EXCEPT !.by = "code"]
  <2>1. report' \in Report /\ report'.by = "code"
    BY <1>2 DEF Report, Unwritten, Confidence, NoService
  <2>2. RunOK'
    BY <1>0, <1>2, <2>1 DEF Inv, TypeOK, RunOK, StopReason
  <2> QED BY <1>0, <1>1, <1>2, <2>1, <2>2
          DEF Inv, TypeOK, Untouched, Started, Ended, CompleteIsEarned, Early, InRounds
<1>3. CASE step' = "seed" /\ status' = "triaged" /\ UNCHANGED <<stopped, report>>
  <2>1. RunOK'
    BY <1>0, <1>3 DEF Inv, TypeOK, RunOK
  <2> QED BY <1>0, <1>1, <1>3, <2>1
          DEF Inv, TypeOK, Untouched, Started, Ended, CompleteIsEarned, Early, InRounds
<1> QED BY <1>2, <1>3 DEF EntryGate, Finish

LEMMA SeedStep == ASSUME Inv, SeedHypotheses PROVE Inv'
<1>0. /\ step = "seed" /\ stopped = "none" /\ report = Unwritten
      /\ rounds = 0 /\ board = << >> /\ findings = {} /\ evidence = {} /\ objections = {}
      /\ plan = << >> /\ asking = << >> /\ gathered = {}
      /\ UNCHANGED <<config, triage, evidence, objections, convinced, plan, asking, gathered,
                     findings, rounds, toolCalls, callCounts, grown, reached>>
  BY DEF SeedHypotheses, Inv, Untouched, Early, known, round, budget
<1>1. BudgetOK'
  BY <1>0 DEF Inv, TypeOK, BudgetOK
<1>2. CASE step' = "finish" /\ stopped' = "complete" /\ status' = "abstained"
           /\ report' = [Unwritten EXCEPT !.by = "code"] /\ UNCHANGED board
  <2>1. report' \in Report /\ report'.by = "code"
    BY <1>2 DEF Report, Unwritten, Confidence, NoService
  <2>2. RunOK'
    BY <1>0, <1>2, <2>1 DEF Inv, TypeOK, RunOK, StopReason
  <2>3. BoardOK' /\ RoundOK' /\ NotRecalled'
    BY <1>0, <1>2 DEF Inv, TypeOK, BoardOK, RoundOK, NotRecalled
  <2> QED BY <1>0, <1>1, <1>2, <2>1, <2>2, <2>3
          DEF Inv, TypeOK, Untouched, Started, Ended, CompleteIsEarned, Early, InRounds
<1>3. CASE /\ triage.ranked > 0
           /\ board' = [i \in 1 .. Least(triage.ranked, MaxHypotheses) |-> Fresh(i)]
           /\ step' = "memory" /\ status' = "investigating" /\ UNCHANGED <<stopped, report>>
  <2> DEFINE n == Least(triage.ranked, MaxHypotheses)
  <2>1. triage.ranked \in 1 .. NServices
    BY <1>3, Limits DEF Inv, TypeOK, RunOK
  <2>2. n \in Nat \ {0} /\ n <= NServices
    BY <2>1, Limits DEF Least
  <2>3. ASSUME NEW i \in 1 .. n
        PROVE  /\ board'[i] \in Hypothesis /\ board'[i].service = i
               /\ board'[i].for = {} /\ board'[i].against = {}
    <3>1. board'[i] = [service |-> i, for |-> {}, against |-> {}]
      BY <1>3, <2>3 DEF Fresh
    <3>2. i \in Service
      BY <2>2, Limits DEF Service
    <3> QED BY <3>1, <3>2 DEF Hypothesis
  <2>4. board' \in Seq(Hypothesis) /\ Len(board') = n
    <3>1. board' = [i \in 1 .. n |-> board'[i]]
      BY <1>3
    <3> HIDE DEF n
    <3> QED BY <2>2, <2>3, <3>1
  <2> HIDE DEF n
  <2>5. BoardOK'
    <3>1. \A i, j \in 1 .. Len(board') : board'[i].service = board'[j].service => i = j
      BY <2>3, <2>4
    <3> QED BY <1>0, <2>3, <2>4, <3>1 DEF Inv, TypeOK, BoardOK
  <2>6. RoundOK' /\ NotRecalled'
    <3>1. \A S : << >> \in Seq(S)
      OBVIOUS
    <3> QED BY <1>0, <2>3, <2>4, <3>1 DEF RoundOK, NotRecalled
  <2>7. RunOK'
    BY <1>0, <1>3 DEF Inv, TypeOK, RunOK
  <2>8. board' # << >>
    BY <2>2, <2>4
  <2> QED BY <1>0, <1>1, <1>3, <2>5, <2>6, <2>7, <2>8
          DEF Inv, TypeOK, Untouched, Started, Ended, CompleteIsEarned, Early, InRounds
<1> QED BY <1>2, <1>3 DEF SeedHypotheses, Finish

LEMMA MemoryRefusedStep == ASSUME Inv, MemoryRefused PROVE Inv'
  BY NoAnswerStep DEF MemoryRefused, NoAnswer

LEMMA CommanderStep == ASSUME Inv, Commander PROVE Inv'
<1>1. CASE NoAnswer
  BY <1>1, NoAnswerStep
<1>2. CASE /\ Answered /\ plan' \in SeqOf(Assignable \X (0 .. Len(board)), MaxAssignments)
           /\ step' = "assign"
           /\ UNCHANGED <<known, mind, asking, gathered, findings, budget, stopped, report, status>>
  <2>0. step = "commander" /\ reached' \subseteq Ceilings
    BY <1>2, ChoiceAssumption DEF Commander, Answered, Spend, Inv, TypeOK, BudgetOK
  <2>1. plan' \in Seq(Specialists \X (0 .. Len(board)))
    <3>1. Assignable \X (0 .. Len(board)) \subseteq Specialists \X (0 .. Len(board))
      BY ChoiceAssumption
    <3>2. PICK m \in 0 .. MaxAssignments : plan' \in [1 .. m -> Assignable \X (0 .. Len(board))]
      BY <1>2, Limits DEF SeqOf
    <3>3. plan' \in [1 .. m -> Specialists \X (0 .. Len(board))] /\ m \in Nat
      BY <3>1, <3>2, Limits
    <3> QED BY <3>3
  <2>2. RunOK' /\ BoardOK' /\ BudgetOK' /\ NotRecalled'
    BY <1>2, <2>0 DEF Inv, TypeOK, RunOK, BoardOK, BudgetOK, NotRecalled, known, mind, budget
  <2>3. RoundOK'
    BY <1>2, <2>1 DEF Inv, TypeOK, RoundOK, mind
  <2>4. Untouched' /\ Started' /\ Ended' /\ CompleteIsEarned'
    BY <1>2, <2>0 DEF Inv, Untouched, Started, Ended, CompleteIsEarned, Early, InRounds, mind, budget
  <2> QED BY <2>2, <2>3, <2>4 DEF Inv, TypeOK
<1> QED BY <1>1, <1>2 DEF Commander

LEMMA AssignStep == ASSUME Inv, Assign PROVE Inv'
<1>0. /\ step = "assign"
      /\ UNCHANGED <<config, triage, board, evidence, objections, convinced, rounds, toolCalls,
                     callCounts, grown, reached, stopped, report, status>>
  BY DEF Assign, known, mind, budget
<1>1. BoardOK' /\ BudgetOK'
  BY <1>0 DEF Inv, TypeOK, BoardOK, BudgetOK
<1>2. CASE plan = << >> /\ step' = "board" /\ UNCHANGED round
  <2>1. RunOK' /\ RoundOK' /\ NotRecalled'
    BY <1>0, <1>2 DEF Inv, TypeOK, RunOK, RoundOK, NotRecalled, round
  <2> QED BY <1>0, <1>1, <1>2, <2>1
          DEF Inv, TypeOK, Untouched, Started, Ended, CompleteIsEarned, Early, InRounds
<1>3. CASE plan # << >> /\ plan' = Tail(plan) /\ UNCHANGED <<step, asking, gathered, findings>>
  <2>1. plan' \in Seq(Specialists \X (0 .. Len(board)))
    BY <1>3 DEF Inv, TypeOK, RoundOK
  <2>2. RunOK' /\ RoundOK' /\ NotRecalled'
    BY <1>0, <1>3, <2>1 DEF Inv, TypeOK, RunOK, RoundOK, NotRecalled
  <2> QED BY <1>0, <1>1, <1>3, <2>2
          DEF Inv, TypeOK, Untouched, Started, Ended, CompleteIsEarned, Early, InRounds
<1>4. CASE /\ plan # << >> /\ Head(plan)[2] # NoHypothesis
           /\ asking' = Plan(Head(plan)[1], board[Head(plan)[2]].service)
           /\ gathered' = {} /\ step' = "gather" /\ UNCHANGED <<plan, findings>>
  <2>1. Head(plan) \in Specialists \X (0 .. Len(board))
    BY <1>4 DEF Inv, TypeOK, RoundOK
  <2>2. Head(plan)[1] \in Specialists /\ Head(plan)[2] \in 1 .. Len(board)
    <3>1. Len(board) \in Nat
      BY DEF Inv, TypeOK, BoardOK
    <3> QED BY <1>4, <2>1, <3>1 DEF NoHypothesis
  <2>3. board[Head(plan)[2]].service \in Service
    <3>1. board[Head(plan)[2]] \in Hypothesis
      BY <2>2 DEF Inv, TypeOK, BoardOK
    <3> QED BY <3>1 DEF Hypothesis
  <2>4. asking' \in Seq(Call) /\ \A i \in 1 .. Len(asking') : asking'[i] # Recall
    BY <1>4, <2>2, <2>3, PlanIsCalls
  <2>5. RunOK' /\ RoundOK'
    BY <1>0, <1>4, <2>4 DEF Inv, TypeOK, RunOK, RoundOK
  <2>6. NotRecalled'
    BY <1>0, <1>4, <2>4 DEF Inv, NotRecalled
  <2> QED BY <1>0, <1>1, <1>4, <2>2, <2>5, <2>6
          DEF Inv, TypeOK, Untouched, Started, Ended, CompleteIsEarned, Early, InRounds
<1> QED BY <1>2, <1>3, <1>4 DEF Assign

LEMMA SkipStep == ASSUME Inv, Skip PROVE Inv'
<1>0. /\ step = "gather" /\ asking # << >> /\ asking' = Tail(asking)
      /\ UNCHANGED <<step, config, triage, board, evidence, objections, convinced, plan, gathered,
                     findings, rounds, toolCalls, callCounts, grown, reached, stopped, report, status>>
  BY DEF Skip, known, mind, budget
<1>1. RunOK' /\ BoardOK' /\ BudgetOK'
  BY <1>0 DEF Inv, TypeOK, RunOK, BoardOK, BudgetOK
<1>2. /\ asking' \in Seq(Call) /\ Len(asking') = Len(asking) - 1 /\ Len(asking) \in Nat
      /\ \A i \in 1 .. Len(asking) - 1 : asking'[i] = asking[i + 1]
  BY <1>0 DEF Inv, TypeOK, RoundOK
<1>3. RoundOK'
  BY <1>0, <1>2 DEF Inv, TypeOK, RoundOK
<1>4. NotRecalled'
  <2>1. \A i \in 1 .. Len(asking') : asking'[i] # Recall
    BY <1>2 DEF Inv, NotRecalled
  <2> QED BY <1>0, <2>1 DEF Inv, NotRecalled
<1> QED BY <1>0, <1>1, <1>3, <1>4
        DEF Inv, TypeOK, Untouched, Started, Ended, CompleteIsEarned, Early, InRounds

(***************************************************************************)
(* A call that is counted stays within both limits.                        *)
(***************************************************************************)
LEMMA CountedInBudget ==
  ASSUME BudgetOK, Exhausted = "none", NEW c \in Call, callCounts[c] < MaxIdenticalCalls,
         Counted(c), reached' \subseteq Ceilings
  PROVE  BudgetOK'
<1>1. toolCalls' \in 0 .. MaxToolCalls
  BY SomethingLeft, Limits DEF BudgetOK, Counted
<1>2. callCounts' \in [Call -> 0 .. MaxIdenticalCalls]
  <2>1. callCounts[c] + 1 \in 0 .. MaxIdenticalCalls
    BY Limits DEF BudgetOK
  <2> QED BY <2>1 DEF BudgetOK, Counted
<1> QED BY <1>1, <1>2 DEF BudgetOK, Counted

LEMMA CallToolStep == ASSUME Inv, CallTool PROVE Inv'
<1>1. CASE OutOfBudget
  BY <1>1, NoAnswerStep DEF NoAnswer
<1>2. CASE ~OutOfBudget
  <2> DEFINE c == Head(asking)
  <2>0. /\ step = "gather" /\ asking # << >> /\ asking' = Tail(asking)
        /\ Exhausted = "none" /\ Counted(c) /\ ~Repetitive(c) /\ Spend
        /\ UNCHANGED <<step, config, triage, board, objections, convinced, plan, findings, rounds,
                       grown, stopped, report, status>>
    BY <1>2 DEF CallTool, known, Counted
  <2>1. \/ UNCHANGED <<evidence, gathered>>
        \/ evidence' = evidence \cup {c} /\ gathered' = gathered \cup {c}
    BY <1>2 DEF CallTool
  <2>2. /\ asking \in Seq(Call) /\ asking' \in Seq(Call)
        /\ Len(asking') = Len(asking) - 1 /\ Len(asking) \in Nat \ {0}
        /\ \A i \in 1 .. Len(asking) - 1 : asking'[i] = asking[i + 1]
        /\ c \in Call /\ c = asking[1]
    BY <2>0 DEF Inv, TypeOK, RoundOK
  <2>3. c # Recall /\ callCounts[c] < MaxIdenticalCalls
    <3>1. callCounts[c] \in 0 .. MaxIdenticalCalls
      BY <2>2 DEF Inv, TypeOK, BudgetOK
    <3> QED BY <2>0, <2>2, <3>1, Limits DEF Inv, NotRecalled, Repetitive
  <2> HIDE DEF c
  <2>4. BudgetOK'
    <3>1. reached' \subseteq Ceilings
      BY <2>0, ChoiceAssumption DEF Spend, Inv, TypeOK, BudgetOK
    <3> QED BY <2>0, <2>2, <2>3, <3>1, CountedInBudget DEF Inv, TypeOK
  <2>5. evidence \subseteq evidence' /\ evidence' \subseteq Call /\ gathered' \subseteq evidence'
        /\ Recall \notin gathered'
    BY <2>1, <2>2, <2>3 DEF Inv, TypeOK, BoardOK, RoundOK, NotRecalled
  <2>6. RunOK' /\ BoardOK'
    BY <2>0, <2>5 DEF Inv, TypeOK, RunOK, BoardOK
  <2>7. RoundOK'
    <3>1. findings' \subseteq [about: 1 .. Len(board'), supports: BOOLEAN, cites: SUBSET evidence']
      <4>1. [about: 1 .. Len(board), supports: BOOLEAN, cites: SUBSET evidence]
              \subseteq [about: 1 .. Len(board), supports: BOOLEAN, cites: SUBSET evidence']
        BY <2>5
      <4> QED BY <2>0, <4>1 DEF Inv, TypeOK, RoundOK
    <3> QED BY <2>0, <2>2, <2>5, <3>1 DEF Inv, TypeOK, RoundOK
  <2>8. NotRecalled'
    <3>1. \A i \in 1 .. Len(asking') : asking'[i] # Recall
      BY <2>2 DEF Inv, NotRecalled
    <3> QED BY <2>0, <2>5, <3>1 DEF Inv, NotRecalled
  <2> QED BY <2>0, <2>4, <2>6, <2>7, <2>8
          DEF Inv, TypeOK, Untouched, Started, Ended, CompleteIsEarned, Early, InRounds
<1> QED BY <1>1, <1>2

LEMMA GatheredStep == ASSUME Inv, Gathered PROVE Inv'
<1>0. /\ step = "gather" /\ step' \in {"assign", "answer"}
      /\ \/ plan' = Tail(plan) /\ step' = "assign"
         \/ plan' = plan
      /\ UNCHANGED <<config, triage, board, evidence, objections, convinced, asking, gathered,
                     findings, rounds, toolCalls, callCounts, grown, reached, stopped, report, status>>
  BY DEF Gathered, known, mind, budget
<1>1. plan \in Seq(Specialists \X (0 .. Len(board))) /\ plan # << >>
  BY <1>0 DEF Inv, TypeOK, RoundOK, Started
<1>2. plan' \in Seq(Specialists \X (0 .. Len(board)))
  <2>1. Tail(plan) \in Seq(Specialists \X (0 .. Len(board)))
    BY <1>1
  <2>2. plan' = plan \/ plan' = Tail(plan)
    BY <1>0
  <2> QED BY <1>1, <2>1, <2>2
<1>3. RunOK' /\ BoardOK' /\ RoundOK' /\ BudgetOK' /\ NotRecalled'
  BY <1>0, <1>2 DEF Inv, TypeOK, RunOK, BoardOK, RoundOK, BudgetOK, NotRecalled
<1> QED BY <1>0, <1>3
        DEF Inv, TypeOK, Untouched, Started, Ended, CompleteIsEarned, Early, InRounds

LEMMA AnswerStep == ASSUME Inv, Answer PROVE Inv'
<1>1. CASE NoAnswer
  BY <1>1, NoAnswerStep
<1>2. CASE ~NoAnswer
  <2>0. /\ step = "answer" /\ Spend /\ step' = "assign" /\ plan' = Tail(plan) /\ gathered' = {}
        /\ UNCHANGED <<config, triage, board, evidence, objections, convinced, asking, rounds,
                       toolCalls, callCounts, grown, stopped, report, status>>
    BY <1>2 DEF Answer, Answered, known, mind, budget
  <2>1. PICK supports \in BOOLEAN :
          findings' = findings \cup
            {[about |-> Head(plan)[2], supports |-> supports, cites |-> gathered]}
    BY <1>2 DEF Answer
  <2>2. reached' \subseteq Ceilings
    BY <2>0, ChoiceAssumption DEF Spend, Inv, TypeOK, BudgetOK
  <2>3. plan \in Seq(Specialists \X (0 .. Len(board))) /\ plan # << >> /\ Head(plan)[2] \in 1 .. Len(board)
    BY <2>0 DEF Inv, TypeOK, RoundOK, Started
  <2>4. plan' \in Seq(Specialists \X (0 .. Len(board)))
    BY <2>0, <2>3
  <2>5. RunOK' /\ BoardOK' /\ BudgetOK'
    BY <2>0, <2>2 DEF Inv, TypeOK, RunOK, BoardOK, BudgetOK
  <2>6. RoundOK'
    BY <2>0, <2>1, <2>3, <2>4 DEF Inv, TypeOK, RoundOK
  <2>7. NotRecalled'
    BY <2>0, <2>1 DEF Inv, NotRecalled
  <2> QED BY <2>0, <2>5, <2>6, <2>7
          DEF Inv, TypeOK, Untouched, Started, Ended, CompleteIsEarned, Early, InRounds
<1> QED BY <1>1, <1>2

(***************************************************************************)
(* The board gains the records its findings cite, and findings cite what   *)
(* specialists gathered.                                                   *)
(***************************************************************************)
LEMMA HypothesisBoardStep == ASSUME Inv, HypothesisBoard PROVE Inv'
<1>0. /\ step = "board" /\ findings' = {}
      /\ step' = IF "critic" \in config THEN "critic" ELSE "end_round"
      /\ UNCHANGED <<config, triage, evidence, objections, convinced, plan, asking, gathered, rounds,
                     toolCalls, callCounts, grown, reached, stopped, report, status>>
  BY DEF HypothesisBoard, known, budget
<1>1. /\ board \in Seq(Hypothesis) /\ Len(board) \in Nat /\ evidence \subseteq Call
      /\ \A i \in 1 .. Len(board) : board[i].for \subseteq evidence /\ board[i].against \subseteq evidence
  BY DEF Inv, TypeOK, BoardOK
<1>2. ASSUME NEW i, NEW supports \in BOOLEAN
      PROVE  Cites(i, supports) \subseteq evidence /\ Recall \notin Cites(i, supports)
  <2>1. \A f \in findings : f.cites \subseteq evidence /\ Recall \notin f.cites
    BY DEF Inv, TypeOK, RoundOK, NotRecalled
  <2> QED BY <2>1 DEF Cites
<1>3. ASSUME NEW i \in 1 .. Len(board)
      PROVE  /\ board'[i] \in Hypothesis /\ board'[i].service = board[i].service
             /\ board'[i].for \subseteq evidence /\ board'[i].against \subseteq evidence
             /\ Recall \notin board'[i].for
  <2>1. board[i] \in Hypothesis
    BY <1>1
  <2>2. board'[i] = [service |-> board[i].service,
                     for     |-> board[i].for \cup Cites(i, TRUE),
                     against |-> board[i].against \cup Cites(i, FALSE)]
    BY <2>1 DEF HypothesisBoard, Hypothesis
  <2>3. /\ board[i].for \cup Cites(i, TRUE) \subseteq evidence
        /\ board[i].against \cup Cites(i, FALSE) \subseteq evidence
        /\ Recall \notin board[i].for \cup Cites(i, TRUE)
    BY <1>1, <1>2 DEF Inv, NotRecalled
  <2>4. board[i].service \in Service
    BY <2>1 DEF Hypothesis
  <2> DEFINE for == board[i].for \cup Cites(i, TRUE)
             against == board[i].against \cup Cites(i, FALSE)
  <2>5. for \in SUBSET Call /\ against \in SUBSET Call
    BY <1>1, <2>3
  <2>6. board'[i] = [service |-> board[i].service, for |-> for, against |-> against]
    BY <2>2
  <2>7. /\ for \subseteq evidence /\ against \subseteq evidence /\ Recall \notin for
    BY <2>3
  <2> HIDE DEF for, against
  <2>8. board'[i] \in Hypothesis
    BY <2>4, <2>5, <2>6 DEF Hypothesis
  <2> QED BY <2>6, <2>7, <2>8
<1>4. board' \in Seq(Hypothesis) /\ Len(board') = Len(board)
  <2>1. board' = [i \in 1 .. Len(board) |-> board'[i]]
    BY DEF HypothesisBoard
  <2> QED BY <1>1, <1>3, <2>1
<1>5. BoardOK'
  <2>1. \A i, j \in 1 .. Len(board) : board[i].service = board[j].service => i = j
    BY DEF Inv, TypeOK, BoardOK
  <2>2. \A i, j \in 1 .. Len(board') : board'[i].service = board'[j].service => i = j
    BY <1>3, <1>4, <2>1
  <2>3. objections \subseteq 1 .. Len(board) /\ convinced \in BOOLEAN
    BY DEF Inv, TypeOK, BoardOK
  <2> QED BY <1>0, <1>1, <1>3, <1>4, <2>2, <2>3 DEF BoardOK
<1>6. RunOK' /\ BudgetOK'
  BY <1>0 DEF Inv, TypeOK, RunOK, BudgetOK
<1>7. RoundOK'
  BY <1>0, <1>4 DEF Inv, TypeOK, RoundOK
<1>8. NotRecalled'
  BY <1>0, <1>3, <1>4 DEF Inv, NotRecalled
<1>9. board' # << >>
  <2>1. board # << >>
    BY <1>0 DEF Inv, Started, InRounds
  <2> QED BY <1>1, <1>4, <2>1
<1> QED
  <2>1. step' \in {"critic", "end_round"} /\ (step' = "end_round" => "critic" \notin config')
    BY <1>0
  <2>2. rounds' < MaxRounds
    BY <1>0 DEF Inv, Started, InRounds
  <2>3. Untouched' /\ Started' /\ Ended' /\ CompleteIsEarned'
    BY <1>9, <2>1, <2>2 DEF Untouched, Started, Ended, CompleteIsEarned, Early, InRounds
  <2> QED BY <1>5, <1>6, <1>7, <1>8, <2>3 DEF Inv, TypeOK

LEMMA CriticStep == ASSUME Inv, Critic PROVE Inv'
<1>1. CASE NoAnswer
  BY <1>1, NoAnswerStep
<1>2. CASE /\ Answered /\ convinced' \in BOOLEAN
           /\ objections' = IF convinced' THEN objections ELSE objections \cup {Leader(board)}
           /\ step' = "end_round"
           /\ UNCHANGED <<known, board, evidence, round, budget, stopped, report, status>>
  <2>0. /\ step = "critic" /\ reached' \subseteq Ceilings
        /\ UNCHANGED <<config, triage, board, evidence, plan, asking, gathered, findings, rounds,
                       toolCalls, callCounts, grown, stopped, report, status>>
    BY <1>2, ChoiceAssumption
       DEF Critic, Answered, Spend, Inv, TypeOK, BudgetOK, known, round, budget
  <2>1. board \in Seq(Hypothesis) /\ board # << >> /\ rounds < MaxRounds
    BY <2>0 DEF Inv, TypeOK, BoardOK, Started, InRounds
  <2>2. Leader(board) \in 1 .. Len(board)
    BY <2>1, LeaderLeads
  <2>3. objections' \subseteq 1 .. Len(board) /\ (objections' = {} => convinced')
    BY <1>2, <2>2 DEF Inv, TypeOK, BoardOK
  <2>4. RunOK' /\ BoardOK' /\ RoundOK' /\ BudgetOK' /\ NotRecalled'
    BY <1>2, <2>0, <2>3 DEF Inv, TypeOK, RunOK, BoardOK, RoundOK, BudgetOK, NotRecalled
  <2>5. Untouched' /\ Started' /\ Ended' /\ CompleteIsEarned'
    BY <1>2, <2>0, <2>1, <2>3 DEF Untouched, Started, Ended, CompleteIsEarned, Early, InRounds
  <2> QED BY <2>4, <2>5 DEF Inv, TypeOK
<1> QED BY <1>1, <1>2 DEF Critic

(***************************************************************************)
(* A round ends the loop for a reason the code names, and only a leader    *)
(* with support and no objection completes it.                             *)
(***************************************************************************)
LEMMA EndRoundStep == ASSUME Inv, EndRound PROVE Inv'
<1> DEFINE n == rounds + 1
           counts == Append(grown, Cardinality(evidence))
           stop == ShouldStop(n, counts)
<1>0. /\ step = "end_round" /\ rounds' = n /\ grown' = counts /\ Judge(stop)
      /\ UNCHANGED <<config, triage, board, evidence, objections, convinced, plan, asking, gathered,
                     findings, toolCalls, callCounts, reached, report>>
  BY DEF EndRound, known, mind, round
<1>1. /\ rounds \in Nat /\ rounds < MaxRounds /\ board # << >>
      /\ ("critic" \in config /\ objections = {} => convinced)
  BY <1>0, Limits DEF Inv, TypeOK, BudgetOK, Started, InRounds
<1>2. BudgetOK'
  <2>1. Cardinality(evidence) \in 0 .. Cardinality(Call)
    <3>1. evidence \subseteq Call
      BY DEF Inv, TypeOK, BoardOK
    <3>2. IsFiniteSet(evidence) /\ Cardinality(evidence) <= Cardinality(Call)
      BY <3>1, CallsAreFinite, FS_Subset
    <3> QED BY <3>2, CallsAreFinite, FS_CardinalityType
  <2>2. grown \in Seq(0 .. Cardinality(Call)) /\ Len(grown) = rounds
    BY DEF Inv, TypeOK, BudgetOK
  <2>3. counts \in Seq(0 .. Cardinality(Call)) /\ Len(counts) = n
    BY <2>1, <2>2
  <2>4. n \in 0 .. MaxRounds
    BY <1>1, Limits
  <2> HIDE DEF n, counts
  <2> QED BY <1>0, <2>3, <2>4 DEF Inv, TypeOK, BudgetOK
<1>3. /\ stop \in {"complete", "stalled", "none"} \cup BudgetStops
      /\ stop \in BudgetStops => ExhaustedAfter(n) # "none"
      /\ stop = "complete" => objections = {} /\ Support(board[Leader(board)]) >= MinSupport
  <2>1. ExhaustedAfter(n) \in BudgetStops \cup {"none"}
    BY WhyExhausted
  <2>2. {"complete", "stalled", "none"} \cap BudgetStops = {}
    BY DEF BudgetStops, Ceilings
  <2> HIDE DEF n, counts
  <2> QED BY <1>1, <2>1, <2>2 DEF ShouldStop
<1>4. BoardOK' /\ RoundOK' /\ NotRecalled'
  BY <1>0 DEF Inv, TypeOK, BoardOK, RoundOK, NotRecalled
<1>5. CASE /\ stop # "none" /\ stopped' = stop /\ step' = "report" /\ status' = "reporting"
  <2>1. Exhausted' = ExhaustedAfter(n)
    BY <1>0 DEF Exhausted, ExhaustedAfter
  <2>2. RunOK'
    BY <1>0, <1>3, <1>5 DEF Inv, TypeOK, RunOK, StopReason
  <2>3. /\ stopped' \in {"complete", "stalled"} \cup BudgetStops
        /\ stopped' \in BudgetStops => Exhausted' # "none"
        /\ stopped' = "complete" =>
             /\ objections' = {} /\ ("critic" \in config' => convinced')
             /\ Support(board'[Leader(board')]) >= MinSupport
    BY <1>0, <1>1, <1>3, <1>5, <2>1
  <2> HIDE DEF n, counts, stop
  <2>4. Untouched' /\ Started' /\ Ended' /\ CompleteIsEarned'
    BY <1>0, <1>1, <1>5, <2>3 DEF Untouched, Started, Ended, CompleteIsEarned, Early, InRounds
  <2> QED BY <1>2, <1>4, <2>2, <2>4 DEF Inv, TypeOK
<1>6. CASE stop = "none" /\ step' = "commander" /\ UNCHANGED <<stopped, status>>
  <2>1. n < MaxRounds
    <3>1. ExhaustedAfter(n) = "none"
      BY <1>6 DEF ShouldStop
    <3> QED BY <1>1, <3>1, Limits DEF ExhaustedAfter
  <2>2. RunOK'
    BY <1>0, <1>6 DEF Inv, TypeOK, RunOK
  <2> HIDE DEF n, counts, stop
  <2>3. Untouched' /\ Started' /\ Ended' /\ CompleteIsEarned'
    BY <1>0, <1>1, <1>6, <2>1 DEF Untouched, Started, Ended, CompleteIsEarned, Early, InRounds
  <2> QED BY <1>2, <1>4, <2>2, <2>3 DEF Inv, TypeOK
<1> QED
  <2> HIDE DEF n, counts, stop
  <2> QED BY <1>0, <1>5, <1>6 DEF Judge

(***************************************************************************)
(* Memory adds hypotheses, and none of them has support.                   *)
(***************************************************************************)
LEMMA ConsultMemoryStep == ASSUME Inv, ConsultMemory PROVE Inv'
<1>0. /\ step = "memory" /\ step' = "commander" /\ Exhausted = "none"
      /\ plan = << >> /\ asking = << >> /\ gathered = {} /\ findings = {} /\ rounds = 0
      /\ evidence = {} /\ board # << >>
      /\ UNCHANGED <<config, triage, plan, asking, gathered, findings, stopped, report, status>>
  BY DEF ConsultMemory, Inv, Untouched, Started, Early, known, round
<1>1. /\ board \in Seq(Hypothesis) /\ Len(board) \in Nat \ {0} /\ rounds < MaxRounds
      /\ \A i, j \in 1 .. Len(board) : board[i].service = board[j].service => i = j
      /\ \A i \in 1 .. Len(board) : board[i].for = {} /\ board[i].against = {}
  BY <1>0, SomethingLeft DEF Inv, TypeOK, BoardOK
<1>2. RunOK'
  BY <1>0 DEF Inv, TypeOK, RunOK
<1>3. CASE UNCHANGED <<mind, budget, reached>>
  <2>1. BoardOK' /\ RoundOK' /\ BudgetOK' /\ NotRecalled'
    BY <1>0, <1>3 DEF Inv, TypeOK, BoardOK, RoundOK, BudgetOK, NotRecalled, mind, budget
  <2>2. Untouched' /\ Started' /\ Ended' /\ CompleteIsEarned'
    BY <1>0, <1>1, <1>3 DEF Untouched, Started, Ended, CompleteIsEarned, Early, InRounds, mind, budget
  <2> QED BY <1>2, <2>1, <2>2 DEF Inv, TypeOK
<1>4. CASE /\ Counted(Recall) /\ Spend /\ UNCHANGED <<objections, convinced>>
           /\ \/ UNCHANGED <<board, evidence>>
              \/ /\ evidence' = evidence \cup {Recall}
                 /\ \E more \in SeqOf(Service \ OnBoard, MaxMemoryHypotheses) :
                      /\ IsInjective(more)
                      /\ board' = board \o [i \in 1 .. Len(more) |-> Fresh(more[i])]
  <2>1. Recall \in Call /\ callCounts[Recall] = 0
    BY <1>0 DEF Call, Inv, Untouched, Early
  <2>2. BudgetOK'
    <3>1. reached' \subseteq Ceilings
      BY <1>4, ChoiceAssumption DEF Spend, Inv, TypeOK, BudgetOK
    <3>2. callCounts[Recall] < MaxIdenticalCalls
      BY <2>1, Limits
    <3> QED BY <1>0, <1>4, <2>1, <3>1, <3>2, CountedInBudget DEF Inv, TypeOK
  <2>3. evidence' \subseteq Call
    BY <1>0, <1>4, <2>1
  <2>4. /\ board' \in Seq(Hypothesis) /\ Len(board') \in Nat \ {0} /\ Len(board) <= Len(board')
        /\ \A i, j \in 1 .. Len(board') : board'[i].service = board'[j].service => i = j
        /\ \A i \in 1 .. Len(board') : board'[i].for = {} /\ board'[i].against = {}
    <3>1. CASE UNCHANGED <<board, evidence>>
      BY <1>1, <3>1
    <3>2. CASE \E more \in SeqOf(Service \ OnBoard, MaxMemoryHypotheses) :
                 /\ IsInjective(more)
                 /\ board' = board \o [i \in 1 .. Len(more) |-> Fresh(more[i])]
      <4>1. PICK more \in SeqOf(Service \ OnBoard, MaxMemoryHypotheses) :
                 /\ IsInjective(more)
                 /\ board' = board \o [i \in 1 .. Len(more) |-> Fresh(more[i])]
        BY <3>2
      <4>2. PICK m \in 0 .. MaxMemoryHypotheses : more \in [1 .. m -> Service \ OnBoard]
        BY <4>1, Limits DEF SeqOf
      <4>3. m \in Nat /\ Len(more) = m
        BY <4>2, Limits
      <4>4. \A i, j \in 1 .. m : more[i] = more[j] => i = j
        BY <4>1, <4>2, <4>3 DEF IsInjective
      <4> DEFINE new == [i \in 1 .. m |-> Fresh(more[i])]
      <4>5. ASSUME NEW i \in 1 .. m
            PROVE  /\ new[i] \in Hypothesis /\ new[i].service = more[i] /\ more[i] \notin OnBoard
                   /\ new[i].for = {} /\ new[i].against = {}
        <5>1. new[i] = [service |-> more[i], for |-> {}, against |-> {}]
          BY DEF Fresh
        <5>2. more[i] \in Service \ OnBoard
          BY <4>2
        <5> QED BY <5>1, <5>2 DEF Hypothesis
      <4>6. new \in Seq(Hypothesis) /\ Len(new) = m
        BY <4>3, <4>5
      <4>7. board' = board \o new
        BY <4>1, <4>3
      <4> HIDE DEF new
      <4>8. /\ board' \in Seq(Hypothesis) /\ Len(board') = Len(board) + m
            /\ \A i \in 1 .. Len(board) : board'[i] = board[i]
            /\ \A i \in Len(board) + 1 .. Len(board) + m : board'[i] = new[i - Len(board)]
        BY <1>1, <4>3, <4>6, <4>7
      <4>9. ASSUME NEW i \in 1 .. Len(board'), NEW j \in 1 .. Len(board'),
                   board'[i].service = board'[j].service
            PROVE  i = j
        <5>1. CASE i <= Len(board) /\ j <= Len(board)
          BY <1>1, <4>3, <4>8, <4>9, <5>1
        <5>2. CASE i > Len(board) /\ j > Len(board)
          <6>1. i - Len(board) \in 1 .. m /\ j - Len(board) \in 1 .. m
            BY <1>1, <4>3, <4>8, <5>2
          <6>2. board'[i] = new[i - Len(board)] /\ board'[j] = new[j - Len(board)]
            BY <1>1, <4>3, <4>8, <5>2
          <6>3. more[i - Len(board)] = more[j - Len(board)]
            BY <4>5, <4>9, <6>1, <6>2
          <6>4. i - Len(board) = j - Len(board)
            BY <4>4, <6>1, <6>3
          <6> QED BY <1>1, <4>3, <4>8, <6>4
        <5>3. ASSUME NEW k \in 1 .. Len(board), NEW l \in Len(board) + 1 .. Len(board) + m
              PROVE  board'[k].service # board'[l].service
          <6>1. board'[k].service \in OnBoard
            BY <4>8 DEF OnBoard
          <6>2. l - Len(board) \in 1 .. m
            BY <1>1, <4>3
          <6>3. board'[l].service \notin OnBoard
            BY <4>5, <4>8, <6>2
          <6> QED BY <6>1, <6>3
        <5>4. CASE i <= Len(board) /\ j > Len(board)
          <6>1. i \in 1 .. Len(board) /\ j \in Len(board) + 1 .. Len(board) + m
            BY <1>1, <4>3, <4>8, <5>4
          <6> QED BY <4>9, <5>3, <6>1
        <5>5. CASE i > Len(board) /\ j <= Len(board)
          <6>1. j \in 1 .. Len(board) /\ i \in Len(board) + 1 .. Len(board) + m
            BY <1>1, <4>3, <4>8, <5>5
          <6> QED BY <4>9, <5>3, <6>1
        <5>6. i \in Nat /\ j \in Nat
          BY <1>1, <4>3, <4>8
        <5> QED BY <1>1, <5>1, <5>2, <5>4, <5>5, <5>6
      <4>10. ASSUME NEW i \in 1 .. Len(board')
             PROVE  board'[i].for = {} /\ board'[i].against = {}
        <5>1. CASE i <= Len(board)
          BY <1>1, <4>3, <4>8, <5>1
        <5>2. CASE i > Len(board)
          <6>1. i - Len(board) \in 1 .. m /\ board'[i] = new[i - Len(board)]
            BY <1>1, <4>3, <4>8, <5>2
          <6> QED BY <4>5, <6>1
        <5> QED BY <1>1, <4>3, <4>8, <5>1, <5>2
      <4>11. Len(board') \in Nat \ {0} /\ Len(board) <= Len(board')
        BY <1>1, <4>3, <4>8
      <4> QED BY <4>8, <4>9, <4>10, <4>11
    <3> QED BY <1>4, <3>1, <3>2
  <2>5. BoardOK'
    <3>1. objections' = {} /\ convinced' \in BOOLEAN
      BY <1>0, <1>4 DEF Inv, TypeOK, BoardOK, Untouched, Early
    <3> QED BY <2>3, <2>4, <3>1 DEF BoardOK
  <2>6. RoundOK'
    <3>1. \A S : << >> \in Seq(S)
      OBVIOUS
    <3> QED BY <1>0, <3>1 DEF RoundOK
  <2>7. NotRecalled'
    BY <1>0, <2>4 DEF NotRecalled
  <2>8. board' # << >> /\ rounds' < MaxRounds
    BY <1>1, <1>4, <2>4 DEF Counted
  <2>9. Untouched' /\ Started' /\ Ended' /\ CompleteIsEarned'
    BY <1>0, <2>8 DEF Untouched, Started, Ended, CompleteIsEarned, Early, InRounds
  <2> QED BY <1>2, <2>2, <2>5, <2>6, <2>7, <2>9 DEF Inv, TypeOK
<1> QED BY <1>3, <1>4 DEF ConsultMemory

-----------------------------------------------------------------------------
(***************************************************************************)
(* The report.                                                             *)
(***************************************************************************)
LEMMA ReporterStep == ASSUME Inv, Reporter PROVE Inv'
<1>1. CASE NoAnswer
  BY <1>1, NoAnswerStep
<1>2. CASE /\ Answered
           /\ \E named \in Service \cup {NoService}, confidence \in Confidence \ {"none"} :
                Finish(Written(named, IF stopped = "complete" THEN confidence ELSE "low"), stopped)
           /\ UNCHANGED <<known, mind, round, budget, status>>
  <2>0. /\ step = "report" /\ step' = "finish" /\ stopped' = stopped /\ Exhausted = "none"
        /\ reached' \subseteq Ceilings
        /\ UNCHANGED <<config, triage, board, evidence, objections, convinced, plan, asking, gathered,
                       findings, rounds, toolCalls, callCounts, grown, status>>
    BY <1>2, ChoiceAssumption
       DEF Reporter, Answered, Finish, Spend, Inv, TypeOK, BudgetOK, known, mind, round, budget
  <2>1. PICK named \in Service \cup {NoService}, confidence \in Confidence \ {"none"} :
          report' = Written(named, IF stopped = "complete" THEN confidence ELSE "low")
    BY <1>2 DEF Finish
  <2>2. stopped \in {"complete", "stalled"}
    BY <2>0 DEF Inv, Ended
  <2>3. /\ report' \in Report /\ report'.by = "reporter"
        /\ stopped # "complete" => report'.confidence = "low"
    BY <2>1 DEF Written, Report, Confidence
  <2>4. RunOK' /\ BoardOK' /\ RoundOK' /\ BudgetOK' /\ NotRecalled'
    BY <2>0, <2>3 DEF Inv, TypeOK, RunOK, BoardOK, RoundOK, BudgetOK, NotRecalled
  <2>5. Untouched' /\ Started' /\ Ended'
    BY <2>0, <2>2, <2>3 DEF Untouched, Started, Ended, Early, InRounds
  <2>6. CompleteIsEarned'
    BY <2>0 DEF Inv, CompleteIsEarned
  <2> QED BY <2>4, <2>5, <2>6 DEF Inv, TypeOK
<1> QED BY <1>1, <1>2 DEF Reporter

LEMMA FloorActionStep == ASSUME Inv, Floor PROVE Inv'
<1>0. /\ step = "floor" /\ step' = "finish" /\ stopped' = stopped
      /\ stopped \in BudgetStops \cup {"model_unavailable"}
      /\ UNCHANGED <<config, triage, board, evidence, objections, convinced, plan, asking, gathered,
                     findings, rounds, toolCalls, callCounts, grown, reached, status>>
  BY DEF Floor, Finish, Inv, Ended, known, mind, round, budget
<1>1. report' \in Report /\ report'.by = "floor" /\ report'.confidence = "low"
  BY DEF Floor, Finish, Report, Confidence
<1>2. RunOK' /\ BoardOK' /\ RoundOK' /\ BudgetOK' /\ NotRecalled'
  BY <1>0, <1>1 DEF Inv, TypeOK, RunOK, BoardOK, RoundOK, BudgetOK, NotRecalled
<1>3. stopped' # "complete"
  BY <1>0 DEF BudgetStops, Ceilings
<1>4. Untouched' /\ Started' /\ Ended' /\ CompleteIsEarned'
  BY <1>0, <1>1, <1>3 DEF Untouched, Started, Ended, CompleteIsEarned, Early, InRounds
<1> QED BY <1>2, <1>4 DEF Inv, TypeOK

LEMMA PublishStep == ASSUME Inv, Publish PROVE Inv'
<1>0. /\ step = "finish" /\ step' = "done"
      /\ status' = IF report'.named = NoService THEN "abstained" ELSE "complete"
      /\ UNCHANGED <<config, triage, board, evidence, objections, convinced, plan, asking, gathered,
                     findings, rounds, toolCalls, callCounts, grown, reached, stopped>>
  BY DEF Publish, known, mind, round, budget
<1>1. report \in Report
  BY DEF Inv, TypeOK, RunOK
<1>2. /\ report' \in Report /\ report'.by = report.by
      /\ report'.named \in {NoService, report.named} /\ report'.cited = report.cited
      /\ report'.named # NoService => MayName(report)
      /\ report'.confidence = report.confidence \/ report'.confidence = "none"
           \/ report.confidence = "high"
  <2>1. CASE MayName(report) /\ UNCHANGED report
    BY <1>1, <2>1
  <2>2. CASE MayName(report) /\ report.confidence = "high"
             /\ report' = [report EXCEPT !.confidence = "medium"]
    BY <1>1, <2>2 DEF Report, Confidence
  <2>3. CASE report' = [report EXCEPT !.named = NoService, !.confidence = "none"]
    BY <1>1, <2>3 DEF Report, Confidence
  <2> QED BY <2>1, <2>2, <2>3 DEF Publish
<1>3. MayName(report')
  <2>1. CASE report'.named = NoService
    BY <2>1 DEF MayName
  <2>2. CASE report'.named # NoService
    BY <1>2, <2>2 DEF MayName
  <2> QED BY <2>1, <2>2
<1>4. RunOK' /\ BoardOK' /\ RoundOK' /\ BudgetOK' /\ NotRecalled'
  BY <1>0, <1>2 DEF Inv, TypeOK, RunOK, BoardOK, RoundOK, BudgetOK, NotRecalled
<1>5. Ended'
  <2>1. MayName(report)'
    BY <1>0, <1>3 DEF MayName
  <2>2. /\ report.by = "reporter" => stopped \in {"complete", "stalled"}
        /\ report.by = "floor" => stopped \in BudgetStops \cup {"model_unavailable"}
        /\ stopped # "complete" => report.confidence \in {"none", "low"}
    BY <1>0 DEF Inv, Ended
  <2> QED BY <1>0, <1>2, <2>1, <2>2 DEF Ended
<1>6. CompleteIsEarned'
  BY <1>0 DEF Inv, CompleteIsEarned
<1>7. Untouched' /\ Started'
  BY <1>0 DEF Untouched, Started, Early, InRounds
<1> QED BY <1>4, <1>5, <1>6, <1>7 DEF Inv, TypeOK

-----------------------------------------------------------------------------
LEMMA InvStep == Inv /\ [Next]_vars => Inv'
<1> SUFFICES ASSUME Inv, [Next]_vars PROVE Inv'
  OBVIOUS
<1>1. CASE EntryGate         BY <1>1, EntryGateStep
<1>2. CASE SeedHypotheses    BY <1>2, SeedStep
<1>3. CASE ConsultMemory     BY <1>3, ConsultMemoryStep
<1>4. CASE MemoryRefused     BY <1>4, MemoryRefusedStep
<1>5. CASE Commander         BY <1>5, CommanderStep
<1>6. CASE Assign            BY <1>6, AssignStep
<1>7. CASE Skip              BY <1>7, SkipStep
<1>8. CASE CallTool          BY <1>8, CallToolStep
<1>9. CASE Gathered          BY <1>9, GatheredStep
<1>10. CASE Answer           BY <1>10, AnswerStep
<1>11. CASE HypothesisBoard  BY <1>11, HypothesisBoardStep
<1>12. CASE Critic           BY <1>12, CriticStep
<1>13. CASE EndRound         BY <1>13, EndRoundStep
<1>14. CASE Reporter         BY <1>14, ReporterStep
<1>15. CASE Floor            BY <1>15, FloorActionStep
<1>16. CASE Publish          BY <1>16, PublishStep
<1>17. CASE UNCHANGED vars
  <2>0. UNCHANGED <<step, config, triage, board, evidence, objections, convinced, plan, asking,
                    gathered, findings, rounds, toolCalls, callCounts, grown, reached, stopped,
                    report, status>>
    BY <1>17 DEF vars, known, mind, round, budget
  <2>1. TypeOK'
    BY <2>0 DEF Inv, TypeOK, RunOK, BoardOK, RoundOK, BudgetOK
  <2>2. Untouched' /\ Started' /\ NotRecalled' /\ CompleteIsEarned'
    BY <2>0 DEF Inv, Untouched, Started, NotRecalled, CompleteIsEarned
  <2>3. Ended'
    BY <2>0 DEF Inv, Ended, Exhausted, ExhaustedAfter, MayName
  <2> QED BY <2>1, <2>2, <2>3 DEF Inv
<1> QED BY <1>1, <1>2, <1>3, <1>4, <1>5, <1>6, <1>7, <1>8, <1>9, <1>10, <1>11, <1>12, <1>13,
           <1>14, <1>15, <1>16, <1>17 DEF Next, Over

(***************************************************************************)
(* Inv holds throughout: the code of investigate() never begins a round    *)
(* without budget, and never loses track of why it stopped.                *)
(***************************************************************************)
THEOREM InvestigationInvariant == Spec => []Inv
<1>1. Init => Inv
  BY InitInv
<1>2. Inv /\ [Next]_vars => Inv'
  BY InvStep
<1> QED BY <1>1, <1>2, PTL DEF Spec

(***************************************************************************)
(* The counters of BudgetState stay within their limits, and the board     *)
(* holds one hypothesis per service, whatever the models answer.           *)
(***************************************************************************)
THEOREM InvestigationTypes == Spec => []TypeOK
<1>1. Inv => TypeOK
  BY DEF Inv
<1> QED BY <1>1, InvestigationInvariant, PTL

(***************************************************************************)
(* A report of the reporter's had budget left and models that answered, up *)
(* to its last word; one of the floor's says which of them failed it.      *)
(***************************************************************************)
THEOREM LabelTellsTheTruth == Spec => []FloorIsLabelled
<1>1. Inv => FloorIsLabelled
  BY DEF Inv, Ended, FloorIsLabelled, Published
<1> QED BY <1>1, InvestigationInvariant, PTL

(***************************************************************************)
(* What was cut short is published as low, or abstains (SPEC.md:403).      *)
(***************************************************************************)
THEOREM CutShortHedged == Spec => []CutShortIsHedged
<1>1. Inv => CutShortIsHedged
  BY DEF Inv, Ended, CutShortIsHedged, Published
<1> QED BY <1>1, InvestigationInvariant, PTL

(***************************************************************************)
(* An investigation completes only when its leader has support and no      *)
(* critic's objection is left.                                             *)
(***************************************************************************)
THEOREM CompletionEarned == Spec => []CompleteIsEarned
<1>1. Inv => CompleteIsEarned
  BY DEF Inv
<1> QED BY <1>1, InvestigationInvariant, PTL

(***************************************************************************)
(* A service the reporter names has MinSupport records for it, none of     *)
(* them from memory (nodes.py:209-212): nothing memory recalled is ever    *)
(* gathered, and the gate reads the board.                                 *)
(***************************************************************************)
THEOREM NamedConfirmed == Spec => []NamedIsConfirmed
<1>1. Inv => NamedIsConfirmed
  <2> SUFFICES ASSUME Inv, Published, report.by = "reporter", report.named # NoService
               PROVE  \E i \in 1 .. Len(board) :
                        /\ board[i].service = report.named
                        /\ Cardinality(board[i].for \ {Recall}) >= MinSupport
    BY DEF NamedIsConfirmed
  <2> DEFINE lead == Leader(board)
  <2>1. /\ board # << >> /\ board[lead].service = report.named
        /\ Support(board[lead]) >= MinSupport
    BY DEF Inv, Ended, MayName, Published
  <2>2. board \in Seq(Hypothesis)
    BY DEF Inv, TypeOK, BoardOK
  <2>3. lead \in 1 .. Len(board)
    BY <2>1, <2>2, LeaderLeads
  <2> HIDE DEF lead
  <2>4. board[lead] \in Hypothesis
    BY <2>2, <2>3
  <2>5. board[lead].for \in SUBSET Call /\ board[lead].against \in SUBSET Call
    BY <2>4 DEF Hypothesis
  <2>6. board[lead].for \ {Recall} = board[lead].for
    BY <2>3 DEF Inv, NotRecalled
  <2>7. Cardinality(board[lead].for) >= MinSupport
    BY <2>1, <2>5, SupportIsInt, Limits DEF Support
  <2> QED BY <2>1, <2>3, <2>6, <2>7
<1> QED BY <1>1, InvestigationInvariant, PTL

(***************************************************************************)
(* Who wrote a report and how sure it is agree with what stopped the       *)
(* investigation (graph.py, budget.py).                                    *)
(***************************************************************************)
THEOREM EarlyStopsAreTold == Spec => []EarlyStopIsTold
<1>1. FloorIsLabelled /\ CutShortIsHedged => EarlyStopIsTold
  BY DEF EarlyStopIsTold
<1>. QED  BY <1>1, LabelTellsTheTruth, CutShortHedged, PTL
=============================================================================
