----------------------------- MODULE ReportProofs -----------------------------
(***************************************************************************)
(* What a report that is published rests on, for every report, notebook    *)
(* and evidence store, and for every call a model can ask for.             *)
(*                                                                         *)
(* The exit gate.  One invariant says what each phase has established:     *)
(* before the repair the report is as written, after it the report is the  *)
(* repaired one, and a published report was let through by a pass over all *)
(* checks or holds nothing at all.                                         *)
(*                                                                         *)
(* The single agent whose report goes through it.  A context is sound:     *)
(* what it holds is what its stamp finds under that id, and its tools keep *)
(* it so, in the investigation and in the re-execution.                    *)
(***************************************************************************)
EXTENDS ExitGate, React, FiniteSetTheorems, TLAPS

(***************************************************************************)
(* The phases, step by step.                                               *)
(***************************************************************************)
Phases ==
  /\ phase = "check" => working = written /\ removed = {}
  /\ phase = "repair" => working = written /\ removed = {} /\ Repairs
  /\ phase \in {"recheck", "published"} => removed = written.kept \ working.kept
  /\ phase = "recheck" => Repairs
  /\ phase = "recheck" /\ Conflict(written) => working.kept = {}

Inv ==
  /\ TypeOK /\ Phases
  /\ OnlyTakesAway
  /\ PublishedPasses
  /\ ConflictSilences

-----------------------------------------------------------------------------
(***************************************************************************)
(* A report that says nothing and names nobody passes every check: this is *)
(* why the gate always has something to publish.                           *)
(***************************************************************************)
LEMMA EmptyPasses ==
  ASSUME NEW d, d.kept = {}, d.root = NoService, d.confidence = "none"
  PROVE  Passed(d)
<1>1. FailedClaims(d) = {}
  BY Zenon DEF FailedClaims, Uncovered, NotReproduced, Misquoted, OutOfOrder, WithoutGraph
<1> QED BY <1>1 DEF Passed, Conflict, ConfidenceSane, Supported

(***************************************************************************)
(* A failed claim is one of the claims of the report.                      *)
(***************************************************************************)
LEMMA FailedAreKept ==
  ASSUME NEW d
  PROVE  FailedClaims(d) \subseteq d.kept
  BY DEF FailedClaims, Uncovered, NotReproduced, Misquoted, OutOfOrder, WithoutGraph

(***************************************************************************)
(* The emptied report is a draft with nothing in it.                       *)
(***************************************************************************)
LEMMA Emptied ==
  ASSUME NEW d \in Draft
  PROVE  LET e == [Abstaining(d) EXCEPT !.kept = {}]
         IN  /\ e \in Draft
             /\ e.kept = {} /\ e.root = NoService /\ e.confidence = "none"
  BY DEF Draft, Abstaining, Confidence

(***************************************************************************)
(* The repair only takes away, and takes everything from a report that     *)
(* contradicts the notebook.                                               *)
(***************************************************************************)
LEMMA RepairTakesAway ==
  ASSUME NEW d \in Draft
  PROVE  /\ Repaired(d) \in Draft
         /\ Repaired(d).kept \subseteq d.kept
         /\ Repaired(d).root \in {d.root, NoService}
         /\ Rank(Repaired(d).confidence) <= Rank(d.confidence)
         /\ Conflict(d) => Repaired(d).kept = {}
<1> DEFINE kept == IF Conflict(d) THEN {} ELSE d.kept \ failed
           drop == IF Conflict(d) \/ ~Supported(d) \/ kept = {} THEN Abstaining(d) ELSE d
           left == [drop EXCEPT !.kept = kept]
<1>1. kept \subseteq d.kept /\ (Conflict(d) => kept = {})
  OBVIOUS
<1>2. /\ drop \in Draft
      /\ drop.root \in {d.root, NoService}
      /\ drop.confidence \in {d.confidence, "none"}
  BY DEF Draft, Abstaining, Confidence
<1>3. kept \in SUBSET Nat
  BY <1>1 DEF Draft
<1> HIDE DEF kept, drop
<1>4. /\ left \in Draft
      /\ left.kept = kept /\ left.root = drop.root /\ left.confidence = drop.confidence
  BY <1>2, <1>3 DEF Draft
<1> HIDE DEF left
<1>5. Repaired(d) = IF ConfidenceSane(left) THEN left ELSE [left EXCEPT !.confidence = "medium"]
  BY DEF Repaired, left, drop, kept
<1>6. ~ConfidenceSane(left) => left.confidence = "high"
  BY DEF ConfidenceSane
<1>7. /\ Repaired(d) \in Draft
      /\ Repaired(d).kept = kept /\ Repaired(d).root = drop.root
      /\ \/ Repaired(d).confidence = left.confidence
         \/ left.confidence = "high" /\ Repaired(d).confidence = "medium"
  BY <1>4, <1>5, <1>6 DEF Draft, Confidence
<1>8. d.confidence \in Confidence
  BY DEF Draft
<1>9. Rank(Repaired(d).confidence) <= Rank(d.confidence)
  BY <1>2, <1>4, <1>7, <1>8 DEF Rank, Confidence
<1> QED BY <1>1, <1>2, <1>7, <1>9

-----------------------------------------------------------------------------
LEMMA InitInv == Init => Inv
<1> SUFFICES ASSUME Init PROVE Inv
  OBVIOUS
<1> USE DEF Init, Submit
<1>1. TypeOK
  BY DEF TypeOK, Draft, Confidence
<1>2. Phases
  BY DEF Phases
<1>3. written.confidence \in Confidence
  BY DEF Confidence
<1>4. OnlyTakesAway
  BY <1>3 DEF OnlyTakesAway, Rank, Confidence
<1> QED BY <1>1, <1>2, <1>4 DEF Inv, PublishedPasses, ConflictSilences, Published

(***************************************************************************)
(* The checks after a step read the same claims and the same leader.       *)
(***************************************************************************)
LEMMA SameChecks ==
  ASSUME UNCHANGED <<claims, leader>>, NEW w, working' = w
  PROVE  Passed(working)' <=> Passed(w)
<1>1. Cited(working)' = Cited(w)
  BY DEF Cited
<1>2. Uncovered(working)' = Uncovered(w)
  BY DEF Uncovered
<1>3. \A r : Quoted(working, r)' = Quoted(w, r)
  BY DEF Quoted
<1>4. \A r : NumbersSurviveRerun(working, r)' <=> NumbersSurviveRerun(w, r)
  BY <1>3 DEF NumbersSurviveRerun
<1>5. Mismatched(working)' = Mismatched(w)
  BY <1>1, <1>4 DEF Mismatched, ReExecuted
<1>6. NotReproduced(working)' = NotReproduced(w)
  BY <1>1, <1>5 DEF NotReproduced
<1>7. Misquoted(working)' = Misquoted(w)
  BY DEF Misquoted
<1>8. OutOfOrder(working)' = OutOfOrder(w)
  BY DEF OutOfOrder, Dated
<1>9. WithoutGraph(working)' = WithoutGraph(w)
  BY DEF WithoutGraph
<1>10. FailedClaims(working)' = FailedClaims(w)
  BY <1>2, <1>6, <1>7, <1>8, <1>9 DEF FailedClaims
<1>11. ConfidenceSane(working)' <=> ConfidenceSane(w)
  BY <1>1 DEF ConfidenceSane, SeveralSignals
<1> QED BY <1>10, <1>11 DEF Passed, Conflict, Supported

LEMMA SameConflict ==
  ASSUME UNCHANGED <<claims, written, leader>>
  PROVE  Conflict(written)' <=> Conflict(written)
  BY DEF Conflict

(***************************************************************************)
(* The invariant is preserved, action by action.                           *)
(***************************************************************************)
LEMMA CheckInv == Inv /\ Check => Inv'
<1> SUFFICES ASSUME Inv, Check PROVE Inv'
  OBVIOUS
<1>0. TypeOK /\ Phases /\ OnlyTakesAway /\ working = written /\ removed = {}
  BY DEF Inv, Check, Phases
<1>u. UNCHANGED <<claims, written, working, leader, removed>>
  BY DEF Check
<1>1. TypeOK'
  <2>1. failed' \subseteq written.kept
    BY <1>0, FailedAreKept DEF Check
  <2> QED BY <1>0, <1>u, <2>1 DEF TypeOK, Check
<1>2. Phases'
  <2>1. phase' \in {"published", "repair"} /\ (phase' = "repair" => Repairs)
    BY DEF Check
  <2> QED BY <1>0, <1>u, <2>1 DEF Phases
<1>3. OnlyTakesAway'
  BY <1>0, <1>u DEF OnlyTakesAway, Rank
<1>4. PublishedPasses'
  <2>1. phase' = "published" /\ Repairs => Passed(working)
    BY DEF Check
  <2> QED BY <1>u, <2>1, SameChecks DEF PublishedPasses, Published
<1>5. ConflictSilences'
  <2>1. phase' = "published" /\ Repairs => Passed(written)
    BY <1>0 DEF Check
  <2>2. phase' = "published" /\ Repairs => ~Conflict(written)
    BY <2>1 DEF Passed
  <2> QED BY <1>u, <2>2, SameConflict DEF ConflictSilences, Published
<1> QED BY <1>1, <1>2, <1>3, <1>4, <1>5 DEF Inv

LEMMA RepairInv == Inv /\ Repair => Inv'
<1> SUFFICES ASSUME Inv, Repair PROVE Inv'
  OBVIOUS
<1>0. TypeOK /\ working = written /\ Repairs
  BY DEF Inv, Repair, Phases
<1>u. UNCHANGED <<claims, written, leader, failed>>
  BY DEF Repair
<1>r. /\ working' \in Draft
      /\ working'.kept \subseteq written.kept
      /\ working'.root \in {written.root, NoService}
      /\ Rank(working'.confidence) <= Rank(written.confidence)
      /\ Conflict(written) => working'.kept = {}
  BY <1>0, RepairTakesAway DEF Repair, TypeOK
<1>1. TypeOK'
  BY <1>0, <1>u, <1>r DEF TypeOK, Repair
<1>2. Phases'
  BY <1>0, <1>u, <1>r, SameConflict DEF Phases, Repair
<1>3. OnlyTakesAway'
  BY <1>u, <1>r DEF OnlyTakesAway, Rank
<1> QED BY <1>1, <1>2, <1>3 DEF Inv, PublishedPasses, ConflictSilences, Published, Repair

LEMMA RecheckInv == Inv /\ Recheck => Inv'
<1> SUFFICES ASSUME Inv, Recheck PROVE Inv'
  OBVIOUS
<1>0. /\ TypeOK /\ OnlyTakesAway /\ Repairs /\ phase' = "published"
      /\ removed = written.kept \ working.kept
      /\ Conflict(written) => working.kept = {}
  BY DEF Inv, Recheck, Phases
<1>u. UNCHANGED <<claims, written, leader, failed>>
  BY DEF Recheck
<1>r. /\ working' \in Draft
      /\ working'.kept \subseteq written.kept
      /\ removed' = written.kept \ working'.kept
      /\ working'.root \in {written.root, NoService}
      /\ Rank(working'.confidence) <= Rank(written.confidence)
      /\ Conflict(written) => working'.kept = {}
      /\ Passed(working')
  <2>1. CASE Passed(working)
    BY <1>0, <2>1 DEF Recheck, TypeOK, OnlyTakesAway
  <2>2. CASE ~Passed(working)
    <3>1. /\ working' \in Draft /\ removed' = written.kept
          /\ working'.kept = {} /\ working'.root = NoService /\ working'.confidence = "none"
      BY <1>0, <2>2, Emptied DEF Recheck, TypeOK
    <3>2. Passed(working')
      BY <3>1, EmptyPasses
    <3>3. written.confidence \in Confidence
      BY <1>0 DEF TypeOK, Draft
    <3>4. Rank(working'.confidence) <= Rank(written.confidence)
      BY <3>1, <3>3 DEF Rank, Confidence
    <3> QED BY <3>1, <3>2, <3>4
  <2> QED BY <2>1, <2>2
<1>1. TypeOK'
  BY <1>0, <1>u, <1>r DEF TypeOK
<1>2. Phases'
  BY <1>0, <1>u, <1>r DEF Phases
<1>3. OnlyTakesAway'
  BY <1>u, <1>r DEF OnlyTakesAway, Rank
<1>4. PublishedPasses'
  BY <1>u, <1>r, SameChecks DEF PublishedPasses
<1>5. ConflictSilences'
  BY <1>u, <1>r, SameConflict DEF ConflictSilences
<1> QED BY <1>1, <1>2, <1>3, <1>4, <1>5 DEF Inv

LEMMA StutterInv == Inv /\ UNCHANGED vars => Inv'
<1> SUFFICES ASSUME Inv, UNCHANGED vars PROVE Inv'
  OBVIOUS
<1>1. TypeOK' /\ OnlyTakesAway'
  BY DEF Inv, TypeOK, OnlyTakesAway, Rank, vars
<1>3. Phases'
  BY SameConflict DEF Inv, Phases, vars
<1>4. PublishedPasses'
  BY SameChecks DEF Inv, PublishedPasses, Published, vars
<1>5. ConflictSilences'
  BY SameConflict DEF Inv, ConflictSilences, Published, vars
<1> QED BY <1>1, <1>3, <1>4, <1>5 DEF Inv

-----------------------------------------------------------------------------
(***************************************************************************)
(* The invariant holds throughout.                                         *)
(***************************************************************************)
THEOREM GateInvariant == Spec => []Inv
<1>1. Inv /\ [Next]_vars => Inv'
  BY CheckInv, RepairInv, RecheckInv, StutterInv DEF Next
<1> QED BY InitInv, <1>1, PTL DEF Spec

(***************************************************************************)
(* The state of the gate is well typed.                                    *)
(***************************************************************************)
THEOREM GateTypes == Spec => []TypeOK
<1>1. Inv => TypeOK
  BY DEF Inv
<1> QED BY <1>1, GateInvariant, PTL

(***************************************************************************)
(* A published report passes all six checks, whatever was written.         *)
(***************************************************************************)
THEOREM NothingUnverified == Spec => []PublishedPasses
<1>1. Inv => PublishedPasses
  BY DEF Inv
<1> QED BY <1>1, GateInvariant, PTL

(***************************************************************************)
(* A cause is named only with support, on claims that were asked again.    *)
(***************************************************************************)
THEOREM NamedStands == Spec => []NamedIsSupported
<1>1. Inv => NamedIsSupported
  <2> SUFFICES ASSUME Inv, Published, Repairs, working.root # NoService
               PROVE  /\ leader.service \in {working.root, NoService}
                      /\ leader.support >= MinSupport
                      /\ working.kept # {}
                      /\ \A i \in working.kept :
                           /\ claims[i].cites # {}
                           /\ \A r \in claims[i].cites : Rerun /\ ReExecuted(r)
    BY DEF NamedIsSupported
  <2>1. Passed(working)
    BY DEF Inv, PublishedPasses
  <2>2. /\ leader.service \in {working.root, NoService}
        /\ leader.support >= MinSupport
        /\ working.kept # {}
    BY <2>1 DEF Passed, Conflict, Supported
  <2>3. ASSUME NEW i \in working.kept PROVE claims[i].cites # {}
    BY <2>1 DEF Passed, FailedClaims, Uncovered
  <2>4. ASSUME NEW i \in working.kept, NEW r \in claims[i].cites
        PROVE  Rerun /\ ReExecuted(r)
    <3>1. r \in Cited(working)
      BY DEF Cited
    <3>2. i \notin NotReproduced(working)
      BY <2>1 DEF Passed, FailedClaims
    <3>3. Rerun
      BY <3>1, <3>2 DEF NotReproduced
    <3>4. r \notin Mismatched(working)
      BY <3>2, <3>3 DEF NotReproduced
    <3> QED BY <3>1, <3>3, <3>4 DEF Mismatched
  <2> QED BY <2>2, <2>3, <2>4
<1> QED BY <1>1, GateInvariant, PTL

(***************************************************************************)
(* The gate names no new cause and is never more confident.                *)
(***************************************************************************)
THEOREM GateOnlyTakesAway == Spec => []OnlyTakesAway
<1>1. Inv => OnlyTakesAway
  BY DEF Inv
<1> QED BY <1>1, GateInvariant, PTL

(***************************************************************************)
(* The notice counts exactly the claims that are not there.                *)
(***************************************************************************)
THEOREM NoticeHolds == Spec => []NoticeIsTrue
<1>1. Inv => NoticeIsTrue
  BY DEF Inv, Phases, NoticeIsTrue, Published
<1> QED BY <1>1, GateInvariant, PTL

(***************************************************************************)
(* A report that contradicts its notebook keeps none of its prose.         *)
(***************************************************************************)
THEOREM ContradictionIsSilenced == Spec => []ConflictSilences
<1>1. Inv => ConflictSilences
  BY DEF Inv
<1> QED BY <1>1, GateInvariant, PTL

(***************************************************************************)
(* What the gate publishes passes every check, and the cause it names is the *)
(* notebook's, on citations that were asked again (gates.py).              *)
(***************************************************************************)
THEOREM PublishedReportsStand == Spec => []PublishedStands
<1>1. PublishedPasses /\ NamedIsSupported => PublishedStands
  BY DEF PublishedStands
<1>. QED  BY <1>1, NothingUnverified, NamedStands, PTL

-----------------------------------------------------------------------------
(***************************************************************************)
(* A record is what its stamp finds under that id: the arguments the       *)
(* handler records are those it looks at, but for a runbook's limit and    *)
(* for a proposal, which is of the context it was made in.                 *)
(***************************************************************************)
AskedAs(id, record, era) ==
  LET stamp == record.stamp
  IN /\ stamp \in Calls /\ stamp.shaped
     /\ stamp.tool \in Registry \ {"get_evidence"} /\ id.tool = stamp.tool
     /\ stamp.tool # "propose_remediation" =>
          Handler(stamp, FreshContext("gate")) = [kind |-> "record", id |-> id, rows |-> record.rows]
     /\ stamp.tool \notin {"runbook_search", "propose_remediation"} => record.rows = id
     /\ stamp.tool = "propose_remediation" => record.rows.proposal.at = era

(***************************************************************************)
(* A context: what it holds was recorded in it, and no tool was called     *)
(* more often than it may be.                                              *)
(***************************************************************************)
Sound(x) ==
  /\ x = [held |-> x.held, used |-> x.used, era |-> x.era]
  /\ x.used \in [AllTools -> 0 .. MaxCallsPerTool]
  /\ IsFiniteSet(DOMAIN x.held)
  /\ x.held = [id \in DOMAIN x.held |-> [rows |-> x.held[id].rows, stamp |-> x.held[id].stamp]]
  /\ \A id \in DOMAIN x.held : AskedAs(id, x.held[id], x.era)

Budget == [rounds: 0 .. MaxRounds, calls: 0 .. MaxToolCalls, counts: [Calls -> Nat],
           evidence: Seq(Nat), over: Ceilings \cup {"none"}]

(***************************************************************************)
(* While the loop goes on it has a round and a call left.                  *)
(***************************************************************************)
LoopInv ==
  /\ budget \in Budget
  /\ stage \in {"deciding", "calling"} => budget.rounds < MaxRounds
  /\ stage = "calling" => chosen \in Calls
  /\ report = [root |-> report.root, confidence |-> report.confidence, claims |-> report.claims]

(***************************************************************************)
(* The investigation's context and the gate's, and what came back.         *)
(***************************************************************************)
EvidenceInv ==
  /\ Sound(ctx) /\ ctx.era = "investigation"
  /\ rerun = [asked |-> rerun.asked, ctx |-> rerun.ctx, back |-> rerun.back]
  /\ Sound(rerun.ctx) /\ rerun.ctx.era = "gate"
  /\ rerun.back \subseteq DOMAIN ctx.held \cap DOMAIN rerun.ctx.held
  /\ ShownIsHeld /\ GatedClaims

ReactInv == ReactTypeOK /\ LoopInv /\ EvidenceInv

-----------------------------------------------------------------------------
(***************************************************************************)
(* What a handler comes to, by its tool.                                   *)
(***************************************************************************)
Unfit(c) == c.window # "fit" \/ (c.tool = "search_logs" /\ c.pattern # "fit")

Told(c, x, outcome) ==
  \/ outcome.kind = "refused"
  \/ outcome.kind = "raised" /\ c.tool \in WindowTools /\ Unfit(c)
  \/ /\ outcome.kind = "held" /\ c.tool = "get_evidence"
     /\ outcome.id \in DOMAIN x.held
  \/ /\ outcome = [kind |-> "record", id |-> outcome.id, rows |-> outcome.rows]
     /\ c.tool # "get_evidence" /\ outcome.id.tool = c.tool
     /\ c.tool \notin {"runbook_search", "propose_remediation"} => outcome.rows = outcome.id
     /\ c.tool = "propose_remediation" => outcome.rows.proposal.at = x.era

LEMMA RecordedOutcome ==
  ASSUME NEW c, NEW asked, NEW found
  PROVE  LET outcome == Recorded(c, asked, found)
         IN /\ outcome = [kind |-> "record", id |-> outcome.id, rows |-> outcome.rows]
            /\ outcome.id.tool = c.tool
            /\ asked = found => outcome.rows = outcome.id
BY DEF Recorded, Part

LEMMA HandlerTells ==
  ASSUME NEW c, NEW x, c.tool \in AllTools, c.tool = "get_evidence" => c.cites # {}
  PROVE  Told(c, x, Handler(c, x))
<1> DEFINE outcome == Handler(c, x)
<1>1. CASE c.tool \in WindowTools
  <2>1. \E asked : outcome = IF ~Unfit(c) THEN Recorded(c, asked, asked) ELSE Raised
    BY <1>1 DEF WindowTools, Handler, ListAnomalies, QueryMetric, CompareWindows, SearchLogs,
                TopErrorSignatures, FindTraces, RecentChanges, InWindow, Fits, Unfit
  <2>2. c.tool \notin {"get_evidence", "propose_remediation"}
    BY <1>1 DEF WindowTools
  <2> HIDE DEF outcome
  <2>3. CASE ~Unfit(c)
    <3>1. PICK asked : outcome = Recorded(c, asked, asked)
      BY <2>1, <2>3
    <3> QED BY <3>1, <2>2, RecordedOutcome DEF Told, outcome
  <2>4. CASE Unfit(c)
    <3>1. outcome.kind = "raised"
      BY <2>1, <2>4 DEF Raised
    <3> QED BY <1>1, <2>4, <3>1 DEF Told, outcome
  <2> QED BY <2>3, <2>4
<1>2. CASE c.tool \in {"trace_breakdown", "service_dependencies", "blast_radius", "similar_incidents"}
  <2>1. \/ outcome = Refused
        \/ \E asked : outcome = Recorded(c, asked, asked)
    BY <1>2 DEF Handler, TraceBreakdown, ServiceDependencies, BlastRadius, SimilarIncidents
  <2> HIDE DEF outcome
  <2>2. CASE outcome = Refused
    BY <2>2 DEF Refused, Told, outcome
  <2>3. CASE \E asked : outcome = Recorded(c, asked, asked)
    <3>1. PICK asked : outcome = Recorded(c, asked, asked)
      BY <2>3
    <3> QED BY <1>2, <3>1, RecordedOutcome DEF Told, outcome
  <2> QED BY <2>1, <2>2, <2>3
<1>3. CASE c.tool = "runbook_search"
  <2>1. outcome = Refused \/ outcome = Recorded(c, {"about"}, {"about", "limit"})
    BY <1>3 DEF Handler, RunbookSearch
  <2> HIDE DEF outcome
  <2>2. CASE outcome = Refused
    BY <2>2 DEF Refused, Told, outcome
  <2>3. CASE outcome = Recorded(c, {"about"}, {"about", "limit"})
    BY <1>3, <2>3, RecordedOutcome DEF Told, outcome
  <2> QED BY <2>1, <2>2, <2>3
<1>4. CASE c.tool = "get_evidence"
  <2>1. outcome = IF c.cites \subseteq DOMAIN x.held THEN Held(CHOOSE id \in c.cites : TRUE) ELSE Refused
    BY <1>4 DEF Handler, GetEvidence
  <2>2. (CHOOSE id \in c.cites : TRUE) \in c.cites
    BY <1>4
  <2> HIDE DEF outcome
  <2> QED BY <1>4, <2>1, <2>2 DEF Held, Refused, Told, outcome
<1>5. CASE c.tool = "propose_remediation"
  <2> DEFINE made == [kind |-> "record", id |-> Part(c, {"about"}),
                      rows |-> [tool |-> c.tool, about |-> c.about, proposal |-> BuildProposal(c, x)]]
  <2>1. outcome = Refused \/ outcome = made
    BY <1>5 DEF Handler, ProposeRemediation
  <2>2. made.id.tool = c.tool /\ made.rows.proposal.at = x.era
    BY DEF Part, BuildProposal
  <2>3. made = [kind |-> "record", id |-> made.id, rows |-> made.rows]
    OBVIOUS
  <2> HIDE DEF outcome, made
  <2> QED BY <1>5, <2>1, <2>2, <2>3 DEF Refused, Told, outcome
<1> QED BY <1>1, <1>2, <1>3, <1>4, <1>5 DEF AllTools, WindowTools

(***************************************************************************)
(* Only a proposal and get_evidence look at the context.                   *)
(***************************************************************************)
LEMMA HandlerAnywhere ==
  ASSUME NEW c, NEW x, NEW y, c.tool \in AllTools \ {"get_evidence", "propose_remediation"}
  PROVE  Handler(c, x) = Handler(c, y)
BY DEF AllTools, Handler

-----------------------------------------------------------------------------
(***************************************************************************)
(* What a context holds is stamped, so it is never stamped again.          *)
(***************************************************************************)
LEMMA HeldIsStamped ==
  ASSUME NEW x, Sound(x), NEW id \in DOMAIN x.held, NEW c
  PROVE  x.held[id].stamp # NoStamp /\ Restamp(x.held, id, c) = x.held
<1>1. AskedAs(id, x.held[id], x.era)
  BY DEF Sound
<1>2. x.held[id].stamp.tool \in AllTools
  BY <1>1 DEF AskedAs, Registry
<1>3. NoStamp.tool = "none" /\ "none" \notin AllTools
  BY DEF NoStamp, AllTools
<1> QED BY <1>2, <1>3 DEF Restamp

(***************************************************************************)
(* EvidenceStore.add and restamp together: the first record stays.         *)
(***************************************************************************)
LEMMA RecordKept ==
  ASSUME NEW x, Sound(x), NEW id, NEW rows, NEW c
  PROVE  Restamp(Add(x.held, id, rows), id, c)
         = [i \in DOMAIN x.held \cup {id} |-> IF i \in DOMAIN x.held THEN x.held[i]
                                              ELSE [rows |-> rows, stamp |-> c]]
<1> DEFINE added == Add(x.held, id, rows)
<1>0. PICK held : held = x.held
  OBVIOUS
<1>1. CASE id \in DOMAIN x.held
  <2>1. added = x.held
    <3>1. DOMAIN x.held \cup {id} = DOMAIN x.held
      BY <1>1
    <3>2. x.held = [i \in DOMAIN x.held |-> x.held[i]]
      BY DEF Sound
    <3> QED BY <3>1, <3>2 DEF Add
  <2>2. x.held = [i \in DOMAIN x.held \cup {id} |-> IF i \in DOMAIN x.held THEN x.held[i]
                                                    ELSE [rows |-> rows, stamp |-> c]]
    <3>1. DOMAIN x.held \cup {id} = DOMAIN x.held
      BY <1>1
    <3>2. x.held = [i \in DOMAIN x.held |-> x.held[i]]
      BY DEF Sound
    <3> QED BY <3>1, <3>2
  <2> QED BY <1>1, <2>1, <2>2, HeldIsStamped
<1>2. CASE id \notin DOMAIN x.held
  <2>1. /\ DOMAIN added = DOMAIN x.held \cup {id} /\ added[id] = [rows |-> rows, stamp |-> NoStamp]
        /\ \A i \in DOMAIN x.held : added[i] = x.held[i]
        /\ added = [i \in DOMAIN added |-> added[i]]
    BY <1>2 DEF Add
  <2>2. Restamp(added, id, c) = [added EXCEPT ![id].stamp = c]
    BY <2>1 DEF Restamp
  <2>3. [added[id] EXCEPT !.stamp = c] = [rows |-> rows, stamp |-> c]
    BY <2>1
  <2> HIDE DEF added
  <2>4. [added EXCEPT ![id].stamp = c] = [i \in DOMAIN added |-> IF i = id THEN [rows |-> rows, stamp |-> c] ELSE added[i]]
    BY <2>1, <2>3
  <2>5. \A i \in DOMAIN x.held \cup {id} :
           (IF i = id THEN [rows |-> rows, stamp |-> c] ELSE added[i])
           = (IF i \in DOMAIN x.held THEN x.held[i] ELSE [rows |-> rows, stamp |-> c])
    BY <1>2, <2>1
  <2>6. Restamp(added, id, c) = [i \in DOMAIN x.held \cup {id} |->
           IF i \in DOMAIN x.held THEN x.held[i] ELSE [rows |-> rows, stamp |-> c]]
    BY <2>1, <2>2, <2>4, <2>5
  <2> QED BY <2>6 DEF added
<1> QED BY <1>1, <1>2

(***************************************************************************)
(* A sound context in which a call was counted is sound.                   *)
(***************************************************************************)
LEMMA CountedIsSound ==
  ASSUME NEW x, Sound(x), NEW t \in AllTools, x.used[t] < MaxCallsPerTool
  PROVE  LET counted == [x EXCEPT !.used[t] = @ + 1]
         IN Sound(counted) /\ counted.held = x.held /\ counted.era = x.era
<1> DEFINE used == [x.used EXCEPT ![t] = @ + 1]
           counted == [x EXCEPT !.used[t] = @ + 1]
<1>1. used \in [AllTools -> 0 .. MaxCallsPerTool]
  BY ToolsAssumption DEF Sound
<1>2. counted = [x EXCEPT !.used = used]
  OBVIOUS
<1> HIDE DEF used
<1>3. [x EXCEPT !.used = used] = [held |-> x.held, used |-> used, era |-> x.era]
  BY DEF Sound
<1>4. counted = [held |-> x.held, used |-> used, era |-> x.era]
  BY <1>2, <1>3
<1> HIDE DEF counted
<1>5. counted.held = x.held /\ counted.used = used /\ counted.era = x.era
  BY <1>4
<1>6. Sound(counted)
  BY <1>1, <1>4, <1>5 DEF Sound
<1> QED BY <1>5, <1>6 DEF counted

(***************************************************************************)
(* A sound context to which what its handler found was added is sound.     *)
(***************************************************************************)
LEMMA KeepIsSound ==
  ASSUME NEW x, Sound(x), NEW c \in Calls, c.shaped, c.tool \in Registry, NEW outcome,
         outcome = Handler(c, x), Told(c, x, outcome), outcome.kind = "record"
  PROVE  LET after == Keep(c, x, outcome.id, outcome.rows)
         IN /\ Sound(after) /\ after.era = x.era
            /\ outcome.id \in DOMAIN after.held
            /\ \A id \in DOMAIN x.held : id \in DOMAIN after.held /\ after.held[id] = x.held[id]
            /\ c.tool \notin {"runbook_search", "propose_remediation"} =>
                 outcome.rows = after.held[outcome.id].rows
<1> DEFINE id == outcome.id
           after == Keep(c, x, id, outcome.rows)
           held == [i \in DOMAIN x.held \cup {id} |-> IF i \in DOMAIN x.held THEN x.held[i]
                                                      ELSE [rows |-> outcome.rows, stamp |-> c]]
<1>1. /\ outcome = [kind |-> "record", id |-> id, rows |-> outcome.rows]
      /\ c.tool # "get_evidence" /\ id.tool = c.tool
      /\ c.tool \notin {"runbook_search", "propose_remediation"} => outcome.rows = id
      /\ c.tool = "propose_remediation" => outcome.rows.proposal.at = x.era
  BY DEF Told
<1>2. after = [x EXCEPT !.held = held]
  BY RecordKept DEF Keep
<1>3. /\ DOMAIN held = DOMAIN x.held \cup {id}
      /\ \A i \in DOMAIN x.held : held[i] = x.held[i]
      /\ id \notin DOMAIN x.held => held[id] = [rows |-> outcome.rows, stamp |-> c]
      /\ held = [i \in DOMAIN held |-> held[i]]
  OBVIOUS
<1> HIDE DEF held
<1>4. after = [held |-> held, used |-> x.used, era |-> x.era]
  <2>1. [x EXCEPT !.held = held] = [held |-> held, used |-> x.used, era |-> x.era]
    BY DEF Sound
  <2> QED BY <1>2, <2>1
<1> HIDE DEF after
<1>5. after.held = held /\ after.used = x.used /\ after.era = x.era
  BY <1>4
<1>6. AskedAs(id, [rows |-> outcome.rows, stamp |-> c], x.era)
  <2> DEFINE record == [rows |-> outcome.rows, stamp |-> c]
  <2>1. record.rows = outcome.rows /\ record.stamp = c
    OBVIOUS
  <2>2. c.tool # "propose_remediation" =>
          Handler(c, FreshContext("gate")) = [kind |-> "record", id |-> id, rows |-> outcome.rows]
    BY <1>1, HandlerAnywhere DEF Registry
  <2> HIDE DEF record
  <2> QED BY <1>1, <2>1, <2>2 DEF AskedAs, record
<1>7. \A i \in DOMAIN held : AskedAs(i, held[i], x.era)
  BY <1>3, <1>6 DEF Sound
<1>8. IsFiniteSet(DOMAIN held)
  BY <1>3, FS_AddElement DEF Sound
<1>9. held = [i \in DOMAIN held |-> [rows |-> held[i].rows, stamp |-> held[i].stamp]]
  <2>1. \A i \in DOMAIN x.held : x.held[i] = [rows |-> x.held[i].rows, stamp |-> x.held[i].stamp]
    <3>1. \A i \in DOMAIN x.held :
             [j \in DOMAIN x.held |-> [rows |-> x.held[j].rows, stamp |-> x.held[j].stamp]][i]
             = [rows |-> x.held[i].rows, stamp |-> x.held[i].stamp]
      OBVIOUS
    <3>2. x.held = [j \in DOMAIN x.held |-> [rows |-> x.held[j].rows, stamp |-> x.held[j].stamp]]
      BY DEF Sound
    <3> QED BY <3>1, <3>2
  <2>2. \A i \in DOMAIN held : held[i] = [rows |-> held[i].rows, stamp |-> held[i].stamp]
    BY <1>3, <2>1
  <2> QED BY <1>3, <2>2
<1>10. Sound(after)
  BY <1>4, <1>5, <1>7, <1>8, <1>9 DEF Sound
<1>11. c.tool \notin {"runbook_search", "propose_remediation"} => outcome.rows = held[id].rows
  <2>1. CASE id \in DOMAIN x.held
    <3>1. held[id] = x.held[id] /\ AskedAs(id, x.held[id], x.era)
      BY <1>3, <2>1 DEF Sound
    <3> QED BY <1>1, <3>1 DEF AskedAs
  <2>2. CASE id \notin DOMAIN x.held
    BY <1>3, <2>2
  <2> QED BY <2>1, <2>2
<1> QED BY <1>3, <1>5, <1>10, <1>11 DEF after

(***************************************************************************)
(* ToolRegistry.call: the context stays sound, keeps what it held, and     *)
(* what the caller is shown is held.  Only an unfit call escapes.          *)
(***************************************************************************)
Answered(x, c, answer) ==
  /\ Sound(answer.ctx) /\ answer.ctx.era = x.era
  /\ \A id \in DOMAIN x.held : id \in DOMAIN answer.ctx.held /\ answer.ctx.held[id] = x.held[id]
  /\ answer.seen.kind \in {"error", "raised", "result"}
  /\ answer.seen.kind = "raised" => c.shaped /\ c.tool \in WindowTools /\ Unfit(c)
  /\ answer.seen.kind = "result" =>
       /\ answer.seen = Shown(answer.seen.id, answer.seen.rows)
       /\ answer.seen.id \in DOMAIN answer.ctx.held
       /\ c.tool \notin {"runbook_search", "propose_remediation"} =>
            answer.seen.rows = answer.ctx.held[answer.seen.id].rows

LEMMA CallAnswered ==
  ASSUME NEW x, Sound(x), NEW c \in Calls
  PROVE  Answered(x, c, RegistryCall(Registry, x, c))
<1> DEFINE answer == RegistryCall(Registry, x, c)
           counted == [x EXCEPT !.used[c.tool] = @ + 1]
           outcome == Handler(c, counted)
<1>1. CASE c.tool \notin Registry \/ ~c.shaped \/ x.used[c.tool] >= MaxCallsPerTool
  <2>1. answer = [seen |-> Failure, ctx |-> x]
    BY <1>1 DEF RegistryCall
  <2>2. answer.seen.kind = "error" /\ answer.ctx = x
    BY <2>1 DEF Failure
  <2> HIDE DEF answer
  <2> QED BY <2>2 DEF Answered, answer
<1>2. CASE c.tool \in Registry /\ c.shaped /\ ~(x.used[c.tool] >= MaxCallsPerTool)
  <2>1. answer = CASE outcome.kind = "refused" -> [seen |-> Failure, ctx |-> counted]
                   [] outcome.kind = "raised"  -> [seen |-> Escape, ctx |-> counted]
                   [] outcome.kind = "held"    ->
                        [seen |-> Shown(outcome.id, counted.held[outcome.id].rows),
                         ctx  |-> [counted EXCEPT !.held = Restamp(@, outcome.id, c)]]
                   [] outcome.kind = "record"  ->
                        [seen |-> Shown(outcome.id, outcome.rows),
                         ctx  |-> Keep(c, counted, outcome.id, outcome.rows)]
    BY <1>2 DEF RegistryCall
  <2>2. c.tool \in AllTools /\ x.used[c.tool] \in 0 .. MaxCallsPerTool
    BY <1>2 DEF Registry, Sound
  <2>3. Sound(counted) /\ counted.held = x.held /\ counted.era = x.era
    <3>1. x.used[c.tool] < MaxCallsPerTool
      BY <1>2, <2>2, ToolsAssumption
    <3> QED BY <2>2, <3>1, CountedIsSound
  <2>4. Told(c, counted, outcome)
    BY <2>2, CallAssumption, HandlerTells
  <2> HIDE DEF counted
  <2>o. outcome = Handler(c, counted)
    OBVIOUS
  <2> HIDE DEF answer, outcome
  <2>5. CASE outcome.kind = "refused"
    <3>1. answer.seen.kind = "error" /\ answer.ctx = counted
      BY <2>1, <2>5 DEF Failure
    <3> QED BY <2>3, <3>1 DEF Answered, answer
  <2>6. CASE outcome.kind = "raised"
    <3>1. answer.seen.kind = "raised" /\ answer.ctx = counted
      BY <2>1, <2>6 DEF Escape
    <3>2. c.tool \in WindowTools /\ Unfit(c)
      BY <2>4, <2>6 DEF Told
    <3> QED BY <1>2, <2>3, <3>1, <3>2 DEF Answered, answer
  <2>7. CASE outcome.kind = "held"
    <3>1. outcome.id \in DOMAIN counted.held /\ c.tool = "get_evidence"
      BY <2>4, <2>7 DEF Told
    <3>2. [counted EXCEPT !.held = Restamp(@, outcome.id, c)] = counted
      <4>1. Restamp(counted.held, outcome.id, c) = counted.held
        BY <2>3, <3>1, HeldIsStamped
      <4>2. counted = [held |-> counted.held, used |-> counted.used, era |-> counted.era]
        BY <2>3 DEF Sound
      <4> QED BY <4>1, <4>2
    <3>3. answer = [seen |-> Shown(outcome.id, counted.held[outcome.id].rows), ctx |-> counted]
      BY <2>1, <2>7, <3>2
    <3>4. /\ answer.seen = Shown(answer.seen.id, answer.seen.rows) /\ answer.ctx = counted
          /\ answer.seen.id = outcome.id /\ answer.seen.rows = counted.held[outcome.id].rows
          /\ answer.seen.kind = "result"
      BY <3>3 DEF Shown
    <3> QED BY <2>3, <3>1, <3>4 DEF Answered, answer
  <2>8. CASE outcome.kind = "record"
    <3> DEFINE after == Keep(c, counted, outcome.id, outcome.rows)
    <3>1. /\ Sound(after) /\ after.era = counted.era
          /\ outcome.id \in DOMAIN after.held
          /\ \A id \in DOMAIN counted.held : id \in DOMAIN after.held /\ after.held[id] = counted.held[id]
          /\ c.tool \notin {"runbook_search", "propose_remediation"} =>
               outcome.rows = after.held[outcome.id].rows
      BY <1>2, <2>3, <2>4, <2>8, <2>o, KeepIsSound
    <3>2. answer = [seen |-> Shown(outcome.id, outcome.rows), ctx |-> after]
      BY <2>1, <2>8
    <3> HIDE DEF after
    <3>3. /\ answer.seen = Shown(answer.seen.id, answer.seen.rows) /\ answer.ctx = after
          /\ answer.seen.id = outcome.id /\ answer.seen.rows = outcome.rows
          /\ answer.seen.kind = "result"
      BY <3>2 DEF Shown
    <3> QED BY <2>3, <3>1, <3>3 DEF Answered, answer
  <2> QED BY <2>4, <2>5, <2>6, <2>7, <2>8 DEF Told
<1> QED BY <1>1, <1>2, CallAssumption

(***************************************************************************)
(* A stamp asked again in a context that holds nothing finds the record,   *)
(* and nothing escapes from it in any context.                             *)
(***************************************************************************)
LEMMA FreshIsSound == \A era : Sound(FreshContext(era)) /\ FreshContext(era).era = era
<1> SUFFICES ASSUME NEW era PROVE Sound(FreshContext(era)) /\ FreshContext(era).era = era
  OBVIOUS
<1> DEFINE fresh == FreshContext(era)
<1>1. /\ fresh = [held |-> << >>, used |-> [t \in AllTools |-> 0], era |-> era]
      /\ DOMAIN fresh.held = {} /\ fresh.used = [t \in AllTools |-> 0] /\ fresh.era = era
      /\ fresh.held = << >>
  BY DEF FreshContext
<1>2. << >> = [id \in {} |-> [rows |-> << >>[id].rows, stamp |-> << >>[id].stamp]]
  OBVIOUS
<1> HIDE DEF fresh
<1>3. fresh.used \in [AllTools -> 0 .. MaxCallsPerTool]
  BY <1>1, ToolsAssumption
<1> QED BY <1>1, <1>2, <1>3, FS_EmptySet DEF Sound, fresh

LEMMA AskedAgain ==
  ASSUME NEW id, NEW record, NEW era, AskedAs(id, record, era)
  PROVE  LET stamp == record.stamp
         IN /\ stamp # NoStamp
            /\ stamp.tool # "propose_remediation" =>
                 RegistryCall(Registry, FreshContext("gate"), stamp).seen = Shown(id, record.rows)
<1> DEFINE stamp == record.stamp
           fresh == FreshContext("gate")
           counted == [fresh EXCEPT !.used[stamp.tool] = @ + 1]
<1>1. stamp \in Calls /\ stamp.shaped /\ stamp.tool \in Registry \ {"get_evidence"}
  BY DEF AskedAs
<1>2. stamp # NoStamp
  BY <1>1 DEF Registry, NoStamp, AllTools
<1>3. ASSUME stamp.tool # "propose_remediation"
      PROVE  RegistryCall(Registry, fresh, stamp).seen = Shown(id, record.rows)
  <2>1. Handler(stamp, counted) = [kind |-> "record", id |-> id, rows |-> record.rows]
    BY <1>1, <1>3, HandlerAnywhere DEF AskedAs, Registry
  <2>2. ~(fresh.used[stamp.tool] >= MaxCallsPerTool)
    BY <1>1, ToolsAssumption DEF FreshContext, Registry
  <2> HIDE DEF stamp, fresh
  <2> QED BY <1>1, <2>1, <2>2 DEF RegistryCall
<1> QED BY <1>2, <1>3

LEMMA NothingEscapes ==
  ASSUME NEW id, NEW record, NEW era, AskedAs(id, record, era), NEW x, Sound(x)
  PROVE  RegistryCall(Registry, x, record.stamp).seen.kind # "raised"
<1> DEFINE stamp == record.stamp
           fresh == FreshContext("gate")
           counted == [x EXCEPT !.used[stamp.tool] = @ + 1]
           outcome == Handler(stamp, counted)
<1>1. stamp \in Calls /\ stamp.shaped /\ stamp.tool \in Registry \ {"get_evidence"}
  BY DEF AskedAs
<1>2. outcome.kind \in {"refused", "record"}
  <2>1. CASE stamp.tool = "propose_remediation"
    BY <2>1 DEF Handler, ProposeRemediation, Refused
  <2>2. CASE stamp.tool # "propose_remediation"
    <3>1. outcome = [kind |-> "record", id |-> id, rows |-> record.rows]
      BY <1>1, <2>2, HandlerAnywhere DEF AskedAs, Registry
    <3> QED BY <3>1
  <2> QED BY <2>1, <2>2
<1>3. \/ RegistryCall(Registry, x, stamp) = [seen |-> Failure, ctx |-> x]
      \/ RegistryCall(Registry, x, stamp) =
           CASE outcome.kind = "refused" -> [seen |-> Failure, ctx |-> counted]
             [] outcome.kind = "raised"  -> [seen |-> Escape, ctx |-> counted]
             [] outcome.kind = "held"    ->
                  [seen |-> Shown(outcome.id, counted.held[outcome.id].rows),
                   ctx  |-> [counted EXCEPT !.held = Restamp(@, outcome.id, stamp)]]
             [] outcome.kind = "record"  ->
                  [seen |-> Shown(outcome.id, outcome.rows),
                   ctx  |-> Keep(stamp, counted, outcome.id, outcome.rows)]
  BY DEF RegistryCall
<1> HIDE DEF outcome, counted, stamp
<1>4. CASE RegistryCall(Registry, x, stamp) = [seen |-> Failure, ctx |-> x]
  BY <1>4 DEF Failure, stamp
<1>5. CASE RegistryCall(Registry, x, stamp) # [seen |-> Failure, ctx |-> x]
  <2>1. CASE outcome.kind = "refused"
    BY <1>3, <1>5, <2>1 DEF Failure, stamp
  <2>2. CASE outcome.kind = "record"
    BY <1>3, <1>5, <2>2 DEF Shown, stamp
  <2> QED BY <1>2, <2>1, <2>2
<1> QED BY <1>4, <1>5

-----------------------------------------------------------------------------
(***************************************************************************)
(* What a model call may leave of the budget.                              *)
(***************************************************************************)
LEMMA SpendingTyped ==
  ASSUME NEW b \in Budget, NEW after \in Spending(b)
  PROVE  /\ after \in Budget /\ after.rounds = b.rounds /\ after.calls = b.calls
         /\ after.evidence = b.evidence
         /\ after # b => after.over \in Ceilings
<1>1. after = b \/ \E m \in Metered : after = [b EXCEPT !.over = m]
  BY DEF Spending
<1> QED BY <1>1, ReactAssumption DEF Budget

LEMMA ExhaustedTyped ==
  ASSUME NEW b \in Budget
  PROVE  /\ Exhausted(b) \in BudgetStops \cup {"none"}
         /\ Exhausted(b) = "none" => b.rounds < MaxRounds /\ b.calls < MaxToolCalls
BY ReactAssumption DEF Exhausted, Budget, BudgetStops

LEMMA ConsultedTyped ==
  ASSUME budget \in Budget, NEW m \in Consulted
  PROVE  /\ m.budget \in Budget /\ m.budget.rounds = budget.rounds
         /\ m.budget.evidence = budget.evidence
         /\ m.verdict \in BudgetStops \cup {"answer", "llm_error", "model_unavailable", "crash"}
<1>1. CASE Exhausted(budget) # "none"
  BY <1>1, ExhaustedTyped DEF Consulted
<1>2. CASE Exhausted(budget) = "none"
  <2>1. \/ \E v \in {"answer", "llm_error", "model_unavailable", "crash"}, b \in Spending(budget) :
             m = [verdict |-> v, budget |-> b]
        \/ \E b \in Spending(budget) \ {budget} : m = [verdict |-> b.over, budget |-> b]
    BY <1>2 DEF Consulted
  <2>2. CASE \E v \in {"answer", "llm_error", "model_unavailable", "crash"}, b \in Spending(budget) :
               m = [verdict |-> v, budget |-> b]
    BY <2>2, SpendingTyped
  <2>3. CASE \E b \in Spending(budget) \ {budget} : m = [verdict |-> b.over, budget |-> b]
    BY <2>3, SpendingTyped DEF BudgetStops
  <2> QED BY <2>1, <2>2, <2>3
<1> QED BY <1>1, <1>2

LEMMA ReactInitInv == ReactInit => ReactInv
<1> SUFFICES ASSUME ReactInit PROVE ReactInv
  OBVIOUS
<1> USE DEF ReactInit
<1>1. budget \in Budget /\ budget.rounds = 0 /\ Len(budget.evidence) = 0
  <2>1. << >> \in Seq(Nat) /\ Len(<< >>) = 0
    OBVIOUS
  <2> QED BY <2>1, ReactAssumption DEF Budget
<1>2. Sound(ctx) /\ Sound(rerun.ctx) /\ ctx.era = "investigation" /\ rerun.ctx.era = "gate"
  BY FreshIsSound DEF FreshRerun
<1>3. LoopInv
  BY <1>1, ReactAssumption DEF LoopInv, NoReport
<1>4. ReactTypeOK
  <2>1. \A t \in AllTools : ctx.used[t] \in 0 .. MaxCallsPerTool /\ rerun.ctx.used[t] \in 0 .. MaxCallsPerTool
    BY <1>2 DEF Sound
  <2> QED BY <1>1, <2>1, ReactAssumption DEF ReactTypeOK, Stages, NoReport, Budget
<1>5. EvidenceInv
  BY <1>2 DEF EvidenceInv, ShownIsHeld, GatedClaims, FreshRerun
<1> QED BY <1>3, <1>4, <1>5 DEF ReactInv

(***************************************************************************)
(* What the agent was shown stays held while the context grows.            *)
(***************************************************************************)
LEMMA ShownStays ==
  ASSUME ShownIsHeld, NEW held,
         \A id \in DOMAIN ctx.held : id \in DOMAIN held /\ held[id] = ctx.held[id],
         NEW o \in shown
  PROVE  o.id \in DOMAIN held /\ (o.rows # held[o.id].rows => o.kind \in {"runbook_search", "propose_remediation"})
BY DEF ShownIsHeld

LEMMA DecideInv == ReactInv /\ Decide => ReactInv'
<1> SUFFICES ASSUME ReactInv, Decide PROVE ReactInv'
  OBVIOUS
<1>0. ReactTypeOK /\ LoopInv /\ EvidenceInv /\ budget \in Budget
  BY DEF ReactInv, LoopInv
<1>1. stage = "deciding" /\ UNCHANGED <<gate, ctx, shown, report, rerun>>
  BY DEF Decide
<1>2. PICK m \in Consulted :
        /\ budget' = m.budget
        /\ \/ /\ Failed(m.verdict)
              /\ stop' = IF m.verdict \in BudgetStops THEN m.verdict ELSE "model_unavailable"
              /\ usedFloor' = TRUE /\ stage' = "reporting" /\ UNCHANGED chosen
           \/ m.verdict = "crash" /\ stage' = "crashed" /\ UNCHANGED <<stop, chosen, usedFloor>>
           \/ /\ m.verdict = "answer"
              /\ \/ stop' = "complete" /\ stage' = "reporting" /\ UNCHANGED chosen
                 \/ \E c \in Calls : chosen' = c /\ stage' = "calling" /\ UNCHANGED stop
              /\ UNCHANGED usedFloor
  BY DEF Decide
<1>3. budget' \in Budget /\ budget'.rounds = budget.rounds /\ budget'.evidence = budget.evidence
  BY <1>0, <1>2, ConsultedTyped
<1>4. /\ stage' \in {"reporting", "crashed", "calling"}
      /\ stop' \in BudgetStops \cup {"none", "complete", "stalled", "model_unavailable"}
      /\ stage' = "reporting" => stop' # "none"
      /\ stage' = "calling" => stop' = "none" /\ chosen' \in Calls
      /\ chosen' \in Calls \cup {NoStamp} /\ usedFloor' \in BOOLEAN
  <2>1. "none" \notin BudgetStops
    BY DEF BudgetStops, Ceilings
  <2> QED BY <1>0, <1>1, <1>2, <2>1 DEF ReactTypeOK
<1>5. LoopInv'
  BY <1>0, <1>1, <1>3, <1>4 DEF LoopInv
<1>6. ReactTypeOK'
  BY <1>0, <1>1, <1>3, <1>4 DEF ReactTypeOK, Stages, Budget
<1>7. EvidenceInv'
  BY <1>0, <1>1, <1>4 DEF EvidenceInv, ShownIsHeld, GatedClaims
<1> QED BY <1>5, <1>6, <1>7 DEF ReactInv

(***************************************************************************)
(* The end of a round: what was observed is held.                          *)
(***************************************************************************)
LEMMA RoundInv ==
  ASSUME ReactInv, stage = "calling", UNCHANGED <<gate, chosen, report, rerun, usedFloor>>,
         NEW b \in Budget, b.rounds = budget.rounds, b.evidence = budget.evidence,
         NEW answer, Answered(ctx, chosen, answer), answer.seen.kind \in {"error", "result"},
         EndRound(b, answer.ctx, answer.seen)
  PROVE  ReactInv'
<1>0. /\ ReactTypeOK /\ LoopInv /\ EvidenceInv /\ chosen \in Calls /\ budget \in Budget
      /\ budget.rounds < MaxRounds
  BY DEF ReactInv, LoopInv
<1> DEFINE after == answer.ctx
           size  == Cardinality(DOMAIN after.held)
           ended == [b EXCEPT !.rounds = @ + 1, !.evidence = Append(@, size)]
<1>1. /\ budget' \in Spending(ended) /\ stop' = StopReason(budget')
      /\ stage' = IF stop' = "none" THEN "deciding" ELSE "reporting"
      /\ ctx' = after
      /\ shown' = shown \cup (IF answer.seen.kind = "result"
                              THEN {[answer.seen EXCEPT !.kind = chosen.tool]} ELSE {})
  BY DEF EndRound
<1>2. Sound(after) /\ after.era = ctx.era /\ size \in Nat
  BY FS_CardinalityType DEF Answered, Sound
<1>3. ended \in Budget /\ ended.rounds = budget.rounds + 1 /\ Len(ended.evidence) = budget.rounds + 1
  <2>1. b.rounds + 1 \in 0 .. MaxRounds
    BY <1>0, ReactAssumption DEF Budget
  <2>2. Append(b.evidence, size) \in Seq(Nat) /\ Len(Append(b.evidence, size)) = Len(b.evidence) + 1
    BY <1>2 DEF Budget
  <2>3. Len(b.evidence) = budget.rounds
    BY <1>0 DEF ReactTypeOK
  <2> DEFINE evidence == Append(b.evidence, size)
  <2>4. ended = [b EXCEPT !.rounds = b.rounds + 1, !.evidence = evidence]
    OBVIOUS
  <2> HIDE DEF evidence, size, ended
  <2>5. /\ ended = [rounds |-> b.rounds + 1, calls |-> b.calls, counts |-> b.counts,
                    evidence |-> evidence, over |-> b.over]
    BY <2>4 DEF Budget
  <2> QED BY <2>1, <2>2, <2>3, <2>5 DEF Budget, evidence
<1> HIDE DEF ended, size
<1>4. budget' \in Budget /\ budget'.rounds = ended.rounds /\ budget'.evidence = ended.evidence
  BY <1>1, <1>3, SpendingTyped
<1>5. /\ stage' \in {"deciding", "reporting"}
      /\ stop' \in BudgetStops \cup {"none", "stalled"}
      /\ stage' = "reporting" => stop' # "none"
      /\ stage' = "deciding" => stop' = "none" /\ budget'.rounds < MaxRounds
  <2>1. stop' = IF Exhausted(budget') # "none" THEN Exhausted(budget')
                ELSE IF Stalled(budget') THEN "stalled" ELSE "none"
    BY <1>1 DEF StopReason
  <2>2. /\ Exhausted(budget') \in BudgetStops \cup {"none"}
        /\ Exhausted(budget') = "none" => budget'.rounds < MaxRounds
    BY <1>4, ExhaustedTyped
  <2> QED BY <1>1, <2>1, <2>2
<1>6. LoopInv'
  BY <1>0, <1>4, <1>5 DEF LoopInv
<1>7. ReactTypeOK'
  <2>1. \A t \in AllTools : ctx'.used[t] \in 0 .. MaxCallsPerTool
    BY <1>1, <1>2 DEF Sound
  <2> QED BY <1>0, <1>3, <1>4, <1>5, <2>1 DEF ReactTypeOK, Stages, Budget
<1>8. ShownIsHeld'
  <2>1. \A id \in DOMAIN ctx.held : id \in DOMAIN after.held /\ after.held[id] = ctx.held[id]
    BY DEF Answered
  <2>2. \A o \in shown : /\ o.id \in DOMAIN after.held
                         /\ o.rows # after.held[o.id].rows => o.kind \in {"runbook_search", "propose_remediation"}
    BY <1>0, <2>1, ShownStays DEF EvidenceInv
  <2>3. ASSUME answer.seen.kind = "result"
        PROVE  LET o == [answer.seen EXCEPT !.kind = chosen.tool]
               IN /\ o.id \in DOMAIN after.held
                  /\ o.rows # after.held[o.id].rows => o.kind \in {"runbook_search", "propose_remediation"}
    <3>1. PICK id, rows : /\ answer.seen = Shown(id, rows) /\ id = answer.seen.id /\ rows = answer.seen.rows
      BY <2>3 DEF Answered
    <3>2. /\ id \in DOMAIN after.held
          /\ chosen.tool \notin {"runbook_search", "propose_remediation"} => rows = after.held[id].rows
      BY <2>3, <3>1 DEF Answered
    <3>3. [answer.seen EXCEPT !.kind = chosen.tool] = [kind |-> chosen.tool, id |-> id, rows |-> rows]
      BY <3>1 DEF Shown
    <3> QED BY <3>2, <3>3
  <2> HIDE DEF after
  <2> QED BY <1>1, <2>2, <2>3 DEF ShownIsHeld
<1>9. EvidenceInv'
  <2>1. Sound(ctx') /\ ctx'.era = "investigation"
    BY <1>0, <1>1, <1>2 DEF EvidenceInv
  <2>2. DOMAIN ctx.held \subseteq DOMAIN ctx'.held
    BY <1>1 DEF Answered
  <2>3. GatedClaims'
    BY <1>5 DEF GatedClaims
  <2> QED BY <1>0, <1>8, <2>1, <2>2, <2>3 DEF EvidenceInv
<1> QED BY <1>6, <1>7, <1>9 DEF ReactInv

LEMMA CallToolInv == ReactInv /\ CallTool => ReactInv'
<1> SUFFICES ASSUME ReactInv, CallTool PROVE ReactInv'
  OBVIOUS
<1>0. /\ ReactTypeOK /\ LoopInv /\ EvidenceInv /\ chosen \in Calls /\ budget \in Budget
      /\ Sound(ctx) /\ stage = "calling"
  BY DEF ReactInv, LoopInv, EvidenceInv, CallTool
<1>1. UNCHANGED <<gate, chosen, report, rerun, usedFloor>>
  BY DEF CallTool
<1> DEFINE answer == RegistryCall(Registry, ctx, chosen)
           spent  == [budget EXCEPT !.calls = @ + 1, !.counts[chosen] = @ + 1]
<1>2. CASE Repetitive
  <2> DEFINE refusal == [seen |-> Failure, ctx |-> ctx]
  <2>1. EndRound(budget, ctx, Failure)
    BY <1>0, <1>2 DEF CallTool
  <2>2. refusal.ctx = ctx /\ refusal.seen = Failure /\ refusal.seen.kind = "error"
    BY DEF Failure
  <2> HIDE DEF refusal
  <2>3. Answered(ctx, chosen, refusal)
    BY <1>0, <2>2 DEF Answered
  <2> QED BY <1>0, <1>1, <2>1, <2>2, <2>3, RoundInv
<1>3. CASE ~Repetitive /\ Exhausted(budget) # "none"
  <2>1. stop' = Exhausted(budget) /\ stage' = "reporting" /\ UNCHANGED <<ctx, budget, shown>>
    BY <1>3 DEF CallTool
  <2>2. stop' \in BudgetStops /\ stop' # "none"
    BY <1>0, <1>3, <2>1, ExhaustedTyped
  <2>3. LoopInv'
    BY <1>0, <1>1, <2>1 DEF LoopInv
  <2>4. ReactTypeOK'
    BY <1>0, <1>1, <2>1, <2>2 DEF ReactTypeOK, Stages
  <2>5. EvidenceInv'
    BY <1>0, <1>1, <2>1 DEF EvidenceInv, ShownIsHeld, GatedClaims
  <2> QED BY <2>3, <2>4, <2>5 DEF ReactInv
<1>4. CASE ~Repetitive /\ Exhausted(budget) = "none"
  <2>1. Answered(ctx, chosen, answer)
    BY <1>0, CallAnswered
  <2>2. spent \in Budget /\ spent.rounds = budget.rounds /\ spent.evidence = budget.evidence
    <3>1. budget.calls + 1 \in 0 .. MaxToolCalls
      BY <1>0, <1>4, ExhaustedTyped, ReactAssumption DEF Budget
    <3> DEFINE counts == [budget.counts EXCEPT ![chosen] = @ + 1]
    <3>2. counts \in [Calls -> Nat]
      BY <1>0 DEF Budget
    <3>3. spent = [budget EXCEPT !.calls = budget.calls + 1, !.counts = counts]
      OBVIOUS
    <3> HIDE DEF counts, spent
    <3>4. spent = [rounds |-> budget.rounds, calls |-> budget.calls + 1, counts |-> counts,
                   evidence |-> budget.evidence, over |-> budget.over]
      BY <1>0, <3>3 DEF Budget
    <3> QED BY <1>0, <3>1, <3>2, <3>4 DEF Budget
  <2>3. IF answer.seen.kind = "raised"
        THEN stage' = "crashed" /\ ctx' = answer.ctx /\ budget' = spent /\ UNCHANGED <<stop, shown>>
        ELSE EndRound(spent, answer.ctx, answer.seen)
    BY <1>4 DEF CallTool
  <2> HIDE DEF answer, spent
  <2>4. CASE answer.seen.kind = "raised"
    <3>1. stage' = "crashed" /\ ctx' = answer.ctx /\ budget' = spent /\ UNCHANGED <<stop, shown>>
      BY <2>3, <2>4
    <3>2. Sound(ctx') /\ ctx'.era = "investigation"
      BY <1>0, <2>1, <3>1 DEF Answered, EvidenceInv
    <3>3. \A id \in DOMAIN ctx.held : id \in DOMAIN ctx'.held /\ ctx'.held[id] = ctx.held[id]
      BY <2>1, <3>1 DEF Answered
    <3>4. LoopInv'
      BY <1>0, <1>1, <2>2, <3>1 DEF LoopInv
    <3>5. ReactTypeOK'
      <4>1. \A t \in AllTools : ctx'.used[t] \in 0 .. MaxCallsPerTool
        BY <3>2 DEF Sound
      <4> QED BY <1>0, <1>1, <2>2, <3>1, <4>1 DEF ReactTypeOK, Stages, Budget
    <3>6. ShownIsHeld'
      <4> DEFINE held == ctx'.held
      <4>1. \A id \in DOMAIN ctx.held : id \in DOMAIN held /\ held[id] = ctx.held[id]
        BY <3>3
      <4> HIDE DEF held
      <4>2. \A o \in shown : /\ o.id \in DOMAIN held
                             /\ o.rows # held[o.id].rows => o.kind \in {"runbook_search", "propose_remediation"}
        BY <1>0, <4>1, ShownStays DEF EvidenceInv
      <4> QED BY <3>1, <4>2 DEF ShownIsHeld, held
    <3>7. GatedClaims'
      BY <3>1 DEF GatedClaims
    <3>8. EvidenceInv'
      BY <1>0, <1>1, <3>2, <3>3, <3>6, <3>7 DEF EvidenceInv
    <3> QED BY <3>4, <3>5, <3>8 DEF ReactInv
  <2>5. CASE answer.seen.kind # "raised"
    <3>1. EndRound(spent, answer.ctx, answer.seen) /\ answer.seen.kind \in {"error", "result"}
      BY <2>1, <2>3, <2>5 DEF Answered
    <3> QED BY <1>0, <1>1, <2>1, <2>2, <3>1, RoundInv
  <2> QED BY <2>4, <2>5
<1> QED BY <1>2, <1>3, <1>4

LEMMA WriteReportInv == ReactInv /\ WriteReport => ReactInv'
<1> SUFFICES ASSUME ReactInv, WriteReport PROVE ReactInv'
  OBVIOUS
<1>0. ReactTypeOK /\ LoopInv /\ EvidenceInv /\ budget \in Budget
  BY DEF ReactInv, LoopInv
<1>1. stage = "reporting" /\ UNCHANGED <<gate, stop, chosen, ctx, shown, rerun>>
  BY DEF WriteReport
<1>2. PICK m \in Consulted :
        /\ budget' = m.budget
        /\ \/ Failed(m.verdict) /\ report' = NoReport /\ usedFloor' = TRUE
              /\ stage' = IF gate THEN "gating" ELSE "done"
           \/ m.verdict = "crash" /\ stage' = "crashed" /\ UNCHANGED <<report, usedFloor>>
           \/ /\ m.verdict = "answer"
              /\ \E r \in Reports(ctx.held) :
                   /\ r.confidence \in {"low", "medium", "high"}
                   /\ report' = [root |-> r.root, claims |-> r.claims,
                                 confidence |-> IF stop = "complete" THEN r.confidence ELSE "low"]
              /\ stage' = IF gate THEN "gating" ELSE "done"
              /\ UNCHANGED usedFloor
  BY DEF WriteReport
<1>3. budget' \in Budget /\ budget'.rounds = budget.rounds /\ budget'.evidence = budget.evidence
  BY <1>0, <1>2, ConsultedTyped
<1>4. /\ stage' \in {"crashed", "gating", "done"} /\ (stage' = "done" => ~gate)
      /\ usedFloor' \in BOOLEAN
  BY <1>0, <1>2 DEF ReactTypeOK
<1>5. /\ report' = [root |-> report'.root, confidence |-> report'.confidence, claims |-> report'.claims]
      /\ report'.confidence \in {"none", "low", "medium", "high"}
  <2>1. CASE report' = NoReport
    BY <2>1 DEF NoReport
  <2>2. CASE report' = report
    BY <1>0, <2>2 DEF LoopInv, ReactTypeOK
  <2>3. CASE \E r \in Reports(ctx.held) :
               /\ r.confidence \in {"low", "medium", "high"}
               /\ report' = [root |-> r.root, claims |-> r.claims,
                             confidence |-> IF stop = "complete" THEN r.confidence ELSE "low"]
    BY <2>3
  <2> QED BY <1>2, <2>1, <2>2, <2>3
<1>6. LoopInv'
  BY <1>3, <1>4, <1>5 DEF LoopInv
<1>7. ReactTypeOK'
  BY <1>0, <1>1, <1>3, <1>4, <1>5 DEF ReactTypeOK, Stages, Budget
<1>8. EvidenceInv'
  BY <1>0, <1>1, <1>4 DEF EvidenceInv, ShownIsHeld, GatedClaims
<1> QED BY <1>6, <1>7, <1>8 DEF ReactInv

(***************************************************************************)
(* One citation asked again, and why nothing escapes from it.              *)
(***************************************************************************)
LEMMA ReExecuteInv == ReactInv /\ ReExecute => ReactInv' /\ stage' = "gating"
<1> SUFFICES ASSUME ReactInv, ReExecute PROVE ReactInv' /\ stage' = "gating"
  OBVIOUS
<1> DEFINE ref    == report.claims[rerun.asked + 1]
           stamp  == IF ref \in DOMAIN ctx.held THEN ctx.held[ref].stamp ELSE NoStamp
           answer == RegistryCall(Registry, rerun.ctx, stamp)
           same   == answer.seen.kind = "result" /\ answer.seen.id = ref
<1>0. /\ ReactTypeOK /\ LoopInv /\ EvidenceInv /\ stage = "gating"
      /\ Sound(ctx) /\ Sound(rerun.ctx) /\ rerun.ctx.era = "gate"
      /\ rerun = [asked |-> rerun.asked, ctx |-> rerun.ctx, back |-> rerun.back]
  BY DEF ReactInv, EvidenceInv, ReExecute
<1>1. UNCHANGED <<gate, stop, chosen, ctx, budget, shown, report, usedFloor>>
  BY DEF ReExecute
<1>2. IF stamp = NoStamp
      THEN rerun' = [rerun EXCEPT !.asked = @ + 1] /\ UNCHANGED stage
      ELSE /\ rerun' = [asked |-> rerun.asked + 1, ctx |-> answer.ctx,
                        back |-> rerun.back \cup (IF same THEN {ref} ELSE {})]
           /\ stage' = IF answer.seen.kind = "raised" THEN "crashed" ELSE stage
  BY DEF ReExecute
<1>3. /\ stage' = "gating" /\ rerun' = [asked |-> rerun'.asked, ctx |-> rerun'.ctx, back |-> rerun'.back]
      /\ Sound(rerun'.ctx) /\ rerun'.ctx.era = "gate"
      /\ rerun'.back \subseteq DOMAIN ctx.held \cap DOMAIN rerun'.ctx.held
  <2>1. CASE stamp = NoStamp
    <3>1. rerun' = [asked |-> rerun.asked + 1, ctx |-> rerun.ctx, back |-> rerun.back]
      BY <1>0, <1>2, <2>1
    <3> QED BY <1>0, <1>2, <2>1, <3>1 DEF EvidenceInv
  <2>2. CASE stamp # NoStamp
    <3>1. ref \in DOMAIN ctx.held /\ stamp = ctx.held[ref].stamp
      BY <2>2
    <3>2. AskedAs(ref, ctx.held[ref], ctx.era)
      BY <1>0, <3>1 DEF Sound
    <3>3. stamp \in Calls
      BY <3>1, <3>2 DEF AskedAs
    <3>4. Answered(rerun.ctx, stamp, answer)
      BY <1>0, <3>3, CallAnswered
    <3>5. answer.seen.kind # "raised"
      BY <1>0, <3>1, <3>2, NothingEscapes
    <3> HIDE DEF stamp, answer, ref
    <3>6. /\ rerun' = [asked |-> rerun.asked + 1, ctx |-> answer.ctx,
                       back |-> rerun.back \cup (IF same THEN {ref} ELSE {})]
          /\ stage' = stage
      BY <1>2, <2>2, <3>5
    <3>7. same => ref \in DOMAIN answer.ctx.held
      BY <3>4 DEF Answered
    <3>8. rerun.back \subseteq DOMAIN ctx.held \cap DOMAIN answer.ctx.held
      BY <1>0, <3>4 DEF EvidenceInv, Answered
    <3>9. rerun'.ctx = answer.ctx /\ rerun'.back = rerun.back \cup (IF same THEN {ref} ELSE {})
      BY <3>6
    <3> QED BY <1>0, <3>1, <3>4, <3>6, <3>7, <3>8, <3>9 DEF Answered
  <2> QED BY <2>1, <2>2
<1>4. LoopInv'
  BY <1>0, <1>1, <1>3 DEF LoopInv
<1>5. ReactTypeOK'
  <2>1. \A t \in AllTools : rerun'.ctx.used[t] \in 0 .. MaxCallsPerTool
    BY <1>3 DEF Sound
  <2> QED BY <1>0, <1>1, <1>3, <2>1 DEF ReactTypeOK, Stages
<1>6. EvidenceInv'
  BY <1>0, <1>1, <1>3 DEF EvidenceInv, ShownIsHeld, GatedClaims
<1> QED BY <1>3, <1>4, <1>5, <1>6 DEF ReactInv

(***************************************************************************)
(* A proposal that is made again is of another moment.                     *)
(***************************************************************************)
LEMMA VerifiedAreFacts ==
  ASSUME EvidenceInv, NEW ref \in Verified(ctx.held, rerun)
  PROVE  ref \in DOMAIN ctx.held /\ ref.tool # "propose_remediation"
<1>1. /\ ref \in DOMAIN ctx.held /\ ref \in DOMAIN rerun.ctx.held
      /\ rerun.ctx.held[ref].rows = ctx.held[ref].rows
  BY DEF Verified, EvidenceInv
<1>2. AskedAs(ref, ctx.held[ref], "investigation") /\ AskedAs(ref, rerun.ctx.held[ref], "gate")
  BY <1>1 DEF EvidenceInv, Sound
<1>3. ASSUME ref.tool = "propose_remediation" PROVE FALSE
  <2>1. ctx.held[ref].rows.proposal.at = "investigation"
    BY <1>2, <1>3 DEF AskedAs
  <2>2. rerun.ctx.held[ref].rows.proposal.at = "gate"
    BY <1>2, <1>3 DEF AskedAs
  <2> QED BY <1>1, <2>1, <2>2
<1> QED BY <1>1, <1>3

LEMMA GateInv == ReactInv /\ Gate => ReactInv' /\ stage' = "done"
<1> SUFFICES ASSUME ReactInv, Gate PROVE ReactInv' /\ stage' = "done"
  OBVIOUS
<1>0. ReactTypeOK /\ LoopInv /\ EvidenceInv /\ stage = "gating"
  BY DEF ReactInv, Gate
<1>1. stage' = "done" /\ UNCHANGED <<gate, stop, chosen, ctx, budget, shown, rerun, usedFloor>>
  BY DEF Gate
<1> DEFINE kept == {i \in 1 .. Len(report.claims) : report.claims[i] \in Verified(ctx.held, rerun)}
           claimed == [i \in kept |-> report.claims[i]]
<1>2. PICK root : report' = [report EXCEPT !.root = root, !.claims = claimed]
  BY DEF Gate
<1>3. /\ DOMAIN claimed = kept
      /\ \A i \in DOMAIN claimed : claimed[i] \in Verified(ctx.held, rerun)
  OBVIOUS
<1> HIDE DEF kept, claimed
<1>4. report' = [root |-> root, confidence |-> report.confidence, claims |-> claimed]
  <2> DEFINE r == [root |-> report.root, confidence |-> report.confidence, claims |-> report.claims]
             e == [root |-> root, confidence |-> report.confidence, claims |-> report.claims]
  <2>1. report' = [r EXCEPT !.root = root, !.claims = claimed]
    BY <1>0, <1>2 DEF LoopInv
  <2>2. [r EXCEPT !.root = root, !.claims = claimed] = [[r EXCEPT !.root = root] EXCEPT !.claims = claimed]
    OBVIOUS
  <2>3. [r EXCEPT !.root = root] = e
    OBVIOUS
  <2>4. [e EXCEPT !.claims = claimed] = [root |-> root, confidence |-> report.confidence, claims |-> claimed]
    OBVIOUS
  <2> QED BY <2>1, <2>2, <2>3, <2>4
<1>5. report'.claims = claimed /\ report'.confidence = report.confidence
  BY <1>4
<1>6. GatedClaims'
  <2>1. \A i \in DOMAIN claimed : claimed[i] \in DOMAIN ctx.held /\ claimed[i].tool # "propose_remediation"
    BY <1>0, <1>3, VerifiedAreFacts
  <2> QED BY <1>1, <1>5, <2>1 DEF GatedClaims
<1>7. LoopInv'
  BY <1>0, <1>1, <1>4, <1>5 DEF LoopInv
<1>8. ReactTypeOK'
  BY <1>0, <1>1, <1>5 DEF ReactTypeOK, Stages
<1>9. EvidenceInv'
  BY <1>0, <1>1, <1>6 DEF EvidenceInv, ShownIsHeld
<1> QED BY <1>1, <1>7, <1>8, <1>9 DEF ReactInv

-----------------------------------------------------------------------------
LEMMA ReactHolds == ReactSpec => []ReactInv
<1>1. ReactInv /\ UNCHANGED rvars => ReactInv'
  <2> SUFFICES ASSUME ReactInv, UNCHANGED rvars PROVE ReactInv'
    OBVIOUS
  <2>1. LoopInv'
    BY DEF ReactInv, LoopInv, rvars
  <2>2. ReactTypeOK'
    BY DEF ReactInv, ReactTypeOK, rvars
  <2>3. EvidenceInv'
    BY DEF ReactInv, EvidenceInv, ShownIsHeld, GatedClaims, rvars
  <2> QED BY <2>1, <2>2, <2>3 DEF ReactInv
<1>2. ReactInv /\ [ReactNext]_rvars => ReactInv'
  BY <1>1, DecideInv, CallToolInv, WriteReportInv, ReExecuteInv, GateInv DEF ReactNext
<1> QED BY <1>2, ReactInitInv, PTL DEF ReactSpec

(***************************************************************************)
(* The loop's state keeps its shape: no more rounds, calls or uses of a    *)
(* tool than there may be, and a reason whenever it has stopped.           *)
(***************************************************************************)
THEOREM ReactTypes == ReactSpec => []ReactTypeOK
<1>1. ReactInv => ReactTypeOK
  BY DEF ReactInv
<1> QED BY <1>1, ReactHolds, PTL

(***************************************************************************)
(* However many calls of whatever kind a model asked for: every record's   *)
(* stamp finds it again in a context that holds nothing, what the agent    *)
(* was shown is what a reader finds under the id, and what B2 publishes    *)
(* cites evidence that was gathered and came back the same.                *)
(***************************************************************************)
THEOREM EvidenceStandsAgain == ReactSpec => []EvidenceStands
<1>1. ReactInv => EvidenceStands
  <2> SUFFICES ASSUME ReactInv PROVE EvidenceStands
    OBVIOUS
  <2>1. Sound(ctx) /\ ShownIsHeld /\ GatedClaims
    BY DEF ReactInv, EvidenceInv
  <2>2. StampReproduces
    <3> SUFFICES ASSUME NEW id \in DOMAIN ctx.held
                 PROVE  LET stamp == ctx.held[id].stamp
                            answer == RegistryCall(Registry, FreshContext("gate"), stamp)
                        IN /\ stamp # NoStamp
                           /\ stamp.tool # "propose_remediation" => answer.seen = Shown(id, ctx.held[id].rows)
      BY DEF StampReproduces
    <3>1. AskedAs(id, ctx.held[id], ctx.era)
      BY <2>1 DEF Sound
    <3> QED BY <3>1, AskedAgain
  <2> QED BY <2>1, <2>2 DEF EvidenceStands
<1> QED BY <1>1, ReactHolds, PTL

(***************************************************************************)
(* The exceptions of a call that end a run are of a window the handler or  *)
(* the backend refuses and of a pattern the backend refuses, and none      *)
(* escapes while the citations are asked again.                            *)
(***************************************************************************)
THEOREM OnlyUnfitCallsEscape == ReactSpec => OnlyUnaskableEscapes
<1> DEFINE Escapes == /\ stage = "calling" /\ stage' = "crashed" => Unaskable(chosen)
                      /\ stage = "gating" => stage' # "crashed"
<1>1. ReactInv /\ [ReactNext]_rvars => [Escapes]_rvars
  <2> SUFFICES ASSUME ReactInv, ReactNext PROVE Escapes
    OBVIOUS
  <2>1. CASE CallTool
    <3>1. stage = "calling" /\ chosen \in Calls /\ Sound(ctx)
      BY <2>1 DEF CallTool, ReactInv, LoopInv, EvidenceInv
    <3> DEFINE answer == RegistryCall(Registry, ctx, chosen)
    <3>2. ASSUME stage' = "crashed" PROVE answer.seen.kind = "raised"
      BY <2>1, <3>2 DEF CallTool, EndRound
    <3>3. Answered(ctx, chosen, answer)
      BY <3>1, CallAnswered
    <3> HIDE DEF answer
    <3>4. ASSUME stage' = "crashed" PROVE Unaskable(chosen)
      <4>1. chosen.shaped /\ chosen.tool \in WindowTools /\ Unfit(chosen)
        BY <3>2, <3>3, <3>4 DEF Answered
      <4> QED BY <3>1, <4>1, CallAssumption DEF Windows, Patterns, Unfit, Unaskable
    <3> QED BY <3>1, <3>4
  <2>2. CASE ReExecute
    BY <2>2, ReExecuteInv
  <2>3. CASE Gate
    BY <2>3, GateInv
  <2>4. CASE Decide \/ WriteReport
    BY <2>4 DEF Decide, WriteReport
  <2> QED BY <2>1, <2>2, <2>3, <2>4 DEF ReactNext
<1> QED BY <1>1, ReactHolds, PTL DEF ReactSpec, OnlyUnaskableEscapes
=============================================================================
