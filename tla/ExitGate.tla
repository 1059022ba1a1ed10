------------------------------- MODULE ExitGate -------------------------------
(***************************************************************************)
(* The exit gate, agent/gates.py: the six checks between a written report  *)
(* and a published one, one repair, and what is left when the repair was   *)
(* not enough.  The evidence each claim cites has been asked for again by  *)
(* agent/reexecute.py.                                                     *)
(*                                                                         *)
(* A report is the claims it was written with and the positions of those   *)
(* it still has.  A number is what the comparison with the stored fact and *)
(* with the re-run one gives; the text of a claim is whether each number   *)
(* in the prose has a structured source.                                   *)
(***************************************************************************)
EXTENDS Integers, Sequences

CONSTANTS
  Ref,          \* evidence ids
  Kind,         \* EvidenceKind
  Service,
  NoService,    \* root_cause_service is None
  Evidence,     \* the evidence store and its backend: what each id stands for
  MinSupport,   \* min_support
  Rerun,        \* whether the caller re-ran the citations (rerun is not None)
  Repairs       \* the repair argument

-----------------------------------------------------------------------------
Topology == "topology"

EvidenceRecord == [known: BOOLEAN,   \* the id is in the store
                   kind:  Kind,
                   live:  BOOLEAN,   \* its fingerprint's mode
                   tool:  BOOLEAN,   \* the record says which tool to ask
                   again: {"same", "changed", "other_question", "nothing", "error"}]

Number == [ref: Ref, stored: BOOLEAN, fresh: BOOLEAN]

ClaimType == {"measurement", "mechanism", "timeline", "blast_radius", "ruled_out"}

NoTime == -1

Claim == [type: ClaimType, cites: SUBSET Ref, numbers: SUBSET Number,
          sourced: BOOLEAN, at: Nat \cup {NoTime}]

Confidence == {"none", "low", "medium", "high"}

Leader == [service: Service, support: Int] \cup {[service |-> NoService, support |-> 0]}

ASSUME ServiceAssumption  == NoService \notin Service
ASSUME EvidenceAssumption == Evidence \in [Ref -> EvidenceRecord]
ASSUME OptionAssumption   == MinSupport \in Int /\ Rerun \in BOOLEAN /\ Repairs \in BOOLEAN

VARIABLES
  claims,    \* the claims as written, in order
  written,   \* the report as written
  working,   \* the report as the gate has it
  leader,    \* the notebook's leading hypothesis
  failed,    \* failed_claims of the checks of the report as written
  removed,   \* the claims the reader is told were removed
  phase

vars == <<claims, written, working, leader, failed, removed, phase>>

Draft == [root: Service \cup {NoService}, confidence: Confidence, kept: SUBSET Nat]

TypeOK ==
  /\ claims \in Seq(Claim)
  /\ written \in Draft /\ written.kept = 1 .. Len(claims)
  /\ working \in Draft /\ working.kept \subseteq written.kept
  /\ leader \in Leader
  /\ failed \subseteq written.kept
  /\ removed \subseteq written.kept
  /\ phase \in {"check", "repair", "recheck", "published"}

-----------------------------------------------------------------------------
(***************************************************************************)
(* What came back when a citation was asked for again: a record under the  *)
(* same id, or none.                                                       *)
(***************************************************************************)
ReExecuted(r) == Evidence[r].known /\ Evidence[r].tool /\ Evidence[r].again \in {"same", "changed"}

Cited(d) == UNION {claims[i].cites : i \in d.kept}

Uncovered(d) ==
  {i \in d.kept : claims[i].cites = {} \/ \E r \in claims[i].cites : ~Evidence[r].known}

Quoted(d, r) == {n \in UNION {claims[i].numbers : i \in d.kept} : n.ref = r}

NumbersSurviveRerun(d, r) ==
  Quoted(d, r) # {} /\ \A n \in Quoted(d, r) : n.fresh

Mismatched(d) ==
  {r \in Cited(d) :
     \/ ~ReExecuted(r)
     \/ /\ Evidence[r].again = "changed"
        /\ ~(Evidence[r].live /\ NumbersSurviveRerun(d, r))}

NotReproduced(d) ==
  IF Rerun THEN {i \in d.kept : claims[i].cites \cap Mismatched(d) # {}}
           ELSE {i \in d.kept : Cited(d) # {}}

Misquoted(d) ==
  {i \in d.kept :
     \/ ~claims[i].sourced
     \/ \E n \in claims[i].numbers :
          n.ref \notin claims[i].cites \/ ~Evidence[n.ref].known \/ ~n.stored}

Dated(i) == claims[i].type = "timeline" /\ claims[i].at # NoTime

(***************************************************************************)
(* pairwise: a dated timeline claim against the next one.                  *)
(***************************************************************************)
OutOfOrder(d) ==
  {i \in d.kept :
     /\ Dated(i)
     /\ \E j \in d.kept :
          /\ i < j /\ Dated(j) /\ claims[i].at > claims[j].at
          /\ \A k \in d.kept : i < k /\ k < j => ~Dated(k)}

WithoutGraph(d) ==
  {i \in d.kept :
     /\ claims[i].type = "blast_radius"
     /\ \A r \in claims[i].cites : Evidence[r].known => Evidence[r].kind # Topology}

Conflict(d) ==
  d.root # NoService /\ leader.service # NoService /\ d.root # leader.service

FailedClaims(d) ==
  Uncovered(d) \cup NotReproduced(d) \cup Misquoted(d) \cup OutOfOrder(d) \cup WithoutGraph(d)

SeveralSignals(d) ==
  \E r, s \in Cited(d) :
    Evidence[r].known /\ Evidence[s].known /\ Evidence[r].kind # Evidence[s].kind

ConfidenceSane(d) == d.confidence = "high" => SeveralSignals(d)

Supported(d) ==
  d.root = NoService \/ (d.kept # {} /\ leader.support >= MinSupport)

Passed(d) ==
  FailedClaims(d) = {} /\ ~Conflict(d) /\ ConfidenceSane(d) /\ Supported(d)

-----------------------------------------------------------------------------
(***************************************************************************)
(* The report, the notebook and the repair argument are the caller's.      *)
(***************************************************************************)
Submit(reports, leaders) ==
  /\ claims \in reports
  /\ leader \in leaders
  /\ \E root \in Service \cup {NoService}, confidence \in Confidence :
       written = [root |-> root, confidence |-> confidence, kept |-> 1 .. Len(claims)]
  /\ working = written
  /\ failed = {} /\ removed = {} /\ phase = "check"

Init == Submit(Seq(Claim), Leader)

Check ==
  /\ phase = "check"
  /\ failed' = FailedClaims(working)
  /\ phase' = IF Passed(working) \/ ~Repairs THEN "published" ELSE "repair"
  /\ UNCHANGED <<claims, written, working, leader, removed>>

Abstaining(d) == [d EXCEPT !.root = NoService, !.confidence = "none"]

\* Mutant: a conflict with the notebook only removes the name.
Repaired_KeepProse(d) ==
  LET abstain == Conflict(d) \/ ~Supported(d)
      kept    == d.kept \ failed
      drop    == IF abstain \/ kept = {} THEN Abstaining(d) ELSE d
      left    == [drop EXCEPT !.kept = kept]
  IN  IF ConfidenceSane(left) THEN left ELSE [left EXCEPT !.confidence = "medium"]

\* Mutant: the confidence is set when it is sane.
Repaired_Confident(d) ==
  LET abstain == Conflict(d) \/ ~Supported(d)
      kept    == IF Conflict(d) THEN {} ELSE d.kept \ failed
      drop    == IF abstain \/ kept = {} THEN Abstaining(d) ELSE d
      left    == [drop EXCEPT !.kept = kept]
  IN  IF ConfidenceSane(left) THEN [left EXCEPT !.confidence = "medium"] ELSE left

(***************************************************************************)
(* The claims that failed go, all of them if the report contradicts the    *)
(* notebook; a report that may not name a cause, or has nothing left to    *)
(* say, names none; and a confidence its signals do not carry is lowered.  *)
(***************************************************************************)
Repaired(d) ==
  LET abstain == Conflict(d) \/ ~Supported(d)
      kept    == IF Conflict(d) THEN {} ELSE d.kept \ failed
      drop    == IF abstain \/ kept = {} THEN Abstaining(d) ELSE d
      left    == [drop EXCEPT !.kept = kept]
  IN  IF ConfidenceSane(left) THEN left ELSE [left EXCEPT !.confidence = "medium"]

Repair ==
  /\ phase = "repair"
  /\ working' = Repaired(working)
  /\ removed' = written.kept \ working'.kept
  /\ phase' = "recheck"
  /\ UNCHANGED <<claims, written, leader, failed>>

\* Mutant: what the repair left is published, whatever it is.
Recheck_Publish ==
  /\ phase = "recheck"
  /\ phase' = "published"
  /\ UNCHANGED <<claims, written, working, leader, failed, removed>>

\* Mutant: the claims a failed repair takes with it are not counted.
Recheck_OldCount ==
  /\ phase = "recheck"
  /\ IF Passed(working)
     THEN UNCHANGED working
     ELSE working' = [Abstaining(working) EXCEPT !.kept = {}]
  /\ phase' = "published"
  /\ UNCHANGED <<claims, written, leader, failed, removed>>

(***************************************************************************)
(* A repaired report that still fails is published with nothing in it.     *)
(***************************************************************************)
Recheck ==
  /\ phase = "recheck"
  /\ IF Passed(working)
     THEN UNCHANGED <<working, removed>>
     ELSE /\ working' = [Abstaining(working) EXCEPT !.kept = {}]
          /\ removed' = written.kept
  /\ phase' = "published"
  /\ UNCHANGED <<claims, written, leader, failed>>

Next == Check \/ Repair \/ Recheck

Spec == Init /\ [][Next]_vars

-----------------------------------------------------------------------------
Published == phase = "published"

(***************************************************************************)
(* "It cannot be bypassed" (gates.py:3-4): a published report passes every *)
(* check, although a repair changes what the checks look at: the claims a  *)
(* number was quoted in, the order of a timeline, the signals a confidence *)
(* rests on.                                                               *)
(***************************************************************************)
PublishedPasses == Published /\ Repairs => Passed(working)

(***************************************************************************)
(* What a published report names stands on what it says: the notebook's    *)
(* leader, with enough support, and only claims whose every citation was   *)
(* asked again and answered under the same id.                             *)
(***************************************************************************)
NamedIsSupported ==
  Published /\ Repairs /\ working.root # NoService =>
    /\ leader.service \in {working.root, NoService} /\ leader.support >= MinSupport
    /\ working.kept # {}
    /\ \A i \in working.kept :
         claims[i].cites # {} /\ \A r \in claims[i].cites : Rerun /\ ReExecuted(r)

(***************************************************************************)
(* The gate only takes away: it names no other cause than the one written, *)
(* adds no claim, and is never more confident.                             *)
(***************************************************************************)
Rank(confidence) ==
  CASE confidence = "none" -> 0 [] confidence = "low" -> 1
    [] confidence = "medium" -> 2 [] confidence = "high" -> 3

OnlyTakesAway ==
  /\ working.root \in {written.root, NoService}
  /\ Rank(working.confidence) <= Rank(written.confidence)

(***************************************************************************)
(* "N statements could not be verified and were removed": the notice       *)
(* counts every claim the reader does not get.                             *)
(***************************************************************************)
NoticeIsTrue == Published => removed = written.kept \ working.kept

(***************************************************************************)
(* "The prose may repeat the conflicting conclusion, so it must not        *)
(* survive either" (gates.py:506).                                         *)
(***************************************************************************)
ConflictSilences == Published /\ Repairs /\ Conflict(written) => working.kept = {}

(***************************************************************************)
(* What the gate publishes after its one repair passes every check again, and *)
(* a cause it names is the notebook's and cited throughout.                *)
(***************************************************************************)
PublishedStands == PublishedPasses /\ NamedIsSupported
=============================================================================
