------------------------ MODULE ApprovalServiceProofs ------------------------
(***************************************************************************)
(* Theorems about the approval service, for any number of processes,       *)
(* proposals and records, with processes stopping anywhere.                *)
(***************************************************************************)
EXTENDS ApprovalService, SequenceTheorems, TLAPS

-----------------------------------------------------------------------------
(***************************************************************************)
(* The inductive invariant.  First, who may do what: the lock is held by   *)
(* the process between its read of the head and the end of its line, and   *)
(* a process past its reservation is the only one that will ever be.       *)
(***************************************************************************)
Recording(q, decision) ==
  step[q] \in {"append", "sealed", "writing"} /\ draft[q].decision = decision

Owner(q) ==
  \/ step[q] \in {"execute", "acted"}
  \/ Recording(q, "executed")
  \/ q \in Live /\ Recording(q, "failed")

Acted(q) == step[q] = "acted" \/ Recording(q, "executed")

LockInv == \A q \in Proc : step[q] \in {"sealed", "writing"} <=> lock = q

LiveInv ==
  \A q \in Proc :
    step[q] \in {"reserve", "recheck", "execute", "acted"} \/ Recording(q, "executed")
      => q \in Live

OwnerInv ==
  /\ \A p \in Proposal : p \notin reserved => effects[p] = 0
  /\ \A p \in Proposal : effects[p] <= 1
  /\ \A q \in Proc : Owner(q) => Subject(q) \in reserved
  /\ \A q, r \in Proc : Owner(q) /\ Owner(r) /\ Subject(q) = Subject(r) => q = r
  /\ \A q \in Proc : step[q] = "execute" => effects[Subject(q)] = 0
  /\ \A q \in Proc : Acted(q) => effects[Subject(q)] = 1

ReservedInv == \A q \in Proc : step[q] = "recheck" => Subject(q) \in reserved

(***************************************************************************)
(* Then what is in the file: an executed record is true, and there is none *)
(* for a proposal that has an owner.                                       *)
(***************************************************************************)
InTail(p, decision) ==
  /\ tail.kind \in {"whole", "merged"}
  /\ tail.record.body.proposal = p
  /\ tail.record.body.decision = decision

SealedInv ==
  \A q \in Proc :
    step[q] \in {"sealed", "writing"} =>
      /\ sealed[q].body.proposal = Subject(q)
      /\ sealed[q].body.decision = draft[q].decision
      /\ sealed[q].body.already = draft[q].already

TruthInv ==
  /\ \A p \in Proposal :
       Logged(p, "executed") # {} \/ InTail(p, "executed") => effects[p] = 1
  /\ \A p \in Proposal : \A i, j \in Logged(p, "executed") : i = j
  /\ \A p \in Proposal : InTail(p, "executed") => Logged(p, "executed") = {}
  /\ \A q \in Proc : Owner(q) =>
       Logged(Subject(q), "executed") = {} /\ ~InTail(Subject(q), "executed")
  /\ \A q \in Proc : Recording(q, "approved") /\ draft[q].already => effects[Subject(q)] = 1

ApprovedInv ==
  AllParse =>
    /\ ApprovedBeforeChange
    /\ \A q \in Proc : step[q] \in {"reserve", "recheck", "execute", "acted"} =>
         \E i \in Logged(Subject(q), "approved") : ~lines[i].body.already

ChainInv ==
  AllParse =>
    /\ VerifyChain(lines)
    /\ tail.kind \in {"whole", "merged"} => VerifyChain(Append(lines, tail.record))
    /\ \A q \in Proc :
         /\ step[q] = "sealed" => tail.kind \in {"none", "whole"}
                                  /\ VerifyChain(Append(Records, sealed[q]))
         /\ step[q] = "writing" => tail.kind \in {"partial", "merged"}
         /\ step[q] = "writing" /\ tail.kind = "partial" => VerifyChain(Append(lines, sealed[q]))

Control == LockInv /\ LiveInv /\ SealedInv

Inv == TypeOK /\ Control /\ ReservedInv /\ OwnerInv /\ TruthInv /\ ApprovedInv /\ ChainInv

-----------------------------------------------------------------------------
(***************************************************************************)
(* Records and lines.                                                      *)
(***************************************************************************)
LEMMA LineFacts ==
  /\ ~IsRecord(Garbled)
  /\ \A line \in AuditRecord : IsRecord(line)
  /\ \A line \in AuditRecord \cup {Garbled} : IsRecord(line) => line \in AuditRecord
BY DEF IsRecord, Garbled, AuditRecord, Body, Decision

LEMMA SeqNarrow ==
  ASSUME NEW S, NEW T, NEW s \in Seq(S), \A i \in 1 .. Len(s) : s[i] \in T
  PROVE  s \in Seq(T)
<1>1. s \in [1 .. Len(s) -> T] /\ Len(s) \in Nat
  BY LenProperties
<1>. QED  BY <1>1, SeqDef

LEMMA RecordsType ==
  ASSUME TypeOK, AllParse
  PROVE  /\ lines \in Seq(AuditRecord)
         /\ Records \in Seq(AuditRecord)
         /\ Len(Records) \in Nat
<1>1. \A i \in 1 .. Len(lines) : lines[i] \in AuditRecord
  BY LineFacts DEF TypeOK, AllParse
<1>2. lines \in Seq(AuditRecord)
  BY <1>1, SeqNarrow DEF TypeOK
<1>. QED  BY <1>2 DEF TypeOK, Records

(***************************************************************************)
(* AuditRecord.sealed makes a record, of what it is given.                 *)
(***************************************************************************)
LEMMA SealedType ==
  ASSUME NEW records \in Seq(AuditRecord), NEW decision \in Decision,
         NEW p \in Proposal, NEW already \in BOOLEAN
  PROVE  /\ Sealed(records, decision, p, already) \in AuditRecord
         /\ Sealed(records, decision, p, already).body.decision = decision
         /\ Sealed(records, decision, p, already).body.proposal = p
         /\ Sealed(records, decision, p, already).body.already = already
<1>1. HeadHash(records) \in Digest
  <2>1. CASE records = << >>
    BY <2>1 DEF HeadHash, GENESIS, Digest
  <2>2. CASE records # << >>
    <3>1. records[Len(records)] \in AuditRecord
      BY <2>2, EmptySeq, ElementOfSeq
    <3>. QED  BY <2>2, <3>1 DEF HeadHash, AuditRecord
  <2>. QED  BY <2>1, <2>2
<1>2. [sequence |-> Len(records), decision |-> decision,
       proposal |-> p, already |-> already] \in Body
  BY DEF Body
<1>. QED  BY <1>1, <1>2 DEF Sealed, HashBody, AuditRecord, Digest

(***************************************************************************)
(* A record sealed onto a chain that verifies leaves it verifying.         *)
(***************************************************************************)
LEMMA SealedExtends ==
  ASSUME NEW records \in Seq(AuditRecord), VerifyChain(records),
         NEW decision \in Decision, NEW p \in Proposal, NEW already \in BOOLEAN
  PROVE  VerifyChain(Append(records, Sealed(records, decision, p, already)))
<1>. DEFINE r == Sealed(records, decision, p, already)
            longer == Append(records, r)
<1>1. /\ Len(longer) = Len(records) + 1
      /\ \A i \in 1 .. Len(records) : longer[i] = records[i]
      /\ longer[Len(records) + 1] = r
      /\ Len(records) \in Nat
  BY SealedType
<1>2. /\ r.body.sequence = Len(records)
      /\ r.previous_hash = HeadHash(records)
      /\ Intact(r)
  BY DEF Sealed, Intact
<1>. HIDE DEF r, longer
<1>3. ASSUME NEW i \in 1 .. Len(records) PROVE LinkHolds(longer, i)
  <2>1. LinkHolds(records, i)
    BY DEF VerifyChain
  <2>. QED  BY <2>1, <1>1 DEF LinkHolds
<1>4. LinkHolds(longer, Len(records) + 1)
  <2>1. records = << >> <=> Len(records) = 0
    OBVIOUS
  <2>. QED  BY <2>1, <1>1, <1>2 DEF LinkHolds, HeadHash
<1>5. \A i \in 1 .. Len(longer) : LinkHolds(longer, i)
  BY <1>1, <1>3, <1>4
<1>. QED  BY <1>5 DEF VerifyChain, longer, r

-----------------------------------------------------------------------------
(***************************************************************************)
(* How a call moves, with the types taken care of.                         *)
(***************************************************************************)
LEMMA GoToFacts ==
  ASSUME TypeOK, NEW q \in Proc, NEW s \in Step, GoTo(q, s)
  PROVE  /\ step' \in [Proc -> Step]
         /\ step'[q] = s
         /\ \A r \in Proc : r # q => step'[r] = step[r]
BY DEF GoTo, TypeOK

LEMMA DraftFacts ==
  ASSUME NEW decision \in Decision, NEW already \in BOOLEAN
  PROVE  /\ [decision |-> decision, already |-> already] \in Draft
         /\ NoDraft \in Draft
BY DEF Draft, NoDraft, Decision

LEMMA ThenAppendFacts ==
  ASSUME TypeOK, NEW q \in Proc, NEW decision \in Decision, NEW already \in BOOLEAN,
         ThenAppend(q, decision, already)
  PROVE  /\ step' \in [Proc -> Step]
         /\ step'[q] = "append"
         /\ draft' \in [Proc -> Draft]
         /\ draft'[q].decision = decision
         /\ draft'[q].already = already
         /\ \A r \in Proc : r # q => step'[r] = step[r] /\ draft'[r] = draft[r]
<1>. DEFINE d == [decision |-> decision, already |-> already]
<1>1. d \in Draft /\ d.decision = decision /\ d.already = already
  BY DraftFacts
<1>2. draft' = [draft EXCEPT ![q] = d] /\ GoTo(q, "append")
  BY DEF ThenAppend
<1>. HIDE DEF d
<1>3. draft' \in [Proc -> Draft] /\ draft'[q] = d
      /\ \A r \in Proc : r # q => draft'[r] = draft[r]
  BY <1>1, <1>2 DEF TypeOK
<1>4. "append" \in Step
  BY DEF Step
<1>. QED  BY <1>1, <1>2, <1>3, <1>4, GoToFacts

LEMMA ReturnFacts ==
  ASSUME TypeOK, NEW q \in Proc, NEW outcome \in Outcome \cup {"none"}, Return(q, outcome)
  PROVE  /\ step' \in [Proc -> Step]
         /\ step'[q] = "idle"
         /\ draft' \in [Proc -> Draft]
         /\ answer' \in [Proc -> Answer]
         /\ answer'[q].outcome = outcome
         /\ answer'[q].proposal = answer[q].proposal
         /\ \A r \in Proc : r # q =>
              step'[r] = step[r] /\ draft'[r] = draft[r] /\ answer'[r] = answer[r]
<1>1. "idle" \in Step /\ NoDraft \in Draft
  BY DraftFacts DEF Step, NoDraft, Draft, Decision
<1>2. draft' = [draft EXCEPT ![q] = NoDraft] /\ GoTo(q, "idle")
  BY DEF Return
<1>3. draft' \in [Proc -> Draft] /\ \A r \in Proc : r # q => draft'[r] = draft[r]
  BY <1>1, <1>2 DEF TypeOK
<1>4. /\ answer' \in [Proc -> Answer]
      /\ answer'[q].outcome = outcome
      /\ answer'[q].proposal = answer[q].proposal
      /\ \A r \in Proc : r # q => answer'[r] = answer[r]
  BY DEF Return, TypeOK, Answer
<1>. QED  BY <1>1, <1>2, <1>3, <1>4, GoToFacts

(***************************************************************************)
(* Where FinishLine leaves the call: Return or ThenAppend or a reservation.*)
(***************************************************************************)
LEMMA AfterAppendFacts ==
  ASSUME TypeOK, NEW q \in Proc, AfterAppend(q)
  PROVE  \/ \E o \in Outcome \cup {"none"} :
              /\ Return(q, o)
              /\ o = "executed" => draft[q].decision = "executed"
              /\ o = "already_executed" => draft[q].decision = "approved" /\ draft[q].already
              /\ o = "failed" => draft[q].decision = "failed" /\ q \in Live
              /\ o # "execution_uncertain"
         \/ /\ draft[q].decision = "approved" /\ q \notin Live
            /\ ThenAppend(q, "failed", FALSE)
            /\ UNCHANGED answer
         \/ /\ draft[q].decision = "approved" /\ ~draft[q].already /\ q \in Live
            /\ GoTo(q, "reserve")
            /\ UNCHANGED <<draft, answer>>
<1>. USE DEF AfterAppend, Raise, Outcome
<1>1. CASE draft[q].decision = "proposed"
  BY <1>1
<1>2. CASE draft[q].decision = "rejected"
  BY <1>2
<1>3. CASE draft[q].decision = "failed"
  BY <1>3
<1>4. CASE draft[q].decision = "executed"
  BY <1>4
<1>5. CASE draft[q].decision = "approved"
  BY <1>5
<1>. QED  BY <1>1, <1>2, <1>3, <1>4, <1>5 DEF AfterAppend

(***************************************************************************)
(* What is in the file after a line was finished or cut short.             *)
(***************************************************************************)
LEMMA LandLineType ==
  ASSUME TypeOK, NEW record \in AuditRecord, LandLine(record)
  PROVE  /\ lines' \in Seq(AuditRecord \cup {Garbled})
         /\ tail' \in [kind: TailKind, record: AuditRecord \cup {Garbled}]
         /\ tail'.kind = "none"
BY DEF TypeOK, LandLine, NoTail, TailKind

LEMMA CutShortType ==
  ASSUME TypeOK, NEW q \in Proc, step[q] = "writing", CutShort(q)
  PROVE  /\ lines' \in Seq(AuditRecord \cup {Garbled})
         /\ tail' \in [kind: TailKind, record: AuditRecord \cup {Garbled}]
         /\ tail'.kind \in {"whole", "merged"} => tail'.record \in AuditRecord
<1>1. sealed[q] \in AuditRecord
  BY DEF TypeOK
<1>2. CASE UNCHANGED fileVars
  BY <1>2 DEF fileVars, TypeOK
<1>3. CASE tail' \in {NoTail, [kind |-> "whole", record |-> sealed[q]]} /\ UNCHANGED lines
  BY <1>1, <1>3 DEF TypeOK, NoTail, TailKind
<1>4. CASE /\ tail.kind = "merged" /\ tail' = [tail EXCEPT !.kind = "whole"]
           /\ UNCHANGED lines
  BY <1>4 DEF TypeOK, TailKind
<1>5. CASE LandLine(sealed[q])
  BY <1>1, <1>5, LandLineType
<1>. QED  BY <1>2, <1>3, <1>4, <1>5 DEF CutShort

-----------------------------------------------------------------------------
(***************************************************************************)
(* Type correctness.                                                       *)
(***************************************************************************)
LEMMA TypeStep == TypeOK /\ [Next]_vars => TypeOK'
<1>. SUFFICES ASSUME TypeOK, [Next]_vars PROVE TypeOK'
  OBVIOUS
<1>. DEFINE FileType == /\ lines \in Seq(AuditRecord \cup {Garbled})
                        /\ tail \in [kind: TailKind, record: AuditRecord \cup {Garbled}]
                        /\ tail.kind \in {"whole", "merged"} => tail.record \in AuditRecord
<1>0. FileType
  BY DEF TypeOK
<1>1. ASSUME NEW q \in Proc, NEW p \in Proposal,
             RecordProposal(q, p) \/ Reject(q, p) \/ Approve(q, p)
      PROVE  TypeOK'
  <2>1. /\ answer' = [answer EXCEPT ![q] = [proposal |-> p, outcome |-> "none"]]
        /\ UNCHANGED <<lines, tail, lock, reserved, effects, sealed>>
    BY <1>1 DEF RecordProposal, Reject, Approve, Begin
  <2>2. answer' \in [Proc -> Answer]
    BY <2>1 DEF TypeOK, Answer
  <2>3. \/ ThenAppend(q, "proposed", FALSE)
        \/ ThenAppend(q, "rejected", FALSE)
        \/ GoTo(q, "check") /\ UNCHANGED draft
    BY <1>1 DEF RecordProposal, Reject, Approve
  <2>4. /\ step' \in [Proc -> Step] /\ step'[q] \notin {"sealed", "writing"}
        /\ \A r \in Proc : r # q => step'[r] = step[r]
        /\ draft' \in [Proc -> Draft]
    <3>1. "proposed" \in Decision /\ "rejected" \in Decision /\ "check" \in Step
      BY DEF Decision, Step
    <3>. QED  BY <2>3, <3>1, ThenAppendFacts, GoToFacts DEF TypeOK
  <2>. QED  BY <2>1, <2>2, <2>4 DEF TypeOK
<1>2. ASSUME NEW q \in Proc, CheckExecuted(q) PROVE TypeOK'
  <2>. DEFINE w == WasExecuted(Subject(q))
  <2>1. w \in BOOLEAN /\ "approved" \in Decision
    BY DEF WasExecuted, Decision
  <2>2. /\ \/ ThenAppend(q, "approved", w) /\ UNCHANGED answer
           \/ Return(q, "none")
        /\ UNCHANGED <<lines, tail, lock, reserved, effects, sealed>>
    BY <1>2 DEF CheckExecuted, Raise
  <2>. HIDE DEF w
  <2>3. CASE ThenAppend(q, "approved", w) /\ UNCHANGED answer
    BY <2>1, <2>2, <2>3, ThenAppendFacts DEF TypeOK
  <2>4. CASE Return(q, "none")
    BY <2>2, <2>4, ReturnFacts DEF TypeOK
  <2>. QED  BY <2>2, <2>3, <2>4
<1>3. ASSUME NEW q \in Proc, LockAndSeal(q) PROVE TypeOK'
  <2>. DEFINE r == Sealed(Records, draft[q].decision, Subject(q), draft[q].already)
  <2>1. CASE Readable /\ lock' = q
    <3>1. r \in AuditRecord
      BY <2>1, RecordsType, SealedType DEF Readable, AllParse, TypeOK, Subject, Draft, Answer
    <3>2. /\ sealed' = [sealed EXCEPT ![q] = r]
          /\ GoTo(q, "sealed")
          /\ UNCHANGED <<lines, tail, reserved, effects, draft, answer>>
      BY <1>3, <2>1, ProcAssumption DEF LockAndSeal
    <3>. HIDE DEF r
    <3>3. "sealed" \in Step
      BY DEF Step
    <3>. QED  BY <2>1, <3>1, <3>2, <3>3, GoToFacts DEF TypeOK
  <2>2. CASE Return(q, "none") /\ UNCHANGED <<lock, sealed>>
    BY <1>3, <2>2, ReturnFacts DEF LockAndSeal, TypeOK
  <2>. QED  BY <1>3, <2>1, <2>2 DEF LockAndSeal, Raise
<1>4. ASSUME NEW q \in Proc, WriteLine(q) PROVE TypeOK'
  <2>1. /\ tail' \in [kind: TailKind, record: AuditRecord \cup {Garbled}]
        /\ tail'.kind \in {"whole", "merged"} => tail'.record \in AuditRecord
    BY <1>4 DEF WriteLine, TypeOK, TailKind
  <2>2. "writing" \in Step
    BY DEF Step
  <2>. QED  BY <1>4, <2>1, <2>2, GoToFacts DEF WriteLine, TypeOK
<1>5. ASSUME NEW q \in Proc, FinishLine(q) PROVE TypeOK'
  <2>1. FileType' /\ lock' = NoProc /\ sealed' \in [Proc -> AuditRecord \cup {Garbled}]
        /\ \A r \in Proc : r # q => sealed'[r] = sealed[r]
    BY <1>5, LandLineType DEF FinishLine, TypeOK
  <2>2. /\ step' \in [Proc -> Step] /\ step'[q] \notin {"sealed", "writing"}
        /\ \A r \in Proc : r # q => step'[r] = step[r]
        /\ draft' \in [Proc -> Draft]
        /\ answer' \in [Proc -> Answer]
    <3>1. AfterAppend(q) /\ "failed" \in Decision /\ "reserve" \in Step
      BY <1>5 DEF FinishLine, Decision, Step
    <3>2. CASE \E o \in Outcome \cup {"none"} : Return(q, o)
      BY <3>2, ReturnFacts
    <3>3. CASE ThenAppend(q, "failed", FALSE) /\ UNCHANGED answer
      BY <3>1, <3>3, ThenAppendFacts DEF TypeOK
    <3>4. CASE GoTo(q, "reserve") /\ UNCHANGED <<draft, answer>>
      BY <3>1, <3>4, GoToFacts DEF TypeOK
    <3>. QED  BY <3>1, <3>2, <3>3, <3>4, AfterAppendFacts
  <2>. QED  BY <1>5, <2>1, <2>2 DEF FinishLine, TypeOK
<1>6. ASSUME NEW q \in Proc, ReserveExecution(q) PROVE TypeOK'
  <2>1. {"recheck", "execute"} \subseteq Step
    BY DEF Step
  <2>. QED  BY <1>6, <2>1, GoToFacts DEF ReserveExecution, TypeOK, Subject, Answer
<1>7. ASSUME NEW q \in Proc, RecheckExecuted(q) PROVE TypeOK'
  BY <1>7, ReturnFacts DEF RecheckExecuted, Raise, TypeOK, Outcome
<1>8. ASSUME NEW q \in Proc, LockTimeout(q) PROVE TypeOK'
  BY <1>8, ReturnFacts DEF LockTimeout, Raise, TypeOK
<1>9. ASSUME NEW q \in Proc, ExecutorActs(q) \/ ExecutorReturns(q) \/ ExecutorRaises(q)
      PROVE  TypeOK'
  <2>1. {"executed", "failed"} \subseteq Decision /\ "acted" \in Step
    BY DEF Decision, Step
  <2>2. CASE ExecutorActs(q)
    BY <2>1, <2>2, GoToFacts DEF ExecutorActs, TypeOK, Subject, Answer
  <2>3. CASE ExecutorReturns(q) \/ ExecutorRaises(q)
    BY <2>1, <2>3, ThenAppendFacts DEF ExecutorReturns, ExecutorRaises, TypeOK
  <2>. QED  BY <1>9, <2>2, <2>3
<1>10. ASSUME NEW q \in Proc, Crash(q) PROVE TypeOK'
  <2>1. FileType'
    BY <1>0, <1>10, CutShortType DEF Crash, fileVars
  <2>2. /\ lock' \in Proc \cup {NoProc}
        /\ sealed' \in [Proc -> AuditRecord \cup {Garbled}]
        /\ \A r \in Proc : r # q => sealed'[r] = sealed[r]
    BY <1>10 DEF Crash, TypeOK
  <2>. QED  BY <1>10, <2>1, <2>2, ReturnFacts DEF Crash, Raise, TypeOK
<1>11. CASE UNCHANGED vars
  BY <1>11 DEF TypeOK, vars
<1>. QED  BY <1>1, <1>2, <1>3, <1>4, <1>5, <1>6, <1>7, <1>8, <1>9, <1>10, <1>11
          DEF Next, Call, Continue

(***************************************************************************)
(* Every variable keeps its type, whatever the instance.                   *)
(***************************************************************************)
THEOREM TypeCorrect == Spec => []TypeOK
<1>1. Init => TypeOK
  <2>1. NoDraft \in Draft /\ "idle" \in Step /\ NoTail.kind = "none"
        /\ NoTail \in [kind: TailKind, record: AuditRecord \cup {Garbled}]
    BY DEF NoDraft, Draft, Decision, Step, NoTail, TailKind
  <2>. QED  BY <2>1 DEF Init, TypeOK, Answer
<1>. QED  BY <1>1, TypeStep, PTL DEF Spec

-----------------------------------------------------------------------------
(***************************************************************************)
(* What each action does, without EXCEPT: to the process that takes it,    *)
(* with nothing changed for the others.                                    *)
(***************************************************************************)
Elsewhere(q) ==
  \A r \in Proc : r # q =>
    /\ step'[r] = step[r] /\ draft'[r] = draft[r]
    /\ answer'[r] = answer[r] /\ sealed'[r] = sealed[r]

Stays(q) == draft'[q] = draft[q] /\ answer'[q] = answer[q]

LEMMA CallMove ==
  ASSUME TypeOK, NEW q \in Proc, Call(q)
  PROVE  /\ step[q] = "idle" /\ step'[q] \in {"append", "check"}
         /\ step'[q] = "append" => draft'[q].decision \in {"proposed", "rejected"}
         /\ UNCHANGED <<lines, tail, lock, reserved, effects, sealed>>
         /\ Elsewhere(q)
<1>1. PICK p \in Proposal : RecordProposal(q, p) \/ Reject(q, p) \/ Approve(q, p)
  BY DEF Call
<1>2. /\ Begin(q, p)
      /\ \/ ThenAppend(q, "proposed", FALSE)
         \/ ThenAppend(q, "rejected", FALSE)
         \/ GoTo(q, "check") /\ UNCHANGED draft
  BY <1>1 DEF RecordProposal, Reject, Approve
<1>3. {"proposed", "rejected"} \subseteq Decision /\ "check" \in Step
  BY DEF Decision, Step
<1>4. \A r \in Proc : r # q => answer'[r] = answer[r]
  BY <1>2 DEF Begin, TypeOK
<1>. QED  BY <1>2, <1>3, <1>4, ThenAppendFacts, GoToFacts DEF Begin, Elsewhere

LEMMA CheckMove ==
  ASSUME TypeOK, NEW q \in Proc, CheckExecuted(q)
  PROVE  /\ step[q] = "check"
         /\ \/ /\ Readable /\ step'[q] = "append"
               /\ draft'[q].decision = "approved"
               /\ draft'[q].already <=> WasExecuted(Subject(q))
               /\ answer'[q] = answer[q]
            \/ step'[q] = "idle"
         /\ UNCHANGED <<lines, tail, lock, reserved, effects, sealed>>
         /\ Elsewhere(q)
<1>. DEFINE w == WasExecuted(Subject(q))
<1>1. w \in BOOLEAN /\ "approved" \in Decision
  BY DEF WasExecuted, Decision
<1>2. /\ \/ Readable /\ ThenAppend(q, "approved", w) /\ UNCHANGED answer
         \/ Return(q, "none")
      /\ step[q] = "check"
      /\ UNCHANGED <<lines, tail, lock, reserved, effects, sealed>>
  BY DEF CheckExecuted, Raise
<1>. HIDE DEF w
<1>3. CASE Readable /\ ThenAppend(q, "approved", w) /\ UNCHANGED answer
  BY <1>1, <1>2, <1>3, ThenAppendFacts DEF Elsewhere, w
<1>4. CASE Return(q, "none")
  BY <1>2, <1>4, ReturnFacts DEF Elsewhere
<1>. QED  BY <1>2, <1>3, <1>4

LEMMA LockMove ==
  ASSUME TypeOK, NEW q \in Proc, LockAndSeal(q)
  PROVE  /\ step[q] = "append" /\ lock = NoProc
         /\ \/ /\ Readable /\ step'[q] = "sealed" /\ lock' = q /\ Stays(q)
               /\ sealed'[q] = Sealed(Records, draft[q].decision, Subject(q), draft[q].already)
               /\ sealed'[q] \in AuditRecord
               /\ sealed'[q].body.decision = draft[q].decision
               /\ sealed'[q].body.proposal = Subject(q)
               /\ sealed'[q].body.already = draft[q].already
            \/ step'[q] = "idle" /\ UNCHANGED <<lock, sealed>>
         /\ UNCHANGED <<lines, tail, reserved, effects>>
         /\ Elsewhere(q)
<1>. DEFINE r == Sealed(Records, draft[q].decision, Subject(q), draft[q].already)
<1>1. CASE /\ Readable /\ lock' = q /\ GoTo(q, "sealed") /\ UNCHANGED <<draft, answer>>
           /\ sealed' = [sealed EXCEPT ![q] = r]
  <2>1. /\ r \in AuditRecord /\ r.body.decision = draft[q].decision
        /\ r.body.proposal = Subject(q) /\ r.body.already = draft[q].already
    BY <1>1, RecordsType, SealedType DEF Readable, AllParse, TypeOK, Subject, Draft, Answer
  <2>. HIDE DEF r
  <2>2. sealed'[q] = r /\ \A x \in Proc : x # q => sealed'[x] = sealed[x]
    BY <1>1 DEF TypeOK
  <2>3. step'[q] = "sealed" /\ \A x \in Proc : x # q => step'[x] = step[x]
    BY <1>1, GoToFacts DEF Step
  <2>. QED  BY <1>1, <2>1, <2>2, <2>3 DEF LockAndSeal, Elsewhere, Stays, r
<1>2. CASE Return(q, "none") /\ UNCHANGED <<lock, sealed>>
  BY <1>2, ReturnFacts DEF LockAndSeal, Elsewhere
<1>. QED  BY <1>1, <1>2 DEF LockAndSeal, Raise

LEMMA WriteMove ==
  ASSUME TypeOK, NEW q \in Proc, WriteLine(q)
  PROVE  /\ step[q] = "sealed" /\ step'[q] = "writing" /\ Stays(q)
         /\ tail'.record = tail.record
         /\ tail'.kind = IF tail.kind = "whole" THEN "merged" ELSE "partial"
         /\ UNCHANGED <<lines, lock, reserved, effects, sealed>>
         /\ Elsewhere(q)
BY GoToFacts DEF WriteLine, Step, Elsewhere, Stays, TypeOK

LEMMA FinishMove ==
  ASSUME TypeOK, NEW q \in Proc, FinishLine(q)
  PROVE  /\ step[q] = "writing" /\ LandLine(sealed[q]) /\ lock' = NoProc
         /\ answer'[q].proposal = answer[q].proposal
         /\ \/ step'[q] = "idle"
            \/ /\ step'[q] = "append" /\ draft'[q].decision = "failed" /\ q \notin Live
            \/ /\ step'[q] = "reserve" /\ q \in Live /\ Stays(q)
               /\ draft[q].decision = "approved" /\ ~draft[q].already
         /\ UNCHANGED <<reserved, effects>>
         /\ Elsewhere(q)
<1>1. AfterAppend(q) /\ "failed" \in Decision /\ "reserve" \in Step
  BY DEF FinishLine, Decision, Step
<1>2. /\ step[q] = "writing" /\ LandLine(sealed[q]) /\ lock' = NoProc
      /\ UNCHANGED <<reserved, effects>>
      /\ \A r \in Proc : r # q => sealed'[r] = sealed[r]
  BY DEF FinishLine, TypeOK
<1>3. CASE \E o \in Outcome \cup {"none"} : Return(q, o)
  BY <1>2, <1>3, ReturnFacts DEF Elsewhere
<1>4. CASE q \notin Live /\ ThenAppend(q, "failed", FALSE) /\ UNCHANGED answer
  BY <1>1, <1>2, <1>4, ThenAppendFacts DEF Elsewhere
<1>5. CASE /\ draft[q].decision = "approved" /\ ~draft[q].already /\ q \in Live
           /\ GoTo(q, "reserve") /\ UNCHANGED <<draft, answer>>
  BY <1>1, <1>2, <1>5, GoToFacts DEF Elsewhere, Stays
<1>. QED  BY <1>1, <1>3, <1>4, <1>5, AfterAppendFacts

LEMMA ReserveMove ==
  ASSUME TypeOK, NEW q \in Proc, ReserveExecution(q)
  PROVE  /\ step[q] = "reserve" /\ Stays(q)
         /\ reserved' = reserved \cup {Subject(q)}
         /\ step'[q] = IF Subject(q) \in reserved THEN "recheck" ELSE "execute"
         /\ UNCHANGED <<lines, tail, lock, effects, sealed>>
         /\ Elsewhere(q)
BY GoToFacts DEF ReserveExecution, Step, Elsewhere, Stays

LEMMA BackMove ==
  ASSUME TypeOK, NEW q \in Proc, RecheckExecuted(q) \/ LockTimeout(q)
  PROVE  /\ step[q] \in {"recheck", "append", "reserve"} /\ step'[q] = "idle"
         /\ UNCHANGED <<lines, tail, lock, reserved, effects, sealed>>
         /\ Elsewhere(q)
<1>1. \E o \in Outcome \cup {"none"} : Return(q, o)
  BY DEF RecheckExecuted, LockTimeout, Raise, Outcome
<1>. QED  BY <1>1, ReturnFacts DEF RecheckExecuted, LockTimeout, Elsewhere

LEMMA ExecutorMove ==
  ASSUME TypeOK, NEW q \in Proc, ExecutorActs(q) \/ ExecutorReturns(q) \/ ExecutorRaises(q)
  PROVE  /\ \/ /\ step[q] = "execute" /\ step'[q] = "acted" /\ Stays(q)
               /\ effects' = [effects EXCEPT ![Subject(q)] = @ + 1]
            \/ /\ step[q] = "acted" /\ step'[q] = "append" /\ answer'[q] = answer[q]
               /\ draft'[q].decision = "executed" /\ UNCHANGED effects
            \/ /\ step[q] \in {"execute", "acted"} /\ step'[q] = "append"
               /\ answer'[q] = answer[q]
               /\ draft'[q].decision = "failed" /\ UNCHANGED effects
         /\ UNCHANGED <<lines, tail, lock, reserved, sealed>>
         /\ Elsewhere(q)
<1>1. {"executed", "failed"} \subseteq Decision /\ "acted" \in Step
  BY DEF Decision, Step
<1>2. CASE ExecutorActs(q)
  BY <1>1, <1>2, GoToFacts DEF ExecutorActs, Elsewhere, Stays
<1>3. CASE ExecutorReturns(q)
  BY <1>1, <1>3, ThenAppendFacts DEF ExecutorReturns, Elsewhere
<1>4. CASE ExecutorRaises(q)
  BY <1>1, <1>4, ThenAppendFacts DEF ExecutorRaises, Elsewhere
<1>. QED  BY <1>2, <1>3, <1>4

LEMMA CrashMove ==
  ASSUME TypeOK, NEW q \in Proc, Crash(q)
  PROVE  /\ step'[q] = "idle"
         /\ IF step[q] = "writing" THEN CutShort(q) ELSE UNCHANGED fileVars
         /\ lock' = IF lock = q THEN NoProc ELSE lock
         /\ UNCHANGED <<reserved, effects>>
         /\ Elsewhere(q)
BY ReturnFacts DEF Crash, Raise, Elsewhere, TypeOK

LEMMA NextMoves ==
  ASSUME Next
  PROVE  \E q \in Proc :
           \/ Call(q) \/ CheckExecuted(q) \/ LockAndSeal(q) \/ WriteLine(q) \/ FinishLine(q)
           \/ ReserveExecution(q) \/ RecheckExecuted(q) \/ LockTimeout(q)
           \/ ExecutorActs(q) \/ ExecutorReturns(q) \/ ExecutorRaises(q) \/ Crash(q)
BY DEF Next, Continue

-----------------------------------------------------------------------------
(***************************************************************************)
(* Only the holder of the lock is between its read of the head and the end *)
(* of its line, and only a process with an executor goes past a            *)
(* reservation.                                                            *)
(***************************************************************************)
LEMMA ControlStep ==
  ASSUME TypeOK, Control, [Next]_vars
  PROVE  Control'
<1>1. ASSUME NEW q \in Proc, Call(q) PROVE Control'
  BY <1>1, CallMove DEF Control, LockInv, LiveInv, SealedInv, Recording,
                     Elsewhere, Stays, Subject, TypeOK
<1>2. ASSUME NEW q \in Proc, CheckExecuted(q) PROVE Control'
  BY <1>2, CheckMove DEF Control, LockInv, LiveInv, SealedInv, Recording,
                     Elsewhere, Stays, Subject, TypeOK
<1>3. ASSUME NEW q \in Proc, LockAndSeal(q) PROVE Control'
  BY <1>3, LockMove, ProcAssumption DEF Control, LockInv, LiveInv, SealedInv, Recording,
                     Elsewhere, Stays, Subject, TypeOK
<1>4. ASSUME NEW q \in Proc, WriteLine(q) PROVE Control'
  BY <1>4, WriteMove DEF Control, LockInv, LiveInv, SealedInv, Recording,
                     Elsewhere, Stays, Subject, TypeOK
<1>5. ASSUME NEW q \in Proc, FinishLine(q) PROVE Control'
  <2>1. LockInv'
    BY <1>5, FinishMove, ProcAssumption DEF Control, LockInv, Elsewhere
  <2>2. LiveInv'
    BY <1>5, FinishMove DEF Control, LiveInv, Recording, Elsewhere
  <2>3. SealedInv'
    BY <1>5, FinishMove DEF Control, SealedInv, Elsewhere, Subject
  <2>. QED  BY <2>1, <2>2, <2>3 DEF Control
<1>6. ASSUME NEW q \in Proc, ReserveExecution(q) PROVE Control'
  BY <1>6, ReserveMove DEF Control, LockInv, LiveInv, SealedInv, Recording,
                     Elsewhere, Stays, Subject, TypeOK
<1>7. ASSUME NEW q \in Proc, RecheckExecuted(q) \/ LockTimeout(q) PROVE Control'
  BY <1>7, BackMove DEF Control, LockInv, LiveInv, SealedInv, Recording,
                     Elsewhere, Stays, Subject, TypeOK
<1>8. ASSUME NEW q \in Proc, ExecutorActs(q) \/ ExecutorReturns(q) \/ ExecutorRaises(q) PROVE Control'
  BY <1>8, ExecutorMove DEF Control, LockInv, LiveInv, SealedInv, Recording,
                     Elsewhere, Stays, Subject, TypeOK
<1>9. ASSUME NEW q \in Proc, Crash(q) PROVE Control'
  BY <1>9, CrashMove, ProcAssumption DEF Control, LockInv, LiveInv, SealedInv, Recording,
                     Elsewhere, Stays, Subject, TypeOK
<1>10. CASE UNCHANGED vars
  BY <1>10 DEF vars, Control, LockInv, LiveInv, SealedInv, Recording, Subject
<1>. QED  BY <1>1, <1>2, <1>3, <1>4, <1>5, <1>6, <1>7, <1>8, <1>9, <1>10, NextMoves

(***************************************************************************)
(* One owner: a reservation is given out once, so past it there is one     *)
(* process at most, and it finds the target as the proposal left it.  All  *)
(* but two of the actions make no owner of a process that was none.        *)
(***************************************************************************)
OwnerKept(r) ==
  /\ Owner(r)' => Owner(r) /\ Subject(r)' = Subject(r)
  /\ step'[r] = "execute" => step[r] = "execute"
  /\ Acted(r)' => Acted(r)

LEMMA OthersKept ==
  ASSUME NEW q \in Proc, Elsewhere(q), OwnerKept(q)
  PROVE  \A r \in Proc : OwnerKept(r)
BY DEF Elsewhere, OwnerKept, Owner, Acted, Recording, Subject

LEMMA OwnerKeptStep ==
  ASSUME OwnerInv, UNCHANGED <<reserved, effects>>, \A r \in Proc : OwnerKept(r)
  PROVE  OwnerInv'
<1>1. \A r \in Proc : step[r] = "execute" \/ Acted(r) => Owner(r)
  BY DEF Owner, Acted
<1>2. \A r \in Proc : step'[r] = "execute" \/ Acted(r)' => Owner(r)'
  BY DEF Owner, Acted
<1>. QED  BY <1>1, <1>2 DEF OwnerInv, OwnerKept

LEMMA OwnerStep ==
  ASSUME TypeOK, Control, OwnerInv, [Next]_vars
  PROVE  OwnerInv'
<1>1. ASSUME NEW q \in Proc, Call(q) PROVE OwnerInv'
  <2>1. OwnerKept(q)
    BY <1>1, CallMove DEF Control, LiveInv, OwnerKept, Owner, Acted, Recording,
       Stays, Subject
  <2>. QED  BY <1>1, <2>1, CallMove, OthersKept, OwnerKeptStep
<1>2. ASSUME NEW q \in Proc, CheckExecuted(q) PROVE OwnerInv'
  <2>1. OwnerKept(q)
    BY <1>2, CheckMove DEF Control, LiveInv, OwnerKept, Owner, Acted, Recording,
       Stays, Subject
  <2>. QED  BY <1>2, <2>1, CheckMove, OthersKept, OwnerKeptStep
<1>3. ASSUME NEW q \in Proc, LockAndSeal(q) PROVE OwnerInv'
  <2>1. OwnerKept(q)
    BY <1>3, LockMove DEF Control, LiveInv, OwnerKept, Owner, Acted, Recording,
       Stays, Subject
  <2>. QED  BY <1>3, <2>1, LockMove, OthersKept, OwnerKeptStep
<1>4. ASSUME NEW q \in Proc, WriteLine(q) PROVE OwnerInv'
  <2>1. OwnerKept(q)
    BY <1>4, WriteMove DEF Control, LiveInv, OwnerKept, Owner, Acted, Recording,
       Stays, Subject
  <2>. QED  BY <1>4, <2>1, WriteMove, OthersKept, OwnerKeptStep
<1>5. ASSUME NEW q \in Proc, FinishLine(q) PROVE OwnerInv'
  <2>1. OwnerKept(q)
    BY <1>5, FinishMove DEF Control, LiveInv, OwnerKept, Owner, Acted, Recording,
       Stays, Subject
  <2>. QED  BY <1>5, <2>1, FinishMove, OthersKept, OwnerKeptStep
<1>6. ASSUME NEW q \in Proc, ReserveExecution(q) PROVE OwnerInv'
  <2>1. \A r \in Proc : r # q => OwnerKept(r)
    BY <1>6, ReserveMove DEF Elsewhere, OwnerKept, Owner, Acted, Recording, Subject
  <2>2. CASE Subject(q) \in reserved
    <3>1. OwnerKept(q) /\ reserved' = reserved
      BY <1>6, <2>2, ReserveMove DEF OwnerKept, Owner, Acted, Recording, Stays, Subject
    <3>. QED  BY <1>6, <2>1, <3>1, ReserveMove, OwnerKeptStep
  <2>3. CASE Subject(q) \notin reserved
    <3>1. /\ step'[q] = "execute" /\ ~Acted(q)' /\ Subject(q)' = Subject(q)
          /\ reserved' = reserved \cup {Subject(q)} /\ UNCHANGED effects
          /\ Subject(q) \in Proposal
      BY <1>6, <2>3, ReserveMove DEF Acted, Recording, Stays, Subject, TypeOK, Answer
    <3>2. \A r \in Proc : Owner(r) => Subject(r) # Subject(q)
      BY <2>3 DEF OwnerInv
    <3>3. \A r \in Proc : /\ step[r] = "execute" \/ Acted(r) => Owner(r)
                          /\ step'[r] = "execute" \/ Acted(r)' => Owner(r)'
      BY DEF Owner, Acted
    <3>4. \A r \in Proc : Owner(r)' => Subject(r)' \in reserved'
      BY <2>1, <3>1 DEF OwnerInv, OwnerKept
    <3>5. \A r, t \in Proc : Owner(r)' /\ Owner(t)' /\ Subject(r)' = Subject(t)' => r = t
      BY <2>1, <3>1, <3>2 DEF OwnerInv, OwnerKept
    <3>6. \A r \in Proc : step'[r] = "execute" => effects'[Subject(r)'] = 0
      BY <2>1, <2>3, <3>1, <3>3 DEF OwnerInv, OwnerKept
    <3>7. \A r \in Proc : Acted(r)' => effects'[Subject(r)'] = 1
      BY <2>1, <3>1, <3>3 DEF OwnerInv, OwnerKept
    <3>. QED  BY <3>1, <3>4, <3>5, <3>6, <3>7 DEF OwnerInv
  <2>. QED  BY <2>2, <2>3
<1>7. ASSUME NEW q \in Proc, RecheckExecuted(q) \/ LockTimeout(q) PROVE OwnerInv'
  <2>1. OwnerKept(q)
    BY <1>7, BackMove DEF Control, LiveInv, OwnerKept, Owner, Acted, Recording,
       Stays, Subject
  <2>. QED  BY <1>7, <2>1, BackMove, OthersKept, OwnerKeptStep
<1>8. ASSUME NEW q \in Proc, ExecutorActs(q) \/ ExecutorReturns(q) \/ ExecutorRaises(q)
      PROVE  OwnerInv'
  <2>1. \A r \in Proc : r # q => OwnerKept(r)
    BY <1>8, ExecutorMove DEF Elsewhere, OwnerKept, Owner, Acted, Recording, Subject
  <2>2. /\ Owner(q) /\ Subject(q)' = Subject(q) /\ Subject(q) \in Proposal
        /\ UNCHANGED reserved
    BY <1>8, ExecutorMove DEF Owner, Stays, Subject, TypeOK, Answer
  <2>3. CASE /\ step[q] = "execute" /\ step'[q] = "acted"
             /\ effects' = [effects EXCEPT ![Subject(q)] = @ + 1]
    <3>1. /\ effects[Subject(q)] = 0 /\ effects'[Subject(q)] = 1
          /\ \A p \in Proposal : p # Subject(q) => effects'[p] = effects[p]
      <4>1. effects \in [Proposal -> Nat] /\ effects[Subject(q)] = 0
        BY <2>3 DEF OwnerInv, TypeOK
      <4>. QED  BY <2>2, <2>3, <4>1
    <3>2. \A r \in Proc : r # q /\ Owner(r) => Subject(r) # Subject(q)
      BY <2>2 DEF OwnerInv
    <3>3. \A r \in Proc : /\ step[r] = "execute" \/ Acted(r) => Owner(r)
                          /\ step'[r] = "execute" \/ Acted(r)' => Owner(r)'
      BY DEF Owner, Acted
    <3>4. /\ Subject(q) \in reserved /\ step'[q] # "execute"
          /\ \A r \in Proc : Subject(r) \in Proposal
      BY <2>2, <2>3 DEF OwnerInv, Subject, TypeOK, Answer
    <3>5. /\ \A p \in Proposal : p \notin reserved' => effects'[p] = 0
          /\ \A p \in Proposal : effects'[p] <= 1
      BY <2>2, <3>1, <3>4 DEF OwnerInv
    <3>6. \A r \in Proc : Owner(r)' => Subject(r)' \in reserved'
      BY <2>1, <2>2, <3>4 DEF OwnerInv, OwnerKept
    <3>7. \A r, t \in Proc : Owner(r)' /\ Owner(t)' /\ Subject(r)' = Subject(t)' => r = t
      BY <2>1, <2>2 DEF OwnerInv, OwnerKept
    <3>8. \A r \in Proc : step'[r] = "execute" => effects'[Subject(r)'] = 0
      BY <2>1, <3>1, <3>2, <3>3, <3>4 DEF OwnerInv, OwnerKept
    <3>9. \A r \in Proc : Acted(r)' => effects'[Subject(r)'] = 1
      BY <2>1, <2>2, <3>1, <3>2, <3>3, <3>4 DEF OwnerInv, OwnerKept
    <3>. QED  BY <3>5, <3>6, <3>7, <3>8, <3>9 DEF OwnerInv
  <2>4. CASE step[q] = "acted" /\ UNCHANGED effects /\ step'[q] = "append"
    <3>1. OwnerKept(q)
      BY <2>2, <2>4 DEF OwnerKept, Owner, Acted, Recording
    <3>. QED  BY <2>1, <2>2, <2>4, <3>1, OwnerKeptStep
  <2>5. CASE /\ step[q] = "execute" /\ step'[q] = "append" /\ UNCHANGED effects
             /\ draft'[q].decision = "failed"
    <3>1. OwnerKept(q)
      BY <2>2, <2>5 DEF OwnerKept, Owner, Acted, Recording
    <3>. QED  BY <2>1, <2>2, <2>5, <3>1, OwnerKeptStep
  <2>. QED  BY <1>8, <2>3, <2>4, <2>5, ExecutorMove
<1>9. ASSUME NEW q \in Proc, Crash(q) PROVE OwnerInv'
  <2>1. OwnerKept(q)
    BY <1>9, CrashMove DEF Control, LiveInv, OwnerKept, Owner, Acted, Recording,
       Stays, Subject
  <2>. QED  BY <1>9, <2>1, CrashMove, OthersKept, OwnerKeptStep
<1>10. CASE UNCHANGED vars
  BY <1>10 DEF vars, OwnerInv, Owner, Acted, Recording, Subject
<1>. QED  BY <1>1, <1>2, <1>3, <1>4, <1>5, <1>6, <1>7, <1>8, <1>9, <1>10, NextMoves

(***************************************************************************)
(* A reservation that was found taken is still there: rows are never       *)
(* deleted.                                                                *)
(***************************************************************************)
LEMMA ReservedStep ==
  ASSUME TypeOK, ReservedInv, [Next]_vars
  PROVE  ReservedInv'
<1>. DEFINE Kept == /\ reserved \subseteq reserved'
                    /\ \A r \in Proc : step'[r] = "recheck" =>
                         \/ step[r] = "recheck" /\ Subject(r)' = Subject(r)
                         \/ Subject(r)' \in reserved'
<1>1. ASSUME NEW q \in Proc, Call(q) \/ CheckExecuted(q) PROVE Kept
  BY <1>1, CallMove, CheckMove DEF Elsewhere, Subject
<1>2. ASSUME NEW q \in Proc, LockAndSeal(q) \/ WriteLine(q) PROVE Kept
  BY <1>2, LockMove, WriteMove DEF Elsewhere, Subject
<1>3. ASSUME NEW q \in Proc, FinishLine(q) PROVE Kept
  BY <1>3, FinishMove DEF Elsewhere, Subject
<1>4. ASSUME NEW q \in Proc, ReserveExecution(q) PROVE Kept
  BY <1>4, ReserveMove DEF Elsewhere, Subject, Stays
<1>5. ASSUME NEW q \in Proc, RecheckExecuted(q) \/ LockTimeout(q) PROVE Kept
  BY <1>5, BackMove DEF Elsewhere, Subject
<1>6. ASSUME NEW q \in Proc, ExecutorActs(q) \/ ExecutorReturns(q) \/ ExecutorRaises(q)
      PROVE  Kept
  BY <1>6, ExecutorMove DEF Elsewhere, Subject
<1>7. ASSUME NEW q \in Proc, Crash(q) PROVE Kept
  BY <1>7, CrashMove DEF Elsewhere, Subject
<1>8. ASSUME UNCHANGED vars PROVE Kept
  BY <1>8 DEF vars, Subject
<1>9. Kept
  BY <1>1, <1>2, <1>3, <1>4, <1>5, <1>6, <1>7, <1>8, NextMoves DEF vars, Subject
<1>. QED  BY <1>9 DEF ReservedInv

-----------------------------------------------------------------------------
(***************************************************************************)
(* What is in the file.  A line that lands adds its record or a garbled    *)
(* line, and leaves the lines before it as they were.                      *)
(***************************************************************************)
LEMMA LandFacts ==
  ASSUME TypeOK, NEW record \in AuditRecord, LandLine(record), NEW p \in Proposal, NEW d
  PROVE  /\ ~InTail(p, d)'
         /\ \A i \in Logged(p, d)' :
              \/ i \in Logged(p, d)
              \/ /\ i = Len(lines) + 1
                 /\ record.body.proposal = p /\ record.body.decision = d
         /\ \A i \in Logged(p, d) : i \in Logged(p, d)' /\ lines'[i] = lines[i]
<1>. DEFINE line == IF tail.kind = "merged" THEN Garbled ELSE record
<1>1. /\ lines' = Append(lines, line) /\ tail' = NoTail
      /\ line \in AuditRecord \cup {Garbled}
  BY DEF LandLine
<1>2. /\ Len(lines') = Len(lines) + 1 /\ Len(lines) \in Nat
      /\ lines'[Len(lines) + 1] = line
      /\ \A i \in 1 .. Len(lines) : lines'[i] = lines[i]
  BY <1>1 DEF TypeOK
<1>3. IsRecord(line) => line = record
  BY LineFacts
<1>. HIDE DEF line
<1>. QED  BY <1>1, <1>2, <1>3 DEF InTail, NoTail, Logged

(***************************************************************************)
(* was_executed answers from a line or from a whole record in the tail.    *)
(***************************************************************************)
LEMMA WasExecutedFacts ==
  ASSUME TypeOK, NEW p \in Proposal, WasExecuted(p)
  PROVE  Logged(p, "executed") # {} \/ InTail(p, "executed")
<1>1. PICK i \in 1 .. Len(Records) :
        Records[i].body.proposal = p /\ Records[i].body.decision = "executed"
  BY DEF WasExecuted
<1>2. CASE tail.kind = "whole" /\ i = Len(lines) + 1
  BY <1>1, <1>2 DEF Records, InTail, TypeOK
<1>3. CASE i \in 1 .. Len(lines) /\ Records[i] = lines[i]
  BY <1>1, <1>3 DEF Logged, IsRecord
<1>. QED  BY <1>1, <1>2, <1>3 DEF Records, TypeOK

-----------------------------------------------------------------------------
(***************************************************************************)
(* Executed records are true.                                              *)
(***************************************************************************)
StaleKept(r) ==
  Recording(r, "approved")' /\ draft'[r].already =>
    \/ Recording(r, "approved") /\ draft[r].already /\ Subject(r)' = Subject(r)
    \/ effects'[Subject(r)'] = 1

LEMMA TruthKeptStep ==
  ASSUME TruthInv, UNCHANGED <<lines, effects>>,
         \A p \in Proposal : InTail(p, "executed")' => InTail(p, "executed"),
         \A r \in Proc : OwnerKept(r) /\ StaleKept(r) /\ Subject(r) \in Proposal
  PROVE  TruthInv'
<1>1. \A p \in Proposal : Logged(p, "executed")' = Logged(p, "executed")
  BY DEF Logged
<1>. QED  BY <1>1 DEF TruthInv, OwnerKept, StaleKept

LEMMA WriterFacts ==
  ASSUME TypeOK, Control, OwnerInv, TruthInv, NEW q \in Proc, step[q] = "writing",
         sealed[q].body.decision = "executed"
  PROVE  /\ Owner(q) /\ effects[Subject(q)] = 1
         /\ sealed[q].body.proposal = Subject(q)
         /\ Logged(Subject(q), "executed") = {}
         /\ \A r \in Proc : r # q /\ Owner(r) => Subject(r) # Subject(q)
<1>1. Recording(q, "executed") /\ sealed[q].body.proposal = Subject(q)
  BY DEF Control, SealedInv, Recording
<1>. QED  BY <1>1 DEF OwnerInv, Owner, Acted, TruthInv

LEMMA TruthLandStep ==
  ASSUME TypeOK, Control, OwnerInv, TruthInv, NEW q \in Proc, step[q] = "writing",
         LandLine(sealed[q]), UNCHANGED effects, ~Owner(q)',
         \A r \in Proc : OwnerKept(r) /\ StaleKept(r)
  PROVE  TruthInv'
<1>. DEFINE New(p) == sealed[q].body.proposal = p /\ sealed[q].body.decision = "executed"
<1>1. sealed[q] \in AuditRecord /\ \A r \in Proc : Subject(r) \in Proposal
  BY DEF TypeOK, Subject, Answer
<1>2. \A p \in Proposal :
        /\ ~InTail(p, "executed")'
        /\ \A i \in Logged(p, "executed")' :
             i \in Logged(p, "executed") \/ (i = Len(lines) + 1 /\ New(p))
  BY <1>1, LandFacts
<1>3. \A p \in Proposal : New(p) =>
        /\ p = Subject(q) /\ effects[p] = 1 /\ Logged(p, "executed") = {}
        /\ \A r \in Proc : r # q /\ Owner(r) => Subject(r) # p
  BY WriterFacts
<1>. HIDE DEF New
<1>4. \A p \in Proposal : Logged(p, "executed")' # {} \/ InTail(p, "executed")' => effects'[p] = 1
  BY <1>2, <1>3 DEF TruthInv
<1>5. \A p \in Proposal : \A i, j \in Logged(p, "executed")' : i = j
  BY <1>2, <1>3 DEF TruthInv
<1>6. \A r \in Proc : Owner(r)' =>
        Logged(Subject(r), "executed")' = {} /\ ~InTail(Subject(r), "executed")'
  BY <1>1, <1>2, <1>3 DEF TruthInv, OwnerKept
<1>7. \A r \in Proc : Recording(r, "approved")' /\ draft'[r].already => effects'[Subject(r)'] = 1
  BY DEF TruthInv, StaleKept
<1>. QED  BY <1>2, <1>4, <1>5, <1>6, <1>7 DEF TruthInv

LEMMA TruthWholeStep ==
  ASSUME TypeOK, Control, OwnerInv, TruthInv, NEW q \in Proc, step[q] = "writing",
         tail' = [kind |-> "whole", record |-> sealed[q]],
         UNCHANGED <<lines, effects>>, ~Owner(q)',
         \A r \in Proc : OwnerKept(r) /\ StaleKept(r)
  PROVE  TruthInv'
<1>. DEFINE New(p) == sealed[q].body.proposal = p /\ sealed[q].body.decision = "executed"
<1>1. /\ \A r \in Proc : Subject(r) \in Proposal
      /\ \A p \in Proposal : InTail(p, "executed")' => New(p)
      /\ \A p \in Proposal : Logged(p, "executed")' = Logged(p, "executed")
  BY DEF TypeOK, Subject, Answer, InTail, Logged
<1>2. \A p \in Proposal : New(p) =>
        /\ p = Subject(q) /\ effects[p] = 1 /\ Logged(p, "executed") = {}
        /\ \A r \in Proc : r # q /\ Owner(r) => Subject(r) # p
  BY WriterFacts
<1>. HIDE DEF New
<1>3. \A p \in Proposal : Logged(p, "executed")' # {} \/ InTail(p, "executed")' => effects'[p] = 1
  BY <1>1, <1>2 DEF TruthInv
<1>4. \A r \in Proc : Owner(r)' =>
        Logged(Subject(r), "executed")' = {} /\ ~InTail(Subject(r), "executed")'
  BY <1>1, <1>2 DEF TruthInv, OwnerKept
<1>5. \A r \in Proc : Recording(r, "approved")' /\ draft'[r].already => effects'[Subject(r)'] = 1
  BY DEF TruthInv, StaleKept
<1>. QED  BY <1>1, <1>2, <1>3, <1>4, <1>5 DEF TruthInv

LEMMA OthersStale ==
  ASSUME NEW q \in Proc, Elsewhere(q), StaleKept(q)
  PROVE  \A r \in Proc : StaleKept(r)
BY DEF Elsewhere, StaleKept, Recording, Subject

LEMMA TruthStep ==
  ASSUME TypeOK, Control, OwnerInv, TruthInv, [Next]_vars
  PROVE  TruthInv'
<1>0. \A r \in Proc : Subject(r) \in Proposal
  BY DEF TypeOK, Subject, Answer
<1>1. ASSUME NEW q \in Proc, Call(q) PROVE TruthInv'
  <2>1. OwnerKept(q) /\ StaleKept(q) /\ UNCHANGED <<lines, tail, effects>> /\ Elsewhere(q)
    BY <1>1, CallMove
       DEF OwnerKept, Owner, Acted, Recording, StaleKept, Stays, Subject, Control, LiveInv
  <2>. QED  BY <1>0, <2>1, OthersKept, OthersStale, TruthKeptStep DEF InTail
<1>2. ASSUME NEW q \in Proc, CheckExecuted(q) PROVE TruthInv'
  <2>1. OwnerKept(q) /\ UNCHANGED <<lines, tail, effects>> /\ Elsewhere(q)
    BY <1>2, CheckMove DEF OwnerKept, Owner, Acted, Recording, StaleKept, Stays, Subject
  <2>2. CASE /\ step'[q] = "append" /\ answer'[q] = answer[q]
             /\ draft'[q].already <=> WasExecuted(Subject(q))
    <3>1. WasExecuted(Subject(q)) => effects[Subject(q)] = 1
      BY <1>0, WasExecutedFacts DEF TruthInv
    <3>2. StaleKept(q)
      BY <2>1, <2>2, <3>1 DEF OwnerKept, Owner, Acted, Recording, StaleKept, Stays, Subject
    <3>. QED  BY <1>0, <2>1, <3>2, OthersKept, OthersStale, TruthKeptStep DEF InTail
  <2>3. CASE step'[q] = "idle"
    <3>1. StaleKept(q)
      BY <2>3 DEF OwnerKept, Owner, Acted, Recording, StaleKept, Stays, Subject
    <3>. QED  BY <1>0, <2>1, <3>1, OthersKept, OthersStale, TruthKeptStep DEF InTail
  <2>. QED  BY <1>2, <2>2, <2>3, CheckMove
<1>3. ASSUME NEW q \in Proc, LockAndSeal(q) PROVE TruthInv'
  <2>1. OwnerKept(q) /\ StaleKept(q) /\ UNCHANGED <<lines, tail, effects>> /\ Elsewhere(q)
    BY <1>3, LockMove DEF OwnerKept, Owner, Acted, Recording, StaleKept, Stays, Subject
  <2>. QED  BY <1>0, <2>1, OthersKept, OthersStale, TruthKeptStep DEF InTail
<1>4. ASSUME NEW q \in Proc, WriteLine(q) PROVE TruthInv'
  <2>1. OwnerKept(q) /\ StaleKept(q) /\ UNCHANGED <<lines, effects>> /\ Elsewhere(q)
    BY <1>4, WriteMove DEF OwnerKept, Owner, Acted, Recording, StaleKept, Stays, Subject
  <2>2. \A p \in Proposal : InTail(p, "executed")' => InTail(p, "executed")
    BY <1>4, WriteMove DEF InTail
  <2>. QED  BY <1>0, <2>1, <2>2, OthersKept, OthersStale, TruthKeptStep
<1>5. ASSUME NEW q \in Proc, FinishLine(q) PROVE TruthInv'
  <2>1. /\ OwnerKept(q) /\ StaleKept(q) /\ ~Owner(q)'
        /\ UNCHANGED effects /\ Elsewhere(q)
        /\ step[q] = "writing" /\ LandLine(sealed[q])
    BY <1>5, FinishMove DEF OwnerKept, Owner, Acted, Recording, StaleKept, Stays, Subject
  <2>. QED  BY <2>1, OthersKept, OthersStale, TruthLandStep
<1>6. ASSUME NEW q \in Proc, ReserveExecution(q) PROVE TruthInv'
  <2>1. /\ StaleKept(q) /\ UNCHANGED <<lines, tail, effects>> /\ Elsewhere(q)
        /\ answer'[q] = answer[q]
    BY <1>6, ReserveMove DEF OwnerKept, Owner, Acted, Recording, StaleKept, Stays, Subject
  <2>2. CASE Subject(q) \in reserved
    <3>1. OwnerKept(q)
      BY <1>6, <2>2, ReserveMove
         DEF OwnerKept, Owner, Acted, Recording, StaleKept, Stays, Subject
    <3>. QED  BY <1>0, <2>1, <3>1, OthersKept, OthersStale, TruthKeptStep DEF InTail
  <2>3. CASE Subject(q) \notin reserved
    <3>1. /\ \A p \in Proposal : Logged(p, "executed")' = Logged(p, "executed")
          /\ \A p \in Proposal : InTail(p, "executed")' <=> InTail(p, "executed")
      BY <2>1 DEF Logged, InTail
    <3>2. Logged(Subject(q), "executed") = {} /\ ~InTail(Subject(q), "executed")
      BY <1>0, <2>3 DEF OwnerInv, TruthInv
    <3>3. /\ \A r \in Proc : r # q => OwnerKept(r)
          /\ Subject(q)' = Subject(q)
      BY <2>1 DEF Elsewhere, OwnerKept, Owner, Acted, Recording, StaleKept, Stays, Subject
    <3>4. \A r \in Proc : Owner(r)' =>
            Logged(Subject(r), "executed")' = {} /\ ~InTail(Subject(r), "executed")'
      <4>1. \A r \in Proc : r = q \/ Owner(r)' => Subject(r)' = Subject(r)
        BY <3>3 DEF OwnerKept
      <4>2. \A r \in Proc : Owner(r)' => r = q \/ Owner(r)
        BY <3>3 DEF OwnerKept
      <4>. QED  BY <1>0, <3>1, <3>2, <4>1, <4>2 DEF TruthInv
    <3>5. \A r \in Proc : Recording(r, "approved")' /\ draft'[r].already
                           => effects'[Subject(r)'] = 1
      BY <2>1, OthersStale DEF TruthInv, StaleKept
    <3>. QED  BY <2>1, <3>1, <3>4, <3>5 DEF TruthInv
  <2>. QED  BY <2>2, <2>3
<1>7. ASSUME NEW q \in Proc, RecheckExecuted(q) \/ LockTimeout(q) PROVE TruthInv'
  <2>1. OwnerKept(q) /\ StaleKept(q) /\ UNCHANGED <<lines, tail, effects>> /\ Elsewhere(q)
    BY <1>7, BackMove DEF OwnerKept, Owner, Acted, Recording, StaleKept, Stays, Subject
  <2>. QED  BY <1>0, <2>1, OthersKept, OthersStale, TruthKeptStep DEF InTail
<1>8. ASSUME NEW q \in Proc, ExecutorActs(q) \/ ExecutorReturns(q) \/ ExecutorRaises(q)
      PROVE  TruthInv'
  <2>1. /\ UNCHANGED <<lines, tail>> /\ Elsewhere(q) /\ StaleKept(q)
        /\ Owner(q) /\ answer'[q].proposal = answer[q].proposal
    BY <1>8, ExecutorMove DEF OwnerKept, Owner, Acted, Recording, StaleKept, Stays, Subject
  <2>2. CASE step'[q] = "append" /\ UNCHANGED effects
    <3>1. OwnerKept(q)
      BY <1>8, <2>1, <2>2, ExecutorMove
         DEF OwnerKept, Owner, Acted, Recording, StaleKept, Stays, Subject
    <3>. QED  BY <1>0, <2>1, <2>2, <3>1, OthersKept, OthersStale, TruthKeptStep DEF InTail
  <2>3. CASE /\ step[q] = "execute" /\ step'[q] = "acted"
             /\ effects' = [effects EXCEPT ![Subject(q)] = effects[Subject(q)] + 1]
    <3>1. /\ effects[Subject(q)] = 0
          /\ \A p \in Proposal : p # Subject(q) => effects'[p] = effects[p]
      BY <1>0, <2>3 DEF OwnerInv, TypeOK
    <3>2. /\ \A p \in Proposal : Logged(p, "executed")' = Logged(p, "executed")
          /\ \A p \in Proposal : InTail(p, "executed")' <=> InTail(p, "executed")
      BY <2>1 DEF Logged, InTail
    <3>3. /\ \A r \in Proc : Owner(r)' => Owner(r)
          /\ \A r \in Proc : Subject(r)' = Subject(r)
          /\ \A r \in Proc : Recording(r, "approved")' /\ draft'[r].already =>
                              Recording(r, "approved") /\ draft[r].already
      BY <2>1, <2>3 DEF Elsewhere, Owner, Recording, Subject
    <3>4. \A p \in Proposal : Logged(p, "executed")' # {} \/ InTail(p, "executed")'
                                 => effects'[p] = 1
      BY <2>1, <3>1, <3>2 DEF TruthInv
    <3>5. \A r \in Proc : Owner(r)' =>
            Logged(Subject(r), "executed")' = {} /\ ~InTail(Subject(r), "executed")'
      BY <1>0, <3>2, <3>3 DEF TruthInv
    <3>6. \A r \in Proc : Recording(r, "approved")' /\ draft'[r].already
                           => effects'[Subject(r)'] = 1
      <4>1. \A r \in Proc : effects[Subject(r)] = 1 => Subject(r) # Subject(q)
        BY <3>1
      <4>. QED  BY <1>0, <3>1, <3>3, <4>1 DEF TruthInv
    <3>. QED  BY <3>2, <3>4, <3>5, <3>6 DEF TruthInv
  <2>. QED  BY <1>8, <2>2, <2>3, ExecutorMove
<1>9. ASSUME NEW q \in Proc, Crash(q) PROVE TruthInv'
  <2>1. /\ OwnerKept(q) /\ StaleKept(q) /\ ~Owner(q)'
        /\ UNCHANGED effects /\ Elsewhere(q)
    BY <1>9, CrashMove DEF OwnerKept, Owner, Acted, Recording, StaleKept, Stays, Subject
  <2>2. \A r \in Proc : OwnerKept(r) /\ StaleKept(r)
    BY <2>1, OthersKept, OthersStale
  <2>3. CASE UNCHANGED fileVars
    BY <1>0, <2>1, <2>2, <2>3, TruthKeptStep DEF InTail, fileVars
  <2>4. CASE step[q] = "writing" /\ tail' = NoTail /\ UNCHANGED lines
    BY <1>0, <2>1, <2>2, <2>4, TruthKeptStep DEF InTail, NoTail
  <2>5. CASE /\ step[q] = "writing" /\ UNCHANGED lines
             /\ tail' = [kind |-> "whole", record |-> sealed[q]]
    BY <2>1, <2>2, <2>5, TruthWholeStep
  <2>6. CASE tail.kind = "merged" /\ tail' = [tail EXCEPT !.kind = "whole"] /\ UNCHANGED lines
    <3>1. tail'.record = tail.record /\ tail.kind = "merged"
      BY <2>6 DEF TypeOK
    <3>. QED  BY <1>0, <2>1, <2>2, <2>6, <3>1, TruthKeptStep DEF InTail
  <2>7. CASE step[q] = "writing" /\ LandLine(sealed[q])
    BY <2>1, <2>2, <2>7, TruthLandStep
  <2>. QED  BY <1>9, <2>3, <2>4, <2>5, <2>6, <2>7, CrashMove DEF CutShort
<1>10. CASE UNCHANGED vars
  <2>1. \A r \in Proc : OwnerKept(r) /\ StaleKept(r)
    BY <1>10 DEF vars, OwnerKept, Owner, Acted, Recording, StaleKept, Stays, Subject
  <2>. QED  BY <1>0, <1>10, <2>1, TruthKeptStep DEF InTail, vars
<1>. QED  BY <1>1, <1>2, <1>3, <1>4, <1>5, <1>6, <1>7, <1>8, <1>9, <1>10, NextMoves

-----------------------------------------------------------------------------
(***************************************************************************)
(* Nothing is changed on a say-so that is not in the log.  Lines are only  *)
(* added, so an approval that is there stays; and a call reaches its       *)
(* reservation when the line of its own approval has landed.               *)
(***************************************************************************)
Past(r) == step[r] \in {"reserve", "recheck", "execute", "acted"}

LEMMA LandParses ==
  ASSUME TypeOK, NEW record \in AuditRecord, LandLine(record), AllParse'
  PROVE  AllParse /\ tail.kind # "merged" /\ lines' = Append(lines, record)
<1>. DEFINE line == IF tail.kind = "merged" THEN Garbled ELSE record
<1>1. lines' = Append(lines, line) /\ line \in AuditRecord \cup {Garbled}
  BY DEF LandLine
<1>2. /\ Len(lines') = Len(lines) + 1 /\ Len(lines) \in Nat
      /\ lines'[Len(lines) + 1] = line
      /\ \A i \in 1 .. Len(lines) : lines'[i] = lines[i]
  BY <1>1 DEF TypeOK
<1>3. AllParse
  BY <1>2 DEF AllParse
<1>4. IsRecord(line)
  <2>1. IsRecord(lines'[Len(lines) + 1])
    BY <1>2 DEF AllParse
  <2>. QED  BY <1>2, <2>1
<1>. QED  BY <1>1, <1>3, <1>4, LineFacts

LEMMA ApprovedKeptStep ==
  ASSUME ApprovedInv, AllParse' => AllParse,
         \A r \in Proc : Subject(r) \in Proposal,
         \A p \in Proposal : effects'[p] > 0 => effects[p] > 0
                                 \/ \E q \in Proc : Past(q) /\ Subject(q) = p,
         \A p \in Proposal : \A i \in Logged(p, "approved") :
             i \in Logged(p, "approved")' /\ lines'[i] = lines[i],
         \A r \in Proc : Past(r)' => Past(r) /\ Subject(r)' = Subject(r)
  PROVE  ApprovedInv'
<1>. SUFFICES ASSUME AllParse' PROVE ApprovedInv'
  BY DEF ApprovedInv
<1>. DEFINE Has(p) == \E i \in Logged(p, "approved") : ~lines[i].body.already
<1>1. \A p \in Proposal : Has(p) => Has(p)'
  OBVIOUS
<1>2. /\ \A p \in Proposal : effects[p] > 0 => Has(p)
      /\ \A r \in Proc : Past(r) => Has(Subject(r))
  BY DEF ApprovedInv, ApprovedBeforeChange, Past
<1>. HIDE DEF Has
<1>3. \A p \in Proposal : effects'[p] > 0 => Has(p)'
  BY <1>1, <1>2
<1>4. \A r \in Proc : Past(r)' => Has(Subject(r))'
  <2>. SUFFICES ASSUME NEW r \in Proc, Past(r)' PROVE Has(Subject(r))'
    OBVIOUS
  <2>1. Has(Subject(r)) /\ Subject(r)' = Subject(r)
    BY <1>2
  <2>. QED  BY <1>1, <2>1
<1>. QED  BY <1>3, <1>4 DEF ApprovedInv, ApprovedBeforeChange, Past, Has

LEMMA ApprovedStep ==
  ASSUME TypeOK, Control, OwnerInv, ApprovedInv, [Next]_vars
  PROVE  ApprovedInv'
<1>0. \A r \in Proc : Subject(r) \in Proposal
  BY DEF TypeOK, Subject, Answer
<1>1. ASSUME NEW q \in Proc, Elsewhere(q), Past(q)' => Past(q) /\ Subject(q)' = Subject(q)
      PROVE  \A r \in Proc : Past(r)' => Past(r) /\ Subject(r)' = Subject(r)
  BY <1>1 DEF Elsewhere, Past, Subject
<1>2. ASSUME UNCHANGED lines
      PROVE  /\ AllParse' => AllParse
             /\ \A p \in Proposal : \A i \in Logged(p, "approved") :
                  i \in Logged(p, "approved")' /\ lines'[i] = lines[i]
  BY <1>2 DEF AllParse, Logged
<1>3. ASSUME NEW q \in Proc, Call(q) PROVE ApprovedInv'
  BY <1>3, <1>0, <1>1, <1>2, CallMove, ApprovedKeptStep DEF Past
<1>4. ASSUME NEW q \in Proc, CheckExecuted(q) PROVE ApprovedInv'
  BY <1>4, <1>0, <1>1, <1>2, CheckMove, ApprovedKeptStep DEF Past
<1>5. ASSUME NEW q \in Proc, LockAndSeal(q) PROVE ApprovedInv'
  BY <1>5, <1>0, <1>1, <1>2, LockMove, ApprovedKeptStep DEF Past
<1>6. ASSUME NEW q \in Proc, WriteLine(q) PROVE ApprovedInv'
  BY <1>6, <1>0, <1>1, <1>2, WriteMove, ApprovedKeptStep DEF Past
<1>7. ASSUME NEW q \in Proc, step[q] = "writing", LandLine(sealed[q])
      PROVE  /\ AllParse' => AllParse
             /\ \A p \in Proposal : \A i \in Logged(p, "approved") :
                  i \in Logged(p, "approved")' /\ lines'[i] = lines[i]
  BY <1>7, LandParses, LandFacts DEF TypeOK
<1>8. ASSUME NEW q \in Proc, FinishLine(q) PROVE ApprovedInv'
  <2>1. /\ step[q] = "writing" /\ LandLine(sealed[q]) /\ UNCHANGED effects
        /\ Elsewhere(q)
    BY <1>8, FinishMove
  <2>2. CASE ~Past(q)'
    BY <2>1, <2>2, <1>0, <1>1, <1>7, ApprovedKeptStep
  <2>3. CASE /\ Stays(q) /\ draft[q].decision = "approved" /\ ~draft[q].already
    <3>. SUFFICES ASSUME AllParse' PROVE ApprovedInv'
      BY DEF ApprovedInv
    <3>. DEFINE Has(p) == \E i \in Logged(p, "approved") : ~lines[i].body.already
    <3>1. \A p \in Proposal : Has(p) => Has(p)'
      BY <2>1, <1>7
    <3>2. /\ \A p \in Proposal : effects[p] > 0 => Has(p)
          /\ \A r \in Proc : Past(r) => Has(Subject(r))
      BY <2>1, <1>7 DEF ApprovedInv, ApprovedBeforeChange, Past
    <3>3. Has(Subject(q))'
      <4>1. /\ sealed[q].body.proposal = Subject(q)
            /\ sealed[q].body.decision = "approved"
            /\ ~sealed[q].body.already
            /\ sealed[q] \in AuditRecord
        BY <2>1, <2>3 DEF Control, SealedInv, TypeOK
      <4>2. lines' = Append(lines, sealed[q])
        BY <2>1, <4>1, LandParses
      <4>3. /\ Len(lines') = Len(lines) + 1 /\ Len(lines) \in Nat
            /\ lines'[Len(lines) + 1] = sealed[q]
        BY <4>1, <4>2 DEF TypeOK
      <4>4. IsRecord(sealed[q]) /\ Subject(q)' = Subject(q)
        BY <2>3, <4>1, LineFacts DEF Stays, Subject
      <4>5. Len(lines) + 1 \in Logged(Subject(q), "approved")'
        BY <4>1, <4>3, <4>4 DEF Logged
      <4>. QED  BY <4>1, <4>3, <4>5
    <3>. HIDE DEF Has
    <3>4. \A r \in Proc : r # q =>
            /\ Past(r)' => Past(r)
            /\ Subject(r)' = Subject(r)
      BY <2>1 DEF Elsewhere, Past, Subject
    <3>5. \A r \in Proc : Past(r)' => Has(Subject(r))'
      <4>. SUFFICES ASSUME NEW r \in Proc, Past(r)', r # q PROVE Has(Subject(r))'
        BY <3>3
      <4>1. Has(Subject(r)) /\ Subject(r)' = Subject(r)
        BY <3>2, <3>4
      <4>. QED  BY <1>0, <3>1, <4>1
    <3>6. \A p \in Proposal : effects'[p] > 0 => Has(p)'
      BY <2>1, <3>1, <3>2
    <3>. QED  BY <3>5, <3>6 DEF ApprovedInv, ApprovedBeforeChange, Past, Has
  <2>. QED  BY <1>8, <2>2, <2>3, FinishMove DEF Past
<1>9. ASSUME NEW q \in Proc, ReserveExecution(q) PROVE ApprovedInv'
  BY <1>9, <1>0, <1>1, <1>2, ReserveMove, ApprovedKeptStep DEF Past, Stays, Subject
<1>10. ASSUME NEW q \in Proc, RecheckExecuted(q) \/ LockTimeout(q) PROVE ApprovedInv'
  BY <1>10, <1>0, <1>1, <1>2, BackMove, ApprovedKeptStep DEF Past
<1>11. ASSUME NEW q \in Proc, ExecutorActs(q) \/ ExecutorReturns(q) \/ ExecutorRaises(q)
       PROVE  ApprovedInv'
  <2>1. /\ UNCHANGED lines /\ Elsewhere(q) /\ Past(q)
        /\ Past(q)' => Subject(q)' = Subject(q)
    BY <1>11, ExecutorMove DEF Past, Stays, Subject
  <2>2. \A p \in Proposal : p # Subject(q) => effects'[p] = effects[p]
    <3>1. \/ UNCHANGED effects
          \/ effects' = [effects EXCEPT ![Subject(q)] = effects[Subject(q)] + 1]
      BY <1>11, ExecutorMove
    <3>2. effects \in [Proposal -> Nat]
      BY DEF TypeOK
    <3>. QED  BY <1>0, <3>1, <3>2
  <2>3. \A p \in Proposal : effects'[p] > 0 =>
          effects[p] > 0 \/ \E r \in Proc : Past(r) /\ Subject(r) = p
    BY <2>1, <2>2
  <2>4. \A r \in Proc : Past(r)' => Past(r) /\ Subject(r)' = Subject(r)
    BY <2>1, <1>1
  <2>. QED  BY <2>1, <2>3, <2>4, <1>0, <1>2, ApprovedKeptStep
<1>12. ASSUME NEW q \in Proc, Crash(q) PROVE ApprovedInv'
  <2>1. UNCHANGED effects /\ Elsewhere(q) /\ ~Past(q)'
    BY <1>12, CrashMove DEF Past
  <2>2. UNCHANGED lines \/ (step[q] = "writing" /\ LandLine(sealed[q]))
    BY <1>12, CrashMove DEF CutShort, fileVars
  <2>3. CASE UNCHANGED lines
    BY <2>1, <2>3, <1>0, <1>1, <1>2, ApprovedKeptStep
  <2>4. CASE step[q] = "writing" /\ LandLine(sealed[q])
    BY <2>1, <2>4, <1>0, <1>1, <1>7, ApprovedKeptStep
  <2>. QED  BY <2>2, <2>3, <2>4
<1>13. CASE UNCHANGED vars
  BY <1>13, <1>0, <1>2, ApprovedKeptStep DEF vars, Past, Subject
<1>. QED  BY <1>3, <1>4, <1>5, <1>6, <1>8, <1>9, <1>10, <1>11, <1>12, <1>13, NextMoves

-----------------------------------------------------------------------------
(***************************************************************************)
(* The chain verifies: the record a process seals extends the log it read, *)
(* and nobody else writes before its line is there.                        *)
(***************************************************************************)
Writer(r) == step[r] \in {"sealed", "writing"}

LEMMA ChainKeptStep ==
  ASSUME ChainInv, UNCHANGED <<lines, tail>>,
         \A r \in Proc : Writer(r)' => step'[r] = step[r] /\ sealed'[r] = sealed[r]
  PROVE  ChainInv'
BY DEF ChainInv, Writer, AllParse, Records

LEMMA LoneWriter ==
  ASSUME Control, NEW q \in Proc, Writer(q), Elsewhere(q)
  PROVE  \A r \in Proc : r # q => ~Writer(r)'
BY DEF Control, LockInv, Writer, Elsewhere

(***************************************************************************)
(* What a process that stops writing must leave in the file.               *)
(***************************************************************************)
LEMMA ChainLeftStep ==
  ASSUME \A r \in Proc : ~Writer(r)',
         AllParse' => /\ VerifyChain(lines')
                      /\ tail'.kind \in {"whole", "merged"} =>
                           VerifyChain(Append(lines', tail'.record))
  PROVE  ChainInv'
BY DEF ChainInv, Writer

LEMMA ChainLandStep ==
  ASSUME TypeOK, ChainInv, NEW q \in Proc, step[q] = "writing", LandLine(sealed[q]),
         \A r \in Proc : ~Writer(r)'
  PROVE  ChainInv'
<1>. SUFFICES ASSUME AllParse' PROVE VerifyChain(lines') /\ tail'.kind = "none"
  BY ChainLeftStep
<1>1. sealed[q] \in AuditRecord
  BY DEF TypeOK
<1>2. AllParse /\ tail.kind # "merged" /\ lines' = Append(lines, sealed[q])
  BY <1>1, LandParses
<1>3. VerifyChain(Append(lines, sealed[q]))
  BY <1>2 DEF ChainInv
<1>. QED  BY <1>2, <1>3 DEF LandLine, NoTail

LEMMA ChainStep ==
  ASSUME TypeOK, Control, ChainInv, [Next]_vars
  PROVE  ChainInv'
<1>1. ASSUME NEW q \in Proc, Call(q) PROVE ChainInv'
  BY <1>1, CallMove, ChainKeptStep DEF Writer, Elsewhere
<1>2. ASSUME NEW q \in Proc, CheckExecuted(q) PROVE ChainInv'
  BY <1>2, CheckMove, ChainKeptStep DEF Writer, Elsewhere
<1>3. ASSUME NEW q \in Proc, LockAndSeal(q) PROVE ChainInv'
  <2>1. CASE step'[q] = "idle"
    BY <1>3, <2>1, LockMove, ChainKeptStep DEF Writer, Elsewhere
  <2>2. CASE step'[q] = "sealed"
    <3>1. /\ Readable /\ lock = NoProc /\ UNCHANGED <<lines, tail>> /\ Elsewhere(q)
          /\ sealed'[q] = Sealed(Records, draft[q].decision, Subject(q), draft[q].already)
      BY <1>3, <2>2, LockMove
    <3>2. \A r \in Proc : r # q => ~Writer(r)'
      BY <3>1, ProcAssumption DEF Control, LockInv, Writer, Elsewhere
    <3>3. AllParse /\ tail.kind \in {"none", "whole"} /\ VerifyChain(lines)
          /\ VerifyChain(Records)
      BY <3>1 DEF Readable, AllParse, ChainInv, Records
    <3>4. VerifyChain(Append(Records, sealed'[q]))
      BY <3>1, <3>3, RecordsType, SealedExtends DEF TypeOK, Subject, Draft, Answer
    <3>5. AllParse' => AllParse /\ Records' = Records
      BY <3>1 DEF AllParse, Records
    <3>. QED  BY <2>2, <3>1, <3>2, <3>3, <3>4, <3>5 DEF ChainInv, Writer
  <2>. QED  BY <1>3, <2>1, <2>2, LockMove
<1>4. ASSUME NEW q \in Proc, WriteLine(q) PROVE ChainInv'
  <2>1. /\ step[q] = "sealed" /\ step'[q] = "writing" /\ Elsewhere(q)
        /\ tail'.record = tail.record
        /\ tail'.kind = IF tail.kind = "whole" THEN "merged" ELSE "partial"
        /\ UNCHANGED <<lines, sealed>>
    BY <1>4, WriteMove
  <2>2. \A r \in Proc : r # q => ~Writer(r)'
    BY <2>1, LoneWriter DEF Writer
  <2>3. AllParse' => AllParse
    BY <2>1 DEF AllParse
  <2>4. AllParse => /\ VerifyChain(lines)
                    /\ tail.kind = "whole" => VerifyChain(Append(lines, tail.record))
                    /\ tail.kind # "whole" => VerifyChain(Append(lines, sealed[q]))
    BY <2>1 DEF ChainInv, Records
  <2>. QED  BY <2>1, <2>2, <2>3, <2>4 DEF ChainInv, Writer
<1>5. ASSUME NEW q \in Proc, FinishLine(q) PROVE ChainInv'
  <2>1. /\ step[q] = "writing" /\ LandLine(sealed[q]) /\ Elsewhere(q) /\ ~Writer(q)'
    BY <1>5, FinishMove DEF Writer
  <2>. QED  BY <2>1, LoneWriter, ChainLandStep DEF Writer
<1>6. ASSUME NEW q \in Proc, ReserveExecution(q) PROVE ChainInv'
  BY <1>6, ReserveMove, ChainKeptStep DEF Writer, Elsewhere
<1>7. ASSUME NEW q \in Proc, RecheckExecuted(q) \/ LockTimeout(q) PROVE ChainInv'
  BY <1>7, BackMove, ChainKeptStep DEF Writer, Elsewhere
<1>8. ASSUME NEW q \in Proc, ExecutorActs(q) \/ ExecutorReturns(q) \/ ExecutorRaises(q)
      PROVE  ChainInv'
  BY <1>8, ExecutorMove, ChainKeptStep DEF Writer, Elsewhere
<1>9. ASSUME NEW q \in Proc, Crash(q) PROVE ChainInv'
  <2>1. Elsewhere(q) /\ ~Writer(q)'
    BY <1>9, CrashMove DEF Writer
  <2>2. CASE UNCHANGED fileVars
    BY <2>1, <2>2, ChainKeptStep DEF Writer, Elsewhere, fileVars
  <2>3. CASE step[q] = "writing" /\ CutShort(q)
    <3>1. \A r \in Proc : ~Writer(r)'
      BY <2>1, <2>3, LoneWriter DEF Writer
    <3>2. CASE tail' = NoTail /\ UNCHANGED lines
      BY <3>1, <3>2, ChainLeftStep DEF ChainInv, AllParse, NoTail
    <3>3. CASE /\ tail.kind = "partial" /\ UNCHANGED lines
               /\ tail' = [kind |-> "whole", record |-> sealed[q]]
      <4>1. AllParse' => AllParse
        BY <3>3 DEF AllParse
      <4>2. AllParse => VerifyChain(lines) /\ VerifyChain(Append(lines, sealed[q]))
        BY <2>3, <3>3 DEF ChainInv
      <4>. QED  BY <3>1, <3>3, <4>1, <4>2, ChainLeftStep
    <3>4. CASE /\ tail.kind = "merged" /\ tail' = [tail EXCEPT !.kind = "whole"]
               /\ UNCHANGED lines
      <4>1. tail'.record = tail.record /\ tail.kind = "merged"
        BY <3>4 DEF TypeOK
      <4>2. AllParse' => AllParse
        BY <3>4 DEF AllParse
      <4>3. AllParse => VerifyChain(lines) /\ VerifyChain(Append(lines, tail.record))
        BY <4>1 DEF ChainInv
      <4>. QED  BY <3>1, <3>4, <4>1, <4>2, <4>3, ChainLeftStep
    <3>5. CASE LandLine(sealed[q])
      BY <2>3, <3>1, <3>5, ChainLandStep
    <3>6. CASE UNCHANGED fileVars
      BY <2>2, <3>6
    <3>. QED  BY <2>3, <3>2, <3>3, <3>4, <3>5, <3>6 DEF CutShort
  <2>. QED  BY <1>9, <2>2, <2>3, CrashMove
<1>10. CASE UNCHANGED vars
  BY <1>10, ChainKeptStep DEF vars
<1>. QED  BY <1>1, <1>2, <1>3, <1>4, <1>5, <1>6, <1>7, <1>8, <1>9, <1>10, NextMoves

-----------------------------------------------------------------------------
(***************************************************************************)
(* The invariant holds, and with it every safety property of the service.  *)
(***************************************************************************)
LEMMA InitInv == Init => Inv
<1>. SUFFICES ASSUME Init PROVE Inv
  OBVIOUS
<1>1. TypeOK
  <2>1. NoDraft \in Draft /\ "idle" \in Step /\ NoTail.kind = "none"
        /\ NoTail \in [kind: TailKind, record: AuditRecord \cup {Garbled}]
    BY DEF NoDraft, Draft, Decision, Step, NoTail, TailKind
  <2>. QED  BY <2>1 DEF Init, TypeOK, Answer
<1>2. /\ \A q \in Proc : step[q] = "idle"
      /\ lines = << >> /\ Len(lines) = 0 /\ tail.kind = "none"
      /\ lock = NoProc /\ \A p \in Proposal : effects[p] = 0
  BY DEF Init, NoTail
<1>3. Control
  BY <1>2, ProcAssumption DEF Control, LockInv, LiveInv, SealedInv, Recording
<1>4. OwnerInv /\ ReservedInv
  BY <1>2 DEF OwnerInv, ReservedInv, Owner, Acted, Recording
<1>5. TruthInv
  BY <1>2 DEF TruthInv, Logged, InTail, Owner, Recording
<1>6. ApprovedInv
  BY <1>2 DEF ApprovedInv, ApprovedBeforeChange
<1>7. ChainInv
  BY <1>2 DEF ChainInv, VerifyChain
<1>. QED  BY <1>1, <1>3, <1>4, <1>5, <1>6, <1>7 DEF Inv

THEOREM InvHolds == Spec => []Inv
<1>1. Inv /\ [Next]_vars => Inv'
  BY TypeStep, ControlStep, ReservedStep, OwnerStep, TruthStep, ApprovedStep, ChainStep DEF Inv
<1>. QED  BY <1>1, InitInv, PTL DEF Spec

(***************************************************************************)
(* The target is changed at most once per proposal, whatever races and     *)
(* whatever stops.                                                         *)
(***************************************************************************)
THEOREM ChangedAtMostOnce == Spec => []AtMostOnce
<1>1. Inv => AtMostOnce
  BY DEF Inv, OwnerInv, AtMostOnce
<1>. QED  BY <1>1, InvHolds, PTL

(***************************************************************************)
(* An executed record means one change, under a reservation, and there is  *)
(* no second one.                                                          *)
(***************************************************************************)
THEOREM LogTellsTheTruth == Spec => []ExecutedIsTrue
<1>1. Inv => ExecutedIsTrue
  <2>. SUFFICES ASSUME Inv PROVE ExecutedIsTrue
    OBVIOUS
  <2>1. \A p \in Proposal : effects[p] = 1 => p \in reserved
    BY DEF Inv, OwnerInv
  <2>2. \A p \in Proposal : Logged(p, "executed") # {} => effects[p] = 1
    BY DEF Inv, TruthInv
  <2>. QED  BY <2>1, <2>2 DEF Inv, TruthInv, ExecutedIsTrue
<1>. QED  BY <1>1, InvHolds, PTL

(***************************************************************************)
(* In a log whose lines parse, whatever was changed was approved first.    *)
(***************************************************************************)
THEOREM ChangedOnlyIfApproved == Spec => []ApprovedBeforeChange
<1>1. Inv => ApprovedBeforeChange
  BY DEF Inv, ApprovedInv, ApprovedBeforeChange
<1>. QED  BY <1>1, InvHolds, PTL

(***************************************************************************)
(* A log that parses is a chain that verifies.                             *)
(***************************************************************************)
THEOREM LogVerifies == Spec => []ChainVerifies
<1>1. Inv => ChainVerifies
  BY DEF Inv, ChainInv, ChainVerifies, Readable, Records, AllParse
<1>. QED  BY <1>1, InvHolds, PTL

-----------------------------------------------------------------------------
(***************************************************************************)
(* The service implements the promise.  A call that begins, and one that   *)
(* ends without an outcome, forget; one that ends with an outcome tells;   *)
(* a reservation claims and the executor changes.  The rest is invisible.  *)
(***************************************************************************)
LEMMA ReturnAnswer ==
  ASSUME TypeOK, NEW q \in Proc, NEW o, Return(q, o)
  PROVE  /\ Subject(q) \in Proposal
         /\ answer' = [answer EXCEPT ![q] = [proposal |-> Subject(q), outcome |-> o]]
<1>1. answer[q] \in Answer
  BY DEF TypeOK
<1>2. [answer[q] EXCEPT !.outcome = o] = [proposal |-> Subject(q), outcome |-> o]
  BY <1>1 DEF Answer, Subject
<1>3. answer' = [answer EXCEPT ![q] = [answer[q] EXCEPT !.outcome = o]]
  BY DEF Return
<1>. QED  BY <1>1, <1>2, <1>3 DEF Answer, Subject

LEMMA ReturnForgets ==
  ASSUME TypeOK, NEW q \in Proc, Return(q, "none"), UNCHANGED <<reserved, effects>>
  PROVE  Promise!Forget(q)
BY ReturnAnswer DEF Promise!Forget

LEMMA ReturnTells ==
  ASSUME TypeOK, NEW q \in Proc, NEW o \in Outcome, Return(q, o),
         UNCHANGED <<reserved, effects>>,
         o \in {"executed", "already_executed"} => effects[Subject(q)] = 1,
         o \in {"failed", "execution_uncertain"} => Subject(q) \in reserved
  PROVE  Promise!Tell(q)
<1>. DEFINE a == [proposal |-> Subject(q), outcome |-> o]
<1>1. /\ a \in [proposal: Proposal, outcome: Promise!Outcome]
      /\ a.proposal = Subject(q) /\ a.outcome = o
      /\ answer' = [answer EXCEPT ![q] = a]
  BY ReturnAnswer DEF Outcome, Promise!Outcome
<1>. HIDE DEF a
<1>. QED  BY <1>1 DEF Promise!Tell

LEMMA PromiseStep ==
  ASSUME Inv, [Next]_vars
  PROVE  [Promise!Next]_(Promise!vars)
<1>. DEFINE Kept == UNCHANGED <<reserved, effects, answer>>
            Goal == \/ Kept
                    \/ \E p \in Proposal : Promise!Claim(p) \/ Promise!Change(p)
                    \/ \E c \in Proc : Promise!Forget(c) \/ Promise!Tell(c)
<1>0. TypeOK /\ \A q \in Proc : Subject(q) \in Proposal
  BY DEF Inv, TypeOK, Subject, Answer
<1>1. ASSUME NEW q \in Proc, Call(q) PROVE Goal
  <2>1. \E p \in Proposal : Begin(q, p)
    BY <1>1 DEF Call, RecordProposal, Reject, Approve
  <2>2. Promise!Forget(q)
    BY <2>1 DEF Begin, Promise!Forget
  <2>. QED  BY <2>2
<1>2. ASSUME NEW q \in Proc, CheckExecuted(q) PROVE Goal
  BY <1>0, <1>2, ReturnForgets DEF CheckExecuted, Raise
<1>3. ASSUME NEW q \in Proc, LockAndSeal(q) PROVE Goal
  BY <1>0, <1>3, ReturnForgets DEF LockAndSeal, Raise
<1>4. ASSUME NEW q \in Proc, WriteLine(q) PROVE Goal
  BY <1>4 DEF WriteLine
<1>5. ASSUME NEW q \in Proc, FinishLine(q) PROVE Goal
  <2>1. step[q] = "writing" /\ AfterAppend(q) /\ UNCHANGED <<reserved, effects>>
    BY <1>5 DEF FinishLine
  <2>2. ASSUME NEW o \in Outcome, Return(q, o),
               o = "executed" => draft[q].decision = "executed",
               o = "already_executed" => draft[q].decision = "approved" /\ draft[q].already,
               o = "failed" => draft[q].decision = "failed" /\ q \in Live,
               o # "execution_uncertain"
        PROVE  Promise!Tell(q)
    <3>1. o = "executed" => effects[Subject(q)] = 1
      BY <2>1, <2>2 DEF Inv, OwnerInv, Acted, Recording
    <3>2. o = "already_executed" => effects[Subject(q)] = 1
      BY <2>1, <2>2 DEF Inv, TruthInv, Recording
    <3>3. o = "failed" => Subject(q) \in reserved
      BY <2>1, <2>2 DEF Inv, OwnerInv, Owner, Recording
    <3>. QED  BY <1>0, <2>1, <2>2, <3>1, <3>2, <3>3, ReturnTells
  <2>3. CASE Return(q, "none")
    BY <1>0, <2>1, <2>3, ReturnForgets
  <2>. QED  BY <1>0, <2>1, <2>2, <2>3, AfterAppendFacts
<1>6. ASSUME NEW q \in Proc, ReserveExecution(q) PROVE Goal
  <2>1. reserved' = reserved \cup {Subject(q)} /\ UNCHANGED <<effects, answer>>
    BY <1>6 DEF ReserveExecution
  <2>2. CASE Subject(q) \in reserved
    BY <2>1, <2>2
  <2>3. CASE Subject(q) \notin reserved
    BY <1>0, <2>1, <2>3 DEF Promise!Claim
  <2>. QED  BY <2>2, <2>3
<1>7. ASSUME NEW q \in Proc, RecheckExecuted(q) PROVE Goal
  <2>1. step[q] = "recheck" /\ UNCHANGED <<reserved, effects>>
    BY <1>7 DEF RecheckExecuted
  <2>2. CASE Return(q, "none")
    BY <1>0, <2>1, <2>2, ReturnForgets
  <2>3. CASE WasExecuted(Subject(q)) /\ Return(q, "already_executed")
    <3>1. effects[Subject(q)] = 1
      BY <1>0, <2>3, WasExecutedFacts DEF Inv, TruthInv
    <3>. QED  BY <1>0, <2>1, <2>3, <3>1, ReturnTells DEF Outcome
  <2>4. CASE Return(q, "execution_uncertain")
    <3>1. Subject(q) \in reserved
      BY <2>1 DEF Inv, ReservedInv
    <3>. QED  BY <1>0, <2>1, <2>4, <3>1, ReturnTells DEF Outcome
  <2>. QED  BY <1>7, <2>2, <2>3, <2>4 DEF RecheckExecuted, Raise
<1>8. ASSUME NEW q \in Proc, LockTimeout(q) PROVE Goal
  BY <1>0, <1>8, ReturnForgets DEF LockTimeout, Raise
<1>9. ASSUME NEW q \in Proc, ExecutorActs(q) PROVE Goal
  <2>1. /\ effects' = [effects EXCEPT ![Subject(q)] = effects[Subject(q)] + 1]
        /\ UNCHANGED <<reserved, answer>> /\ step[q] = "execute"
    BY <1>9 DEF ExecutorActs
  <2>2. effects[Subject(q)] = 0 /\ Subject(q) \in reserved
    BY <2>1 DEF Inv, OwnerInv, Owner
  <2>3. effects' = [effects EXCEPT ![Subject(q)] = 1]
    BY <2>1, <2>2
  <2>4. Promise!Change(Subject(q))
    BY <2>1, <2>2, <2>3 DEF Promise!Change
  <2>. QED  BY <1>0, <2>4
<1>10. ASSUME NEW q \in Proc, ExecutorReturns(q) \/ ExecutorRaises(q) PROVE Goal
  BY <1>10 DEF ExecutorReturns, ExecutorRaises
<1>11. ASSUME NEW q \in Proc, Crash(q) PROVE Goal
  BY <1>0, <1>11, ReturnForgets DEF Crash, Raise
<1>12. ASSUME UNCHANGED vars PROVE Goal
  BY <1>12 DEF vars
<1>13. Goal
  <2>. HIDE DEF Goal
  <2>. QED  BY <1>1, <1>2, <1>3, <1>4, <1>5, <1>6, <1>7, <1>8, <1>9, <1>10, <1>11, <1>12,
               NextMoves
<1>. QED  BY <1>13 DEF Promise!Next, Promise!vars

(***************************************************************************)
(* The service keeps its promise: approval.py's at-most-once execution and *)
(* what it tells its callers, with the file and the database below it.     *)
(***************************************************************************)
THEOREM ServiceKeepsPromise == Spec => KeepsPromise
<1>1. Init => Promise!Init
  BY DEF Init, Promise!Init
<1>2. Inv /\ [Next]_vars => [Promise!Next]_(Promise!vars)
  BY PromiseStep
<1>. QED  BY <1>1, <1>2, InvHolds, PTL DEF Spec, KeepsPromise, Promise!Spec

(***************************************************************************)
(* The target changes once at most, and only on an approval in the log that *)
(* found the proposal not yet executed (approval.py).                      *)
(***************************************************************************)
THEOREM ChangesAreDue == Spec => []ChangeIsDue
<1>1. AtMostOnce /\ ApprovedBeforeChange => ChangeIsDue
  BY DEF ChangeIsDue
<1>. QED  BY <1>1, ChangedAtMostOnce, ChangedOnlyIfApproved, PTL
=============================================================================
