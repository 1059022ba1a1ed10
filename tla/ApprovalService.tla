--------------------------- MODULE ApprovalService ---------------------------
(***************************************************************************)
(* The approval service, remediation/approval.py, over its audit log,      *)
(* remediation/audit.py: several service processes (or threads) share one  *)
(* audit file and one SQLite database beside it, and any of them can stop  *)
(* at any point.                                                           *)
(*                                                                         *)
(* An action is one step of a call between two points where another        *)
(* process can act: a read of the file that takes no lock, the SQLite      *)
(* write lock being granted, the bytes of a line reaching the file, the    *)
(* lock being released, the executor changing the target.                  *)
(***************************************************************************)
EXTENDS AuditChain

CONSTANTS
  Proc,         \* service processes and threads, each making one call at a time
  Allowed,      \* proposals the allowlist accepts (_check_allowed)
  Live,         \* processes configured with an executor; the others are bundle mode
  NoProc,       \* nobody holds the write lock
  MaxRecords    \* bound: no call starts once the file has this many lines

ASSUME ProcAssumption    == NoProc \notin Proc /\ Live \subseteq Proc
ASSUME AllowedAssumption == Allowed \subseteq Proposal
ASSUME BoundAssumption   == MaxRecords \in Nat

VARIABLES
  lines,      \* the lines of the audit file that end in a newline
  tail,       \* what follows the last newline
  lock,       \* who holds the SQLite write lock (BEGIN IMMEDIATE)
  reserved,   \* the committed rows of the executions table
  effects,    \* how often the target was changed for a proposal
  step,       \* where each process is in its call
  draft,      \* the decision its next append records, and already_executed
  sealed,     \* the record it sealed and is writing
  answer      \* the proposal of its call, and the outcome returned last

fileVars == <<lines, tail>>
vars     == <<lines, tail, lock, reserved, effects, step, draft, sealed, answer>>

Outcome == {"executed", "already_executed", "rejected", "recorded_only",
            "failed", "execution_uncertain"}

Draft  == [decision: Decision, already: BOOLEAN]
Answer == [proposal: Proposal, outcome: Outcome \cup {"none"}]

Step == {"idle", "check", "append", "sealed", "writing", "reserve", "recheck",
         "execute", "acted"}

(***************************************************************************)
(* A line that is not a record, where a crash cut one short or two were    *)
(* run together.  Records() raises on it, wherever it is.                  *)
(***************************************************************************)
Garbled == [body |-> [decision |-> "garbled"]]

IsRecord(line) == line.body.decision # "garbled"

(***************************************************************************)
(* The tail is nothing, part of a record, a whole record that lacks only   *)
(* its newline, or such a record with the start of another run onto it.    *)
(***************************************************************************)
TailKind == {"none", "partial", "whole", "merged"}
NoTail   == [kind |-> "none", record |-> Garbled]

NoDraft == [decision |-> "proposed", already |-> FALSE]

Readable ==
  /\ \A i \in 1 .. Len(lines) : IsRecord(lines[i])
  /\ tail.kind \in {"none", "whole"}

Records == IF tail.kind = "whole" THEN Append(lines, tail.record) ELSE lines

Subject(q) == answer[q].proposal

WasExecuted(p) ==
  \E i \in 1 .. Len(Records) :
    Records[i].body.proposal = p /\ Records[i].body.decision = "executed"

TypeOK ==
  /\ lines \in Seq(AuditRecord \cup {Garbled})
  /\ tail \in [kind: TailKind, record: AuditRecord \cup {Garbled}]
  /\ tail.kind \in {"whole", "merged"} => tail.record \in AuditRecord
  /\ lock \in Proc \cup {NoProc}
  /\ reserved \subseteq Proposal
  /\ effects \in [Proposal -> Nat]
  /\ step \in [Proc -> Step]
  /\ draft \in [Proc -> Draft]
  /\ sealed \in [Proc -> AuditRecord \cup {Garbled}]
  /\ \A q \in Proc : step[q] \in {"sealed", "writing"} => sealed[q] \in AuditRecord
  /\ answer \in [Proc -> Answer]

Init ==
  /\ lines = << >>
  /\ tail = NoTail
  /\ lock = NoProc
  /\ reserved = {}
  /\ effects = [p \in Proposal |-> 0]
  /\ step = [q \in Proc |-> "idle"]
  /\ draft = [q \in Proc |-> NoDraft]
  /\ sealed = [q \in Proc |-> Garbled]
  /\ answer \in [Proc -> [proposal: Proposal, outcome: {"none"}]]

(***************************************************************************)
(* How a call moves: to its next step, to the append of a decision, or     *)
(* back to its caller, with an outcome or with an exception.               *)
(***************************************************************************)
GoTo(q, s) == step' = [step EXCEPT ![q] = s]

ThenAppend(q, decision, already) ==
  /\ GoTo(q, "append")
  /\ draft' = [draft EXCEPT ![q] = [decision |-> decision, already |-> already]]

Return(q, outcome) ==
  /\ GoTo(q, "idle")
  /\ answer' = [answer EXCEPT ![q].outcome = outcome]
  /\ draft' = [draft EXCEPT ![q] = NoDraft]

Raise(q) == Return(q, "none")

(***************************************************************************)
(* A person, or the workflow for them, calls record_proposal, reject or    *)
(* approve.  A blank reason and, but for reject, a proposal the allowlist  *)
(* refuses raise before anything is touched, so such calls are no steps.   *)
(***************************************************************************)
Begin(q, p) ==
  /\ step[q] = "idle"
  /\ Len(lines) < MaxRecords
  /\ answer' = [answer EXCEPT ![q] = [proposal |-> p, outcome |-> "none"]]
  /\ UNCHANGED <<lines, tail, lock, reserved, effects, sealed>>

RecordProposal(q, p) ==
  /\ p \in Allowed
  /\ Begin(q, p)
  /\ ThenAppend(q, "proposed", FALSE)

Reject(q, p) ==
  /\ Begin(q, p)
  /\ ThenAppend(q, "rejected", FALSE)

Approve(q, p) ==
  /\ p \in Allowed
  /\ Begin(q, p)
  /\ GoTo(q, "check")
  /\ UNCHANGED draft

(***************************************************************************)
(* approve reads was_executed without the lock.  The answer goes into the  *)
(* approval's detail, and decides what happens after the append, however   *)
(* stale it is by then.                                                    *)
(***************************************************************************)
CheckExecuted(q) ==
  /\ step[q] = "check"
  /\ \/ /\ Readable
        /\ ThenAppend(q, "approved", WasExecuted(Subject(q)))
        /\ UNCHANGED answer
     \/ /\ ~Readable
        /\ Raise(q)
  /\ UNCHANGED <<lines, tail, lock, reserved, effects, sealed>>

\* Mutant: the head is read and the record sealed without the write lock.
LockAndSeal_Unlocked(q) ==
  /\ step[q] = "append" /\ Readable
  /\ lock' = q
  /\ sealed' = [sealed EXCEPT ![q] =
       Sealed(Records, draft[q].decision, Subject(q), draft[q].already)]
  /\ GoTo(q, "sealed")
  /\ UNCHANGED <<lines, tail, reserved, effects, draft, answer>>

(***************************************************************************)
(* AuditLog.append: take the write lock, read every record, seal the new   *)
(* one onto the last.  A file that does not parse raises and rolls back.   *)
(***************************************************************************)
LockAndSeal(q) ==
  /\ step[q] = "append"
  /\ lock = NoProc
  /\ \/ /\ Readable
        /\ lock' = q
        /\ sealed' = [sealed EXCEPT ![q] =
             Sealed(Records, draft[q].decision, Subject(q), draft[q].already)]
        /\ GoTo(q, "sealed")
        /\ UNCHANGED <<draft, answer>>
     \/ /\ ~Readable
        /\ Raise(q)
        /\ UNCHANGED <<lock, sealed>>
  /\ UNCHANGED <<lines, tail, reserved, effects>>

(***************************************************************************)
(* The first bytes of the line are in the file, where a process that takes *)
(* no lock can read them.  They run on from whatever the file ended with.  *)
(***************************************************************************)
WriteLine(q) ==
  /\ step[q] = "sealed"
  /\ tail' = [tail EXCEPT !.kind = IF @ = "whole" THEN "merged" ELSE "partial"]
  /\ GoTo(q, "writing")
  /\ UNCHANGED <<lines, lock, reserved, effects, draft, sealed, answer>>

(***************************************************************************)
(* What the call does once its record is in the log.                       *)
(***************************************************************************)
AfterAppend(q) ==
  \/ /\ draft[q].decision = "proposed"
     /\ Raise(q)                         \* returns the record, no outcome
  \/ /\ draft[q].decision = "rejected"
     /\ Return(q, "rejected")
  \/ /\ draft[q].decision = "approved" /\ draft[q].already
     /\ Return(q, "already_executed")
  \/ /\ draft[q].decision = "approved" /\ ~draft[q].already /\ q \notin Live
     /\ ThenAppend(q, "failed", FALSE)
     /\ UNCHANGED answer
  \/ /\ draft[q].decision = "approved" /\ ~draft[q].already /\ q \in Live
     /\ GoTo(q, "reserve")
     /\ UNCHANGED <<draft, answer>>
  \/ /\ draft[q].decision = "failed"
     /\ Return(q, IF q \in Live THEN "failed" ELSE "recorded_only")
  \/ /\ draft[q].decision = "executed"
     /\ Return(q, "executed")

(***************************************************************************)
(* The rest of the line and its newline are flushed and synced, and the    *)
(* lock is released.                                                       *)
(***************************************************************************)
LandLine(record) ==
  /\ lines' = Append(lines, IF tail.kind = "merged" THEN Garbled ELSE record)
  /\ tail' = NoTail

FinishLine(q) ==
  /\ step[q] = "writing"
  /\ LandLine(sealed[q])
  /\ lock' = NoProc
  /\ AfterAppend(q)
  /\ sealed' = [sealed EXCEPT ![q] = Garbled]
  /\ UNCHANGED <<reserved, effects>>

\* Mutant: INSERT OR REPLACE, which always reports a row of its own.
ReserveExecution_Replace(q) ==
  /\ step[q] = "reserve"
  /\ lock = NoProc
  /\ reserved' = reserved \cup {Subject(q)}
  /\ GoTo(q, "execute")
  /\ UNCHANGED <<lines, tail, lock, effects, draft, sealed, answer>>

(***************************************************************************)
(* reserve_execution: INSERT OR IGNORE under the write lock, committed     *)
(* before the executor is called.                                          *)
(***************************************************************************)
ReserveExecution(q) ==
  /\ step[q] = "reserve"
  /\ lock = NoProc
  /\ reserved' = reserved \cup {Subject(q)}
  /\ GoTo(q, IF Subject(q) \in reserved THEN "recheck" ELSE "execute")
  /\ UNCHANGED <<lines, tail, lock, effects, draft, sealed, answer>>

\* Mutant: a reservation that is taken is reported as a change that was made.
RecheckExecuted_Presumed(q) ==
  /\ step[q] = "recheck"
  /\ Return(q, "already_executed")
  /\ UNCHANGED <<lines, tail, lock, reserved, effects, sealed>>

RecheckExecuted(q) ==
  /\ step[q] = "recheck"
  /\ \/ /\ Readable
        /\ Return(q, IF WasExecuted(Subject(q)) THEN "already_executed"
                                                ELSE "execution_uncertain")
     \/ ~Readable /\ Raise(q)
  /\ UNCHANGED <<lines, tail, lock, reserved, effects, sealed>>

\* Mutant: an append waits for the lock without a limit.
LockTimeout_ReserveOnly(q) ==
  /\ step[q] = "reserve" /\ lock # NoProc
  /\ Raise(q)
  /\ UNCHANGED <<lines, tail, lock, reserved, effects, sealed>>

(***************************************************************************)
(* BEGIN IMMEDIATE gives up when another connection keeps the lock for 30  *)
(* seconds, and the call raises.                                           *)
(***************************************************************************)
LockTimeout(q) ==
  /\ step[q] \in {"append", "reserve"}
  /\ lock # NoProc
  /\ Raise(q)
  /\ UNCHANGED <<lines, tail, lock, reserved, effects, sealed>>

(***************************************************************************)
(* The executor, external code: it changes the target and returns, or it   *)
(* raises, before the change or after it.                                  *)
(***************************************************************************)
ExecutorActs(q) ==
  /\ step[q] = "execute"
  /\ effects' = [effects EXCEPT ![Subject(q)] = @ + 1]
  /\ GoTo(q, "acted")
  /\ UNCHANGED <<lines, tail, lock, reserved, draft, sealed, answer>>

\* Mutant: the execution is recorded before the executor has acted.
ExecutorReturns_Early(q) ==
  /\ step[q] \in {"execute", "acted"}
  /\ ThenAppend(q, "executed", FALSE)
  /\ UNCHANGED <<lines, tail, lock, reserved, effects, sealed, answer>>

ExecutorReturns(q) ==
  /\ step[q] = "acted"
  /\ ThenAppend(q, "executed", FALSE)
  /\ UNCHANGED <<lines, tail, lock, reserved, effects, sealed, answer>>

ExecutorRaises(q) ==
  /\ step[q] \in {"execute", "acted"}
  /\ ThenAppend(q, "failed", FALSE)
  /\ UNCHANGED <<lines, tail, lock, reserved, effects, sealed, answer>>

(***************************************************************************)
(* The process dies, or a write or a sync raises OSError: the call is over *)
(* without an answer, SQLite rolls back and drops the lock.  A line being  *)
(* written is left as far as it got: not at all, in part, whole but for    *)
(* its newline, or complete.                                               *)
(***************************************************************************)
CutShort(q) ==
  \/ UNCHANGED fileVars
  \/ /\ tail.kind = "partial"
     /\ tail' \in {NoTail, [kind |-> "whole", record |-> sealed[q]]}
     /\ UNCHANGED lines
  \/ /\ tail.kind = "merged"
     /\ tail' = [tail EXCEPT !.kind = "whole"]
     /\ UNCHANGED lines
  \/ LandLine(sealed[q])

Crash(q) ==
  /\ step[q] # "idle"
  /\ IF step[q] = "writing" THEN CutShort(q) ELSE UNCHANGED fileVars
  /\ lock' = IF lock = q THEN NoProc ELSE lock
  /\ Raise(q)
  /\ sealed' = [sealed EXCEPT ![q] = Garbled]
  /\ UNCHANGED <<reserved, effects>>

(***************************************************************************)
(* The steps a process takes on its own once its call has begun.           *)
(***************************************************************************)
Continue(q) ==
  \/ CheckExecuted(q)
  \/ LockAndSeal(q)
  \/ WriteLine(q)
  \/ FinishLine(q)
  \/ ReserveExecution(q)
  \/ RecheckExecuted(q)
  \/ LockTimeout(q)
  \/ ExecutorActs(q)
  \/ ExecutorReturns(q)
  \/ ExecutorRaises(q)

Call(q) == \E p \in Proposal : RecordProposal(q, p) \/ Reject(q, p) \/ Approve(q, p)

Next == \E q \in Proc : Call(q) \/ Continue(q) \/ Crash(q)

Spec == Init /\ [][Next]_vars

(***************************************************************************)
(* A process that is running keeps running: nothing in a call waits        *)
(* without a limit but for the executor, which is assumed to return or     *)
(* raise.  Nobody has to call, and nothing has to crash.                   *)
(***************************************************************************)
FairSpec == Spec /\ \A q \in Proc : WF_vars(Continue(q))

-----------------------------------------------------------------------------
(***************************************************************************)
(* Every line that is a record, wherever in the file it is.                *)
(***************************************************************************)
Logged(p, decision) ==
  {i \in 1 .. Len(lines) : /\ IsRecord(lines[i])
                           /\ lines[i].body.proposal = p
                           /\ lines[i].body.decision = decision}

(***************************************************************************)
(* Two approvals racing, a crash anywhere and any number of restarts       *)
(* change the target at most once per proposal (reserve_execution and the  *)
(* order approve() calls things in).                                       *)
(***************************************************************************)
AtMostOnce == \A p \in Proposal : effects[p] <= 1

(***************************************************************************)
(* Whatever the writers' interleaving and wherever one is cut short, a log *)
(* that parses is a chain that verifies: append reads the head and writes  *)
(* the line under one lock.                                                *)
(***************************************************************************)
ChainVerifies == Readable => VerifyChain(Records)

(***************************************************************************)
(* The log never claims a change that was not made: an executed record     *)
(* means the target was changed, exactly once, under a reservation, and    *)
(* there is one such record at most.                                       *)
(***************************************************************************)
ExecutedIsTrue ==
  \A p \in Proposal :
    /\ Logged(p, "executed") # {} => effects[p] = 1 /\ p \in reserved
    /\ \A i, j \in Logged(p, "executed") : i = j

(***************************************************************************)
(* Nothing is changed on a say-so that is not in the log for good: in a    *)
(* log whose lines all parse, whatever was changed has an approval that    *)
(* found the proposal not yet executed, as a complete line.  In a log with *)
(* a garbled line that line may have been the approval: an append runs on  *)
(* from what a cut write left on the last line.                            *)
(***************************************************************************)
AllParse == \A i \in 1 .. Len(lines) : IsRecord(lines[i])

ApprovedBeforeChange ==
  AllParse =>
    \A p \in Proposal :
      effects[p] > 0 => \E i \in Logged(p, "approved") : ~lines[i].body.already

(***************************************************************************)
(* The service implements the promise OnceOnly states: reservations are    *)
(* its claims, and what a caller was told is the answer of its call.       *)
(***************************************************************************)
Promise == INSTANCE OnceOnly WITH
  Caller <- Proc, claimed <- reserved, told <- answer

KeepsPromise == Promise!Spec

(***************************************************************************)
(* A call ends, with an outcome or an exception: no process waits for ever *)
(* for a lock another one keeps taking, or died holding.                   *)
(***************************************************************************)
EveryCallEnds == \A q \in Proc : step[q] # "idle" ~> step[q] = "idle"

(***************************************************************************)
(* The target is changed once at most, and only where a person's approval of *)
(* the proposal, which found it not executed yet, is in the log.           *)
(***************************************************************************)
ChangeIsDue == AtMostOnce /\ ApprovedBeforeChange
=============================================================================
