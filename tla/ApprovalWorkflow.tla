-------------------------- MODULE ApprovalWorkflow --------------------------
(***************************************************************************)
(* The durable workflow around one approval, remediation/workflow.py:      *)
(* record the proposal, wait for a person, carry the answer out, watch the *)
(* signal.  Workers (processes that opened the same audit log) run it for  *)
(* the same proposals: the thread of checkpoints of a proposal is shared,  *)
(* what a worker holds in memory is not, and a worker can stop anywhere.   *)
(*                                                                         *)
(* The approval service is its promise, OnceOnly, which ApprovalService    *)
(* implements.  LangGraph is external and modelled from its use here: a    *)
(* worker runs nodes one after the other from the last checkpoint, and     *)
(* checkpoints are written in order behind the nodes, so a crash loses     *)
(* those not yet written; an invoke returns once all are.                  *)
(***************************************************************************)
EXTENDS Naturals, Sequences

CONSTANTS
  Proposal,
  Worker,
  MaxBehind  \* bound: checkpoints that can be under way behind a worker

ASSUME BehindAssumption == MaxBehind \in Nat \ {0}

VARIABLES
  claimed, effects, told,   \* the approval service, see OnceOnly
  recorded,   \* proposals in the audit chain
  answers,    \* what people answered for a proposal, ever
  thread,     \* the last checkpoint written for a proposal
  run         \* the invoke a worker is in: its state, and what is unsaved

service == <<claimed, effects, told>>
vars    == <<claimed, effects, told, recorded, answers, thread, run>>

Service == INSTANCE OnceOnly WITH Caller <- Worker

Decision == {"approve", "reject"}
Node     == {"record_proposal", "await_approval", "carry_out", "check_recovery"}

(***************************************************************************)
(* The watch's verdict, credited with a fix or not (acted_usefully), and   *)
(* the record of no watch.                                                 *)
(***************************************************************************)
Watched  == {"recovered", "not_shown"}
Recovery == Watched \cup {"nothing_executed"}

(***************************************************************************)
(* ApprovalState, and the node that is next.                               *)
(***************************************************************************)
Snapshot == [next:     Node \cup {"none", "end"},
             decision: Decision \cup {"none"},
             outcome:  Service!Outcome \cup {"none"},
             recovery: Recovery \cup {"none"}]

Run == [phase:    {"idle", "node", "execute", "changed", "returning"},
        proposal: Proposal,
        answer:   Decision \cup {"none"},
        state:    Snapshot,
        unsaved:  Seq(Snapshot)]

NoState == [next |-> "none", decision |-> "none", outcome |-> "none", recovery |-> "none"]

TypeOK ==
  /\ claimed \subseteq Proposal
  /\ effects \in [Proposal -> 0 .. 1]
  /\ told \in [Worker -> Service!Answer]
  /\ recorded \subseteq Proposal
  /\ answers \in [Proposal -> SUBSET Decision]
  /\ thread \in [Proposal -> Snapshot]
  /\ run \in [Worker -> Run]
  /\ \A w \in Worker : Len(run[w].unsaved) <= MaxBehind
  /\ \A w \in Worker : run[w].phase = "node" => run[w].state.next \in Node

Init ==
  /\ Service!Init
  /\ recorded = {}
  /\ answers = [p \in Proposal |-> {}]
  /\ thread = [p \in Proposal |-> NoState]
  /\ run \in [Worker -> [phase: {"idle"}, proposal: Proposal, answer: {"none"},
                         state: {NoState}, unsaved: {<< >>}]]

Subject(w) == run[w].proposal

At(w, node) == run[w].phase = "node" /\ run[w].state.next = node

(***************************************************************************)
(* The loop runs no further node: the invoke returns what it has.          *)
(***************************************************************************)
Stopping(w) == [run[w] EXCEPT !.phase = "returning", !.state = NoState]

(***************************************************************************)
(* A node is done: its result joins the state, the next one may start and  *)
(* the checkpoint is on its way.                                           *)
(***************************************************************************)
Complete(w, s) ==
  /\ Len(run[w].unsaved) < MaxBehind
  /\ LET r == IF s.next = "end" THEN Stopping(w)
                                ELSE [run[w] EXCEPT !.phase = "node", !.state = s]
     IN  run' = [run EXCEPT ![w] = [r EXCEPT !.unsaved = Append(@, s)]]

Invoke(w, p, s, answer, unsaved) ==
  /\ run[w].phase = "idle"
  /\ run' = [run EXCEPT ![w] = [phase |-> IF s.next = "end" THEN "returning" ELSE "node",
                                proposal |-> p, answer |-> answer,
                                state |-> s, unsaved |-> unsaved]]
  /\ told' = [told EXCEPT ![w] = [proposal |-> p, outcome |-> "none"]]
  /\ Service!Forget(w)
  /\ UNCHANGED <<recorded, thread>>

(***************************************************************************)
(* A start puts the thread back at its first node, whatever it holds; the  *)
(* channels it does not write keep their values.                           *)
(***************************************************************************)
Start(w, p) ==
  /\ LET s == [thread[p] EXCEPT !.next = "record_proposal"]
     IN  Invoke(w, p, s, "none", <<s>>)
  /\ UNCHANGED answers

(***************************************************************************)
(* A resume goes on from wherever the thread is, with a person's answer.   *)
(***************************************************************************)
Resume(w, p, d) ==
  /\ thread[p].next # "none"
  /\ Invoke(w, p, thread[p], d, << >>)
  /\ answers' = [answers EXCEPT ![p] = @ \cup {d}]

RecordProposal(w) ==
  /\ At(w, "record_proposal")
  /\ recorded' = recorded \cup {Subject(w)}
  /\ Complete(w, [run[w].state EXCEPT !.next = "await_approval"])
  /\ UNCHANGED <<service, answers, thread>>

\* Mutant: an invoke nobody answered goes on.
AwaitApproval_NoWait(w) ==
  /\ At(w, "await_approval")
  /\ Complete(w, [run[w].state EXCEPT !.next = "carry_out", !.decision = run[w].answer])
  /\ UNCHANGED <<service, recorded, answers, thread>>

(***************************************************************************)
(* interrupt: without an answer the invoke stops here, and returns.        *)
(***************************************************************************)
AwaitApproval(w) ==
  /\ At(w, "await_approval")
  /\ IF run[w].answer = "none"
     THEN run' = [run EXCEPT ![w] = Stopping(w)]
     ELSE Complete(w, [run[w].state EXCEPT !.next = "carry_out", !.decision = run[w].answer])
  /\ UNCHANGED <<service, recorded, answers, thread>>

(***************************************************************************)
(* The service answers, and carry_out is done.                             *)
(***************************************************************************)
Tell(w, outcome) ==
  /\ told' = [told EXCEPT ![w] = [proposal |-> Subject(w), outcome |-> outcome]]
  /\ Service!Tell(w)
  /\ Complete(w, [run[w].state EXCEPT !.next = "check_recovery", !.outcome = outcome])

Rejected(w) ==
  /\ At(w, "carry_out") /\ run[w].state.decision = "reject"
  /\ Tell(w, "rejected")
  /\ UNCHANGED <<recorded, answers, thread>>

Approving(w) == At(w, "carry_out") /\ run[w].state.decision # "reject"

(***************************************************************************)
(* service.approve for a claim that was given out, or in a process without *)
(* an executor: a worker is a succession of processes, opened either way.  *)
(***************************************************************************)
NotExecuted(w) ==
  /\ Approving(w)
  /\ \/ Tell(w, "recorded_only")
     \/ Tell(w, "already_executed")
     \/ Tell(w, "execution_uncertain")
  /\ UNCHANGED <<recorded, answers, thread>>

ClaimExecution(w) ==
  /\ Approving(w)
  /\ Service!Claim(Subject(w))
  /\ run' = [run EXCEPT ![w].phase = "execute"]
  /\ UNCHANGED <<recorded, answers, thread>>

ChangeTarget(w) ==
  /\ run[w].phase = "execute"
  /\ Service!Change(Subject(w))
  /\ run' = [run EXCEPT ![w].phase = "changed"]
  /\ UNCHANGED <<recorded, answers, thread>>

(***************************************************************************)
(* The executor raised, before or after it changed the target, or is done. *)
(***************************************************************************)
Executed(w) ==
  /\ \/ run[w].phase \in {"execute", "changed"} /\ Tell(w, "failed")
     \/ run[w].phase = "changed" /\ Tell(w, "executed")
  /\ UNCHANGED <<recorded, answers, thread>>

\* Mutant: the signal is watched whatever the outcome was.
CheckRecovery_Always(w) ==
  /\ At(w, "check_recovery")
  /\ \E r \in Watched :
       Complete(w, [run[w].state EXCEPT !.next = "end", !.recovery = r])
  /\ UNCHANGED <<service, recorded, answers, thread>>

(***************************************************************************)
(* The watch, which RecoveryWatch details, unless nothing was executed.    *)
(***************************************************************************)
CheckRecovery(w) ==
  /\ At(w, "check_recovery")
  /\ \E r \in IF run[w].state.outcome = "executed"
              THEN Watched ELSE {"nothing_executed"} :
       Complete(w, [run[w].state EXCEPT !.next = "end", !.recovery = r])
  /\ UNCHANGED <<service, recorded, answers, thread>>

Save(w) ==
  /\ run[w].unsaved # << >>
  /\ thread' = [thread EXCEPT ![Subject(w)] = Head(run[w].unsaved)]
  /\ run' = [run EXCEPT ![w].unsaved = Tail(@)]
  /\ UNCHANGED <<service, recorded, answers>>

Leave(w) ==
  /\ run' = [run EXCEPT ![w] = [phase |-> "idle", proposal |-> Subject(w), answer |-> "none",
                                state |-> NoState, unsaved |-> << >>]]
  /\ told' = [told EXCEPT ![w] = [proposal |-> Subject(w), outcome |-> "none"]]
  /\ Service!Forget(w)
  /\ UNCHANGED <<recorded, answers, thread>>

Return(w) ==
  /\ run[w].phase = "returning" /\ run[w].unsaved = << >>
  /\ Leave(w)

(***************************************************************************)
(* A node raised: the invoke ends once what is under way is written.       *)
(***************************************************************************)
NodeRaises(w) ==
  /\ run[w].phase \in {"node", "execute", "changed"}
  /\ run' = [run EXCEPT ![w] = Stopping(w)]
  /\ UNCHANGED <<service, recorded, answers, thread>>

Crash(w) ==
  /\ run[w].phase # "idle"
  /\ Leave(w)

CarryOut(w) ==
  Rejected(w) \/ NotExecuted(w) \/ ClaimExecution(w) \/ ChangeTarget(w) \/ Executed(w)

RunNode(w) ==
  RecordProposal(w) \/ AwaitApproval(w) \/ CarryOut(w) \/ CheckRecovery(w)

Working(w) == RunNode(w) \/ Save(w) \/ Return(w)

Next ==
  \E w \in Worker :
    \/ \E p \in Proposal : Start(w, p) \/ \E d \in Decision : Resume(w, p, d)
    \/ Working(w)
    \/ NodeRaises(w) \/ Crash(w)

Spec == Init /\ [][Next]_vars

-----------------------------------------------------------------------------
(***************************************************************************)
(* Nothing changes before a person has approved a recorded proposal,       *)
(* however invokes, restarts and stale channels interleave: "an ambiguous  *)
(* answer must not default to approving" (workflow.py:165, 171), although  *)
(* carry_out approves whatever is not a reject.                            *)
(***************************************************************************)
ChangedByApproval ==
  \A p \in Proposal : effects[p] > 0 => "approve" \in answers[p] /\ p \in recorded

(***************************************************************************)
(* A remediation is credited with a recovery only if the target was        *)
(* changed: a recovery verdict in the thread is about something real.      *)
(***************************************************************************)
CreditIsDue ==
  \A p \in Proposal :
    thread[p].recovery \in Watched => effects[p] = 1

(***************************************************************************)
(* "A rejected proposal changed nothing" (workflow.py:193): the invoke     *)
(* that a person's reject resumed does not execute.                        *)
(***************************************************************************)
RejectExecutesNothing ==
  \A w \in Worker : run[w].answer = "reject" => told[w].outcome # "executed"
=============================================================================
