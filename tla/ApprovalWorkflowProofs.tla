----------------------- MODULE ApprovalWorkflowProofs -----------------------
(***************************************************************************)
(* The workflow's safety, for any number of workers, proposals and         *)
(* checkpoints under way.  A checkpoint, wherever it is (written, in a     *)
(* worker's memory, on its way), claims things about its proposal that     *)
(* stay true once they are true: that it is recorded, what was answered,   *)
(* that the target was changed.  So a lost or overtaken checkpoint does no *)
(* harm.                                                                   *)
(*                                                                         *)
(* And the verdict of the watch it ends with, for every window, sleep,     *)
(* signal and number of samples asked for.  The count of the loop is the   *)
(* run of samples within tolerance that ends the samples kept, no longer   *)
(* and no shorter, and the clock is tied to the last of them.              *)
(***************************************************************************)
EXTENDS ApprovalWorkflow, RecoveryWatch, SequenceTheorems, TLAPS

(***************************************************************************)
(* What a checkpoint says of its proposal is so.                           *)
(***************************************************************************)
Sound(s, p) ==
  /\ s.next \in {"await_approval", "carry_out", "check_recovery", "end"} => p \in recorded
  /\ s.decision # "none" => s.decision \in answers[p]
  /\ s.next = "carry_out" => s.decision # "none"
  /\ s.outcome = "executed" => effects[p] = 1
  /\ s.recovery \in Watched => effects[p] = 1

ThreadsSound == \A p \in Proposal : Sound(thread[p], p)

RunSound(w) ==
  /\ run[w].answer # "none" => run[w].answer \in answers[Subject(w)]
  /\ Sound(run[w].state, Subject(w))
  /\ \A i \in 1 .. Len(run[w].unsaved) : Sound(run[w].unsaved[i], Subject(w))
  /\ run[w].phase \in {"execute", "changed"} =>
       Subject(w) \in recorded /\ "approve" \in answers[Subject(w)]

Inv == TypeOK /\ ThreadsSound /\ (\A w \in Worker : RunSound(w)) /\ ChangedByApproval

(***************************************************************************)
(* Nothing that a checkpoint relies on is taken back.                      *)
(***************************************************************************)
Grows ==
  /\ recorded \subseteq recorded'
  /\ \A p \in Proposal : answers[p] \subseteq answers'[p]
  /\ \A p \in Proposal : effects[p] = 1 => effects'[p] = 1

ServiceTyped ==
  /\ claimed \subseteq Proposal
  /\ effects \in [Proposal -> 0 .. 1]
  /\ told \in [Worker -> Service!Answer]
  /\ recorded \subseteq Proposal
  /\ answers \in [Proposal -> SUBSET Decision]

Fits(w) ==
  /\ Len(run[w].unsaved) <= MaxBehind
  /\ run[w].phase = "node" => run[w].state.next \in Node

-----------------------------------------------------------------------------
LEMMA StaysSound ==
  ASSUME Grows, NEW p \in Proposal, NEW s, Sound(s, p)
  PROVE  /\ s.next \in {"await_approval", "carry_out", "check_recovery", "end"} => p \in recorded'
         /\ s.decision # "none" => s.decision \in answers'[p]
         /\ s.next = "carry_out" => s.decision # "none"
         /\ s.outcome = "executed" => effects'[p] = 1
         /\ s.recovery \in Watched => effects'[p] = 1
BY DEF Grows, Sound

LEMMA NoStateSound == NoState \in Snapshot /\ \A p : Sound(NoState, p)
BY DEF NoState, Snapshot, Sound, Watched

(***************************************************************************)
(* A step changes one worker's run and what only grows.                    *)
(***************************************************************************)
LEMMA OneWorker ==
  ASSUME Inv, NEW w \in Worker, Grows, ServiceTyped', thread' = thread,
         run' \in [Worker -> Run], \A v \in Worker : v # w => run'[v] = run[v],
         Fits(w)', RunSound(w)', ChangedByApproval'
  PROVE  Inv'
<1>1. TypeOK'
  BY DEF Inv, TypeOK, ServiceTyped, Fits
<1>2. ThreadsSound'
  <2> SUFFICES ASSUME NEW p \in Proposal PROVE Sound(thread[p], p)'
    BY DEF ThreadsSound
  <2>1. Sound(thread[p], p)
    BY DEF Inv, ThreadsSound
  <2> QED BY <2>1, StaysSound DEF Sound
<1>3. ASSUME NEW v \in Worker PROVE RunSound(v)'
  <2>1. CASE v = w
    BY <2>1
  <2>2. CASE v # w
    <3>1. run'[v] = run[v] /\ RunSound(v) /\ Subject(v) \in Proposal /\ Subject(v)' = Subject(v)
      BY <2>2 DEF Inv, TypeOK, Run, Subject
    <3>2. Sound(run[v].state, Subject(v))'
      <4>1. Sound(run[v].state, Subject(v))
        BY <3>1 DEF RunSound
      <4> QED BY <3>1, <4>1, StaysSound DEF Sound
    <3>3. ASSUME NEW i \in 1 .. Len(run[v].unsaved) PROVE Sound(run[v].unsaved[i], Subject(v))'
      <4>1. Sound(run[v].unsaved[i], Subject(v))
        BY <3>1 DEF RunSound
      <4> QED BY <3>1, <4>1, StaysSound DEF Sound
    <3> QED BY <3>1, <3>2, <3>3 DEF RunSound, Grows
  <2> QED BY <2>1, <2>2
<1> QED BY <1>1, <1>2, <1>3 DEF Inv

(***************************************************************************)
(* What the end of a node does to the run.                                 *)
(***************************************************************************)
LEMMA CompleteRun ==
  ASSUME TypeOK, NEW w \in Worker, NEW s \in Snapshot, s.next \in Node \cup {"end"},
         Complete(w, s)
  PROVE  /\ run' \in [Worker -> Run]
         /\ \A v \in Worker : v # w => run'[v] = run[v]
         /\ run'[w].proposal = run[w].proposal /\ run'[w].answer = run[w].answer
         /\ run'[w].unsaved = Append(run[w].unsaved, s)
         /\ Len(run'[w].unsaved) <= MaxBehind
         /\ \/ run'[w].phase = "node" /\ run'[w].state = s /\ s.next \in Node
            \/ run'[w].phase = "returning" /\ run'[w].state = NoState
<1> DEFINE n == IF s.next = "end" THEN Stopping(w)
                                  ELSE [run[w] EXCEPT !.phase = "node", !.state = s]
<1>1. run[w] \in Run /\ run[w].unsaved \in Seq(Snapshot)
  BY DEF TypeOK, Run
<1>2. run' = [run EXCEPT ![w] = [n EXCEPT !.unsaved = Append(@, s)]]
  BY DEF Complete
<1>3. /\ n \in Run /\ n.proposal = run[w].proposal /\ n.answer = run[w].answer
      /\ n.unsaved = run[w].unsaved
      /\ \/ n.phase = "node" /\ n.state = s /\ s.next \in Node
         \/ n.phase = "returning" /\ n.state = NoState
  BY <1>1, NoStateSound DEF Stopping, Run, Node
<1>4. /\ Append(n.unsaved, s) \in Seq(Snapshot) /\ Append(n.unsaved, s) = Append(run[w].unsaved, s)
      /\ Len(Append(run[w].unsaved, s)) = Len(run[w].unsaved) + 1
  BY <1>1, <1>3, AppendProperties
<1> HIDE DEF n
<1>5. [n EXCEPT !.unsaved = Append(@, s)] \in Run
  BY <1>3, <1>4 DEF Run
<1>6. Len(run[w].unsaved) < MaxBehind /\ Len(run[w].unsaved) \in Nat /\ MaxBehind \in Nat
  BY <1>1, BehindAssumption DEF Complete
<1>7. run'[w] = [n EXCEPT !.unsaved = Append(@, s)]
  BY <1>2 DEF TypeOK
<1>8. run' \in [Worker -> Run] /\ \A v \in Worker : v # w => run'[v] = run[v]
  BY <1>2, <1>5 DEF TypeOK
<1>9. Len(run[w].unsaved) + 1 <= MaxBehind
  BY <1>6
<1> QED BY <1>3, <1>4, <1>7, <1>8, <1>9 DEF Run

(***************************************************************************)
(* A node whose new checkpoint is sound keeps everything sound.            *)
(***************************************************************************)
LEMMA CompleteKeeps ==
  ASSUME Inv, NEW w \in Worker, NEW s \in Snapshot, s.next \in Node \cup {"end"},
         Complete(w, s), Grows, ServiceTyped', thread' = thread, ChangedByApproval',
         /\ s.next \in {"await_approval", "carry_out", "check_recovery", "end"} =>
              Subject(w) \in recorded'
         /\ s.decision # "none" => s.decision \in answers'[Subject(w)]
         /\ s.next = "carry_out" => s.decision # "none"
         /\ s.outcome = "executed" => effects'[Subject(w)] = 1
         /\ s.recovery \in Watched => effects'[Subject(w)] = 1
  PROVE  Inv'
<1>1. /\ run' \in [Worker -> Run]
      /\ \A v \in Worker : v # w => run'[v] = run[v]
      /\ run'[w].proposal = run[w].proposal /\ run'[w].answer = run[w].answer
      /\ run'[w].unsaved = Append(run[w].unsaved, s)
      /\ Len(run'[w].unsaved) <= MaxBehind
      /\ \/ run'[w].phase = "node" /\ run'[w].state = s /\ s.next \in Node
         \/ run'[w].phase = "returning" /\ run'[w].state = NoState
  BY CompleteRun DEF Inv
<1>2. /\ Subject(w)' = Subject(w) /\ Subject(w) \in Proposal /\ RunSound(w)
      /\ run[w].unsaved \in Seq(Snapshot)
  BY <1>1 DEF Subject, Inv, TypeOK, Run
<1>3. Fits(w)'
  BY <1>1 DEF Fits
<1>4. RunSound(w)'
  <2>1. run'[w].answer # "none" => run'[w].answer \in answers'[Subject(w)]
    BY <1>1, <1>2 DEF RunSound, Grows
  <2>2. Sound(run[w].state, Subject(w))'
    <3>1. CASE run'[w].state = s
      BY <1>2, <3>1 DEF Sound
    <3>2. CASE run'[w].state = NoState
      BY <1>2, <3>2 DEF Sound, NoState, Watched
    <3> QED BY <1>1, <3>1, <3>2
  <2>3. ASSUME NEW i \in 1 .. Len(run'[w].unsaved) PROVE Sound(run[w].unsaved[i], Subject(w))'
    <3>1. /\ Len(run'[w].unsaved) = Len(run[w].unsaved) + 1 /\ Len(run[w].unsaved) \in Nat
          /\ i = Len(run[w].unsaved) + 1 => run'[w].unsaved[i] = s
          /\ i \in 1 .. Len(run[w].unsaved) => run'[w].unsaved[i] = run[w].unsaved[i]
      BY <1>1, <1>2, <2>3, AppendProperties
    <3>2. CASE i = Len(run[w].unsaved) + 1
      <4>1. run'[w].unsaved[i] = s
        BY <3>1, <3>2
      <4> QED BY <1>2, <4>1 DEF Sound
    <3>3. CASE i \in 1 .. Len(run[w].unsaved)
      <4>1. Sound(run[w].unsaved[i], Subject(w)) /\ run'[w].unsaved[i] = run[w].unsaved[i]
        BY <1>2, <3>1, <3>3 DEF RunSound
      <4> QED BY <1>2, <4>1, StaysSound DEF Sound
    <3>4. i = Len(run[w].unsaved) + 1 \/ i \in 1 .. Len(run[w].unsaved)
      BY <2>3, <3>1
    <3> QED BY <3>2, <3>3, <3>4
  <2> QED BY <1>1, <1>2, <2>1, <2>2, <2>3 DEF RunSound
<1> QED BY <1>1, <1>3, <1>4, OneWorker

-----------------------------------------------------------------------------
LEMMA InitInv == Init => Inv
<1> SUFFICES ASSUME Init PROVE Inv
  OBVIOUS
<1>1. ServiceTyped /\ \A p \in Proposal : effects[p] = 0
  BY DEF Init, Service!Init, ServiceTyped, Service!Answer
<1>2. ThreadsSound /\ thread \in [Proposal -> Snapshot]
  BY NoStateSound DEF Init, ThreadsSound
<1>3. ASSUME NEW w \in Worker PROVE run[w] \in Run /\ Fits(w) /\ RunSound(w)
  <2>1. /\ run[w].phase = "idle" /\ run[w].proposal \in Proposal /\ run[w].answer = "none"
        /\ run[w].state = NoState /\ run[w].unsaved = << >>
        /\ run[w] \in [phase: {"idle"}, proposal: Proposal, answer: {"none"},
                       state: {NoState}, unsaved: {<< >>}]
    BY DEF Init
  <2>2. run[w] \in Run
    <3>1. << >> \in Seq(Snapshot) /\ NoState \in Snapshot
      BY NoStateSound
    <3>2. \A u \in {<< >>}, n \in {NoState} : u \in Seq(Snapshot) /\ n \in Snapshot
      BY <3>1
    <3> QED BY <2>1, <3>2 DEF Run
  <2>3. Fits(w)
    BY <2>1, BehindAssumption DEF Fits
  <2>4. RunSound(w)
    BY <2>1, NoStateSound DEF RunSound
  <2> QED BY <2>2, <2>3, <2>4
<1>4. run \in [Worker -> Run]
  <2>1. run \in [Worker -> [phase: {"idle"}, proposal: Proposal, answer: {"none"},
                            state: {NoState}, unsaved: {<< >>}]]
    BY DEF Init
  <2> QED BY <1>3, <2>1
<1>5. ChangedByApproval
  BY <1>1 DEF ChangedByApproval
<1> QED BY <1>1, <1>2, <1>3, <1>4, <1>5 DEF Inv, TypeOK, ServiceTyped, Fits

(***************************************************************************)
(* A caller's answer is typed, and nothing else of the service moves.      *)
(***************************************************************************)
LEMMA Answered ==
  ASSUME TypeOK, NEW w \in Worker, Service!Forget(w) \/ Service!Tell(w)
  PROVE  /\ told' \in [Worker -> Service!Answer]
         /\ claimed' = claimed /\ effects' = effects
BY DEF TypeOK, Service!Forget, Service!Tell, Service!Answer

(***************************************************************************)
(* Start and Resume: the thread's own checkpoint, or the first node's.     *)
(***************************************************************************)
LEMMA InvokeKeeps ==
  ASSUME Inv, NEW w \in Worker, NEW p \in Proposal, NEW answer \in Decision \cup {"none"},
         NEW s \in Snapshot, s.next # "none", Sound(s, p),
         NEW unsaved \in {<< >>, <<s>>},
         Invoke(w, p, s, answer, unsaved),
         answers' \in [Proposal -> SUBSET Decision],
         \A q \in Proposal : answers[q] \subseteq answers'[q],
         answer # "none" => answer \in answers'[p]
  PROVE  Inv'
<1> DEFINE r == [phase |-> IF s.next = "end" THEN "returning" ELSE "node",
                 proposal |-> p, answer |-> answer, state |-> s, unsaved |-> unsaved]
<1>1. run' = [run EXCEPT ![w] = r] /\ recorded' = recorded /\ thread' = thread
  BY DEF Invoke
<1>2. /\ told' \in [Worker -> Service!Answer] /\ claimed' = claimed /\ effects' = effects
  BY Answered DEF Invoke, Inv
<1>3. /\ unsaved \in Seq(Snapshot) /\ Len(unsaved) <= MaxBehind
      /\ \A i \in 1 .. Len(unsaved) : unsaved[i] = s
  <2>1. CASE unsaved = << >>
    BY <2>1, BehindAssumption
  <2>2. CASE unsaved = <<s>>
    BY <2>2, BehindAssumption
  <2> QED BY <2>1, <2>2
<1>4. r \in Run
  BY <1>3 DEF Run
<1>5. /\ run' \in [Worker -> Run] /\ run'[w] = r
      /\ \A v \in Worker : v # w => run'[v] = run[v]
  BY <1>1, <1>4 DEF Inv, TypeOK
<1>6. Grows /\ ServiceTyped' /\ ChangedByApproval'
  BY <1>1, <1>2 DEF Grows, ServiceTyped, ChangedByApproval, Inv, TypeOK
<1>7. Fits(w)'
  BY <1>3, <1>5 DEF Fits, Snapshot
<1>8. RunSound(w)'
  <2>1. /\ run'[w].phase \in {"returning", "node"} /\ Subject(w)' = p /\ run'[w].answer = answer
        /\ run'[w].state = s /\ run'[w].unsaved = unsaved
    BY <1>5 DEF Subject
  <2>2. Sound(s, p)'
    BY <1>6, StaysSound DEF Sound
  <2> QED BY <1>3, <2>1, <2>2 DEF RunSound, Sound
<1> QED BY <1>1, <1>5, <1>6, <1>7, <1>8, OneWorker

LEMMA LeaveKeeps ==
  ASSUME Inv, NEW w \in Worker, Leave(w)
  PROVE  Inv'
<1> DEFINE r == [phase |-> "idle", proposal |-> Subject(w), answer |-> "none",
                 state |-> NoState, unsaved |-> << >>]
<1>1. run' = [run EXCEPT ![w] = r] /\ UNCHANGED <<recorded, answers, thread>>
  BY DEF Leave
<1>2. /\ told' \in [Worker -> Service!Answer] /\ claimed' = claimed /\ effects' = effects
  BY Answered DEF Leave, Inv
<1>3. r \in Run
  BY NoStateSound DEF Run, Inv, TypeOK, Subject
<1>4. /\ run' \in [Worker -> Run] /\ run'[w] = r
      /\ \A v \in Worker : v # w => run'[v] = run[v]
  BY <1>1, <1>3 DEF Inv, TypeOK
<1>5. Grows /\ ServiceTyped' /\ ChangedByApproval'
  BY <1>1, <1>2 DEF Grows, ServiceTyped, ChangedByApproval, Inv, TypeOK
<1>6. Fits(w)'
  BY <1>4, BehindAssumption DEF Fits
<1>7. RunSound(w)'
  BY <1>4 DEF RunSound, Sound, NoState, Watched
<1> QED BY <1>1, <1>4, <1>5, <1>6, <1>7, OneWorker

(***************************************************************************)
(* A run that keeps its checkpoints and moves on, or stops.                *)
(***************************************************************************)
LEMMA MoveKeeps ==
  ASSUME Inv, NEW w \in Worker, thread' = thread, Grows, ServiceTyped', ChangedByApproval',
         NEW ph \in {"execute", "changed", "returning"}, NEW st \in {run[w].state, NoState},
         run' = [run EXCEPT ![w] = [run[w] EXCEPT !.phase = ph, !.state = st]],
         ph \in {"execute", "changed"} =>
           Subject(w) \in recorded /\ "approve" \in answers[Subject(w)]
  PROVE  Inv'
<1> DEFINE r == [run[w] EXCEPT !.phase = ph, !.state = st]
<1>1. run[w] \in Run /\ RunSound(w) /\ Fits(w)
  BY DEF Inv, TypeOK, Fits
<1>2. r \in Run
  BY <1>1, NoStateSound DEF Run
<1>3. /\ run' \in [Worker -> Run] /\ run'[w] = r
      /\ \A v \in Worker : v # w => run'[v] = run[v]
  BY <1>2 DEF Inv, TypeOK
<1>4. /\ run'[w].phase = ph /\ run'[w].state = st /\ run'[w].proposal = run[w].proposal
      /\ run'[w].answer = run[w].answer /\ run'[w].unsaved = run[w].unsaved
      /\ run[w].proposal \in Proposal
  BY <1>1, <1>3 DEF Run
<1>5. Fits(w)'
  BY <1>1, <1>4 DEF Fits
<1>6. RunSound(w)'
  <2>1. Sound(st, Subject(w))
    BY <1>1, NoStateSound DEF RunSound
  <2>2. Sound(run[w].state, Subject(w))'
    BY <1>4, <2>1, StaysSound DEF Sound, Subject
  <2>3. ASSUME NEW i \in 1 .. Len(run[w].unsaved) PROVE Sound(run[w].unsaved[i], Subject(w))'
    <3>1. Sound(run[w].unsaved[i], Subject(w))
      BY <1>1 DEF RunSound
    <3> QED BY <1>4, <3>1, StaysSound DEF Sound, Subject
  <2> QED BY <1>1, <1>4, <2>2, <2>3 DEF RunSound, Grows, Subject
<1> QED BY <1>3, <1>5, <1>6, OneWorker

-----------------------------------------------------------------------------
LEMMA TellKeeps ==
  ASSUME Inv, NEW w \in Worker, At(w, "carry_out") \/ run[w].phase \in {"execute", "changed"},
         NEW outcome \in Service!Outcome, Tell(w, outcome),
         Subject(w) \in recorded, UNCHANGED <<recorded, answers, thread>>
  PROVE  Inv'
<1> DEFINE s == [run[w].state EXCEPT !.next = "check_recovery", !.outcome = outcome]
<1>1. run[w] \in Run /\ run[w].state \in Snapshot /\ RunSound(w) /\ Subject(w) \in Proposal
  BY DEF Inv, TypeOK, Run, Subject
<1>2. /\ s \in Snapshot /\ s.next = "check_recovery" /\ s.decision = run[w].state.decision
      /\ s.outcome = outcome /\ s.recovery = run[w].state.recovery
  BY <1>1 DEF Snapshot, Node
<1>3. Complete(w, s)
  BY DEF Tell
<1>4. told' \in [Worker -> Service!Answer] /\ claimed' = claimed /\ effects' = effects
  BY Answered DEF Tell, Inv
<1>5. outcome = "executed" => effects[Subject(w)] = 1
  <2>1. PICK a \in [proposal : Proposal, outcome : Service!Outcome] :
          /\ a.outcome \in {"executed", "already_executed"} => effects[a.proposal] = 1
          /\ told' = [told EXCEPT ![w] = a]
    BY DEF Tell, Service!Tell
  <2>2. told'[w] = a /\ told'[w] = [proposal |-> Subject(w), outcome |-> outcome]
    BY <2>1 DEF Tell, Inv, TypeOK
  <2>3. a.outcome = outcome /\ a.proposal = Subject(w)
    BY <2>2
  <2> QED BY <2>1, <2>3
<1>6. Grows /\ ServiceTyped' /\ ChangedByApproval'
  BY <1>4 DEF Grows, ServiceTyped, ChangedByApproval, Inv, TypeOK
<1>7. Sound(run[w].state, Subject(w))
  BY <1>1 DEF RunSound
<1> HIDE DEF s
<1>8. /\ s.decision # "none" => s.decision \in answers'[Subject(w)]
      /\ s.recovery \in Watched => effects'[Subject(w)] = 1
  BY <1>2, <1>4, <1>7 DEF Sound
<1>9. s.next \in Node \cup {"end"}
  BY <1>2 DEF Node
<1> QED BY <1>2, <1>3, <1>4, <1>5, <1>6, <1>8, <1>9, CompleteKeeps

LEMMA RecordProposalKeeps ==
  ASSUME Inv, NEW w \in Worker, RecordProposal(w)
  PROVE  Inv'
<1> DEFINE s == [run[w].state EXCEPT !.next = "await_approval"]
<1>1. run[w] \in Run /\ run[w].state \in Snapshot /\ RunSound(w) /\ Subject(w) \in Proposal
  BY DEF Inv, TypeOK, Run, Subject
<1>2. /\ s \in Snapshot /\ s.next = "await_approval" /\ s.decision = run[w].state.decision
      /\ s.outcome = run[w].state.outcome /\ s.recovery = run[w].state.recovery
  BY <1>1 DEF Snapshot, Node
<1>3. /\ Complete(w, s) /\ recorded' = recorded \cup {Subject(w)}
      /\ UNCHANGED <<claimed, effects, told, answers, thread>>
  BY DEF RecordProposal, service
<1>4. Grows /\ ServiceTyped' /\ ChangedByApproval'
  BY <1>1, <1>3 DEF Grows, ServiceTyped, ChangedByApproval, Inv, TypeOK
<1>5. Sound(run[w].state, Subject(w))
  BY <1>1 DEF RunSound
<1> HIDE DEF s
<1>6. /\ s.decision # "none" => s.decision \in answers'[Subject(w)]
      /\ s.outcome = "executed" => effects'[Subject(w)] = 1
      /\ s.recovery \in Watched => effects'[Subject(w)] = 1
  BY <1>2, <1>3, <1>5 DEF Sound
<1>7. s.next \in Node \cup {"end"} /\ Subject(w) \in recorded'
  BY <1>2, <1>3 DEF Node
<1> QED BY <1>2, <1>3, <1>4, <1>6, <1>7, CompleteKeeps

LEMMA AwaitApprovalKeeps ==
  ASSUME Inv, NEW w \in Worker, AwaitApproval(w)
  PROVE  Inv'
<1> DEFINE s == [run[w].state EXCEPT !.next = "carry_out", !.decision = run[w].answer]
<1>1. run[w] \in Run /\ run[w].state \in Snapshot /\ RunSound(w) /\ Subject(w) \in Proposal
  BY DEF Inv, TypeOK, Run, Subject
<1>2. UNCHANGED <<claimed, effects, told, recorded, answers, thread>>
  BY DEF AwaitApproval, service
<1>3. Grows /\ ServiceTyped' /\ ChangedByApproval'
  BY <1>2 DEF Grows, ServiceTyped, ChangedByApproval, Inv, TypeOK
<1>4. CASE run[w].answer = "none"
  <2>1. run' = [run EXCEPT ![w] = [run[w] EXCEPT !.phase = "returning", !.state = NoState]]
    BY <1>4 DEF AwaitApproval, Stopping
  <2> QED BY <1>2, <1>3, <2>1, MoveKeeps
<1>5. CASE run[w].answer # "none"
  <2>1. Complete(w, s)
    BY <1>5 DEF AwaitApproval
  <2>2. /\ s \in Snapshot /\ s.next = "carry_out" /\ s.decision = run[w].answer
        /\ s.outcome = run[w].state.outcome /\ s.recovery = run[w].state.recovery
    BY <1>1 DEF Snapshot, Node, Run
  <2>3. Sound(run[w].state, Subject(w)) /\ run[w].state.next = "await_approval"
    BY <1>1 DEF RunSound, AwaitApproval, At
  <2> HIDE DEF s
  <2>4. /\ Subject(w) \in recorded'
        /\ s.decision # "none" /\ s.decision \in answers'[Subject(w)]
        /\ s.outcome = "executed" => effects'[Subject(w)] = 1
        /\ s.recovery \in Watched => effects'[Subject(w)] = 1
    BY <1>1, <1>2, <1>5, <2>2, <2>3 DEF Sound, RunSound
  <2>5. s.next \in Node \cup {"end"}
    BY <2>2 DEF Node
  <2> QED BY <1>2, <1>3, <2>1, <2>2, <2>4, <2>5, CompleteKeeps
<1> QED BY <1>4, <1>5

LEMMA CheckRecoveryKeeps ==
  ASSUME Inv, NEW w \in Worker, CheckRecovery(w)
  PROVE  Inv'
<1>1. run[w] \in Run /\ run[w].state \in Snapshot /\ RunSound(w) /\ Subject(w) \in Proposal
  BY DEF Inv, TypeOK, Run, Subject
<1>2. UNCHANGED <<claimed, effects, told, recorded, answers, thread>>
  BY DEF CheckRecovery, service
<1>3. Grows /\ ServiceTyped' /\ ChangedByApproval'
  BY <1>2 DEF Grows, ServiceTyped, ChangedByApproval, Inv, TypeOK
<1>4. PICK r \in Recovery :
        /\ r \in Watched => run[w].state.outcome = "executed"
        /\ Complete(w, [run[w].state EXCEPT !.next = "end", !.recovery = r])
  <2>1. CASE run[w].state.outcome = "executed"
    BY <2>1 DEF CheckRecovery, Recovery
  <2>2. CASE run[w].state.outcome # "executed"
    BY <2>2 DEF CheckRecovery, Recovery, Watched
  <2> QED BY <2>1, <2>2
<1> DEFINE s == [run[w].state EXCEPT !.next = "end", !.recovery = r]
<1>5. /\ s \in Snapshot /\ s.next = "end" /\ s.decision = run[w].state.decision
      /\ s.outcome = run[w].state.outcome /\ s.recovery = r
  BY <1>1 DEF Snapshot
<1>6. Sound(run[w].state, Subject(w)) /\ run[w].state.next = "check_recovery"
  BY <1>1 DEF RunSound, CheckRecovery, At
<1>7. Complete(w, s)
  BY <1>4
<1> HIDE DEF s
<1>8. /\ Subject(w) \in recorded'
      /\ s.decision # "none" => s.decision \in answers'[Subject(w)]
      /\ s.outcome = "executed" => effects'[Subject(w)] = 1
      /\ s.recovery \in Watched => effects'[Subject(w)] = 1
  BY <1>2, <1>4, <1>5, <1>6 DEF Sound
<1> QED BY <1>2, <1>3, <1>5, <1>7, <1>8, CompleteKeeps

LEMMA ClaimKeeps ==
  ASSUME Inv, NEW w \in Worker, ClaimExecution(w)
  PROVE  Inv'
<1>1. run[w] \in Run /\ RunSound(w) /\ Subject(w) \in Proposal
  BY DEF Inv, TypeOK, Run, Subject
<1>2. /\ claimed' = claimed \cup {Subject(w)} /\ effects' = effects /\ told' = told
      /\ UNCHANGED <<recorded, answers, thread>>
  BY DEF ClaimExecution, Service!Claim
<1>3. Grows /\ ServiceTyped' /\ ChangedByApproval'
  BY <1>1, <1>2 DEF Grows, ServiceTyped, ChangedByApproval, Inv, TypeOK
<1>4. run[w].state.next = "carry_out" /\ run[w].state.decision # "reject"
  BY DEF ClaimExecution, Approving, At
<1>5. Subject(w) \in recorded /\ "approve" \in answers[Subject(w)]
  <2>1. Sound(run[w].state, Subject(w))
    BY <1>1 DEF RunSound
  <2>2. run[w].state.decision # "none" /\ run[w].state.decision \in answers[Subject(w)]
    BY <1>4, <2>1 DEF Sound
  <2>3. answers[Subject(w)] \subseteq Decision
    BY <1>1 DEF Inv, TypeOK
  <2> QED BY <1>4, <2>1, <2>2, <2>3 DEF Sound, Decision
<1>6. run' = [run EXCEPT ![w] = [run[w] EXCEPT !.phase = "execute", !.state = run[w].state]]
  <2>1. run' = [run EXCEPT ![w] = [run[w] EXCEPT !.phase = "execute"]]
    BY DEF ClaimExecution, Inv, TypeOK
  <2>2. [run[w] EXCEPT !.phase = "execute"]
          = [run[w] EXCEPT !.phase = "execute", !.state = run[w].state]
    BY <1>1 DEF Run
  <2> QED BY <2>1, <2>2
<1> QED BY <1>2, <1>3, <1>5, <1>6, MoveKeeps

LEMMA ChangeKeeps ==
  ASSUME Inv, NEW w \in Worker, ChangeTarget(w)
  PROVE  Inv'
<1>1. run[w] \in Run /\ RunSound(w) /\ Subject(w) \in Proposal
  BY DEF Inv, TypeOK, Run, Subject
<1>2. Subject(w) \in recorded /\ "approve" \in answers[Subject(w)]
  BY <1>1 DEF RunSound, ChangeTarget
<1>3. /\ claimed' = claimed /\ effects' = [effects EXCEPT ![Subject(w)] = 1] /\ told' = told
      /\ UNCHANGED <<recorded, answers, thread>>
  BY <1>1 DEF ChangeTarget, Service!Change, Inv, TypeOK
<1>4. Grows /\ ServiceTyped' /\ ChangedByApproval'
  BY <1>1, <1>2, <1>3 DEF Grows, ServiceTyped, ChangedByApproval, Inv, TypeOK
<1>5. run' = [run EXCEPT ![w] = [run[w] EXCEPT !.phase = "changed", !.state = run[w].state]]
  <2>1. run' = [run EXCEPT ![w] = [run[w] EXCEPT !.phase = "changed"]]
    BY DEF ChangeTarget, Inv, TypeOK
  <2>2. [run[w] EXCEPT !.phase = "changed"]
          = [run[w] EXCEPT !.phase = "changed", !.state = run[w].state]
    BY <1>1 DEF Run
  <2> QED BY <2>1, <2>2
<1> QED BY <1>2, <1>3, <1>4, <1>5, MoveKeeps

LEMMA CarryOutKeeps ==
  ASSUME Inv, NEW w \in Worker, CarryOut(w)
  PROVE  Inv'
<1>1. RunSound(w) /\ Sound(run[w].state, Subject(w))
  BY DEF Inv, RunSound
<1>2. At(w, "carry_out") => Subject(w) \in recorded
  BY <1>1 DEF Sound, At
<1>3. CASE Rejected(w)
  <2>1. At(w, "carry_out") /\ Tell(w, "rejected") /\ UNCHANGED <<recorded, answers, thread>>
    BY <1>3 DEF Rejected
  <2>2. "rejected" \in Service!Outcome
    BY DEF Service!Outcome
  <2> QED BY <1>2, <2>1, <2>2, TellKeeps
<1>4. CASE NotExecuted(w)
  <2>1. At(w, "carry_out") /\ UNCHANGED <<recorded, answers, thread>>
    BY <1>4 DEF NotExecuted, Approving
  <2>2. PICK o \in {"recorded_only", "already_executed", "execution_uncertain"} : Tell(w, o)
    BY <1>4 DEF NotExecuted
  <2>3. o \in Service!Outcome
    BY DEF Service!Outcome
  <2> QED BY <1>2, <2>1, <2>2, <2>3, TellKeeps
<1>5. CASE Executed(w)
  <2>1. run[w].phase \in {"execute", "changed"} /\ UNCHANGED <<recorded, answers, thread>>
    BY <1>5 DEF Executed
  <2>2. PICK o \in {"failed", "executed"} : Tell(w, o)
    BY <1>5 DEF Executed
  <2>3. o \in Service!Outcome
    BY DEF Service!Outcome
  <2>4. Subject(w) \in recorded
    BY <1>1, <2>1 DEF RunSound
  <2> QED BY <2>1, <2>2, <2>3, <2>4, TellKeeps
<1> QED BY <1>3, <1>4, <1>5, ClaimKeeps, ChangeKeeps DEF CarryOut

(***************************************************************************)
(* The oldest checkpoint under way becomes the thread's, and is sound.     *)
(***************************************************************************)
LEMMA SaveKeeps ==
  ASSUME Inv, NEW w \in Worker, Save(w)
  PROVE  Inv'
<1> DEFINE u == run[w].unsaved
           p == Subject(w)
<1>1. run[w] \in Run /\ RunSound(w) /\ Fits(w) /\ p \in Proposal /\ u \in Seq(Snapshot) /\ u # << >>
  BY DEF Inv, TypeOK, Run, Subject, Fits, Save
<1>2. /\ thread' = [thread EXCEPT ![p] = Head(u)]
      /\ run' = [run EXCEPT ![w] = [run[w] EXCEPT !.unsaved = Tail(u)]]
      /\ UNCHANGED <<claimed, effects, told, recorded, answers>>
  BY DEF Save, service, Inv, TypeOK
<1>3. /\ Head(u) \in Snapshot /\ Tail(u) \in Seq(Snapshot) /\ Len(u) \in Nat \ {0}
      /\ Head(u) = u[1] /\ Len(Tail(u)) = Len(u) - 1
      /\ \A i \in 1 .. Len(Tail(u)) : Tail(u)[i] = u[i + 1]
  <2>1. Len(u) \in Nat \ {0}
    BY <1>1, EmptySeq
  <2> QED BY <1>1, <2>1, HeadTailProperties
<1>4. Sound(Head(u), p)
  BY <1>1, <1>3 DEF RunSound
<1>5. ASSUME NEW s, NEW q, Sound(s, q)
      PROVE  /\ s.next \in {"await_approval", "carry_out", "check_recovery", "end"} => q \in recorded'
             /\ s.decision # "none" => s.decision \in answers'[q]
             /\ s.next = "carry_out" => s.decision # "none"
             /\ s.outcome = "executed" => effects'[q] = 1
             /\ s.recovery \in Watched => effects'[q] = 1
  BY <1>2, <1>5 DEF Sound
<1>6. ThreadsSound'
  BY <1>1, <1>2, <1>4 DEF ThreadsSound, Sound, Inv, TypeOK
<1>7. /\ run' \in [Worker -> Run] /\ \A v \in Worker : v # w => run'[v] = run[v]
      /\ run'[w] = [run[w] EXCEPT !.unsaved = Tail(u)]
  <2>1. [run[w] EXCEPT !.unsaved = Tail(u)] \in Run
    BY <1>1, <1>3 DEF Run
  <2> QED BY <1>2, <2>1 DEF Inv, TypeOK
<1>8. /\ run'[w].phase = run[w].phase /\ run'[w].state = run[w].state
      /\ run'[w].proposal = run[w].proposal /\ run'[w].answer = run[w].answer
      /\ run'[w].unsaved = Tail(u)
  BY <1>1, <1>7 DEF Run
<1>9. Fits(w)'
  <2>1. Len(u) <= MaxBehind /\ MaxBehind \in Nat
    BY <1>1, BehindAssumption DEF Fits
  <2>2. Len(run'[w].unsaved) <= MaxBehind
    BY <1>3, <1>8, <2>1
  <2> QED BY <1>1, <1>8, <2>2 DEF Fits
<1>10. RunSound(w)'
  <2>1. ASSUME NEW i \in 1 .. Len(run'[w].unsaved) PROVE Sound(run'[w].unsaved[i], p)
    <3>1. i \in 1 .. Len(Tail(u)) /\ i + 1 \in 1 .. Len(u)
      BY <1>3, <1>8, <2>1
    <3>2. run'[w].unsaved[i] = u[i + 1]
      BY <1>3, <1>8, <3>1
    <3> QED BY <1>1, <3>1, <3>2 DEF RunSound
  <2>2. Sound(run[w].state, p)
    BY <1>1 DEF RunSound
  <2> QED BY <1>1, <1>2, <1>8, <2>1, <2>2 DEF RunSound, Sound, Subject
<1>11. ASSUME NEW v \in Worker PROVE RunSound(v)' /\ Fits(v)'
  <2>1. CASE v = w
    BY <1>9, <1>10, <2>1
  <2>2. CASE v # w
    <3>1. run'[v] = run[v] /\ RunSound(v) /\ Fits(v)
      BY <1>7, <2>2 DEF Inv, TypeOK, Fits
    <3>2. Subject(v)' = Subject(v) /\ Fits(v)'
      BY <3>1 DEF Subject, Fits
    <3>3. Sound(run[v].state, Subject(v))'
      <4>1. Sound(run[v].state, Subject(v))
        BY <3>1 DEF RunSound
      <4> QED BY <1>5, <3>1, <3>2, <4>1 DEF Sound
    <3>4. ASSUME NEW i \in 1 .. Len(run[v].unsaved) PROVE Sound(run[v].unsaved[i], Subject(v))'
      <4>1. Sound(run[v].unsaved[i], Subject(v))
        BY <3>1, <3>4 DEF RunSound
      <4> QED BY <1>5, <3>1, <3>2, <4>1 DEF Sound
    <3> QED BY <1>2, <3>1, <3>2, <3>3, <3>4 DEF RunSound
  <2> QED BY <2>1, <2>2
<1>12. TypeOK'
  <2>1. thread' \in [Proposal -> Snapshot]
    BY <1>1, <1>2, <1>3 DEF Inv, TypeOK
  <2>2. ServiceTyped'
    BY <1>2 DEF ServiceTyped, Inv, TypeOK
  <2> QED BY <1>7, <1>11, <2>1, <2>2 DEF TypeOK, ServiceTyped, Fits
<1>13. ChangedByApproval'
  BY <1>2 DEF ChangedByApproval, Inv
<1> QED BY <1>6, <1>11, <1>12, <1>13 DEF Inv

LEMMA StartKeeps ==
  ASSUME Inv, NEW w \in Worker, NEW p \in Proposal, Start(w, p)
  PROVE  Inv'
<1> DEFINE s == [thread[p] EXCEPT !.next = "record_proposal"]
<1>1. thread[p] \in Snapshot /\ Sound(thread[p], p)
  BY DEF Inv, TypeOK, ThreadsSound
<1>2. /\ s \in Snapshot /\ s.next = "record_proposal" /\ s.decision = thread[p].decision
      /\ s.outcome = thread[p].outcome /\ s.recovery = thread[p].recovery
  BY <1>1 DEF Snapshot, Node
<1>3. Invoke(w, p, s, "none", <<s>>) /\ answers' = answers
  BY DEF Start
<1> HIDE DEF s
<1>4. Sound(s, p) /\ s.next # "none"
  BY <1>1, <1>2 DEF Sound
<1>5. "none" \in Decision \cup {"none"} /\ answers \in [Proposal -> SUBSET Decision]
  BY DEF Inv, TypeOK
<1>6. \A unsaved \in {<< >>, <<s>>} :
        Invoke(w, p, s, "none", unsaved) => Inv'
  <2> SUFFICES ASSUME NEW unsaved \in {<< >>, <<s>>}, Invoke(w, p, s, "none", unsaved)
               PROVE  Inv'
    OBVIOUS
  <2> QED BY <1>2, <1>3, <1>4, <1>5, InvokeKeeps
<1> QED BY <1>3, <1>6

LEMMA ResumeKeeps ==
  ASSUME Inv, NEW w \in Worker, NEW p \in Proposal, NEW d \in Decision, Resume(w, p, d)
  PROVE  Inv'
<1>1. /\ thread[p] \in Snapshot /\ Sound(thread[p], p) /\ thread[p].next # "none"
      /\ Invoke(w, p, thread[p], d, << >>)
      /\ answers' = [answers EXCEPT ![p] = @ \cup {d}]
  BY DEF Inv, TypeOK, ThreadsSound, Resume
<1>2. /\ answers' \in [Proposal -> SUBSET Decision]
      /\ \A q \in Proposal : answers[q] \subseteq answers'[q]
      /\ d \in answers'[p] /\ d \in Decision \cup {"none"}
  BY <1>1 DEF Inv, TypeOK
<1> QED BY <1>1, <1>2, InvokeKeeps

LEMMA NodeRaisesKeeps ==
  ASSUME Inv, NEW w \in Worker, NodeRaises(w)
  PROVE  Inv'
<1>1. UNCHANGED <<claimed, effects, told, recorded, answers, thread>>
  BY DEF NodeRaises, service
<1>2. Grows /\ ServiceTyped' /\ ChangedByApproval'
  BY <1>1 DEF Grows, ServiceTyped, ChangedByApproval, Inv, TypeOK
<1>3. run' = [run EXCEPT ![w] = [run[w] EXCEPT !.phase = "returning", !.state = NoState]]
  BY DEF NodeRaises, Stopping
<1> QED BY <1>1, <1>2, <1>3, MoveKeeps

-----------------------------------------------------------------------------
LEMMA InvStep == Inv /\ [Next]_vars => Inv'
<1> SUFFICES ASSUME Inv, [Next]_vars PROVE Inv'
  OBVIOUS
<1>1. CASE Next
  <2> SUFFICES ASSUME NEW w \in Worker,
                      \/ \E p \in Proposal : Start(w, p) \/ \E d \in Decision : Resume(w, p, d)
                      \/ Working(w)
                      \/ NodeRaises(w) \/ Crash(w)
               PROVE  Inv'
    BY <1>1 DEF Next
  <2>1. CASE \E p \in Proposal : Start(w, p)
    BY <2>1, StartKeeps
  <2>2. CASE \E p \in Proposal, d \in Decision : Resume(w, p, d)
    BY <2>2, ResumeKeeps
  <2>3. CASE RecordProposal(w)
    BY <2>3, RecordProposalKeeps
  <2>4. CASE AwaitApproval(w)
    BY <2>4, AwaitApprovalKeeps
  <2>5. CASE CarryOut(w)
    BY <2>5, CarryOutKeeps
  <2>6. CASE CheckRecovery(w)
    BY <2>6, CheckRecoveryKeeps
  <2>7. CASE Save(w)
    BY <2>7, SaveKeeps
  <2>8. CASE Return(w) \/ Crash(w)
    BY <2>8, LeaveKeeps DEF Return, Crash
  <2>9. CASE NodeRaises(w)
    BY <2>9, NodeRaisesKeeps
  <2> QED BY <2>1, <2>2, <2>3, <2>4, <2>5, <2>6, <2>7, <2>8, <2>9 DEF Working, RunNode
<1>2. CASE UNCHANGED vars
  BY <1>2 DEF vars, Inv, TypeOK, ThreadsSound, RunSound, Sound, Subject, ChangedByApproval
<1> QED BY <1>1, <1>2

LEMMA InvHolds == Spec => []Inv
BY InitInv, InvStep, PTL DEF Spec

(***************************************************************************)
(* The workflow's variables keep their types: no more checkpoints than the *)
(* bound are under way, and a worker at a node is at one of the four       *)
(* (the graph of workflow.py:124-137).                                     *)
(***************************************************************************)
THEOREM WorkflowTypes == Spec => []TypeOK
<1>1. Inv => TypeOK
  BY DEF Inv
<1> QED BY <1>1, InvHolds, PTL

(***************************************************************************)
(* carry_out (workflow.py:180-188) approves whatever is not a reject, and  *)
(* still the target only changes for a recorded proposal that a person     *)
(* approved.                                                               *)
(***************************************************************************)
THEOREM OnlyApprovedChanges == Spec => []ChangedByApproval
<1>1. Inv => ChangedByApproval
  BY DEF Inv
<1> QED BY <1>1, InvHolds, PTL

(***************************************************************************)
(* A verdict of the watch in a checkpoint, however old the channel that    *)
(* check_recovery (workflow.py:190-224) read, is about a changed target.   *)
(***************************************************************************)
THEOREM CreditIsAlwaysDue == Spec => []CreditIsDue
<1>1. Inv => CreditIsDue
  BY DEF Inv, ThreadsSound, Sound, CreditIsDue
<1> QED BY <1>1, InvHolds, PTL

-----------------------------------------------------------------------------
Last == Len(samples)

(***************************************************************************)
(* The last samples, as many as the loop counts and no more, are within    *)
(* tolerance, and all samples are a sleep apart.                           *)
(***************************************************************************)
Counted ==
  /\ inside <= Last
  /\ \A i \in 1 .. Last : i > Last - inside => samples[i].side = "within"
  /\ inside < Last => samples[Last - inside].side = "above"
  /\ \A i \in 1 .. Last - 1 : samples[i + 1].at >= samples[i].at + Poll

(***************************************************************************)
(* The next sample is taken a sleep after the last one.                    *)
(***************************************************************************)
Spaced ==
  Last > 0 =>
    /\ samples[Last].at <= now
    /\ step = "sample" => now >= samples[Last].at + Poll
    /\ step = "sleep" => wake >= samples[Last].at + Poll

Concluded ==
  /\ step = "done" <=> verdict # "none"
  /\ verdict = "recovered" <=> inside = Consecutive

OnSamples ==
  /\ verdict = "not_recovered" => samples # << >> /\ now >= Window
  /\ verdict = "unknown" => samples = << >>

WatchInv == WatchTypeOK /\ Counted /\ Spaced /\ Concluded /\ OnSamples

LEMMA WatchInitInv == WatchInit => WatchInv
  BY WatchAssumption
  DEF WatchInit, WatchInv, WatchTypeOK, Counted, Spaced, Concluded, OnSamples, Last, Signal, Side,
      Verdict, Sample

LEMMA SamplesTyped ==
  ASSUME WatchTypeOK
  PROVE  Last \in Nat /\ \A i \in 1 .. Last : samples[i] \in Sample /\ samples[i].at \in Nat
<1>1. samples \in Seq(Sample) /\ Last = Len(samples)
  BY DEF WatchTypeOK, Last
<1>2. Last \in Nat /\ \A i \in 1 .. Last : samples[i] \in Sample
  BY <1>1
<1> QED BY <1>2 DEF Sample

(***************************************************************************)
(* What a sample that was read does to the samples kept.                   *)
(***************************************************************************)
LEMMA LatestKeepsCount ==
  ASSUME WatchTypeOK, Counted, Spaced, step = "sample", inside < Consecutive,
         NEW side \in Side, NEW kept, kept = Latest(Append(samples, [side |-> side, at |-> now]))
  PROVE  /\ kept \in Seq(Sample) /\ Len(kept) \in 1 .. Consecutive
         /\ Len(kept) >= inside + 1 \/ Len(kept) = Consecutive
         /\ kept[Len(kept)] = [side |-> side, at |-> now]
         /\ \A i \in 1 .. Len(kept) - 1 :
              /\ kept[i + 1].at >= kept[i].at + Poll
              /\ i > Len(kept) - 1 - inside => kept[i].side = "within"
         /\ Len(kept) > inside + 1 => kept[Len(kept) - 1 - inside].side = "above"
<1> DEFINE new  == [side |-> side, at |-> now]
           more == Append(samples, new)
<1>1. new \in Sample /\ new.at = now
  BY DEF WatchTypeOK, Sample
<1>2. /\ samples \in Seq(Sample) /\ Last \in Nat /\ Last <= Consecutive
      /\ inside \in Nat /\ Consecutive \in Nat \ {0} /\ Poll \in Nat /\ now \in Nat
  BY WatchAssumption DEF WatchTypeOK, Last
<1> HIDE DEF new
<1>3. /\ more \in Seq(Sample) /\ Len(more) = Last + 1 /\ more[Last + 1] = new
      /\ \A i \in 1 .. Last : more[i] = samples[i]
  BY <1>1, <1>2 DEF Last
<1> HIDE DEF more
<1>4. ASSUME NEW i \in 1 .. Last
      PROVE  more[i + 1].at >= more[i].at + Poll
  <2>0. more[i] = samples[i]
    BY <1>3
  <2>1. CASE i = Last
    <3>1. Last > 0
      BY <1>2, <2>1
    <3>2. now >= samples[Last].at + Poll
      BY <1>4, <3>1 DEF Spaced
    <3> QED BY <1>1, <1>3, <2>0, <2>1, <3>2
  <2>2. CASE i < Last
    <3>1. i \in 1 .. Last - 1 /\ i + 1 \in 1 .. Last
      BY <1>2, <2>2
    <3>2. samples[i + 1].at >= samples[i].at + Poll
      BY <1>4, <3>1 DEF Counted
    <3>3. more[i + 1] = samples[i + 1]
      BY <1>3, <3>1
    <3> QED BY <2>0, <3>2, <3>3
  <2> QED BY <1>2, <2>1, <2>2
<1>5. \A i \in 1 .. Last : i > Last - inside => more[i].side = "within"
  BY <1>3 DEF Counted
<1>6. inside <= Last /\ (inside < Last => samples[Last - inside].side = "above")
  BY DEF Counted
<1>7. kept = IF Last + 1 > Consecutive THEN Tail(more) ELSE more
  BY <1>3 DEF Latest, more, new
<1>8. CASE Last + 1 <= Consecutive
  <2>1. kept = more
    BY <1>2, <1>7, <1>8
  <2>2. Len(kept) = Last + 1 /\ kept[Len(kept)] = new
    BY <1>3, <2>1
  <2>3. ASSUME NEW i \in 1 .. Len(kept) - 1
        PROVE  /\ kept[i + 1].at >= kept[i].at + Poll
               /\ i > Len(kept) - 1 - inside => kept[i].side = "within"
    <3>1. i \in 1 .. Last
      BY <1>2, <2>2
    <3> QED BY <1>2, <1>4, <1>5, <2>1, <2>2, <3>1
  <2>4. kept \in Seq(Sample) /\ Len(kept) \in 1 .. Consecutive /\ Len(kept) >= inside + 1
    BY <1>2, <1>3, <1>6, <1>8, <2>1, <2>2
  <2>5. ASSUME Len(kept) > inside + 1
        PROVE  kept[Len(kept) - 1 - inside].side = "above"
    <3>1. Last - inside \in 1 .. Last /\ Len(kept) - 1 - inside = Last - inside
      BY <1>2, <2>2, <2>5
    <3> QED BY <1>2, <1>3, <1>6, <2>1, <2>2, <2>5, <3>1
  <2> QED BY <2>2, <2>3, <2>4, <2>5 DEF new
<1>9. CASE Last + 1 > Consecutive
  <2>1. Last = Consecutive /\ kept = Tail(more)
    BY <1>2, <1>7, <1>9
  <2>2. /\ kept \in Seq(Sample) /\ Len(kept) = Last
        /\ \A i \in 1 .. Last : kept[i] = more[i + 1]
    <3>1. more # << >>
      BY <1>2, <1>3
    <3>2. Tail(more) \in Seq(Sample) /\ Len(Tail(more)) = Len(more) - 1
      BY <1>3, <3>1
    <3>3. \A i \in 1 .. Len(more) - 1 : Tail(more)[i] = more[i + 1]
      BY <1>3, <3>1
    <3>4. Len(more) - 1 = Last
      BY <1>2, <1>3
    <3>5. Len(Tail(more)) = Last /\ \A i \in 1 .. Last : Tail(more)[i] = more[i + 1]
      BY <3>2, <3>3, <3>4
    <3> QED BY <2>1, <3>2, <3>5
  <2>3. kept[Last] = new
    BY <1>2, <1>3, <2>1, <2>2
  <2>4. ASSUME NEW i \in 1 .. Last - 1
        PROVE  /\ kept[i + 1].at >= kept[i].at + Poll
               /\ i > Last - 1 - inside => kept[i].side = "within"
    <3>1. i + 1 \in 1 .. Last /\ i \in 1 .. Last
      BY <1>2
    <3>2. kept[i] = more[i + 1] /\ kept[i + 1] = more[i + 1 + 1]
      BY <2>2, <3>1, <1>2
    <3>3. more[i + 1 + 1].at >= more[i + 1].at + Poll
      BY <1>4, <3>1
    <3>4. i + 1 > Last - inside => more[i + 1].side = "within"
      BY <1>5, <3>1
    <3> QED BY <1>2, <3>1, <3>2, <3>3, <3>4
  <2>5. ASSUME Last > inside + 1
        PROVE  kept[Last - 1 - inside].side = "above"
    <3>1. Last - 1 - inside \in 1 .. Last /\ (Last - 1 - inside) + 1 = Last - inside
      BY <1>2, <2>5
    <3>2. kept[Last - 1 - inside] = more[Last - inside]
      BY <2>2, <3>1
    <3>3. Last - inside \in 1 .. Last /\ more[Last - inside] = samples[Last - inside]
      BY <1>2, <1>3, <2>5
    <3> QED BY <1>2, <1>6, <2>5, <3>2, <3>3
  <2> QED BY <1>2, <2>1, <2>2, <2>3, <2>4, <2>5 DEF new
<1>10. Last + 1 <= Consecutive \/ Last + 1 > Consecutive
  BY <1>2
<1> QED BY <1>8, <1>9, <1>10

LEMMA SampleInv == WatchInv /\ TakeSample => WatchInv'
<1> SUFFICES ASSUME WatchInv, TakeSample PROVE WatchInv'
  OBVIOUS
<1>0. /\ WatchTypeOK /\ Counted /\ Spaced /\ Concluded /\ inside < Consecutive /\ verdict = "none"
      /\ step = "sample" /\ inside \in Nat /\ Consecutive \in Nat \ {0} /\ Poll \in Nat
  BY WatchAssumption DEF WatchInv, WatchTypeOK, Concluded, TakeSample
<1>u. UNCHANGED <<now, signal, wake>>
  BY DEF TakeSample
<1>s. IF inside' >= Consecutive THEN step' = "done" /\ verdict' = "recovered"
                                ELSE step' = "clock" /\ verdict' = verdict
  BY DEF TakeSample, Conclude
<1>1. CASE signal = "unreadable"
  <2>1. UNCHANGED <<inside, samples>> /\ step' = "clock" /\ verdict' = "none"
    BY <1>0, <1>1, <1>s DEF TakeSample
  <2> QED BY <1>0, <1>u, <2>1
          DEF WatchInv, WatchTypeOK, Counted, Spaced, Concluded, OnSamples, Last
<1>2. CASE signal # "unreadable"
  <2>1. /\ signal \in Side
        /\ samples' = Latest(Append(samples, [side |-> signal, at |-> now]))
        /\ inside' = IF signal = "within" THEN inside + 1 ELSE 0
    BY <1>0, <1>2 DEF TakeSample, WatchTypeOK, Signal
  <2>2. /\ samples' \in Seq(Sample) /\ Len(samples') \in 1 .. Consecutive
        /\ Len(samples') >= inside + 1 \/ Len(samples') = Consecutive
        /\ samples'[Len(samples')] = [side |-> signal, at |-> now]
        /\ \A i \in 1 .. Len(samples') - 1 :
             /\ samples'[i + 1].at >= samples'[i].at + Poll
             /\ i > Len(samples') - 1 - inside => samples'[i].side = "within"
        /\ Len(samples') > inside + 1 => samples'[Len(samples') - 1 - inside].side = "above"
    BY <1>0, <2>1, LatestKeepsCount
  <2>3. samples'[Len(samples')].side = signal /\ samples'[Len(samples')].at = now
    BY <2>2
  <2>4. inside' \in 0 .. Consecutive /\ inside' <= Len(samples')
    BY <1>0, <2>1, <2>2
  <2>5. WatchTypeOK'
    BY <1>0, <1>u, <1>s, <2>2, <2>4 DEF WatchTypeOK, Verdict
  <2>6. Counted'
    <3>1. ASSUME NEW i \in 1 .. Len(samples'), i > Len(samples') - inside'
          PROVE  samples'[i].side = "within"
      <4>1. signal = "within" /\ inside' = inside + 1
        BY <1>0, <2>1, <2>2, <3>1
      <4>2. CASE i = Len(samples')
        BY <2>3, <4>1, <4>2
      <4>3. CASE i < Len(samples')
        <5>1. i \in 1 .. Len(samples') - 1 /\ i > Len(samples') - 1 - inside
          BY <1>0, <2>2, <3>1, <4>1, <4>3
        <5> QED BY <2>2, <5>1
      <4> QED BY <2>2, <4>2, <4>3
    <3>2. ASSUME inside' < Len(samples') PROVE samples'[Len(samples') - inside'].side = "above"
      <4>1. CASE signal = "within"
        <5>1. Len(samples') > inside + 1 /\ Len(samples') - inside' = Len(samples') - 1 - inside
          BY <1>0, <2>1, <2>2, <3>2, <4>1
        <5> QED BY <2>2, <5>1
      <4>2. CASE signal = "above"
        <5>1. Len(samples') - inside' = Len(samples')
          BY <2>1, <2>2, <4>2
        <5> QED BY <2>3, <4>2, <5>1
      <4> QED BY <2>1, <4>1, <4>2 DEF Side
    <3> QED BY <2>2, <2>4, <3>1, <3>2 DEF Counted, Last
  <2>7. Spaced'
    BY <1>0, <1>u, <1>s, <2>2, <2>3 DEF Spaced, Last, WatchTypeOK
  <2>8. Concluded'
    BY <1>0, <1>s, <2>4 DEF Concluded
  <2>9. OnSamples'
    BY <1>0, <1>s DEF OnSamples
  <2> QED BY <2>5, <2>6, <2>7, <2>8, <2>9 DEF WatchInv
<1> QED BY <1>1, <1>2

LEMMA ClockInv == WatchInv /\ CheckClock => WatchInv'
<1> SUFFICES ASSUME WatchInv, CheckClock PROVE WatchInv'
  OBVIOUS
<1>0. /\ WatchTypeOK /\ Counted /\ Spaced /\ Concluded /\ verdict = "none" /\ step = "clock"
      /\ Poll \in Nat /\ Poll \in Nat
  BY WatchAssumption DEF WatchInv, Concluded, CheckClock
<1>u. UNCHANGED <<now, signal, inside, samples>>
  BY DEF CheckClock
<1>1. \/ /\ step' = "done" /\ wake' = wake
         /\ \/ verdict' = "unknown" /\ samples = << >>
            \/ verdict' = "not_recovered" /\ samples # << >> /\ now >= Window
      \/ step' = "sleep" /\ wake' = now + Poll /\ verdict' = verdict
  BY DEF CheckClock, Conclude
<1>2. WatchTypeOK'
  BY <1>0, <1>u, <1>1 DEF WatchTypeOK, Verdict
<1>3. Counted'
  BY <1>0, <1>u DEF Counted, Last
<1>4. Spaced'
  <2>1. Last > 0 => samples[Last].at \in Nat
    BY <1>0, SamplesTyped
  <2> QED BY <1>0, <1>u, <1>1, <2>1 DEF Spaced, Last, WatchTypeOK
<1>5. Concluded'
  BY <1>0, <1>u, <1>1 DEF Concluded
<1>6. OnSamples'
  BY <1>0, <1>u, <1>1 DEF OnSamples
<1> QED BY <1>2, <1>3, <1>4, <1>5, <1>6 DEF WatchInv

LEMMA WakeInv == WatchInv /\ Wake => WatchInv'
<1> SUFFICES ASSUME WatchInv, Wake PROVE WatchInv'
  OBVIOUS
<1>1. Last > 0 => samples[Last].at \in Nat
  BY SamplesTyped DEF WatchInv
<1> QED BY <1>1, WatchAssumption
        DEF WatchInv, Wake, WatchTypeOK, Counted, Spaced, Concluded, OnSamples, Last

LEMMA PassingInv == WatchInv /\ Passing => WatchInv'
<1> SUFFICES ASSUME WatchInv, Passing PROVE WatchInv'
  OBVIOUS
<1>1. Last > 0 => samples[Last].at \in Nat
  BY SamplesTyped DEF WatchInv
<1> QED BY <1>1, WatchAssumption
        DEF WatchInv, Passing, WatchTypeOK, Counted, Spaced, Concluded, OnSamples, Last

LEMMA WatchStutterInv == WatchInv /\ UNCHANGED watchVars => WatchInv'
  BY DEF WatchInv, watchVars, WatchTypeOK, Counted, Spaced, Concluded, OnSamples, Last

(***************************************************************************)
(* The invariant holds throughout.                                         *)
(***************************************************************************)
THEOREM WatchInvariant == WatchSpec => []WatchInv
<1>1. WatchInv /\ [WatchNext]_watchVars => WatchInv'
  BY SampleInv, ClockInv, WakeInv, PassingInv, WatchStutterInv DEF WatchNext, Watch
<1> QED BY WatchInitInv, <1>1, PTL DEF WatchSpec

(***************************************************************************)
(* The state of the watch is well typed.                                   *)
(***************************************************************************)
THEOREM WatchTypes == WatchSpec => []WatchTypeOK
<1>1. WatchInv => WatchTypeOK
  BY DEF WatchInv
<1> QED BY <1>1, WatchInvariant, PTL

(***************************************************************************)
(* A recovery rests on enough samples in a row, and is said as soon as it  *)
(* does, however short the sleep and whatever reads fail between them.     *)
(***************************************************************************)
THEOREM RecoveryIsSettled == WatchSpec => [](verdict = "recovered" <=> Settled)
<1>1. WatchInv => (verdict = "recovered" <=> Settled)
  <2> SUFFICES ASSUME WatchInv PROVE verdict = "recovered" <=> Settled
    OBVIOUS
  <2>1. /\ Last \in Nat /\ Last <= Consecutive /\ inside \in Nat /\ inside <= Last
        /\ Consecutive \in Nat \ {0} /\ Last = Len(samples)
    BY WatchAssumption DEF WatchInv, WatchTypeOK, Counted, Last
  <2>2. CASE verdict = "recovered"
    <3>1. inside = Consecutive /\ Last = Consecutive
      BY <2>1, <2>2 DEF WatchInv, Concluded
    <3> QED BY <2>1, <2>2, <3>1 DEF WatchInv, Counted, Settled
  <2>3. CASE verdict # "recovered" /\ Settled
    <3>1. inside < Last /\ Last = Consecutive
      BY <2>1, <2>3 DEF WatchInv, WatchTypeOK, Concluded, Settled
    <3>2. Last - inside \in 1 .. Consecutive /\ samples[Last - inside].side = "above"
      BY <2>1, <3>1 DEF WatchInv, Counted
    <3> QED BY <2>3, <3>2 DEF Settled
  <2> QED BY <2>2, <2>3
<1> QED BY <1>1, WatchInvariant, PTL

(***************************************************************************)
(* Each of the three outcomes of the watch rests on the samples it is said *)
(* of (recovery.py), for any window, sleep and count.                      *)
(***************************************************************************)
THEOREM VerdictsAreEarned == WatchSpec => []VerdictIsEarned
<1>1. WatchInv /\ (verdict = "recovered" <=> Settled) => VerdictIsEarned
  BY DEF WatchInv, OnSamples, VerdictIsEarned
<1> QED BY <1>1, WatchInvariant, RecoveryIsSettled, PTL
=============================================================================
