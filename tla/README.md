# Firebreak in TLA+

Firebreak investigates incidents of a microservice system. Triage ranks the services of a recorded
incident, a graph of model-driven agents gathers evidence and writes a report, a gate checks the
report against its evidence, and a remediation is proposed that only a person can approve. A lab
records the incidents, an evaluation compares configurations of the agent on them, and people's
feedback can become new labels.

This directory holds TLA+ modules of the parts of that system where order, failure or concurrency
decide what is correct, TLC configurations that check them on small instances, and proofs, checked
by TLAPS, of their main safety properties. Source paths below are relative to `src/firebreak/` in
the repository unless they start with `SPEC.md`.

Contents: 1 the system, part by part; 2 the modules and how they correspond to the code; 3 what
the runs check and show; 4 bounds; 5 fairness; 6 what is proved; 7 where the documents and the
code disagree; 8 what is not modelled; 9 the plan.

## 1. The system

### Remediation

**Audit log** (`remediation/audit.py`). State: a JSON-lines file in which each record holds the
digest of the one before it, and a SQLite database beside it whose write lock serialises writers
and whose `executions` table holds one row per proposal an execution was given out for.
Operations: `append` (lock, read all, seal, write, flush, sync), `records`, `was_executed` (both
without the lock), `reserve_execution` (`INSERT OR IGNORE`, committed), `verify_chain`. It is
correct when a log that can be read is one unbroken chain and says only what happened.

**Approval service** (`remediation/approval.py`). State: none but the log's, and an optional
executor. Operations: `record_proposal`, `reject`, `approve`. It is called by the workflow and by
the console, from several processes. It is correct when the target is changed at most once per
proposal and only after a recorded approval, and when the outcome a caller is given is true.
Hard: `was_executed` is read before the append takes the lock and acted on after it; a process may
die between the change and its record; a lock times out after the change; a line is cut short.

**Recovery watch** (`remediation/recovery.py`). `verify_recovery` samples the alerting signal
until three samples in a row are within tolerance or five minutes are over. It is correct when a
recovery is not a coincidence, a remediation is blamed only for what was measured, and it ends.

**Approval workflow** (`remediation/workflow.py`). State: a LangGraph thread of checkpoints per
proposal, shared by workers through a database. Operations: `start`, `resume`, and four nodes:
record the proposal, await a person, carry out, check recovery. It calls the service and the
watch. It is correct when nothing changes without a person's approval of a recorded proposal and
the thread's last word agrees with what happened. Hard: two workers in one thread, a crash with
checkpoints under way, an executor that raises after it acted, answers for a thread that moved on.

**Proposals** (`remediation/proposal.py`, `tools/remediation.py`): validated values with a
content-derived id, built by one tool.

### Investigation

**Investigation graph, nodes, budget** (`agent/graph.py`, `agent/nodes.py`, `agent/budget.py`).
State: the board of hypotheses with the evidence for and against each, the evidence store, the
critic's objections, the plan, the budget's meters (steps, tool calls, identical calls, tokens,
dollars, wall clock, growth of evidence per round), the report. Operations: entry gate, seeding
from triage, memory lookup, then rounds of commander, specialists, board and critic, and a
reporter. Every model call and tool call asks the budget first. It is correct when it ends, when a
service is named only on evidence of this incident, and when a report that was cut short or
written by no model says so.

**Floor** (`agent/floor.py`): a report without a model, from triage's ranking and three calls.

**Exit gate** (`agent/gates.py`, `agent/reexecute.py`): six checks of a report against its
evidence, which was asked for again; one repair, which takes away what failed; and an empty report
when that was not enough. It is correct when nothing unverified is published and the reader is told
what was removed. Hard: a repair changes what the checks look at.

**Model client** (`agent/llm.py`, `agent/transport.py`, `agent/cascade.py`, `agent/models.py`). State:
the mode, an optional tier override, the call under way and its place in tiers, repairs, models and
attempts, and the budget it is charged to. Operations: `complete` in four modes, the checks before a
request, retries with a wait, fallback to the next model of a tier, repair of an answer of the wrong
shape, escalation of a doubtful one. It is correct when no ceiling is passed, every token is counted
and a call ends. Hard: attempts, fallbacks, repairs and waits share one budget.

**ReAct baseline** (`agent/react.py`): a single loop over the same tools and budget, which the
evaluation compares with, with the gate (B2) or without it (B1).

**Tools, registry and evidence** (`tools/`). State: the evidence store, one record per id, and how
often each tool was called. Operations: `register`, `call`, every tool's handler, `get_evidence`,
re-execution of a record's stamp. It is correct when what the agent was shown is what a reader finds
under the id, and asking again finds it again. Hard: the id and the rows are not built from the same
arguments; an exception that is no `ToolError` passes the registry.

**Query backends** (`backends/`): queries over a recorded bundle, with limits.

**Triage** (`triage/`, `graph/ranking.py`). Windows are chosen around the alert, services scored
against the baseline, suspicion walks over the call graph, and a report names a service or declines.
It is correct when the named service is one the evidence implicates. Hard: limits that cut rows off
silently, ties, services that watch the system and are left out of some steps and not of others.

**Knowledge graph** (`graph/knowledge.py`, `graph/load.py`, `graph/queries.py`, `cli/graph.py`).
State: files that people edit and a database. Operations: validation, a load of nine statements that
commit one by one, call edges by window, a check that loads again. It is correct when a load that
ended left nothing out and nothing is in the graph that nobody wrote. Hard: loads run beside each
other and beside edits, fail half way, and never remove anything.

**Memory and feedback** (`memory/`, `web/app.py`). State: two JSON-lines files and the label files.
Operations: `admit`, `record`, `promote`. Correct when nothing held out is learned from and a
promoted label stands. Hard: no file is locked, and a label is created before it is filled.

**Text screening** (`security/`), **tracing** (`telemetry/`).

### Lab, evaluation, surface

**Recorder, flags and batch** (`lab/recorder.py`, `lab/flags.py`, `cli/lab.py`,
`scripts/record_library.py`). State: flagd's configuration and what flagd serves of it, a staging
directory, a bundle and a label per scenario, the batch's list. A recording resets every flag, warms
up, applies the scenario's flags and waits until each is served, holds, clears, exports into
staging, moves the bundle into place and writes the label; the batch runs one after the other, each
in a process it kills after half an hour, twice at most, and is meant to be interrupted. It is
correct when a bundle shows its scenario's faults and nothing an earlier recording left on, when
what a batch takes for recorded is whole and labelled, and when nothing recorded is lost. Hard:
flagd lags behind its configuration; a recording can stop anywhere, with its fault on.

**Bundles and packages** (`lab/bundle_writer.py`, `lab/bundle.py`, `lab/package.py`). State: the
bundle directories, one archive and its checksum. Operations: write, verify, package, unpack. Correct
when what unpacks was packaged to its end and is recordings as they were made. Hard: packaging reads
directories that go on changing.

**Evaluation** (`evals/`, `cli/eval.py`, `scripts/eval_regression.py`). State: reports on disk; it
reads bundles, labels and the working tree. Operations: collect the tasks of a split, run and grade
trials, compute statistics, gate a candidate, compare two reports, write one. Correct when numbers
that may be quoted are what they say they are. Hard: what is read at the end of a run describes what
ran before it.

**Prompt optimisation** (`optimize/`, `scripts/optimize_prompt.py`), **console** (`web/`), **command
line** (`cli/`), **exporters and stack** (`lab/export*.py`, `lab/stack.py`), **demo**, **labels**
(`firebreak_eval_labels`) and **scripts**.

### How the parts interact

    triage ──> investigation ──> exit gate ──> report ──> proposal ──> workflow ──> service ──> audit log
                 │   ▲   ▲                                   ▲            │
        budget, models, tools                         a person, console   └──> recovery watch
                 │
              memory <── labels <── feedback promotion <── console
    recorder ──> bundles, labels ──> evaluation, triage, tools

Everything left of "proposal" runs in one thread; what it shares with others are files. From the
workflow on, several processes share the audit file, its database and the checkpoints.

## 2. The modules

| module | models | builds on |
|---|---|---|
| `AuditChain` | records, digests, `AuditRecord.sealed`, `verify_chain` | |
| `OnceOnly` | the service's promise, abstractly | |
| `ApprovalService` | `approval.py` over `audit.py`: processes, lock, file, crashes | `AuditChain`, implements `OnceOnly` |
| `ApprovalWorkflow` | `workflow.py`: workers, thread, checkpoints, crashes | `OnceOnly` as its service |
| `RecoveryWatch` | `recovery.py`: `verify_recovery` against a clock and a signal | |
| `ExitGate` | `gates.py`, `reexecute.py` | |
| `Investigation` | `graph.py`, `nodes.py`, `budget.py`, `floor.py` | |
| `BudgetedCall` | what a caller of the model client may rely on | |
| `ModelCall` | `llm.py`, `transport.py`, `cascade.py`, `models.py` | implements `BudgetedCall` |
| `Tools` | `tools/`, `proposal.py`: handlers, registry, evidence store | |
| `React` | `react.py`: the loop, its stops, the gate of B2 | `Tools` |
| `Telemetry`, `Ranking`, `Searches` | `bundle_duckdb.py`, `anomaly.py`, `scoring.py`; `ranking.py`, `topology.py`, `traces.py`; `logs.py` | one on the other |
| `Triage` | `pipeline.py`, `triage/report.py`, `thresholds.py` | the three above |
| `KnowledgeGraph` | `knowledge.py`, `load.py`, `queries.py`, `cli/graph.py`: files, loaders, the graph | |
| `Grading` | `graders.py`, `metrics.py`, `gate.py`, `statistics.py` as operators | |
| `Learning` | `feedback.py`, `store.py`, labels: files several processes write | `Grading` |
| `Evaluation` | `runner.py`, `report.py`, `compare.py`, `cli/eval.py`, the two scripts | `Learning` |
| `Recorder` | `recorder.py`, `flags.py`, `bundle_writer.py`, `record_library.py`: batch, flagd, crashes | |
| `Release` | `package.py`, `bundle.py`: packaging and unpacking | `Recorder` |
| `...Proofs` | theorems about what the name says: `ReportProofs` about `ExitGate` and `React`, `RecorderProofs` also about `Release`, `ApprovalWorkflowProofs` also about `RecoveryWatch`, `KnowledgeProofs` about `KnowledgeGraph`; `TriageAndEvaluationProofs` are one for the sums and orders both need | TLAPS |
| `MC...` | model values, symmetry sets and inputs for TLC | |

Definitions named `X_Something`, each under a comment that starts with "Mutant:", are `X` with a
plausible bug. No specification uses them; they are there to confirm that each property would
notice that bug.

### ApprovalService and AuditChain

One action is one step of a call between two points where another process can act.

| state | in the code |
|---|---|
| `lines`, `tail` | the audit file: complete lines, and what follows the last newline (part of a record, a whole one, or two run together) |
| `lock` | who holds `BEGIN IMMEDIATE` |
| `reserved` | committed rows of `executions` |
| `effects` | how often the target was really changed (not in the code: what the properties are about) |
| `step`, `draft`, `sealed`, `answer` | a call's program counter and locals |

`CheckExecuted` is the unlocked read in `approve`; `LockAndSeal`, `WriteLine`, `FinishLine` are
`append`; `ReserveExecution` and `RecheckExecuted` what follows it; `ExecutorActs`,
`ExecutorReturns`, `ExecutorRaises` the executor, external code that may raise before or after it
changed the target; `LockTimeout` SQLite's 30 seconds; `Crash` a process that dies or a write that
raises, which leaves a line as far as it got. A process without an executor (not in `Live`) records
only. A digest is modelled by the property SHA-256 is used for: it is injective, so the digest of a
record is the sequence of bodies up to it.

### OnceOnly

Per proposal: it may be *claimed* once, *changed* once and only when claimed; a caller is *told*
`executed` or `already_executed` only if it was changed, and `failed` or `execution_uncertain`
only if it was claimed. `ApprovalService` implements it with `claimed <- reserved` and
`told <- answer` (`KeepsPromise`), which is what allows `ApprovalWorkflow` to be built on
`OnceOnly` and not on the files.

### ApprovalWorkflow

`thread[p]` is the last checkpoint written; `run[w]` is an invoke in a worker's memory: its state,
the answer it was resumed with and the checkpoints that are still under way, which a crash loses.
Nodes: `RecordProposal`, `AwaitApproval` (the interrupt), `CarryOut` (`Rejected`, `NotExecuted`,
`ClaimExecution`, `ChangeTarget`, `Executed`), `CheckRecovery`. `Start` puts an existing thread back
at its first node and keeps the channels it does not write, `Resume` goes on from wherever the
thread is. LangGraph is external, modelled from how `workflow.py` uses it.

### RecoveryWatch

`now` and `signal` move on their own (`Passing`); `TakeSample`, `CheckClock`, `Wake` are the loop.
A sample is the side of the ceiling it falls on, or unreadable. `Poll` is how long the injected
sleep lasts: 0 in the program, whose one caller leaves the default argument, and `POLL_SECONDS` for a caller
that passed `time.sleep`. `samples` remembers the last readable samples and their times for the
properties; the code keeps only the count `inside`.

### ExitGate

A report is its claims and the positions it still has (`kept`). A claim has a type, the evidence it
cites, the numbers it quotes (each compared with the stored fact and with the re-run one), whether
every number in its prose has a source, and a time. `Check`, `Repair`, `Recheck` are the three
passes of `run_exit_gate`. The operators above them are the six checks: coverage (`Uncovered`),
re-execution (`NotReproduced`), numbers (`Misquoted`), consistency (`OutOfOrder`, `WithoutGraph`,
`Conflict`), confidence (`ConfidenceSane`) and abstention (`Supported`).

### Investigation

Services are numbered by their rank. A tool call is its own evidence id: the same question of the
same recording has one id. Actions are the nodes; a specialist is `Assign`, then `Skip` or
`CallTool` per call it plans, `Gathered` and `Answer`. What a model says is any answer its schema
allows (`Answered`) or a failure (`NoAnswer`): no model left, a budget stop during the call, or a
validation error nothing catches (`step = "raised"`). Every budget check is where the code has it;
ceilings on tokens, dollars and time (`Metered`) may be reached whenever something was spent,
rounds and calls are counted. The exit gate appears as what it may do to a report (`Publish`,
`MayName`); triage's verdict is an input of `Init`. The floor is one step.

### Recorder

`config` and `served` are what flagd is configured with and what it serves; `Reload` closes the gap
at any time. `step` and `todo` are where `Recorder.record` is and the flags it still has to apply,
`shown` what was served since the recorded window began, which is what a bundle's telemetry can
show: the window begins as soon as the load is up (`LoadReady`), and the warmup is part of it.
`stale` is what flagd still served at that moment although it was no longer configured. A directory
is a count of its required files, its manifest and the recording (`take`) it is from. `StartBatch`,
`Attempt` and `Interrupt` are the batch, `RecordByForce` a person with `--force`; the other actions
follow `record` line by line. `Raise`, `Kill` and `Interrupt` may happen at every step; what a write
leaves that was under way is `CutShort`, what `_export_bundle` cleans up is `CleanUp`. No step waits for flagd but those
that ask it what it serves.

### Release

`packing` is where `package_library` is and the directories it has still to see, `archive` the file
at the destination, `checksum` the file beside it. Its actions are the steps between which a
recording may go on: the list, each verification, the index and the opening of the archive, a
directory's data files, its manifest, the close, the checksum. `StopPackaging` is a kill or a full
disk at any of them. `Unpacks` is what `unpack_library` asks before it accepts.

### ModelCall and BudgetedCall

`call` is the place of the call under way: tier, repair, candidate, attempt, and what it used.
`Complete` is the entry with its refusals, `Stub` and `Replay` the local modes, `Receive` and `Fail`
what a request comes to with everything that follows before the next one (metering, the shape of the
answer, repair, escalation, fallback), `Wait` the wait before a retry. `client` has the mode and the
override. `BudgetedCall` is what is left when the inside is hidden: `open`, a verdict, and a budget
that is charged only while a call is open, never past a ceiling.

### Tools and React

A handler is an operator from a call to what it comes to: a record with the arguments its id is
built from and those its rows depend on, a record that is held already, a `ToolError`, or another
exception. That the two sets of arguments differ is what `ShownIsHeld` is about. `React` is the
loop, one action per round's decision, call, report and gate. The gate of B2 asks the report's
citations again one by one (`ReExecute`), in a context of its own that its earlier answers are part
of (`rerun`), and then decides. What the tools' input models let through is `CallAssumption`; it includes a window of any
length and a search pattern of any length (`Patterns`), both of which the backend refuses when they are too large.

### Telemetry, Ranking, Searches and Triage

Scores are in hundredths of a robust deviation, rounded down. Ranks are exact: a `Shares` record has
so many parts for each node of a common whole, divided by what they all have in common; weights stay
whole because a graph is multiplied by the denominators of its ratios. The greatest common divisor is
a recursive function. `Triage` runs them over a recording: `OpenWindows`, `Score`, the walk one `Pass` at a time,
and `BuildReport`, or `LoseReport` where the report's query for changes over the whole recording is
refused (`ChangesRefused`). What a query reads is a set of positions in the file: an order and a limit say which
positions, and no sequence is sorted. `Searches` are the queries over log lines and spans with the
order and the limit the code gives them. The tools that answer for triage are compared with it in the invariants.

### KnowledgeGraph

`files` are edited one at a time. A loader reads and validates them, takes fingerprints when it
checks, and executes the statements one by one; it may fail after any. `Statements` are the nine
queries as rows that set nodes and draw edges where the partner exists. `read`, `finished` and
`asked` are histories for the properties.

### Grading, Learning and Evaluation

`Grading` holds the graders, the gate's verdict in its order and the statistics, over outcomes and
labels: an aggregate is a function of numbered trials, and a mean is a fraction of whole numbers. `Learning` are the files people and processes write: feedback, labels, memory. `Evaluation`
is one command at a time over them, from the collection of its tasks to the report it writes, while
`Learning` and the working tree go on changing; what happened between two of its steps is in `moved`.
`tasks` are those still to try, by their place on the shelf; `reports` are the files by path, and
`newest` is the one with the latest modification time in each directory.

## 3. The runs

| run | module, cfg | checks |
|---|---|---|
| `approval` | `MCApprovalService`, `MCApproval.cfg` | `ChainVerifies`, `ExecutedIsTrue`, `ChangeIsDue`, `KeepsPromise` (refinement of `OnceOnly`), `EveryCallEnds` |
| `recovery_watch` | `RecoveryWatch`, `RecoveryWatch.cfg` | `VerdictIsEarned`, `WatchEnds` |
| `workflow` | `MCApprovalWorkflow`, `MCWorkflow.cfg` | `ChangedByApproval`, `CreditIsDue` |
| `workflow_reject` | `MCApprovalWorkflow`, `MCWorkflowReject.cfg` | `RejectExecutesNothing`: **violated**, see 7 |
| `exit_gate` | `MCExitGate`, `MCExitGate.cfg` | `PublishedStands`, `OnlyTakesAway`, `NoticeIsTrue`, `ConflictSilences` |
| `investigation` | `Investigation`, `MCInvestigation.cfg` | `NamedIsConfirmed`, `EarlyStopIsTold`, `CompleteIsEarned`, `InvestigationEnds` |
| `model_call` | `MCModelCall`, `MCModelCall.cfg` | `SpendIsAccounted`, `WaitsFitTheClock`, `KeepsPromise` (refinement of `BudgetedCall`), `EveryCallEnds` |
| `react` | `MCReact`, `MCReact.cfg` | `ReactTypeOK`, `EvidenceStands`, `OnlyUnaskableEscapes`, `EveryRunEnds` |
| `triage` | `MCTriage`, `MCTriage.cfg` | `AnswerIsEarned`, `ReadingsAreExact`, `SearchesAreExact` |
| `knowledge` | `MCKnowledge`, `MCKnowledge.cfg` | `GraphIsWhatWasSaid`, `LoadsSpeakOfTheFiles` |
| `evaluation` | `MCEvaluation`, `MCEvaluation.cfg` | `TypeOK`, `FiguresCanBeQuoted`, `LearningIsClean`, `LabelsAreFinal`, `StatisticsAreRight` |
| `recorder` | `MCRecorder`, `MCRecorder.cfg` | `BundleShowsItsFault`, `LibraryIsSound`, `ReleaseIsSound`, `NothingIsLost`, `BatchEnds` |

A property that answers one question in several respects is a conjunction of named parts, each with
its own comment in the module (`PublishedStands` is `PublishedPasses` and `NamedIsSupported`,
`FiguresCanBeQuoted` has five parts, `AnswerIsEarned` seven, `ReadingsAreExact` four, `SearchesAreExact` three); sections 6 and 7 speak of the parts.
The run marked violated has one property, a sentence of the repository's own documents, and
is expected to fail. The type invariants of the modules that section 6 covers are proved there, which is more than a run
would show; `AnswerIsEarned` has that of `Triage` as a part.

What the passing runs show:

- *Approval.* Whatever two processes do to one log, and wherever either dies, the target is changed
  at most once per proposal, never before its approval is in the log; a readable log is a chain that
  verifies and never records a change that did not happen; no caller is told something false about
  the change. The unlocked `was_executed` only decides whether an approval stops early: the
  reservation decides who executes. Every call ends, with an outcome or an exception.
- *Watch.* As the caller leaves it, with a sleep that does not last: "recovered" is said exactly when
  the last three samples read were within tolerance, "not recovered" only at the end of the window
  and of a signal that was read at least once, "unknown" only of one that never was; the watch ends. That
  three samples are three polls apart, and that an early reading blames nobody, is false: see 7.
- *Workflow.* Two workers, crashes, lost checkpoints and restarted threads never change the target
  without an approval of a recorded proposal, although `carry_out` approves whatever is not a
  reject; a thread credits a recovery only to a change that happened.
- *Exit gate.* The one repair and the second reading are enough: what is published passes all
  checks, also where a removed claim makes another fail. It only takes away, and says how much.
- *Investigation.* It ends under every answer; a reporter's cause has `MinSupport` records gathered
  in this incident, memory's record not among them; a report cut short is low or abstains, and one
  without a model is labelled; "complete" means the leader has support and a convinced critic.
- *Model call.* Retries, fallbacks, repairs and escalation together never pass a ceiling; what an
  endpoint reported is charged although its answer is thrown away; a wait is only waited if the retry
  still has time; every call ends in one verdict.
- *ReAct.* Every record can be asked again and is found again, but for the two tools whose record
  leaves an argument out; the loop ends; only a window the handler refuses, or a
  search pattern too long for the backend, escapes as an exception; what B2 publishes cites only what was gathered.
- *Triage.* Who is named is implicated; the walk keeps a distribution and settles. Triage raises
  only where a window it chose is too broad, and its report is lost exactly where it names a
  service of a recording that is. The tools that
  answer for triage, and the searches, agree with it except where a limit or a tie makes them differ,
  and the invariants say exactly where that is.
- *Knowledge.* A load that ended left nothing out whatever ran beside it, nothing is invented, and a
  load alone is exactly its facts over what was there. Owners can be two, and `graph check` can fail
  a load that is idempotent: the invariants say when.
- *Evaluation.* A side is on recordings or on fixtures; a quotable report measured its whole split,
  unless an incident was promoted as a scenario of another; a promoted label stands; what is held out is learned from only by a
  promotion. The statistics agree with their definitions, and the gate compares like with like unless
  the library changed under it.
- *Recorder and release.* Wherever recordings raise, die or are interrupted, and whatever was left on
  before, a whole bundle shows all flags of its scenario, and beside them only what flagd still served
  when its window began; without `--force` a bundle
  directory is absent or whole, a readable label belongs to the bundle that is there, and no
  recording is ever replaced; a batch ends. What unpacks of a release was packaged to its end, and
  each bundle in it is one whole recording, though recordings went on while it was made.

## 4. Bounds, and why they are enough

- `MCApproval.cfg`: two processes, both with executors; two proposals, one of which the allowlist
  refuses (it can still be rejected); calls start while the file has fewer than `MaxRecords` = 3
  lines. Two processes give every race between two calls, and the rows, files and locks have no
  notion of a third. Three records hold an approval, its outcome and a rival's or a restarted
  call's record (calls under way may write past the bound); the theorems cover any length. Deadlock
  is not checked: at the bound everybody rests.
- `RecoveryWatch.cfg`: a window of six ticks, three samples,
  `Poll` = 0 as in the program, time up to 8, past which the watch has ended. The signal may move at
  every tick, and any number of reads fall into one. Deadlock is not checked: time stops at `MaxTime`.
- `MCWorkflow*.cfg`: one proposal (threads of different proposals share nothing but the service,
  which is per proposal), two workers, one or two checkpoints under way. The violations need a
  crash with a checkpoint unsaved, or two workers in one thread.
- `MCExitGate.cfg`: five evidence ids chosen so that each way a citation can go happens (same,
  live and moved, re-run failed, unknown, a topology record), reports of up to three claims from a
  pool of thirteen that between them fail each check in each way, leaders at, under and without
  support. Three claims are what a removal that makes another fail needs, and a timeline out of
  order after a removal. `Repairs` is TRUE, the default both callers keep; the proofs cover both values.
  Deadlock is not checked: a published report is the end.
- `MCInvestigation.cfg`: two services, one triage and one memory hypothesis, support of two, three
  rounds, six tool calls, two identical calls, a stall after one round, plans of up to two
  assignments to one specialist, two ceilings, and the full and the smallest configuration. Every
  limit is reachable, in every order with the others.

- `MCRecorder.cfg`: a double fault (two flags) and a healthy scenario, whose recordings are each
  other's most sensitive neighbours; every set of flags on at the start; two required files, so that
  a directory can be half written; two attempts. No batch and no recording by force begins that would
  take the recordings past `MaxTakes` = 2 at one attempt each: enough for a batch of both, each of
  them tried again, for one that is interrupted and one over what it left, or for `--force` (on the
  healthy scenario) over a recording that is there. One release is made
  (`MaxReleases`), over one that was published before; it begins when nothing is recorded, and any
  recording may begin before it ends. Unpacking is into an empty directory. Deadlock is not checked:
  at the bound the library rests.
- `MCModelCall.cfg`: a small tier of two models, one without a price, a strong model twice as dear, a
  judge tier without models; two attempts, two repairs, ceilings that a few answers reach, two calls,
  all modes and overrides. Fallback, repair, escalation and every refusal happen in every order.
- `MCReact.cfg`: calls that answer, fail in each way (a search for a pattern that is too long among them), and ask one question with another limit; four
  rounds, so that a call can be repeated past its limit and a stall can set in; two calls per tool.
  Reports cite one record, or all that are held in any order, so that one is asked again in a
  context others are in.
  The ceiling of forty calls is the code's: four rounds of one call never reach it.
- `MCTriage.cfg`: three services and the load generator, recordings of up to thirteen ticks in which
  each service has one of a few shapes (quiet, slow, late and slow, failing, a blip, gone, sparse),
  three call graphs (chain, diamond, ring), traces of four spans with any parents, log searches
  around the row limit. `MaxWindow` is 12: in three more recordings, of fifteen ticks, both windows
  fit and the whole does not, and in others the windows themselves are too broad. `MaxPathSpans` (40 in the code) is 2, so that a path of three spans reaches it. Limits are scaled down with the recordings so that each one cuts.
- `MCKnowledge.cfg`: two loaders, two services, two teams a service moves between, a torn runbook,
  files that agree and files that do not; three commands, edits or writes, which is an edit or a
  write between two loads, or two commands beside each other and an edit.
- `MCEvaluation.cfg`: two scenarios of one split, one of them healthy, one of train, a live incident,
  contradicting answers, four decisions, one of which calls an incident a scenario of another split;
  ten scripts, each one or two commands with a number of changes to the
  library and the tree that may come between any two of their steps.

Symmetry is used where workers are interchangeable, and only for safety.

## 5. Fairness

- `ApprovalService`: weak fairness of `Continue(q)`, a process's own steps. A waiting call either
  gets the lock or times out after 30 seconds, and the executor is assumed to return or raise. No
  call has to be made and no crash has to happen.
- `RecoveryWatch`: of the loop and of the clock.
- `Investigation`: of `Next`. There is one thread, tools read local files, and model calls have a
  timeout.
- `Recorder`: of the recording's own steps, which are sleeps and requests with timeouts, of the
  batch's next attempt, and of flagd reading its file. Nobody has to start a batch, and no failure
  has to happen or to stop happening. Nobody has to package anything.
- `ModelCall`: of the client's own steps. Requests have a timeout and waits are bounded by the clock.
- `React`: of the loop, which is one thread.

## 6. What is proved

For every value of the constants that satisfies the named assumptions (which TLC evaluates on
every run), not only for the instances above:

| module | theorem | says |
|---|---|---|
| `ApprovalServiceProofs` | `TypeCorrect`, `InvHolds` | types; the inductive invariant |
| | `ChangedAtMostOnce`, `ChangedOnlyIfApproved`, `LogTellsTheTruth`, `LogVerifies` | `Spec => []P` for the invariants of `approval` and their parts |
| | `ChangesAreDue` | `ChangeIsDue`, from the first two |
| | `ServiceKeepsPromise` | `ApprovalService` implements `OnceOnly` |
| `ReportProofs` | `GateTypes`, `NothingUnverified`, `NamedStands`, `PublishedReportsStand`, `GateOnlyTakesAway`, `NoticeHolds`, `ContradictionIsSilenced` | the gate's invariants, for reports of any length |
| | `ReactTypes`, `EvidenceStandsAgain`, `OnlyUnfitCallsEscape` | what `react` checks but for its liveness, for any calls, reports and limits; the last is an action property |
| `InvestigationProofs` | `InvestigationTypes`, `NamedConfirmed`, `LabelTellsTheTruth`, `CutShortHedged`, `EarlyStopsAreTold`, `CompletionEarned` | the investigation's invariants, for any number of services, rounds and calls |
| `RecorderProofs` | `RecorderTypes`, `BundlesShowTheirFaults`, `LibraryStaysSound`, `RecordedForGood` | what `recorder` checks, for any scenarios and any finite number of recordings; the last is an action property |
| | `ReleasesAreSound` | what `release` checks, for any scenarios and any finite number of releases |
| `ApprovalWorkflowProofs` | `WorkflowTypes`, `OnlyApprovedChanges`, `CreditIsAlwaysDue` | the invariants of `workflow`, for any workers, proposals and checkpoints under way |
| | `WatchTypes`, `RecoveryIsSettled`, `VerdictsAreEarned` | the watch's invariants, for a sleep of any length, none included |
| `ModelCallProofs` | `TypeCorrect`, `CeilingsHold`, `EveryTokenCounts`, `AllSpendIsAccounted`, `DoubtEscalates` | the invariants of `ModelCall`, for any models, prices, limits and ceilings |
| | `RetriesHaveTime`, `CallKeepsPromise` | its action property; that `ModelCall` implements `BudgetedCall` |
| `KnowledgeProofs` | `TypeCorrect`, `LoadsAreComplete`, `OwnersAreNamed`, `CallsStayInTheirWindow`, `GraphIsFaithful` | `GraphIsWhatWasSaid` of `knowledge` and its parts, for any files, loaders and call tables |
| | `LoadsAddTheirFacts`, `ChecksSpeakOfTheFiles`, `LoadsSpeak` | its action property `LoadsSpeakOfTheFiles` and its parts |
| `TriageAndEvaluationProofs` | `AnswersAreEarned`, `ReadingsStand`, `SearchesStand` | the invariants of `triage`, `AnswerIsEarned`, `ReadingsAreExact` and `SearchesAreExact`, for any recordings, call graphs, traces, thresholds and limits |
| | `PassesContract` | a pass over any graph brings any two distributions closer by the damping |
| | `EvaluationInvHolds` | the inductive invariant of `evaluation` |
| | `EvaluationTypes`, `FiguresStand`, `StatisticsStand`, `LearningStaysClean`, `LabelsStand` | what `evaluation` checks, for any library, answers, decisions, learners and commands; the last is an action property |

**Approval.** None of the properties is inductive. `Inv` adds to `TypeOK`: *Control* (who is
between lock and release holds the lock and no one else does; only a process with an executor is at
`reserve` or after; what a process sealed is what it drafted, about its own proposal); *ReservedInv*
(a change implies its reservation); *OwnerInv* (at most one process is between winning a reservation
and its last append, and while it has not acted the target is unchanged); *TruthInv* (an executed
line implies one change, and an append of one is under way only by the owner that acted);
*ApprovedInv* (a process past its approval, and a changed target, have an approved line, as long as
every line parses); *ChainInv* (while all lines parse, they are a chain, and a record being written
is sealed onto its end). `OwnerInv` is the argument: the `INSERT OR IGNORE` makes exactly one owner,
a crash ends the ownership and leaves the row, so nobody follows. The refinement maps each action to
a claim, a change, a tell, a forget or a stutter.

**Watch.** *Counted* ties the loop's count to what it stands for: the last `inside` of `samples` are
within tolerance, and neighbouring samples are as far apart as the sleep lasts, which is nothing for
the default. *Spaced* ties the clock to the last sample, so that the next one keeps the distance.
*Concluded* says with which count each verdict is given.

**Gate.** The invariant says what each phase has established about `working` and `removed`: as
written before the repair, repaired after it. A report is published after a pass over all checks
or as the empty one, and a report with no claims, no cause and no confidence passes every check
(`EmptyPasses`): this is why the gate always has something to publish.

**ReAct.** A context is *sound* when the stamp of each record in it, asked of a context that holds
nothing, comes to that very record. No handler looks at what is held but `get_evidence`, which
leaves no stamp, and `propose_remediation`, whose record is of the context it was made in; so what a
stamp comes to does not depend on what was asked before it, and every step keeps both contexts
sound, the agent's and the gate's. An exception needs a window the handler or a pattern the backend refuses, and no stamp has
either, since only a call that answered leaves a stamp.

**Investigation.** `Inv` adds to `TypeOK`: *Untouched* (before the first round nothing has been
asked, counted or gathered), *Started* (a round has a board and budget left; at its end, no objection
means a convinced critic), *NotRecalled* (memory's record supports nothing), *Ended* (which ends carry which
reasons, confidences and authors), and `CompleteIsEarned` itself. Two lemmas carry the weight:
`LeaderLeads` (the leader of a non-empty board exists and is on it, by well-foundedness of the
naturals) and the finiteness of the set of calls, for cardinalities of evidence.

**Recorder.** *Control* says who records what: the batch the head of its queue, a person only what
is forced. On it rest two arguments that do not need each other. *Flags* (`OnlyItsFlags`,
`AllItsFlags`): from the reset to the first flag nothing is configured on, so what flagd serves when
the window begins is what an earlier recording left (`stale`), and from then on it can only take up
flags of the scenario; those not left to be applied have been seen, all of them by the time they are
held. So a finished bundle shows all of its scenario's fault, and beside it only what flagd had not
dropped when the window began, whatever an earlier recording left on. *Library*
(`Untouched`, `LibraryIsSound`): a recording nobody forced found no bundle and leaves none before
the one it moves into place, which is whole and its own, and a label is written after that.

**Release.** Packaging changes nothing `Recorder` knows of, so what is proved of recordings holds
while a release is made. Its own invariant says that a directory, in staging
or in place, shows the faults of the recording that made it (*DirectoriesShow*), that a checksum
matches the archive only once it is closed (*ChecksumAfter*), and that a bundle nobody replaces by
force is in the archive as it stands in the library (*MembersLast*), because it was whole when it
was listed and no recording without force touches a bundle that is there.

**Workflow.** A checkpoint may be in the thread, in a worker's memory or on its way to the thread,
and it may be lost, or written after a rival's later one. *Sound* says what a checkpoint claims of
its proposal: at or after the interrupt it is recorded; a decision is one a person gave; at
`carry_out` there is a decision; `executed`, and any verdict of the watch, mean a changed target.
All of it stays true once it is (`Grows`), so `Inv` asks it of every checkpoint anywhere, and no
order of writes can break it. That `carry_out` approves whatever is not a reject is harmless because
no checkpoint reaches it without a decision.

**Model call.** *UnderWay* says what a call that is open has not yet used up: a place in the tiers,
a candidate, an attempt and a repair that the configuration has, and a budget that was open when it
was asked. *UnderCeilings* is what is spent before the answer under way, *LocalAdmitted* that a stub
or a recording answers only what was let in. The ceilings follow because a request is asked only
below them and an answer is cut to what is left. Under the mapping of `BudgetedCall` (open when not
idle) every step of the transport is a charge or a stutter, and the last one closes.

**Knowledge graph.** *Underway* ties a loader to what it has run: every statement before the one it
is at is in the graph. It is kept because nothing is ever removed (`Grows`), so other loaders can
only add. What makes a statement cover its rows is the order of the nine, and that the validation
admits no file with an owner, a runbook or a service that is not there: the partner of every row was
set by an earlier statement of the same load. For a load nobody worked beside (*AloneInv*) the graph
is at every moment what was there and the first statements' facts, and a check compares two such
graphs, which differ only by facts of its own files.

**Triage.** *TriageInv* has three parts. *DataInv*: the windows are `ChooseWindows` of the recording
from the moment they are chosen, scores and onsets those of these windows from then on, and only a
window too broad has raised. *WalkInv*: what is walked *stands* (`WalkStands`), and the next pass
changes no more than `2 * d^(passes + 1)`, where d is the damping (`Settles`). *SaidInv*: the report
says what was found when it was written, and is lost only where its query for changes is refused. The invariant needs the bound on the next pass and not only
that shares add up, since nothing else says that the last pass allowed is small enough.

*The walk.* Every client hands out all it has (`ClientsHandOn`: the weights are brought to a common
multiple, and each row adds up to it), so a pass keeps the whole (`RawAddsUp`, `NextIsSpread`) and,
being linear, brings two walks together by the damping (`PassesContract`, from the triangle
inequality over the nodes). The first pass moves at most twice the damping (`FirstPassIsNear`), so by
induction over passes (`WalksSettle`) the last one allowed is under the tolerance
(`LastPassSettles`), and `PageRankConvergenceError` is never raised. That the shares can be reduced
at all without losing any is Euclid's algorithm (`GCDUnfolds`, `GCDDivides`) under a fold
(`CommonOfAll`, `MultipleOfAll`).
*Who is named.* A walk starts again at what moved (`RestartStands`), and what a node is handed comes
from a caller with a share (`SuspicionIsHandedOn`). Callers of callers are callers
(`CallersOfCallers`: as many levels as there are services meet everybody, `CallersAreAll`), so each
node with a share is called by something that moved (`WalkGoesOn`), and whoever leads has one
(`LeaderHasAShare`), since a bonus takes nothing away. Scores and onsets are numbers of known
services (`ScoresStand`, `OnsetsStand`), which is what makes the largest of them, and the first to
move, well defined (`LargestStands`, `FirstMovers`).

*Windows*: a share of a length, rounded down, is within it, and falls short of the guard only if the
length does (`ShareOfLength`); an alert anchors only with room before it. *Searches*: a
search that keeps the first of an order has nothing before what it keeps among what it leaves out. So a
line left out is behind a full answer (`UnkeptAreHidden`), and the errors a signature does not count
are among those that many newer lines hide, by counting. *Traces*: the traces of the kept spans lead
one another in a strict, total order, by their slowest span (`LeadIsAnOrder`); the first few of such an
order are those with few before them, without gaps or ties (`FewerAhead`, `FirstFew`), so a trace left
out is behind one that is given, and one none of whose spans was kept is behind all of them. *Samples*:
the order a series is read in has no ties (`SeriesAreOrdered`), so a cap keeps as many rows as it may
and none that comes after one it leaves out (`SeriesKept`); where no cap cuts, the tool and the
ranking read the same rows of a service (`SameRows`, `ComparisonsStand`). *Calls*: who is met within
so many calls is whoever one call leads to from those met within one fewer (`WithinGrows`); a level of
a walk holds exactly those not met before (`LevelGrows`), and a path upstream is one of calls walked
backwards (`TrailsAreCalls`). *Spans*: no child of the last span can be on a path from a root already,
since it would have two parents (`HopsFollow`), so nothing is left out of a hop; each span that is no
root is the child of exactly one, so what is taken off for children adds up to all that are no roots
(`SelfTimesStand`, by `SumOfHeaps`). That the recursive functions exist at all is shown level by
level (`WalksExist`, `PathsExist`). Assumed: a recording does not end before it starts, its samples,
calls, lines and spans have comparable times, values and names, and the spans of a trace ids of their
own (`InputAssumption`); services sort in one order, None is not one of them, and the least scale is
above zero (`TelemetryAssumption`); the limits are positive (`SearchAssumption`, `PathAssumption`);
the thresholds are those `thresholds.py` accepts, and the passes are enough for the tolerance,
`2 * d^MaxIterations < Tolerance` (`TriageAssumption`). With the 200 passes and 1e-8 of the code the
last holds when `restart_alpha` is above 0.092; it is 0.15, but the schema accepts anything above 0.

**Evaluation.** From the files upwards. *LabelsInv*: a label is about the incident its path names, a
recorder's says what the library says. *MemoryInv*: whoever is between reading memory and appending
found no copy, so the copies of an incident and the learners about to add one never exceed the
learners. *TasksInv* and *SidesInv*: what was measured was measured against the answer the bundle
had, on one kind of data, each bundle under one answer, although labels are read again later. A
report is made of such a side, and as many scenarios evaluated as the split has are all of them,
unless one is of no such scenario (counting finite sets), which is the exception `QuotableIsWhole`
names. *AlikeInv*: while the store stands still every side tries exactly the tasks the first found.

**Statistics.** What a report states is checked against its definition for any number of trials
(`StatisticsStand`), which takes induction over the trials. The library's induction theorems cannot
be instantiated by these provers, so induction is stated with sets: a family of subsets of a finite
set that holds the empty one, and one element more of each it holds, is all of them (`EverySubset`,
from the well-foundedness of cardinalities). On it rest the sums: a fold over a finite set of whole
numbers does not depend on the order it is taken in (`SumIsTotal`), so cells of a table and bins of
a curve that share out the trials add up to them (`SumOfHeaps`, `TablesAgree`, `BinsAddUp`). That
the calibration error is no more than the root of the Brier score is Cauchy and Schwarz for sums
(`SquareOfSum`, `SumOfOffs`). Numbers of choices obey Pascal's rule (`OneMoreToChoose`), so the
estimators of pass@k and pass^k are the shares of the choices of k trials with a right one and with
no wrong one (`RightChoices`, `PassesAreShares`), and fewer choices are all right than start with a
right one (`AllRightIsRarer`). *StatedInv* carries what the sums need of a side: that an outcome of
a configuration states a confidence between 0 and 100 or none (`OutcomeAssumption`).

**Model-checked only.** Liveness (`EveryCallEnds`, `WatchEnds`, `InvestigationEnds`, `BatchEnds`,
`EveryRunEnds`): the prover used does not reason about fairness and `ENABLED`. Every invariant a run
checks is also proved.

## 7. Where documents and code disagree

One is a run, `workflow_reject`: its property is what the documents say, and its counterexample
what the code does.

The others were met while modelling. Where a property speaks of the same place, it states what the
code keeps to.

*Remediation.*
- A reject that resumes a thread already past its interrupt is not read, and the invoke goes on with
  the approval in the checkpoint (`remediation/workflow.py:249`; run `workflow_reject`,
  `RejectExecutesNothing`).
- `reject` and `approve` do not read each other's lines: what was rejected can be executed by a later
  approve, and what was executed rejected (`remediation/approval.py:151`). A rejected proposal changed
  nothing, says `docs/adr/0011-approval-service-as-sole-writer.md:110`.
- A line whose newline alone is missing is a readable record; the next append runs on from it on the
  same line, and neither can be read again (`remediation/audit.py:222`). The class says appending a
  line cannot corrupt the lines before it (:161).
- The workflow leaves `verify_recovery`'s default sleep, which lasts no time, in place
  (`remediation/workflow.py:220`): one dip read three times is a recovery. `recovery.py:102` says the
  real caller passes `time.sleep`.
- One early reading, then none until the window is over, is "not recovered"
  (`remediation/recovery.py:155`): unknown is the honest answer when the window expired with the
  signal unreadable, says ADR 0011 (:98).
- After a crash between the change and its checkpoint, after a rival's claim, and when the executor
  raised after it acted, the thread ends with "nothing was executed" and no watch
  (`remediation/workflow.py:199`), though the target changed.
- `build_proposal` never looks whether the target exists.

*Agent.*
- No code marks a critique as resolved, so one objection to any hypothesis keeps every later round
  from completing (`agent/nodes.py:589`); `SPEC.md:403` ends the loop there.
- "A refused or failing call is an observation rather than an exception" (`agent/react.py:254`): a
  window the handler refuses is a validation or a backend error, a pattern of over 200 characters a
  backend error, and either ends the run. Nothing else does (`OnlyUnaskableEscapes`).
- After any budget stop the report is asked of the same budget and cannot be written
  (`agent/react.py:294`).
- The record of a runbook search leaves out its limit (`tools/runbooks.py:291`), and that of a
  proposal its rationale and evidence: asked again they differ (`ShownIsHeld`).
- A response without usage, and a request that timed out after it was served, are not metered.

*Tools and triage.*
- "Truncating" is refused in `tools/base.py:56`, and `query_metrics` does it without a word; samples
  of many services over a long window are cut at the reader's limit (`TruncationLosesTheLast`), and
  `compare_windows` can disagree with `list_anomalies` (`ComparisonAgrees`).
- "No error or fatal log lines in this window" can be said of a window full of them
  (`tools/logs.py:152`, `SignaturesMissOnlyTheHidden`); a search that cuts through lines of one moment
  may differ when asked again (`SearchesDifferInTiesOnly`); `find_traces` limits spans, not traces
  (`OmittedTracesAreFaster`).
- Onsets include the services that are not under investigation, and scores do not
  (`triage/pipeline.py:278`): where the load generator went abnormal first no suspect has the bonus that
  `config/thresholds.yaml:116` gives the earliest
  (`FirstToMoveIsHelped` says who does have it). "The largest anomaly anywhere in the system"
  leaves out what the evidence it cites lists (`FindingMatchesEvidence`).
- The report's query for changes asks for the whole recording, and a `QueryTooBroadError` is none of
  what `_safe_call` catches (`triage/report.py:346`): a recording longer than `MAX_WINDOW` whose
  windows fit is ranked and loses its report, which is what the comment at :340 is against
  (`OnlyBroadWindowsRaise`).

*Knowledge.*
- `graph check` says "the load is not idempotent" of an idempotent load when files were edited or an
  earlier load failed (`cli/graph.py:108`, `CheckSpeaksOfTheFiles`).
- The owner a service names and the team that lists it are never compared, and an owner that changed
  leaves its old edge: a service can have two (`OwnersComeFromTheFiles`; `knowledge.py:252` wants none
  paged twice).
- Queries of dependencies ignore the window the calls were measured over.

*Lab.*
- A recording that stops between moving its bundle into place and writing its label counts as
  recorded from then on, and no label is ever written (`lab/recorder.py:390`);
  `scripts/record_library.py:18` says a batch that is run again picks up where it left off.
- A staging directory whose manifest is written is a bundle to `iter_bundles`
  (`lab/bundle.py:466`, "partially written directories are skipped"), so a recording that was never
  checked for holes can be packaged. A bundle replaced between its verification and its archiving is
  packaged in parts; unpacking refuses it, which is the download's fault no more than
  `lab/package.py:86` intends.
- While an old bundle is removed a reader sees a part of it (`lab/recorder.py:389`): no bundle or
  a complete one, says `lab/recorder.py:342`.
- A reset proves what is configured, not what is served (`lab/flags.py:202`), and the window begins
  before the warmup is slept through (`lab/recorder.py:210`): a flag flagd has not dropped by then is
  in the bundle's baseline, although a recording "cannot inherit a fault the previous run left on"
  (`lab/recorder.py:6`). `BundleShowsItsFault` bounds it by what flagd still served then (`stale`).

*Evaluation and memory.*
- A gate passes over tasks the two sides do not share (`evals/gate.py:247`); `LikeWithLike` says when
  that cannot happen.
- An incident promoted under another scenario's name, or under none, counts as a scenario of the
  split that was evaluated (`evals/report.py:139`, `QuotableIsWhole`); the commit is read when the report is built
  (`StampIsTheCode`).
- One label file that was cut short ends every later evaluation (`evals/runner.py:310`), and blocks
  its own promotion from being repeated.
- Nothing asks `agreement` before a promotion, and a promotion can move a held out incident to train.
- The optimiser's candidate prompt never reaches the model (`scripts/optimize_prompt.py`).

## 8. What is not modelled

- *No protocol of their own:* exporters, stack, generator of test data, judge, text screening,
  tracing, pages, argument parsing, tables, demo, scripts that build files out of finished results.
- *Out of reach:* the bootstrap and the permutation test, which draw random samples, and floating
  point: fractions and small whole numbers stand in for it, so a rounding error of the code is not
  seen.
- *Inputs of a model:* a model's answers, what a tool summarises, executors, LangGraph's
  checkpointing, the template a log line masks to. They are free choices, or a given function, within
  what the code accepts from them. `Investigation` takes triage's verdict as an input; `Triage` shows
  which verdicts there are.
- *Abstracted data:* wording, actors and reasons of audit records; the text of claims; times in
  claims but for their order; the size of tokens and dollars.
- *Not concurrent here:* a person who flips flags during a recording (`lab/flags.py:149` reads,
  changes and writes the whole configuration, and nothing would hold), two batches at once, unpacking
  over a library that is there.
- *Without effect:* `review()` of the service, `should_escalate`, `floor_reason_for`,
  `load_feature_flags` and `agreement`, which change nothing or have no caller.

## 9. The plan

Order: what changes the outside world first, then what is published, then what feeds both. Modules
to be proved about declare no `RECURSIVE` operator and take their sizes as constants.

| step | modules | what is left |
|---|---|---|
| 1 remediation | `AuditChain`, `OnceOnly`, `ApprovalService`, `RecoveryWatch`, `ApprovalWorkflow` | proved; nothing |
| 2 publication | `ExitGate`, `Investigation` | proved; nothing |
| 3 models and tools | `BudgetedCall`, `ModelCall`, `Tools`, `React` | proved; nothing |
| 4 lab | `Recorder`, `Release` | proved; nothing |
| 5 knowledge and triage | `KnowledgeGraph`, `Telemetry`, `Ranking`, `Searches`, `Triage` | proved; nothing |
| 6 evaluation | `Grading`, `Learning`, `Evaluation` | proved; nothing |

`PROJECT.json` lists the components, the hazards with their lines and the properties that cover them,
and the map from definitions to source lines.
