----------------------------- MODULE Evaluation -----------------------------
(***************************************************************************)
(* The evaluation commands over the label store of Learning: `eval run`,   *)
(* `eval gate` and `eval compare` (cli/eval.py), the determinism check     *)
(* (scripts/eval_regression.py) and the prompt optimiser                   *)
(* (scripts/optimize_prompt.py, optimize/gepa.py).  All but compare are    *)
(* made of sides: evals/runner.run_configuration collects the tasks of a   *)
(* split, grades every trial, and then counts what the split covers.       *)
(*                                                                         *)
(* Bundles, labels and the working tree may change between any two steps   *)
(* of a job.  All jobs run on one day.                                     *)
(***************************************************************************)
EXTENDS Learning

CONSTANTS
  Shelf,            \* the incidents, in the order their bundle ids sort
  Scripts,          \* bound: [jobs, stores, trees], the commands given in
                    \* turn, and how often the store and the tree change
  Outcomes(_),      \* what a configuration may answer
  Fragile,          \* configurations whose investigation may raise
  Allowed,          \* the remediation allowlist
  Rules,            \* gate metric -> [grader, margin], margins in percent
  CalibrationMargin, CostIncrease, IgnoreBelow, MinimumTasks

VARIABLES
  job,              \* the command: [kind, configs, split, limit, repeat]
  at,               \* its next step, "idle" when there is none
  tasks,            \* the tasks of the current side still to try, by shelf place
  real,             \* they are recorded bundles, not fixtures
  trials,           \* the trials graded so far in this side
  sides,            \* the sides finished
  reports,          \* the reports on disk: path -> report
  newest,           \* <<configuration, split>> -> the path last written for them
  verdict,          \* what the last job said
  tree,             \* [commit, dirty] of the working tree
  code,             \* the tree the running job's code was read from
  moved,            \* what changed since the job started: "tree", "store"
  todo              \* what is left of the script

jobVars == <<job, at, tasks, real, trials, sides, verdict, code>>

vars == <<learningVars, jobVars, reports, newest, tree, moved, todo>>

NoJob == [kind |-> "none", configs |-> <<>>, split |-> "train", limit |-> 0, repeat |-> 1]

ResultSplits == {"test_id", "test_ood"}

AllowedSplit == "train"

Kinds == {"run", "gate", "compare", "regression", "optimize"}

\* A configuration is one of a closed set of names (runner.CONFIGURATIONS).
Jobs == [kind: Kinds, configs: Seq(STRING), split: Splits, limit: Nat, repeat: Nat \ {0}]

\* Bundle ids are the names of directories, and a fixture's is never one of
\* them.  A command measures something at least once; the optimiser has no
\* split to choose.
ASSUME EvaluationAssumption ==
  /\ Shelf \in Seq(Incidents)
  /\ \A j, k \in DOMAIN Shelf : Shelf[j] = Shelf[k] => j = k
  /\ \A s \in Scenarios : <<"fixture", s>> \notin Incidents
  /\ \A script \in Scripts :
       /\ script \in [jobs: Seq(Jobs), stores: Nat, trees: Nat]
       /\ \A k \in DOMAIN script.jobs :
            /\ script.jobs[k].configs # <<>>
            /\ script.jobs[k].kind = "optimize" => script.jobs[k].split = AllowedSplit

\* A confidence is a share, between nothing and certainty (outcome.py).
ASSUME OutcomeAssumption ==
  \A script \in Scripts : \A k \in DOMAIN script.jobs : \A n \in DOMAIN script.jobs[k].configs :
    \A outcome \in Outcomes(script.jobs[k].configs[n]) : outcome.confidence \in (0 .. 100) \cup {Nothing}

----------------------------------------------------------------------------
(* runner.run_configuration *)

Fixture(s) == <<"fixture", s>>

\* runner._synthetic_label: no onset is claimed for a fixture.
SyntheticLabel(s) == [RecorderLabel(s) EXCEPT !.bundle = Fixture(s), !.onset = Nothing]

Task(bundle, label) == [bundle |-> bundle, label |-> label]

RecordedTasks(split) ==
  LET mine == {k \in DOMAIN Shelf : Shelf[k] \in bundles \cap Labelled /\ LabelOf(Shelf[k]).split = split}
  IN [k \in mine |-> Task(Shelf[k], LabelOf(Shelf[k]))]

SyntheticTasks(split) ==
  LET mine == {k \in DOMAIN Shelf : Shelf[k] \in Scenarios /\ Library[Shelf[k]].split = split}
  IN [k \in mine |-> Task(Fixture(Shelf[k]), SyntheticLabel(Shelf[k]))]

Recorded(split) == DOMAIN RecordedTasks(split) # {}

\* runner.collect_tasks: recorded bundles alone, if the split has any.
CollectTasks(split, limit) ==
  LET chosen == IF Recorded(split) THEN RecordedTasks(split) ELSE SyntheticTasks(split)
      Before(k) == {j \in DOMAIN chosen : j < k}
  IN Restrict(chosen, {k \in DOMAIN chosen : limit = 0 \/ Cardinality(Before(k)) < limit})

\* runner.split_coverage
Total(split) == Cardinality({s \in Scenarios : Library[s].split = split})

Covered(split) ==
  Cardinality({LabelOf(i).scenario : i \in {j \in bundles \cap Labelled : LabelOf(j).split = split}}
                \cap Scenarios)

Config == job.configs[Len(sides) + 1]

\* The job ends, having said this.
Say(said) ==
  /\ verdict' = said
  /\ at' = "idle"

\* An error nothing catches, or a RunnerError the command reports.
Fail(why) ==
  /\ Say([said |-> why])
  /\ UNCHANGED <<tasks, real, trials, sides>>

Start ==
  /\ at = "idle"
  /\ todo.jobs # <<>>
  /\ todo' = [todo EXCEPT !.jobs = Tail(@)]
  /\ job' = Head(todo.jobs)
  /\ at' = IF job'.kind = "compare" THEN "finish" ELSE "collect"
  /\ tasks' = <<>> /\ real' = FALSE /\ trials' = <<>> /\ sides' = <<>>
  /\ verdict' = [said |-> "nothing"]
  /\ moved' = {} /\ code' = tree
  /\ UNCHANGED <<learningVars, reports, newest, tree>>

Collect ==
  /\ at = "collect"
  /\ IF ~LabelsReadable THEN Fail("validation_error")
     ELSE LET found == CollectTasks(job.split, job.limit) IN
       IF DOMAIN found = {} THEN Fail("no_tasks")
       ELSE /\ tasks' = found
            /\ real' = Recorded(job.split)
            /\ trials' = <<>>
            /\ at' = "grade"
            /\ UNCHANGED <<sides, verdict>>
  /\ UNCHANGED <<learningVars, job, code, reports, newest, tree, moved, todo>>

\* The place of the task whose turn it is, and the task.
Turn == Min(DOMAIN tasks)

Current == tasks[Turn]

\* Mutant: the last trial of a side is followed by one more.
GradeOneMore ==
  /\ at = "grade"
  /\ \E outcome \in Outcomes(Config) :
       trials' = Append(trials, [bundle |-> Current.bundle, label |-> Current.label,
                                 outcome |-> outcome, allowed |-> Allowed])
  /\ tasks' = IF Len(trials') % job.repeat = 0 THEN Restrict(tasks, DOMAIN tasks \ {Turn}) ELSE tasks
  /\ at' = IF DOMAIN tasks = {} THEN "cover" ELSE "grade"
  /\ UNCHANGED <<learningVars, job, code, real, sides, verdict, reports, newest, tree, moved, todo>>

\* Every task is tried `repeat` times in a row.
Grade ==
  /\ at = "grade"
  /\ \E outcome \in Outcomes(Config) :
       trials' = Append(trials, [bundle |-> Current.bundle, label |-> Current.label,
                                 outcome |-> outcome, allowed |-> Allowed])
  /\ tasks' = IF Len(trials') % job.repeat = 0 THEN Restrict(tasks, DOMAIN tasks \ {Turn}) ELSE tasks
  /\ at' = IF DOMAIN tasks' = {} THEN "cover" ELSE "grade"
  /\ UNCHANGED <<learningVars, job, code, real, sides, verdict, reports, newest, tree, moved, todo>>

Raise ==
  /\ at = "grade"
  /\ Config \in Fragile
  /\ Fail("raised")
  /\ UNCHANGED <<learningVars, job, code, reports, newest, tree, moved, todo>>

\* The labels are read again to count what of the split is recorded.
Cover ==
  /\ at = "cover"
  /\ IF ~LabelsReadable THEN Fail("validation_error")
     ELSE /\ sides' = Append(sides, [config |-> Config, split |-> job.split, real |-> real, trials |-> trials,
                                     covered |-> Covered(job.split), total |-> Total(job.split)])
          /\ at' = IF Len(sides') = Len(job.configs) THEN "finish" ELSE "collect"
          /\ UNCHANGED <<tasks, real, trials, verdict>>
  /\ UNCHANGED <<learningVars, job, code, reports, newest, tree, moved, todo>>

----------------------------------------------------------------------------
(* eval run: evals/report.py *)

Evaluated(side) == {side.trials[k].label.scenario : k \in DOMAIN side.trials}

\* EvalReport.model_provenance_valid
ProvenanceValid(side) ==
  \/ side.config = "b0"
  \/ \A k \in DOMAIN side.trials : side.trials[k].outcome.mode \in {"api", "local"}

PartialCoverage(side) == side.real /\ side.covered > 0 /\ side.covered < side.total

\* EvalReport.quotable
Quotable(side) ==
  /\ side.real
  /\ side.split \in ResultSplits
  /\ ~PartialCoverage(side)
  /\ side.covered = side.total
  /\ side.total > 0
  /\ Cardinality(Evaluated(side)) = side.total
  /\ ProvenanceValid(side)

\* Mutant: the path does not say that the tree was modified.
CleanPath(side, stamp) == <<side.config, side.split, stamp.commit, FALSE>>

\* report.report_paths on one day; the stamp is taken when the report is built.
ReportPath(side, stamp) == <<side.config, side.split, stamp.commit, stamp.dirty>>

ReportOf(side) ==
  [path |-> ReportPath(side, tree), config |-> side.config, split |-> side.split,
   stamp |-> tree, code |-> code, during |-> moved, quotable |-> Quotable(side),
   graded |-> LET table == PerTaskTable(side.trials) IN [b \in DOMAIN table |-> DOMAIN table[b]],
   truth |-> [b \in Bundles(side.trials) |-> (CHOOSE t \in Range(side.trials) : t.bundle = b).label]]

\* report.write_report: whatever was at that path is replaced.
WriteReport ==
  /\ at = "finish" /\ job.kind = "run"
  /\ LET report == ReportOf(sides[1])
         folder == <<report.config, report.split>>
     IN /\ reports' = [p \in DOMAIN reports \cup {report.path} |-> IF p = report.path THEN report ELSE reports[p]]
        /\ newest' = [f \in DOMAIN newest \cup {folder} |-> IF f = folder THEN report.path ELSE newest[f]]
  /\ Say([said |-> "written"])
  /\ UNCHANGED <<learningVars, job, code, tasks, real, trials, sides, tree, moved, todo>>

----------------------------------------------------------------------------
(* eval gate: evals/gate.py *)

\* statistics.bootstrap_mean: an interval around the mean of the differences.
\* What resampling gives is narrow or as wide as the observations.
Interval(values, wide) ==
  LET mean == Mean(values)
      Extreme(Beats(_, _)) ==
        values[CHOOSE b \in DOMAIN values : \A c \in DOMAIN values : Beats(values[b], values[c])]
  IN IF wide
       THEN [lower |-> Extreme(LeqRatio), mean |-> mean, upper |-> Extreme(LAMBDA x, y : LeqRatio(y, x))]
       ELSE [lower |-> mean, mean |-> mean, upper |-> mean]

\* gate._paired and paired_bootstrap_difference
Paired(candidate, baseline) ==
  [b \in DOMAIN candidate \cap DOMAIN baseline |-> MinusRatio(candidate[b], baseline[b])]

\* One metric of the gate: a metric no task shares passes.
MetricCheck(rule, candidate, baseline, wide) ==
  LET values == Paired(PerTaskScores(candidate, rule.grader), PerTaskScores(baseline, rule.grader))
      bounds == Interval(values, wide)
      floor == <<-rule.margin, 100>>
  IN IF DOMAIN values = {} THEN "passed"
     ELSE IF LeqRatio(floor, bounds.lower) THEN "passed"
     ELSE IF LeqRatio(floor, bounds.mean) THEN "underpowered"
     ELSE "failed"

\* gate._confidence_gaps: the mean squared gap of each task that states one.
ConfidenceGaps(ts) ==
  LET stated == Confident(ts) IN
    [b \in Bundles(stated) |-> BrierScore(TrialsOf(stated, b))]

\* gate._check_calibration: silence when either side states no confidence.
CalibrationCheck(candidate, baseline, wide) ==
  LET values == Paired(ConfidenceGaps(candidate), ConfidenceGaps(baseline))
      bounds == Interval(values, wide)
      ceiling == <<CalibrationMargin, 100>>
  IN IF DOMAIN values = {} THEN "passed"
     ELSE IF LeqRatio(bounds.upper, ceiling) THEN "passed"
     ELSE IF LeqRatio(bounds.mean, ceiling) THEN "underpowered"
     ELSE "failed"

\* Twice the median of what the trials cost.
MedianCost(ts) ==
  LET usd == SortSeq([k \in DOMAIN ts |-> ts[k].outcome.usd], <)
      n == Len(usd)
  IN usd[(n + 1) \div 2] + usd[(n + 2) \div 2]

\* gate._check_cost
CostPasses(candidate, baseline) ==
  LET c == MedianCost(candidate)
      b == MedianCost(baseline)
  IN \/ c < 2 * IgnoreBelow /\ b < 2 * IgnoreBelow
     \/ b <= 0
     \/ 100 * (c - b) <= CostIncrease * b

\* gate.evaluate_gate, in the order it decides; wide: the checks whose
\* intervals came out wide.
EvaluateGate(candidate, baseline, wide) ==
  LET checks == {MetricCheck(Rules[m], candidate, baseline, m \in wide) : m \in DOMAIN Rules}
      calibrated == CalibrationCheck(candidate, baseline, "calibration" \in wide)
  IN IF Cardinality(Bundles(candidate)) < MinimumTasks THEN "INCONCLUSIVE"
     ELSE IF "failed" \in checks THEN "FAIL_QUALITY"
     ELSE IF "underpowered" \in checks THEN "INCONCLUSIVE"
     ELSE IF calibrated = "underpowered" THEN "INCONCLUSIVE"
     ELSE IF calibrated = "failed" THEN "FAIL_CALIBRATION"
     ELSE IF ~CostPasses(candidate, baseline) THEN "FAIL_COST"
     ELSE "PASS"

Gate ==
  /\ at = "finish" /\ job.kind = "gate"
  /\ \E wide \in SUBSET (DOMAIN Rules \cup {"calibration"}) :
       Say([said |-> EvaluateGate(sides[1].trials, sides[2].trials, wide)])
  /\ UNCHANGED <<learningVars, job, code, tasks, real, trials, sides, reports, newest, tree, moved, todo>>

----------------------------------------------------------------------------
(* eval compare: the reports written last, and evals/compare.py *)

\* eval._latest_report
LatestReport(config, split) == reports[newest[<<config, split>>]]

Compare ==
  /\ at = "finish" /\ job.kind = "compare"
  /\ LET treatment == LatestReport(job.configs[1], job.split)
         control == LatestReport(job.configs[2], job.split)
         shared == DOMAIN treatment.graded \cap DOMAIN control.graded
     IN IF \E n \in {1, 2} : <<job.configs[n], job.split>> \notin DOMAIN newest THEN Say([said |-> "no_reports"])
        ELSE IF job.configs[1] = job.configs[2] \/ shared = {} THEN Say([said |-> "refused"])
        ELSE Say([said |-> "compared", treatment |-> treatment, control |-> control,
                  paired |-> [g \in Graders |-> {b \in shared : g \in treatment.graded[b] \cap control.graded[b]}]])
  /\ UNCHANGED <<learningVars, job, code, tasks, real, trials, sides, reports, newest, tree, moved, todo>>

----------------------------------------------------------------------------
(* scripts/eval_regression.py: one configuration twice *)

\* fingerprint: everything of an outcome but how long it took and what it cost.
Fingerprint(outcome) == [field \in DOMAIN outcome \ {"usd", "mode", "gathered", "onset", "remedy"} |-> outcome[field]]

SameAnswers(a, b) ==
  /\ Bundles(a) = Bundles(b)
  /\ \A i \in DOMAIN a, j \in DOMAIN b :
       a[i].bundle = b[j].bundle => Fingerprint(a[i].outcome) = Fingerprint(b[j].outcome)

Regression ==
  /\ at = "finish" /\ job.kind = "regression"
  /\ Say([said |-> IF SameAnswers(sides[1].trials, sides[2].trials) THEN "identical" ELSE "differs"])
  /\ UNCHANGED <<learningVars, job, code, tasks, real, trials, sides, reports, newest, tree, moved, todo>>

----------------------------------------------------------------------------
(* The optimiser *)

\* optimize_prompt.run_candidate: the body of the candidate prompt is dropped
\* and the trial graded before any candidate is returned.
RunCandidate(body, trial) == trial

\* gepa._mean_score, as a sum: both prompts are scored on the same tasks.
TrainScore(body, ts) == FoldSeq(LAMBDA t, sum : OptimiserScore(RunCandidate(body, t)) + sum, 0, ts)

\* gepa.build_trainset refuses a task whose label is not train; then
\* gepa.optimize_node, with a reflection model or without, writes the
\* candidate of a node only when it scored better.
Optimize(reflection) ==
  /\ at = "finish" /\ job.kind = "optimize"
  /\ LET ts == sides[1].trials
         gain == TrainScore("candidate", ts) - TrainScore("baseline", ts)
     IN IF \E k \in DOMAIN ts : ts[k].label.split # AllowedSplit THEN Say([said |-> "leakage"])
        ELSE Say([said |-> "optimized", ran |-> reflection, candidate |-> reflection /\ gain > 0])
  /\ UNCHANGED <<learningVars, job, code, tasks, real, trials, sides, reports, newest, tree, moved, todo>>

----------------------------------------------------------------------------
(* What happens around a job *)

Stored ==
  /\ todo.stores > 0
  /\ todo' = [todo EXCEPT !.stores = @ - 1]
  /\ \/ StoreStep /\ moved' = moved \cup {"store"}
     \/ QuietStep /\ moved' = moved
  /\ UNCHANGED <<jobVars, reports, newest, tree>>

\* An edit, a commit of what was edited, or its return to the commit.
TreeMoves(to) ==
  /\ todo.trees > 0
  /\ todo' = [todo EXCEPT !.trees = @ - 1]
  /\ tree' = to
  /\ moved' = moved \cup {"tree"}
  /\ UNCHANGED <<learningVars, jobVars, reports, newest>>

Edit == TreeMoves([tree EXCEPT !.dirty = TRUE])

Commit == tree.dirty /\ TreeMoves([tree EXCEPT !.commit = @ + 1, !.dirty = FALSE])

Revert == tree.dirty /\ TreeMoves([tree EXCEPT !.dirty = FALSE])

Init ==
  /\ LearningInit
  /\ job = NoJob /\ at = "idle" /\ todo \in Scripts
  /\ tasks = <<>> /\ real = FALSE /\ trials = <<>> /\ sides = <<>>
  /\ reports = <<>> /\ newest = <<>>
  /\ verdict = [said |-> "nothing"]
  /\ tree = [commit |-> 0, dirty |-> FALSE]
  /\ moved = {} /\ code = tree

Step ==
  \/ Collect \/ Grade \/ Raise \/ Cover
  \/ WriteReport \/ Gate \/ Compare \/ Regression
  \/ \E reflection \in BOOLEAN : Optimize(reflection)

Next == Step \/ Start \/ Stored \/ Edit \/ Commit \/ Revert

Spec == Init /\ [][Next]_vars

----------------------------------------------------------------------------
(* Properties *)

Entry == [incident: Incidents, scenario: Scenarios \cup Named \cup {Promoted(i) : i \in Incidents}, split: Splits]

\* Every variable holds what the code could hold in it.
TypeOK ==
  /\ \A k \in DOMAIN feedback : feedback[k] \in Answers \cup {Torn}
  /\ bundles \subseteq Incidents
  /\ \A path \in DOMAIN labels :
       /\ path \in {Recorder(s) : s \in Scenarios} \cup {Promoted(i) : i \in Incidents}
       /\ labels[path].label.bundle = path[2]
       /\ labels[path].state \in {"open", "torn", "whole"}
  /\ \A k \in DOMAIN memory : memory[k] \in Entry
  /\ \A l \in Learners : admitting[l] \in Entry \cup {Nothing}
  /\ at \in {"idle", "collect", "grade", "cover", "finish"}
  /\ DOMAIN tasks \subseteq DOMAIN Shelf
  /\ at = "grade" => DOMAIN tasks # {}
  /\ Len(sides) <= Len(job.configs)
  /\ real \in BOOLEAN /\ tree.dirty \in BOOLEAN /\ moved \subseteq {"store", "tree"}

\* A side is measured on recordings alone or on fixtures alone, however much
\* of the split is recorded and whatever is recorded meanwhile
\* (runner.collect_tasks: all or nothing within a split).
OneKindOfData ==
  \A n \in DOMAIN sides : \A k \in DOMAIN sides[n].trials :
    (sides[n].trials[k].bundle \in Incidents) = sides[n].real

\* A report that may be quoted measured recordings of every scenario of its
\* split, although coverage is counted from labels read after the trials and
\* what was evaluated is compared with it by number only.  The exception is
\* the code's: a promoted incident may be said to belong to any scenario, and
\* counts as one of those evaluated (report.quotable).
QuotableIsWhole ==
  \A p \in DOMAIN reports :
    LET wanted == {s \in Scenarios : Library[s].split = reports[p].split}
        evaluated == {reports[p].truth[b].scenario : b \in DOMAIN reports[p].truth}
    IN reports[p].quotable =>
         /\ DOMAIN reports[p].truth \subseteq Incidents
         /\ wanted \subseteq evaluated \/ ~(evaluated \subseteq wanted)

\* Unless bundles or labels changed while it ran, both sides of a gate, and
\* both runs of the determinism check, have the same tasks with the same
\* answers, so that a PASS is never one over nothing in common.
LikeWithLike ==
  Len(sides) = 2 /\ "store" \notin moved =>
    \A a \in DOMAIN sides[1].trials : \E b \in DOMAIN sides[2].trials :
      /\ sides[1].trials[a].bundle = sides[2].trials[b].bundle
      /\ sides[1].trials[a].label = sides[2].trials[b].label

\* A report's path names the tree it was measured on: numbers measured on a
\* modified tree take the place of a commit's, or stand under its name, only
\* if the tree was changed while they were measured (report.git_commit).
StampIsTheCode ==
  \A p \in DOMAIN reports :
    /\ <<p[3], p[4]>> = <<reports[p].stamp.commit, reports[p].stamp.dirty>>
    /\ "tree" \notin reports[p].during => <<p[3], p[4]>> = <<reports[p].code.commit, reports[p].code.dirty>>

\* A label file that was cut short ends every evaluation that has still to
\* read the labels, whatever its split: no side is begun or finished with one
\* on disk (load_labels validates every file, and nothing repairs one).
TornLabelStopsRuns ==
  [][(\E path \in DOMAIN labels : labels[path].state = "torn") =>
       /\ ~(at = "collect" /\ at' = "grade")
       /\ Len(sides') <= Len(sides)]_vars

\* What the library holds out reaches memory, the optimiser or a report on
\* train only after a person promoted that very incident, so a recorder's
\* label alone never lets a held out bundle be learned from.
HeldOutOnlyByPromotion ==
  LET Learned(b) == (b \in Scenarios => Library[b].split = "train") \/ Promoted(b) \in DOMAIN labels IN
    /\ \A k \in DOMAIN memory : Learned(memory[k].incident)
    /\ \A l \in Learners : admitting[l] # Nothing => Learned(admitting[l].incident)
    /\ job.kind = "optimize" => \A k \in DOMAIN trials : Learned(trials[k].bundle)
    /\ \A p \in DOMAIN reports : reports[p].split = "train" => \A b \in DOMAIN reports[p].truth : Learned(b)

\* The first promotion of an incident is its truth for good: a second answer,
\* a second decision or a crash in between never changes a promoted label
\* (feedback.promote creates its file or fails).
PromotionStands ==
  [][\A i \in Incidents :
       Promoted(i) \in DOMAIN labels =>
         /\ Promoted(i) \in DOMAIN labels'
         /\ labels'[Promoted(i)].label = labels[Promoted(i)].label]_vars

\* An incident is in memory more than once only because processes read the
\* file before any of them appended: never oftener than there are processes
\* (MemoryStore.admit reads, then appends, under no lock).
RepeatsAreRaces ==
  \A i \in Incidents :
    Cardinality({k \in DOMAIN memory : memory[k].incident = i}) <= Cardinality(Learners)

\* Two reports are compared on a bundle under different answers only if that
\* bundle was promoted: a fixture and a recording are never taken for one
\* task (compare pairs tasks by bundle id).
ComparedOnOneTruth ==
  verdict.said = "compared" =>
    \A b \in UNION {verdict.paired[g] : g \in Graders} :
      \/ verdict.treatment.truth[b] = verdict.control.truth[b]
      \/ Promoted(b) \in DOMAIN labels

\* The table a report stores for later comparisons has the scores its own
\* intervals and the gate are computed from, grader by grader, though the
\* code gathers them three times (per_task_scores, per_task_table,
\* gate._grader_scores) and a grader that did not apply must count nowhere.
TableIsTheScores ==
  at = "cover" => \A grader \in Graders :
    LET scores == PerTaskScores(trials, grader)
        table == PerTaskTable(trials)
        summary == SummariseGraders(trials)
    IN /\ DOMAIN scores = {b \in DOMAIN table : grader \in DOMAIN table[b]}
       /\ \A b \in DOMAIN scores : scores[b] = table[b][grader]
       /\ grader \in DOMAIN summary <=> DOMAIN scores # {}
       /\ grader \in DOMAIN summary =>
            summary[grader].applicable = SumFunction([b \in DOMAIN scores |-> scores[b][2]])

\* pass^k is the share of the k-element choices of a task's trials that are
\* all right, pass@k of those with a right one, and pass^k never exceeds
\* pass@1 (statistics.pass_hat_k, pass_at_k, reliability at k = 3).
PassHatCountsChoices ==
  at = "cover" => \A b \in Bundles(trials), k \in 1 .. 3 :
    LET mine == TrialsOf(trials, b)
        right == {n \in DOMAIN mine : CorrectRootCause(Sheet(mine[n]))}
        choices == kSubset(k, DOMAIN mine)
        Share(Test(_)) == <<Cardinality({c \in choices : Test(c)}), Cardinality(choices)>>
        Same(x, y) == LeqRatio(x, y) /\ LeqRatio(y, x)
    IN k <= Size(mine) =>
         /\ Same(PassHatK(Cardinality(right), Size(mine), k), Share(LAMBDA c : c \subseteq right))
         /\ Same(PassAtK(Cardinality(right), Size(mine), k), Share(LAMBDA c : c \cap right # {}))
         /\ LeqRatio(Reliability(mine, k).pass_hat_k, Reliability(mine, k).pass_at_1)

\* The binned calibration error never exceeds the root of the Brier score,
\* whatever the bins, and every stated confidence is in one of them
\* (statistics.calibration, brier_score).
BinsNeverExceedBrier ==
  at = "cover" =>
    LET stated == Confident(trials)
        gaps == ExpectedCalibrationError(trials)[1]
    IN /\ SumFunction([k \in 0 .. 9 |-> Size(InBin(trials, k))]) = Size(stated)
       /\ gaps * gaps <= BrierScore(trials)[1] * Size(stated)

\* Asking for more confidence never answers more of the trials, and asking
\* for none answers those that did not abstain
\* (statistics.selective_accuracy).
CoverageFalls ==
  at = "cover" =>
    LET curve == RiskCoverageCurve(trials) IN
      /\ \E p \in curve : p.threshold = 0 /\ p.coverage[1] = Size(Answered(trials))
      /\ \A p, q \in curve : p.threshold <= q.threshold => LeqRatio(q.coverage, p.coverage)

\* The numbers of a report or a gate are what they say they are: of one kind of
\* data, of the whole split when they may be quoted, of the code their stamp
\* names, and compared with numbers of the same tasks and the same answers,
\* though bundles, labels and the working tree change while trials run.
FiguresCanBeQuoted ==
  /\ OneKindOfData
  /\ QuotableIsWhole
  /\ StampIsTheCode
  /\ LikeWithLike
  /\ ComparedOnOneTruth

\* Nothing held out is learned from, and nothing learned counts more often than
\* the processes that could learn it at once.
LearningIsClean == HeldOutOnlyByPromotion /\ RepeatsAreRaces

\* A label file, once made, is neither replaced nor repaired: a whole promotion
\* stands, and a torn one stops every evaluation.
LabelsAreFinal == PromotionStands /\ TornLabelStopsRuns

\* Whatever the trials were, the statistics of a report agree with what they
\* are defined to count, and with each other where the code gathers them twice.
StatisticsAreRight == TableIsTheScores /\ PassHatCountsChoices /\ BinsNeverExceedBrier /\ CoverageFalls
=============================================================================
