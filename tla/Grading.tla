------------------------------ MODULE Grading ------------------------------
(***************************************************************************)
(* What an evaluation computes from an answer and a label: the graders     *)
(* (evals/graders.py), the per task scores (evals/metrics.py), the         *)
(* statistics over them (evals/statistics.py) and the score an optimiser   *)
(* is given (optimize/gepa.py).                                            *)
(*                                                                         *)
(* A trial is [bundle, label, outcome]: an outcome is what one             *)
(* investigation claims, a label is what was really wrong.  Trials are     *)
(* numbered: what a grader or a bin is about is the trials of some of the  *)
(* numbers.  Shares are exact fractions <<numerator, denominator>> and     *)
(* confidences are whole percents, so that nothing here is rounded.        *)
(***************************************************************************)
EXTENDS Integers, Sequences, FiniteSets, SequencesExt, FiniteSetsExt, Functions

CONSTANTS
  NoService,        \* None: a label of a healthy system, an answer naming nobody
  Nothing           \* None: no confidence, no fault class, no onset, no remediation

----------------------------------------------------------------------------
(* Fractions *)

LeqRatio(a, b) == a[1] * b[2] <= b[1] * a[2]

SumRatio(a, b) == IF a[2] = b[2] THEN <<a[1] + b[1], a[2]>> ELSE <<a[1] * b[2] + b[1] * a[2], a[2] * b[2]>>

MinusRatio(a, b) == SumRatio(a, <<-b[1], b[2]>>)

\* statistics.mean, of the values of a function.
Mean(values) ==
  LET total == FoldFunction(SumRatio, <<0, 1>>, values)
  IN <<total[1], total[2] * Cardinality(DOMAIN values)>>

----------------------------------------------------------------------------
(* The graders: each says "correct", "incorrect" or "not_applicable" *)

TopK == 3

OnsetTolerance == 60

Graders == {"root_cause", "root_cause_top3", "fault_class", "onset", "abstention",
            "evidence_validity", "remediation"}

Verdict(right) == IF right THEN "correct" ELSE "incorrect"

\* outcome.rank_of: only the ranked candidates count, not the service named.
RankOf(outcome, service) ==
  IF \E k \in DOMAIN outcome.ranked : outcome.ranked[k] = service
    THEN CHOOSE k \in DOMAIN outcome.ranked :
           /\ outcome.ranked[k] = service
           /\ \A j \in 1 .. k - 1 : outcome.ranked[j] # service
    ELSE 0

GradeRootCause(outcome, label) ==
  IF label.target = NoService THEN "not_applicable"
  ELSE Verdict(~outcome.abstained /\ outcome.service = label.target)

GradeRootCauseTopK(outcome, label) ==
  IF label.target = NoService THEN "not_applicable"
  ELSE Verdict(RankOf(outcome, label.target) \in 1 .. TopK)

GradeFaultClass(outcome, label) ==
  IF label.class = "unknown" \/ outcome.class = Nothing THEN "not_applicable"
  ELSE Verdict(outcome.class = label.class)

GradeOnset(outcome, label) ==
  IF label.onset = Nothing \/ outcome.onset = Nothing THEN "not_applicable"
  ELSE Verdict(outcome.onset - label.onset \in -OnsetTolerance .. OnsetTolerance)

GradeAbstention(outcome, label) ==
  Verdict(IF label.target = NoService
            THEN outcome.abstained \/ outcome.service = NoService
            ELSE ~outcome.abstained)

GradeEvidenceValidity(outcome) ==
  IF outcome.cited = {} /\ outcome.abstained THEN "not_applicable"
  ELSE Verdict(outcome.cited # {} /\ outcome.cited \subseteq outcome.gathered)

GradeRemediation(outcome, label, allowed) ==
  IF outcome.remedy = Nothing THEN "not_applicable"
  ELSE Verdict(/\ outcome.remedy.id \in allowed
               /\ IF label.flag # Nothing
                    THEN outcome.remedy.flag = label.flag
                    ELSE /\ label.target # NoService
                         /\ outcome.remedy.service = label.target)

\* graders.grade_trial: the sheet of one trial.
GradeTrial(outcome, label, allowed) ==
  [root_cause        |-> GradeRootCause(outcome, label),
   root_cause_top3   |-> GradeRootCauseTopK(outcome, label),
   fault_class       |-> GradeFaultClass(outcome, label),
   onset             |-> GradeOnset(outcome, label),
   abstention        |-> GradeAbstention(outcome, label),
   evidence_validity |-> GradeEvidenceValidity(outcome),
   remediation       |-> GradeRemediation(outcome, label, allowed)]

Sheet(trial) == GradeTrial(trial.outcome, trial.label, trial.allowed)

Applies(sheet, grader) == sheet[grader] # "not_applicable"

\* GradeSheet.correct_root_cause, what the headline counts.
CorrectRootCause(sheet) ==
  IF Applies(sheet, "root_cause") THEN sheet.root_cause = "correct" ELSE sheet.abstention = "correct"

----------------------------------------------------------------------------
(* Scores of a task: the share of its trials that were right *)

Those(trials, Test(_)) == Restrict(trials, {n \in DOMAIN trials : Test(trials[n])})

Size(trials) == Cardinality(DOMAIN trials)

CountTrials(trials, Test(_)) == Size(Those(trials, Test))

TrialsOf(trials, bundle) == Those(trials, LAMBDA t : t.bundle = bundle)

Bundles(trials) == {trials[i].bundle : i \in DOMAIN trials}

\* metrics.per_task_scores: what the report's intervals resample.
PerTaskScores(trials, grader) ==
  LET graded == Those(trials, LAMBDA t : Applies(Sheet(t), grader))
  IN [b \in Bundles(graded) |->
        <<CountTrials(TrialsOf(graded, b), LAMBDA t : Sheet(t)[grader] = "correct"), Size(TrialsOf(graded, b))>>]

\* metrics.per_task_table: what the report stores for later comparisons.
PerTaskTable(trials) ==
  [b \in Bundles(trials) |->
     LET mine == TrialsOf(trials, b)
         Said(grader) == CountTrials(mine, LAMBDA t : Applies(Sheet(t), grader))
         Right(grader) == CountTrials(mine, LAMBDA t : Sheet(t)[grader] = "correct")
     IN [grader \in {g \in Graders : Said(g) > 0} |-> <<Right(grader), Said(grader)>>]]

\* metrics.headline_scores
HeadlineScores(trials) ==
  [b \in Bundles(trials) |->
     <<CountTrials(TrialsOf(trials, b), LAMBDA t : CorrectRootCause(Sheet(t))), Size(TrialsOf(trials, b))>>]

\* metrics.summarise_graders: over the trials a grader applied to, of how many.
SummariseGraders(trials) ==
  LET Said(grader) == CountTrials(trials, LAMBDA t : Applies(Sheet(t), grader))
  IN [grader \in {g \in Graders : Said(g) > 0} |->
        [applicable |-> Said(grader),
         correct    |-> CountTrials(trials, LAMBDA t : Sheet(t)[grader] = "correct"),
         trials     |-> Size(trials)]]

----------------------------------------------------------------------------
(* Confidence *)

Confident(trials) == Those(trials, LAMBDA t : t.outcome.confidence # Nothing)

\* statistics.calibration: ten bins, chosen by int(confidence / 0.1).  That
\* quotient of doubles is just below 3, 6 and 7 at 0.3, 0.6 and 0.7, so those
\* confidences fall in the bin below the one whose lower edge they are.
BinOf(percent) ==
  IF percent \in {30, 60, 70} THEN percent \div 10 - 1
  ELSE IF percent = 100 THEN 9 ELSE percent \div 10

InBin(trials, k) == Those(Confident(trials), LAMBDA t : BinOf(t.outcome.confidence) = k)

RightIn(trials) == CountTrials(trials, LAMBDA t : CorrectRootCause(Sheet(t)))

\* Sum of the stated percents, in hundredths of a prediction.
Stated(trials) == SumFunction([n \in DOMAIN trials |-> trials[n].outcome.confidence])

Magnitude(n) == IF n < 0 THEN -n ELSE n

\* A bin's distance between the mean confidence and the accuracy, times its
\* number of predictions, in hundredths.
BinGap(trials, k) ==
  LET members == InBin(trials, k) IN Magnitude(Stated(members) - 100 * RightIn(members))

\* <<weighted gap, predictions * 100>>
ExpectedCalibrationError(trials) ==
  <<SumFunction([k \in 0 .. 9 |-> BinGap(trials, k)]), 100 * Size(Confident(trials))>>

\* The squared distance of one stated confidence from what happened, in
\* ten-thousandths: statistics.brier_score and gate._confidence_gaps.
SquaredGap(t) ==
  LET off == t.outcome.confidence - IF CorrectRootCause(Sheet(t)) THEN 100 ELSE 0 IN off * off

BrierScore(trials) ==
  LET stated == Confident(trials)
  IN <<SumFunction([n \in DOMAIN stated |-> SquaredGap(stated[n])]), 10000 * Size(stated)>>

\* statistics.selective_accuracy: coverage, accuracy where it answered, and
\* the curve of both as the confidence asked for rises.  No curve unless every
\* trial stated one: then the single point of no threshold.
Answered(trials) == Those(trials, LAMBDA t : ~t.outcome.abstained)

PointAt(trials, kept, threshold) ==
  [threshold |-> threshold,
   coverage  |-> <<Size(kept), Size(trials)>>,
   accuracy  |-> IF DOMAIN kept = {} THEN <<0, 1>> ELSE <<RightIn(kept), Size(kept)>>]

RiskCoverageCurve(trials) ==
  LET Kept(c) == Those(Answered(trials), LAMBDA t : t.outcome.confidence >= c)
      all == {trials[i].outcome.confidence : i \in DOMAIN trials}
  IN IF Nothing \in all
       THEN {PointAt(trials, Answered(trials), 0)}
       ELSE {PointAt(trials, Kept(c), c) : c \in all \cup {0}}

----------------------------------------------------------------------------
(* Repetition *)

\* math.comb(n, k)
Comb(n, k) == Cardinality(kSubset(k, 1 .. n))

\* statistics.pass_at_k and pass_hat_k, of correct trials out of n.
PassAtK(correct, n, k) ==
  IF n - correct < k THEN <<1, 1>> ELSE <<Comb(n, k) - Comb(n - correct, k), Comb(n, k)>>

\* Mutant: trials are drawn with replacement.
PassHatPower(correct, n, k) == <<correct^k, n^k>>

PassHatK(correct, n, k) == IF correct < k THEN <<0, 1>> ELSE <<Comb(correct, k), Comb(n, k)>>

\* statistics.reliability: the means over the tasks; an error unless every
\* task has as many trials, which the caller's loop gives it.
Reliability(trials, k) ==
  LET scores == HeadlineScores(trials)
  IN [pass_at_1  |-> Mean([b \in DOMAIN scores |-> PassAtK(scores[b][1], scores[b][2], 1)]),
      pass_hat_k |-> Mean([b \in DOMAIN scores |-> PassHatK(scores[b][1], scores[b][2], k)])]

----------------------------------------------------------------------------
(* What an optimiser maximises (gepa.score), in ten-thousandths of a hundredth *)

WeightCorrectness == 55
WeightEvidence == 30
WeightCalibration == 15

\* gepa._calibration_term: no stated confidence scores a full mark.
CalibrationTerm(stated, right) ==
  IF stated = Nothing THEN 10000
  ELSE LET off == stated - IF right THEN 100 ELSE 0 IN 10000 - off * off

OptimiserScore(trial) ==
  LET right == Sheet(trial).root_cause = "correct"
      supported == Sheet(trial).evidence_validity = "correct"
  IN WeightCorrectness * (IF right THEN 10000 ELSE 0)
       + WeightEvidence * (IF supported THEN 10000 ELSE 0)
       + WeightCalibration * CalibrationTerm(trial.outcome.confidence, right)
=============================================================================
