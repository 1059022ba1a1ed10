------------------------------ MODULE Learning ------------------------------
(***************************************************************************)
(* How answers about past incidents become ground truth: the feedback file *)
(* the Console appends to (web/app.py, memory/feedback.py), the promotion  *)
(* of an answer to a label, the label files the recorder and promotions    *)
(* write (firebreak_eval_labels) and the incident memory (memory/store.py).*)
(*                                                                         *)
(* A label file is open while its writer is between creating it and        *)
(* filling it, torn for good if the writer died there, and whole after.    *)
(* A bundle of the library has the name of its scenario; the others are    *)
(* live incidents.  Nothing here locks a file.                             *)
(***************************************************************************)
EXTENDS Grading

CONSTANTS
  Library,          \* the scenarios of scenarios/specs, each [split, target, class] ...
  Live,             \* ... and the incidents no scenario describes
  AfterPromoted,    \* scenarios whose label directory sorts after "promoted"
  Answers,          \* the answers reviewers may submit, each once
  Decisions,        \* what a promotion may be asked for: [split, scenario, healthy]
  Starts,           \* what may be on disk at first: [bundles, feedback]
  Learners,         \* processes that admit to memory
  Unbound,          \* None: no scenario given to a promotion
  Torn              \* a line of which only a part is on disk

VARIABLES
  feedback,         \* the lines of the feedback file: an answer, or Torn
  bundles,          \* the bundles whose manifest is in place
  labels,           \* the label files: path -> [label, state]
  memory,           \* the lines of the memory file
  admitting         \* learner -> the entry it found absent and will append

learningVars == <<feedback, bundles, labels, memory, admitting>>

Scenarios == DOMAIN Library

Incidents == Scenarios \cup Live

Splits == {"train", "validation", "test_id", "test_ood"}

Recorder(s) == <<"recorder", s>>

Promoted(i) == <<"promoted", i>>

\* What a promotion may be told the scenario is: any name, or none.
Named == {decision.scenario : decision \in Decisions}

\* The splits of the library are declared ones, a promotion is refused another,
\* and an answer is about an incident.
ASSUME LearningAssumption ==
  /\ IsFiniteSet(Scenarios) /\ IsFiniteSet(Learners)
  /\ \A s \in Scenarios : Library[s].split \in Splits
  /\ \A answer \in Answers : answer.incident \in Incidents
  /\ Decisions \subseteq [split: Splits, scenario: Named, healthy: BOOLEAN]
  /\ \A start \in Starts : start.feedback \in Seq(Answers \cup {Torn}) /\ start.bundles \subseteq Incidents

----------------------------------------------------------------------------
(* The feedback file *)

\* Feedback.model_post_init: a report marked wrong comes with a cause.
WellFormed(answer) == answer.verdict = "correct" \/ answer.cause # NoService

\* The next line of a file whose last line was cut short is one with it.
AppendLine(file, line) ==
  IF file # <<>> /\ Last(file) = Torn THEN file ELSE Append(file, line)

\* FeedbackStore.all: one bad line and nothing can be read.
Readable == \A k \in DOMAIN feedback : feedback[k] # Torn

\* app.submit_feedback and FeedbackStore.record
SubmitFeedback(answer) ==
  /\ WellFormed(answer)
  /\ \A k \in DOMAIN feedback : feedback[k] # answer
  /\ feedback' = AppendLine(feedback, answer)
  /\ UNCHANGED <<bundles, labels, memory, admitting>>

\* The process dies inside the write: part of a line is on disk.
FeedbackTorn ==
  /\ feedback # <<>> => Last(feedback) # Torn
  /\ feedback' = Append(feedback, Torn)
  /\ UNCHANGED <<bundles, labels, memory, admitting>>

----------------------------------------------------------------------------
(* Label files *)

RecorderLabel(s) ==
  [bundle |-> s, scenario |-> s, split |-> Library[s].split, target |-> Library[s].target,
   class |-> Library[s].class, onset |-> Library[s].onset, flag |-> Library[s].flag]

\* The label promote writes; a fault class is the caller's, "unknown" unless given.
PromotedLabel(answer, decision) ==
  [bundle |-> answer.incident, scenario |-> decision.scenario, split |-> decision.split,
   target |-> answer.cause, class |-> IF decision.healthy THEN "none" ELSE "unknown",
   onset |-> Nothing, flag |-> Nothing]

\* promote's refusals: the cause is known, or a person said there was no fault.
Promotable(answer, decision) == (answer.cause = NoService) = decision.healthy

\* Recorder: the bundle is moved into place, and its label is written after it.
PublishBundle(i) ==
  /\ i \notin bundles
  /\ bundles' = bundles \cup {i}
  /\ UNCHANGED <<feedback, labels, memory, admitting>>

\* Mutant: the file is opened for writing whether it is there or not.
OverwriteFile(path, label) ==
  labels' = [p \in DOMAIN labels \cup {path} |-> IF p = path THEN [label |-> label, state |-> "open"] ELSE labels[p]]

OpenFile(path, label) ==
  /\ path \notin DOMAIN labels
  /\ labels' = [p \in DOMAIN labels \cup {path} |-> IF p = path THEN [label |-> label, state |-> "open"] ELSE labels[p]]

OpenLabel(s) ==
  /\ s \in bundles
  /\ OpenFile(Recorder(s), RecorderLabel(s))
  /\ UNCHANGED <<feedback, bundles, memory, admitting>>

\* feedback.promote: creates the file or fails because it is there.  An answer
\* is read before, so a file of answers with a bad line promotes nothing.
Promote(answer, decision) ==
  /\ Readable
  /\ \E k \in DOMAIN feedback : feedback[k] = answer
  /\ Promotable(answer, decision)
  /\ OpenFile(Promoted(answer.incident),
              PromotedLabel(answer, IF decision.scenario = Unbound
                                      THEN [decision EXCEPT !.scenario = Promoted(answer.incident)]
                                      ELSE decision))
  /\ UNCHANGED <<feedback, bundles, memory, admitting>>

\* The one write that follows, or the death of the process before it.
CloseLabel(path, state) ==
  /\ path \in DOMAIN labels
  /\ labels[path].state = "open"
  /\ labels' = [labels EXCEPT ![path].state = state]
  /\ UNCHANGED <<feedback, bundles, memory, admitting>>

LabelWritten(path) == CloseLabel(path, "whole")

LabelTorn(path) == CloseLabel(path, "torn")

\* runner.load_labels reads every file, in the order of their paths, and
\* raises on one that is empty or cut short ...
LabelsReadable == \A path \in DOMAIN labels : labels[path].state = "whole"

\* ... and keeps the last label of each bundle: a promoted one, unless the
\* scenario's directory sorts after the directory of the promoted ones.
LabelOf(i) ==
  IF Promoted(i) \in DOMAIN labels /\ (Recorder(i) \in DOMAIN labels => i \notin AfterPromoted)
    THEN labels[Promoted(i)].label
    ELSE labels[Recorder(i)].label

Labelled == {i \in Incidents : {Recorder(i), Promoted(i)} \cap DOMAIN labels # {}}

----------------------------------------------------------------------------
(* Incident memory *)

\* store.entry_from_label; a healthy system leaves nothing to remember.
EntryFromLabel(label) == [incident |-> label.bundle, scenario |-> label.scenario, split |-> label.split]

\* Mutant: any split is admitted.
AdmitAnySplit(l, path) ==
  /\ admitting[l] = Nothing
  /\ path \in DOMAIN labels
  /\ labels[path].state = "whole"
  /\ labels[path].label.target # NoService
  /\ \A k \in DOMAIN memory : memory[k].incident # labels[path].label.bundle
  /\ admitting' = [admitting EXCEPT ![l] = EntryFromLabel(labels[path].label)]
  /\ UNCHANGED <<feedback, bundles, labels, memory>>

\* MemoryStore.admit: refuses what is not train, then reads the file ...
Admit(l, path) ==
  /\ admitting[l] = Nothing
  /\ path \in DOMAIN labels
  /\ labels[path].state = "whole"
  /\ labels[path].label.target # NoService
  /\ labels[path].label.split = "train"
  /\ \A k \in DOMAIN memory : memory[k].incident # labels[path].label.bundle
  /\ admitting' = [admitting EXCEPT ![l] = EntryFromLabel(labels[path].label)]
  /\ UNCHANGED <<feedback, bundles, labels, memory>>

\* ... and appends, whatever was appended in between.
Remember(l) ==
  /\ admitting[l] # Nothing
  /\ memory' = Append(memory, admitting[l])
  /\ admitting' = [admitting EXCEPT ![l] = Nothing]
  /\ UNCHANGED <<feedback, bundles, labels>>

----------------------------------------------------------------------------
LearningInit ==
  /\ \E start \in Starts : feedback = start.feedback /\ bundles = start.bundles
  /\ labels = [path \in {Recorder(s) : s \in bundles \cap Scenarios} |->
                 [label |-> RecorderLabel(path[2]), state |-> "whole"]]
  /\ memory = <<>>
  /\ admitting = [l \in Learners |-> Nothing]

\* The steps that change what an evaluation reads, and those that do not.
StoreStep ==
  \/ \E i \in Incidents : PublishBundle(i)
  \/ \E s \in Scenarios : OpenLabel(s)
  \/ \E answer \in Answers, decision \in Decisions : Promote(answer, decision)
  \/ \E path \in DOMAIN labels : LabelWritten(path) \/ LabelTorn(path)

QuietStep ==
  \/ \E answer \in Answers : SubmitFeedback(answer)
  \/ FeedbackTorn
  \/ \E l \in Learners : Remember(l) \/ \E path \in DOMAIN labels : Admit(l, path)

=============================================================================
