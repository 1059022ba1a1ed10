------------------------------- MODULE Recorder -------------------------------
(***************************************************************************)
(* Recording the incident library: the batch of scripts/record_library.py, *)
(* `firebreak lab record`, lab/recorder.py, lab/flags.py and               *)
(* lab/bundle_writer.py against flagd, which serves what is configured     *)
(* only after it has read it again.  A recorder can raise or be killed at  *)
(* any step, and the batch can be interrupted and run again.               *)
(*                                                                         *)
(* One recording is under way at a time.  A flag is off or has the variant *)
(* its scenario names.  A directory is how many of its files are there and *)
(* whether its manifest is.                                                *)
(***************************************************************************)
EXTENDS Naturals, Sequences, SequencesExt

CONSTANTS
  Flag,
  Scenario,
  Fault,        \* the flag a scenario's fault flips, or NoFlag (FaultKind.NONE)
  Distractors,  \* the harmless flags of a scenario, in order
  NoFlag,
  Forced,       \* scenarios a person records again with --force
  NFiles,       \* REQUIRED_FILES
  MaxAttempts,  \* ATTEMPTS_PER_SCENARIO
  MaxTakes      \* bound: recordings begun, what a batch tries again not counted

ASSUME ScenarioAssumption ==
  /\ IsFiniteSet(Scenario) /\ NoFlag \notin Flag
  /\ Fault \in [Scenario -> Flag \cup {NoFlag}]
  /\ Distractors \in [Scenario -> Seq(Flag)]
  /\ Forced \subseteq Scenario
ASSUME LimitAssumption ==
  /\ NFiles \in Nat \ {0} /\ MaxAttempts \in Nat \ {0} /\ MaxTakes \in Nat

VARIABLES
  config,    \* the flags that are configured on
  served,    \* the flags flagd serves as on
  step,      \* where the recorder is
  runner,    \* who runs it
  scenario,  \* what it records
  takes,     \* recordings begun
  todo,      \* flags still to be applied, on or off
  shown,     \* flags served at any time since the recorded window began
  stale,     \* flags still served when it began, though no longer configured
  staging,   \* a scenario's .partial directory
  bundle,    \* its bundle directory
  label,     \* its label
  queue,     \* the batch's scenarios that are still to be recorded
  attempt    \* attempts at the first of them

flagd   == <<config, served>>
library == <<staging, bundle, label>>
batch   == <<queue, attempt>>
call    == <<step, runner, scenario, takes, todo, shown, stale>>
vars    == <<config, served, step, runner, scenario, takes, todo, shown, stale,
             staging, bundle, label, queue, attempt>>

-----------------------------------------------------------------------------
Directory == [take: Nat, files: 0 .. NFiles, manifest: BOOLEAN,
              shows: SUBSET Flag, stale: SUBSET Flag]

Missing == [take |-> 0, files |-> 0, manifest |-> FALSE, shows |-> {}, stale |-> {}]

Label == [take: Nat, whole: BOOLEAN]

NoLabel == [take |-> 0, whole |-> FALSE]

Exists(d) == d # Missing

Whole(d) == d.manifest /\ d.files = NFiles

Change == [flag: Flag, on: BOOLEAN]

Steps == {"idle", "reset", "load", "warmup", "apply", "await", "hold", "cooldown", "check",
          "export", "write", "continuity", "place", "label"}

\* The steps between the beginning and the end of the window.
Recorded == {"warmup", "apply", "await", "hold", "cooldown"}

(***************************************************************************)
(* fault_flag_names: every flag the scenario flips.                        *)
(***************************************************************************)
Named(s) == ({Fault[s]} \ {NoFlag}) \cup Range(Distractors[s])

TypeOK ==
  /\ config \subseteq Flag /\ served \subseteq Flag
  /\ step \in Steps
  /\ runner \in {"nobody", "batch", "person"}
  /\ scenario \in Scenario /\ takes \in Nat
  /\ todo \in Seq(Change) /\ shown \subseteq Flag /\ stale \subseteq Flag
  /\ staging \in [Scenario -> Directory] /\ bundle \in [Scenario -> Directory]
  /\ label \in [Scenario -> Label]
  /\ queue \in Seq(Scenario) /\ attempt \in 0 .. MaxAttempts
  /\ step = "idle" <=> runner = "nobody"
  /\ step \in {"apply", "await"} => todo # << >>

(***************************************************************************)
(* The stack may have any flags on, left by hand or by an earlier session. *)
(***************************************************************************)
Init ==
  /\ config \in SUBSET Flag /\ served = config
  /\ step = "idle" /\ runner = "nobody" /\ scenario \in Scenario /\ takes = 0
  /\ todo = << >> /\ shown = {} /\ stale = {}
  /\ staging = [s \in Scenario |-> Missing]
  /\ bundle = [s \in Scenario |-> Missing]
  /\ label = [s \in Scenario |-> NoLabel]
  /\ queue = << >> /\ attempt = 0

(***************************************************************************)
(* flagd reads its configuration again, on its own schedule: nothing but   *)
(* await_variant asks whether it has.                                      *)
(***************************************************************************)
Reload ==
  /\ served # config
  /\ served' = config
  /\ shown' = IF step \in Recorded THEN shown \cup served' ELSE shown
  /\ UNCHANGED <<config, step, runner, scenario, takes, todo, stale, library, batch>>

-----------------------------------------------------------------------------
(***************************************************************************)
(* The recorder's process is gone.  The batch goes on to the next attempt  *)
(* or the next scenario.                                                   *)
(***************************************************************************)
Over(recorded) ==
  /\ step' = "idle" /\ runner' = "nobody" /\ todo' = << >> /\ shown' = {} /\ stale' = {}
  /\ IF runner = "batch" /\ (recorded \/ attempt = MaxAttempts)
     THEN queue' = Tail(queue) /\ attempt' = 0
     ELSE UNCHANGED batch
  /\ UNCHANGED <<scenario, takes>>

Begin(s, who) ==
  /\ step' = "reset" /\ runner' = who /\ scenario' = s
  /\ takes' = takes + 1
  /\ UNCHANGED <<todo, shown, stale>>

(***************************************************************************)
(* main: what has a manifest is recorded, the rest is outstanding.         *)
(***************************************************************************)
Outstanding == {s \in Scenario : ~bundle[s].manifest}

StartBatch ==
  /\ step = "idle" /\ queue = << >>
  /\ takes + Len(SetToSeq(Outstanding)) <= MaxTakes
  /\ queue' = SetToSeq(Outstanding) /\ attempt' = 0
  /\ UNCHANGED <<flagd, call, library>>

\* Mutant: the command does not look whether the bundle is there.
Attempt_Unasked ==
  /\ step = "idle" /\ queue # << >>
  /\ attempt' = attempt + 1
  /\ Begin(Head(queue), "batch")
  /\ UNCHANGED <<flagd, library, queue>>

\* Mutant: a refusal is not counted as an attempt.
Attempt_RefusalFree ==
  /\ step = "idle" /\ queue # << >>
  /\ ~Exists(bundle[Head(queue)])
  /\ Begin(Head(queue), "batch")
  /\ attempt' = attempt + 1
  /\ UNCHANGED <<flagd, library, queue>>

(***************************************************************************)
(* record_one: the command refuses to record over a bundle.                *)
(***************************************************************************)
Attempt ==
  /\ step = "idle" /\ queue # << >>
  /\ \/ /\ ~Exists(bundle[Head(queue)])
        /\ Begin(Head(queue), "batch")
        /\ attempt' = attempt + 1 /\ UNCHANGED queue
     \/ /\ Exists(bundle[Head(queue)])
        /\ IF attempt + 1 = MaxAttempts
           THEN queue' = Tail(queue) /\ attempt' = 0
           ELSE attempt' = attempt + 1 /\ UNCHANGED queue
        /\ UNCHANGED call
  /\ UNCHANGED <<flagd, library>>

(***************************************************************************)
(* A person records a scenario again while no batch runs.                  *)
(***************************************************************************)
RecordByForce(s) ==
  /\ step = "idle" /\ queue = << >> /\ takes < MaxTakes
  /\ s \in Forced
  /\ Begin(s, "person")
  /\ UNCHANGED <<flagd, library, batch>>

-----------------------------------------------------------------------------
GoTo(s) == step' = s /\ UNCHANGED <<runner, scenario, takes>>

\* Mutant: a recording begins with the flags as they are.
StartClean_Skipped ==
  /\ step = "reset" /\ GoTo("load")
  /\ UNCHANGED <<flagd, todo, shown, stale, library, batch>>

(***************************************************************************)
(* reset_to: the configuration is written and read back.  What flagd       *)
(* serves is not asked.                                                    *)
(***************************************************************************)
StartClean ==
  /\ step = "reset" /\ GoTo("load")
  /\ config' = {}
  /\ UNCHANGED <<served, todo, shown, stale, library, batch>>

(***************************************************************************)
(* The load is up, and the window the bundle will cover begins: with it    *)
(* whatever flagd serves now, reset or not.                                *)
(***************************************************************************)
LoadReady ==
  /\ step = "load" /\ GoTo("warmup")
  /\ shown' = served /\ stale' = served \ config
  /\ UNCHANGED <<flagd, todo, library, batch>>

Changes(flags, on) == [i \in 1 .. Len(flags) |-> [flag |-> flags[i], on |-> on]]

FaultOf(s) == IF Fault[s] = NoFlag THEN << >> ELSE <<Fault[s]>>

(***************************************************************************)
(* The warmup is slept through, the distractors' flags and then the        *)
(* fault's are next.                                                       *)
(***************************************************************************)
WarmupDone ==
  /\ step = "warmup"
  /\ todo' = Changes(Distractors[scenario] \o FaultOf(scenario), TRUE)
  /\ GoTo(IF todo' = << >> THEN "hold" ELSE "apply")
  /\ UNCHANGED <<flagd, shown, stale, library, batch>>

Configured(change) ==
  IF change.on THEN config \cup {change.flag} ELSE config \ {change.flag}

(***************************************************************************)
(* apply_fault: set_variant writes and reads back, await_variant asks      *)
(* flagd until it serves the variant.                                      *)
(***************************************************************************)
SetVariant ==
  /\ step = "apply" /\ GoTo("await")
  /\ config' = Configured(Head(todo))
  /\ UNCHANGED <<served, todo, shown, stale, library, batch>>

Applied ==
  /\ todo' = Tail(todo)
  /\ GoTo(IF Len(todo) > 1 THEN "apply" ELSE IF Head(todo).on THEN "hold" ELSE "cooldown")
  /\ UNCHANGED <<flagd, shown, stale, library, batch>>

AwaitVariant ==
  /\ step = "await"
  /\ Head(todo).flag \in served <=> Head(todo).on
  /\ Applied

(***************************************************************************)
(* The alert is waited for and the fault held; then every flag the         *)
(* scenario flipped is turned off again.                                   *)
(***************************************************************************)
FaultHeld ==
  /\ step = "hold"
  /\ todo' = Changes(FaultOf(scenario) \o Distractors[scenario], FALSE)
  /\ GoTo(IF todo' = << >> THEN "cooldown" ELSE "apply")
  /\ UNCHANGED <<flagd, shown, stale, library, batch>>

CooledDown ==
  /\ step = "cooldown" /\ GoTo("check")
  /\ UNCHANGED <<flagd, todo, shown, stale, library, batch>>

(***************************************************************************)
(* check_duration lets the recording through, or raises: see Raise.        *)
(***************************************************************************)
CheckDuration ==
  /\ step = "check" /\ GoTo("export")
  /\ UNCHANGED <<flagd, todo, shown, stale, library, batch>>

-----------------------------------------------------------------------------
OpenStaging ==
  /\ step = "export" /\ GoTo("write")
  /\ staging' = [staging EXCEPT ![scenario] = 
                    [Missing EXCEPT !.take = takes, !.shows = shown, !.stale = stale]]
  /\ UNCHANGED <<flagd, todo, shown, stale, bundle, label, batch>>

(***************************************************************************)
(* One file after the other, and the manifest when none is missing.        *)
(***************************************************************************)
WriteFile ==
  /\ step = "write"
  /\ IF staging[scenario].files < NFiles
     THEN staging' = [staging EXCEPT ![scenario].files = @ + 1] /\ GoTo("write")
     ELSE staging' = [staging EXCEPT ![scenario].manifest = TRUE] /\ GoTo("continuity")
  /\ UNCHANGED <<flagd, todo, shown, stale, bundle, label, batch>>

(***************************************************************************)
(* check_continuity finds no hole in the telemetry, or raises.             *)
(***************************************************************************)
CheckContinuity ==
  /\ step = "continuity" /\ GoTo("place")
  /\ UNCHANGED <<flagd, todo, shown, stale, library, batch>>

(***************************************************************************)
(* rmtree of the bundle that is there takes its files one by one.          *)
(***************************************************************************)
RemoveOld ==
  /\ step = "place" /\ Exists(bundle[scenario])
  /\ LET old == bundle[scenario] IN
       \/ /\ old.files > 0
          /\ bundle' = [bundle EXCEPT ![scenario].files = @ - 1]
       \/ /\ old.manifest
          /\ bundle' = [bundle EXCEPT ![scenario].manifest = FALSE]
       \/ /\ old.files = 0 /\ ~old.manifest
          /\ bundle' = [bundle EXCEPT ![scenario] = Missing]
  /\ UNCHANGED <<flagd, call, staging, label, batch>>

\* Mutant: the label is written before the bundle is in its place.
Replace_LabelFirst ==
  /\ step = "place" /\ ~Exists(bundle[scenario])
  /\ IF label[scenario].take # takes
     THEN /\ label' = [label EXCEPT ![scenario] = [take |-> takes, whole |-> TRUE]]
          /\ UNCHANGED <<call, staging, bundle>>
     ELSE /\ bundle' = [bundle EXCEPT ![scenario] = staging[scenario]]
          /\ staging' = [staging EXCEPT ![scenario] = Missing]
          /\ GoTo("label") /\ UNCHANGED <<todo, shown, stale, label>>
  /\ UNCHANGED <<flagd, batch>>

Replace ==
  /\ step = "place" /\ ~Exists(bundle[scenario]) /\ GoTo("label")
  /\ bundle' = [bundle EXCEPT ![scenario] = staging[scenario]]
  /\ staging' = [staging EXCEPT ![scenario] = Missing]
  /\ UNCHANGED <<flagd, todo, shown, stale, label, batch>>

WriteLabel ==
  /\ step = "label"
  /\ label' = [label EXCEPT ![scenario] = [take |-> takes, whole |-> TRUE]]
  /\ Over(TRUE)
  /\ UNCHANGED <<flagd, staging, bundle>>

-----------------------------------------------------------------------------
(***************************************************************************)
(* What a write that was cut short leaves of the configuration, which the  *)
(* service replaces as a whole, and of a label, which is overwritten.      *)
(***************************************************************************)
CutShort ==
  /\ \/ UNCHANGED config
     \/ step = "reset" /\ config' = {}
     \/ step = "apply" /\ config' = Configured(Head(todo))
  /\ \/ UNCHANGED label
     \/ step = "label" /\ label' = [label EXCEPT ![scenario] = [take |-> takes, whole |-> FALSE]]
  /\ UNCHANGED <<served, bundle>>

(***************************************************************************)
(* What is raised while the bundle is staged takes the staging directory   *)
(* with it.                                                                *)
(***************************************************************************)
CleanUp ==
  staging' = IF step \in {"write", "continuity"} THEN [staging EXCEPT ![scenario] = Missing]
             ELSE staging

(***************************************************************************)
(* A call raises: flagd or an exporter does not answer, the flag does not  *)
(* converge, the window is too wide, the telemetry has a hole.             *)
(***************************************************************************)
Raise ==
  /\ step # "idle"
  /\ CutShort /\ CleanUp
  /\ Over(FALSE)

(***************************************************************************)
(* The process dies or the batch kills it after its half hour, and nothing *)
(* is cleaned up.                                                          *)
(***************************************************************************)
Kill ==
  /\ step # "idle"
  /\ CutShort
  /\ UNCHANGED staging
  /\ Over(FALSE)

(***************************************************************************)
(* The batch is stopped and its recording with it, which may get as far as *)
(* cleaning up.                                                            *)
(***************************************************************************)
Interrupt ==
  /\ queue # << >>
  /\ queue' = << >> /\ attempt' = 0
  /\ IF step = "idle"
     THEN UNCHANGED <<flagd, library>>
     ELSE /\ CutShort
          /\ UNCHANGED staging \/ CleanUp
  /\ step' = "idle" /\ runner' = "nobody" /\ todo' = << >> /\ shown' = {} /\ stale' = {}
  /\ UNCHANGED <<scenario, takes>>

Recording ==
  \/ StartClean \/ LoadReady \/ WarmupDone \/ SetVariant \/ AwaitVariant \/ FaultHeld
  \/ CooledDown \/ CheckDuration \/ OpenStaging \/ WriteFile \/ CheckContinuity
  \/ RemoveOld \/ Replace \/ WriteLabel

Next ==
  \/ Reload
  \/ StartBatch \/ Attempt \/ \E s \in Scenario : RecordByForce(s)
  \/ Recording \/ Raise \/ Kill \/ Interrupt

Spec == Init /\ [][Next]_vars

(***************************************************************************)
(* The recorder's steps are bounded sleeps and calls with timeouts, the    *)
(* batch's loop is sequential, and flagd goes on watching its file.        *)
(***************************************************************************)
Fairness == WF_vars(Recording) /\ WF_vars(Attempt) /\ WF_vars(Reload)

-----------------------------------------------------------------------------
(***************************************************************************)
(* What is recorded shows every flag its scenario names, and beside them   *)
(* only what flagd was still serving when the window began.                *)
(***************************************************************************)
ShowsFaults(recording, s) == recording.shows = Named(s) \cup recording.stale

(***************************************************************************)
(* A finished bundle shows its scenario's flags and, beside them, at most  *)
(* what flagd had not yet dropped after the reset, whatever an earlier     *)
(* recording, or a person, left configured: reset_to and await_variant     *)
(* together.                                                               *)
(***************************************************************************)
BundleShowsItsFault ==
  \A s \in Scenario : Whole(bundle[s]) => ShowsFaults(bundle[s], s)

(***************************************************************************)
(* As long as nobody uses --force on it, a bundle directory is absent or   *)
(* complete, as the docstring of _export_bundle promises, and a readable   *)
(* label belongs to the very recording whose bundle is there.              *)
(***************************************************************************)
LibraryIsSound ==
  \A s \in Scenario \ Forced :
    /\ Exists(bundle[s]) => Whole(bundle[s])
    /\ label[s].whole => Whole(bundle[s]) /\ label[s].take = bundle[s].take

(***************************************************************************)
(* What was recorded stays as it is through retries, crashes and later     *)
(* batches: only --force replaces a bundle.                                *)
(***************************************************************************)
NothingIsLost ==
  [][\A s \in Scenario \ Forced : Whole(bundle[s]) => bundle'[s] = bundle[s]]_vars

(***************************************************************************)
(* A batch comes to its end whatever fails in it: the attempts at each     *)
(* scenario are counted, refusals among them.                              *)
(***************************************************************************)
BatchEnds == queue # << >> ~> queue = << >>
=============================================================================
