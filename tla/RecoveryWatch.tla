---------------------------- MODULE RecoveryWatch ----------------------------
(***************************************************************************)
(* The watch after a remediation, remediation/recovery.py: verify_recovery *)
(* samples the alerting signal until enough samples in a row are back      *)
(* within the baseline's tolerance, or the window is over.                 *)
(*                                                                         *)
(* A sample is abstracted to the side of the ceiling it falls on; the      *)
(* signal moves as it likes while time passes.  verify_recovery is handed  *)
(* its sleep: Poll is how long that sleep lasts.  Its one caller           *)
(* (workflow.py:220) hands it none, and the default does not sleep, so the *)
(* program's Poll is 0.                                                    *)
(***************************************************************************)
EXTENDS Naturals, Sequences

CONSTANTS
  Window,       \* WATCH_SECONDS
  Poll,         \* how long the sleep that was passed lasts
  Consecutive,  \* CONSECUTIVE_SAMPLES
  MaxTime       \* bound: the clock stops here

ASSUME WatchAssumption ==
  /\ {Window, Poll, MaxTime} \subseteq Nat
  /\ Consecutive \in Nat \ {0}

VARIABLES
  now,       \* the clock, from the start of the watch
  signal,    \* what a sample would read
  step,      \* where the loop is
  wake,      \* when the sleep is over
  inside,    \* the loop's count of samples in a row within tolerance
  samples,   \* the last samples that could be read, with their times
  verdict

watchVars == <<now, signal, step, wake, inside, samples, verdict>>

Side    == {"within", "above"}
Signal  == Side \cup {"unreadable"}
Sample  == [side: Side, at: Nat]
Verdict == {"none", "recovered", "not_recovered", "unknown"}

WatchTypeOK ==
  /\ now \in Nat /\ signal \in Signal
  /\ step \in {"sample", "clock", "sleep", "done"}
  /\ wake \in Nat /\ inside \in 0 .. Consecutive
  /\ samples \in Seq(Sample) /\ Len(samples) <= Consecutive
  /\ verdict \in Verdict

(***************************************************************************)
(* Without a baseline there is nothing to compare with and no watch.       *)
(***************************************************************************)
WatchInit ==
  /\ now = 0 /\ signal \in Signal
  /\ wake = 0 /\ inside = 0 /\ samples = << >>
  /\ \/ step = "sample" /\ verdict = "none"
     \/ step = "done" /\ verdict = "unknown"

Passing ==
  /\ now < MaxTime
  /\ now' = now + 1
  /\ signal' \in Signal
  /\ UNCHANGED <<step, wake, inside, samples, verdict>>

Conclude(v) == step' = "done" /\ verdict' = v

Latest(seq) == IF Len(seq) > Consecutive THEN Tail(seq) ELSE seq

\* Mutant: a sample above the ceiling does not start the count again.
TakeSample_NoReset ==
  /\ step = "sample"
  /\ IF signal = "unreadable" THEN UNCHANGED <<inside, samples>> ELSE
       /\ samples' = Latest(Append(samples, [side |-> signal, at |-> now]))
       /\ inside' = IF signal = "within" THEN inside + 1 ELSE inside
  /\ IF inside' >= Consecutive THEN Conclude("recovered")
                               ELSE step' = "clock" /\ UNCHANGED verdict
  /\ UNCHANGED <<now, signal, wake>>

(***************************************************************************)
(* A sample that cannot be read counts neither way.                        *)
(***************************************************************************)
TakeSample ==
  /\ step = "sample"
  /\ IF signal = "unreadable" THEN UNCHANGED <<inside, samples>> ELSE
       /\ samples' = Latest(Append(samples, [side |-> signal, at |-> now]))
       /\ inside' = IF signal = "within" THEN inside + 1 ELSE 0
  /\ IF inside' >= Consecutive THEN Conclude("recovered")
                               ELSE step' = "clock" /\ UNCHANGED verdict
  /\ UNCHANGED <<now, signal, wake>>

\* Mutant: the window is never over.
CheckClock_NoDeadline ==
  /\ step = "clock"
  /\ step' = "sleep" /\ wake' = now + Poll
  /\ UNCHANGED <<now, signal, inside, samples, verdict>>

CheckClock ==
  /\ step = "clock"
  /\ IF now >= Window
     THEN /\ Conclude(IF samples = << >> THEN "unknown" ELSE "not_recovered")
          /\ UNCHANGED wake
     ELSE /\ step' = "sleep" /\ wake' = now + Poll
          /\ UNCHANGED verdict
  /\ UNCHANGED <<now, signal, inside, samples>>

Wake ==
  /\ step = "sleep" /\ now >= wake
  /\ step' = "sample"
  /\ UNCHANGED <<now, signal, wake, inside, samples, verdict>>

Watch == TakeSample \/ CheckClock \/ Wake

WatchNext == Passing \/ Watch

WatchSpec == WatchInit /\ [][WatchNext]_watchVars

(***************************************************************************)
(* Time passes, and the loop runs.                                         *)
(***************************************************************************)
FairSpec == WatchSpec /\ WF_watchVars(Passing) /\ WF_watchVars(Watch)

-----------------------------------------------------------------------------
(***************************************************************************)
(* The samples at hand are enough in a row within tolerance, and as far    *)
(* apart as the sleep lasts.                                               *)
(***************************************************************************)
Settled ==
  /\ Len(samples) = Consecutive
  /\ \A i \in 1 .. Consecutive : samples[i].side = "within"
  /\ \A i \in 1 .. Consecutive - 1 : samples[i + 1].at >= samples[i].at + Poll

(***************************************************************************)
(* The three outcomes (recovery.py:111-173), over the samples and the      *)
(* clock: recovered is said as soon as the latest samples are settled and  *)
(* never without, also when a failed read or one above the ceiling came    *)
(* between them; not recovered only of samples that are not, at the end of *)
(* the window; unknown only when nothing could be read.                    *)
(***************************************************************************)
VerdictIsEarned ==
  /\ verdict = "recovered" <=> Settled
  /\ verdict = "not_recovered" => samples # << >> /\ now >= Window
  /\ verdict = "unknown" => samples = << >>

(***************************************************************************)
(* The watch ends: the window closes whatever the signal does.             *)
(***************************************************************************)
WatchEnds == <>(step = "done")
=============================================================================
