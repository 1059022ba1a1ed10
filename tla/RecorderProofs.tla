---------------------------- MODULE RecorderProofs ----------------------------
(***************************************************************************)
(* The library of recordings, for any number of scenarios, flags, files    *)
(* and attempts.  Two arguments that do not depend on each other: what a   *)
(* recording shows (Flags) is decided by what it resets, waits for and     *)
(* clears; what the library holds (Library), by the order in which files   *)
(* land and by the refusal to record over a bundle.  Both rest on who is   *)
(* recording what (Control).                                               *)
(***************************************************************************)
EXTENDS Release, FiniteSetTheorems, SequenceTheorems, TLAPS

(***************************************************************************)
(* The batch records the head of its queue, a person only what is forced.  *)
(***************************************************************************)
Control ==
  /\ runner = "batch" => queue # << >> /\ scenario = Head(queue) /\ attempt > 0
  /\ runner = "person" => queue = << >> /\ scenario \in Forced
  /\ runner = "nobody" /\ queue # << >> => attempt < MaxAttempts

-----------------------------------------------------------------------------
Flags(changes) == {changes[i].flag : i \in 1 .. Len(changes)}

AllAre(changes, on) == \A i \in 1 .. Len(changes) : changes[i].on = on

Applying == step \in {"apply", "await"} /\ Head(todo).on

Clearing == step \in {"apply", "await"} /\ ~Head(todo).on

(***************************************************************************)
(* From the reset to the warmup nothing is configured on.  From then on    *)
(* only flags of the scenario are, and beside them only what flagd still   *)
(* served when the window began was seen.                                  *)
(***************************************************************************)
OnlyItsFlags ==
  /\ step \in {"load", "warmup"} => config = {}
  /\ step \in Recorded => served \cup stale \subseteq shown /\ config \subseteq Named(scenario)
  /\ step = "warmup" => shown \subseteq stale
  /\ step \in Recorded \ {"warmup"} =>
       /\ shown \subseteq Named(scenario) \cup stale
       /\ Flags(todo) \subseteq Named(scenario)

Complete == shown = Named(scenario) \cup stale

(***************************************************************************)
(* What is not left to be applied has been seen, and at last all of it.    *)
(***************************************************************************)
AllItsFlags ==
  /\ Applying => AllAre(todo, TRUE) /\ Named(scenario) \ Flags(todo) \subseteq shown
  /\ Clearing => AllAre(todo, FALSE) /\ Named(scenario) \subseteq shown
  /\ step \in {"hold", "cooldown", "check", "export"} => Complete
  /\ step \in {"write", "continuity", "place"} => ShowsFaults(staging[scenario], scenario)

FlagInv == OnlyItsFlags /\ AllItsFlags /\ BundleShowsItsFault

-----------------------------------------------------------------------------
(***************************************************************************)
(* A recording nobody forced found no bundle and leaves none before it     *)
(* replaces; what it replaces with is whole and its own.                   *)
(***************************************************************************)
Untouched ==
  /\ step \notin {"idle", "label"} /\ scenario \notin Forced => ~Exists(bundle[scenario])
  /\ step \in {"continuity", "place"} => Whole(staging[scenario])
  /\ step \in {"write", "continuity", "place"} => staging[scenario].take = takes
  /\ step = "label" => Whole(bundle[scenario]) /\ bundle[scenario].take = takes

LibraryInv == Untouched /\ LibraryIsSound

Inv == TypeOK /\ Control /\ FlagInv /\ LibraryInv

-----------------------------------------------------------------------------
(***************************************************************************)
(* A finite set, listed.                                                   *)
(***************************************************************************)
LEMMA SetListed ==
  ASSUME NEW S, IsFiniteSet(S)
  PROVE  SetToSeq(S) \in Seq(S)
<1> DEFINE n == Cardinality(S)
<1>1. n \in Nat /\ ExistsBijection(1 .. n, S)
  BY FS_CardinalityType
<1>2. \E f \in [1 .. n -> S] : IsInjective(f)
  BY <1>1 DEF ExistsBijection, Bijection, Injection, Surjection, IsInjective
<1>3. SetToSeq(S) \in [1 .. n -> S]
  BY <1>2 DEF SetToSeq
<1> QED BY <1>1, <1>3

(***************************************************************************)
(* The list main makes of the outstanding scenarios is a list of them.     *)
(***************************************************************************)
LEMMA OutstandingListed == SetToSeq(Outstanding) \in Seq(Scenario)
<1>1. IsFiniteSet(Outstanding) /\ Outstanding \subseteq Scenario
  BY FS_Subset, ScenarioAssumption DEF Outstanding
<1>2. SetToSeq(Outstanding) \in Seq(Outstanding)
  BY <1>1, SetListed
<1> QED BY <1>1, <1>2

LEMMA ChangesTyped ==
  ASSUME NEW flags \in Seq(Flag), NEW on \in BOOLEAN
  PROVE  /\ Changes(flags, on) \in Seq(Change)
         /\ Len(Changes(flags, on)) = Len(flags)
         /\ AllAre(Changes(flags, on), on)
         /\ Flags(Changes(flags, on)) = Range(flags)
<1>1. Len(flags) \in Nat /\ flags \in [1 .. Len(flags) -> Flag]
  OBVIOUS
<1>2. Changes(flags, on) \in [1 .. Len(flags) -> Change]
  BY <1>1 DEF Changes, Change
<1>3. Changes(flags, on) \in Seq(Change)
  BY <1>1, <1>2
<1>4. Len(Changes(flags, on)) = Len(flags)
  BY <1>1, <1>2, <1>3
<1>5. \A i \in 1 .. Len(flags) : /\ Changes(flags, on)[i].flag = flags[i]
                                 /\ Changes(flags, on)[i].on = on
  BY DEF Changes
<1>6. DOMAIN flags = 1 .. Len(flags)
  BY <1>1
<1> QED BY <1>3, <1>4, <1>5, <1>6 DEF AllAre, Flags, Range

(***************************************************************************)
(* Distractors and fault, in either order, are the flags of the scenario.  *)
(***************************************************************************)
LEMMA ItsFlags ==
  ASSUME NEW s \in Scenario
  PROVE  /\ Distractors[s] \o FaultOf(s) \in Seq(Flag)
         /\ FaultOf(s) \o Distractors[s] \in Seq(Flag)
         /\ Range(Distractors[s] \o FaultOf(s)) = Named(s)
         /\ Range(FaultOf(s) \o Distractors[s]) = Named(s)
<1>1. Distractors[s] \in Seq(Flag) /\ Fault[s] \in Flag \cup {NoFlag} /\ NoFlag \notin Flag
  BY ScenarioAssumption
<1>2. FaultOf(s) \in Seq(Flag) /\ Range(FaultOf(s)) = {Fault[s]} \ {NoFlag}
  BY <1>1 DEF FaultOf, Range
<1>3. \A a, b \in Seq(Flag) : a \o b \in Seq(Flag) /\ Range(a \o b) = Range(a) \cup Range(b)
  <2> SUFFICES ASSUME NEW a \in Seq(Flag), NEW b \in Seq(Flag)
               PROVE  a \o b \in Seq(Flag) /\ Range(a \o b) = Range(a) \cup Range(b)
    OBVIOUS
  <2>1. /\ a \o b \in Seq(Flag) /\ Len(a \o b) = Len(a) + Len(b)
        /\ \A i \in 1 .. Len(a) + Len(b) :
             (a \o b)[i] = IF i <= Len(a) THEN a[i] ELSE b[i - Len(a)]
    BY ConcatProperties
  <2>2. /\ DOMAIN a = 1 .. Len(a) /\ DOMAIN b = 1 .. Len(b)
        /\ DOMAIN (a \o b) = 1 .. Len(a) + Len(b)
        /\ Len(a) \in Nat /\ Len(b) \in Nat
    BY <2>1
  <2>3. Range(a \o b) \subseteq Range(a) \cup Range(b)
    BY <2>1, <2>2 DEF Range
  <2>4. Range(a) \subseteq Range(a \o b)
    <3> SUFFICES ASSUME NEW i \in 1 .. Len(a) PROVE a[i] \in Range(a \o b)
      BY <2>2 DEF Range
    <3>1. i \in 1 .. Len(a) + Len(b) /\ (a \o b)[i] = a[i]
      BY <2>1, <2>2
    <3> QED BY <3>1, <2>2 DEF Range
  <2>5. Range(b) \subseteq Range(a \o b)
    <3> SUFFICES ASSUME NEW i \in 1 .. Len(b) PROVE b[i] \in Range(a \o b)
      BY <2>2 DEF Range
    <3>1. i + Len(a) \in 1 .. Len(a) + Len(b) /\ (a \o b)[i + Len(a)] = b[i]
      BY <2>1, <2>2
    <3> QED BY <3>1, <2>2 DEF Range
  <2> QED BY <2>1, <2>3, <2>4, <2>5
<1> QED BY <1>1, <1>2, <1>3 DEF Named

(***************************************************************************)
(* What is left to be applied after the first of it.                       *)
(***************************************************************************)
LEMMA OneLess ==
  ASSUME NEW q \in Seq(Change), q # << >>
  PROVE  /\ Head(q) \in Change /\ Head(q).flag \in Flags(q)
         /\ Tail(q) \in Seq(Change) /\ Len(Tail(q)) = Len(q) - 1 /\ Len(q) \in Nat \ {0}
         /\ Len(q) > 1 => Tail(q) # << >>
         /\ Flags(q) = Flags(Tail(q)) \cup {Head(q).flag}
         /\ \A on \in BOOLEAN : AllAre(q, on) => Head(q).on = on /\ AllAre(Tail(q), on)
         /\ Tail(q) # << >> =>
              \A on \in BOOLEAN : AllAre(q, on) => Head(Tail(q)).on = on
<1>1. /\ Len(q) \in Nat \ {0} /\ Head(q) = q[1] /\ q[1] \in Change
      /\ Tail(q) \in Seq(Change) /\ Len(Tail(q)) = Len(q) - 1
      /\ \A i \in 1 .. Len(Tail(q)) : Tail(q)[i] = q[i + 1]
  BY HeadTailProperties
<1>2. \A i \in 1 .. Len(q) : i = 1 \/ (i - 1 \in 1 .. Len(Tail(q)) /\ Tail(q)[i - 1] = q[i])
  BY <1>1
<1>3. Flags(q) \subseteq Flags(Tail(q)) \cup {Head(q).flag}
  BY <1>1, <1>2 DEF Flags
<1>4. Flags(Tail(q)) \subseteq Flags(q)
  BY <1>1 DEF Flags
<1>5. Head(q).flag \in Flags(q)
  BY <1>1 DEF Flags
<1>6. ASSUME NEW on \in BOOLEAN, AllAre(q, on)
      PROVE  Head(q).on = on /\ AllAre(Tail(q), on)
  BY <1>1, <1>6 DEF AllAre
<1>7. ASSUME Tail(q) # << >> PROVE Head(Tail(q)) = Tail(q)[1] /\ 1 \in 1 .. Len(Tail(q))
  BY <1>1, <1>7
<1>8. ASSUME Len(q) > 1 PROVE Tail(q) # << >>
  <2>1. \A n \in Nat : n > 1 => n - 1 # 0
    OBVIOUS
  <2>2. Len(Tail(q)) # 0
    BY <1>1, <1>8, <2>1
  <2>3. \A z \in Seq(Change) : z = << >> => Len(z) = 0
    OBVIOUS
  <2> QED BY <1>1, <2>2, <2>3
<1> QED BY <1>1, <1>3, <1>4, <1>5, <1>6, <1>7, <1>8 DEF AllAre

-----------------------------------------------------------------------------
LEMMA InitInv == Init => Inv
<1> SUFFICES ASSUME Init PROVE Inv
  OBVIOUS
<1>1. TypeOK
  BY LimitAssumption
  DEF Init, TypeOK, Steps, Missing, Directory, NoLabel, Label
<1>2. Control
  BY DEF Init, Control
<1>3. FlagInv
  BY DEF Init, FlagInv, OnlyItsFlags, AllItsFlags, Applying, Clearing, BundleShowsItsFault,
         Whole, Missing, Recorded
<1>4. LibraryInv
  BY DEF Init, LibraryInv, Untouched, LibraryIsSound, Exists, Whole, Missing, NoLabel
<1> QED BY <1>1, <1>2, <1>3, <1>4 DEF Inv

(***************************************************************************)
(* The batch's list when a recording is over, and when it is given up.     *)
(***************************************************************************)
LEMMA OverTyped ==
  ASSUME TypeOK, Control, step # "idle", NEW recorded \in BOOLEAN, Over(recorded)
  PROVE  /\ step' = "idle" /\ runner' = "nobody" /\ todo' \in Seq(Change)
         /\ shown' \subseteq Flag /\ stale' \subseteq Flag
         /\ scenario' \in Scenario /\ takes' \in Nat
         /\ queue' \in Seq(Scenario) /\ attempt' \in 0 .. MaxAttempts
         /\ Control'
<1>1. /\ queue \in Seq(Scenario) /\ attempt \in 0 .. MaxAttempts /\ MaxAttempts \in Nat \ {0}
      /\ scenario \in Scenario /\ takes \in Nat /\ runner \in {"batch", "person"}
  BY LimitAssumption DEF TypeOK
<1>2. /\ step' = "idle" /\ runner' = "nobody" /\ todo' = << >> /\ shown' = {} /\ stale' = {}
      /\ scenario' = scenario /\ takes' = takes
  BY DEF Over
<1>3. CASE runner = "batch" /\ (recorded \/ attempt = MaxAttempts)
  <2>1. queue # << >> /\ queue' = Tail(queue) /\ attempt' = 0
    BY <1>3 DEF Over, Control
  <2>2. queue' \in Seq(Scenario)
    BY <1>1, <2>1, HeadTailProperties
  <2> QED BY <1>1, <1>2, <2>1, <2>2 DEF Control
<1>4. CASE ~(runner = "batch" /\ (recorded \/ attempt = MaxAttempts))
  <2>1. queue' = queue /\ attempt' = attempt
    BY <1>4 DEF Over, batch
  <2>2. queue # << >> => attempt < MaxAttempts
    BY <1>1, <1>4 DEF Control
  <2> QED BY <1>1, <1>2, <2>1, <2>2 DEF Control
<1> QED BY <1>3, <1>4

LEMMA CutShortTyped ==
  ASSUME TypeOK, CutShort
  PROVE  config' \subseteq Flag /\ served' \subseteq Flag /\ label' \in [Scenario -> Label]
         /\ bundle' \in [Scenario -> Directory]
<1>1. config' \subseteq Flag
  <2>1. step = "apply" => Head(todo) \in Change
    BY OneLess DEF TypeOK
  <2> QED BY <2>1 DEF CutShort, TypeOK, Configured, Change
<1>2. [take |-> takes, whole |-> FALSE] \in Label
  BY DEF TypeOK, Label
<1>3. label' \in [Scenario -> Label]
  BY <1>2 DEF CutShort, TypeOK
<1> QED BY <1>1, <1>3 DEF CutShort, TypeOK

LEMMA MissingTyped == Missing \in Directory
  BY LimitAssumption DEF Missing, Directory

LEMMA CleanUpTyped ==
  ASSUME TypeOK, CleanUp \/ UNCHANGED staging
  PROVE  staging' \in [Scenario -> Directory]
  BY MissingTyped DEF CleanUp, TypeOK

(***************************************************************************)
(* Types, and who records what.                                            *)
(***************************************************************************)
LEMMA TypeStep == TypeOK /\ Control /\ [Next]_vars => TypeOK' /\ Control'
<1> SUFFICES ASSUME TypeOK, Control, [Next]_vars PROVE TypeOK' /\ Control'
  OBVIOUS
<1> USE LimitAssumption
<1>0. ASSUME UNCHANGED <<runner, scenario, takes, queue, attempt>> PROVE Control'
  BY <1>0 DEF Control
<1>1. CASE Reload
  <2>1. Control' BY <1>0, <1>1 DEF Reload, batch
  <2> QED BY <1>1, <2>1 DEF Reload, TypeOK, library, batch
<1>2. CASE StartBatch
  <2>1. queue' \in Seq(Scenario) /\ attempt' = 0 /\ queue = << >> /\ step = "idle"
    BY <1>2, OutstandingListed DEF StartBatch
  <2>2. UNCHANGED <<config, served, step, runner, scenario, takes, todo, shown, stale, staging, bundle,
                    label>>
    BY <1>2 DEF StartBatch, flagd, call, library
  <2> QED BY <2>1, <2>2 DEF TypeOK, Control
<1>3. CASE Attempt
  <2>1. /\ step = "idle" /\ runner = "nobody" /\ queue # << >> /\ queue \in Seq(Scenario)
        /\ attempt \in Nat /\ attempt < MaxAttempts
    BY <1>3 DEF Attempt, TypeOK, Control
  <2>2. Head(queue) \in Scenario /\ Tail(queue) \in Seq(Scenario)
    BY <2>1, HeadTailProperties
  <2>3. UNCHANGED <<config, served, staging, bundle, label, todo, shown, stale>>
    BY <1>3 DEF Attempt, flagd, library, Begin, call
  <2>4. CASE Exists(bundle[Head(queue)])
    <3>1. UNCHANGED <<step, runner, scenario, takes, todo, shown, stale>>
      BY <1>3, <2>4 DEF Attempt, call
    <3>2. \/ queue' = Tail(queue) /\ attempt' = 0
          \/ queue' = queue /\ attempt' = attempt + 1 /\ attempt + 1 # MaxAttempts
      BY <1>3, <2>4 DEF Attempt
    <3>3. queue' \in Seq(Scenario) /\ attempt' \in Nat /\ attempt' < MaxAttempts
      BY <2>1, <2>2, <3>2
    <3>4. TypeOK'
      BY <2>3, <3>1, <3>3 DEF TypeOK
    <3>5. Control'
      BY <2>1, <3>1, <3>3 DEF Control
    <3> QED BY <3>4, <3>5
  <2>5. CASE ~Exists(bundle[Head(queue)])
    <3>1. /\ step' = "reset" /\ runner' = "batch" /\ scenario' = Head(queue)
          /\ takes' = takes + 1 /\ attempt' = attempt + 1 /\ queue' = queue
      BY <1>3, <2>5 DEF Attempt, Begin
    <3> QED BY <2>1, <2>2, <2>3, <3>1 DEF TypeOK, Control, Steps
  <2> QED BY <2>4, <2>5
<1>4. ASSUME NEW s \in Scenario, RecordByForce(s) PROVE TypeOK' /\ Control'
  <2>1. /\ step = "idle" /\ queue = << >> /\ s \in Forced
        /\ step' = "reset" /\ runner' = "person" /\ scenario' = s /\ takes' = takes + 1
        /\ UNCHANGED <<config, served, staging, bundle, label, todo, shown, stale, queue, attempt>>
    BY <1>4 DEF RecordByForce, Begin, flagd, library, batch
  <2> QED BY <2>1 DEF TypeOK, Control, Steps
<1>5. CASE StartClean
  <2>1. Control' BY <1>0, <1>5 DEF StartClean, GoTo, batch
  <2> QED BY <1>5, <2>1 DEF StartClean, GoTo, TypeOK, Steps, library, batch
<1>6. CASE LoadReady
  <2>1. Control' BY <1>0, <1>6 DEF LoadReady, GoTo, batch
  <2> QED BY <1>6, <2>1 DEF LoadReady, GoTo, TypeOK, Steps, library, batch, flagd
<1>7. CASE WarmupDone
  <2>1. Control' BY <1>0, <1>7 DEF WarmupDone, GoTo, batch
  <2>2. todo' \in Seq(Change)
    BY <1>7, ItsFlags, ChangesTyped DEF WarmupDone, TypeOK
  <2> QED BY <1>7, <2>1, <2>2 DEF WarmupDone, GoTo, TypeOK, Steps, library, batch, flagd
<1>8. CASE SetVariant
  <2>1. Control' BY <1>0, <1>8 DEF SetVariant, GoTo, batch
  <2>2. Head(todo) \in Change
    BY <1>8, OneLess DEF SetVariant, TypeOK
  <2>3. config' \subseteq Flag
    BY <1>8, <2>2 DEF SetVariant, Configured, TypeOK, Change
  <2> QED BY <1>8, <2>1, <2>3 DEF SetVariant, GoTo, TypeOK, Steps, library, batch
<1>9. CASE AwaitVariant
  <2>1. Control' BY <1>0, <1>9 DEF AwaitVariant, Applied, GoTo, batch
  <2>2. /\ todo \in Seq(Change) /\ todo # << >> /\ todo' = Tail(todo) /\ Tail(todo) \in Seq(Change)
        /\ Len(Tail(todo)) = Len(todo) - 1 /\ Len(todo) \in Nat \ {0}
    BY <1>9, OneLess DEF AwaitVariant, Applied, TypeOK
  <2>3. Len(todo) > 1 => todo' # << >>
    BY <2>2, OneLess
  <2>4. step' \in {"apply", "hold", "cooldown"} /\ (step' = "apply" => Len(todo) > 1)
    BY <1>9 DEF AwaitVariant, Applied, GoTo
  <2>5. UNCHANGED <<config, served, shown, stale, staging, bundle, label, queue, attempt, runner,
                    scenario, takes>>
    BY <1>9 DEF AwaitVariant, Applied, GoTo, flagd, library, batch
  <2> QED BY <1>9, <2>1, <2>2, <2>3, <2>4, <2>5 DEF AwaitVariant, TypeOK, Steps
<1>10. CASE FaultHeld
  <2>1. Control' BY <1>0, <1>10 DEF FaultHeld, GoTo, batch
  <2>2. todo' \in Seq(Change)
    BY <1>10, ItsFlags, ChangesTyped DEF FaultHeld, TypeOK
  <2> QED BY <1>10, <2>1, <2>2 DEF FaultHeld, GoTo, TypeOK, Steps, library, batch, flagd
<1>11. CASE CooledDown \/ CheckDuration \/ CheckContinuity
  <2>1. Control' BY <1>0, <1>11 DEF CooledDown, CheckDuration, CheckContinuity, GoTo, batch
  <2> QED BY <1>11, <2>1
          DEF CooledDown, CheckDuration, CheckContinuity, GoTo, TypeOK, Steps, library, batch, flagd
<1>12. CASE OpenStaging
  <2>1. Control' BY <1>0, <1>12 DEF OpenStaging, GoTo, batch
  <2>2. [Missing EXCEPT !.take = takes, !.shows = shown, !.stale = stale] \in Directory
    BY MissingTyped DEF Directory, TypeOK
  <2> QED BY <1>12, <2>1, <2>2 DEF OpenStaging, GoTo, TypeOK, Steps, batch, flagd
<1>13. CASE WriteFile
  <2>1. Control' BY <1>0, <1>13 DEF WriteFile, GoTo, batch
  <2>2. /\ staging[scenario] \in Directory /\ staging[scenario].files \in 0 .. NFiles
    BY DEF TypeOK, Directory
  <2>3. staging[scenario].files < NFiles =>
          [staging[scenario] EXCEPT !.files = @ + 1] \in Directory
    BY <2>2 DEF Directory
  <2>4. [staging[scenario] EXCEPT !.manifest = TRUE] \in Directory
    BY <2>2 DEF Directory
  <2>5. staging' \in [Scenario -> Directory]
    BY <1>13, <2>3, <2>4 DEF WriteFile, TypeOK
  <2> QED BY <1>13, <2>1, <2>5 DEF WriteFile, GoTo, TypeOK, Steps, batch, flagd
<1>14. CASE RemoveOld
  <2>1. Control' BY <1>0, <1>14 DEF RemoveOld, call, batch
  <2>2. /\ bundle[scenario] \in Directory /\ bundle[scenario].files \in 0 .. NFiles
    BY DEF TypeOK, Directory
  <2>3. ASSUME bundle[scenario].files > 0
        PROVE  [bundle[scenario] EXCEPT !.files = @ - 1] \in Directory
    <3>1. bundle[scenario].files - 1 \in 0 .. NFiles
      BY <2>2, <2>3
    <3> QED BY <2>2, <3>1 DEF Directory
  <2>4. [bundle[scenario] EXCEPT !.manifest = FALSE] \in Directory
    BY <2>2 DEF Directory
  <2>5. bundle' \in [Scenario -> Directory]
    BY <1>14, <2>3, <2>4, MissingTyped DEF RemoveOld, TypeOK
  <2> QED BY <1>14, <2>1, <2>5 DEF RemoveOld, TypeOK, call, batch, flagd
<1>15. CASE Replace
  <2>1. Control' BY <1>0, <1>15 DEF Replace, GoTo, batch
  <2>2. Missing \in Directory
    BY MissingTyped
  <2> QED BY <1>15, <2>1, <2>2 DEF Replace, GoTo, TypeOK, Steps, batch, flagd
<1>16. CASE WriteLabel
  <2>1. step # "idle" /\ Over(TRUE) /\ label' \in [Scenario -> Label]
    BY <1>16 DEF WriteLabel, TypeOK, Label
  <2> QED BY <1>16, <2>1, OverTyped DEF WriteLabel, TypeOK, flagd, Steps
<1>17. CASE Raise \/ Kill
  <2>1. step # "idle" /\ CutShort /\ Over(FALSE) /\ (CleanUp \/ UNCHANGED staging)
    BY <1>17 DEF Raise, Kill
  <2> QED BY <2>1, OverTyped, CutShortTyped, CleanUpTyped DEF TypeOK, Steps
<1>18. CASE Interrupt
  <2>1. /\ queue' = << >> /\ attempt' = 0 /\ step' = "idle" /\ runner' = "nobody"
        /\ todo' = << >> /\ shown' = {} /\ stale' = {} /\ scenario' = scenario /\ takes' = takes
    BY <1>18 DEF Interrupt
  <2>2. /\ config' \subseteq Flag /\ served' \subseteq Flag /\ label' \in [Scenario -> Label]
        /\ bundle' \in [Scenario -> Directory] /\ staging' \in [Scenario -> Directory]
    BY <1>18, CutShortTyped, CleanUpTyped DEF Interrupt, flagd, library, TypeOK
  <2> QED BY <2>1, <2>2 DEF TypeOK, Control, Steps
<1>19. CASE UNCHANGED vars
  BY <1>19 DEF vars, TypeOK, Control
<1> QED
  BY <1>1, <1>2, <1>3, <1>4, <1>5, <1>6, <1>7, <1>8, <1>9, <1>10, <1>11, <1>12, <1>13, <1>14,
     <1>15, <1>16, <1>17, <1>18, <1>19
  DEF Next, Recording

-----------------------------------------------------------------------------
(***************************************************************************)
(* Between recordings, and before one has reset the flags, only the        *)
(* bundles matter.                                                         *)
(***************************************************************************)
LEMMA RestingFlags ==
  ASSUME FlagInv, step' \in {"idle", "reset"}, bundle' = bundle
  PROVE  FlagInv'
BY DEF FlagInv, OnlyItsFlags, AllItsFlags, Applying, Clearing, BundleShowsItsFault, Whole, Recorded,
       ShowsFaults

(***************************************************************************)
(* What recordings show.                                                   *)
(***************************************************************************)
LEMMA FlagStep == TypeOK /\ Control /\ FlagInv /\ [Next]_vars => FlagInv'
<1> SUFFICES ASSUME TypeOK, Control, FlagInv, [Next]_vars PROVE FlagInv'
  OBVIOUS
<1> USE LimitAssumption
<1>0. ASSUME UNCHANGED bundle PROVE BundleShowsItsFault'
  BY <1>0 DEF FlagInv, BundleShowsItsFault, Whole, ShowsFaults
<1> USE DEF Recorded
<1>1. CASE Reload
  <2>1. UNCHANGED <<config, step, scenario, todo, stale, staging, bundle>> /\ served' = config
    BY <1>1 DEF Reload, library
  <2>2. step \in Recorded => shown' = shown \cup config
    BY <1>1, <2>1 DEF Reload
  <2>3. step \notin Recorded => shown' = shown
    BY <1>1 DEF Reload
  <2>4. OnlyItsFlags'
    BY <2>1, <2>2 DEF FlagInv, OnlyItsFlags, Flags, Named
  <2>5. AllItsFlags'
    <3>1. Applying' = Applying /\ Clearing' = Clearing /\ Flags(todo)' = Flags(todo)
      BY <2>1 DEF Applying, Clearing, Flags
    <3>2. AllAre(todo, TRUE)' = AllAre(todo, TRUE) /\ AllAre(todo, FALSE)' = AllAre(todo, FALSE)
      BY <2>1 DEF AllAre
    <3>3. /\ Applying => AllAre(todo, TRUE)' /\ Named(scenario') \ Flags(todo)' \subseteq shown'
          /\ Clearing => AllAre(todo, FALSE)' /\ Named(scenario') \subseteq shown'
      BY <2>1, <2>2, <3>1, <3>2 DEF FlagInv, AllItsFlags, Applying, Clearing
    <3>4. step \in {"hold", "cooldown"} => Complete'
      BY <2>1, <2>2 DEF FlagInv, AllItsFlags, OnlyItsFlags, Complete, Named
    <3>5. step \in {"check", "export"} => Complete'
      BY <2>1, <2>3 DEF FlagInv, AllItsFlags, Complete, Named
    <3> QED BY <2>1, <3>1, <3>3, <3>4, <3>5 DEF FlagInv, AllItsFlags, ShowsFaults, Named
  <2> QED BY <1>0, <2>1, <2>4, <2>5 DEF FlagInv
<1>2. CASE StartBatch
  <2>1. UNCHANGED <<config, served, step, scenario, todo, shown, stale, staging, bundle>>
    BY <1>2 DEF StartBatch, flagd, call, library
  <2> QED BY <2>1
          DEF FlagInv, OnlyItsFlags, AllItsFlags, Applying, Clearing, BundleShowsItsFault, Whole,
              Flags, AllAre, Complete, ShowsFaults
<1>3. CASE Attempt
  <2>1. step' \in {"idle", "reset"} /\ bundle' = bundle
    BY <1>3 DEF Attempt, Begin, call, library
  <2> QED BY <2>1, RestingFlags
<1>4. ASSUME NEW s \in Scenario, RecordByForce(s) PROVE FlagInv'
  BY <1>4, RestingFlags DEF RecordByForce, Begin, library
<1>5. CASE StartClean
  <2>1. step' = "load" /\ config' = {} /\ bundle' = bundle
    BY <1>5 DEF StartClean, GoTo, library
  <2> QED BY <1>0, <2>1 DEF FlagInv, OnlyItsFlags, AllItsFlags, Applying, Clearing
<1>6. CASE LoadReady
  <2>1. /\ step = "load" /\ step' = "warmup" /\ config' = config /\ served' = served
        /\ bundle' = bundle /\ shown' = served /\ stale' = served \ config
    BY <1>6 DEF LoadReady, GoTo, library, flagd
  <2>2. config = {}
    BY <2>1 DEF FlagInv, OnlyItsFlags
  <2> QED BY <1>0, <2>1, <2>2 DEF FlagInv, OnlyItsFlags, AllItsFlags, Applying, Clearing
<1>7. CASE WarmupDone
  <2>1. /\ step = "warmup" /\ config' = {} /\ scenario' = scenario
        /\ UNCHANGED <<served, shown, stale, bundle>>
        /\ served \subseteq shown /\ shown = stale
    BY <1>7 DEF WarmupDone, GoTo, flagd, library, FlagInv, OnlyItsFlags
  <2>2. todo' = Changes(Distractors[scenario] \o FaultOf(scenario), TRUE)
    BY <1>7 DEF WarmupDone
  <2>3. todo' \in Seq(Change) /\ AllAre(todo', TRUE) /\ Flags(todo') = Named(scenario)
    BY <2>2, ItsFlags, ChangesTyped DEF TypeOK
  <2>4. CASE todo' = << >>
    <3>1. step' = "hold"
      BY <1>7, <2>4 DEF WarmupDone, GoTo
    <3>2. Flags(todo') = {}
      BY <2>4 DEF Flags
    <3> QED BY <1>0, <2>1, <2>3, <3>1, <3>2
            DEF FlagInv, OnlyItsFlags, AllItsFlags, Applying, Clearing, Complete
  <2>5. CASE todo' # << >>
    <3>1. step' = "apply"
      BY <1>7, <2>5 DEF WarmupDone, GoTo
    <3>2. Head(todo').on
      BY <2>3, <2>5, OneLess
    <3> QED BY <1>0, <2>1, <2>3, <3>1, <3>2
            DEF FlagInv, OnlyItsFlags, AllItsFlags, Applying, Clearing
  <2> QED BY <2>4, <2>5
<1>8. CASE SetVariant
  <2>1. /\ step = "apply" /\ step' = "await" /\ config' = Configured(Head(todo))
        /\ UNCHANGED <<served, todo, shown, stale, scenario, staging, bundle>>
    BY <1>8 DEF SetVariant, GoTo, library
  <2>2. Head(todo).flag \in Flags(todo)
    BY <2>1, OneLess DEF TypeOK
  <2>3. config' \subseteq Named(scenario)
    BY <2>1, <2>2 DEF Configured, FlagInv, OnlyItsFlags
  <2>4. OnlyItsFlags'
    BY <2>1, <2>3 DEF FlagInv, OnlyItsFlags, Flags
  <2>5. AllItsFlags'
    BY <2>1 DEF FlagInv, AllItsFlags, Applying, Clearing, Flags, AllAre
  <2> QED BY <1>0, <2>1, <2>4, <2>5 DEF FlagInv
<1>9. CASE AwaitVariant
  <2>1. /\ step = "await" /\ todo \in Seq(Change) /\ todo # << >> /\ todo' = Tail(todo)
        /\ UNCHANGED <<config, served, shown, stale, scenario, staging, bundle>>
    BY <1>9 DEF AwaitVariant, Applied, GoTo, flagd, library, TypeOK
  <2>2. /\ Flags(todo) = Flags(Tail(todo)) \cup {Head(todo).flag} /\ Head(todo) \in Change
        /\ Tail(todo) \in Seq(Change) /\ Len(Tail(todo)) = Len(todo) - 1 /\ Len(todo) \in Nat \ {0}
        /\ Len(todo) > 1 => Tail(todo) # << >>
    BY <2>1, OneLess
  <2>3. OnlyItsFlags'
    <3>1. step' \in {"apply", "hold", "cooldown"}
      BY <1>9 DEF AwaitVariant, Applied, GoTo
    <3>2. Flags(todo') \subseteq Named(scenario)
      BY <2>1, <2>2 DEF FlagInv, OnlyItsFlags
    <3> QED BY <2>1, <3>1, <3>2 DEF FlagInv, OnlyItsFlags
  <2>4. CASE Head(todo).on
    <3>1. Head(todo).flag \in shown
      BY <1>9, <2>1, <2>4 DEF AwaitVariant, FlagInv, OnlyItsFlags
    <3>2. AllAre(todo, TRUE) /\ Named(scenario) \ Flags(todo) \subseteq shown
      BY <2>1, <2>4 DEF FlagInv, AllItsFlags, Applying
    <3>3. Named(scenario) \ Flags(todo') \subseteq shown'
      BY <2>1, <2>2, <3>1, <3>2
    <3>4. AllAre(todo', TRUE) /\ (todo' # << >> => Head(todo').on)
      BY <2>1, <3>2, OneLess
    <3>5. CASE Len(todo) > 1
      <4>1. step' = "apply" /\ todo' # << >>
        BY <1>9, <2>1, <2>2, <3>5 DEF AwaitVariant, Applied, GoTo
      <4>2. AllItsFlags'
        BY <2>1, <3>3, <3>4, <4>1 DEF AllItsFlags, Applying, Clearing
      <4> QED BY <1>0, <2>1, <2>3, <4>2 DEF FlagInv
    <3>6. CASE ~(Len(todo) > 1)
      <4>1. step' = "hold"
        BY <1>9, <2>4, <3>6 DEF AwaitVariant, Applied, GoTo
      <4>2. 1 .. Len(Tail(todo)) = {}
        BY <2>2, <3>6
      <4>3. Flags(todo') = {}
        BY <2>1, <4>2 DEF Flags
      <4>4. Complete'
        BY <2>1, <3>3, <4>3 DEF FlagInv, OnlyItsFlags, Complete
      <4>5. AllItsFlags'
        BY <2>1, <4>1, <4>4 DEF AllItsFlags, Applying, Clearing
      <4> QED BY <1>0, <2>1, <2>3, <4>5 DEF FlagInv
    <3> QED BY <3>5, <3>6
  <2>5. CASE ~Head(todo).on
    <3>1. AllAre(todo, FALSE) /\ Named(scenario) \subseteq shown
      BY <2>1, <2>5 DEF FlagInv, AllItsFlags, Clearing
    <3>2. AllAre(todo', FALSE) /\ (todo' # << >> => Head(todo').on = FALSE)
      BY <2>1, <3>1, OneLess
    <3>3. \/ step' = "apply" /\ todo' # << >>
          \/ step' = "cooldown"
      BY <1>9, <2>1, <2>2, <2>5 DEF AwaitVariant, Applied, GoTo
    <3>4. Complete' /\ Named(scenario) \subseteq shown
      BY <2>1, <3>1 DEF FlagInv, OnlyItsFlags, Complete
    <3>5. AllItsFlags'
      BY <2>1, <3>2, <3>3, <3>4 DEF AllItsFlags, Applying, Clearing
    <3> QED BY <1>0, <2>1, <2>3, <3>5 DEF FlagInv
  <2> QED BY <2>4, <2>5
<1>10. CASE FaultHeld
  <2>1. /\ step = "hold" /\ UNCHANGED <<config, served, shown, stale, scenario, bundle>>
    BY <1>10 DEF FaultHeld, GoTo, flagd, library
  <2>2. todo' = Changes(FaultOf(scenario) \o Distractors[scenario], FALSE)
    BY <1>10 DEF FaultHeld
  <2>3. todo' \in Seq(Change) /\ AllAre(todo', FALSE) /\ Flags(todo') = Named(scenario)
    BY <2>2, ItsFlags, ChangesTyped DEF TypeOK
  <2>4. Complete
    BY <2>1 DEF FlagInv, AllItsFlags
  <2>5. \/ step' = "apply" /\ todo' # << >> /\ Head(todo').on = FALSE
        \/ step' = "cooldown"
    BY <1>10, <2>3, OneLess DEF FaultHeld, GoTo
  <2>6. OnlyItsFlags'
    BY <2>1, <2>3, <2>5 DEF FlagInv, OnlyItsFlags
  <2>7. AllItsFlags'
    BY <2>1, <2>3, <2>4, <2>5 DEF AllItsFlags, Applying, Clearing, Complete
  <2> QED BY <1>0, <2>1, <2>6, <2>7 DEF FlagInv
<1>11. CASE CooledDown \/ CheckDuration
  <2>1. /\ step \in {"cooldown", "check"} /\ step' \in {"check", "export"}
        /\ UNCHANGED <<shown, stale, scenario, bundle>>
    BY <1>11 DEF CooledDown, CheckDuration, GoTo, library
  <2> QED BY <1>0, <2>1 DEF FlagInv, OnlyItsFlags, AllItsFlags, Applying, Clearing, Complete
<1>12. CASE OpenStaging
  <2>1. /\ step = "export" /\ step' = "write" /\ UNCHANGED <<scenario, bundle>>
        /\ staging'[scenario].shows = shown /\ staging'[scenario].stale = stale
    BY <1>12 DEF OpenStaging, GoTo, TypeOK, Missing
  <2> QED BY <1>0, <2>1
          DEF FlagInv, OnlyItsFlags, AllItsFlags, Applying, Clearing, Complete, ShowsFaults
<1>13. CASE WriteFile \/ CheckContinuity
  <2>1. /\ step \in {"write", "continuity"} /\ step' \in {"write", "continuity", "place"}
        /\ UNCHANGED <<scenario, bundle>>
    BY <1>13 DEF WriteFile, CheckContinuity, GoTo, library
  <2>2. staging[scenario] \in Directory
    BY DEF TypeOK
  <2>3. /\ staging'[scenario].shows = staging[scenario].shows
        /\ staging'[scenario].stale = staging[scenario].stale
    BY <1>13, <2>2 DEF WriteFile, CheckContinuity, GoTo, TypeOK, library, Directory
  <2> QED BY <1>0, <2>1, <2>3
          DEF FlagInv, OnlyItsFlags, AllItsFlags, Applying, Clearing, ShowsFaults
<1>14. CASE RemoveOld
  <2>1. UNCHANGED <<step, scenario, staging>> /\ step = "place"
    BY <1>14 DEF RemoveOld, call
  <2>2. bundle[scenario] \in Directory /\ bundle[scenario].files \in 0 .. NFiles
    BY DEF TypeOK, Directory
  <2>3. \A s \in Scenario : s # scenario => bundle'[s] = bundle[s]
    BY <1>14 DEF RemoveOld, TypeOK
  <2>4. ~Whole(bundle'[scenario])
    <3>1. bundle[scenario].files - 1 # NFiles
      BY <2>2
    <3> QED BY <1>14, <2>2, <3>1 DEF RemoveOld, TypeOK, Whole, Missing, Directory
  <2>5. BundleShowsItsFault'
    BY <2>3, <2>4 DEF FlagInv, BundleShowsItsFault
  <2> QED BY <2>1, <2>5 DEF FlagInv, OnlyItsFlags, AllItsFlags, Applying, Clearing
<1>15. CASE Replace
  <2>1. /\ step = "place" /\ step' = "label"
        /\ bundle' = [bundle EXCEPT ![scenario] = staging[scenario]]
    BY <1>15 DEF Replace, GoTo
  <2>2. ShowsFaults(staging[scenario], scenario)
    BY <2>1 DEF FlagInv, AllItsFlags
  <2>3. BundleShowsItsFault'
    BY <2>1, <2>2 DEF FlagInv, BundleShowsItsFault, TypeOK
  <2> QED BY <2>1, <2>3 DEF FlagInv, OnlyItsFlags, AllItsFlags, Applying, Clearing
<1>16. CASE WriteLabel \/ Raise \/ Kill \/ Interrupt
  BY <1>16, RestingFlags DEF WriteLabel, Raise, Kill, Interrupt, Over, CutShort, library
<1>17. CASE UNCHANGED vars
  BY <1>17 DEF vars, FlagInv, OnlyItsFlags, AllItsFlags, Applying, Clearing, BundleShowsItsFault,
               Whole, Flags, AllAre, Complete, ShowsFaults
<1> QED
  BY <1>1, <1>2, <1>3, <1>4, <1>5, <1>6, <1>7, <1>8, <1>9, <1>10, <1>11, <1>12, <1>13, <1>14,
     <1>15, <1>16, <1>17
  DEF Next, Recording

-----------------------------------------------------------------------------
(***************************************************************************)
(* Nothing is under way in the library.                                    *)
(***************************************************************************)
LEMMA RestingLibrary ==
  ASSUME LibraryIsSound', step' \in {"idle", "reset"},
         step' = "reset" /\ scenario' \notin Forced => ~Exists(bundle'[scenario'])
  PROVE  LibraryInv'
BY DEF LibraryInv, Untouched

(***************************************************************************)
(* Whatever a recording does before it exports leaves the library alone.   *)
(***************************************************************************)
LEMMA BeforeExport ==
  ASSUME LibraryInv, UNCHANGED <<scenario, takes, staging, bundle, label>>,
         step \notin {"idle", "label"},
         step' \notin {"idle", "label", "write", "continuity", "place"}
  PROVE  LibraryInv'
BY DEF LibraryInv, Untouched, LibraryIsSound, Exists, Whole

(***************************************************************************)
(* What the library holds.                                                 *)
(***************************************************************************)
LEMMA LibraryStep == TypeOK /\ Control /\ LibraryInv /\ [Next]_vars => LibraryInv'
<1> SUFFICES ASSUME TypeOK, Control, LibraryInv, [Next]_vars PROVE LibraryInv'
  OBVIOUS
<1> USE LimitAssumption
<1>0. ASSUME UNCHANGED <<bundle, label>> PROVE LibraryIsSound'
  BY <1>0 DEF LibraryInv, LibraryIsSound, Exists, Whole
<1>1. CASE Reload \/ StartBatch
  <2>1. UNCHANGED <<step, scenario, takes, staging, bundle, label>>
    BY <1>1 DEF Reload, StartBatch, call, library
  <2> QED BY <1>0, <2>1 DEF LibraryInv, Untouched, Exists, Whole
<1>2. CASE Attempt
  <2>1. UNCHANGED <<bundle, label>> /\ step = "idle"
    BY <1>2 DEF Attempt, library
  <2>2. \/ step' = "idle"
        \/ step' = "reset" /\ scenario' = Head(queue) /\ ~Exists(bundle[Head(queue)])
    BY <1>2, <2>1 DEF Attempt, Begin, call
  <2> QED BY <1>0, <2>1, <2>2, RestingLibrary
<1>3. ASSUME NEW s \in Scenario, RecordByForce(s) PROVE LibraryInv'
  BY <1>0, <1>3, RestingLibrary DEF RecordByForce, Begin, library
<1>4. CASE StartClean \/ LoadReady \/ CooledDown \/ CheckDuration
  BY <1>4, BeforeExport DEF StartClean, LoadReady, CooledDown, CheckDuration, GoTo, library
<1>5. CASE WarmupDone \/ SetVariant \/ FaultHeld
  BY <1>5, BeforeExport DEF WarmupDone, SetVariant, FaultHeld, GoTo, library
<1>6. CASE AwaitVariant
  BY <1>6, BeforeExport DEF AwaitVariant, Applied, GoTo, library
<1>7. CASE OpenStaging
  <2>1. /\ step = "export" /\ step' = "write" /\ staging'[scenario].take = takes
        /\ UNCHANGED <<scenario, takes, bundle, label>>
    BY <1>7 DEF OpenStaging, GoTo, TypeOK, Missing
  <2> QED BY <1>0, <2>1 DEF LibraryInv, Untouched
<1>8. CASE WriteFile
  <2>1. /\ step = "write" /\ step' \in {"write", "continuity"}
        /\ UNCHANGED <<scenario, takes, bundle, label>>
    BY <1>8 DEF WriteFile, GoTo
  <2>2. /\ staging[scenario] \in Directory /\ staging[scenario].files \in 0 .. NFiles
        /\ staging[scenario].take = takes
    BY <2>1 DEF TypeOK, Directory, LibraryInv, Untouched
  <2>3. staging'[scenario].take = takes
    BY <1>8, <2>2 DEF WriteFile, TypeOK, Directory
  <2>4. step' = "continuity" => Whole(staging'[scenario])
    BY <1>8, <2>2 DEF WriteFile, GoTo, TypeOK, Directory, Whole
  <2> QED BY <1>0, <2>1, <2>3, <2>4 DEF LibraryInv, Untouched
<1>9. CASE CheckContinuity
  <2>1. /\ step = "continuity" /\ step' = "place"
        /\ UNCHANGED <<scenario, takes, staging, bundle, label>>
    BY <1>9 DEF CheckContinuity, GoTo, library
  <2> QED BY <1>0, <2>1 DEF LibraryInv, Untouched
<1>10. CASE RemoveOld
  <2>1. UNCHANGED <<step, scenario, takes, staging, label>> /\ step = "place"
    BY <1>10 DEF RemoveOld, call
  <2>2. scenario \in Forced
    BY <1>10, <2>1 DEF RemoveOld, LibraryInv, Untouched
  <2>3. \A s \in Scenario : s # scenario => bundle'[s] = bundle[s]
    BY <1>10 DEF RemoveOld, TypeOK
  <2>4. LibraryIsSound'
    BY <2>1, <2>2, <2>3 DEF LibraryInv, LibraryIsSound
  <2> QED BY <2>1, <2>2, <2>4 DEF LibraryInv, Untouched
<1>11. CASE Replace
  <2>1. /\ step = "place" /\ step' = "label" /\ UNCHANGED <<scenario, takes, label>>
        /\ bundle' = [bundle EXCEPT ![scenario] = staging[scenario]]
        /\ ~Exists(bundle[scenario])
    BY <1>11 DEF Replace, GoTo
  <2>2. Whole(staging[scenario]) /\ staging[scenario].take = takes
    BY <2>1 DEF LibraryInv, Untouched
  <2>3. bundle'[scenario] = staging[scenario]
    BY <2>1 DEF TypeOK
  <2>4. scenario \notin Forced => ~label[scenario].whole
    BY <2>1 DEF LibraryInv, LibraryIsSound, TypeOK, Exists, Whole, Missing
  <2>5. LibraryIsSound'
    BY <2>1, <2>2, <2>3, <2>4 DEF LibraryInv, LibraryIsSound, TypeOK
  <2> QED BY <2>1, <2>2, <2>3, <2>5 DEF LibraryInv, Untouched
<1>12. CASE WriteLabel
  <2>1. /\ step = "label" /\ step' = "idle" /\ bundle' = bundle
        /\ label' = [label EXCEPT ![scenario] = [take |-> takes, whole |-> TRUE]]
    BY <1>12 DEF WriteLabel, Over
  <2>2. Whole(bundle[scenario]) /\ bundle[scenario].take = takes
    BY <2>1 DEF LibraryInv, Untouched
  <2>3. LibraryIsSound'
    BY <2>1, <2>2 DEF LibraryInv, LibraryIsSound, TypeOK
  <2> QED BY <2>1, <2>3, RestingLibrary
<1>13. CASE Raise \/ Kill \/ Interrupt
  <2>1. step' = "idle" /\ bundle' = bundle
    BY <1>13 DEF Raise, Kill, Interrupt, Over, CutShort, library
  <2>2. \/ label' = label
        \/ label' = [label EXCEPT ![scenario] = [take |-> takes, whole |-> FALSE]]
    BY <1>13 DEF Raise, Kill, Interrupt, CutShort, library
  <2>3. LibraryIsSound'
    BY <2>1, <2>2 DEF LibraryInv, LibraryIsSound, TypeOK
  <2> QED BY <2>1, <2>3, RestingLibrary
<1>14. CASE UNCHANGED vars
  BY <1>14 DEF vars, LibraryInv, Untouched, LibraryIsSound, Exists, Whole
<1> QED
  BY <1>1, <1>2, <1>3, <1>4, <1>5, <1>6, <1>7, <1>8, <1>9, <1>10, <1>11, <1>12, <1>13, <1>14
  DEF Next, Recording

LEMMA InvStep == Inv /\ [Next]_vars => Inv'
  BY TypeStep, FlagStep, LibraryStep DEF Inv

LEMMA InvHolds == Spec => []Inv
  BY InitInv, InvStep, PTL DEF Spec

-----------------------------------------------------------------------------
(***************************************************************************)
(* Type correctness of the recorder, the batch and the library.            *)
(***************************************************************************)
THEOREM RecorderTypes == Spec => []TypeOK
<1>1. Inv => TypeOK
  BY DEF Inv
<1> QED BY <1>1, InvHolds, PTL

(***************************************************************************)
(* A finished bundle shows its scenario's flags and, beside them, at most  *)
(* what flagd still served when the recorded window began, for any         *)
(* scenarios, and whatever earlier recordings left on when they stopped.   *)
(***************************************************************************)
THEOREM BundlesShowTheirFaults == Spec => []BundleShowsItsFault
<1>1. Inv => BundleShowsItsFault
  BY DEF Inv, FlagInv
<1> QED BY <1>1, InvHolds, PTL

(***************************************************************************)
(* Without --force, bundle directories are absent or whole, and readable   *)
(* labels belong to the bundles they name, wherever recordings stop.       *)
(***************************************************************************)
THEOREM LibraryStaysSound == Spec => []LibraryIsSound
<1>1. Inv => LibraryIsSound
  BY DEF Inv, LibraryInv
<1> QED BY <1>1, InvHolds, PTL

(***************************************************************************)
(* No step but those of a forced recording touches a bundle that is whole. *)
(***************************************************************************)
LEMMA KeptStep ==
  ASSUME Inv, [Next]_vars, NEW s \in Scenario \ Forced, Whole(bundle[s])
  PROVE  bundle'[s] = bundle[s]
<1>1. Exists(bundle[s])
  BY DEF Exists, Whole, Missing
<1>2. CASE RemoveOld
  <2>1. scenario \in Forced
    BY <1>2 DEF RemoveOld, Inv, LibraryInv, Untouched
  <2> QED BY <1>2, <2>1 DEF RemoveOld, Inv, TypeOK
<1>3. CASE Replace
  BY <1>1, <1>3 DEF Replace, Inv, TypeOK
<1>4. CASE ~(RemoveOld \/ Replace)
  BY <1>4
  DEF Next, vars, Recording, Reload, StartBatch, Attempt, RecordByForce, StartClean, LoadReady,
      WarmupDone, SetVariant, AwaitVariant, Applied, FaultHeld, CooledDown, CheckDuration,
      OpenStaging, WriteFile, CheckContinuity, WriteLabel, Raise, Kill, Interrupt, CutShort,
      library
<1> QED BY <1>2, <1>3, <1>4

(***************************************************************************)
(* What was recorded stays, whatever retries and later batches do: only    *)
(* --force replaces a bundle (lab/bundle_writer.py).                       *)
(***************************************************************************)
THEOREM RecordedForGood == Spec => NothingIsLost
<1> DEFINE Kept == \A s \in Scenario \ Forced : Whole(bundle[s]) => bundle'[s] = bundle[s]
<1>1. Inv /\ [Next]_vars => [Kept]_vars
  BY KeptStep
<1> QED BY <1>1, InvHolds, PTL DEF Spec, NothingIsLost

-----------------------------------------------------------------------------
(***************************************************************************)
(* A directory shows its scenario's flags from the moment it is opened,    *)
(* wherever it is and whatever is missing of it.                           *)
(***************************************************************************)
DirectoriesShow ==
  \A s \in Scenario :
    /\ Exists(staging[s]) => ShowsFaults(staging[s], s)
    /\ Exists(bundle[s]) => ShowsFaults(bundle[s], s)

(***************************************************************************)
(* The bundles nobody replaces by force, once they are there.              *)
(***************************************************************************)
Lasting(place) == place[1] = "bundle" /\ place[2] \notin Forced

Listed == {packing.bundles[i] : i \in 1 .. Len(packing.bundles)}

ArchiveMember == [files: 0 .. NFiles, take: Nat, shows: SUBSET Flag, stale: SUBSET Flag,
                  manifest: Nat]

PackagingTypes ==
  /\ packing \in [at: {"idle", "verify", "files", "manifest", "checksum"},
                  bundles: Seq(Places), left: Seq(Places)]
  /\ archive = [number |-> archive.number, closed |-> archive.closed, index |-> archive.index,
                members |-> [place \in DOMAIN archive.members |-> archive.members[place]]]
  /\ archive.number \in Nat \ {0} /\ archive.closed \in BOOLEAN
  /\ DOMAIN archive.members \subseteq Places
  /\ \A place \in DOMAIN archive.members : archive.members[place] \in ArchiveMember
  /\ checksum \in 0 .. archive.number

(***************************************************************************)
(* The number beside the archive is its own only if it was closed.         *)
(***************************************************************************)
ChecksumAfter ==
  /\ packing.at \in {"files", "manifest"} => ~archive.closed
  /\ packing.at = "checksum" => archive.closed
  /\ checksum = archive.number => archive.closed

(***************************************************************************)
(* What is to go in, and what went in, is there and is in the index.       *)
(***************************************************************************)
MembersLast ==
  /\ packing.at = "manifest" => packing.left # << >>
  /\ \A i \in 1 .. Len(packing.left) : packing.left[i] \in Listed
  /\ \A place \in Listed : Lasting(place) => Whole(bundle[place[2]])
  /\ packing.at \in {"files", "manifest"} =>
       \A place \in Listed : Lasting(place) => place \in archive.index
  /\ \A place \in DOMAIN archive.members :
       /\ ShowsFaults(archive.members[place], place[2])
       /\ Lasting(place) =>
            /\ Whole(bundle[place[2]]) /\ archive.members[place].take = bundle[place[2]].take
            /\ place \in archive.index

ReleaseInv == DirectoriesShow /\ PackagingTypes /\ ChecksumAfter /\ MembersLast

LEMMA DirectoriesStep == Inv /\ DirectoriesShow /\ [Next]_vars => DirectoriesShow'
<1> SUFFICES ASSUME Inv, DirectoriesShow, [Next]_vars PROVE DirectoriesShow'
  OBVIOUS
<1>0. TypeOK /\ staging[scenario] \in Directory /\ bundle[scenario] \in Directory /\ scenario \in Scenario
  BY DEF Inv, TypeOK
<1>1. ASSUME UNCHANGED <<staging, bundle>> PROVE DirectoriesShow'
  BY <1>1 DEF DirectoriesShow, Exists
<1>2. CASE OpenStaging
  <2>1. Complete
    BY <1>2 DEF OpenStaging, Inv, FlagInv, AllItsFlags
  <2>2. /\ bundle' = bundle
        /\ staging' = [staging EXCEPT ![scenario] =
                         [Missing EXCEPT !.take = takes, !.shows = shown, !.stale = stale]]
    BY <1>2 DEF OpenStaging
  <2>3. ShowsFaults([Missing EXCEPT !.take = takes, !.shows = shown, !.stale = stale], scenario)
    BY <2>1 DEF Missing, Complete, ShowsFaults
  <2> QED BY <1>0, <2>2, <2>3 DEF DirectoriesShow, TypeOK, Exists
<1>3. CASE WriteFile
  <2>1. ShowsFaults(staging[scenario], scenario)
    BY <1>3 DEF WriteFile, Inv, FlagInv, AllItsFlags
  <2>2. /\ bundle' = bundle /\ staging'[scenario].shows = staging[scenario].shows
        /\ staging'[scenario].stale = staging[scenario].stale
        /\ \A s \in Scenario : s # scenario => staging'[s] = staging[s]
    BY <1>0, <1>3 DEF WriteFile, TypeOK, Directory
  <2> QED BY <2>1, <2>2 DEF DirectoriesShow, Exists, ShowsFaults
<1>4. CASE RemoveOld
  <2>1. Exists(bundle[scenario]) /\ staging' = staging
    BY <1>4 DEF RemoveOld
  <2>2. /\ \A s \in Scenario : s # scenario => bundle'[s] = bundle[s]
        /\ \/ /\ bundle'[scenario].shows = bundle[scenario].shows
              /\ bundle'[scenario].stale = bundle[scenario].stale
           \/ bundle'[scenario] = Missing
    BY <1>0, <1>4 DEF RemoveOld, TypeOK, Directory
  <2> QED BY <2>1, <2>2 DEF DirectoriesShow, Exists, ShowsFaults
<1>5. CASE Replace
  <2>1. ShowsFaults(staging[scenario], scenario)
    BY <1>5 DEF Replace, Inv, FlagInv, AllItsFlags
  <2>2. /\ bundle' = [bundle EXCEPT ![scenario] = staging[scenario]]
        /\ staging' = [staging EXCEPT ![scenario] = Missing]
    BY <1>5 DEF Replace
  <2> QED BY <1>0, <2>1, <2>2 DEF DirectoriesShow, TypeOK, Exists
<1>6. CASE Raise \/ Kill \/ Interrupt
  <2>1. bundle' = bundle
    BY <1>6 DEF Raise, Kill, Interrupt, CutShort, library
  <2>2. \A s \in Scenario : staging'[s] = staging[s] \/ staging'[s] = Missing
    BY <1>0, <1>6 DEF Raise, Kill, Interrupt, CleanUp, library, TypeOK
  <2> QED BY <2>1, <2>2 DEF DirectoriesShow, Exists
<1>7. CASE ~(OpenStaging \/ WriteFile \/ RemoveOld \/ Replace \/ Raise \/ Kill \/ Interrupt)
  <2>1. UNCHANGED <<staging, bundle>>
    BY <1>7
    DEF Next, vars, Recording, Reload, StartBatch, Attempt, RecordByForce, StartClean, LoadReady,
        WarmupDone, SetVariant, AwaitVariant, Applied, FaultHeld, CooledDown, CheckDuration,
        CheckContinuity, WriteLabel, library
  <2> QED BY <1>1, <2>1
<1> QED BY <1>2, <1>3, <1>4, <1>5, <1>6, <1>7

-----------------------------------------------------------------------------
LEMMA PlacesListed == SetToSeq(IterBundles) \in Seq(Places) /\ SetToSeq(IterBundles) \in Seq(IterBundles)
<1>1. IsFiniteSet({"staging", "bundle"})
  <2>1. IsFiniteSet({"staging"} \cup {"bundle"})
    BY FS_Singleton, FS_Union
  <2>2. {"staging", "bundle"} = {"staging"} \cup {"bundle"}
    OBVIOUS
  <2> QED BY <2>1, <2>2
<1>2. IsFiniteSet(Places)
  BY <1>1, FS_Product, ScenarioAssumption DEF Places
<1>3. IterBundles \subseteq Places /\ IsFiniteSet(IterBundles)
  BY <1>2, FS_Subset DEF IterBundles
<1>4. SetToSeq(IterBundles) \in Seq(IterBundles)
  BY <1>3, SetListed
<1> QED BY <1>3, <1>4

(***************************************************************************)
(* A lasting bundle with a manifest is whole.                              *)
(***************************************************************************)
LEMMA LastingWhole ==
  ASSUME Inv, NEW place \in Places, Lasting(place), Exists(At(place))
  PROVE  At(place) = bundle[place[2]] /\ Whole(bundle[place[2]])
BY DEF Inv, LibraryInv, LibraryIsSound, Places, Lasting, At

LEMMA ManifestExists ==
  ASSUME NEW d, d.manifest
  PROVE  Exists(d)
BY DEF Exists, Missing

(***************************************************************************)
(* A step that leaves packages alone leaves lasting bundles alone too.     *)
(***************************************************************************)
LEMMA RecordingKeeps ==
  ASSUME Inv, ReleaseInv, [Next]_vars, UNCHANGED rvars
  PROVE  ReleaseInv'
<1>1. UNCHANGED <<packing, archive, checksum>>
  BY DEF rvars
<1>2. DirectoriesShow'
  BY DirectoriesStep DEF ReleaseInv
<1>3. PackagingTypes' /\ ChecksumAfter'
  BY <1>1 DEF ReleaseInv, PackagingTypes, ChecksumAfter
<1>4. \A place \in Places : Lasting(place) /\ Whole(bundle[place[2]]) => bundle'[place[2]] = bundle[place[2]]
  BY KeptStep DEF Places, Lasting
<1>5. Listed \subseteq Places /\ Listed' = Listed /\ DOMAIN archive.members \subseteq Places
  BY <1>1 DEF ReleaseInv, PackagingTypes, Listed
<1>6. ASSUME NEW place \in Places, Lasting(place), Whole(bundle[place[2]])
      PROVE  Whole(bundle'[place[2]]) /\ bundle'[place[2]].take = bundle[place[2]].take
  BY <1>4, <1>6
<1>7. MembersLast'
  BY <1>1, <1>5, <1>6 DEF ReleaseInv, MembersLast
<1> QED BY <1>2, <1>3, <1>7 DEF ReleaseInv

-----------------------------------------------------------------------------
(***************************************************************************)
(* What an archive is made of stays so when a member is added.             *)
(***************************************************************************)
LEMMA MemberTyped ==
  ASSUME TypeOK, NEW place \in Places
  PROVE  /\ At(place) \in Directory
         /\ Member(At(place)) \in ArchiveMember
         /\ Member(At(place)).shows = At(place).shows /\ Member(At(place)).stale = At(place).stale
         /\ Member(At(place)).take = At(place).take
<1>1. At(place) \in Directory
  BY DEF Places, At, TypeOK
<1>2. PICK dir \in Directory : dir = At(place)
  BY <1>1
<1>3. /\ Member(dir) \in ArchiveMember
      /\ Member(dir).shows = dir.shows /\ Member(dir).stale = dir.stale /\ Member(dir).take = dir.take
  BY <1>2 DEF Directory, Member, ArchiveMember
<1> QED BY <1>1, <1>2, <1>3

LEMMA ShownThere ==
  ASSUME DirectoriesShow, NEW place \in Places, Exists(At(place))
  PROVE  ShowsFaults(At(place), place[2])
BY DEF DirectoriesShow, Places, At

(***************************************************************************)
(* An archive that is given up holds nothing.                              *)
(***************************************************************************)
LEMMA CutTyped ==
  ASSUME PackagingTypes
  PROVE  /\ Cut = [number |-> archive.number, closed |-> archive.closed, index |-> {}, members |-> << >>]
         /\ DOMAIN Cut.members = {}
<1> DEFINE members == [place \in DOMAIN archive.members |-> archive.members[place]]
           same == [number |-> archive.number, closed |-> archive.closed, index |-> archive.index,
                    members |-> members]
           cut == [number |-> archive.number, closed |-> archive.closed, index |-> {}, members |-> << >>]
<1>1. archive = same
  BY DEF PackagingTypes
<1>2. Cut = [same EXCEPT !.index = {}, !.members = << >>]
  BY <1>1 DEF Cut
<1>3. [same EXCEPT !.index = {}, !.members = << >>] = cut
  <2>1. ASSUME NEW old, NEW new, NEW index
        PROVE  [[number |-> archive.number, closed |-> archive.closed, index |-> index, members |-> old]
                  EXCEPT !.index = {}, !.members = new]
               = [number |-> archive.number, closed |-> archive.closed, index |-> {}, members |-> new]
    <3> DEFINE r == [number |-> archive.number, closed |-> archive.closed, index |-> index, members |-> old]
               e == [number |-> archive.number, closed |-> archive.closed, index |-> {}, members |-> old]
    <3>1. [r EXCEPT !.index = {}, !.members = new] = [[r EXCEPT !.index = {}] EXCEPT !.members = new]
      OBVIOUS
    <3>2. [r EXCEPT !.index = {}] = e
      OBVIOUS
    <3>3. [e EXCEPT !.members = new]
          = [number |-> archive.number, closed |-> archive.closed, index |-> {}, members |-> new]
      OBVIOUS
    <3> QED BY <3>1, <3>2, <3>3
  <2> HIDE DEF members
  <2> QED BY <2>1
<1>4. DOMAIN cut.members = {}
  OBVIOUS
<1> QED BY <1>2, <1>3, <1>4

(***************************************************************************)
(* The first of what is left, and what is left after it.                   *)
(***************************************************************************)
LEMMA LeftListed ==
  ASSUME PackagingTypes, MembersLast, packing.left # << >>
  PROVE  /\ Head(packing.left) \in Places /\ Head(packing.left) \in Listed
         /\ Tail(packing.left) \in Seq(Places)
         /\ \A i \in 1 .. Len(Tail(packing.left)) : Tail(packing.left)[i] \in Listed
<1>1. packing.left \in Seq(Places)
  BY DEF PackagingTypes
<1>2. /\ Head(packing.left) = packing.left[1] /\ 1 \in 1 .. Len(packing.left)
      /\ Tail(packing.left) \in Seq(Places)
      /\ Len(Tail(packing.left)) = Len(packing.left) - 1
      /\ \A i \in 1 .. Len(Tail(packing.left)) : Tail(packing.left)[i] = packing.left[i + 1]
  BY <1>1
<1>3. \A i \in 1 .. Len(Tail(packing.left)) : i + 1 \in 1 .. Len(packing.left)
  BY <1>1, <1>2
<1> QED BY <1>1, <1>2, <1>3 DEF MembersLast

(***************************************************************************)
(* Packaging that has ended lists nothing.                                 *)
(***************************************************************************)
LEMMA IdleListsNothing ==
  ASSUME packing' = Idle
  PROVE  /\ packing'.at = "idle" /\ Len(packing'.left) = 0 /\ Listed' = {}
         /\ packing' \in [at: {"idle", "verify", "files", "manifest", "checksum"},
                          bundles: Seq(Places), left: Seq(Places)]
BY DEF Idle, Listed

(***************************************************************************)
(* Giving up: the archive, unless it is whole, holds nothing.              *)
(***************************************************************************)
LEMMA GivingUp ==
  ASSUME ReleaseInv, UNCHANGED vars, packing' = Idle,
         archive' = archive \/ (archive' = Cut /\ ~archive.closed),
         \/ checksum' \in {checksum, Torn}
         \/ checksum' = archive.number /\ packing.at = "checksum" /\ archive' = archive
  PROVE  ReleaseInv'
<1>0. PackagingTypes /\ ChecksumAfter /\ MembersLast /\ DirectoriesShow
  BY DEF ReleaseInv
<1>1. /\ packing'.at = "idle" /\ Len(packing'.left) = 0 /\ Listed' = {}
      /\ packing' \in [at: {"idle", "verify", "files", "manifest", "checksum"},
                       bundles: Seq(Places), left: Seq(Places)]
  BY IdleListsNothing
<1>2. DirectoriesShow'
  BY <1>0 DEF DirectoriesShow, vars, Exists
<1>3. archive'.number = archive.number /\ archive'.closed = archive.closed
  BY <1>0, CutTyped
<1>4. checksum' \in 0 .. archive'.number
  BY <1>0, <1>3 DEF PackagingTypes, Torn
<1>5. PackagingTypes'
  <2>1. CASE archive' = archive
    BY <1>0, <1>1, <1>4, <2>1 DEF PackagingTypes
  <2>2. CASE archive' = Cut
    BY <1>0, <1>1, <1>3, <1>4, <2>2, CutTyped DEF PackagingTypes
  <2> QED BY <2>1, <2>2
<1>6. ChecksumAfter'
  BY <1>0, <1>1, <1>3 DEF ChecksumAfter, PackagingTypes, Torn
<1>7. MembersLast'
  <2>1. CASE archive' = archive
    BY <1>0, <1>1, <2>1 DEF MembersLast, vars
  <2>2. CASE archive' = Cut
    BY <1>0, <1>1, <2>2, CutTyped DEF MembersLast
  <2> QED BY <2>1, <2>2
<1> QED BY <1>2, <1>5, <1>6, <1>7 DEF ReleaseInv

(***************************************************************************)
(* Packaging goes on with an archive that is not touched.                  *)
(***************************************************************************)
LEMMA ListingKeeps ==
  ASSUME Inv, ReleaseInv, UNCHANGED vars, ListBundles \/ VerifyEach
  PROVE  ReleaseInv'
<1>0. PackagingTypes /\ ChecksumAfter /\ MembersLast /\ DirectoriesShow /\ TypeOK
  BY DEF ReleaseInv, Inv
<1>1. UNCHANGED <<archive, checksum, bundle, staging>>
  BY DEF ListBundles, VerifyEach, vars
<1>2. DirectoriesShow'
  BY <1>0, <1>1 DEF DirectoriesShow, Exists
<1>3. CASE ListBundles
  <2> DEFINE found == SetToSeq(IterBundles)
  <2>1. packing' = [at |-> "verify", bundles |-> found, left |-> found]
    BY <1>3 DEF ListBundles
  <2>2. found \in Seq(Places) /\ \A i \in 1 .. Len(found) : found[i] \in IterBundles
    BY PlacesListed
  <2>3. Listed' = {found[i] : i \in 1 .. Len(found)}
    BY <2>1 DEF Listed
  <2>4. \A place \in Listed' : Lasting(place) => Whole(bundle'[place[2]])
    <3> SUFFICES ASSUME NEW place \in Listed', Lasting(place) PROVE Whole(bundle'[place[2]])
      OBVIOUS
    <3>1. place \in Places /\ At(place).manifest
      BY <2>2, <2>3 DEF IterBundles
    <3>2. Whole(bundle[place[2]])
      BY <3>1, ManifestExists, LastingWhole
    <3> QED BY <1>1, <3>2
  <2> HIDE DEF found
  <2>5. PackagingTypes'
    BY <1>0, <1>1, <2>1, <2>2 DEF PackagingTypes
  <2>6. ChecksumAfter'
    BY <1>0, <1>1, <2>1 DEF ChecksumAfter
  <2>7. MembersLast'
    BY <1>0, <1>1, <2>1, <2>3, <2>4 DEF MembersLast
  <2> QED BY <1>2, <2>5, <2>6, <2>7 DEF ReleaseInv
<1>4. CASE VerifyEach /\ packing' = Idle
  <2>1. archive' = archive /\ checksum' \in {checksum, Torn}
    BY <1>1
  <2> QED BY <1>4, <2>1, GivingUp
<1>5. CASE VerifyEach /\ packing' # Idle
  <2>1. packing' = [packing EXCEPT !.left = Tail(@)] /\ packing.at = "verify" /\ packing.left # << >>
    BY <1>5 DEF VerifyEach
  <2>2. /\ Tail(packing.left) \in Seq(Places)
        /\ \A i \in 1 .. Len(Tail(packing.left)) : Tail(packing.left)[i] \in Listed
    BY <1>0, <2>1, LeftListed
  <2>3. /\ packing' \in [at: {"idle", "verify", "files", "manifest", "checksum"},
                         bundles: Seq(Places), left: Seq(Places)]
        /\ packing'.at = "verify" /\ packing'.left = Tail(packing.left) /\ packing'.bundles = packing.bundles
    BY <1>0, <2>1, <2>2 DEF PackagingTypes
  <2>4. Listed' = Listed
    BY <2>3 DEF Listed
  <2>5. PackagingTypes' /\ ChecksumAfter'
    BY <1>0, <1>1, <2>3 DEF PackagingTypes, ChecksumAfter
  <2>6. MembersLast'
    BY <1>0, <1>1, <2>2, <2>3, <2>4 DEF MembersLast
  <2> QED BY <1>2, <2>5, <2>6 DEF ReleaseInv
<1> QED BY <1>3, <1>4, <1>5

LEMMA OpeningKeeps ==
  ASSUME Inv, ReleaseInv, UNCHANGED vars, OpenArchive
  PROVE  ReleaseInv'
<1>0. PackagingTypes /\ ChecksumAfter /\ MembersLast /\ DirectoriesShow /\ TypeOK
  BY DEF ReleaseInv, Inv
<1>1. UNCHANGED <<checksum, bundle, staging>>
  BY DEF OpenArchive, vars
<1>2. DirectoriesShow'
  BY <1>0, <1>1 DEF DirectoriesShow, Exists
<1>3. /\ packing' \in [at: {"idle", "verify", "files", "manifest", "checksum"},
                       bundles: Seq(Places), left: Seq(Places)]
      /\ packing'.at = "files" /\ packing'.left = packing.bundles /\ packing'.bundles = packing.bundles
  BY <1>0 DEF OpenArchive, PackagingTypes
<1>4. archive' = [number |-> archive.number + 1, closed |-> FALSE, index |-> IterBundles, members |-> << >>]
  BY DEF OpenArchive
<1>5. Listed' = Listed /\ Listed \subseteq Places
  BY <1>0, <1>3 DEF Listed, PackagingTypes
<1>6. \A place \in Listed : Lasting(place) => place \in IterBundles
  <2> SUFFICES ASSUME NEW place \in Listed, Lasting(place) PROVE place \in IterBundles
    OBVIOUS
  <2>1. Whole(bundle[place[2]]) /\ place \in Places
    BY <1>0, <1>5 DEF MembersLast
  <2>2. At(place) = bundle[place[2]]
    BY DEF At, Lasting
  <2> QED BY <2>1, <2>2 DEF IterBundles, Whole
<1>7. PackagingTypes'
  BY <1>0, <1>1, <1>3, <1>4 DEF PackagingTypes
<1>8. ChecksumAfter'
  BY <1>0, <1>1, <1>3, <1>4 DEF ChecksumAfter, PackagingTypes
<1>9. MembersLast'
  BY <1>0, <1>1, <1>3, <1>4, <1>5, <1>6 DEF MembersLast, Listed
<1> QED BY <1>2, <1>7, <1>8, <1>9 DEF ReleaseInv

(***************************************************************************)
(* A member that is added, or whose manifest is read, is in its place.     *)
(***************************************************************************)
LEMMA AddingKeeps ==
  ASSUME Inv, ReleaseInv, UNCHANGED vars, AddFiles
  PROVE  ReleaseInv'
<1>0. PackagingTypes /\ ChecksumAfter /\ MembersLast /\ DirectoriesShow /\ TypeOK
  BY DEF ReleaseInv, Inv
<1> DEFINE place == Head(packing.left)
           dir == At(place)
           members == [p \in DOMAIN archive.members \cup {place} |->
                         IF p = place THEN Member(dir) ELSE archive.members[p]]
<1>1. UNCHANGED <<checksum, bundle, staging>> /\ packing.at = "files" /\ packing.left # << >>
  BY DEF AddFiles, vars
<1>2. /\ place \in Places /\ place \in Listed /\ Tail(packing.left) \in Seq(Places)
      /\ \A i \in 1 .. Len(Tail(packing.left)) : Tail(packing.left)[i] \in Listed
  BY <1>0, <1>1, LeftListed
<1>3. CASE ~Exists(dir)
  <2>1. packing' = Idle /\ archive' = Cut
    BY <1>3 DEF AddFiles
  <2>2. ~archive.closed /\ checksum' \in {checksum, Torn}
    BY <1>0, <1>1 DEF ChecksumAfter
  <2> QED BY <2>1, <2>2, GivingUp
<1>4. CASE Exists(dir)
  <2>1. /\ archive' = [archive EXCEPT !.members = members]
        /\ packing' = IF dir.manifest THEN [packing EXCEPT !.at = "manifest"]
                      ELSE [packing EXCEPT !.left = Tail(@)]
    BY <1>4 DEF AddFiles
  <2>2. DirectoriesShow'
    BY <1>0, <1>1 DEF DirectoriesShow, Exists
  <2>3. /\ Member(dir) \in ArchiveMember /\ ShowsFaults(Member(dir), place[2])
        /\ Member(dir).take = dir.take
    BY <1>0, <1>2, <1>4, MemberTyped, ShownThere DEF ShowsFaults
  <2>4. Lasting(place) => /\ Whole(bundle[place[2]]) /\ Member(dir).take = bundle[place[2]].take
                          /\ place \in archive.index
    BY <1>0, <1>1, <1>2, <2>3 DEF MembersLast, At, Lasting
  <2>5. /\ DOMAIN members = DOMAIN archive.members \cup {place}
        /\ \A p \in DOMAIN members : members[p] = IF p = place THEN Member(dir) ELSE archive.members[p]
        /\ members = [p \in DOMAIN members |-> members[p]]
    OBVIOUS
  <2>6. /\ packing' \in [at: {"idle", "verify", "files", "manifest", "checksum"},
                         bundles: Seq(Places), left: Seq(Places)]
        /\ packing'.at \in {"files", "manifest"} /\ packing'.bundles = packing.bundles
        /\ packing'.at = "manifest" => packing'.left # << >>
        /\ \A i \in 1 .. Len(packing'.left) : packing'.left[i] \in Listed
    <3> HIDE DEF place, dir, members
    <3>1. CASE dir.manifest
      <4>1. packing' = [packing EXCEPT !.at = "manifest"]
        BY <2>1, <3>1
      <4>2. packing'.left = packing.left
        BY <1>0, <4>1 DEF PackagingTypes
      <4> QED BY <1>0, <1>1, <4>1, <4>2 DEF PackagingTypes, MembersLast
    <3>2. CASE ~dir.manifest
      <4>1. packing' = [packing EXCEPT !.left = Tail(@)]
        BY <2>1, <3>2
      <4>2. packing'.left = Tail(packing.left)
        BY <1>0, <4>1 DEF PackagingTypes
      <4> QED BY <1>0, <1>1, <1>2, <4>1, <4>2 DEF PackagingTypes
    <3> QED BY <3>1, <3>2
  <2>7. Listed' = Listed
    BY <2>6 DEF Listed
  <2> HIDE DEF place, dir, members
  <2>8. archive' = [number |-> archive.number, closed |-> archive.closed, index |-> archive.index,
                    members |-> members]
    BY <1>0, <2>1 DEF PackagingTypes
  <2>9. PackagingTypes'
    <3>1. DOMAIN members \subseteq Places /\ \A p \in DOMAIN members : members[p] \in ArchiveMember
      BY <1>0, <1>2, <2>3, <2>5 DEF PackagingTypes
    <3> QED BY <1>0, <1>1, <2>5, <2>6, <2>8, <3>1 DEF PackagingTypes
  <2>10. ChecksumAfter'
    BY <1>0, <1>1, <2>6, <2>8 DEF ChecksumAfter
  <2>11. MembersLast'
    <3>1. \A p \in DOMAIN members :
            /\ ShowsFaults(members[p], p[2])
            /\ Lasting(p) => /\ Whole(bundle[p[2]]) /\ members[p].take = bundle[p[2]].take
                             /\ p \in archive.index
      BY <1>0, <2>3, <2>4, <2>5 DEF MembersLast
    <3> QED BY <1>0, <1>1, <2>6, <2>7, <2>8, <3>1 DEF MembersLast
  <2> QED BY <2>2, <2>9, <2>10, <2>11 DEF ReleaseInv
<1> QED BY <1>3, <1>4

LEMMA ManifestKeeps ==
  ASSUME Inv, ReleaseInv, UNCHANGED vars, AddManifest
  PROVE  ReleaseInv'
<1>0. PackagingTypes /\ ChecksumAfter /\ MembersLast /\ DirectoriesShow /\ TypeOK
  BY DEF ReleaseInv, Inv
<1> DEFINE place == Head(packing.left)
           members == [archive.members EXCEPT ![place].manifest = At(place).take]
<1>1. UNCHANGED <<checksum, bundle, staging>> /\ packing.at = "manifest" /\ packing.left # << >>
  BY <1>0 DEF AddManifest, MembersLast, vars
<1>2. /\ place \in Places /\ place \in Listed /\ Tail(packing.left) \in Seq(Places)
      /\ \A i \in 1 .. Len(Tail(packing.left)) : Tail(packing.left)[i] \in Listed
  BY <1>0, <1>1, LeftListed
<1>3. CASE ~At(place).manifest
  <2>1. packing' = Idle /\ archive' = Cut
    BY <1>3 DEF AddManifest
  <2>2. ~archive.closed /\ checksum' \in {checksum, Torn}
    BY <1>0, <1>1 DEF ChecksumAfter
  <2> QED BY <2>1, <2>2, GivingUp
<1>4. CASE At(place).manifest
  <2>1. /\ archive' = [archive EXCEPT !.members[place].manifest = At(place).take]
        /\ packing' = [packing EXCEPT !.at = "files", !.left = Tail(@)]
    BY <1>4 DEF AddManifest
  <2>2. DirectoriesShow'
    BY <1>0, <1>1 DEF DirectoriesShow, Exists
  <2>3. At(place).take \in Nat
    BY <1>0, <1>2, MemberTyped DEF Directory
  <2> HIDE DEF place
  <2>4. /\ DOMAIN members = DOMAIN archive.members
        /\ members = [p \in DOMAIN members |-> members[p]]
        /\ \A p \in DOMAIN members : /\ members[p] \in ArchiveMember
                                     /\ members[p].shows = archive.members[p].shows
                                     /\ members[p].stale = archive.members[p].stale
                                     /\ members[p].take = archive.members[p].take
    BY <1>0, <2>3 DEF PackagingTypes, ArchiveMember
  <2>5. archive' = [archive EXCEPT !.members = members]
    BY <2>1
  <2> HIDE DEF members
  <2>6. archive' = [number |-> archive.number, closed |-> archive.closed, index |-> archive.index,
                    members |-> members]
    BY <1>0, <2>5 DEF PackagingTypes
  <2>7. /\ packing' \in [at: {"idle", "verify", "files", "manifest", "checksum"},
                         bundles: Seq(Places), left: Seq(Places)]
        /\ packing'.at = "files" /\ packing'.left = Tail(packing.left) /\ packing'.bundles = packing.bundles
    BY <1>0, <1>2, <2>1 DEF PackagingTypes
  <2>8. Listed' = Listed
    BY <2>7 DEF Listed
  <2>9. PackagingTypes'
    BY <1>0, <1>1, <2>4, <2>6, <2>7 DEF PackagingTypes
  <2>10. ChecksumAfter'
    BY <1>0, <1>1, <2>6, <2>7 DEF ChecksumAfter
  <2>11. MembersLast'
    <3>1. \A p \in DOMAIN members :
            /\ ShowsFaults(members[p], p[2])
            /\ Lasting(p) => /\ Whole(bundle[p[2]]) /\ members[p].take = bundle[p[2]].take
                             /\ p \in archive.index
      BY <1>0, <2>4 DEF MembersLast, ShowsFaults
    <3> QED BY <1>0, <1>1, <1>2, <2>4, <2>6, <2>7, <2>8, <3>1 DEF MembersLast
  <2> QED BY <2>2, <2>9, <2>10, <2>11 DEF ReleaseInv
<1> QED BY <1>3, <1>4

LEMMA ClosingKeeps ==
  ASSUME Inv, ReleaseInv, UNCHANGED vars, CloseArchive
  PROVE  ReleaseInv'
<1>0. PackagingTypes /\ ChecksumAfter /\ MembersLast /\ DirectoriesShow /\ TypeOK
  BY DEF ReleaseInv, Inv
<1>1. UNCHANGED <<checksum, bundle, staging>>
  BY DEF CloseArchive, vars
<1>2. DirectoriesShow'
  BY <1>0, <1>1 DEF DirectoriesShow, Exists
<1>3. /\ packing' \in [at: {"idle", "verify", "files", "manifest", "checksum"},
                       bundles: Seq(Places), left: Seq(Places)]
      /\ packing'.at = "checksum" /\ packing'.left = packing.left /\ packing'.bundles = packing.bundles
  BY <1>0 DEF CloseArchive, PackagingTypes
<1>4. archive' = [number |-> archive.number, closed |-> TRUE, index |-> archive.index,
                  members |-> archive.members]
  BY <1>0 DEF CloseArchive, PackagingTypes
<1>5. Listed' = Listed
  BY <1>3 DEF Listed
<1>6. PackagingTypes'
  <2>1. /\ archive'.number = archive.number /\ archive'.closed = TRUE
        /\ archive'.index = archive.index /\ archive'.members = archive.members
    BY <1>4
  <2>2. archive.members = [place \in DOMAIN archive.members |-> archive.members[place]]
    BY <1>0 DEF PackagingTypes
  <2>3. archive' = [number |-> archive'.number, closed |-> archive'.closed, index |-> archive'.index,
                    members |-> [place \in DOMAIN archive'.members |-> archive'.members[place]]]
    BY <1>4, <2>1, <2>2
  <2> QED BY <1>0, <1>1, <1>3, <2>1, <2>3 DEF PackagingTypes
<1>7. ChecksumAfter'
  BY <1>3, <1>4 DEF ChecksumAfter
<1>8. MembersLast'
  BY <1>0, <1>1, <1>3, <1>4, <1>5 DEF MembersLast
<1> QED BY <1>2, <1>6, <1>7, <1>8 DEF ReleaseInv

LEMMA PackagingKeeps ==
  ASSUME Inv, ReleaseInv, UNCHANGED vars, Package
  PROVE  ReleaseInv'
<1>1. CASE WriteChecksum
  BY <1>1, GivingUp DEF WriteChecksum
<1>2. CASE StopPackaging
  <2>1. archive' = archive \/ (archive' = Cut /\ ~archive.closed)
    <3>1. archive.closed \in BOOLEAN
      BY DEF ReleaseInv, PackagingTypes
    <3> QED BY <1>2, <3>1 DEF StopPackaging
  <2>2. packing' = Idle /\ checksum' \in {checksum, Torn}
    BY <1>2 DEF StopPackaging
  <2> QED BY <2>1, <2>2, GivingUp
<1> QED BY <1>1, <1>2, ListingKeeps, OpeningKeeps, AddingKeeps, ManifestKeeps, ClosingKeeps DEF Package

-----------------------------------------------------------------------------
(***************************************************************************)
(* Whoever packages, the recorder does what it would do alone: packaging   *)
(* only reads.                                                             *)
(***************************************************************************)
LEMMA PackagingOnlyReads == ReleaseSpec => Spec
<1>1. ReleaseInit => Init
  BY DEF ReleaseInit
<1>2. [ReleaseNext]_allvars => [Next]_vars
  BY DEF ReleaseNext, allvars
<1> QED BY <1>1, <1>2, PTL DEF ReleaseSpec, Spec

(***************************************************************************)
(* While packages are made: what the directories are, what is being put    *)
(* into an archive, and what the number beside it is worth.                *)
(***************************************************************************)
LEMMA ReleaseHolds == ReleaseSpec => []ReleaseInv
<1>1. ReleaseInit => ReleaseInv
  <2> SUFFICES ASSUME ReleaseInit PROVE ReleaseInv
    OBVIOUS
  <2>1. packing = Idle /\ archive = Nothing /\ checksum = archive.number /\ Init
    BY DEF ReleaseInit
  <2>2. DirectoriesShow
    BY <2>1 DEF Init, DirectoriesShow, Exists
  <2>3. PackagingTypes /\ ChecksumAfter
    BY <2>1 DEF Idle, Nothing, PackagingTypes, ChecksumAfter
  <2>4. MembersLast
    BY <2>1 DEF Idle, Nothing, MembersLast, Listed
  <2> QED BY <2>2, <2>3, <2>4 DEF ReleaseInv
<1>2. Inv /\ ReleaseInv /\ [ReleaseNext]_allvars => ReleaseInv'
  <2> SUFFICES ASSUME Inv, ReleaseInv, [ReleaseNext]_allvars PROVE ReleaseInv'
    OBVIOUS
  <2>1. CASE [Next]_vars /\ UNCHANGED rvars
    BY <2>1, RecordingKeeps
  <2>2. CASE Package /\ UNCHANGED vars
    BY <2>2, PackagingKeeps
  <2> QED BY <2>1, <2>2 DEF ReleaseNext, allvars
<1> QED BY <1>1, <1>2, PackagingOnlyReads, InvHolds, PTL DEF ReleaseSpec

(***************************************************************************)
(* What unpack accepts was packaged to its end, each bundle in it is one   *)
(* recording that shows the faults of its scenario and no others but what  *)
(* flagd still served when its window began, and                           *)
(* where nobody used --force it is what the library still holds, what the  *)
(* index names and what a readable label belongs to: for any number of     *)
(* scenarios, recordings and archives, whatever is recorded, replaced,     *)
(* raised or killed while package_library reads the directories.           *)
(***************************************************************************)
THEOREM ReleasesAreSound == ReleaseSpec => []ReleaseIsSound
<1>1. Inv /\ ReleaseInv => ReleaseIsSound
  <2> SUFFICES ASSUME Inv, ReleaseInv, Unpacks PROVE OnlyRecordings /\ MatchesTheLibrary
    BY DEF ReleaseIsSound, OnlyRecordings, MatchesTheLibrary
  <2>0. PackagingTypes /\ ChecksumAfter /\ MembersLast /\ TypeOK /\ LibraryIsSound
    BY DEF ReleaseInv, Inv, LibraryInv
  <2>1. archive.closed
    BY <2>0 DEF Unpacks, VerifyArchive, ChecksumAfter
  <2>2. OnlyRecordings
    BY <2>0, <2>1 DEF OnlyRecordings, Arriving, MembersLast
  <2>3. ASSUME NEW place \in Arriving, place[1] = "bundle", place[2] \notin Forced
        PROVE  /\ place \in archive.index
               /\ archive.members[place].take = bundle[place[2]].take
               /\ label[place[2]].whole => label[place[2]].take = archive.members[place].take
    <3>1. place \in Places /\ place \in DOMAIN archive.members
      BY <2>0 DEF Arriving, PackagingTypes
    <3>2. place[2] \in Scenario \ Forced
      BY <2>3, <3>1 DEF Places
    <3>3. place \in archive.index /\ archive.members[place].take = bundle[place[2]].take
      BY <2>0, <2>3, <3>1 DEF MembersLast, Lasting
    <3> QED BY <2>0, <3>2, <3>3 DEF LibraryIsSound
  <2>4. MatchesTheLibrary
    BY <2>3 DEF MatchesTheLibrary
  <2> QED BY <2>2, <2>4
<1>2. ReleaseSpec => []Inv
  BY PackagingOnlyReads, InvHolds, PTL
<1> QED BY <1>1, <1>2, ReleaseHolds, PTL

=============================================================================
