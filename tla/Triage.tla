------------------------------- MODULE Triage -------------------------------
(***************************************************************************)
(* The deterministic triage of one recorded bundle, B0, which every agent  *)
(* configuration starts from and is compared with: the windows are chosen, *)
(* services are scored, suspicion walks over the call graph pass by pass,  *)
(* and a report names a service or declines to (triage/pipeline.py,        *)
(* triage/report.py).                                                      *)
(***************************************************************************)
EXTENDS Ranking, Searches

CONSTANTS
  Inputs,           \* bound: the recordings, [start, end, alert, shape, edges, spans,
                    \* logs, calls]
  SamplesOf(_),     \* their metric samples, in the order the file has them
  Excluded,         \* NOT_UNDER_INVESTIGATION
  MaxWindow,        \* the longest window a query may have
  MinimumTopAnomaly,\* hundredths of a deviation below which nothing is wrong
  Tolerance, MaxIterations

Floor == 35

Ceiling == 85

Power(base, n) ==
  LET power[k \in 0 .. n] == IF k = 0 THEN 1 ELSE base * power[k - 1]
  IN power[n]

\* config/thresholds.yaml as triage/thresholds.py accepts it, and a walk that
\* has passes enough for its tolerance.
TriageAssumption ==
  /\ MinimumTopAnomaly \in Nat /\ OnsetThreshold > 0 /\ GuardSeconds >= 0
  /\ BaselineThirds[1] > 0 /\ BaselineThirds[1] < BaselineThirds[2]
  /\ {Damping, OnsetBonus, BackwardRatio, SelfLoopRatio, Tolerance} \subseteq Nat \X (Nat \ {0})
  /\ Damping[1] < Damping[2]
  /\ OnsetBonus[1] >= OnsetBonus[2]
  /\ 2 * Power(Damping[1], MaxIterations) * Tolerance[2] < Tolerance[1] * Power(Damping[2], MaxIterations)

ASSUME TriageAssumption

(***************************************************************************)
(* A recording does not end before it starts; its samples, lines and spans *)
(* are in the order the files have them, and the spans of the trace that   *)
(* is looked at in detail have ids of their own.                           *)
(***************************************************************************)
ASSUME InputAssumption ==
  /\ GuardSeconds \in Nat /\ BaselineThirds \in Int \X Int /\ MaxIterations \in Nat \ {0}
  /\ \A recording \in Inputs :
       /\ recording.start \in Int /\ recording.end \in Int /\ recording.start <= recording.end
       /\ recording.alert # Never => recording.alert \in Int
       /\ SamplesOf(recording) \in Seq(Sample)
       /\ recording.edges \in Seq(CallEdge)
       /\ IsFiniteSet(recording.spans) /\ recording.spans \subseteq TraceSpan
       /\ \A s, t \in recording.spans : s.id = t.id => s = t
       /\ recording.logs \in Seq(LogLine)
       /\ recording.calls \in Seq(CallSpan)

VARIABLES
  input,            \* the recording
  stage,            \* "opened", "windowed", "scored", "walking", "ranked" and "reported";
                    \* "raised" or "unreported" when triage or its report raised
  windows,          \* [baseline, incident]
  scores,           \* <<metric, service>> -> [score, trustworthy]
  onsets,           \* service -> when it first went abnormal
  network, restart,   \* what is walked
  rank,             \* each node's share of suspicion
  passes, delta,    \* passes made, and what the last one changed
  report

scoreVars == <<windows, scores, onsets>>

walkVars == <<network, restart, rank, passes, delta>>

triageVars == <<input, stage, scoreVars, walkVars, report>>

Samples == SamplesOf(input)

----------------------------------------------------------------------------
(* pipeline.triage_bundle *)

OpenWindows ==
  /\ stage = "opened"
  /\ windows' = ChooseWindows(input)
  /\ stage' = "windowed"
  /\ UNCHANGED <<input, scores, onsets, walkVars, report>>

Broad(window) == window.end - window.start > MaxWindow

\* A window too broad for a query is refused, and nothing catches it.
Score ==
  /\ stage = "windowed"
  /\ IF Broad(windows.baseline) \/ Broad(windows.incident)
       THEN /\ stage' = "raised"
            /\ UNCHANGED <<scores, onsets>>
       ELSE /\ scores' = ScoreServices(Samples, windows.baseline, windows.incident)
            /\ onsets' = OnsetSeconds(Samples, windows.baseline, windows.incident)
            /\ stage' = "scored"
  /\ UNCHANGED <<input, windows, walkVars, report>>

\* What watches the system is not among the suspects.
Suspected == [pair \in {p \in DOMAIN scores : p[2] \notin Excluded} |-> scores[pair]]

ServiceEdges ==
  [k \in {j \in DOMAIN input.edges : {input.edges[j].client, input.edges[j].server} \cap Excluded = {}} |->
     input.edges[k]]

\* Without the graph (an ablation) the walk has no edges.
StartWalk(useGraph) ==
  /\ stage = "scored"
  /\ network' = Walked(IF useGraph THEN ServiceEdges ELSE <<>>, CollapseScores(Suspected))
  /\ restart' = RestartVector(network'.nodes, CollapseScores(Suspected))
  /\ rank' = restart'
  /\ stage' = IF network'.nodes = {} THEN "ranked" ELSE "walking"
  /\ UNCHANGED <<input, scoreVars, passes, delta, report>>

Pass ==
  /\ stage = "walking"
  /\ LET next == NextRank(network, restart, rank) IN
       /\ rank' = next
       /\ delta' = Change(rank, next)
       /\ passes' = passes + 1
       /\ stage' = IF delta'[1] * Tolerance[2] < Tolerance[1] * delta'[2] THEN "ranked"
                   ELSE IF passes' = MaxIterations THEN "raised"
                   ELSE "walking"
  /\ UNCHANGED <<input, scoreVars, network, restart, report>>

----------------------------------------------------------------------------
(* TriageResult *)

Candidates == DOMAIN rank.parts

Foremost == Leading(rank, onsets, Candidates)

TopAnomaly == Largest(Suspected, Trusted(Suspected, 0))

SaysNothingIsWrong == TopAnomaly < MinimumTopAnomaly

TopService == IF SaysNothingIsWrong \/ Candidates = {} THEN Never ELSE Foremost

\* TriageResult.confidence, in percent: from the floor at a tie towards the
\* ceiling as the first leaves the second behind.
Confidence ==
  LET top == rank.parts[Foremost]
      second == rank.parts[Leading(rank, onsets, Candidates \ {Foremost})]
  IN IF SaysNothingIsWrong \/ Candidates = {} THEN Never
     ELSE IF Candidates = {Foremost} THEN <<Floor, 1>>
     ELSE IF second = 0 THEN <<Ceiling, 1>>
     ELSE IF top <= second THEN <<Floor, 1>>
     ELSE <<Floor * top + (Ceiling - Floor) * (top - second), top>>

\* report._onset_sentence names who moved first, if anybody did before the rest.
SaidToMoveFirst ==
  LET first == {s \in DOMAIN onsets : \A t \in DOMAIN onsets : onsets[s] <= onsets[t]}
  IN IF first = DOMAIN onsets THEN Never
     ELSE CHOOSE s \in first : \A t \in first : SortPlace(s) <= SortPlace(t)

\* A report that names a service asks for the changes of the whole recording,
\* and a window too broad for that query is no ToolError (report._safe_call).
ChangesRefused == TopService # Never /\ Broad(Window(windows.baseline.start, windows.incident.end))

\* report.build_b0_report: the anomalies it cites are listed by the tool,
\* which leaves nobody out.
BuildReport ==
  /\ stage = "ranked"
  /\ ~ChangesRefused
  /\ report' =
       [named      |-> TopService,
        confidence |-> Confidence,
        largest    |-> TopAnomaly,
        movedFirst |-> IF SaysNothingIsWrong THEN Never ELSE SaidToMoveFirst,
        listed     |-> Trusted(scores, 0),
        sections   |-> IF SaysNothingIsWrong
                         THEN <<"What was looked at", "Finding">>
                         ELSE <<"What was looked at", "What changed", "Most likely cause", "Order of onset">>
                                \o (IF TopService = Never THEN <<>> ELSE <<"Who is affected", "Changes in the window">>)
                                \o <<"What this report is not">>,
        affected   |-> IF TopService = Never THEN {} ELSE TransitiveUpstream(input.edges, TopService)]
  /\ stage' = "reported"
  /\ UNCHANGED <<input, scoreVars, walkVars>>

LoseReport ==
  /\ stage = "ranked"
  /\ ChangesRefused
  /\ stage' = "unreported"
  /\ UNCHANGED <<input, scoreVars, walkVars, report>>

NoReport ==
  [named |-> Never, confidence |-> Never, largest |-> 0, movedFirst |-> Never,
   listed |-> {}, sections |-> <<>>, affected |-> {}]

TriageInit ==
  /\ input \in Inputs
  /\ stage = "opened"
  /\ windows = [baseline |-> Window(0, 0), incident |-> Window(0, 0)]
  /\ scores = <<>> /\ onsets = <<>>
  /\ network = CallGraph(<<>>, {}) /\ restart = NoShares /\ rank = NoShares
  /\ passes = 0 /\ delta = <<2, 1>>
  /\ report = NoReport

TriageNext ==
  \/ OpenWindows \/ Score
  \/ \E useGraph \in BOOLEAN : StartWalk(useGraph)
  \/ Pass
  \/ BuildReport \/ LoseReport

TriageSpec == TriageInit /\ [][TriageNext]_triageVars

----------------------------------------------------------------------------
(* Properties *)

\* Every variable holds what the code could hold in it: windows that end
\* after they start, and shares of suspicion of the nodes of the graph.
TriageTypeOK ==
  /\ stage \in {"opened", "windowed", "scored", "walking", "ranked", "reported", "raised", "unreported"}
  /\ \A w \in {windows.baseline, windows.incident} : w.start <= w.end
  /\ DOMAIN rank.parts = DOMAIN restart.parts
  /\ stage \in {"walking", "ranked"} => DOMAIN rank.parts = network.nodes
  /\ passes \in 0 .. MaxIterations

\* The baseline ends a guard before the incident begins, and both are of the
\* recording, unless the recording is too short for a guard: then its first
\* instant is the whole baseline (choose_windows).
WindowsApart ==
  stage # "opened" =>
    /\ windows.baseline.start = input.start /\ windows.incident.end = input.end
    /\ \/ windows.baseline.end + GuardSeconds = windows.incident.start
       \/ /\ windows.baseline.end = input.start
          /\ (input.end - input.start) * BaselineThirds[1] < (GuardSeconds + 1) * BaselineThirds[2]

\* Suspicion is neither made nor lost: after every pass the shares are none
\* below zero and add up to one, whatever the graph has of dangling nodes,
\* self loops and backward edges (personalised_pagerank).
RankIsADistribution ==
  /\ \A n \in DOMAIN rank.parts : rank.parts[n] >= 0
  /\ SumFunctionOnSet(rank.parts, DOMAIN rank.parts) = rank.of
  /\ rank.of = 0 => Candidates = {}

\* Triage ends in a report unless a window is too broad to query, one of the
\* two that are compared or, for a report that names a service, both with what
\* lies between: the walk never raises the error it has for not settling, and
\* a report that names nobody is never lost (check_window, _safe_call).
OnlyBroadWindowsRaise ==
  /\ stage = "raised" => Broad(windows.baseline) \/ Broad(windows.incident)
  /\ stage = "unreported" => TopService # Never /\ Broad(Window(windows.baseline.start, windows.incident.end))
  /\ stage = "reported" /\ report.named # Never => ~Broad(Window(windows.baseline.start, windows.incident.end))

\* Who is named can explain what was seen: it moved itself, or a service that
\* did calls it, directly or through others (rank_candidates without backward
\* edges).  A service is named only if something moved enough.
NamedIsImplicated ==
  stage = "reported" /\ report.named # Never =>
    LET anomalies == CollapseScores(Suspected)
        moved == {s \in DOMAIN anomalies : anomalies[s] > 0}
    IN /\ report.named \notin Excluded
       /\ report.largest >= MinimumTopAnomaly
       /\ moved # {} /\ BackwardRatio[1] = 0 =>
            moved \cap ({report.named} \cup TransitiveUpstream(ServiceEdges, report.named)) # {}

\* Whoever went abnormal first among the suspects is helped by the onset
\* bonus, and it is the one the report says moved first, unless something that
\* is no suspect went abnormal before it: the onsets are compared before those
\* that watch the system are left out (triage_bundle filters edges and scores,
\* and not onsets).
FirstToMoveIsHelped ==
  LET suspects == DOMAIN onsets \cap Candidates
      helped == {s \in Candidates : StartedFirst(onsets, s)}
  IN /\ stage = "ranked" =>
          \A s \in suspects :
            (\A t \in suspects : onsets[s] <= onsets[t]) =>
              \/ s \in helped
              \/ \E x \in DOMAIN onsets \ Candidates : onsets[x] < onsets[s]
     /\ stage = "reported" /\ report.movedFirst \in Candidates => report.movedFirst \in helped

\* The largest anomaly a report speaks of is the largest it cites, unless the
\* larger one is of a service it does not suspect: the tool it cites lists
\* every service (build_b0_report, "the largest anomaly anywhere").
FindingMatchesEvidence ==
  stage = "reported" /\ report.largest # Largest(scores, report.listed) =>
    \E pair \in report.listed : pair[2] \in Excluded /\ scores[pair].score > report.largest

\* Asked about one service and metric, compare_windows gives the score the
\* ranking used, unless a tool's row cap cut a window of it short, or the cap
\* of all series cut off the service: the tool reads samples through the cap
\* that scoring was taken off.
ComparisonAgrees ==
  stage = "scored" =>
    \A pair \in DOMAIN scores :
      LET Rows(window, services) == Cardinality(RowsIn(Samples, pair[1], window, services)) IN
        \/ CompareWindows(Samples, pair[1], pair[2], windows.baseline, windows.incident) = scores[pair]
        \/ \E w \in {windows.baseline, windows.incident} :
             Rows(w, {pair[2]}) > MaxRows \/ Rows(w, {}) > MaxSeriesPoints

\* When samples of all services are more than a scorer may read, as many are
\* read as may be, and at most one series is cut in two: its earlier samples
\* are read, those that sort before it are whole and those after it are absent
\* rather than starved (metric_series).
TruncationLosesTheLast ==
  stage = "scored" =>
    \A metric \in Metrics, window \in {windows.baseline, windows.incident} :
      LET rows == RowsIn(Samples, metric, window, {})
          read == MetricSeries(Samples, metric, window, {})
      IN /\ read = rows \/ Cardinality(read) = MaxSeriesPoints
         /\ \A k \in read, l \in rows \ read :
              IF Samples[k].service = Samples[l].service THEN Samples[k].at <= Samples[l].at
              ELSE SortPlace(Samples[k].service) < SortPlace(Samples[l].service)

\* So many calls lead from one service to another, one after the other.
Connects(edges, calls, from, to) ==
  \E path \in [1 .. calls -> DOMAIN edges] :
    /\ edges[path[1]].client = from /\ edges[path[calls]].server = to
    /\ \A j \in 1 .. calls - 1 : edges[path[j]].server = edges[path[j + 1]].client

\* Those affected by the service that is named are those with a path of calls
\* to it, and a walk of bounded depth meets each service within that many
\* calls at its distance.  Its rows are calls and not services: a service is
\* counted again for each callee of its own level.
WalksReachTheirBall ==
  stage = "opened" =>
    \A s \in Services :
      /\ TransitiveUpstream(input.edges, s) =
           {t \in Services \ {s} : \E k \in 1 .. Cardinality(Services) : Connects(input.edges, k, t, s)}
      /\ \A depth \in 1 .. 3 :
           {<<row[2], row[3]>> : row \in Walk(input.edges, s, "downstream", depth)} =
             {met \in (Services \ {s}) \X (1 .. depth) :
                /\ Connects(input.edges, met[2], s, met[1])
                /\ \A k \in 1 .. met[2] - 1 : ~Connects(input.edges, k, s, met[1])}

\* The critical path of a trace starts at a root, follows the longest child
\* and ends at a leaf, unless it went on as often as it may, and never visits
\* a span twice, whatever parents a malformed trace has.  Where children fit
\* in their parents, self times add up to what the roots took.
TimeIsAccountedFor ==
  stage = "opened" =>
    LET spans == input.spans
        path == CriticalPath(spans)
        fits == \A s \in spans : SumFunctionOnSet(Took(spans), ChildrenOf(spans, s)) <= s.ms
    IN /\ (path = <<>>) = (Roots(spans) = {})
       /\ path # <<>> =>
            /\ path[1] \in Roots(spans)
            /\ \A k \in 2 .. Len(path) :
                 /\ path[k] \in ChildrenOf(spans, path[k - 1])
                 /\ \A s \in ChildrenOf(spans, path[k - 1]) : s.ms <= path[k].ms
            /\ Len(path) > MaxPathSpans \/ ChildrenOf(spans, Last(path)) = {}
            /\ IsInjective(path)
       /\ fits =>
            SumFunction([s \in spans |-> SelfTime(spans, s)]) = SumFunctionOnSet(Took(spans), Roots(spans))

Whole(recording) == Window(recording.start, recording.end)

Asked == {Anything} \cup Services

\* The errors that top_error_signatures counts are all there are, and each was
\* first seen when it says, except for those that hide behind as many newer
\* lines as a search may return, of any severity: "no error or fatal log lines
\* in this window" is said of a window full of them when enough was logged
\* after them (top_error_signatures).
SignaturesMissOnlyTheHidden ==
  stage = "opened" =>
    \A service \in Asked : \A found \in TopErrorSignatures(input.logs, Whole(input), service) :
      LET lines  == LinesIn(input.logs, Whole(input), service, Anything)
          errors == {k \in lines : input.logs[k].severity \in ErrorSeverities}
          Hidden == {k \in errors : Cardinality({l \in lines \ {k} : input.logs[l].at >= input.logs[k].at}) >= MaxRows}
          Of(t, set) == {k \in set : Mask(input.logs[k]) = t}
      IN /\ \A t \in DOMAIN found :
              /\ found[t].count <= Cardinality(Of(t, errors))
              /\ found[t].count + Cardinality(Of(t, Hidden)) >= Cardinality(Of(t, errors))
              /\ Of(t, Hidden) = {} => \A k \in Of(t, errors) : found[t].first <= input.logs[k].at
         /\ found = <<>> => errors = Hidden

\* Asked again, a search of log lines answers the same but for lines of one
\* moment: the order of search_logs leaves ties, so a record whose limit cuts
\* through a moment can be found to have moved though its bundle never changes
\* (re-execution compares the rows).
SearchesDifferInTiesOnly ==
  stage = "opened" =>
    \A severity \in {Anything} \cup ErrorSeverities, limit \in {1, 2, MaxRows} :
      LET answers == SearchLogs(input.logs, Whole(input), Anything, severity, limit) IN
        \A a, b \in answers : \A k \in a \ b, l \in b \ a : input.logs[k].at = input.logs[l].at

\* A trace that find_traces leaves out has no span slower than those of the
\* traces it gives, though its limit is of spans: one slow trace with enough
\* of them is all that is found (find_traces, "the traces most relevant").
OmittedTracesAreFaster ==
  stage = "opened" =>
    \A limit \in 1 .. MaxRows : \A traces \in FindTraces(input.calls, Anything, limit) :
      LET Worst(t) == Max({input.calls[k].ms : k \in {j \in DOMAIN input.calls : input.calls[j].trace = t}})
          all == {input.calls[k].trace : k \in DOMAIN input.calls}
      IN /\ \A t \in traces, u \in all \ traces : Worst(u) <= Worst(t)
         /\ traces # {} \/ all = {}
         /\ Len(input.calls) <= limit => Cardinality(traces) = IF Cardinality(all) < TopTraces THEN Cardinality(all) ELSE TopTraces

\* What triage answers is earned: its state is well formed, its windows do not overlap, its walk settles
\* to a distribution, it names who can explain what moved, and what it says of
\* onsets and anomalies is true of the data the report cites.
AnswerIsEarned ==
  /\ TriageTypeOK
  /\ WindowsApart
  /\ OnlyBroadWindowsRaise
  /\ RankIsADistribution
  /\ NamedIsImplicated
  /\ FirstToMoveIsHelped
  /\ FindingMatchesEvidence

\* What the tools make of samples, calls and spans is what its definition over
\* the recording says, but for the rows a cap left out: caps take whole series
\* from the end, and change a score only where the rows were more than the cap.
ReadingsAreExact ==
  /\ TruncationLosesTheLast
  /\ ComparisonAgrees
  /\ WalksReachTheirBall
  /\ TimeIsAccountedFor

\* What a search of log lines or traces answers is what was recorded, but for
\* what its limit hid and the ties its order leaves.
SearchesAreExact ==
  /\ SignaturesMissOnlyTheHidden
  /\ SearchesDifferInTiesOnly
  /\ OmittedTracesAreFaster
=============================================================================
