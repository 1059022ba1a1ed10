------------------------------- MODULE Ranking -------------------------------
(***************************************************************************)
(* Which service is suspected: a random walk with restart over the call    *)
(* graph (graph/ranking.py), and the walks over the same graph that the    *)
(* topology and trace tools make (tools/topology.py, tools/traces.py).     *)
(*                                                                         *)
(* An edge is [client, server, rps], a graph [nodes, weight] with weight 0 *)
(* where there is no edge.  Ranks are exact: shares of a common whole.     *)
(***************************************************************************)
EXTENDS Telemetry

CONSTANTS
  Damping,          \* <<n, d>>: 1 - RESTART_ALPHA
  OnsetBonus,       \* <<n, d>>
  BackwardRatio,    \* <<n, d>>: what flows from a server back to its client
  SelfLoopRatio,    \* <<n, d>>: what stays
  MaxPathSpans      \* how often a critical path goes on

ASSUME PathAssumption == MaxPathSpans \in Nat

----------------------------------------------------------------------------
(* Shares: a node has parts[node] of so many *)

\* The greatest common divisor of two numbers, and their least common multiple.
GCD[p \in Nat \X Nat] == IF p[2] = 0 THEN p[1] ELSE GCD[<<p[2], p[1] % p[2]>>]

LCM[p \in Nat \X Nat] == p[1] * (p[2] \div GCD[p])

\* The same shares, of as few as may be.
Shares(parts, of) ==
  LET common == FoldFunctionOnSet(LAMBDA a, b : GCD[<<a, b>>], of, parts, DOMAIN parts)
  IN [parts |-> [n \in DOMAIN parts |-> parts[n] \div common], of |-> of \div common]

NoShares == [parts |-> <<>>, of |-> 0]

----------------------------------------------------------------------------
(* The graph that is walked *)

\* ranking.build_call_graph, with a node for each anomalous service.
CallGraph(edges, anomalous) ==
  LET nodes == (UNION {{edges[k].client, edges[k].server} : k \in DOMAIN edges}) \cup anomalous
      rps == [k \in DOMAIN edges |-> edges[k].rps]
      Between(c, s) == {k \in DOMAIN edges : edges[k].client = c /\ edges[k].server = s}
  IN [nodes |-> nodes,
      weight |-> [pair \in nodes \X nodes |-> SumFunctionOnSet(rps, Between(pair[1], pair[2]))]]

OutWeight(graph, node) == SumFunctionOnSet([s \in graph.nodes |-> graph.weight[node, s]], graph.nodes)

Reweighted(graph, Weigh(_, _)) ==
  [graph EXCEPT !.weight = [pair \in DOMAIN graph.weight |-> Weigh(pair[1], pair[2])]]

\* ranking.add_backward_edges and add_self_loops; all weights are multiplied
\* by the denominator of the ratio, which changes no share of them.
AddBackwardEdges(graph) ==
  Reweighted(graph, LAMBDA c, s :
    graph.weight[c, s] * BackwardRatio[2] + graph.weight[s, c] * BackwardRatio[1])

AddSelfLoops(graph) ==
  IF SelfLoopRatio[1] = 0 THEN graph
  ELSE Reweighted(graph, LAMBDA c, s :
         graph.weight[c, s] * SelfLoopRatio[2]
           + (IF c # s THEN 0
              ELSE IF OutWeight(graph, c) > 0 THEN OutWeight(graph, c) * SelfLoopRatio[1]
              ELSE SelfLoopRatio[2]))

\* The square root of one more than a score, rounded down.
Endpoint(hundredths) ==
  LET shifted == 1 + hundredths \div 100 IN Max({r \in 1 .. shifted : r * r <= shifted})

\* ranking._scale_by_endpoint_anomaly
ScaleByEndpointAnomaly(graph, anomalies) ==
  LET Factor(s) == IF s \in DOMAIN anomalies THEN Endpoint(anomalies[s]) ELSE 1
  IN Reweighted(graph, LAMBDA c, s : graph.weight[c, s] * Factor(c) * Factor(s))

\* ranking.collapse_scores: the worst trustworthy score of each service.
CollapseScores(scores) ==
  [s \in {pair[2] : pair \in Trusted(scores, 0)} |->
     Largest(scores, {pair \in Trusted(scores, 0) : pair[2] = s})]

Walked(edges, anomalies) ==
  AddSelfLoops(ScaleByEndpointAnomaly(AddBackwardEdges(CallGraph(edges, DOMAIN anomalies)), anomalies))

\* Mutant: the restart is the same everywhere.
RestartVectorUniform(nodes, anomalies) == [parts |-> [n \in nodes |-> 1], of |-> Cardinality(nodes)]

\* ranking._restart_vector, at sharpness 1.
RestartVector(nodes, anomalies) ==
  LET raw == [n \in nodes |-> IF n \in DOMAIN anomalies THEN anomalies[n] ELSE 0]
      total == SumFunctionOnSet(raw, nodes)
  IN IF total = 0 THEN [parts |-> [n \in nodes |-> 1], of |-> Cardinality(nodes)] ELSE Shares(raw, total)

----------------------------------------------------------------------------
(* ranking.personalised_pagerank *)

\* One pass: what each client hands to its servers in the share of their
\* weights, what the nodes without any hand to the restart, and the restart.
NextRank(graph, restart, rank) ==
  LET out == [n \in graph.nodes |-> OutWeight(graph, n)]
      clients == {n \in graph.nodes : out[n] > 0}
      unit == FoldFunctionOnSet(LAMBDA a, b : LCM[<<a, b>>], 1, out, clients)
      Handed(n) ==
        SumFunctionOnSet([c \in clients |-> rank.parts[c] * (graph.weight[c, n] * (unit \div out[c]))], clients)
      leaked == SumFunctionOnSet(rank.parts, graph.nodes \ clients)
      kept == Damping[1] * leaked + (Damping[2] - Damping[1]) * rank.of
  IN Shares([n \in graph.nodes |-> Damping[1] * restart.of * Handed(n) + kept * unit * restart.parts[n]],
            Damping[2] * rank.of * unit * restart.of)

\* What a pass changed, as a fraction <<n, d>>.
Change(rank, next) ==
  LET unit == LCM[<<rank.of, next.of>>]
      Off(n) == Abs(rank.parts[n] * (unit \div rank.of) - next.parts[n] * (unit \div next.of))
  IN <<SumFunctionOnSet([n \in DOMAIN rank.parts |-> Off(n)], DOMAIN rank.parts), unit>>

\* ranking.rank_candidates: the first to go abnormal of all onsets are helped.
StartedFirst(onsets, node) == node \in DOMAIN onsets /\ \A s \in DOMAIN onsets : onsets[node] <= onsets[s]

Suspicion(rank, onsets, node) ==
  rank.parts[node] * (IF StartedFirst(onsets, node) THEN OnsetBonus[1] ELSE OnsetBonus[2])

\* Who is first of some candidates: the most suspected, then by name.
Leading(rank, onsets, nodes) ==
  CHOOSE n \in nodes : \A m \in nodes \ {n} :
    \/ Suspicion(rank, onsets, n) > Suspicion(rank, onsets, m)
    \/ Suspicion(rank, onsets, n) = Suspicion(rank, onsets, m) /\ SortPlace(n) < SortPlace(m)

----------------------------------------------------------------------------
(* Walks of the topology tools *)

Services == ToSet(ServiceOrder)

CallEdge == [client: Services, server: Services, rps: Nat]

\* topology._walk, as the set of <<edge, neighbour, depth>> it returns: what
\* was met at the level itself is met again.
Far(edge, direction) == IF direction = "upstream" THEN edge.client ELSE edge.server

Near(edge, direction) == IF direction = "upstream" THEN edge.server ELSE edge.client

WalkLevel(edges, direction, level, walk) ==
  LET met == {<<k, Far(edges[k], direction), level>> :
                k \in {j \in DOMAIN edges : /\ Near(edges[j], direction) \in walk.frontier
                                            /\ Far(edges[j], direction) \notin walk.visited}}
      next == {row[2] : row \in met}
  IN [visited |-> walk.visited \cup next, frontier |-> next, rows |-> walk.rows \cup met]

Walk(edges, service, direction, depth) ==
  LET walk[level \in 0 .. depth] ==
        IF level = 0 THEN [visited |-> {service}, frontier |-> {service}, rows |-> {}]
        ELSE WalkLevel(edges, direction, level, walk[level - 1])
  IN walk[depth].rows

\* topology._transitive_upstream, until a level brings nobody new.
TransitiveUpstream(edges, service) ==
  {row[2] : row \in Walk(edges, service, "upstream", Cardinality(Services))}

----------------------------------------------------------------------------
(* Walks of the trace tools *)

TraceSpan == [id: Int, parent: Int, ms: Int]

\* traces._roots: no parent, or one that was not recorded.
Roots(spans) == {s \in spans : s.parent \notin {t.id : t \in spans}}

ChildrenOf(spans, s) == {t \in spans : t.parent = s.id}

LongestOf(spans) == CHOOSE s \in spans : \A t \in spans : s.ms > t.ms \/ (s.ms = t.ms /\ s.id >= t.id)

\* traces.critical_path
CriticalPath(spans) ==
  LET Onward(walked) == {s \in ChildrenOf(spans, Last(walked)) : \A k \in DOMAIN walked : walked[k].id # s.id}
      path[hop \in 0 .. MaxPathSpans] ==
        IF hop = 0 THEN <<LongestOf(Roots(spans))>>
        ELSE IF Onward(path[hop - 1]) = {} THEN path[hop - 1]
        ELSE Append(path[hop - 1], LongestOf(Onward(path[hop - 1])))
  IN IF Roots(spans) = {} THEN <<>> ELSE path[MaxPathSpans]

\* How long each span took.
Took(spans) == [s \in spans |-> s.ms]

\* traces.self_times_ms
SelfTime(spans, s) == MaxOf(s.ms - SumFunctionOnSet(Took(spans), ChildrenOf(spans, s)), 0)
=============================================================================
