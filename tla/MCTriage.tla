------------------------------ MODULE MCTriage ------------------------------
(***************************************************************************)
(* Three services and the load generator, recordings of thirteen ticks in  *)
(* which each of them shows one of a few shapes, and small call graphs and *)
(* traces; log lines about as many as a search returns, and spans of three *)
(* traces.                                                                 *)
(***************************************************************************)
EXTENDS Triage

MCThird == <<1, 3>>

MCDamping == <<1, 2>>

MCBonus == <<5, 4>>

MCZero == <<0, 1>>

MCTolerance == <<1, 4>>

MCServiceOrder == <<"api", "db", "gen", "web">>

MCDirections == [calls |-> "up", latency |-> "up", requests |-> "either"]

Ticks(first, last) == [k \in 1 .. last - first + 1 |-> first + k - 1]

Rows(service, metric, from, to, error, Value(_)) ==
  [k \in DOMAIN Ticks(from, to) |->
     [at |-> Ticks(from, to)[k], service |-> service, metric |-> metric,
      value |-> Value(Ticks(from, to)[k]), error |-> error]]

\* The samples of a service of one shape.
ShapeRows(service, shape, end) ==
  CASE shape = "quiet"   -> Rows(service, "latency", 0, end, FALSE, LAMBDA t : 20)
    [] shape = "slow"    -> Rows(service, "latency", 0, end, FALSE, LAMBDA t : IF t > 4 THEN 28 ELSE 20)
    [] shape = "late"    -> LET one == Rows(service, "latency", 0, end, FALSE, LAMBDA t : IF t > 7 THEN 28 ELSE 20)
                            IN one \o one
    [] shape = "failing" -> Rows(service, "calls", 0, end, FALSE, LAMBDA t : 9)
                              \o Rows(service, "calls", 0, end, TRUE, LAMBDA t : IF t > 4 THEN 1 ELSE 0)
    [] shape = "blip"    -> Rows(service, "calls", 0, end, TRUE, LAMBDA t : IF t = 9 THEN 1 ELSE 0)
    [] shape = "gone"    -> Rows(service, "requests", 0, end, FALSE, LAMBDA t : IF t > 5 THEN 0 ELSE 20)
    [] shape = "sparse"  -> Rows(service, "latency", 2, end, FALSE, LAMBDA t : IF t > 4 THEN 40 ELSE 20)

MCSamplesOf(recording) ==
  FoldLeft(LAMBDA rows, s : rows \o ShapeRows(s, recording.shape[s], recording.end), <<>>, MCServiceOrder)

Edge(client, server, rps) == [client |-> client, server |-> server, rps |-> rps]

Chain == <<Edge("gen", "web", 4), Edge("web", "api", 2), Edge("api", "db", 2)>>

Diamond == <<Edge("gen", "web", 4), Edge("gen", "api", 1), Edge("web", "db", 2), Edge("api", "db", 1)>>

Ring == <<Edge("web", "api", 2), Edge("api", "web", 1), Edge("gen", "db", 1)>>

Shapes ==
  [web : {"quiet", "slow", "gone", "sparse"}, api : {"quiet", "slow", "late"},
   db : {"quiet", "failing", "blip"}, gen : {"quiet", "slow"}]

Quiet == [s \in ToSet(MCServiceOrder) |-> "quiet"]

Span(id, parent, ms) == [id |-> id, parent |-> parent, ms |-> ms]

MCTraces ==
  {{Span(1, 0, m1), Span(2, p2, 4), Span(3, p3, m3), Span(4, p4, 2)} :
     m1 \in {5, 9}, m3 \in {3, 4, 5}, p2 \in {0, 1, 3}, p3 \in {1, 2, 3}, p4 \in {1, 2, 4, 9}}

Line(at, severity, template) ==
  [at |-> at, service |-> "api", severity |-> severity, body |-> <<template, at>>]

\* A few lines of every kind, or a few errors among as many others as a search
\* may return, some more or some less.
MCLogs ==
  [1 .. 3 -> {Line(at, severity, template) : at \in {1, 2}, severity \in {"INFO", "ERROR", "FATAL"}, template \in {1, 2}}]
    \cup {[k \in 1 .. n |-> Line(at, "INFO", 3)] \o <<Line(1, "ERROR", first), Line(2, "FATAL", 2)>> :
            n \in {11, 12, 13, 14}, at \in {0, 1, 2}, first \in {1, 2}}

MCCalls == [1 .. 4 -> [trace : 1 .. 3, service : {"api"}, ms : {5, 9}]]

Recording(end, alert, shape, edges, spans) ==
  [start |-> 0, end |-> end, alert |-> alert, shape |-> shape, edges |-> edges, spans |-> spans,
   logs |-> <<>>, calls |-> <<>>]

Short == Recording(2, Never, Quiet, <<>>, {})

MCInputs ==
  {Recording(12, alert, shape, edges, {}) : alert \in {Never, 6}, shape \in Shapes, edges \in {Chain, Diamond}}
    \cup {Recording(12, 1, shape, Ring, {}) : shape \in Shapes}
    \cup {Recording(end, alert, Quiet, <<>>, {}) : end \in {1, 2, 20}, alert \in {Never, 1}}
    \cup {Recording(14, 6, [Quiet EXCEPT !.web = web], Chain, {}) : web \in {"quiet", "slow", "gone"}}
    \cup {Recording(2, Never, Quiet, Chain, spans) : spans \in MCTraces}
    \cup {[Short EXCEPT !.logs = logs] : logs \in MCLogs}
    \cup {[Short EXCEPT !.calls = calls] : calls \in MCCalls}
=============================================================================
