------------------------------ MODULE Searches ------------------------------
(***************************************************************************)
(* What an investigation finds when it searches a bundle's log lines and   *)
(* spans (backends/bundle_duckdb.py), and what two tools make of it        *)
(* (tools/logs.py, tools/traces.py).                                       *)
(*                                                                         *)
(* A line is [at, service, severity, body], its body the template it masks *)
(* to and what varies; a span is [trace, service, ms].  A search is a set  *)
(* of positions; as its order leaves ties, it has several possible         *)
(* answers.                                                                *)
(***************************************************************************)
EXTENDS Telemetry

CONSTANTS
  ErrorSeverities,
  TopSignatures,   \* TOP_SIGNATURES
  TopTraces        \* TOP_TRACES

ASSUME SearchAssumption == MaxRows \in Nat /\ TopSignatures \in Nat \ {0} /\ TopTraces \in Nat \ {0}

LogLine == [at: Int, service: ToSet(ServiceOrder), severity: STRING, body: Int \X Int]

CallSpan == [trace: Int, service: ToSet(ServiceOrder), ms: Int]

\* ORDER BY ... LIMIT: what is left out comes before nothing that is kept.
FirstBy(Before(_, _), found, limit) ==
  IF Cardinality(found) <= limit THEN {found}
  ELSE {kept \in kSubset(limit, found) : \A k \in kept, l \in found \ kept : ~Before(l, k)}

Anything == "anything"

\* The lines of a window, of all services and severities or of one.
LinesIn(logs, window, service, severity) ==
  {k \in DOMAIN logs :
     /\ logs[k].at >= window.start /\ logs[k].at <= window.end
     /\ service \in {Anything, logs[k].service}
     /\ severity \in {Anything, logs[k].severity}}

\* BundleBackend.search_logs: newest first, and nothing else in the order.
SearchLogs(logs, window, service, severity, limit) ==
  FirstBy(LAMBDA k, l : logs[k].at > logs[l].at, LinesIn(logs, window, service, severity), Capped(limit))

\* log_templates.mask_log_line
Mask(line) == line.body[1]

\* log_templates.cluster_templates, with when each was first seen; the most
\* frequent come first, and in the order of their text.
Clusters(logs, lines) ==
  LET templates == {Mask(logs[k]) : k \in lines}
      count == [t \in templates |-> Cardinality({k \in lines : Mask(logs[k]) = t})]
      MoreFrequent(t, u) == count[t] > count[u] \/ (count[t] = count[u] /\ t < u)
  IN [t \in {u \in templates : Cardinality({v \in templates : MoreFrequent(v, u)}) < TopSignatures} |->
        [count |-> count[t], first |-> Min({logs[k].at : k \in {j \in lines : Mask(logs[j]) = t}})]]

\* Mutant: fatal lines are not looked at.
TopErrorSignatures_OnlyErrors(logs, window, service) ==
  {Clusters(logs, {k \in kept : logs[k].severity = "ERROR"}) :
     kept \in SearchLogs(logs, window, service, Anything, MaxRows)}

\* tools/logs.top_error_signatures: lines of every severity are searched, and
\* the errors are picked out of those that the cap lets through.
TopErrorSignatures(logs, window, service) ==
  {Clusters(logs, {k \in kept : logs[k].severity \in ErrorSeverities}) :
     kept \in SearchLogs(logs, window, service, Anything, MaxRows)}

Slower(spans, k, l) ==
  spans[k].ms > spans[l].ms \/ (spans[k].ms = spans[l].ms /\ spans[k].trace < spans[l].trace)

\* BundleBackend.find_spans of a service: slowest first, then by trace.
FindSpans(spans, service, limit) ==
  FirstBy(LAMBDA k, l : Slower(spans, k, l),
          {k \in DOMAIN spans : service \in {Anything, spans[k].service}}, Capped(limit))

\* The traces of the slowest spans that were found.
Representative(spans, kept) ==
  LET traces == {spans[k].trace : k \in kept}
      Leads(t, u) == \E k \in kept : spans[k].trace = t /\ \A l \in kept : spans[l].trace = u => Slower(spans, k, l)
  IN {t \in traces : Cardinality({u \in traces \ {t} : Leads(u, t)}) < TopTraces}

\* tools/traces.find_traces: its limit is of spans and not of traces.
FindTraces(spans, service, limit) ==
  {Representative(spans, kept) : kept \in FindSpans(spans, service, limit)}
=============================================================================
