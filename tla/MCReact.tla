------------------------------- MODULE MCReact -------------------------------
(***************************************************************************)
(* Calls that answer, calls that fail in each way, two that ask one        *)
(* question with another limit, and two proposals of one action on         *)
(* different evidence.                                                     *)
(***************************************************************************)
EXTENDS React, TLC

CONSTANTS cart, flag, unlisted

Asked(tool) ==
  [tool |-> tool, window |-> "none", about |-> cart, limit |-> 1, cites |-> {}, pattern |-> "fit",
   shaped |-> TRUE]

Anomalies == [Asked("list_anomalies") EXCEPT !.window = "fit"]

AnomaliesId == ListAnomalies(Anomalies).id

RecallId == SimilarIncidents(Asked("similar_incidents")).id

Act(remediation, variant) == [remediation |-> remediation, target |-> flag, variant |-> variant]

Propose(action, id) == [Asked("propose_remediation") EXCEPT !.about = action, !.cites = {id}]

MCAllowlist == [roll_back |-> "disable_feature_flag", page |-> "page_owning_team"]

MCCalls ==
  {Anomalies,
   [Asked("list_anomalies") EXCEPT !.window = "wide"],
   [Asked("search_logs") EXCEPT !.window = "fit", !.pattern = "long"],
   Asked("runbook_search"), [Asked("runbook_search") EXCEPT !.limit = 2],
   Asked("similar_incidents"), [Asked("similar_incidents") EXCEPT !.limit = 2],
   [Asked("get_evidence") EXCEPT !.cites = {RecallId}],
   Propose(Act("roll_back", "off"), AnomaliesId), Propose(Act("roll_back", "off"), RecallId),
   Propose(Act("roll_back", NoVariant), RecallId), Propose(Act("unlisted", NoVariant), RecallId),
   Asked("blast_radius"),
   [Asked("trace_breakdown") EXCEPT !.shaped = FALSE]}

Fabricated == [tool |-> "trace_breakdown", about |-> unlisted]

MCReports(held) ==
  {[root |-> NoCause, confidence |-> "low", claims |-> <<>>]}
    \cup {[root |-> cart, confidence |-> "medium", claims |-> <<ref>>] : ref \in DOMAIN held \cup {Fabricated}}
    \cup {[root |-> cart, confidence |-> "high", claims |-> refs] : refs \in SetToSeqs(DOMAIN held)}
=============================================================================
