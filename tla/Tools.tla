-------------------------------- MODULE Tools --------------------------------
(***************************************************************************)
(* The tools an investigation may call: the registry of tools/base.py and  *)
(* tools/registry.py, the evidence store of tools/evidence.py, and the     *)
(* handlers of tools/*.py over one recorded bundle.                        *)
(*                                                                         *)
(* The bundle never changes, so what a handler finds is decided by the     *)
(* arguments it looks at; rows are those arguments.  The evidence id is    *)
(* the question: the arguments a handler puts in the record it builds.     *)
(* The two are not always the same arguments.                              *)
(***************************************************************************)
EXTENDS Integers, Sequences, FiniteSets, SequencesExt

CONSTANTS
  KnownServices,   \* of the knowledge graph
  Allowlist,       \* the kind of each remediation in the knowledge files
  NoVariant,       \* None
  Broken,          \* files that cannot be read: knowledge, memory, topology
  MaxCallsPerTool  \* MAX_CALLS_PER_TOOL

ASSUME ToolsAssumption ==
  /\ MaxCallsPerTool \in Nat \ {0}
  /\ Broken \subseteq {"knowledge", "memory", "topology"}
  /\ \A id \in DOMAIN Allowlist : Allowlist[id] \in {"disable_feature_flag", "restart_service", "page_owning_team"}

(***************************************************************************)
(* A call: its tool and arguments.  A window may fit, be longer than the   *)
(* backend answers for, or end before it starts; the last two pass the     *)
(* input model, which only reads strings.  So does a pattern that is       *)
(* longer than the backend takes; "fit" stands for a short one or none.    *)
(***************************************************************************)
Windows == {"fit", "wide", "backwards", "none"}

Patterns == {"fit", "long"}

NoStamp == [tool |-> "none"]

-----------------------------------------------------------------------------
(***************************************************************************)
(* What a handler comes to: a record, a record that is held already, a     *)
(* ToolError, or an exception of another kind.                             *)
(***************************************************************************)
Part(c, names) == [f \in names \cup {"tool"} |-> c[f]]

Recorded(c, asked, found) == [kind |-> "record", id |-> Part(c, asked), rows |-> Part(c, found)]

Refused == [kind |-> "refused"]

Raised  == [kind |-> "raised"]

Held(id) == [kind |-> "held", id |-> id]

(***************************************************************************)
(* to_range refuses a window that ends before it starts, and check_window  *)
(* one that is too wide: neither is a ToolError.                           *)
(***************************************************************************)
Fits(c) == c.window = "fit"

InWindow(c, asked) == IF Fits(c) THEN Recorded(c, asked, asked) ELSE Raised

ListAnomalies(c) == InWindow(c, {"window", "about", "limit"})

QueryMetric(c) == InWindow(c, {"window", "about", "limit"})

CompareWindows(c) == InWindow(c, {"window", "about"})

(***************************************************************************)
(* The backend refuses a long pattern as it refuses a wide window.         *)
(***************************************************************************)
SearchLogs(c) == IF c.pattern = "fit" THEN InWindow(c, {"window", "about", "limit"}) ELSE Raised

TopErrorSignatures(c) == InWindow(c, {"window", "about"})

FindTraces(c) == InWindow(c, {"window", "about", "limit"})

RecentChanges(c) == InWindow(c, {"window", "about"})

TraceBreakdown(c) == Recorded(c, {"about"}, {"about"})

(***************************************************************************)
(* An edge that is not the bundle's schema is refused before any walk.     *)
(***************************************************************************)
ServiceDependencies(c) ==
  IF "topology" \in Broken THEN Refused ELSE Recorded(c, {"about", "limit"}, {"about", "limit"})

BlastRadius(c) ==
  IF "topology" \in Broken THEN Refused ELSE Recorded(c, {"about"}, {"about"})

(***************************************************************************)
(* The limit decides how many sections are found and is not in the record. *)
(***************************************************************************)
RunbookSearch(c) ==
  IF "knowledge" \in Broken \/ c.about \notin KnownServices THEN Refused
  ELSE Recorded(c, {"about"}, {"about", "limit"})

SimilarIncidents(c) ==
  IF "memory" \in Broken THEN Refused ELSE Recorded(c, {"about", "limit"}, {"about", "limit"})

GetEvidence(c, held) ==
  IF c.cites \subseteq DOMAIN held THEN Held(CHOOSE id \in c.cites : TRUE) ELSE Refused

(***************************************************************************)
(* Which target each kind of remediation acts on.                          *)
(***************************************************************************)
RequiredTarget ==
  [disable_feature_flag |-> "flag", restart_service |-> "service", page_owning_team |-> "team"]

(***************************************************************************)
(* What build_proposal refuses: a remediation the allowlist does not hold, *)
(* a flag without the variant to set or a variant for anything else, and   *)
(* no evidence.  The target is not looked up anywhere.                     *)
(***************************************************************************)
Proposable(action, cites) ==
  /\ action.remediation \in DOMAIN Allowlist
  /\ Allowlist[action.remediation] = "disable_feature_flag" <=> action.variant # NoVariant
  /\ cites # {}

(***************************************************************************)
(* proposal_id: the action and the incident, which is the bundle; neither  *)
(* the evidence nor the moment.                                            *)
(***************************************************************************)
ProposalId(action) == [remediation |-> action.remediation, target |-> action.target, variant |-> action.variant]

(***************************************************************************)
(* A proposal, made in a context.                                          *)
(***************************************************************************)
BuildProposal(c, ctx) ==
  [id |-> ProposalId(c.about), acts_on |-> RequiredTarget[Allowlist[c.about.remediation]],
   evidence |-> c.cites, at |-> ctx.era]

\* Mutant: the error of a refused proposal is not turned into a ToolError.
ProposeRemediation_Uncaught(c, ctx) == Raised

(***************************************************************************)
(* The record names the action; its row is the proposal, with the evidence *)
(* it cites and the moment it was made.                                    *)
(***************************************************************************)
ProposeRemediation(c, ctx) ==
  IF \/ "knowledge" \in Broken
     \/ ~(c.cites \subseteq DOMAIN ctx.held)
     \/ ~Proposable(c.about, c.cites)
  THEN Refused
  ELSE [kind |-> "record", id |-> Part(c, {"about"}),
        rows |-> [tool |-> c.tool, about |-> c.about, proposal |-> BuildProposal(c, ctx)]]

Handler(c, ctx) ==
  CASE c.tool = "list_anomalies"       -> ListAnomalies(c)
    [] c.tool = "query_metric"         -> QueryMetric(c)
    [] c.tool = "compare_windows"      -> CompareWindows(c)
    [] c.tool = "search_logs"          -> SearchLogs(c)
    [] c.tool = "top_error_signatures" -> TopErrorSignatures(c)
    [] c.tool = "find_traces"          -> FindTraces(c)
    [] c.tool = "trace_breakdown"      -> TraceBreakdown(c)
    [] c.tool = "service_dependencies" -> ServiceDependencies(c)
    [] c.tool = "blast_radius"         -> BlastRadius(c)
    [] c.tool = "recent_changes"       -> RecentChanges(c)
    [] c.tool = "runbook_search"       -> RunbookSearch(c)
    [] c.tool = "similar_incidents"    -> SimilarIncidents(c)
    [] c.tool = "get_evidence"         -> GetEvidence(c, ctx.held)
    [] c.tool = "propose_remediation"  -> ProposeRemediation(c, ctx)

AllTools ==
  {"list_anomalies", "query_metric", "compare_windows", "search_logs", "top_error_signatures",
   "find_traces", "trace_breakdown", "service_dependencies", "blast_radius", "recent_changes",
   "runbook_search", "get_evidence", "propose_remediation", "similar_incidents"}

GraphTools == {"service_dependencies", "blast_radius"}

\* The tools whose input model has a window.
WindowTools ==
  {"list_anomalies", "query_metric", "compare_windows", "search_logs", "top_error_signatures",
   "find_traces", "recent_changes"}

-----------------------------------------------------------------------------
(***************************************************************************)
(* A ToolContext: the evidence held, by id, the calls made of each tool,   *)
(* and when it is used.                                                    *)
(***************************************************************************)
FreshContext(era) == [held |-> << >>, used |-> [t \in AllTools |-> 0], era |-> era]

(***************************************************************************)
(* EvidenceStore.add: a record already held under the id is kept.          *)
(***************************************************************************)
Add(held, id, rows) ==
  [i \in DOMAIN held \cup {id} |->
     IF i \in DOMAIN held THEN held[i] ELSE [rows |-> rows, stamp |-> NoStamp]]

(***************************************************************************)
(* EvidenceStore.restamp: how to ask again, told once.                     *)
(***************************************************************************)
\* Mutant: every call that cites a record stamps it again.
Restamp_Always(held, id, c) == [held EXCEPT ![id].stamp = c]

Restamp(held, id, c) == IF held[id].stamp = NoStamp THEN [held EXCEPT ![id].stamp = c] ELSE held

(***************************************************************************)
(* What the caller is shown: a failure, or the rows this call found under  *)
(* the id of the record.                                                   *)
(***************************************************************************)
Shown(id, rows) == [kind |-> "result", id |-> id, rows |-> rows]

Failure == [kind |-> "error"]

Escape == [kind |-> "raised"]

Keep(c, ctx, id, rows) ==
  [ctx EXCEPT !.held = Restamp(Add(@, id, rows), id, c)]

(***************************************************************************)
(* ToolRegistry.call of a registry that has the given tools.               *)
(***************************************************************************)
RegistryCall(tools, ctx, c) ==
  IF c.tool \notin tools \/ ~c.shaped \/ ctx.used[c.tool] >= MaxCallsPerTool
  THEN [seen |-> Failure, ctx |-> ctx]
  ELSE LET counted == [ctx EXCEPT !.used[c.tool] = @ + 1]
           result  == Handler(c, counted)
       IN CASE result.kind = "refused" -> [seen |-> Failure, ctx |-> counted]
            [] result.kind = "raised"  -> [seen |-> Escape, ctx |-> counted]
            [] result.kind = "held"    ->
                 [seen |-> Shown(result.id, counted.held[result.id].rows),
                  ctx  |-> [counted EXCEPT !.held = Restamp(@, result.id, c)]]
            [] result.kind = "record"  ->
                 [seen |-> Shown(result.id, result.rows),
                  ctx  |-> Keep(c, counted, result.id, result.rows)]

(***************************************************************************)
(* re_execute: a fresh context, and what has come back in it under the id  *)
(* it was asked for.                                                       *)
(***************************************************************************)
FreshRerun == [asked |-> 0, ctx |-> FreshContext("gate"), back |-> {}]

(***************************************************************************)
(* A citation the gate lets stand: asked again, the same rows came back.   *)
(***************************************************************************)
Verified(held, rerun) == {ref \in rerun.back : rerun.ctx.held[ref].rows = held[ref].rows}
=============================================================================
