----------------------------- MODULE MCExitGate -----------------------------
(***************************************************************************)
(* Reports of up to three claims, chosen so that a repair can break what   *)
(* held: numbers of a live record that has moved, quoted in one claim and  *)
(* relied on in another; timelines that are out of order twice; a blast    *)
(* radius with and without the graph; claims that fail each check alone.   *)
(***************************************************************************)
EXTENDS ExitGate, SequencesExt

CONSTANTS MaxClaims, metrics, logs, trace, gone, graph

MCEvidence ==
  (metrics :> [known |-> TRUE, kind |-> "metrics", live |-> TRUE, tool |-> TRUE, again |-> "changed"]) @@
  (logs :> [known |-> TRUE, kind |-> "logs", live |-> FALSE, tool |-> TRUE, again |-> "same"]) @@
  (trace :> [known |-> TRUE, kind |-> "traces", live |-> FALSE, tool |-> TRUE, again |-> "error"]) @@
  (gone :> [known |-> FALSE, kind |-> "logs", live |-> FALSE, tool |-> FALSE, again |-> "nothing"]) @@
  (graph :> [known |-> TRUE, kind |-> "topology", live |-> FALSE, tool |-> TRUE, again |-> "same"])

Says(type, cites, numbers) ==
  [type |-> type, cites |-> cites, numbers |-> numbers, sourced |-> TRUE, at |-> NoTime]

When(at) == [Says("timeline", {logs}, {}) EXCEPT !.at = at]

Quote(stored) == [ref |-> metrics, stored |-> stored, fresh |-> TRUE]

Pool ==
  {Says("measurement", {metrics}, {Quote(TRUE)}),
   Says("measurement", {metrics}, {Quote(FALSE)}),
   Says("mechanism", {metrics}, {}),
   Says("mechanism", {logs}, {}),
   [Says("mechanism", {logs}, {}) EXCEPT !.sourced = FALSE],
   Says("mechanism", {}, {}),
   Says("ruled_out", {gone}, {}),
   Says("ruled_out", {trace}, {}),
   Says("blast_radius", {graph}, {}),
   Says("blast_radius", {logs}, {}),
   When(1), When(2), When(3)}

Leaders ==
  {[service |-> s, support |-> n] : s \in Service, n \in {MinSupport - 1, MinSupport}}
    \cup {[service |-> NoService, support |-> 0]}

MCSpec == Submit(BoundedSeq(Pool, MaxClaims), Leaders) /\ [][Next]_vars
=============================================================================
