---------------------------- MODULE MCEvaluation ----------------------------
(***************************************************************************)
(* Two scenarios of test_id, one of them a healthy system, one of train    *)
(* and a live incident.  Two answers contradict each other about one of    *)
(* the recorded incidents.                                                 *)
(***************************************************************************)
EXTENDS Evaluation

CONSTANTS fault, calm, drill, live, cart, ad

Scenario(split, target) ==
  [split |-> split, target |-> target, onset |-> 60, flag |-> target,
   class |-> IF target = NoService THEN "none" ELSE "error_injection"]

MCLibrary ==
  (fault :> Scenario("test_id", cart)) @@ (calm :> Scenario("test_id", NoService))
    @@ (drill :> Scenario("train", cart))

MCShelf == <<calm, live, fault, drill>>

Answer(incident, who, word, cause) ==
  [incident |-> incident, reviewer |-> who, verdict |-> word, cause |-> cause]

MCAnswers ==
  {Answer(fault, 1, "correct", cart), Answer(fault, 2, "incorrect", ad), Answer(live, 1, "correct", NoService)}

Decision(split, scenario, healthy) == [split |-> split, scenario |-> scenario, healthy |-> healthy]

MCDecisions ==
  {Decision("train", Unbound, FALSE), Decision("test_id", Unbound, TRUE), Decision("test_id", fault, FALSE),
   Decision("test_id", drill, FALSE)}

MCRules ==
  [root_cause_top1   |-> [grader |-> "root_cause", margin |-> 3],
   root_cause_top3   |-> [grader |-> "root_cause_top3", margin |-> 5],
   abstention        |-> [grader |-> "abstention", margin |-> 2],
   evidence_validity |-> [grader |-> "evidence_validity", margin |-> 0]]

\* An answer that names `service`, as B0 gives it.
Names(service, confidence) ==
  [service |-> service, ranked |-> <<service>>, abstained |-> FALSE, class |-> Nothing,
   onset |-> Nothing, confidence |-> confidence, cited |-> {"e1"}, gathered |-> {"e1"},
   remedy |-> Nothing, usd |-> 0, mode |-> "unknown"]

Abstains == [Names(NoService, Nothing) EXCEPT !.ranked = <<>>, !.abstained = TRUE, !.cited = {}]

\* One of the agent, with a model behind it, that cites what it did not gather.
Claims(service, confidence) ==
  [Names(service, confidence) EXCEPT !.ranked = <<ad, cart>>, !.class = "error_injection",
     !.onset = 150, !.cited = {"e1", "e2"}, !.usd = 3, !.mode = "api"]

MCOutcomes(config) ==
  CASE config = "b0"    -> {Names(cart, 85), Names(ad, 60), Abstains}
    [] config = "fb-v1" -> {Claims(cart, 30), [Names(ad, 60) EXCEPT !.mode = "stub"]}
    [] config = "b1"    -> {[Claims(cart, Nothing) EXCEPT !.ranked = <<>>], Abstains}

Job(kind, configs, split, limit, repeat) ==
  [kind |-> kind, configs |-> configs, split |-> split, limit |-> limit, repeat |-> repeat]

Script(jobs, stores, trees) == [jobs |-> jobs, stores |-> stores, trees |-> trees]

MCScripts ==
  {Script(<<Job("run", <<"b0">>, "test_id", 1, 3)>>, 2, 0),
   Script(<<Job("run", <<"fb-v1">>, "test_id", 2, 1)>>, 3, 0),
   Script(<<Job("gate", <<"fb-v1", "b0">>, "test_id", 0, 1)>>, 2, 0),
   Script(<<Job("run", <<"b1">>, "validation", 0, 1)>>, 5, 0),
   Script(<<Job("regression", <<"b1", "b1">>, "train", 0, 1)>>, 2, 0),
   Script(<<Job("optimize", <<"fb-v1">>, "train", 0, 1)>>, 3, 0),
   Script(<<Job("run", <<"fb-v1">>, "train", 0, 1), Job("run", <<"fb-v1">>, "train", 0, 1)>>, 0, 3),
   Script(<<Job("run", <<"b0">>, "test_id", 1, 1), Job("run", <<"fb-v1">>, "test_id", 1, 1),
            Job("compare", <<"b0", "fb-v1">>, "test_id", 0, 1)>>, 3, 0),
   Script(<<Job("compare", <<"b0", "b0">>, "test_id", 0, 1)>>, 0, 0),
   Script(<<>>, 6, 0)}

MCStarts ==
  {[bundles |-> {}, feedback |-> <<>>],
   [bundles |-> {drill}, feedback |-> <<>>],
   [bundles |-> {fault}, feedback |-> <<Answer(fault, 1, "correct", cart)>>],
   [bundles |-> {fault, calm, live},
    feedback |-> <<Answer(fault, 2, "incorrect", ad), Answer(live, 1, "correct", NoService)>>]}
=============================================================================
