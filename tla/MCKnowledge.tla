----------------------------- MODULE MCKnowledge -----------------------------
(***************************************************************************)
(* Two processes, two services, two teams that a service moves between,    *)
(* and files that agree with each other or do not.                         *)
(***************************************************************************)
EXTENDS KnowledgeGraph, TLC

CONSTANTS cart, shop, ops, web, box, pod, db, topic, book

MCPlaceOf(s) == IF s = cart THEN 1 ELSE 2

Store(access, kind) == [name |-> db, access |-> access, value |-> kind]

Queue(role) == [name |-> topic, role |-> role, value |-> ""]

Record(owner, tier, container, routes, stores, queues, cites) ==
  [owner |-> owner, tier |-> tier, container |-> container, routes |-> routes,
   stores |-> stores, queues |-> queues, cites |-> cites]

Cart(owner) == Record(owner, "core", box, {"/cart"}, {Store("reads_writes", "sql")}, {Queue("produces")}, {book})

Shop(owner, tier) == Record(owner, tier, box, {"/"}, {Store("reads", "cache")}, {Queue("consumes")}, {})

MCServicesFiles ==
  {cart :> Cart(ops) @@ shop :> Shop(web, "edge"),
   cart :> Cart(web) @@ shop :> [Shop(web, "core") EXCEPT !.container = pod]}

MCTeamsFiles == {ops :> {cart} @@ web :> {shop}, web :> {cart, shop}}

MCRunbooksFiles == {book :> {cart}, book :> Torn}

Page == [kind |-> "page_owning_team", reversible |-> TRUE, approval |-> FALSE, cites |-> {book}]

MCRemediationsFiles == {{Page}}

\* The services and the teams do not agree on who owns the cart.
MCFirstFiles ==
  {[services |-> cart :> Cart(web) @@ shop :> [Shop(web, "core") EXCEPT !.container = pod],
    teams |-> ops :> {cart} @@ web :> {shop}, runbooks |-> book :> {cart}, remediations |-> {Page}]}

MCCallTables == {{<<cart, shop>>, <<cart, cart>>}}

MCSymmetry == Permutations(Loaders)
=============================================================================
