---------------------------- MODULE KnowledgeGraph ----------------------------
(***************************************************************************)
(* The knowledge files under knowledge/ and the graph they are loaded      *)
(* into: what the files must agree on (graph/knowledge.py), the nine       *)
(* statements of a load and the writer of call edges (graph/load.py), the  *)
(* queries that read owners and calls back (graph/queries.py), and the     *)
(* commands that load the graph and check that a second load changes       *)
(* nothing (cli/graph.py).                                                 *)
(*                                                                         *)
(* Files are edited while commands run, one file at a time.  A statement   *)
(* commits by itself: commands interleave between statements, and any of   *)
(* them may fail after some of its statements.  Nothing is ever removed    *)
(* from the graph.  A command reads the files in one step: as the files    *)
(* are edited one by one, reading them one by one gives no other mixture.  *)
(***************************************************************************)
EXTENDS Naturals, FiniteSets

CONSTANTS
  Loaders,          \* processes that run `graph load` and `graph check`
  ServicesFiles,    \* contents of services.yaml: service -> its record
  TeamsFiles,       \* contents of teams.yaml: team -> the services it owns
  RunbooksFiles,    \* contents of runbooks/: runbook -> the services it covers
  RemediationsFiles,\* contents of remediations.yaml
  FirstFiles,       \* bound: what is on disk first, files that load
  PlaceOf(_),       \* where a service is in services.yaml
  CallTables,       \* topologies that are written, sets of <<client, server>>
  Windows,          \* the windows they are measured over
  Torn,             \* a runbook without a complete header
  NoFacts,
  MaxOperations     \* bound: commands, edits and writes together

VARIABLES
  files,            \* what is on disk
  graph,            \* [value: node -> its properties, edges]
  loader,           \* what each process is doing
  operations,       \* commands, edits and writes so far
  asked,            \* history: calls written between known services, <<window, call>>
  read, finished    \* history: facts that were read as valid, and that were loaded to the end

vars == <<files, graph, loader, operations, asked, read, finished>>

----------------------------------------------------------------------------
(* The files, graph/knowledge.py *)

Contents ==
  [services |-> ServicesFiles, teams |-> TeamsFiles, runbooks |-> RunbooksFiles, remediations |-> RemediationsFiles]

AllFiles ==
  [services : ServicesFiles, teams : TeamsFiles, runbooks : RunbooksFiles, remediations : RemediationsFiles]

\* parse_runbook and the models of single entries.
Parses(f) ==
  /\ \A r \in DOMAIN f.runbooks : f.runbooks[r] # Torn
  /\ \A t \in DOMAIN f.teams : f.teams[t] # {}
  /\ \A m \in f.remediations : m.reversible \/ m.approval

\* Mutant: nobody looks whether the owner of a service is a team.
CrossReferencesButOwners(f) ==
  LET names == DOMAIN f.services IN
    /\ \A s \in names : f.services[s].cites \subseteq DOMAIN f.runbooks
    /\ \A t \in DOMAIN f.teams : f.teams[t] \subseteq names
    /\ \A r \in DOMAIN f.runbooks : f.runbooks[r] \subseteq names
    /\ \A m \in f.remediations : m.cites \subseteq DOMAIN f.runbooks
    /\ \A s \in names : \E t \in DOMAIN f.teams : s \in f.teams[t] /\ \A u \in DOMAIN f.teams \ {t} : s \notin f.teams[u]
    /\ \E m \in f.remediations : m.kind = "page_owning_team"

\* Knowledge._cross_references_resolve
CrossReferencesResolve(f) ==
  LET names == DOMAIN f.services IN
    /\ \A s \in names : f.services[s].owner \in DOMAIN f.teams /\ f.services[s].cites \subseteq DOMAIN f.runbooks
    /\ \A t \in DOMAIN f.teams : f.teams[t] \subseteq names
    /\ \A r \in DOMAIN f.runbooks : f.runbooks[r] \subseteq names
    /\ \A m \in f.remediations : m.cites \subseteq DOMAIN f.runbooks
    /\ \A s \in names : \E t \in DOMAIN f.teams : s \in f.teams[t] /\ \A u \in DOMAIN f.teams \ {t} : s \notin f.teams[u]
    /\ \E m \in f.remediations : m.kind = "page_owning_team"

\* load_knowledge
Loadable(f) == Parses(f) /\ CrossReferencesResolve(f)

Knowledge == {f \in AllFiles : Loadable(f)}

ASSUME KnowledgeGraphAssumption ==
  /\ MaxOperations \in Nat
  /\ FirstFiles \subseteq Knowledge
  /\ \A f \in ServicesFiles : \A s \in DOMAIN f : PlaceOf(s) \in Nat

\* Knowledge.team_for, of loadable files.
TeamFor(f, s) == CHOOSE t \in DOMAIN f.teams : s \in f.teams[t]

----------------------------------------------------------------------------
(* Statements, graph/load.py.  A statement sets nodes, row by row, and     *)
(* draws an edge <<kind, node, partner>> where its partner exists.         *)

Node(label, name) == <<label, name>>

Service(s) == Node("Service", s)

SetTo(node, value, place) == [node |-> node, value |-> value, place |-> place]

Of(f, s, field) == {<<s, x>> : x \in f.services[s][field]}

Pairs(f, field) == UNION {Of(f, s, field) : s \in DOMAIN f.services}

Stores(f, access) == {p \in Pairs(f, "stores") : p[2].access \in {access, "reads_writes"}}

\* One row for each link of a service to something that is named.
Links(links, kind, label) ==
  [sets  |-> {SetTo(Node(label, p[2].name), p[2].value, PlaceOf(p[1])) : p \in links},
   draws |-> {<<kind, Node(label, p[2].name), Service(p[1])>> : p \in links}]

Statements(f) ==
  LET Queues(role) == {p \in Pairs(f, "queues") : p[2].role = role} IN
  <<[sets  |-> {SetTo(Node("Team", t), "", 0) : t \in DOMAIN f.teams},
     draws |-> {}],
    [sets  |-> {SetTo(Service(s), f.services[s].tier, 0) : s \in DOMAIN f.services},
     draws |-> {<<"OWNS", Service(s), Node("Team", f.services[s].owner)>> : s \in DOMAIN f.services}],
    [sets  |-> {SetTo(Node("Container", f.services[s].container), s, PlaceOf(s)) : s \in DOMAIN f.services},
     draws |-> {<<"RUNS_IN", Node("Container", f.services[s].container), Service(s)>> : s \in DOMAIN f.services}],
    [sets  |-> {SetTo(Node("Endpoint", p), "", 0) : p \in Pairs(f, "routes")},
     draws |-> {<<"EXPOSES", Node("Endpoint", p), Service(p[1])>> : p \in Pairs(f, "routes")}],
    Links(Stores(f, "reads"), "READS", "Datastore"),
    Links(Stores(f, "writes"), "WRITES", "Datastore"),
    Links(Queues("produces"), "PRODUCES", "Queue"),
    Links(Queues("consumes"), "CONSUMES", "Queue"),
    [sets  |-> {SetTo(Node("Runbook", r), "", 0) : r \in DOMAIN f.runbooks},
     draws |-> UNION {{<<"COVERS", Node("Runbook", r), Service(s)>> : s \in f.runbooks[r]} : r \in DOMAIN f.runbooks}]>>

NumStatements == 9

NodesOf(rows) == {row.node : row \in rows}

\* MERGE and SET: where several rows set a node the last one stands.
LastSet(rows, node) ==
  (CHOOSE row \in rows : row.node = node /\ \A other \in rows : other.node = node => other.place <= row.place).value

Merge(g, statement) ==
  [value |-> [n \in DOMAIN g.value \cup NodesOf(statement.sets) |->
                IF n \in NodesOf(statement.sets) THEN LastSet(statement.sets, n) ELSE g.value[n]],
   edges |-> g.edges \cup {e \in statement.draws : e[3] \in DOMAIN g.value}]

\* load_call_edges: services that the graph does not know are passed over.
Known(g, calls) == {c \in calls : Service(c[1]) \in DOMAIN g.value /\ Service(c[2]) \in DOMAIN g.value}

MergeCalls(g, window, calls) == [g EXCEPT !.edges = @ \cup {<<"CALLS", window, c>> : c \in Known(g, calls)}]

NoGraph == [value |-> [n \in {} |-> ""], edges |-> {}]

----------------------------------------------------------------------------
(* Queries, graph/queries.py *)

\* OWNING_TEAM
OwnersOf(g, s) == {e[3][2] : e \in {d \in g.edges : d[1] = "OWNS" /\ d[2] = Service(s)}}

\* CALL_GRAPH with fetch_call_edges: the calls of one window.
FetchCalls(g, window) == {e[3] : e \in {d \in g.edges : d[1] = "CALLS" /\ d[2] = window}}

----------------------------------------------------------------------------
(* Commands, cli/graph.py *)

\* A process: what it runs on which facts, the statement it is at, the first
\* fingerprint of a check (of a load, as history, the graph it started from),
\* whether the second has the same nodes, and, as history, whether nothing else
\* has written since it started.
Idle(verdict) ==
  [command |-> "none", facts |-> NoFacts, phase |-> "none", at |-> 0,
   before |-> NoGraph, same |-> FALSE, alone |-> FALSE, verdict |-> verdict]

Busy(l) == loader[l].command # "none"

At(l, phase) == Busy(l) /\ loader[l].phase = phase

Another == operations < MaxOperations /\ operations' = operations + 1

Start(l, command) ==
  /\ ~Busy(l) /\ Another
  /\ IF files \in Knowledge
       THEN /\ read' = read \cup {files}
            /\ loader' = [k \in Loaders |->
                 IF k # l THEN [loader[k] EXCEPT !.alone = FALSE]
                 ELSE [command |-> command, facts |-> files,
                       phase |-> IF command = "check" THEN "nodes before" ELSE "statements", at |-> 1,
                       before |-> graph, same |-> FALSE, alone |-> \A other \in Loaders : ~Busy(other), verdict |-> "none"]]
       ELSE /\ loader' = [loader EXCEPT ![l] = Idle("failed")]
            /\ UNCHANGED read
  /\ UNCHANGED <<files, graph, asked, finished>>

\* graph_fingerprint is two queries, of all nodes and then of all edges.
Fingerprint(l) ==
  /\ \/ /\ At(l, "nodes before")
        /\ loader' = [loader EXCEPT ![l].before.value = graph.value, ![l].phase = "edges before"]
     \/ /\ At(l, "edges before")
        /\ loader' = [loader EXCEPT ![l].before.edges = graph.edges, ![l].phase = "statements"]
     \/ /\ At(l, "nodes after")
        /\ loader' = [loader EXCEPT ![l].same = loader[l].before.value = graph.value, ![l].phase = "edges after"]
  /\ UNCHANGED <<files, graph, operations, asked, read, finished>>

\* One statement of load_knowledge_graph; a load is over with the ninth.
Execute(l) ==
  /\ At(l, "statements")
  /\ graph' = Merge(graph, Statements(loader[l].facts)[loader[l].at])
  /\ IF loader[l].at < NumStatements
       THEN /\ loader' = [loader EXCEPT ![l].at = @ + 1]
            /\ UNCHANGED finished
       ELSE /\ loader' = [loader EXCEPT ![l] = IF @.command = "check" THEN [@ EXCEPT !.phase = "nodes after"]
                                               ELSE Idle("none")]
            /\ finished' = finished \cup {loader[l].facts}
  /\ UNCHANGED <<files, operations, asked, read>>

\* Mutant: the fingerprint leaves out what the nodes hold.
ConcludeOnEdges(l) ==
  /\ At(l, "edges after")
  /\ loader' = [loader EXCEPT ![l] =
       Idle(IF @.before.edges = graph.edges THEN "idempotent" ELSE "not idempotent")]
  /\ UNCHANGED <<files, graph, operations, asked, read, finished>>

\* The last query of the second fingerprint, and the verdict of `graph check`.
Conclude(l) ==
  /\ At(l, "edges after")
  /\ loader' = [loader EXCEPT ![l] =
       Idle(IF @.same /\ @.before.edges = graph.edges THEN "idempotent" ELSE "not idempotent")]
  /\ UNCHANGED <<files, graph, operations, asked, read, finished>>

\* The process is killed, or the database refuses a statement: what has
\* committed stays.
Fail(l) ==
  /\ Busy(l)
  /\ loader' = [loader EXCEPT ![l] = Idle("failed")]
  /\ UNCHANGED <<files, graph, operations, asked, read, finished>>

Disturb == [l \in Loaders |-> [loader[l] EXCEPT !.alone = FALSE]]

LoadCalls(window, calls) ==
  /\ Another
  /\ graph' = MergeCalls(graph, window, calls)
  /\ asked' = asked \cup {<<window, c>> : c \in Known(graph, calls)}
  /\ loader' = Disturb
  /\ UNCHANGED <<files, read, finished>>

\* Somebody saves one of the files.
Edit(file, content) ==
  /\ Another /\ content # files[file]
  /\ files' = [files EXCEPT ![file] = content]
  /\ UNCHANGED <<graph, loader, asked, read, finished>>

Init ==
  /\ files \in FirstFiles
  /\ graph = NoGraph
  /\ loader = [l \in Loaders |-> Idle("none")]
  /\ operations = 0
  /\ asked = {} /\ read = {} /\ finished = {}

Next ==
  \/ \E l \in Loaders :
       \/ \E command \in {"load", "check"} : Start(l, command)
       \/ Fingerprint(l) \/ Execute(l) \/ Conclude(l) \/ Fail(l)
  \/ \E window \in Windows, calls \in CallTables : LoadCalls(window, calls)
  \/ \E file \in DOMAIN Contents : \E content \in Contents[file] : Edit(file, content)

Spec == Init /\ [][Next]_vars

----------------------------------------------------------------------------
(* Properties *)

\* What facts say: every node and every edge of their nine statements, each
\* node as the last statement that sets it leaves it.
FactNodes(f) == LET done == Statements(f) IN UNION {NodesOf(done[k].sets) : k \in 1 .. NumStatements}

FactEdges(f) == LET done == Statements(f) IN UNION {done[k].draws : k \in 1 .. NumStatements}

FinalValue(f, n) ==
  LET done == Statements(f)
      setting == {k \in 1 .. NumStatements : n \in NodesOf(done[k].sets)}
  IN LastSet(done[CHOOSE k \in setting : \A j \in setting : j <= k].sets, n)

Loaded(g, f) ==
  LET nodes == FactNodes(f) IN
    [value |-> [n \in DOMAIN g.value \cup nodes |-> IF n \in nodes THEN FinalValue(f, n) ELSE g.value[n]],
     edges |-> g.edges \cup FactEdges(f)]

\* Every variable holds what the code could hold in it; only facts that the
\* validation accepts are loaded.
TypeOK ==
  /\ files \in AllFiles
  /\ finished \subseteq read
  /\ read \subseteq Knowledge
  /\ \A l \in Loaders :
       /\ loader[l].command \in {"none", "load", "check"}
       /\ loader[l].at \in 0 .. NumStatements
       /\ Busy(l) => loader[l].facts \in read /\ loader[l].at \in 1 .. NumStatements
       /\ loader[l].verdict \in {"none", "failed", "idempotent", "not idempotent"}
  /\ operations \in 0 .. MaxOperations

\* A load that ended left nothing out: every node and every edge of its facts
\* is in the graph and stays there, whatever other loads ran between its
\* statements and however many failed.  A statement passes over a row whose
\* partner is missing without an error, so this rests on the order of the
\* statements and on what the files are checked for (load_knowledge_graph,
\* "a MATCH always finds what it needs").
LoadCovers ==
  \A f \in finished : FactNodes(f) \subseteq DOMAIN graph.value /\ FactEdges(f) \subseteq graph.edges

\* Nothing is in the graph that no valid files said, and no edge hangs: what
\* it joins is there, also after a load that failed halfway.
NothingInvented ==
  LET said == UNION {FactEdges(f) : f \in read}
      calls == {e \in graph.edges : e[1] = "CALLS"}
  IN /\ DOMAIN graph.value \subseteq UNION {FactNodes(f) : f \in read}
     /\ graph.edges \ calls \subseteq said
     /\ \A e \in graph.edges \ calls : e[2] \in DOMAIN graph.value /\ e[3] \in DOMAIN graph.value
     /\ \A e \in calls : Service(e[3][1]) \in DOMAIN graph.value /\ Service(e[3][2]) \in DOMAIN graph.value

\* A load that nothing else wrote beside leaves exactly the graph it found with
\* its facts over it, so that running it again repairs one that failed
\* anywhere, and loading twice is loading once (load.py, "idempotently").
LoadIsItsFacts ==
  [][\A l \in Loaders :
       loader[l].alone /\ At(l, "statements") /\ ~At(l, "statements")' /\ loader'[l].verdict # "failed" =>
         graph' = Loaded(loader[l].before, loader[l].facts)]_vars

\* A check that nothing else wrote beside says idempotent exactly when the
\* graph had all of its facts already: it fails when files were edited or a
\* load failed since, though the load is as idempotent as ever (`graph check`).
CheckSpeaksOfTheFiles ==
  [][\A l \in Loaders :
       loader[l].alone /\ At(l, "edges after") /\ ~Busy(l)' /\ loader'[l].verdict # "failed" =>
         (loader'[l].verdict = "idempotent") = (loader[l].before = Loaded(loader[l].before, loader[l].facts))]_vars

\* The files give each service one team and still a service can have two
\* owners in the graph: only if it was read with two, since the edge to the
\* old one stays.  The team the files would page is among the owners unless
\* services.yaml names another one than teams.yaml, which is never compared
\* (_cross_references_resolve, "a page sent to two teams").
OwnersComeFromTheFiles ==
  \A f \in finished : \A s \in DOMAIN f.services :
    /\ OwnersOf(graph, s) # {}
    /\ \A t \in OwnersOf(graph, s) :
         t = f.services[s].owner \/ \E g \in read : s \in DOMAIN g.services /\ g.services[s].owner = t
    /\ TeamFor(f, s) \in OwnersOf(graph, s) \/ TeamFor(f, s) # f.services[s].owner

\* The calls of one window are those written for it between services that the
\* graph knew by then: another window's neither join nor replace them, and
\* those passed over do not appear when the service is loaded later.
CallsKeepTheirWindow ==
  \A window \in Windows : FetchCalls(graph, window) = {a[2] : a \in {b \in asked : b[1] = window}}

\* The graph is what the files and the recordings said, whatever loads and edits
\* ran beside each other: all that a finished load was given, nothing nobody
\* gave, each service's owners, and each window's calls.
GraphIsWhatWasSaid ==
  /\ LoadCovers
  /\ NothingInvented
  /\ OwnersComeFromTheFiles
  /\ CallsKeepTheirWindow

\* What a load, or a check, that nothing else wrote beside leaves and says is
\* what the files and the graph it found say, whatever failed before it.
LoadsSpeakOfTheFiles == LoadIsItsFacts /\ CheckSpeaksOfTheFiles
=============================================================================
