--------------------------- MODULE KnowledgeProofs ---------------------------
(***************************************************************************)
(* What a load leaves in the graph, for every set of files that may be     *)
(* written, any number of loaders and any edit, failure and call table in  *)
(* between.  A statement passes over a row whose partner is missing, so    *)
(* that a load covers its facts rests on two things: an earlier statement  *)
(* sets every partner, and nothing that was set is ever removed.           *)
(***************************************************************************)
EXTENDS KnowledgeGraph, FiniteSetTheorems, WellFoundedInduction, TLAPS

SetBy(f, k) == NodesOf(Statements(f)[k].sets)

DrawnBy(f, k) == Statements(f)[k].draws

Covered(f, k) == SetBy(f, k) \subseteq DOMAIN graph.value /\ DrawnBy(f, k) \subseteq graph.edges

IsLoader(r) == DOMAIN r = {"command", "facts", "phase", "at", "before", "same", "alone", "verdict"}

Shape ==
  /\ graph = [value |-> graph.value, edges |-> graph.edges]
  /\ DOMAIN loader = Loaders
  /\ \A l \in Loaders : IsLoader(loader[l])

(***************************************************************************)
(* The statements a load has run are in the graph; a check that takes its  *)
(* first fingerprint has run none.                                         *)
(***************************************************************************)
Underway ==
  \A l \in Loaders :
    /\ At(l, "statements") =>
         \A k \in 1 .. NumStatements : k < loader[l].at => Covered(loader[l].facts, k)
    /\ At(l, "nodes before") \/ At(l, "edges before") => loader[l].at = 1

Inv == TypeOK /\ Shape /\ Underway /\ LoadCovers /\ NothingInvented

-----------------------------------------------------------------------------
(***************************************************************************)
(* The nine statements: who sets the services and the teams, and what the  *)
(* edges each draws join.                                                  *)
(***************************************************************************)
LEMMA RowSets ==
  ASSUME NEW rows, NEW node, NEW value, NEW place, SetTo(node, value, place) \in rows
  PROVE  node \in NodesOf(rows)
<1>1. SetTo(node, value, place).node = node
  BY DEF SetTo
<1>. QED  BY <1>1 DEF NodesOf

LEMMA LinksDraw ==
  ASSUME NEW links, NEW kind, NEW label, NEW e \in Links(links, kind, label).draws
  PROVE  /\ e[1] = kind /\ e[2] \in NodesOf(Links(links, kind, label).sets)
         /\ \E p \in links : e[3] = Service(p[1])
<1>1. PICK p \in links : e = <<kind, Node(label, p[2].name), Service(p[1])>>
  BY DEF Links
<1>2. SetTo(Node(label, p[2].name), p[2].value, PlaceOf(p[1])) \in Links(links, kind, label).sets
  BY DEF Links
<1>3. Node(label, p[2].name) \in NodesOf(Links(links, kind, label).sets)
  BY <1>2, RowSets
<1>. QED  BY <1>1, <1>3

LEMMA PairsAreOfServices ==
  ASSUME NEW f, NEW field, NEW p \in Pairs(f, field)
  PROVE  p[1] \in DOMAIN f.services
BY DEF Pairs, Of

LEMMA TeamsAndServicesSet ==
  ASSUME NEW f
  PROVE  /\ \A t \in DOMAIN f.teams : Node("Team", t) \in SetBy(f, 1)
         /\ \A s \in DOMAIN f.services : Service(s) \in SetBy(f, 2)
<1>1. Statements(f)[1].sets = {SetTo(Node("Team", t), "", 0) : t \in DOMAIN f.teams}
  BY DEF Statements
<1>2. Statements(f)[2].sets = {SetTo(Service(s), f.services[s].tier, 0) : s \in DOMAIN f.services}
  BY DEF Statements
<1>3. ASSUME NEW t \in DOMAIN f.teams PROVE Node("Team", t) \in SetBy(f, 1)
  <2>1. SetTo(Node("Team", t), "", 0) \in Statements(f)[1].sets
    BY <1>1
  <2>. QED  BY <2>1, RowSets DEF SetBy
<1>4. ASSUME NEW s \in DOMAIN f.services PROVE Service(s) \in SetBy(f, 2)
  <2>1. SetTo(Service(s), f.services[s].tier, 0) \in Statements(f)[2].sets
    BY <1>2
  <2>. QED  BY <2>1, RowSets DEF SetBy
<1>. QED  BY <1>3, <1>4

(***************************************************************************)
(* An edge of a statement hangs on a node the same statement sets; its     *)
(* partner is set by the first statement or by the second, before it.      *)
(***************************************************************************)
LEMMA DrawsHang ==
  ASSUME NEW f \in Knowledge, NEW k \in 1 .. NumStatements, NEW e \in DrawnBy(f, k)
  PROVE  /\ e[1] # "CALLS" /\ e[2] \in SetBy(f, k)
         /\ e[1] = "OWNS" => \E s \in DOMAIN f.services : e = <<"OWNS", Service(s), Node("Team", f.services[s].owner)>>
         /\ \E j \in 1 .. NumStatements : j < k /\ e[3] \in SetBy(f, j)
<1>. DEFINE Owning == \E s \in DOMAIN f.services : e = <<"OWNS", Service(s), Node("Team", f.services[s].owner)>>
            Goal(i) == /\ e[1] # "CALLS" /\ e[2] \in SetBy(f, i) /\ (e[1] = "OWNS" => Owning)
                       /\ \E j \in 1 .. NumStatements : j < i /\ e[3] \in SetBy(f, j)
<1>0. 1 \in 1 .. NumStatements /\ 2 \in 1 .. NumStatements
  BY DEF NumStatements
<1>1. CASE k = 1
  <2>1. DrawnBy(f, 1) = {}
    BY DEF DrawnBy, Statements
  <2>. QED  BY <1>1, <2>1
<1>2. CASE k = 2
  <2>1. /\ Statements(f)[2].sets = {SetTo(Service(s), f.services[s].tier, 0) : s \in DOMAIN f.services}
        /\ Statements(f)[2].draws
             = {<<"OWNS", Service(s), Node("Team", f.services[s].owner)>> : s \in DOMAIN f.services}
    BY DEF Statements
  <2>2. PICK s \in DOMAIN f.services : e = <<"OWNS", Service(s), Node("Team", f.services[s].owner)>>
    BY <1>2, <2>1 DEF DrawnBy
  <2>3. f.services[s].owner \in DOMAIN f.teams
    BY DEF Knowledge, Loadable, CrossReferencesResolve
  <2>4. e[1] = "OWNS" /\ e[2] \in SetBy(f, 2) /\ e[3] \in SetBy(f, 1)
    BY <2>2, <2>3, TeamsAndServicesSet
  <2>5. Owning
    BY <2>2
  <2>6. e[1] # "CALLS" /\ 1 < 2
    BY <2>4
  <2>. QED  BY <1>0, <1>2, <2>4, <2>5, <2>6
<1>3. ASSUME k > 2, e[1] \notin {"CALLS", "OWNS"}, e[2] \in SetBy(f, k),
             NEW s \in DOMAIN f.services, e[3] = Service(s)
      PROVE  Goal(k)
  BY <1>0, <1>3, TeamsAndServicesSet
<1>4. CASE k = 3
  <2>1. /\ Statements(f)[3].sets
             = {SetTo(Node("Container", f.services[s].container), s, PlaceOf(s)) : s \in DOMAIN f.services}
        /\ Statements(f)[3].draws
             = {<<"RUNS_IN", Node("Container", f.services[s].container), Service(s)>> : s \in DOMAIN f.services}
    BY DEF Statements
  <2>2. PICK s \in DOMAIN f.services :
          e = <<"RUNS_IN", Node("Container", f.services[s].container), Service(s)>>
    BY <1>4, <2>1 DEF DrawnBy
  <2>3. SetTo(Node("Container", f.services[s].container), s, PlaceOf(s)) \in Statements(f)[3].sets
    BY <2>1
  <2>4. e[2] \in SetBy(f, 3) /\ e[1] = "RUNS_IN" /\ e[3] = Service(s)
    BY <2>2, <2>3, RowSets DEF SetBy
  <2>. QED  BY <1>3, <1>4, <2>4
<1>5. CASE k = 4
  <2>1. /\ Statements(f)[4].sets = {SetTo(Node("Endpoint", p), "", 0) : p \in Pairs(f, "routes")}
        /\ Statements(f)[4].draws
             = {<<"EXPOSES", Node("Endpoint", p), Service(p[1])>> : p \in Pairs(f, "routes")}
    BY DEF Statements
  <2>2. PICK p \in Pairs(f, "routes") : e = <<"EXPOSES", Node("Endpoint", p), Service(p[1])>>
    BY <1>5, <2>1 DEF DrawnBy
  <2>3. SetTo(Node("Endpoint", p), "", 0) \in Statements(f)[4].sets
    BY <2>1
  <2>4. e[2] \in SetBy(f, 4) /\ e[1] = "EXPOSES" /\ e[3] = Service(p[1])
    BY <2>2, <2>3, RowSets DEF SetBy
  <2>5. p[1] \in DOMAIN f.services
    BY PairsAreOfServices
  <2>. QED  BY <1>3, <1>5, <2>4, <2>5
<1>6. ASSUME k > 2, NEW links, NEW kind, NEW label, kind \notin {"CALLS", "OWNS"},
             Statements(f)[k] = Links(links, kind, label),
             \A p \in links : p[1] \in DOMAIN f.services
      PROVE  Goal(k)
  <2>1. e \in Links(links, kind, label).draws
    BY <1>6 DEF DrawnBy
  <2>2. PICK p \in links : e[3] = Service(p[1])
    BY <2>1, LinksDraw
  <2>3. e[1] \notin {"CALLS", "OWNS"} /\ e[2] \in SetBy(f, k)
    BY <1>6, <2>1, LinksDraw DEF SetBy
  <2>. QED  BY <1>3, <1>6, <2>2, <2>3
<1>7. ASSUME NEW access PROVE \A p \in Stores(f, access) : p[1] \in DOMAIN f.services
  BY PairsAreOfServices DEF Stores
<1>8. ASSUME NEW role
      PROVE  \A p \in {q \in Pairs(f, "queues") : q[2].role = role} : p[1] \in DOMAIN f.services
  BY PairsAreOfServices
<1>9. CASE k = 5
  <2>1. Statements(f)[5] = Links(Stores(f, "reads"), "READS", "Datastore")
    BY DEF Statements
  <2>. QED  BY <1>6, <1>7, <1>9, <2>1
<1>10. CASE k = 6
  <2>1. Statements(f)[6] = Links(Stores(f, "writes"), "WRITES", "Datastore")
    BY DEF Statements
  <2>. QED  BY <1>6, <1>7, <1>10, <2>1
<1>11. CASE k = 7
  <2>1. Statements(f)[7] = Links({p \in Pairs(f, "queues") : p[2].role = "produces"}, "PRODUCES", "Queue")
    BY DEF Statements
  <2>. QED  BY <1>6, <1>8, <1>11, <2>1
<1>12. CASE k = 8
  <2>1. Statements(f)[8] = Links({p \in Pairs(f, "queues") : p[2].role = "consumes"}, "CONSUMES", "Queue")
    BY DEF Statements
  <2>. QED  BY <1>6, <1>8, <1>12, <2>1
<1>13. CASE k = 9
  <2>1. /\ Statements(f)[9].sets = {SetTo(Node("Runbook", r), "", 0) : r \in DOMAIN f.runbooks}
        /\ Statements(f)[9].draws
             = UNION {{<<"COVERS", Node("Runbook", r), Service(s)>> : s \in f.runbooks[r]} : r \in DOMAIN f.runbooks}
    BY DEF Statements
  <2>2. PICK r \in DOMAIN f.runbooks :
          e \in {<<"COVERS", Node("Runbook", r), Service(s)>> : s \in f.runbooks[r]}
    <3>1. e \in UNION {{<<"COVERS", Node("Runbook", r), Service(s)>> : s \in f.runbooks[r]} : r \in DOMAIN f.runbooks}
      BY <1>13, <2>1 DEF DrawnBy
    <3>. QED  BY <3>1, Zenon
  <2>3. PICK s \in f.runbooks[r] : e = <<"COVERS", Node("Runbook", r), Service(s)>>
    BY <2>2, Zenon
  <2>4. s \in DOMAIN f.services
    BY DEF Knowledge, Loadable, CrossReferencesResolve
  <2>5. SetTo(Node("Runbook", r), "", 0) \in Statements(f)[9].sets
    BY <2>1
  <2>6. e[2] \in SetBy(f, 9) /\ e[1] = "COVERS" /\ e[3] = Service(s)
    BY <2>3, <2>5, RowSets DEF SetBy
  <2>. QED  BY <1>3, <1>13, <2>4, <2>6
<1>14. k \in {1, 2, 3, 4, 5, 6, 7, 8, 9}
  BY DEF NumStatements
<1>. QED  BY <1>1, <1>2, <1>4, <1>5, <1>9, <1>10, <1>11, <1>12, <1>13, <1>14

-----------------------------------------------------------------------------
(***************************************************************************)
(* Nothing a statement or a table of calls writes removes anything.        *)
(***************************************************************************)
Grows == DOMAIN graph.value \subseteq DOMAIN graph'.value /\ graph.edges \subseteq graph'.edges

LEMMA CoveredGrows ==
  ASSUME Grows, NEW f, NEW k, Covered(f, k)
  PROVE  SetBy(f, k) \subseteq DOMAIN graph'.value /\ DrawnBy(f, k) \subseteq graph'.edges
BY DEF Grows, Covered

LEMMA FactsAre ==
  ASSUME NEW f
  PROVE  /\ FactNodes(f) = UNION {SetBy(f, k) : k \in 1 .. NumStatements}
         /\ FactEdges(f) = UNION {DrawnBy(f, k) : k \in 1 .. NumStatements}
BY DEF FactNodes, FactEdges, SetBy, DrawnBy

LEMMA CoversGrows ==
  ASSUME LoadCovers, Grows, UNCHANGED finished
  PROVE  LoadCovers'
BY DEF LoadCovers, Grows

(***************************************************************************)
(* A statement that runs after those before it leaves itself covered too.  *)
(***************************************************************************)
LEMMA MergeIs ==
  ASSUME NEW f, NEW k, graph' = Merge(graph, Statements(f)[k])
  PROVE  /\ graph' = [value |-> graph'.value, edges |-> graph'.edges]
         /\ DOMAIN graph'.value = DOMAIN graph.value \cup SetBy(f, k)
         /\ graph'.edges = graph.edges \cup {e \in DrawnBy(f, k) : e[3] \in DOMAIN graph.value}
BY DEF Merge, SetBy, DrawnBy

LEMMA MergeCovers ==
  ASSUME NEW f \in Knowledge, NEW k \in 1 .. NumStatements,
         \A j \in 1 .. NumStatements : j < k => Covered(f, j),
         graph' = Merge(graph, Statements(f)[k])
  PROVE  /\ Grows
         /\ \A j \in 1 .. NumStatements : j <= k =>
              SetBy(f, j) \subseteq DOMAIN graph'.value /\ DrawnBy(f, j) \subseteq graph'.edges
<1>1. Grows
  BY MergeIs DEF Grows
<1>2. \A e \in DrawnBy(f, k) : e[3] \in DOMAIN graph.value
  BY DrawsHang DEF Covered
<1>3. SetBy(f, k) \subseteq DOMAIN graph'.value /\ DrawnBy(f, k) \subseteq graph'.edges
  BY <1>2, MergeIs
<1>4. ASSUME NEW j \in 1 .. NumStatements, j <= k
      PROVE  SetBy(f, j) \subseteq DOMAIN graph'.value /\ DrawnBy(f, j) \subseteq graph'.edges
  <2>1. CASE j = k
    BY <1>3, <2>1
  <2>2. CASE j < k
    BY <1>1, <2>2, CoveredGrows
  <2>3. j = k \/ j < k
    BY <1>4 DEF NumStatements
  <2>. QED  BY <2>1, <2>2, <2>3
<1>. QED  BY <1>1, <1>4

(***************************************************************************)
(* What is in the graph stays accounted for when a statement of valid      *)
(* facts is merged.                                                        *)
(***************************************************************************)
LEMMA MergeInventsNothing ==
  ASSUME NEW f \in Knowledge, NEW k \in 1 .. NumStatements, f \in read, UNCHANGED read,
         NothingInvented, graph' = Merge(graph, Statements(f)[k])
  PROVE  NothingInvented'
<1>. DEFINE calls == {e \in graph.edges : e[1] = "CALLS"}
            after == {e \in graph'.edges : e[1] = "CALLS"}
            nodes == UNION {FactNodes(g) : g \in read}
            said  == UNION {FactEdges(g) : g \in read}
<1>1. /\ DOMAIN graph'.value = DOMAIN graph.value \cup SetBy(f, k)
      /\ graph'.edges = graph.edges \cup {e \in DrawnBy(f, k) : e[3] \in DOMAIN graph.value}
  BY MergeIs
<1>2. /\ DOMAIN graph.value \subseteq nodes /\ graph.edges \ calls \subseteq said
      /\ \A e \in graph.edges \ calls : e[2] \in DOMAIN graph.value /\ e[3] \in DOMAIN graph.value
      /\ \A e \in calls : Service(e[3][1]) \in DOMAIN graph.value /\ Service(e[3][2]) \in DOMAIN graph.value
  BY DEF NothingInvented
<1>3. SetBy(f, k) \subseteq nodes /\ DrawnBy(f, k) \subseteq said
  BY FactsAre
<1>4. \A e \in DrawnBy(f, k) : e[1] # "CALLS" /\ e[2] \in SetBy(f, k)
  BY DrawsHang
<1>5. after = calls
  BY <1>1, <1>4
<1>6. DOMAIN graph'.value \subseteq nodes /\ graph'.edges \ after \subseteq said
  BY <1>1, <1>2, <1>3, <1>5
<1>7. ASSUME NEW e \in graph'.edges \ after
      PROVE  e[2] \in DOMAIN graph'.value /\ e[3] \in DOMAIN graph'.value
  <2>1. CASE e \in graph.edges
    BY <1>1, <1>2, <1>5, <2>1
  <2>2. CASE e \in DrawnBy(f, k) /\ e[3] \in DOMAIN graph.value
    BY <1>1, <1>4, <2>2
  <2>. QED  BY <1>1, <2>1, <2>2
<1>8. ASSUME NEW e \in after
      PROVE  Service(e[3][1]) \in DOMAIN graph'.value /\ Service(e[3][2]) \in DOMAIN graph'.value
  BY <1>1, <1>2, <1>5
<1>. QED  BY <1>6, <1>7, <1>8 DEF NothingInvented

LEMMA InventedReads ==
  ASSUME NothingInvented, UNCHANGED graph, read \subseteq read'
  PROVE  NothingInvented'
BY DEF NothingInvented

-----------------------------------------------------------------------------
(***************************************************************************)
(* The steps of a process change nothing but its own record, and the       *)
(* history in the others'.                                                 *)
(***************************************************************************)
LEMMA IdleIs ==
  ASSUME NEW v
  PROVE  /\ IsLoader(Idle(v)) /\ Idle(v).command = "none" /\ Idle(v).at = 0 /\ Idle(v).verdict = v
BY DEF IsLoader, Idle

LoaderOK(r, facts) ==
  /\ r.command \in {"none", "load", "check"}
  /\ r.at \in 0 .. NumStatements
  /\ r.command # "none" => r.facts \in facts /\ r.at \in 1 .. NumStatements
  /\ r.verdict \in {"none", "failed", "idempotent", "not idempotent"}

LEMMA TypeIs ==
  TypeOK <=> /\ files \in AllFiles /\ finished \subseteq read /\ read \subseteq Knowledge
             /\ \A l \in Loaders : LoaderOK(loader[l], read)
             /\ operations \in 0 .. MaxOperations
BY DEF TypeOK, LoaderOK, Busy

LEMMA Places == 0 \in 0 .. NumStatements /\ 1 \in 0 .. NumStatements /\ 1 \in 1 .. NumStatements
BY DEF NumStatements

LEMMA IdleOK ==
  ASSUME NEW v \in {"none", "failed", "idempotent", "not idempotent"}, NEW facts
  PROVE  LoaderOK(Idle(v), facts)
BY Places, IdleIs DEF LoaderOK

(***************************************************************************)
(* A record that keeps its command, its facts, its place and its verdict.  *)
(***************************************************************************)
SameWork(r, s) ==
  IsLoader(s) /\ s.command = r.command /\ s.facts = r.facts /\ s.at = r.at /\ s.verdict = r.verdict

LEMMA AloneKeeps ==
  ASSUME NEW r, IsLoader(r)
  PROVE  SameWork(r, [r EXCEPT !.alone = FALSE]) /\ [r EXCEPT !.alone = FALSE].phase = r.phase
BY DEF SameWork, IsLoader

(***************************************************************************)
(* Every process but those is where it was.                                *)
(***************************************************************************)
AllBut(moved) ==
  /\ DOMAIN loader' = Loaders
  /\ \A k \in Loaders \ moved : SameWork(loader[k], loader'[k]) /\ loader'[k].phase = loader[k].phase

LEMMA OthersKept ==
  ASSUME Shape, NEW l \in Loaders, NEW r, loader' = [loader EXCEPT ![l] = r]
  PROVE  AllBut({l}) /\ loader'[l] = r
<1>1. /\ DOMAIN loader' = Loaders /\ loader'[l] = r
      /\ \A k \in Loaders \ {l} : loader'[k] = loader[k]
  BY DEF Shape
<1>. QED  BY <1>1 DEF AllBut, SameWork, Shape

LEMMA NobodyMoved ==
  ASSUME Shape, UNCHANGED loader
  PROVE  AllBut({})
BY DEF AllBut, SameWork, Shape

(***************************************************************************)
(* A step that grows the graph, if it touches it at all, and moves some of *)
(* the processes.                                                          *)
(***************************************************************************)
Moved(r) ==
  /\ IsLoader(r) /\ LoaderOK(r, read')
  /\ r.command # "none" /\ r.phase = "statements" =>
       \A k \in 1 .. NumStatements : k < r.at =>
         SetBy(r.facts, k) \subseteq DOMAIN graph'.value /\ DrawnBy(r.facts, k) \subseteq graph'.edges
  /\ r.command # "none" /\ r.phase \in {"nodes before", "edges before"} => r.at = 1

LEMMA LoaderStep ==
  ASSUME Inv, NEW moved, AllBut(moved), \A l \in moved : Moved(loader'[l]),
         Grows, graph' = [value |-> graph'.value, edges |-> graph'.edges],
         read \subseteq read', read' \subseteq Knowledge, finished' \subseteq read',
         LoadCovers', NothingInvented', files' \in AllFiles, operations' \in 0 .. MaxOperations
  PROVE  Inv'
<1>1. ASSUME NEW k \in Loaders PROVE LoaderOK(loader'[k], read') /\ IsLoader(loader'[k])
  <2>1. CASE k \in moved
    BY <2>1 DEF Moved
  <2>2. CASE k \notin moved
    <3>1. LoaderOK(loader[k], read)
      BY TypeIs DEF Inv
    <3>. QED  BY <2>2, <3>1 DEF AllBut, SameWork, LoaderOK
  <2>. QED  BY <2>1, <2>2
<1>2. TypeOK'
  BY <1>1 DEF TypeOK, LoaderOK, Busy
<1>3. Shape'
  BY <1>1 DEF Shape, AllBut
<1>4. ASSUME NEW k \in Loaders, loader'[k].command # "none", loader'[k].phase = "statements",
             NEW j \in 1 .. NumStatements, j < loader'[k].at
      PROVE  SetBy(loader'[k].facts, j) \subseteq DOMAIN graph'.value
               /\ DrawnBy(loader'[k].facts, j) \subseteq graph'.edges
  <2>1. CASE k \in moved
    BY <1>4, <2>1 DEF Moved
  <2>2. CASE k \notin moved
    <3>1. At(k, "statements") /\ j < loader[k].at /\ loader'[k].facts = loader[k].facts
      BY <1>4, <2>2 DEF AllBut, SameWork, At, Busy
    <3>2. Covered(loader[k].facts, j)
      BY <3>1 DEF Inv, Underway
    <3>. QED  BY <3>1, <3>2, CoveredGrows
  <2>. QED  BY <2>1, <2>2
<1>5. ASSUME NEW k \in Loaders, loader'[k].command # "none",
             loader'[k].phase \in {"nodes before", "edges before"}
      PROVE  loader'[k].at = 1
  <2>1. CASE k \in moved
    BY <1>5, <2>1 DEF Moved
  <2>2. CASE k \notin moved
    BY <1>5, <2>2 DEF AllBut, SameWork, Inv, Underway, At, Busy
  <2>. QED  BY <2>1, <2>2
<1>6. Underway'
  BY <1>4, <1>5 DEF Underway, At, Busy, Covered, SetBy, DrawnBy
<1>. QED  BY <1>2, <1>3, <1>6 DEF Inv

LEMMA GraphKept == UNCHANGED graph => Grows
BY DEF Grows

LEMMA IdleMoved ==
  ASSUME NEW v \in {"none", "failed", "idempotent", "not idempotent"}
  PROVE  Moved(Idle(v))
BY IdleOK, IdleIs DEF Moved

(***************************************************************************)
(* A step that leaves the graph and the facts alone and moves one process. *)
(***************************************************************************)
LEMMA QuietMove ==
  ASSUME Inv, NEW moved, AllBut(moved), \A l \in moved : Moved(loader'[l]),
         UNCHANGED <<graph, read, finished>>, files' \in AllFiles, operations' \in 0 .. MaxOperations
  PROVE  Inv'
<1>1. /\ Grows /\ graph' = [value |-> graph'.value, edges |-> graph'.edges]
      /\ read' \subseteq Knowledge /\ finished' \subseteq read'
  BY GraphKept DEF Inv, Shape, TypeOK
<1>2. LoadCovers' /\ NothingInvented'
  BY <1>1, CoversGrows, InventedReads DEF Inv
<1>. QED  BY <1>1, <1>2, LoaderStep

LEMMA QuietStep ==
  ASSUME Inv, NEW l \in Loaders, NEW r, loader' = [loader EXCEPT ![l] = r], Moved(r),
         UNCHANGED <<files, graph, read, finished>>, operations' \in 0 .. MaxOperations
  PROVE  Inv'
<1>1. AllBut({l}) /\ loader'[l] = r
  BY OthersKept DEF Inv
<1>2. files' \in AllFiles
  BY DEF Inv, TypeOK
<1>. QED  BY <1>1, <1>2, QuietMove

-----------------------------------------------------------------------------
LEMMA AnotherCounts ==
  ASSUME TypeOK, Another
  PROVE  operations' \in 0 .. MaxOperations
<1>1. operations \in 0 .. MaxOperations /\ operations < MaxOperations /\ operations' = operations + 1
  BY DEF TypeOK, Another
<1>. QED  BY <1>1, KnowledgeGraphAssumption

LEMMA StartStep ==
  ASSUME Inv, NEW l \in Loaders, NEW command \in {"load", "check"}, Start(l, command)
  PROVE  Inv'
<1>1. operations' \in 0 .. MaxOperations /\ UNCHANGED <<files, graph, finished>>
  BY AnotherCounts DEF Inv, Start
<1>2. CASE files \notin Knowledge
  <2>1. loader' = [loader EXCEPT ![l] = Idle("failed")] /\ UNCHANGED read
    BY <1>2 DEF Start
  <2>. QED  BY <1>1, <2>1, IdleMoved, QuietStep
<1>3. CASE files \in Knowledge
  <2>. DEFINE phase == IF command = "check" THEN "nodes before" ELSE "statements"
              alone == \A other \in Loaders : ~Busy(other)
              r == [command |-> command, facts |-> files, phase |-> phase, at |-> 1,
                    before |-> graph, same |-> FALSE, alone |-> alone, verdict |-> "none"]
  <2>1. /\ read' = read \cup {files}
        /\ loader' = [k \in Loaders |-> IF k # l THEN [loader[k] EXCEPT !.alone = FALSE] ELSE r]
    BY <1>3 DEF Start
  <2>2. /\ r.command = command /\ r.facts = files /\ r.at = 1 /\ r.verdict = "none" /\ IsLoader(r)
    BY DEF IsLoader
  <2>. HIDE DEF r
  <2>3. LoaderOK(r, read')
    BY <2>1, <2>2, Places DEF LoaderOK
  <2>4. Moved(r)
    <3>1. \A k \in 1 .. NumStatements : ~(k < 1)
      BY DEF NumStatements
    <3>. QED  BY <2>2, <2>3, <3>1 DEF Moved
  <2>5. AllBut({l}) /\ loader'[l] = r
    <3>1. \A k \in Loaders \ {l} : loader'[k] = [loader[k] EXCEPT !.alone = FALSE]
      BY <2>1
    <3>2. ASSUME NEW k \in Loaders \ {l}
          PROVE  SameWork(loader[k], loader'[k]) /\ loader'[k].phase = loader[k].phase
      <4>1. IsLoader(loader[k])
        BY DEF Inv, Shape
      <4>. QED  BY <3>1, <4>1, AloneKeeps, Zenon
    <3>3. DOMAIN loader' = Loaders /\ loader'[l] = r
      BY <2>1
    <3>. QED  BY <3>2, <3>3 DEF AllBut
  <2>6. /\ Grows /\ graph' = [value |-> graph'.value, edges |-> graph'.edges] /\ files' \in AllFiles
        /\ read \subseteq read' /\ read' \subseteq Knowledge /\ finished' \subseteq read'
    BY <1>1, <1>3, <2>1, GraphKept DEF Inv, Shape, TypeOK
  <2>7. LoadCovers' /\ NothingInvented'
    BY <1>1, <2>6, CoversGrows, InventedReads DEF Inv
  <2>. QED  BY <1>1, <2>4, <2>5, <2>6, <2>7, LoaderStep
<1>. QED  BY <1>2, <1>3

LEMMA EndStep ==
  ASSUME Inv, NEW l \in Loaders, Conclude(l) \/ Fail(l)
  PROVE  Inv'
<1>1. PICK v \in {"none", "failed", "idempotent", "not idempotent"} : loader' = [loader EXCEPT ![l] = Idle(v)]
  <2>1. CASE Fail(l)
    BY <2>1 DEF Fail
  <2>2. CASE Conclude(l)
    <3>. DEFINE good == loader[l].same /\ loader[l].before.edges = graph.edges
    <3>1. loader' = [loader EXCEPT ![l] = Idle(IF good THEN "idempotent" ELSE "not idempotent")]
      BY <2>2 DEF Conclude
    <3>. HIDE DEF good
    <3>2. CASE good
      BY <3>1, <3>2
    <3>3. CASE ~good
      BY <3>1, <3>3
    <3>. QED  BY <3>2, <3>3
  <2>. QED  BY <2>1, <2>2
<1>2. UNCHANGED <<files, graph, operations, read, finished>>
  BY DEF Conclude, Fail
<1>3. operations' \in 0 .. MaxOperations
  BY <1>2 DEF Inv, TypeOK
<1>. QED  BY <1>1, <1>2, <1>3, IdleMoved, QuietStep

(***************************************************************************)
(* A query of a fingerprint moves a check on and nothing else.             *)
(***************************************************************************)
LEMMA FingerprintStep ==
  ASSUME Inv, NEW l \in Loaders, Fingerprint(l)
  PROVE  Inv'
<1>1. /\ DOMAIN loader = Loaders /\ Busy(l) /\ LoaderOK(loader[l], read)
      /\ \A k \in Loaders : IsLoader(loader[k])
  BY TypeIs DEF Inv, Shape, Fingerprint, At
<1>2. /\ UNCHANGED <<graph, read, finished>> /\ files' \in AllFiles /\ operations' \in 0 .. MaxOperations
  BY DEF Inv, TypeOK, Fingerprint
<1>3. /\ AllBut({l}) /\ SameWork(loader[l], loader'[l])
      /\ \/ loader[l].phase = "nodes before" /\ loader'[l].phase = "edges before"
         \/ loader[l].phase = "edges before" /\ loader'[l].phase = "statements"
         \/ loader'[l].phase = "edges after"
  <2>1. CASE /\ At(l, "nodes before")
             /\ loader' = [loader EXCEPT ![l].before.value = graph.value, ![l].phase = "edges before"]
    BY <1>1, <2>1 DEF AllBut, SameWork, IsLoader, At
  <2>2. CASE /\ At(l, "edges before")
             /\ loader' = [loader EXCEPT ![l].before.edges = graph.edges, ![l].phase = "statements"]
    BY <1>1, <2>2 DEF AllBut, SameWork, IsLoader, At
  <2>3. CASE /\ At(l, "nodes after")
             /\ loader' = [loader EXCEPT ![l].same = loader[l].before.value = graph.value,
                                         ![l].phase = "edges after"]
    <3>1. PICK x : loader' = [loader EXCEPT ![l].same = x, ![l].phase = "edges after"]
      BY <2>3, Zenon
    <3>. QED  BY <1>1, <3>1 DEF AllBut, SameWork, IsLoader
  <2>. QED  BY <2>1, <2>2, <2>3 DEF Fingerprint
<1>4. IsLoader(loader'[l]) /\ LoaderOK(loader'[l], read')
  BY <1>1, <1>2, <1>3 DEF SameWork, LoaderOK
<1>5. loader[l].phase \in {"nodes before", "edges before"} => loader[l].at = 1
  BY <1>1 DEF Inv, Underway, At
<1>6. \A k \in 1 .. NumStatements : ~(k < 1)
  BY DEF NumStatements
<1>7. Moved(loader'[l])
  BY <1>3, <1>4, <1>5, <1>6 DEF Moved, SameWork
<1>. QED  BY <1>2, <1>3, <1>7, QuietMove

(***************************************************************************)
(* One statement of a load; with the ninth all of its facts are covered.   *)
(***************************************************************************)
LEMMA ExecuteStep ==
  ASSUME Inv, NEW l \in Loaders, Execute(l)
  PROVE  Inv'
<1>. DEFINE f == loader[l].facts
            k == loader[l].at
<1>1. /\ DOMAIN loader = Loaders /\ IsLoader(loader[l]) /\ LoaderOK(loader[l], read)
      /\ At(l, "statements") /\ Busy(l)
  BY TypeIs DEF Inv, Shape, Execute, At
<1>2. /\ f \in read /\ f \in Knowledge /\ k \in 1 .. NumStatements
      /\ graph' = Merge(graph, Statements(f)[k]) /\ UNCHANGED <<files, operations, read>>
  BY <1>1 DEF Inv, TypeOK, Execute, LoaderOK, Busy
<1>3. \A j \in 1 .. NumStatements : j < k => Covered(f, j)
  BY <1>1 DEF Inv, Underway
<1>. HIDE DEF f, k
<1>4. /\ Grows
      /\ \A j \in 1 .. NumStatements : j <= k =>
           SetBy(f, j) \subseteq DOMAIN graph'.value /\ DrawnBy(f, j) \subseteq graph'.edges
  BY <1>2, <1>3, MergeCovers
<1>5. NothingInvented' /\ graph' = [value |-> graph'.value, edges |-> graph'.edges]
  BY <1>2, MergeInventsNothing, MergeIs DEF Inv
<1>6. CASE k < NumStatements
  <2>1. loader' = [loader EXCEPT ![l].at = k + 1] /\ UNCHANGED finished
    BY <1>6 DEF Execute, k
  <2>2. /\ AllBut({l}) /\ IsLoader(loader'[l]) /\ loader'[l].at = k + 1
        /\ loader'[l].command = loader[l].command /\ loader'[l].facts = f
        /\ loader'[l].phase = "statements" /\ loader'[l].verdict = loader[l].verdict
    BY <1>1, <2>1 DEF AllBut, SameWork, IsLoader, At, f, Inv, Shape
  <2>3. k + 1 \in 1 .. NumStatements /\ k + 1 \in 0 .. NumStatements
    BY <1>2, <1>6 DEF NumStatements
  <2>4. LoaderOK(loader'[l], read')
    BY <1>1, <1>2, <2>2, <2>3 DEF LoaderOK
  <2>5. \A j \in 1 .. NumStatements : j < k + 1 => j <= k
    BY <1>2 DEF NumStatements
  <2>6. Moved(loader'[l])
    BY <1>4, <2>2, <2>4, <2>5 DEF Moved
  <2>7. LoadCovers'
    BY <1>4, <2>1, CoversGrows DEF Inv
  <2>8. read' \subseteq Knowledge /\ finished' \subseteq read' /\ files' \in AllFiles
        /\ operations' \in 0 .. MaxOperations
    BY <1>2, <2>1 DEF Inv, TypeOK
  <2>. QED  BY <1>2, <1>4, <1>5, <2>2, <2>6, <2>7, <2>8, LoaderStep
<1>7. CASE ~(k < NumStatements)
  <2>1. /\ loader' = [loader EXCEPT ![l] = IF loader[l].command = "check"
                                            THEN [loader[l] EXCEPT !.phase = "nodes after"] ELSE Idle("none")]
        /\ finished' = finished \cup {f}
    BY <1>7 DEF Execute, k, f
  <2>2. k = NumStatements
    BY <1>2, <1>7 DEF NumStatements
  <2>3. Moved(loader'[l]) /\ AllBut({l})
    <3>1. CASE loader[l].command = "check"
      <4>1. loader' = [loader EXCEPT ![l] = [loader[l] EXCEPT !.phase = "nodes after"]]
        BY <2>1, <3>1
      <4>2. /\ AllBut({l}) /\ SameWork(loader[l], loader'[l]) /\ loader'[l].phase = "nodes after"
        BY <1>1, <4>1 DEF AllBut, SameWork, IsLoader, Inv, Shape
      <4>3. LoaderOK(loader'[l], read') /\ IsLoader(loader'[l])
        BY <1>1, <1>2, <4>2 DEF LoaderOK, SameWork
      <4>. QED  BY <4>2, <4>3 DEF Moved
    <3>2. CASE loader[l].command # "check"
      <4>1. loader' = [loader EXCEPT ![l] = Idle("none")]
        BY <2>1, <3>2
      <4>2. AllBut({l}) /\ loader'[l] = Idle("none")
        BY <4>1, OthersKept DEF Inv
      <4>. QED  BY <4>2, IdleMoved
    <3>. QED  BY <3>1, <3>2
  <2>4. FactNodes(f) \subseteq DOMAIN graph'.value /\ FactEdges(f) \subseteq graph'.edges
    <3>1. \A j \in 1 .. NumStatements : j <= NumStatements
      BY DEF NumStatements
    <3>. QED  BY <1>4, <2>2, <3>1, FactsAre
  <2>5. LoadCovers'
    BY <1>4, <2>1, <2>4 DEF Inv, LoadCovers, Grows
  <2>6. read' \subseteq Knowledge /\ finished' \subseteq read' /\ files' \in AllFiles
        /\ operations' \in 0 .. MaxOperations
    BY <1>2, <2>1 DEF Inv, TypeOK
  <2>. QED  BY <1>2, <1>4, <1>5, <2>3, <2>5, <2>6, LoaderStep
<1>. QED  BY <1>6, <1>7

(***************************************************************************)
(* Calls are written between services the graph knows, so none hangs.      *)
(***************************************************************************)
LEMMA LoadCallsStep ==
  ASSUME Inv, NEW window \in Windows, NEW calls \in CallTables, LoadCalls(window, calls)
  PROVE  Inv'
<1>1. /\ operations' \in 0 .. MaxOperations /\ UNCHANGED <<files, read, finished>>
      /\ files' \in AllFiles /\ read' \subseteq Knowledge /\ finished' \subseteq read'
  BY AnotherCounts DEF Inv, TypeOK, LoadCalls
<1>. DEFINE new == {<<"CALLS", window, c>> : c \in Known(graph, calls)}
<1>2. /\ graph' = [value |-> graph'.value, edges |-> graph'.edges]
      /\ graph'.value = graph.value /\ graph'.edges = graph.edges \cup new
  <2>1. graph = [value |-> graph.value, edges |-> graph.edges]
    BY DEF Inv, Shape
  <2>2. graph' = [graph EXCEPT !.edges = graph.edges \cup new]
    BY DEF LoadCalls, MergeCalls
  <2>. HIDE DEF new
  <2>. QED  BY <2>1, <2>2
<1>3. /\ Grows
      /\ \A e \in new : /\ e[1] = "CALLS" /\ Service(e[3][1]) \in DOMAIN graph.value
                        /\ Service(e[3][2]) \in DOMAIN graph.value
  BY <1>2 DEF Grows, Known
<1>. HIDE DEF new
<1>4. AllBut({})
  <2>1. DOMAIN loader' = Loaders /\ \A k \in Loaders : loader'[k] = [loader[k] EXCEPT !.alone = FALSE]
    BY DEF LoadCalls, Disturb
  <2>2. ASSUME NEW k \in Loaders
        PROVE  SameWork(loader[k], loader'[k]) /\ loader'[k].phase = loader[k].phase
    <3>1. IsLoader(loader[k])
      BY DEF Inv, Shape
    <3>2. loader'[k] = [loader[k] EXCEPT !.alone = FALSE]
      BY <2>1
    <3>3. /\ SameWork(loader[k], [loader[k] EXCEPT !.alone = FALSE])
          /\ [loader[k] EXCEPT !.alone = FALSE].phase = loader[k].phase
      BY <3>1, AloneKeeps
    <3>. QED  BY <3>2, <3>3
  <2>. QED  BY <2>1, <2>2 DEF AllBut
<1>5. LoadCovers'
  BY <1>1, <1>3, CoversGrows DEF Inv
<1>6. NothingInvented'
  <2>. DEFINE old   == {e \in graph.edges : e[1] = "CALLS"}
              after == {e \in graph'.edges : e[1] = "CALLS"}
  <2>1. after = old \cup new /\ graph'.edges \ after = graph.edges \ old
    BY <1>2, <1>3
  <2>2. /\ DOMAIN graph.value \subseteq UNION {FactNodes(g) : g \in read}
        /\ graph.edges \ old \subseteq UNION {FactEdges(g) : g \in read}
        /\ \A e \in graph.edges \ old : e[2] \in DOMAIN graph.value /\ e[3] \in DOMAIN graph.value
        /\ \A e \in old : Service(e[3][1]) \in DOMAIN graph.value /\ Service(e[3][2]) \in DOMAIN graph.value
    BY DEF Inv, NothingInvented
  <2>3. \A e \in after : Service(e[3][1]) \in DOMAIN graph.value /\ Service(e[3][2]) \in DOMAIN graph.value
    BY <1>3, <2>1, <2>2
  <2>. QED  BY <1>1, <1>2, <2>1, <2>2, <2>3 DEF NothingInvented
<1>. QED  BY <1>1, <1>2, <1>3, <1>4, <1>5, <1>6, LoaderStep

LEMMA EditStep ==
  ASSUME Inv, NEW file \in DOMAIN Contents, NEW content \in Contents[file], Edit(file, content)
  PROVE  Inv'
<1>1. operations' \in 0 .. MaxOperations /\ UNCHANGED <<graph, loader, read, finished>>
  BY AnotherCounts DEF Inv, Edit
<1>2. files' \in AllFiles
  <2>1. files \in AllFiles /\ files' = [files EXCEPT ![file] = content]
    BY DEF Inv, TypeOK, Edit
  <2>2. /\ DOMAIN Contents = {"services", "teams", "runbooks", "remediations"}
        /\ Contents.services = ServicesFiles /\ Contents.teams = TeamsFiles
        /\ Contents.runbooks = RunbooksFiles /\ Contents.remediations = RemediationsFiles
    BY DEF Contents
  <2>3. CASE file = "services"
    BY <2>1, <2>2, <2>3 DEF AllFiles
  <2>4. CASE file = "teams"
    BY <2>1, <2>2, <2>4 DEF AllFiles
  <2>5. CASE file = "runbooks"
    BY <2>1, <2>2, <2>5 DEF AllFiles
  <2>6. CASE file = "remediations"
    BY <2>1, <2>2, <2>6 DEF AllFiles
  <2>. QED  BY <2>2, <2>3, <2>4, <2>5, <2>6
<1>3. AllBut({})
  BY <1>1, NobodyMoved DEF Inv
<1>. QED  BY <1>1, <1>2, <1>3, QuietMove

-----------------------------------------------------------------------------
LEMMA InitInv == Init => Inv
<1>. SUFFICES ASSUME Init PROVE Inv
  OBVIOUS
<1>1. /\ files \in FirstFiles /\ graph = NoGraph /\ operations = 0
      /\ loader = [l \in Loaders |-> Idle("none")] /\ finished = {} /\ read = {}
  BY DEF Init
<1>2. files \in AllFiles
  BY <1>1, KnowledgeGraphAssumption DEF Knowledge
<1>3. \A l \in Loaders : loader[l] = Idle("none")
  BY <1>1
<1>4. \A l \in Loaders : LoaderOK(loader[l], read) /\ IsLoader(loader[l]) /\ ~Busy(l)
  BY <1>3, IdleOK, IdleIs DEF Busy
<1>5. 0 \in 0 .. MaxOperations
  BY KnowledgeGraphAssumption
<1>6. TypeOK
  BY <1>1, <1>2, <1>4, <1>5, TypeIs
<1>7. /\ graph = [value |-> graph.value, edges |-> graph.edges]
      /\ DOMAIN graph.value = {} /\ graph.edges = {}
  BY <1>1 DEF NoGraph
<1>8. Shape /\ Underway
  BY <1>1, <1>4, <1>7 DEF Shape, Underway, At
<1>9. LoadCovers /\ NothingInvented
  BY <1>1, <1>7 DEF LoadCovers, NothingInvented
<1>. QED  BY <1>6, <1>8, <1>9 DEF Inv

LEMMA StutterInv == Inv /\ UNCHANGED vars => Inv'
<1>. SUFFICES ASSUME Inv, UNCHANGED vars PROVE Inv'
  OBVIOUS
<1>1. /\ UNCHANGED <<graph, loader, read, finished>> /\ files' \in AllFiles
      /\ operations' \in 0 .. MaxOperations
  BY DEF vars, Inv, TypeOK
<1>2. AllBut({})
  BY <1>1, NobodyMoved DEF Inv
<1>. QED  BY <1>1, <1>2, QuietMove

LEMMA InvStep == Inv /\ [Next]_vars => Inv'
<1>. SUFFICES ASSUME Inv, [Next]_vars PROVE Inv'
  OBVIOUS
<1>1. ASSUME NEW l \in Loaders, NEW command \in {"load", "check"}, Start(l, command) PROVE Inv'
  BY <1>1, StartStep
<1>2. ASSUME NEW l \in Loaders, Fingerprint(l) PROVE Inv'
  BY <1>2, FingerprintStep
<1>3. ASSUME NEW l \in Loaders, Execute(l) PROVE Inv'
  BY <1>3, ExecuteStep
<1>4. ASSUME NEW l \in Loaders, Conclude(l) \/ Fail(l) PROVE Inv'
  BY <1>4, EndStep
<1>5. ASSUME NEW window \in Windows, NEW calls \in CallTables, LoadCalls(window, calls) PROVE Inv'
  BY <1>5, LoadCallsStep
<1>6. ASSUME NEW file \in DOMAIN Contents, NEW content \in Contents[file], Edit(file, content) PROVE Inv'
  BY <1>6, EditStep
<1>. QED  BY <1>1, <1>2, <1>3, <1>4, <1>5, <1>6, StutterInv DEF Next

LEMMA InvHolds == Spec => []Inv
BY InitInv, InvStep, PTL DEF Spec

(***************************************************************************)
(* Only files that were read and found valid are loaded, and a loader is   *)
(* always at one of the nine statements (graph/knowledge.py, load.py).     *)
(***************************************************************************)
THEOREM TypeCorrect == Spec => []TypeOK
<1>1. Inv => TypeOK
  BY DEF Inv
<1>. QED  BY <1>1, InvHolds, PTL

(***************************************************************************)
(* A load that ended left nothing of its facts out, and nothing later      *)
(* takes it away: "a MATCH always finds what it needs" (load.py), for any  *)
(* files the validation accepts and any interleaving of loads.             *)
(***************************************************************************)
THEOREM LoadsAreComplete == Spec => []LoadCovers
<1>1. Inv => LoadCovers
  BY DEF Inv
<1>. QED  BY <1>1, InvHolds, PTL

(***************************************************************************)
(* Every node and edge of the graph was said by valid files or by a call   *)
(* between known services, and no edge hangs (load.py).                    *)
(***************************************************************************)
THEOREM GraphIsSaid == Spec => []NothingInvented
<1>1. Inv => NothingInvented
  BY DEF Inv
<1>. QED  BY <1>1, InvHolds, PTL

(***************************************************************************)
(* After a load every service of its files has an owner, and every owner   *)
(* is one that some valid files named: two owners come only of files that  *)
(* were edited or that disagree (load.py, knowledge.py, queries.py).       *)
(***************************************************************************)
THEOREM OwnersAreNamed == Spec => []OwnersComeFromTheFiles
<1>1. ASSUME Inv, NEW f \in finished, NEW s \in DOMAIN f.services
      PROVE  f.services[s].owner \in OwnersOf(graph, s)
  <2>. DEFINE e == <<"OWNS", Service(s), Node("Team", f.services[s].owner)>>
  <2>1. Statements(f)[2].draws
          = {<<"OWNS", Service(x), Node("Team", f.services[x].owner)>> : x \in DOMAIN f.services}
    BY DEF Statements
  <2>2. e \in DrawnBy(f, 2)
    BY <2>1 DEF DrawnBy
  <2>3. 2 \in 1 .. NumStatements
    BY DEF NumStatements
  <2>4. e \in graph.edges
    BY <1>1, <2>2, <2>3, FactsAre DEF Inv, LoadCovers
  <2>5. e[1] = "OWNS" /\ e[2] = Service(s) /\ e[3][2] = f.services[s].owner
    BY DEF Node
  <2>. HIDE DEF e
  <2>. QED  BY <2>4, <2>5 DEF OwnersOf
<1>2. ASSUME Inv, NEW s, NEW t \in OwnersOf(graph, s)
      PROVE  \E g \in read : s \in DOMAIN g.services /\ g.services[s].owner = t
  <2>1. PICK e \in graph.edges : e[1] = "OWNS" /\ e[2] = Service(s) /\ t = e[3][2]
    BY <1>2 DEF OwnersOf
  <2>2. PICK g \in read : e \in FactEdges(g)
    BY <1>2, <2>1 DEF Inv, NothingInvented
  <2>3. PICK k \in 1 .. NumStatements : e \in DrawnBy(g, k)
    BY <2>2, FactsAre
  <2>4. g \in Knowledge
    BY <1>2 DEF Inv, TypeOK
  <2>5. PICK x \in DOMAIN g.services : e = <<"OWNS", Service(x), Node("Team", g.services[x].owner)>>
    BY <2>1, <2>3, <2>4, DrawsHang
  <2>6. Service(x) = Service(s) /\ t = g.services[x].owner
    BY <2>1, <2>5 DEF Node
  <2>7. x = s
    BY <2>6 DEF Service, Node
  <2>. QED  BY <2>6, <2>7
<1>3. Inv => OwnersComeFromTheFiles
  BY <1>1, <1>2 DEF OwnersComeFromTheFiles
<1>. QED  BY <1>3, InvHolds, PTL

-----------------------------------------------------------------------------
(***************************************************************************)
(* The call edges are those that were written, window by window.           *)
(***************************************************************************)
Written ==
  /\ {e \in graph.edges : e[1] = "CALLS"} = {<<"CALLS", a[1], a[2]>> : a \in asked}
  /\ \A a \in asked : a = <<a[1], a[2]>>

LEMMA WrittenStep == Inv /\ Written /\ [Next]_vars => Written'
<1>. SUFFICES ASSUME Inv, Written, [Next]_vars PROVE Written'
  OBVIOUS
<1>1. ASSUME UNCHANGED <<graph, asked>> PROVE Written'
  BY <1>1 DEF Written
<1>2. ASSUME NEW l \in Loaders, Execute(l) PROVE Written'
  <2>1. /\ loader[l].facts \in Knowledge /\ loader[l].at \in 1 .. NumStatements
        /\ graph' = Merge(graph, Statements(loader[l].facts)[loader[l].at]) /\ UNCHANGED asked
    BY <1>2 DEF Execute, At, Inv, TypeOK
  <2>2. \A e \in DrawnBy(loader[l].facts, loader[l].at) : e[1] # "CALLS"
    BY <2>1, DrawsHang
  <2>3. {e \in graph'.edges : e[1] = "CALLS"} = {e \in graph.edges : e[1] = "CALLS"}
    BY <2>1, <2>2, MergeIs
  <2>. QED  BY <2>1, <2>3 DEF Written
<1>3. ASSUME NEW window \in Windows, NEW calls \in CallTables, LoadCalls(window, calls) PROVE Written'
  <2>. DEFINE K == Known(graph, calls)
  <2>1. graph'.edges = graph.edges \cup {<<"CALLS", window, c>> : c \in K}
    BY <1>3 DEF LoadCalls, MergeCalls, Inv, Shape
  <2>2. asked' = asked \cup {<<window, c>> : c \in K}
    BY <1>3 DEF LoadCalls
  <2>. HIDE DEF K
  <2>3. {e \in graph'.edges : e[1] = "CALLS"}
          = {e \in graph.edges : e[1] = "CALLS"} \cup {<<"CALLS", window, c>> : c \in K}
    BY <2>1
  <2>4. {<<"CALLS", a[1], a[2]>> : a \in asked'}
          = {<<"CALLS", a[1], a[2]>> : a \in asked} \cup {<<"CALLS", window, c>> : c \in K}
    <3>. DEFINE L == {<<"CALLS", a[1], a[2]>> : a \in asked'}
                R == {<<"CALLS", a[1], a[2]>> : a \in asked} \cup {<<"CALLS", window, c>> : c \in K}
    <3>1. ASSUME NEW x \in L PROVE x \in R
      <4>1. PICK a \in asked' : x = <<"CALLS", a[1], a[2]>>
        OBVIOUS
      <4>2. CASE a \in asked
        BY <4>1, <4>2
      <4>3. CASE \E c \in K : a = <<window, c>>
        BY <4>1, <4>3
      <4>. QED  BY <2>2, <4>2, <4>3
    <3>2. ASSUME NEW x \in R PROVE x \in L
      <4>1. CASE x \in {<<"CALLS", a[1], a[2]>> : a \in asked}
        BY <2>2, <4>1
      <4>2. ASSUME NEW c \in K, x = <<"CALLS", window, c>> PROVE x \in L
        <5>1. <<window, c>> \in asked' /\ <<window, c>>[1] = window /\ <<window, c>>[2] = c
          BY <2>2
        <5>. QED  BY <4>2, <5>1
      <4>. QED  BY <4>1, <4>2
    <3>. QED  BY <3>1, <3>2
  <2>5. \A a \in asked' : a = <<a[1], a[2]>>
    BY <2>2 DEF Written
  <2>. QED  BY <2>3, <2>4, <2>5 DEF Written
<1>. QED
  BY <1>1, <1>2, <1>3 DEF Next, vars, Start, Fingerprint, Conclude, Fail, Edit

(***************************************************************************)
(* What is read back for a window is what was written for it, whatever     *)
(* loads, edits and other windows came between (load_call_edges,           *)
(* fetch_call_edges).                                                      *)
(***************************************************************************)
THEOREM CallsStayInTheirWindow == Spec => []CallsKeepTheirWindow
<1>1. Init => Written
  <2>. SUFFICES ASSUME Init PROVE Written
    OBVIOUS
  <2>1. graph.edges = {} /\ asked = {}
    BY DEF Init, NoGraph
  <2>. QED  BY <2>1 DEF Written
<1>2. Written => CallsKeepTheirWindow
  <2>. SUFFICES ASSUME Written, NEW window
                PROVE  FetchCalls(graph, window) = {a[2] : a \in {b \in asked : b[1] = window}}
    BY DEF CallsKeepTheirWindow
  <2>1. ASSUME NEW c \in FetchCalls(graph, window)
        PROVE  \E a \in asked : a[1] = window /\ a[2] = c
    <3>1. PICK e \in graph.edges : e[1] = "CALLS" /\ e[2] = window /\ e[3] = c
      BY DEF FetchCalls
    <3>2. PICK a \in asked : e = <<"CALLS", a[1], a[2]>>
      BY <3>1 DEF Written
    <3>. QED  BY <3>1, <3>2
  <2>2. ASSUME NEW a \in asked, a[1] = window PROVE a[2] \in FetchCalls(graph, window)
    <3>1. <<"CALLS", a[1], a[2]>> \in graph.edges
      BY DEF Written
    <3>. QED  BY <2>2, <3>1 DEF FetchCalls
  <2>. QED  BY <2>1, <2>2
<1>. QED  BY <1>1, <1>2, WrittenStep, InvHolds, PTL DEF Spec

(***************************************************************************)
(* The graph is what files and recordings said: complete after a load, with *)
(* nothing nobody said, each service's owners and each window's calls      *)
(* (load.py).                                                              *)
(***************************************************************************)
THEOREM GraphIsFaithful == Spec => []GraphIsWhatWasSaid
<1>1. LoadCovers /\ NothingInvented /\ OwnersComeFromTheFiles /\ CallsKeepTheirWindow => GraphIsWhatWasSaid
  BY DEF GraphIsWhatWasSaid
<1>. QED  BY <1>1, LoadsAreComplete, GraphIsSaid, OwnersAreNamed, CallsStayInTheirWindow, PTL
-----------------------------------------------------------------------------
(***************************************************************************)
(* A graph with the first statements of some facts over it, each node as   *)
(* the last of them that sets it leaves it.                                *)
(***************************************************************************)
LastSetter(f, n, m) ==
  CHOOSE k \in {i \in 1 .. m : n \in SetBy(f, i)} : \A j \in {i \in 1 .. m : n \in SetBy(f, i)} : j <= k

LoadedTo(g, f, m) ==
  LET nodes == UNION {SetBy(f, k) : k \in 1 .. m} IN
    [value |-> [n \in DOMAIN g.value \cup nodes |->
                  IF n \in nodes THEN LastSet(Statements(f)[LastSetter(f, n, m)].sets, n) ELSE g.value[n]],
     edges |-> g.edges \cup UNION {DrawnBy(f, k) : k \in 1 .. m}]

IsGraph(g) == g = [value |-> [n \in DOMAIN g.value |-> g.value[n]], edges |-> g.edges]

(***************************************************************************)
(* A process nothing else wrote beside is the only one at work, and what   *)
(* it remembers of the graph it found, with what it has run over it, is    *)
(* the graph.                                                              *)
(***************************************************************************)
OnTrack(g, r) ==
  /\ IsGraph(r.before)
  /\ r.phase = "edges before" => r.before.value = g.value
  /\ r.phase = "statements" => g = LoadedTo(r.before, r.facts, r.at - 1)
  /\ r.phase \in {"nodes after", "edges after"} => g = LoadedTo(r.before, r.facts, NumStatements)
  /\ r.phase = "edges after" => (r.same <=> r.before.value = g.value)

Lone(l) == Busy(l) /\ (\A k \in Loaders \ {l} : ~Busy(k)) /\ OnTrack(graph, loader[l])

AloneInv == IsGraph(graph) /\ \A l \in Loaders : loader[l].alone => Lone(l)

LEMMA LoadedIsGraph ==
  ASSUME NEW g, NEW f, NEW m
  PROVE  IsGraph(LoadedTo(g, f, m))
BY DEF IsGraph, LoadedTo

(***************************************************************************)
(* Before the first statement nothing is loaded, and after the ninth all.  *)
(***************************************************************************)
LEMMA LoadedNothing ==
  ASSUME NEW g, IsGraph(g), NEW f
  PROVE  LoadedTo(g, f, 0) = g
<1>1. 1 .. 0 = {}
  OBVIOUS
<1>2. UNION {SetBy(f, k) : k \in 1 .. 0} = {} /\ UNION {DrawnBy(f, k) : k \in 1 .. 0} = {}
  BY <1>1
<1>3. LoadedTo(g, f, 0) = [value |-> [n \in DOMAIN g.value |-> g.value[n]], edges |-> g.edges]
  BY <1>2 DEF LoadedTo
<1>. QED  BY <1>3 DEF IsGraph

LEMMA LoadedAll ==
  ASSUME NEW g, NEW f
  PROVE  LoadedTo(g, f, NumStatements) = Loaded(g, f)
<1>1. /\ FactNodes(f) = UNION {SetBy(f, k) : k \in 1 .. NumStatements}
      /\ FactEdges(f) = UNION {DrawnBy(f, k) : k \in 1 .. NumStatements}
  BY FactsAre
<1>2. \A n : LastSet(Statements(f)[LastSetter(f, n, NumStatements)].sets, n) = FinalValue(f, n)
  BY DEF FinalValue, LastSetter, SetBy
<1>. QED  BY <1>1, <1>2 DEF LoadedTo, Loaded

(***************************************************************************)
(* A statement that runs over those before it loads itself too: none of    *)
(* its edges is passed over.                                               *)
(***************************************************************************)
LEMMA LoadedNext ==
  ASSUME NEW g, NEW f \in Knowledge, NEW k \in 1 .. NumStatements
  PROVE  Merge(LoadedTo(g, f, k - 1), Statements(f)[k]) = LoadedTo(g, f, k)
<1>. DEFINE h == LoadedTo(g, f, k - 1)
            earlier == UNION {SetBy(f, j) : j \in 1 .. k - 1}
            nodes == UNION {SetBy(f, j) : j \in 1 .. k}
<1>1. k \in Nat /\ 1 .. k = (1 .. k - 1) \cup {k} /\ k \notin 1 .. k - 1
  BY DEF NumStatements
<1>2. nodes = earlier \cup SetBy(f, k)
  BY <1>1
<1>3. DOMAIN h.value = DOMAIN g.value \cup earlier
  BY DEF LoadedTo
<1>4. h.edges = g.edges \cup UNION {DrawnBy(f, j) : j \in 1 .. k - 1}
  BY DEF LoadedTo
<1>5. \A e \in DrawnBy(f, k) : e[3] \in DOMAIN h.value
  <2>1. ASSUME NEW e \in DrawnBy(f, k) PROVE e[3] \in earlier
    <3>1. PICK j \in 1 .. NumStatements : j < k /\ e[3] \in SetBy(f, j)
      BY DrawsHang
    <3>2. j \in 1 .. k - 1
      BY <3>1 DEF NumStatements
    <3>. QED  BY <3>1, <3>2
  <2>. QED  BY <1>3, <2>1
<1>6. {e \in Statements(f)[k].draws : e[3] \in DOMAIN h.value} = DrawnBy(f, k)
  BY <1>5 DEF DrawnBy
<1>7. UNION {DrawnBy(f, j) : j \in 1 .. k} = DrawnBy(f, k) \cup UNION {DrawnBy(f, j) : j \in 1 .. k - 1}
  BY <1>1
<1>8. ASSUME NEW n \in SetBy(f, k)
      PROVE  LastSetter(f, n, k) = k
  <2>. DEFINE all == {i \in 1 .. k : n \in SetBy(f, i)}
  <2>1. k \in all /\ \A j \in all : j <= k
    BY <1>1, <1>8
  <2>2. \A i \in all : (\A j \in all : j <= i) => i = k
    BY <1>1, <2>1
  <2>. HIDE DEF all
  <2>3. (CHOOSE i \in all : \A j \in all : j <= i) = k
    BY <2>1, <2>2
  <2>. QED  BY <2>3 DEF LastSetter, all
<1>9. ASSUME NEW n, n \notin SetBy(f, k)
      PROVE  LastSetter(f, n, k) = LastSetter(f, n, k - 1)
  <2>1. {i \in 1 .. k : n \in SetBy(f, i)} = {i \in 1 .. k - 1 : n \in SetBy(f, i)}
    BY <1>1, <1>9
  <2>. QED  BY <2>1 DEF LastSetter
<1>. DEFINE W(n) == IF n \in SetBy(f, k) THEN LastSet(Statements(f)[k].sets, n) ELSE h.value[n]
            V(n) == IF n \in nodes THEN LastSet(Statements(f)[LastSetter(f, n, k)].sets, n) ELSE g.value[n]
<1>10. ASSUME NEW n \in DOMAIN g.value \cup nodes
       PROVE  W(n) = V(n)
  <2>1. CASE n \in SetBy(f, k)
    BY <1>2, <1>8, <2>1
  <2>2. CASE n \notin SetBy(f, k)
    <3>1. h.value[n] = IF n \in earlier THEN LastSet(Statements(f)[LastSetter(f, n, k - 1)].sets, n)
                       ELSE g.value[n]
      BY <1>2, <1>10, <2>2 DEF LoadedTo
    <3>. QED  BY <1>2, <1>9, <2>2, <3>1
  <2>. QED  BY <2>1, <2>2
<1>11. Merge(h, Statements(f)[k])
         = [value |-> [n \in DOMAIN h.value \cup SetBy(f, k) |-> W(n)],
            edges |-> h.edges \cup {e \in Statements(f)[k].draws : e[3] \in DOMAIN h.value}]
  BY DEF Merge, SetBy
<1>12. DOMAIN h.value \cup SetBy(f, k) = DOMAIN g.value \cup nodes
  BY <1>2, <1>3
<1>13. h.edges \cup {e \in Statements(f)[k].draws : e[3] \in DOMAIN h.value}
         = g.edges \cup UNION {DrawnBy(f, j) : j \in 1 .. k}
  BY <1>4, <1>6, <1>7
<1>14. LoadedTo(g, f, k) = [value |-> [n \in DOMAIN g.value \cup nodes |-> V(n)],
                            edges |-> g.edges \cup UNION {DrawnBy(f, j) : j \in 1 .. k}]
  BY DEF LoadedTo
<1>. HIDE DEF h, W, V, nodes, earlier
<1>15. [n \in DOMAIN h.value \cup SetBy(f, k) |-> W(n)] = [n \in DOMAIN g.value \cup nodes |-> V(n)]
  BY <1>10, <1>12
<1>. QED  BY <1>11, <1>13, <1>14, <1>15 DEF h

(***************************************************************************)
(* A step of one process at work, and of no other.                         *)
(***************************************************************************)
LEMMA OwnStep ==
  ASSUME AloneInv, DOMAIN loader = Loaders, NEW l \in Loaders, Busy(l), NEW r,
         loader' = [loader EXCEPT ![l] = r], IsGraph(graph'),
         r.alone => loader[l].alone /\ r.command # "none" /\ OnTrack(graph', r)
  PROVE  AloneInv'
<1>1. loader'[l] = r /\ \A k \in Loaders \ {l} : loader'[k] = loader[k]
  OBVIOUS
<1>2. \A k \in Loaders \ {l} : ~loader[k].alone
  BY DEF AloneInv, Lone
<1>3. ASSUME NEW k \in Loaders, loader'[k].alone PROVE Lone(k)'
  <2>1. k = l
    BY <1>1, <1>2, <1>3
  <2>2. r.alone /\ loader[l].alone /\ r.command # "none" /\ OnTrack(graph', r)
    BY <1>1, <1>3, <2>1
  <2>3. \A j \in Loaders \ {l} : loader[j].command = "none"
    BY <2>2 DEF AloneInv, Lone, Busy
  <2>4. \A j \in Loaders \ {l} : loader'[j].command = "none"
    BY <1>1, <2>3
  <2>5. OnTrack(graph', loader'[l])
    BY <1>1, <2>2
  <2>. QED  BY <1>1, <2>1, <2>2, <2>4, <2>5 DEF Lone, Busy
<1>. QED  BY <1>3 DEF AloneInv

LEMMA NobodyAlone ==
  ASSUME IsGraph(graph'), \A k \in Loaders : ~loader'[k].alone
  PROVE  AloneInv'
BY DEF AloneInv

LEMMA AloneStart ==
  ASSUME Inv, AloneInv, NEW l \in Loaders, NEW command \in {"load", "check"}, Start(l, command)
  PROVE  AloneInv'
<1>1. /\ IsGraph(graph') /\ UNCHANGED graph /\ ~Busy(l) /\ DOMAIN loader = Loaders
      /\ \A k \in Loaders : IsLoader(loader[k])
  BY DEF Start, AloneInv, Inv, Shape
<1>2. CASE files \notin Knowledge
  <2>1. loader' = [loader EXCEPT ![l] = Idle("failed")]
    BY <1>2 DEF Start
  <2>2. ~Idle("failed").alone /\ Idle("failed").command = "none"
    BY DEF Idle
  <2>3. loader'[l] = Idle("failed") /\ \A k \in Loaders \ {l} : loader'[k] = loader[k]
    BY <1>1, <2>1
  <2>4. ASSUME NEW k \in Loaders, loader'[k].alone PROVE Lone(k)'
    <3>1. k # l /\ loader[k].alone
      BY <2>2, <2>3, <2>4
    <3>2. Lone(k)
      BY <3>1 DEF AloneInv
    <3>3. Busy(k)' /\ \A j \in Loaders \ {k} : ~Busy(j)'
      BY <2>2, <2>3, <3>1, <3>2 DEF Lone, Busy
    <3>4. OnTrack(graph', loader'[k])
      BY <1>1, <2>3, <3>1, <3>2 DEF Lone, OnTrack
    <3>. QED  BY <3>3, <3>4 DEF Lone
  <2>. QED  BY <1>1, <2>4 DEF AloneInv
<1>3. CASE files \in Knowledge
  <2>. DEFINE phase == IF command = "check" THEN "nodes before" ELSE "statements"
              alone == \A other \in Loaders : ~Busy(other)
              r == [command |-> command, facts |-> files, phase |-> phase, at |-> 1,
                    before |-> graph, same |-> FALSE, alone |-> alone, verdict |-> "none"]
  <2>1. loader' = [k \in Loaders |-> IF k # l THEN [loader[k] EXCEPT !.alone = FALSE] ELSE r]
    BY <1>3 DEF Start
  <2>2. /\ r.command = command /\ r.phase \in {"nodes before", "statements"} /\ r.at = 1
        /\ r.before = graph
    OBVIOUS
  <2>3. r.alone => \A other \in Loaders : ~Busy(other)
    BY Zenon
  <2>. HIDE DEF r
  <2>4. ASSUME NEW k \in Loaders \ {l}
        PROVE  loader'[k].alone = FALSE /\ loader'[k].command = loader[k].command
    <3>1. loader'[k] = [loader[k] EXCEPT !.alone = FALSE] /\ IsLoader(loader[k])
      BY <1>1, <2>1
    <3>. QED  BY <3>1 DEF IsLoader
  <2>5. loader'[l] = r
    BY <2>1
  <2>6. OnTrack(graph', r)
    <3>1. LoadedTo(graph, r.facts, 0) = graph
      BY <1>1, LoadedNothing
    <3>2. r.at - 1 = 0
      <4>1. \A i : i = 1 => i - 1 = 0
        OBVIOUS
      <4>. QED  BY <2>2, <4>1
    <3>. QED  BY <1>1, <2>2, <3>1, <3>2 DEF OnTrack
  <2>7. r.alone => Lone(l)'
    BY <2>2, <2>3, <2>4, <2>5, <2>6 DEF Lone, Busy
  <2>. QED  BY <1>1, <2>4, <2>5, <2>7 DEF AloneInv
<1>. QED  BY <1>2, <1>3

LEMMA AloneFingerprint ==
  ASSUME Inv, AloneInv, NEW l \in Loaders, Fingerprint(l)
  PROVE  AloneInv'
<1>1. /\ IsGraph(graph') /\ UNCHANGED graph /\ Busy(l) /\ DOMAIN loader = Loaders /\ IsLoader(loader[l])
      /\ loader[l].alone => OnTrack(graph, loader[l])
  BY DEF Fingerprint, AloneInv, Lone, Inv, Shape, At
<1>2. CASE /\ At(l, "nodes before")
           /\ loader' = [loader EXCEPT ![l].before.value = graph.value, ![l].phase = "edges before"]
  <2>. DEFINE r == [loader[l] EXCEPT !.before.value = graph.value, !.phase = "edges before"]
  <2>1. loader' = [loader EXCEPT ![l] = r]
    BY <1>1, <1>2
  <2>2. /\ r.alone = loader[l].alone /\ r.command = loader[l].command /\ r.phase = "edges before"
        /\ r.before = [loader[l].before EXCEPT !.value = graph.value]
    BY <1>1 DEF IsLoader
  <2>. HIDE DEF r
  <2>3. IsGraph(loader[l].before) => IsGraph(r.before) /\ r.before.value = graph.value
    <3>1. IsGraph(graph)
      BY DEF AloneInv
    <3>2. graph.value = [n \in DOMAIN graph.value |-> graph.value[n]]
      BY <3>1 DEF IsGraph
    <3>3. IsGraph(loader[l].before) => r.before = [value |-> graph.value, edges |-> loader[l].before.edges]
      BY <2>2 DEF IsGraph
    <3>. QED  BY <3>2, <3>3 DEF IsGraph
  <2>4. r.alone => loader[l].alone /\ r.command # "none" /\ OnTrack(graph', r)
    BY <1>1, <2>2, <2>3 DEF OnTrack, Busy
  <2>. QED  BY <1>1, <2>1, <2>4, OwnStep
<1>3. CASE /\ At(l, "edges before")
           /\ loader' = [loader EXCEPT ![l].before.edges = graph.edges, ![l].phase = "statements"]
  <2>. DEFINE r == [loader[l] EXCEPT !.before.edges = graph.edges, !.phase = "statements"]
  <2>1. loader' = [loader EXCEPT ![l] = r]
    BY <1>1, <1>3
  <2>2. /\ r.alone = loader[l].alone /\ r.command = loader[l].command /\ r.phase = "statements"
        /\ r.before = [loader[l].before EXCEPT !.edges = graph.edges] /\ r.at = loader[l].at
    BY <1>1 DEF IsLoader
  <2>. HIDE DEF r
  <2>3. loader[l].at = 1
    BY <1>3 DEF Inv, Underway
  <2>4. loader[l].alone => r.before = graph
    <3>1. loader[l].alone => IsGraph(loader[l].before) /\ loader[l].before.value = graph.value
      BY <1>1, <1>3 DEF OnTrack, At
    <3>. QED  BY <1>1, <2>2, <3>1 DEF IsGraph
  <2>5. r.at - 1 = 0 /\ LoadedTo(graph, r.facts, 0) = graph
    BY <1>1, <2>2, <2>3, LoadedNothing
  <2>6. r.alone => loader[l].alone /\ r.command # "none" /\ OnTrack(graph', r)
    BY <1>1, <2>2, <2>4, <2>5 DEF OnTrack, Busy
  <2>. QED  BY <1>1, <2>1, <2>6, OwnStep
<1>4. CASE /\ At(l, "nodes after")
           /\ loader' = [loader EXCEPT ![l].same = loader[l].before.value = graph.value,
                                       ![l].phase = "edges after"]
  <2>1. PICK x \in BOOLEAN : /\ x <=> loader[l].before.value = graph.value
                             /\ loader' = [loader EXCEPT ![l].same = x, ![l].phase = "edges after"]
    BY <1>4, Zenon
  <2>. DEFINE r == [loader[l] EXCEPT !.same = x, !.phase = "edges after"]
  <2>2. loader' = [loader EXCEPT ![l] = r]
    BY <1>1, <2>1
  <2>3. /\ r.alone = loader[l].alone /\ r.command = loader[l].command /\ r.phase = "edges after"
        /\ r.before = loader[l].before /\ r.facts = loader[l].facts /\ r.same = x
    BY <1>1 DEF IsLoader
  <2>. HIDE DEF r
  <2>4. loader[l].alone => /\ IsGraph(loader[l].before)
                           /\ graph = LoadedTo(loader[l].before, loader[l].facts, NumStatements)
    BY <1>1, <1>4 DEF OnTrack, At
  <2>5. r.alone => OnTrack(graph', r)
    BY <1>1, <2>1, <2>3, <2>4 DEF OnTrack
  <2>. QED  BY <1>1, <2>2, <2>3, <2>5, OwnStep DEF Busy
<1>. QED  BY <1>2, <1>3, <1>4 DEF Fingerprint

LEMMA AloneExecute ==
  ASSUME Inv, AloneInv, NEW l \in Loaders, Execute(l)
  PROVE  /\ AloneInv'
         /\ loader[l].alone => graph' = LoadedTo(loader[l].before, loader[l].facts, loader[l].at)
<1>. DEFINE f == loader[l].facts
            k == loader[l].at
<1>1. /\ At(l, "statements") /\ Busy(l) /\ DOMAIN loader = Loaders /\ IsLoader(loader[l])
      /\ f \in Knowledge /\ k \in 1 .. NumStatements /\ graph' = Merge(graph, Statements(f)[k])
      /\ loader[l].alone => OnTrack(graph, loader[l])
  BY DEF Execute, AloneInv, Lone, Inv, Shape, At, TypeOK
<1>2. loader[l].alone => graph' = LoadedTo(loader[l].before, f, k)
  <2>1. loader[l].alone => graph = LoadedTo(loader[l].before, f, k - 1)
    BY <1>1 DEF OnTrack, At
  <2>. QED  BY <1>1, <2>1, LoadedNext
<1>3. IsGraph(graph')
  BY <1>1 DEF IsGraph, Merge
<1>4. CASE k < NumStatements
  <2>. DEFINE r == [loader[l] EXCEPT !.at = k + 1]
  <2>1. loader' = [loader EXCEPT ![l] = r]
    BY <1>1, <1>4 DEF Execute
  <2>2. /\ r.alone = loader[l].alone /\ r.command = loader[l].command /\ r.phase = "statements"
        /\ r.before = loader[l].before /\ r.facts = f /\ r.at = k + 1
    BY <1>1 DEF IsLoader, At
  <2>3. r.at - 1 = k
    BY <1>1, <2>2 DEF NumStatements
  <2>. HIDE DEF r, f, k
  <2>4. r.alone => OnTrack(graph', r)
    BY <1>1, <1>2, <2>2, <2>3 DEF OnTrack
  <2>5. AloneInv'
    BY <1>1, <1>3, <2>1, <2>2, <2>4, OwnStep DEF Busy
  <2>. QED  BY <1>2, <2>5 DEF f, k
<1>5. CASE ~(k < NumStatements)
  <2>. DEFINE r == IF loader[l].command = "check" THEN [loader[l] EXCEPT !.phase = "nodes after"]
                   ELSE Idle("none")
  <2>1. loader' = [loader EXCEPT ![l] = r]
    BY <1>5 DEF Execute
  <2>2. k = NumStatements
    BY <1>1, <1>5 DEF NumStatements
  <2>3. r.alone => OnTrack(graph', r) /\ loader[l].alone /\ r.command # "none"
    <3>1. CASE loader[l].command = "check"
      <4>1. r = [loader[l] EXCEPT !.phase = "nodes after"]
        BY <3>1
      <4>2. /\ r.alone = loader[l].alone /\ r.command = "check" /\ r.phase = "nodes after"
            /\ r.before = loader[l].before /\ r.facts = f
        BY <1>1, <3>1, <4>1 DEF IsLoader
      <4>. HIDE DEF r, f, k
      <4>. QED  BY <1>1, <1>2, <2>2, <4>2 DEF OnTrack
    <3>2. CASE loader[l].command # "check"
      BY <3>2 DEF Idle
    <3>. QED  BY <3>1, <3>2
  <2>. HIDE DEF r
  <2>4. AloneInv'
    BY <1>1, <1>3, <2>1, <2>3, OwnStep
  <2>. QED  BY <1>2, <2>4
<1>. QED  BY <1>4, <1>5

LEMMA AloneStep == Inv /\ AloneInv /\ [Next]_vars => AloneInv'
<1>. SUFFICES ASSUME Inv, AloneInv, [Next]_vars PROVE AloneInv'
  OBVIOUS
<1>1. ASSUME NEW l \in Loaders, Conclude(l) \/ Fail(l) PROVE AloneInv'
  <2>1. PICK v : loader' = [loader EXCEPT ![l] = Idle(v)]
    <3>1. CASE Fail(l)
      BY <3>1 DEF Fail
    <3>2. CASE Conclude(l)
      <4>1. \E v : loader' = [loader EXCEPT ![l] = Idle(v)]
        BY <3>2, Zenon DEF Conclude
      <4>. QED  BY <4>1
    <3>. QED  BY <1>1, <3>1, <3>2
  <2>2. UNCHANGED graph /\ Busy(l) /\ ~Idle(v).alone
    BY <1>1 DEF Conclude, Fail, At, Idle
  <2>. QED  BY <2>1, <2>2, OwnStep DEF AloneInv, Inv, Shape
<1>2. ASSUME NEW window \in Windows, NEW calls \in CallTables, LoadCalls(window, calls) PROVE AloneInv'
  <2>1. \A k \in Loaders : loader'[k] = [loader[k] EXCEPT !.alone = FALSE] /\ IsLoader(loader[k])
    BY <1>2 DEF LoadCalls, Disturb, Inv, Shape
  <2>2. \A k \in Loaders : ~loader'[k].alone
    BY <2>1 DEF IsLoader
  <2>3. IsGraph(graph')
    <3>1. PICK edges : graph' = [graph EXCEPT !.edges = edges]
      BY <1>2 DEF LoadCalls, MergeCalls
    <3>2. IsGraph(graph)
      BY DEF AloneInv
    <3>3. graph.value = [n \in DOMAIN graph.value |-> graph.value[n]]
      BY <3>2 DEF IsGraph
    <3>4. graph' = [value |-> graph.value, edges |-> edges]
      BY <3>1, <3>2 DEF IsGraph
    <3>. QED  BY <3>3, <3>4 DEF IsGraph
  <2>. QED  BY <2>2, <2>3, NobodyAlone
<1>3. ASSUME UNCHANGED <<graph, loader>> PROVE AloneInv'
  BY <1>3 DEF AloneInv, Lone, Busy, OnTrack
<1>. QED
  BY <1>1, <1>2, <1>3, AloneStart, AloneFingerprint, AloneExecute DEF Next, vars, Edit

LEMMA AloneHolds == Spec => []AloneInv
<1>1. Init => AloneInv
  <2>. SUFFICES ASSUME Init PROVE AloneInv
    OBVIOUS
  <2>1. IsGraph(NoGraph) /\ ~Idle("none").alone
    BY DEF IsGraph, NoGraph, Idle
  <2>. QED  BY <2>1 DEF Init, AloneInv
<1>. QED  BY <1>1, AloneStep, InvHolds, PTL DEF Spec


(***************************************************************************)
(* A load nothing else wrote beside leaves the graph it found with its     *)
(* facts over it, for any files and wherever earlier loads failed; so      *)
(* running a load again repairs it (load.py, "idempotently").              *)
(***************************************************************************)
THEOREM LoadsAddTheirFacts == Spec => LoadIsItsFacts
<1>. DEFINE Ends(l) == loader[l].alone /\ At(l, "statements") /\ ~At(l, "statements")'
                         /\ loader'[l].verdict # "failed"
            Left(l) == graph' = Loaded(loader[l].before, loader[l].facts)
            Kept == \A l \in Loaders : Ends(l) => Left(l)
<1>1. Inv /\ AloneInv /\ [Next]_vars => [Kept]_vars
  <2>. SUFFICES ASSUME Inv, AloneInv, Next, NEW l \in Loaders, Ends(l) PROVE Left(l)
    OBVIOUS
  <2>1. /\ DOMAIN loader = Loaders /\ \A k \in Loaders : IsLoader(loader[k])
        /\ Busy(l) /\ \A k \in Loaders \ {l} : ~Busy(k)
    BY DEF Inv, Shape, AloneInv, Lone
  <2>2. loader'[l].command # loader[l].command \/ loader'[l].phase # loader[l].phase
    BY <2>1 DEF At, Busy
  <2>3. CASE Execute(l)
    <3>1. graph' = LoadedTo(loader[l].before, loader[l].facts, loader[l].at)
      BY <2>3, AloneExecute
    <3>2. loader[l].at = NumStatements
      <4>1. loader[l].at \in 1 .. NumStatements
        BY <2>1 DEF Inv, TypeOK
      <4>2. ASSUME loader[l].at < NumStatements PROVE FALSE
        <5>1. loader'[l] = [loader[l] EXCEPT !.at = @ + 1]
          BY <2>1, <2>3, <4>2 DEF Execute
        <5>. QED  BY <2>1, <2>2, <5>1 DEF IsLoader
      <4>. QED  BY <4>1, <4>2 DEF NumStatements
    <3>. QED  BY <3>1, <3>2, LoadedAll
  <2>4. ASSUME NEW k \in Loaders, NEW command \in {"load", "check"}, Start(k, command) PROVE FALSE
    <3>1. k # l /\ ~Busy(k)
      BY <2>1, <2>4 DEF Start
    <3>2. loader'[l] = loader[l] \/ loader'[l] = [loader[l] EXCEPT !.alone = FALSE]
      BY <2>1, <2>4, <3>1 DEF Start
    <3>. QED  BY <2>1, <2>2, <3>2 DEF IsLoader
  <2>5. ASSUME NEW k \in Loaders, Fingerprint(k) \/ Conclude(k) PROVE FALSE
    BY <2>1, <2>5 DEF Fingerprint, Conclude, At
  <2>6. ASSUME NEW k \in Loaders, Execute(k) PROVE k = l
    BY <2>1, <2>6 DEF Execute, At
  <2>7. ASSUME NEW k \in Loaders, Fail(k) PROVE FALSE
    <3>1. k = l /\ loader'[l] = Idle("failed")
      BY <2>1, <2>7 DEF Fail
    <3>. QED  BY <3>1 DEF Idle
  <2>8. ASSUME NEW window \in Windows, NEW calls \in CallTables, LoadCalls(window, calls) PROVE FALSE
    <3>1. loader'[l] = [loader[l] EXCEPT !.alone = FALSE]
      BY <2>8 DEF LoadCalls, Disturb
    <3>. QED  BY <2>1, <2>2, <3>1 DEF IsLoader
  <2>9. ASSUME UNCHANGED loader PROVE FALSE
    BY <2>2, <2>9
  <2>. QED  BY <2>3, <2>4, <2>5, <2>6, <2>7, <2>8, <2>9 DEF Next, Edit
<1>. QED  BY <1>1, InvHolds, AloneHolds, PTL DEF Spec, LoadIsItsFacts

(***************************************************************************)
(* `graph check` speaks of the files: nothing else writing beside it, it   *)
(* says idempotent exactly when the graph had all of its facts already.    *)
(***************************************************************************)
THEOREM ChecksSpeakOfTheFiles == Spec => CheckSpeaksOfTheFiles
<1>. DEFINE Ends(l) == loader[l].alone /\ At(l, "edges after") /\ ~Busy(l)' /\ loader'[l].verdict # "failed"
            Said(l) == (loader'[l].verdict = "idempotent")
                          = (loader[l].before = Loaded(loader[l].before, loader[l].facts))
            Kept == \A l \in Loaders : Ends(l) => Said(l)
<1>1. Inv /\ AloneInv /\ [Next]_vars => [Kept]_vars
  <2>. SUFFICES ASSUME Inv, AloneInv, Next, NEW l \in Loaders, Ends(l) PROVE Said(l)
    OBVIOUS
  <2>1. /\ DOMAIN loader = Loaders /\ \A k \in Loaders : IsLoader(loader[k])
        /\ Busy(l) /\ (\A k \in Loaders \ {l} : ~Busy(k)) /\ OnTrack(graph, loader[l])
        /\ loader[l].phase = "edges after"
    BY DEF Inv, Shape, AloneInv, Lone, At
  <2>2. loader'[l].command # loader[l].command
    BY <2>1 DEF Busy
  <2>3. CASE Conclude(l)
    <3>. DEFINE before == loader[l].before
                good == loader[l].same /\ before.edges = graph.edges
    <3>1. loader' = [loader EXCEPT ![l] = Idle(IF good THEN "idempotent" ELSE "not idempotent")]
      BY <2>3 DEF Conclude
    <3>2. loader'[l].verdict = IF good THEN "idempotent" ELSE "not idempotent"
      BY <2>1, <3>1, Zenon DEF Idle
    <3>3. good <=> before.value = graph.value /\ before.edges = graph.edges
      BY <2>1 DEF OnTrack
    <3>4. graph = Loaded(before, loader[l].facts) /\ IsGraph(before) /\ IsGraph(graph)
      BY <2>1, LoadedAll DEF OnTrack, AloneInv
    <3>5. good <=> before = graph
      BY <3>3, <3>4 DEF IsGraph
    <3>6. (loader'[l].verdict = "idempotent") <=> good
      BY <3>2
    <3>. QED  BY <3>4, <3>5, <3>6
  <2>4. ASSUME NEW k \in Loaders, NEW command \in {"load", "check"}, Start(k, command) PROVE FALSE
    <3>1. k # l /\ ~Busy(k)
      BY <2>1, <2>4 DEF Start
    <3>2. loader'[l] = loader[l] \/ loader'[l] = [loader[l] EXCEPT !.alone = FALSE]
      BY <2>1, <2>4, <3>1 DEF Start
    <3>. QED  BY <2>1, <2>2, <3>2 DEF IsLoader
  <2>5. ASSUME NEW k \in Loaders, Fingerprint(k) \/ Execute(k) PROVE FALSE
    BY <2>1, <2>5 DEF Fingerprint, Execute, At
  <2>6. ASSUME NEW k \in Loaders, Conclude(k) PROVE k = l
    BY <2>1, <2>6 DEF Conclude, At
  <2>7. ASSUME NEW k \in Loaders, Fail(k) PROVE FALSE
    <3>1. k = l /\ loader'[l] = Idle("failed")
      BY <2>1, <2>7 DEF Fail
    <3>2. Idle("failed").verdict = "failed"
      BY DEF Idle
    <3>. QED  BY <3>1, <3>2
  <2>8. ASSUME NEW window \in Windows, NEW calls \in CallTables, LoadCalls(window, calls) PROVE FALSE
    <3>1. loader'[l] = [loader[l] EXCEPT !.alone = FALSE]
      BY <2>8 DEF LoadCalls, Disturb
    <3>. QED  BY <2>1, <2>2, <3>1 DEF IsLoader
  <2>9. ASSUME UNCHANGED loader PROVE FALSE
    BY <2>2, <2>9
  <2>. QED  BY <2>3, <2>4, <2>5, <2>6, <2>7, <2>8, <2>9 DEF Next, Edit
<1>. QED  BY <1>1, InvHolds, AloneHolds, PTL DEF Spec, CheckSpeaksOfTheFiles

(***************************************************************************)
(* What an undisturbed load leaves, and an undisturbed check says, is what *)
(* the files and the graph it found say (load.py, cli/graph.py).           *)
(***************************************************************************)
THEOREM LoadsSpeak == Spec => LoadsSpeakOfTheFiles
BY LoadsAddTheirFacts, ChecksSpeakOfTheFiles DEF LoadsSpeakOfTheFiles
=============================================================================
