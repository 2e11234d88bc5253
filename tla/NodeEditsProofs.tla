--------------------------- MODULE NodeEditsProofs ---------------------------
(***************************************************************************)
(* Proved of NodeEdits, for every tree, every set of requests and any      *)
(* number of errors and crashes:                                           *)
(*   - the types, whatever meets what;                                     *)
(* and as long as deletions meet no other work in their subtrees,          *)
(*   - what exists is listed, and nothing is lost (EditsInv);              *)
(*   - a deletion that is undone puts back all that it took (UndoInv);     *)
(*   - at rest the nodes and the rows at their ancestors agree (AgreeInv). *)
(***************************************************************************)
EXTENDS NodeEdits, FiniteSetTheorems, WellFoundedInduction, TLAPS

\* Which table each step is about; no two archive steps and no two delete
\* steps are about the same one.
LEMMA TableOfSteps ==
    /\ Tables = {"nodes", "workflows", "flows", "flow_steps", "ios", "descriptions"}
    /\ TableOf(1) = "nodes" /\ TableOf(2) = "workflows" /\ TableOf(3) = "flows"
    /\ TableOf(4) = "flow_steps" /\ TableOf(5) = "ios" /\ TableOf(6) = "descriptions"
    /\ TableOf(7) = "nodes" /\ TableOf(9) = "workflows" /\ TableOf(10) = "flows"
    /\ TableOf(11) = "flow_steps" /\ TableOf(12) = "ios" /\ TableOf(13) = "descriptions"
<1>1. /\ Archives[1] = "nodes" /\ Archives[2] = "workflows" /\ Archives[3] = "flows"
      /\ Archives[4] = "flow_steps" /\ Archives[5] = "ios" /\ Archives[6] = "descriptions"
  BY DEF Archives
<1>2. Tables = {Archives[1], Archives[2], Archives[3], Archives[4], Archives[5], Archives[6]}
  BY DEF Tables
<1> QED
  BY <1>1, <1>2 DEF TableOf, ArchiveSteps, DeleteNodes

\* The same, as the proofs use it.
LEMMA TableFacts ==
    /\ "nodes" \in Tables
    /\ \A k \in ArchiveSteps \cup DeleteSteps : TableOf(k) \in Tables
    /\ \A j, k \in ArchiveSteps : TableOf(j) = TableOf(k) => j = k
    /\ \A j, k \in DeleteSteps : TableOf(j) = TableOf(k) => j = k
    /\ \A j \in DeleteSteps : TableOf(j) = "nodes" <=> j = DeleteNodes
    /\ \A j \in DeleteSteps : \E k \in ArchiveSteps : k < j /\ TableOf(k) = TableOf(j)
    /\ \A k \in ArchiveSteps : \E j \in DeleteSteps : k < j /\ TableOf(k) = TableOf(j)
<1>1. ArchiveSteps = {1, 2, 3, 4, 5, 6} /\ DeleteSteps = {7, 9, 10, 11, 12, 13}
  BY DEF ArchiveSteps, DeleteSteps, DeleteNodes
<1> QED
  BY <1>1, TableOfSteps DEF DeleteNodes

-----------------------------------------------------------------------------
(* Rows *)

\* Upserting rows loses none and adds theirs.
LEMMA Upserted ==
    ASSUME NEW R, rows' = Without(R) \cup R
    PROVE  /\ \A a, n : Has(rows, a, n) => Has(rows', a, n)
           /\ \A a, n : Has(R, a, n) => Has(rows', a, n)
           /\ \A a, n : Has(rows', a, n) => Has(rows, a, n) \/ Has(R, a, n)
BY DEF Has, Without, SameKey

\* Deleting rows loses theirs only.
LEMMA Removed ==
    ASSUME NEW R, rows' = Without(R)
    PROVE  /\ \A a, n : Has(rows', a, n) => Has(rows, a, n)
           /\ \A a, n : Has(rows, a, n) => Has(rows', a, n) \/ Has(R, a, n)
BY DEF Has, Without, SameKey

\* The rows of a node are at its ancestors and about it.
LEMMA RowsOfNode ==
    ASSUME NEW n, NEW t
    PROVE  /\ \A row \in RowsOf(n, t) : row.node \in Ancestors(n) /\ row.id = n
           /\ \A a \in Ancestors(n) : Has(RowsOf(n, t), a, n)
           /\ n \in Nodes /\ t \in {"old", "new"} => RowsOf(n, t) \subseteq RowSet
<1>1. \A row \in RowsOf(n, t) : row.node \in Ancestors(n) /\ row.id = n
  BY DEF RowsOf, Row
<1>2. ASSUME NEW a \in Ancestors(n)
      PROVE  Has(RowsOf(n, t), a, n)
  <2>1. Row(a, n, t) \in RowsOf(n, t)
    BY DEF RowsOf
  <2> QED
    BY <2>1 DEF Has, Row
<1>3. ASSUME n \in Nodes, t \in {"old", "new"}
      PROVE  RowsOf(n, t) \subseteq RowSet
  <2>1. Ancestors(n) \subseteq Nodes
    BY <1>3, NodeEditsAssumption DEF Ancestors, IsTree
  <2> QED
    BY <1>3, <2>1 DEF RowsOf, Row, RowSet
<1> QED
  BY <1>1, <1>2, <1>3

-----------------------------------------------------------------------------
(* What a request leaves alone *)

\* Nothing is changed but what belongs to nodes of S.
Untouched(S) ==
    /\ \A t \in Tables :
         live'[t] \ S = live[t] \ S /\ archived'[t] \ S = archived[t] \ S
    /\ \A a, n : n \notin S => (Has(rows', a, n) <=> Has(rows, a, n))

RequestSound(r) == ModeFits(r) /\ WriteSound(r) /\ ReadSound(r) /\ StepSound(r)

\* A request q to which nothing happens...
Idle(q) ==
    request' = request /\ mode'[q] = mode[q] /\ step'[q] = step[q] /\ data'[q] = data[q]

\* ...is as sound as before when what changed is none of its nodes...
LEMMA SoundElsewhere ==
    ASSUME NEW q \in Requests, NEW S, Idle(q), Untouched(S), RequestSound(q),
           Node(q) \notin S, request[q].kind = "delete" => Below(q) \cap S = {}
    PROVE  RequestSound(q)'
<1> USE DEF Idle, RequestSound
<1>0. Node(q)' = Node(q) /\ Below(q)' = Below(q)
  BY DEF Node, Below
<1>1. ModeFits(q)'
  BY DEF ModeFits, Reading, Stepping
<1>2. WriteSound(q)'
  BY <1>0, TableFacts DEF WriteSound, Untouched
<1>3. ReadSound(q)'
  <2>1. CASE request[q].kind # "delete"
    BY <2>1 DEF ReadSound, ModeFits, Reading
  <2>2. CASE request[q].kind = "delete"
    <3>1. \A t \in Tables : live'[t] \cap Below(q) = live[t] \cap Below(q)
      BY <2>2 DEF Untouched
    <3> QED
      BY <1>0, <3>1, TableFacts DEF ReadSound, Untouched, Reading
  <2> QED
    BY <2>1, <2>2
<1>4. StepSound(q)'
  <2>1. CASE ~Stepping(q)
    BY <2>1 DEF StepSound, Stepping
  <2>2. CASE Stepping(q)
    <3> DEFINE d == data[q]
    <3>1. request[q].kind = "delete"
      BY <2>2 DEF ModeFits
    <3>2. \A t \in Tables : d.found[t] \subseteq Below(q)
      BY <2>2 DEF StepSound
    <3>3. \A t \in Tables : /\ live'[t] \cap Below(q) = live[t] \cap Below(q)
                            /\ archived'[t] \cap Below(q) = archived[t] \cap Below(q)
      BY <3>1 DEF Untouched
    <3>4. \A t \in Tables : /\ d.found[t] \subseteq live[t] => d.found[t] \subseteq live'[t]
                            /\ d.found[t] \subseteq archived[t] => d.found[t] \subseteq archived'[t]
      BY <3>2, <3>3
    <3>5. \A n \in d.found["nodes"] : \A a : Has(rows', a, n) <=> Has(rows, a, n)
      BY <3>1, <3>2, TableFacts DEF Untouched
    <3> QED
      BY <1>0, <2>2, <3>3, <3>4, <3>5, TableFacts DEF StepSound, Stepping
  <2> QED
    BY <2>1, <2>2
<1> QED
  BY <1>1, <1>2, <1>3, <1>4

\* ...or when it is no deletion and nothing has gone.
LEMMA SoundWhenGrowing ==
    ASSUME NEW q \in Requests, Idle(q), RequestSound(q), request[q].kind # "delete",
           live["nodes"] \subseteq live'["nodes"],
           \A a, n : Has(rows, a, n) => Has(rows', a, n)
    PROVE  RequestSound(q)'
<1> USE DEF Idle, RequestSound
<1>0. Node(q)' = Node(q)
  BY DEF Node
<1>1. ModeFits(q)'
  BY DEF ModeFits, Reading, Stepping
<1>2. WriteSound(q)'
  BY <1>0 DEF WriteSound
<1>3. ReadSound(q)' /\ StepSound(q)'
  BY DEF ReadSound, StepSound, ModeFits, Reading, Stepping
<1> QED
  BY <1>1, <1>2, <1>3

-----------------------------------------------------------------------------
(* The steps of a deletion *)

\* What a step or its undo is about lies below the node to be deleted.
LEMMA ItemsBelow ==
    ASSUME NEW r \in Requests, StepSound(r), Stepping(r), NEW k \in Steps,
           NEW T \in SUBSET Items(data[r], k)
    PROVE  /\ k = DeleteDescendants =>
                \A row \in T : row.node \in Ancestors(row.id) /\ row.id \in Below(r)
           /\ k \in ArchiveSteps \cup DeleteSteps =>
                T \subseteq data[r].found[TableOf(k)] /\ T \subseteq Below(r)
<1>1. CASE k = DeleteDescendants
  BY <1>1 DEF Items, StepSound, DeleteDescendants, ArchiveSteps, DeleteSteps, DeleteNodes
<1>2. CASE k \in ArchiveSteps \cup DeleteSteps
  <2>1. Items(data[r], k) = data[r].found[TableOf(k)]
    BY <1>2 DEF Items, DeleteDescendants, DeleteLikes, ArchiveSteps, DeleteSteps, DeleteNodes
  <2> QED
    BY <1>2, <2>1, TableFacts DEF StepSound, DeleteDescendants, ArchiveSteps, DeleteSteps,
                                  DeleteNodes
<1> QED
  BY <1>1, <1>2

\* The steps are the archive steps, the delete steps, the rows, and those that
\* leave the tables of the model alone.
LEMMA StepKinds ==
    ASSUME NEW k \in Steps
    PROVE  \/ k \in ArchiveSteps \/ k \in DeleteSteps \/ k = DeleteDescendants
           \/ k >= DeleteLikes
BY DEF Steps, ArchiveSteps, DeleteSteps, DeleteNodes, DeleteDescendants, DeleteLikes,
       DeleteElasticData

\* What a step does to the stores.
CarriedOut(k, T) ==
    /\ title' = title
    /\ k = DeleteDescendants => rows' = Without(T) /\ live' = live /\ archived' = archived
    /\ k # DeleteDescendants => rows' = rows
    /\ k >= DeleteLikes => live' = live /\ archived' = archived
    /\ k \in ArchiveSteps =>
         /\ live' = live
         /\ \A t \in Tables : archived'[t] = IF t = TableOf(k) THEN archived[t] \cup T
                                                              ELSE archived[t]
    /\ k \in DeleteSteps =>
         /\ archived' = archived
         /\ \A t \in Tables : live'[t] = IF t = TableOf(k) THEN live[t] \ T ELSE live[t]

\* A step does that and no more.
LEMMA Carried ==
    ASSUME TypeOK, NEW d, NEW k \in Steps, NEW T, Carry(d, k, T)
    PROVE  CarriedOut(k, T)
<1> USE DEF Carry, CarriedOut, stores, DeleteDescendants, DeleteLikes
<1>1. CASE k \in ArchiveSteps
  <2>1. k \in 1..6
    BY <1>1 DEF ArchiveSteps
  <2>2. k # 8 /\ k < 14 /\ k \notin DeleteSteps
    BY <2>1 DEF DeleteSteps, DeleteNodes
  <2>3. /\ archived' = [archived EXCEPT ![TableOf(k)] = @ \cup T]
        /\ UNCHANGED <<live, title, rows>>
    BY <1>1, <2>1, <2>2
  <2>4. archived = [t \in Tables |-> archived[t]]
    BY DEF TypeOK
  <2> QED
    BY <1>1, <2>2, <2>3, <2>4
<1>2. CASE k \in DeleteSteps
  <2>1. k \notin ArchiveSteps /\ k # 8 /\ k \in Nat /\ k < 14
    BY <1>2 DEF ArchiveSteps, DeleteSteps, DeleteNodes
  <2>2. /\ live' = [live EXCEPT ![TableOf(k)] = @ \ T]
        /\ UNCHANGED <<archived, title, rows>>
    BY <1>2, <2>1
  <2>3. live = [t \in Tables |-> live[t]]
    BY DEF TypeOK
  <2> QED
    BY <1>2, <2>1, <2>2, <2>3
<1>3. CASE k = DeleteDescendants \/ k >= DeleteLikes
  <2>1. k \notin ArchiveSteps /\ k \notin DeleteSteps
    BY <1>3 DEF ArchiveSteps, DeleteSteps, DeleteNodes, Steps, DeleteElasticData
  <2> QED
    BY <1>3, <2>1
<1> QED
  BY <1>1, <1>2, <1>3, StepKinds

\* What its undo does.
PutBack(k, T) ==
    /\ k = DeleteDescendants =>
         rows' = Without(T) \cup T /\ live' = live /\ archived' = archived
    /\ k # DeleteDescendants => rows' = rows
    /\ k >= DeleteLikes => live' = live /\ archived' = archived
    /\ k \in ArchiveSteps =>
         /\ live' = live
         /\ \A t \in Tables : archived'[t] = IF t = TableOf(k) THEN archived[t] \ T
                                                              ELSE archived[t]
    /\ k \in DeleteSteps =>
         /\ archived' = archived
         /\ \A t \in Tables : live'[t] = IF t = TableOf(k) THEN live[t] \cup T ELSE live[t]

\* And so does an undo.
LEMMA CarriedBack ==
    ASSUME TypeOK, NEW d, NEW k \in Steps, NEW T, CarryBack(d, k, T)
    PROVE  PutBack(k, T)
<1> USE DEF CarryBack, PutBack, stores, DeleteDescendants, DeleteLikes
<1>1. CASE k \in ArchiveSteps
  <2>1. k \in 1..6
    BY <1>1 DEF ArchiveSteps
  <2>2. k # 8 /\ k < 14 /\ k \notin DeleteSteps
    BY <2>1 DEF DeleteSteps, DeleteNodes
  <2>3. /\ archived' = [archived EXCEPT ![TableOf(k)] = @ \ T]
        /\ UNCHANGED <<live, title, rows>>
    BY <1>1, <2>1, <2>2
  <2>4. archived = [t \in Tables |-> archived[t]]
    BY DEF TypeOK
  <2> QED
    BY <1>1, <2>2, <2>3, <2>4
<1>2. CASE k \in DeleteSteps
  <2>1. k \notin ArchiveSteps /\ k # 8 /\ k \in Nat /\ k < 14
    BY <1>2 DEF ArchiveSteps, DeleteSteps, DeleteNodes
  <2>2. /\ live' = [live EXCEPT ![TableOf(k)] = @ \cup T]
        /\ UNCHANGED <<archived, rows>>
    BY <1>2, <2>1
  <2>3. live = [t \in Tables |-> live[t]]
    BY DEF TypeOK
  <2> QED
    BY <1>2, <2>1, <2>2, <2>3
<1>3. CASE k = DeleteDescendants \/ k >= DeleteLikes
  <2>1. k \notin ArchiveSteps /\ k \notin DeleteSteps
    BY <1>3 DEF ArchiveSteps, DeleteSteps, DeleteNodes, Steps, DeleteElasticData
  <2> QED
    BY <1>3, <2>1
<1> QED
  BY <1>1, <1>2, <1>3, StepKinds

\* Nothing goes from its table and its archive both.
AllKept == \A t \in Tables : live[t] \cup archived[t] \subseteq (live[t] \cup archived[t])'

\* A step of a deletion touches only what is below its node, and loses nothing.
LEMMA CarryStores ==
    ASSUME TypeOK, RowsSound, Listed, NEW r \in Requests, StepSound(r),
           mode[r] = "forward", step[r] \in Steps,
           NEW T \in SUBSET Items(data[r], step[r]), Carry(data[r], step[r], T)
    PROVE  Untouched(Below(r)) /\ RowsSound' /\ Listed' /\ AllKept
<1> DEFINE k == step[r]
           d == data[r]
<1>a. Stepping(r) /\ k \in Nat /\ "nodes" \in Tables
  BY TableFacts DEF Stepping, Steps, DeleteElasticData
<1>b. /\ k = DeleteDescendants =>
           \A row \in T : row.node \in Ancestors(row.id) /\ row.id \in Below(r)
      /\ k \in ArchiveSteps \cup DeleteSteps =>
           T \subseteq d.found[TableOf(k)] /\ T \subseteq Below(r)
  BY <1>a, ItemsBelow
<1>c. CarriedOut(k, T)
  BY Carried
<1>1. CASE k \in ArchiveSteps
  <2>1. /\ live' = live /\ rows' = rows
        /\ \A t \in Tables : archived'[t] = IF t = TableOf(k) THEN archived[t] \cup T
                                                             ELSE archived[t]
    BY <1>1, <1>c DEF CarriedOut, ArchiveSteps, DeleteDescendants
  <2>2. RowsSound' /\ Listed'
    BY <1>a, <2>1 DEF RowsSound, Listed
  <2> QED
    BY <1>b, <1>1, <2>1, <2>2 DEF Untouched, AllKept
<1>2. CASE k \in DeleteSteps
  <2>1. /\ archived' = archived /\ rows' = rows
        /\ \A t \in Tables : live'[t] = IF t = TableOf(k) THEN live[t] \ T ELSE live[t]
    BY <1>2, <1>c DEF CarriedOut, DeleteSteps, DeleteNodes, DeleteDescendants
  <2>2. PICK j \in ArchiveSteps : j < k /\ TableOf(j) = TableOf(k)
    BY <1>2, TableFacts
  <2>3. T \subseteq archived[TableOf(k)]
    BY <1>a, <1>b, <1>2, <2>2 DEF StepSound
  <2> QED
    BY <1>a, <1>b, <1>2, <2>1, <2>3 DEF Untouched, RowsSound, Listed, AllKept
<1>3. CASE k = DeleteDescendants
  <2>1. rows' = Without(T) /\ live' = live /\ archived' = archived
    BY <1>3, <1>c DEF CarriedOut
  <2>2. \A a, n : Has(T, a, n) => n \in Below(r)
    BY <1>a, <1>b, <1>3 DEF Has
  <2>3. /\ \A a, n : Has(rows', a, n) => Has(rows, a, n)
        /\ \A a, n : Has(rows, a, n) => Has(rows', a, n) \/ Has(T, a, n)
    BY <2>1, Removed
  <2>4. live["nodes"] \cap Below(r) = {}
    BY <1>a, <1>b, <1>3 DEF StepSound, DeleteDescendants
  <2>5. Listed'
    BY <1>a, <1>b, <2>1, <2>2, <2>3, <2>4 DEF Listed, Has
  <2>6. RowsSound'
    BY <2>1 DEF RowsSound, Without
  <2> QED
    BY <2>1, <2>2, <2>3, <2>5, <2>6 DEF Untouched, AllKept
<1>4. CASE k >= DeleteLikes
  <2>1. live' = live /\ archived' = archived /\ rows' = rows
    BY <1>4, <1>c DEF CarriedOut, DeleteLikes, DeleteDescendants
  <2> QED
    BY <2>1 DEF Untouched, RowsSound, Listed, AllKept
<1> QED
  BY <1>1, <1>2, <1>3, <1>4, StepKinds

\* The deletion goes on, or turns round with the step partly carried out.
LEMMA CarryStep ==
    ASSUME TypeOK, Listed, NEW r \in Requests, StepSound(r),
           mode[r] = "forward", step[r] \in Steps,
           NEW T \in SUBSET Items(data[r], step[r]), Carry(data[r], step[r], T),
           request' = request, data' = data,
           \/ /\ T = Items(data[r], step[r])
              /\ mode'[r] = "forward" /\ step'[r] = step[r] + 1
           \/ mode'[r] \in {"backward", "dead"} /\ step'[r] = step[r]
    PROVE  StepSound(r)'
<1> DEFINE k == step[r]
           d == data[r]
<1>a. Stepping(r) /\ k \in Nat /\ "nodes" \in Tables
  BY TableFacts DEF Stepping, Steps, DeleteElasticData
<1>b. k \in ArchiveSteps \cup DeleteSteps =>
        T \subseteq d.found[TableOf(k)] /\ T \subseteq Below(r)
  BY <1>a, ItemsBelow
<1>c. CarriedOut(k, T)
  BY Carried
<1>1. Node(r)' = Node(r) /\ Below(r)' = Below(r) /\ data'[r] = d
  BY DEF Node, Below
<1>2. /\ Node(r) \in d.found["nodes"]
      /\ live["nodes"] \cap Below(r) \subseteq d.found["nodes"]
      /\ \A t \in Tables : d.found[t] \subseteq Below(r)
      /\ \A row \in d.rows : row.node \in Ancestors(row.id) /\ row.id \in Below(r)
  BY <1>a DEF StepSound
<1>3. live'["nodes"] \subseteq live["nodes"]
  BY <1>a, <1>c, StepKinds, TableFacts DEF CarriedOut, ArchiveSteps, DeleteSteps, DeleteNodes,
     DeleteDescendants, DeleteLikes
<1>4. ASSUME NEW i \in ArchiveSteps, i < step'[r]
      PROVE  d.found[TableOf(i)] \subseteq archived'[TableOf(i)]
  <2>0. TableOf(i) \in Tables /\ i \in Nat
    BY TableFacts DEF ArchiveSteps
  <2>1. archived[TableOf(i)] \subseteq archived'[TableOf(i)]
    BY <2>0, <1>c, StepKinds DEF CarriedOut
  <2>2. CASE i < k
    BY <1>a, <1>b, <2>1, <2>2 DEF StepSound
  <2>3. CASE i = k
    <3>1. T = d.found[TableOf(i)]
      BY <1>4, <2>0, <2>3 DEF Items, ArchiveSteps, DeleteDescendants, DeleteLikes
    <3> QED
      BY <2>0, <2>3, <3>1, <1>c DEF CarriedOut
  <2> QED
    BY <1>a, <1>b, <1>4, <2>0, <2>2, <2>3
<1>5. ASSUME NEW i \in DeleteSteps,
             step'[r] < i \/ (step'[r] = i /\ mode'[r] = "forward")
      PROVE  d.found[TableOf(i)] \subseteq live'[TableOf(i)]
  <2>0. TableOf(i) \in Tables /\ i \in Nat
    BY TableFacts DEF DeleteSteps, DeleteNodes
  <2>1. k < i
    BY <1>a, <1>b, <1>5, <2>0
  <2>2. live'[TableOf(i)] = live[TableOf(i)]
    <3>1. CASE k \in DeleteSteps
      <4>0. i # k
        BY <1>a, <2>0, <2>1
      <4>1. TableOf(i) # TableOf(k)
        BY <4>0, <3>1, TableFacts
      <4> QED
        BY <1>c, <2>0, <3>1, <4>1 DEF CarriedOut
    <3>2. CASE k \notin DeleteSteps
      BY <1>c, <3>2, StepKinds DEF CarriedOut
    <3> QED
      BY <3>1, <3>2
  <2> QED
    BY <1>a, <1>b, <2>1, <2>2 DEF StepSound
<1>6. ASSUME NEW n \in d.found["nodes"], NEW a \in Ancestors(n)
      PROVE  /\ Has(rows', a, n) \/ Has(d.rows, a, n)
             /\ \/ step'[r] <= DeleteNodes
                \/ step'[r] < DeleteDescendants
                \/ step'[r] = DeleteDescendants /\ mode'[r] = "forward"
                => Has(rows', a, n)
  <2>1. /\ Has(rows, a, n) \/ Has(d.rows, a, n)
        /\ k <= DeleteNodes => Has(rows, a, n)
    BY <1>a DEF StepSound
  <2>2. CASE k # DeleteDescendants
    BY <1>a, <1>b, <2>1, <2>2, <1>c DEF CarriedOut, DeleteNodes, DeleteDescendants
  <2>3. CASE k = DeleteDescendants
    <3>1. T \subseteq d.rows /\ rows' = Without(T)
      BY <2>3, <1>c DEF CarriedOut, Items
    <3>2. Has(rows, a, n) => Has(rows', a, n) \/ Has(T, a, n)
      BY <3>1, Removed
    <3>3. Has(T, a, n) => Has(d.rows, a, n)
      BY <3>1 DEF Has
    <3>4. ~ (\/ step'[r] <= DeleteNodes
             \/ step'[r] < DeleteDescendants
             \/ step'[r] = DeleteDescendants /\ mode'[r] = "forward")
      BY <2>3 DEF DeleteDescendants, DeleteNodes
    <3> QED
      BY <2>1, <3>2, <3>3, <3>4
  <2> QED
    BY <2>2, <2>3
<1>7. ASSUME step'[r] >= DeleteDescendants
      PROVE  live'["nodes"] \cap Below(r) = {}
  <2>1. CASE k >= DeleteDescendants
    BY <1>a, <1>b, <1>3, <2>1 DEF StepSound
  <2>2. CASE k = DeleteNodes /\ T = Items(d, k)
    <3>1. T = d.found["nodes"]
      BY <2>2, TableOfSteps DEF Items, DeleteDescendants, DeleteNodes, DeleteLikes
    <3>2. live'["nodes"] = live["nodes"] \ T
      BY <1>a, <1>b, <2>2, <1>c, TableOfSteps DEF CarriedOut, DeleteSteps, DeleteNodes
    <3> QED
      BY <1>2, <3>1, <3>2
  <2> QED
    BY <1>a, <1>b, <1>7, <2>1, <2>2 DEF DeleteDescendants, DeleteNodes
<1> QED
  BY <1>1, <1>2, <1>3, <1>4, <1>5, <1>6, <1>7 DEF StepSound

\* An undo touches only what is below the node of the deletion, and loses nothing.
LEMMA CarryBackStores ==
    ASSUME TypeOK, RowsSound, Listed, NEW r \in Requests, StepSound(r),
           mode[r] = "backward", step[r] \in Steps,
           NEW T \in SUBSET Items(data[r], step[r]), CarryBack(data[r], step[r], T)
    PROVE  Untouched(Below(r)) /\ RowsSound' /\ Listed' /\ AllKept
<1> DEFINE k == step[r]
           d == data[r]
<1>a. Stepping(r) /\ k \in Nat /\ "nodes" \in Tables
  BY TableFacts DEF Stepping, Steps, DeleteElasticData
<1>b. /\ k = DeleteDescendants =>
           \A row \in T : row.node \in Ancestors(row.id) /\ row.id \in Below(r)
      /\ k \in ArchiveSteps \cup DeleteSteps =>
           T \subseteq d.found[TableOf(k)] /\ T \subseteq Below(r)
  BY <1>a, ItemsBelow
<1>c. PutBack(k, T)
  BY CarriedBack
<1>1. CASE k \in ArchiveSteps
  <2>1. /\ live' = live /\ rows' = rows
        /\ \A t \in Tables : archived'[t] = IF t = TableOf(k) THEN archived[t] \ T
                                                             ELSE archived[t]
    BY <1>1, <1>c DEF PutBack, ArchiveSteps, DeleteDescendants
  <2>2. PICK j \in DeleteSteps : k < j /\ TableOf(k) = TableOf(j)
    BY <1>1, TableFacts
  <2>3. T \subseteq live[TableOf(k)]
    BY <1>a, <1>b, <1>1, <2>2 DEF StepSound
  <2>4. RowsSound' /\ Listed'
    BY <1>a, <2>1 DEF RowsSound, Listed
  <2> QED
    BY <1>b, <1>1, <2>1, <2>3, <2>4 DEF Untouched, AllKept
<1>2. CASE k \in DeleteSteps
  <2>1. /\ archived' = archived /\ rows' = rows
        /\ \A t \in Tables : live'[t] = IF t = TableOf(k) THEN live[t] \cup T ELSE live[t]
    BY <1>2, <1>c DEF PutBack, DeleteSteps, DeleteNodes, DeleteDescendants
  <2>2. Untouched(Below(r)) /\ RowsSound' /\ AllKept
    BY <1>a, <1>b, <1>2, <2>1 DEF Untouched, RowsSound, AllKept
  <2>3. CASE k = DeleteNodes
    <3>1. \A n \in d.found["nodes"] : \A a \in Ancestors(n) : Has(rows, a, n)
      BY <1>a, <2>3 DEF StepSound
    <3>2. live'["nodes"] \subseteq live["nodes"] \cup d.found["nodes"]
      BY <1>a, <1>b, <1>2, <2>1, <2>3, TableOfSteps DEF DeleteNodes
    <3>3. Listed'
      BY <2>1, <3>1, <3>2 DEF Listed, Has
    <3> QED
      BY <2>2, <3>3
  <2>4. CASE k # DeleteNodes
    <3>1. live'["nodes"] = live["nodes"]
      BY <1>a, <1>2, <2>1, <2>4, TableFacts
    <3> QED
      BY <2>1, <2>2, <3>1 DEF Listed
  <2> QED
    BY <2>3, <2>4
<1>3. CASE k = DeleteDescendants
  <2>1. rows' = Without(T) \cup T /\ live' = live /\ archived' = archived
    BY <1>3, <1>c DEF PutBack
  <2>2. \A a, n : Has(T, a, n) => n \in Below(r)
    BY <1>b, <1>3 DEF Has
  <2>3. /\ \A a, n : Has(rows, a, n) => Has(rows', a, n)
        /\ \A a, n : Has(rows', a, n) => Has(rows, a, n) \/ Has(T, a, n)
    BY <2>1, Upserted
  <2>4. Listed'
    BY <1>a, <2>1, <2>3 DEF Listed, Has
  <2>5. RowsSound'
    BY <1>b, <1>3, <2>1 DEF RowsSound, Without
  <2> QED
    BY <2>1, <2>2, <2>3, <2>4, <2>5 DEF Untouched, AllKept
<1>4. CASE k >= DeleteLikes
  <2>1. live' = live /\ archived' = archived /\ rows' = rows
    BY <1>4, <1>c DEF PutBack, DeleteLikes, DeleteDescendants
  <2> QED
    BY <2>1 DEF Untouched, RowsSound, Listed, AllKept
<1> QED
  BY <1>1, <1>2, <1>3, <1>4, StepKinds

\* The undo goes on, or breaks off with the step partly undone.
LEMMA CarryBackStep ==
    ASSUME TypeOK, NEW r \in Requests, StepSound(r),
           mode[r] = "backward", step[r] \in Steps,
           NEW T \in SUBSET Items(data[r], step[r]), CarryBack(data[r], step[r], T),
           request' = request, data' = data,
           \/ /\ T = Items(data[r], step[r])
              /\ mode'[r] = "backward" /\ step'[r] = step[r] - 1
           \/ mode'[r] = "dead" /\ step'[r] = step[r]
    PROVE  StepSound(r)'
<1> DEFINE k == step[r]
           d == data[r]
<1>a. Stepping(r) /\ k \in Nat /\ "nodes" \in Tables
  BY TableFacts DEF Stepping, Steps, DeleteElasticData
<1>b. k \in ArchiveSteps \cup DeleteSteps =>
        T \subseteq d.found[TableOf(k)] /\ T \subseteq Below(r)
  BY <1>a, ItemsBelow
<1>c. PutBack(k, T)
  BY CarriedBack
<1>1. Node(r)' = Node(r) /\ Below(r)' = Below(r) /\ data'[r] = d
  BY DEF Node, Below
<1>2. /\ Node(r) \in d.found["nodes"]
      /\ live["nodes"] \cap Below(r) \subseteq d.found["nodes"]
      /\ \A t \in Tables : d.found[t] \subseteq Below(r)
      /\ \A row \in d.rows : row.node \in Ancestors(row.id) /\ row.id \in Below(r)
  BY <1>a DEF StepSound
<1>3. /\ k = DeleteNodes => live'["nodes"] = live["nodes"] \cup T /\ T \subseteq d.found["nodes"]
      /\ k # DeleteNodes => live'["nodes"] = live["nodes"]
  <2>1. CASE k = DeleteNodes
    BY <1>a, <1>b, <1>c, <2>1, TableOfSteps DEF PutBack, DeleteSteps, DeleteNodes
  <2>2. CASE k # DeleteNodes /\ k \in DeleteSteps
    BY <1>a, <1>c, <2>2, TableFacts DEF PutBack
  <2>3. CASE k \notin DeleteSteps
    BY <1>c, <2>3, StepKinds DEF PutBack, DeleteSteps
  <2> QED
    BY <2>1, <2>2, <2>3
<1>4. ASSUME NEW i \in ArchiveSteps, i < step'[r]
      PROVE  d.found[TableOf(i)] \subseteq archived'[TableOf(i)]
  <2>0. TableOf(i) \in Tables /\ i \in Nat
    BY TableFacts DEF ArchiveSteps
  <2>1. i < k
    BY <1>a, <1>4, <2>0
  <2>2. archived'[TableOf(i)] = archived[TableOf(i)]
    <3>1. CASE k \in ArchiveSteps
      <4>0. i # k
        BY <1>a, <2>0, <2>1
      <4>1. TableOf(i) # TableOf(k)
        BY <4>0, <3>1, TableFacts
      <4> QED
        BY <1>c, <2>0, <3>1, <4>1 DEF PutBack
    <3>2. CASE k \notin ArchiveSteps
      BY <1>c, <3>2, StepKinds DEF PutBack
    <3> QED
      BY <3>1, <3>2
  <2> QED
    BY <1>a, <2>1, <2>2 DEF StepSound
<1>5. ASSUME NEW i \in DeleteSteps,
             step'[r] < i \/ (step'[r] = i /\ mode'[r] = "forward")
      PROVE  d.found[TableOf(i)] \subseteq live'[TableOf(i)]
  <2>0. TableOf(i) \in Tables /\ i \in Nat
    BY TableFacts DEF DeleteSteps, DeleteNodes
  <2>1. live[TableOf(i)] \subseteq live'[TableOf(i)]
    BY <1>c, <2>0, StepKinds DEF PutBack
  <2>2. CASE k < i
    BY <1>a, <2>1, <2>2 DEF StepSound
  <2>3. CASE i = k
    <3>1. T = d.found[TableOf(i)]
      BY <1>5, <2>0, <2>3 DEF Items, DeleteSteps, DeleteNodes, DeleteDescendants, DeleteLikes
    <3> QED
      BY <1>c, <2>0, <2>3, <3>1 DEF PutBack
  <2> QED
    BY <1>a, <1>5, <2>0, <2>2, <2>3
<1>6. ASSUME NEW n \in d.found["nodes"], NEW a \in Ancestors(n)
      PROVE  /\ Has(rows', a, n) \/ Has(d.rows, a, n)
             /\ \/ step'[r] <= DeleteNodes
                \/ step'[r] < DeleteDescendants
                \/ step'[r] = DeleteDescendants /\ mode'[r] = "forward"
                => Has(rows', a, n)
  <2>1. /\ Has(rows, a, n) \/ Has(d.rows, a, n)
        /\ k <= DeleteNodes => Has(rows, a, n)
    BY <1>a DEF StepSound
  <2>2. CASE k # DeleteDescendants
    BY <1>a, <1>c, <2>1, <2>2 DEF PutBack, DeleteNodes, DeleteDescendants
  <2>3. CASE k = DeleteDescendants
    <3>1. rows' = Without(T) \cup T
      BY <1>c, <2>3 DEF PutBack
    <3>2. /\ Has(rows, a, n) => Has(rows', a, n)
          /\ Has(T, a, n) => Has(rows', a, n)
      BY <3>1, Upserted
    <3>3. Items(d, k) = d.rows
      BY <2>3 DEF Items, DeleteDescendants, DeleteLikes
    <3>4. CASE T = d.rows
      BY <2>1, <3>2, <3>4
    <3>5. CASE mode'[r] = "dead" /\ step'[r] = k
      BY <2>1, <2>3, <3>2, <3>5 DEF DeleteNodes, DeleteDescendants
    <3> QED
      BY <3>3, <3>4, <3>5
  <2> QED
    BY <2>2, <2>3
<1>7. ASSUME step'[r] >= DeleteDescendants
      PROVE  live'["nodes"] \cap Below(r) = {}
  <2>1. k >= DeleteDescendants
    BY <1>a, <1>7 DEF DeleteDescendants
  <2> QED
    BY <1>a, <1>3, <2>1 DEF StepSound, DeleteDescendants, DeleteNodes
<1> QED
  BY <1>1, <1>2, <1>3, <1>4, <1>5, <1>6, <1>7 DEF StepSound

-----------------------------------------------------------------------------
(* Types *)

\* What the requests read is of the right type, and so is what they write.
LEMMA ReadTypes ==
    ASSUME TypeOK, NEW r \in Requests
    PROVE  /\ Node(r) \in Nodes
           /\ data[r] \in [ids : SUBSET Nodes, rows : SUBSET RowSet,
                           titles : [Nodes -> {"old", "new"}], found : [Tables -> SUBSET Nodes]]
           /\ \A t \in Tables : live[t] \in SUBSET Nodes
           /\ \A R \in SUBSET RowSet : Without(R) \cup R \subseteq RowSet
           /\ \A R : Without(R) \subseteq RowSet
BY DEF TypeOK, Node, Asked, Without

\* The types of the stores.
StoresOK ==
    /\ live \in [Tables -> SUBSET Nodes]
    /\ archived \in [Tables -> SUBSET Nodes]
    /\ title \in [Nodes -> {"old", "new"}]
    /\ rows \subseteq RowSet

\* A table stays a set of nodes when a node is added or some are taken away.
LEMMA TableTypes ==
    ASSUME NEW f \in [Tables -> SUBSET Nodes], NEW t \in Tables, NEW T \in SUBSET Nodes
    PROVE  /\ [f EXCEPT ![t] = @ \cup T] \in [Tables -> SUBSET Nodes]
           /\ [f EXCEPT ![t] = @ \ T] \in [Tables -> SUBSET Nodes]
OBVIOUS

\* The parts of a creation leave the stores of their types.
LEMMA CreateTypes ==
    ASSUME TypeOK, NEW r \in Requests, mode[r] \in {"workflow", "append", "insert"},
           CreatePart(r), UNCHANGED archived
    PROVE  StoresOK'
<1> DEFINE n == request[r].node
<1>0. StoresOK
  BY DEF StoresOK, TypeOK
<1>1. /\ n \in Nodes /\ {n} \in SUBSET Nodes /\ RowsOf(n, "old") \in SUBSET RowSet
      /\ "nodes" \in Tables /\ "workflows" \in Tables
  BY ReadTypes, RowsOfNode, TableOfSteps DEF Node
<1>2. CASE mode[r] = "workflow"
  <2>1. live' = [live EXCEPT !["workflows"] = @ \cup {n}] /\ UNCHANGED <<title, rows>>
    BY <1>2 DEF CreatePart
  <2> QED
    BY <1>0, <1>1, <2>1, TableTypes DEF StoresOK
<1>3. CASE mode[r] = "append"
  <2>1. rows' = Without(RowsOf(n, "old")) \cup RowsOf(n, "old") /\ UNCHANGED <<live, title>>
    BY <1>3 DEF CreatePart
  <2>2. rows' \subseteq RowSet
    BY <1>1, <2>1, ReadTypes
  <2> QED
    BY <1>0, <2>1, <2>2 DEF StoresOK
<1>4. CASE mode[r] = "insert"
  <2>1. /\ live' = [live EXCEPT !["nodes"] = @ \cup {n}]
        /\ title' = [title EXCEPT ![n] = "old"] /\ UNCHANGED rows
    BY <1>4 DEF CreatePart
  <2>2. title' \in [Nodes -> {"old", "new"}]
    BY <1>0, <2>1 DEF StoresOK
  <2>3. live' \in [Tables -> SUBSET Nodes]
    BY <1>0, <1>1, <2>1, TableTypes DEF StoresOK
  <2> QED
    BY <1>0, <2>1, <2>2, <2>3 DEF StoresOK
<1> QED
  BY <1>2, <1>3, <1>4

\* A step or its undo leaves the stores of their types.
LEMMA StepTypes ==
    ASSUME TypeOK, NEW r \in Requests, NEW k \in Steps, NEW T \in SUBSET Items(data[r], k),
           Carry(data[r], k, T) \/ CarryBack(data[r], k, T)
    PROVE  StoresOK'
<1>0. StoresOK
  BY DEF StoresOK, TypeOK
<1>1. CASE k = DeleteDescendants
  <2>1. T \in SUBSET RowSet
    BY <1>1, ReadTypes DEF Items, DeleteDescendants, DeleteLikes
  <2>2. k \notin ArchiveSteps /\ ~(k >= DeleteLikes)
    BY <1>1 DEF ArchiveSteps, DeleteDescendants, DeleteLikes
  <2>3. /\ rows' = Without(T) \/ rows' = Without(T) \cup T
        /\ UNCHANGED <<live, archived, title>>
    BY <1>1, <2>2 DEF Carry, CarryBack
  <2>4. rows' \subseteq RowSet
    BY <2>1, <2>3, ReadTypes
  <2> QED
    BY <1>0, <2>3, <2>4 DEF StoresOK
<1>2. CASE k >= DeleteLikes
  <2>1. k \notin ArchiveSteps /\ k # DeleteDescendants
    BY <1>2 DEF ArchiveSteps, DeleteDescendants, DeleteLikes
  <2>2. UNCHANGED stores
    BY <1>2, <2>1 DEF Carry, CarryBack
  <2> QED
    BY <1>0, <2>2 DEF StoresOK, stores
<1>3. CASE k \in ArchiveSteps \cup DeleteSteps
  <2>0. k # DeleteDescendants /\ ~(k >= DeleteLikes) /\ TableOf(k) \in Tables
    BY <1>3, TableFacts DEF ArchiveSteps, DeleteSteps, DeleteNodes, DeleteDescendants,
                            DeleteLikes
  <2>1. T \in SUBSET Nodes
    BY <2>0, ReadTypes DEF Items
  <2>2. data[r].titles \in [Nodes -> {"old", "new"}]
    BY ReadTypes
  <2>3. CASE k \in ArchiveSteps
    <3>1. /\ \/ archived' = [archived EXCEPT ![TableOf(k)] = @ \cup T]
             \/ archived' = [archived EXCEPT ![TableOf(k)] = @ \ T]
          /\ UNCHANGED <<live, title, rows>>
      <4>1. CASE Carry(data[r], k, T)
        BY <2>0, <2>3, <4>1 DEF Carry
      <4>2. CASE CarryBack(data[r], k, T)
        BY <2>0, <2>3, <4>2 DEF CarryBack
      <4> QED
        BY <4>1, <4>2
    <3>2. archived' \in [Tables -> SUBSET Nodes]
      <4>1. archived \in [Tables -> SUBSET Nodes]
        BY <1>0 DEF StoresOK
      <4> QED
        BY <2>0, <2>1, <3>1, <4>1, TableTypes
    <3> QED
      BY <1>0, <3>1, <3>2 DEF StoresOK
  <2>4. CASE k \notin ArchiveSteps
    <3>1. /\ \/ live' = [live EXCEPT ![TableOf(k)] = @ \cup T]
             \/ live' = [live EXCEPT ![TableOf(k)] = @ \ T]
          /\ \/ title' = title
             \/ title' = [n \in Nodes |-> IF k = DeleteNodes /\ n \in T
                                             THEN data[r].titles[n] ELSE title[n]]
          /\ UNCHANGED <<archived, rows>>
      <4>1. CASE Carry(data[r], k, T)
        BY <2>0, <2>4, <4>1 DEF Carry
      <4>2. CASE CarryBack(data[r], k, T)
        BY <2>0, <2>4, <4>2 DEF CarryBack
      <4> QED
        BY <4>1, <4>2
    <3>2. live' \in [Tables -> SUBSET Nodes]
      BY <1>0, <2>0, <2>1, <3>1, TableTypes DEF StoresOK
    <3>3. title' \in [Nodes -> {"old", "new"}]
      BY <1>0, <2>2, <3>1 DEF StoresOK
    <3> QED
      BY <1>0, <3>1, <3>2, <3>3 DEF StoresOK
  <2> QED
    BY <2>3, <2>4
<1> QED
  BY <1>1, <1>2, <1>3, StepKinds

\* What a step may do besides: it moves one request, and counts faults.
Control(r) ==
    /\ \E m \in {"idle", "done", "workflow", "append", "insert", "rename_rows", "rename_node",
                 "ids", "nodes", "rows", "content", "forward", "backward", "dead", "self"} :
         mode' = [mode EXCEPT ![r] = m]
    /\ request' = request
    /\ \E k \in 0..Finish : step' = [step EXCEPT ![r] = k]
    /\ broken' = broken \/ broken' = broken \cup {Node(r)}
    /\ faults' = faults \/ (faults < MaxFaults /\ faults' = faults + 1)

\* Where it is going is a place a request can be.
LEMMA ControlTypes ==
    ASSUME TypeOK, NEW r \in Requests, Serve(r) \/ Fail(r)
    PROVE  Control(r)
<1>0. /\ step[r] \in 0..Finish
      /\ step' = step => step' = [step EXCEPT ![r] = step[r]]
      /\ request[r].kind \in {"create", "title", "delete"}
      /\ Finish = 17 /\ DeleteElasticData = 16 /\ Steps = 1..16
  BY DEF TypeOK, Asked, Finish, DeleteElasticData, Steps
<1> USE DEF Control, GoTo, At, Fault, Node
<1>1. CASE Arrive(r)
  BY <1>0, <1>1 DEF Arrive, First
<1>2. CASE Create(r)
  BY <1>0, <1>2 DEF Create, NextPart
<1>3. CASE RenameRows(r) \/ RenameNode(r)
  BY <1>0, <1>3 DEF RenameRows, RenameNode
<1>4. CASE FindIds(r) \/ FindNodes(r) \/ FindRows(r)
  BY <1>0, <1>4 DEF FindIds, FindNodes, FindRows
<1>5. CASE FindContent(r)
  BY <1>0, <1>5 DEF FindContent
<1>6. CASE Execute(r)
  <2>1. step[r] + 1 \in 0..Finish
    BY <1>0, <1>6 DEF Execute
  <2> QED
    BY <1>6, <2>1 DEF Execute
<1>7. CASE Finished(r)
  BY <1>0, <1>7 DEF Finished
<1>8. CASE DeleteSelf(r)
  BY <1>0, <1>8 DEF DeleteSelf
<1>9. CASE Undo(r)
  <2>1. step[r] - 1 \in 0..Finish
    BY <1>0, <1>9 DEF Undo
  <2> QED
    BY <1>9, <2>1 DEF Undo
<1>10. CASE RolledBack(r) \/ Recover(r)
  BY <1>0, <1>10 DEF RolledBack, Recover
<1>11. CASE FailCreate(r) \/ FailRenameRows(r) \/ FailRenameNode(r)
  BY <1>0, <1>11 DEF FailCreate, FailRenameRows, FailRenameNode
<1>12. CASE FailFind(r) \/ FailExecute(r) \/ FailUndo(r)
  BY <1>0, <1>12 DEF FailFind, FailExecute, FailUndo
<1>13. CASE FailFinish(r)
  BY <1>0, <1>13 DEF FailFinish
<1> QED
  BY <1>1, <1>2, <1>3, <1>4, <1>5, <1>6, <1>7, <1>8, <1>9, <1>10, <1>11, <1>12, <1>13
     DEF Serve, Fail

\* What is read is of its type, too.
LEMMA DataTypes ==
    ASSUME TypeOK, NEW r \in Requests, Serve(r) \/ Fail(r)
    PROVE  data' \in [Requests -> [ids : SUBSET Nodes, rows : SUBSET RowSet,
                                  titles : [Nodes -> {"old", "new"}],
                                  found : [Tables -> SUBSET Nodes]]]
<1> DEFINE Data == [ids : SUBSET Nodes, rows : SUBSET RowSet,
                    titles : [Nodes -> {"old", "new"}], found : [Tables -> SUBSET Nodes]]
<1>0. data \in [Requests -> Data] /\ "nodes" \in Tables
  BY TableFacts DEF TypeOK
<1>1. ASSUME NEW v \in Data, data' = [data EXCEPT ![r] = v]
      PROVE  data' \in [Requests -> Data]
  BY <1>0, <1>1
<1>2. CASE FindIds(r)
  <2>1. {request[r].node} \cup {row.id : row \in {s \in rows : s.node = request[r].node}}
          \in SUBSET Nodes
    BY ReadTypes DEF TypeOK, Node, RowSet
  <2> QED
    BY <1>0, <1>2, <2>1 DEF FindIds
<1>3. CASE FindNodes(r)
  <2> DEFINE v == [data[r] EXCEPT !.titles = title,
                                  !.found["nodes"] = data[r].ids \cap live["nodes"]]
  <2>1. data' = [data EXCEPT ![r] = v]
    BY <1>0, <1>3 DEF FindNodes
  <2>2. v \in Data
    BY <1>0, ZenonT(60) DEF TypeOK
  <2> QED
    BY <1>1, <2>1, <2>2
<1>4. CASE FindRows(r)
  <2>1. RowsToDelete(request[r].node, data[r].ids) \in SUBSET RowSet
    BY DEF TypeOK, RowsToDelete
  <2> QED
    BY <1>0, <1>4, <2>1 DEF FindRows
<1>5. CASE FindContent(r)
  <2>1. \A t \in Tables : Found(data[r], t) \in SUBSET Nodes
    BY ReadTypes DEF Found
  <2>2. [t \in Tables |-> Found(data[r], t)] \in [Tables -> SUBSET Nodes]
    BY <2>1
  <2> QED
    BY <1>0, <1>5, <2>2 DEF FindContent
<1>6. CASE UNCHANGED data
  BY <1>0, <1>6
<1> HIDE DEF Data
<1>7. UNCHANGED data \/ FindIds(r) \/ FindNodes(r) \/ FindRows(r) \/ FindContent(r)
  BY DEF Serve, Fail, Arrive, Create, RenameRows, RenameNode, Execute, Finished, DeleteSelf,
         Undo, RolledBack, Recover, FailCreate, FailRenameRows, FailRenameNode, FailFind,
         FailExecute, FailUndo, FailFinish
<1> QED
  BY <1>2, <1>3, <1>4, <1>5, <1>6, <1>7 DEF Data

\* Which steps change the stores.
LEMMA StoresChange ==
    ASSUME NEW r \in Requests, Serve(r) \/ Fail(r)
    PROVE  \/ UNCHANGED stores
           \/ Create(r) \/ FailCreate(r)
           \/ RenameRows(r) \/ FailRenameRows(r)
           \/ RenameNode(r) \/ FailRenameNode(r)
           \/ Execute(r) \/ FailExecute(r) \/ Undo(r) \/ FailUndo(r)
           \/ DeleteSelf(r)
BY DEF Serve, Fail, Arrive, FindIds, FindNodes, FindRows, FindContent, Finished, RolledBack,
       Recover, FailFind, FailFinish

\* All of them keep their types.
LEMMA StoresTypeStep ==
    ASSUME TypeOK, NEW r \in Requests, Serve(r) \/ Fail(r)
    PROVE  StoresOK'
<1> DEFINE n == request[r].node
<1>0. /\ n \in Nodes /\ {n} \in SUBSET Nodes /\ "nodes" \in Tables
      /\ StoresOK
  BY ReadTypes, TableFacts DEF Node, StoresOK, TypeOK
<1>1. CASE UNCHANGED stores
  BY <1>0, <1>1 DEF stores, StoresOK
<1>2. CASE Create(r) \/ FailCreate(r)
  <2>1. mode[r] \in {"workflow", "append", "insert"} /\ UNCHANGED archived
    BY <1>2 DEF Create, FailCreate
  <2>2. CreatePart(r) \/ UNCHANGED stores
    BY <1>2 DEF Create, FailCreate, stores
  <2> QED
    BY <1>1, <2>1, <2>2, CreateTypes
<1>3. CASE RenameRows(r) \/ FailRenameRows(r)
  <2>1. RowsOf(n, "new") \in SUBSET RowSet
    BY <1>0, RowsOfNode
  <2>2. PICK new \in SUBSET RowSet : rows' = Without(new) \cup new
    BY <1>3, <2>1 DEF RenameRows, FailRenameRows
  <2>3. rows' \subseteq RowSet
    BY <2>2, ReadTypes
  <2>4. UNCHANGED <<live, archived, title>>
    BY <1>3 DEF RenameRows, FailRenameRows
  <2> QED
    BY <1>0, <2>3, <2>4 DEF StoresOK
<1>4. CASE RenameNode(r) \/ FailRenameNode(r)
  <2>1. SetTitle(n) \/ UNCHANGED <<live, title>>
    BY <1>4 DEF RenameNode, FailRenameNode
  <2>2. UNCHANGED <<archived, rows>>
    BY <1>4 DEF RenameNode, FailRenameNode
  <2>3. live' \in [Tables -> SUBSET Nodes]
    BY <1>0, <2>1, TableTypes DEF SetTitle, StoresOK
  <2>4. title' \in [Nodes -> {"old", "new"}]
    BY <1>0, <2>1 DEF SetTitle, StoresOK
  <2> QED
    BY <1>0, <2>2, <2>3, <2>4 DEF StoresOK
<1>5. CASE Execute(r) \/ FailExecute(r) \/ Undo(r) \/ FailUndo(r)
  <2>1. step[r] \in Steps
    BY <1>5 DEF Execute, FailExecute, Undo, FailUndo
  <2>2. \E T \in SUBSET Items(data[r], step[r]) :
          Carry(data[r], step[r], T) \/ CarryBack(data[r], step[r], T)
    BY <1>5 DEF Execute, FailExecute, Undo, FailUndo
  <2> QED
    BY <2>1, <2>2, StepTypes
<1>6. CASE DeleteSelf(r)
  <2>1. live' = [live EXCEPT !["nodes"] = @ \ {n}] /\ UNCHANGED <<archived, title, rows>>
    BY <1>6 DEF DeleteSelf
  <2> QED
    BY <1>0, <2>1, TableTypes DEF StoresOK
<1> QED
  BY <1>1, <1>2, <1>3, <1>4, <1>5, <1>6, StoresChange

\* Every step keeps the types.
LEMMA TypeStep ==
    ASSUME TypeOK, NEW r \in Requests, Serve(r) \/ Fail(r)
    PROVE  TypeOK'
<1>1. Control(r) /\ Node(r) \in Nodes
  BY ControlTypes, ReadTypes
<1>2. request' \in [Requests -> Asked]
  BY <1>1 DEF Control, TypeOK
<1>3. mode' \in [Requests -> {"idle", "done", "workflow", "append", "insert",
                             "rename_rows", "rename_node", "ids", "nodes", "rows", "content",
                             "forward", "backward", "dead", "self"}]
  BY <1>1 DEF Control, TypeOK
<1>4. step' \in [Requests -> 0..Finish]
  BY <1>1 DEF Control, TypeOK
<1>5. broken' \subseteq Nodes
  BY <1>1 DEF Control, TypeOK
<1>6. faults' \in 0..MaxFaults
  BY <1>1, NodeEditsAssumption DEF Control, TypeOK
<1> QED
  BY <1>2, <1>3, <1>4, <1>5, <1>6, DataTypes, StoresTypeStep DEF TypeOK, StoresOK

-----------------------------------------------------------------------------
(* What each step does to the stores, and to the others *)

\* A deletion touches what is below its node; creation and renaming touch one
\* node and take nothing away.
Effect(r) ==
    \/ UNCHANGED stores
    \/ request[r].kind = "delete" /\ Untouched(Below(r))
    \/ /\ request[r].kind # "delete"
       /\ Untouched({Node(r)})
       /\ live["nodes"] \subseteq live'["nodes"]
       /\ \A a, n : Has(rows, a, n) => Has(rows', a, n)

\* It keeps what is said of the stores as well.
StoresSound(r) == Effect(r) /\ RowsSound' /\ Listed' /\ AllKept

\* Upserting some of the rows of its node.
LEMMA UpsertEffect ==
    ASSUME RowsSound, Listed, NEW r \in Requests, request[r].kind # "delete",
           NEW t, NEW R \in SUBSET RowsOf(Node(r), t),
           rows' = Without(R) \cup R, UNCHANGED <<live, archived>>
    PROVE  StoresSound(r)
<1>1. \A row \in R : row.node \in Ancestors(row.id) /\ row.id = Node(r)
  BY RowsOfNode
<1>2. \A a, n : Has(R, a, n) => n = Node(r)
  BY <1>1 DEF Has
<1>3. /\ \A a, n : Has(rows, a, n) => Has(rows', a, n)
      /\ \A a, n : Has(rows', a, n) => Has(rows, a, n) \/ Has(R, a, n)
  BY Upserted
<1>4. RowsSound'
  BY <1>1 DEF RowsSound, Without
<1>5. Listed'
  BY <1>3 DEF Listed, Has
<1> QED
  BY <1>2, <1>3, <1>4, <1>5 DEF StoresSound, Effect, Untouched, AllKept

\* Writing its node, or something else that belongs to it.
LEMMA InsertEffect ==
    ASSUME TypeOK, RowsSound, Listed, NEW r \in Requests, request[r].kind # "delete",
           NEW t \in Tables, live' = [live EXCEPT ![t] = @ \cup {Node(r)}],
           t = "nodes" => \A a \in Ancestors(Node(r)) : Has(rows, a, Node(r)),
           UNCHANGED <<archived, rows>>
    PROVE  StoresSound(r)
<1>1. \A u \in Tables : live'[u] = IF u = t THEN live[u] \cup {Node(r)} ELSE live[u]
  BY DEF TypeOK
<1>2. live["nodes"] \subseteq live'["nodes"] /\ "nodes" \in Tables
  BY <1>1, TableFacts
<1>3. Untouched({Node(r)})
  BY <1>1 DEF Untouched
<1>4. Listed'
  BY <1>1, <1>2 DEF Listed, Has
<1> QED
  BY <1>1, <1>2, <1>3, <1>4 DEF StoresSound, Effect, RowsSound, AllKept

\* Changing titles only.
LEMMA QuietEffect ==
    ASSUME RowsSound, Listed, NEW r \in Requests, UNCHANGED <<live, archived, rows>>
    PROVE  RowsSound' /\ Listed' /\ AllKept /\ Untouched({})
BY DEF RowsSound, Listed, AllKept, Untouched

\* The parts of a creation.
LEMMA CreateEffect ==
    ASSUME TypeOK, RowsSound, Listed, NEW r \in Requests, RequestSound(r),
           mode[r] \in {"workflow", "append", "insert"}, CreatePart(r), UNCHANGED archived
    PROVE  StoresSound(r) /\ (mode[r] = "append" =>
                                 \A a \in Ancestors(Node(r)) : Has(rows', a, Node(r)))
<1>0. request[r].kind # "delete" /\ "nodes" \in Tables /\ "workflows" \in Tables
  BY TableOfSteps DEF RequestSound, ModeFits
<1>1. CASE mode[r] = "workflow"
  <2>1. live' = [live EXCEPT !["workflows"] = @ \cup {Node(r)}] /\ UNCHANGED <<title, rows>>
    BY <1>1 DEF CreatePart, Node
  <2> QED
    BY <1>0, <1>1, <2>1, InsertEffect
<1>2. CASE mode[r] = "append"
  <2> DEFINE R == RowsOf(Node(r), "old")
  <2>1. rows' = Without(R) \cup R /\ UNCHANGED <<live, title>>
    BY <1>2 DEF CreatePart, Node
  <2>2. \A a \in Ancestors(Node(r)) : Has(R, a, Node(r))
    BY RowsOfNode
  <2>3. \A a, n : Has(R, a, n) => Has(rows', a, n)
    BY <2>1, Upserted
  <2> QED
    BY <1>0, <2>1, <2>2, <2>3, UpsertEffect
<1>3. CASE mode[r] = "insert"
  <2>1. live' = [live EXCEPT !["nodes"] = @ \cup {Node(r)}] /\ UNCHANGED rows
    BY <1>3 DEF CreatePart, Node
  <2>2. \A a \in Ancestors(Node(r)) : Has(rows, a, Node(r))
    BY <1>3 DEF RequestSound, WriteSound
  <2> QED
    BY <1>0, <1>3, <2>1, <2>2, InsertEffect
<1> QED
  BY <1>1, <1>2, <1>3

\* Setting the title of a node that exists.
LEMMA TitleEffect ==
    ASSUME TypeOK, RowsSound, Listed, NEW r \in Requests, RequestSound(r),
           mode[r] = "rename_node", SetTitle(Node(r)), UNCHANGED <<archived, rows>>
    PROVE  StoresSound(r)
<1>1. request[r].kind # "delete" /\ "nodes" \in Tables /\ Node(r) \in live["nodes"]
  BY TableFacts DEF RequestSound, ModeFits, WriteSound
<1>2. live' = [live EXCEPT !["nodes"] = @ \cup {Node(r)}]
  BY DEF SetTitle
<1>3. Node(r) \in Nodes
  BY ReadTypes
<1>4. \A a \in Ancestors(Node(r)) : Has(rows, a, Node(r))
  BY <1>1 DEF Listed, Has
<1> QED
  BY <1>1, <1>2, <1>4, InsertEffect

\* The statement that follows the last step.
LEMMA SelfEffect ==
    ASSUME TypeOK, RowsSound, Listed, NEW r \in Requests, RequestSound(r), DeleteSelf(r)
    PROVE  StoresSound(r)
<1>1. /\ request[r].kind = "delete" /\ "nodes" \in Tables /\ Node(r) \in archived["nodes"]
      /\ Node(r) \in Below(r)
  BY TableFacts DEF DeleteSelf, RequestSound, ModeFits, ReadSound, Below, Subtree
<1>2. /\ \A t \in Tables : live'[t] = IF t = "nodes" THEN live[t] \ {Node(r)} ELSE live[t]
      /\ UNCHANGED <<archived, rows>>
  BY <1>1 DEF DeleteSelf, Node, TypeOK
<1>3. Untouched(Below(r))
  BY <1>1, <1>2 DEF Untouched
<1>4. AllKept
  BY <1>1, <1>2 DEF AllKept
<1>5. RowsSound' /\ Listed'
  BY <1>1, <1>2 DEF RowsSound, Listed
<1> QED
  BY <1>1, <1>3, <1>4, <1>5 DEF StoresSound, Effect

\* Every step of every operation, error and crash.
LEMMA StoresStep ==
    ASSUME TypeOK, RowsSound, Listed, NEW r \in Requests, RequestSound(r), Serve(r) \/ Fail(r)
    PROVE  StoresSound(r)
<1>1. CASE UNCHANGED stores
  BY <1>1, QuietEffect DEF StoresSound, Effect, stores
<1>2. CASE Create(r) \/ FailCreate(r)
  <2>1. mode[r] \in {"workflow", "append", "insert"} /\ UNCHANGED archived
    BY <1>2 DEF Create, FailCreate
  <2>2. CreatePart(r) \/ UNCHANGED stores
    BY <1>2 DEF Create, FailCreate, stores
  <2> QED
    BY <1>1, <2>1, <2>2, CreateEffect
<1>3. CASE RenameRows(r) \/ FailRenameRows(r)
  <2>1. request[r].kind # "delete" /\ UNCHANGED <<live, archived>>
    BY <1>3 DEF RenameRows, FailRenameRows, RequestSound, ModeFits
  <2>2. PICK R \in SUBSET RowsOf(Node(r), "new") : rows' = Without(R) \cup R
    BY <1>3 DEF RenameRows, FailRenameRows, Node
  <2> QED
    BY <2>1, <2>2, UpsertEffect
<1>4. CASE RenameNode(r) \/ FailRenameNode(r)
  <2>1. mode[r] = "rename_node" /\ UNCHANGED <<archived, rows>>
    BY <1>4 DEF RenameNode, FailRenameNode
  <2>2. SetTitle(Node(r)) \/ UNCHANGED stores
    BY <1>4 DEF RenameNode, FailRenameNode, Node, stores
  <2> QED
    BY <1>1, <2>1, <2>2, TitleEffect
<1>5. CASE Execute(r) \/ FailExecute(r)
  <2>1. /\ mode[r] = "forward" /\ step[r] \in Steps
        /\ request[r].kind = "delete" /\ StepSound(r)
    BY <1>5 DEF Execute, FailExecute, RequestSound, ModeFits, Stepping
  <2>2. PICK T \in SUBSET Items(data[r], step[r]) : Carry(data[r], step[r], T)
    BY <1>5 DEF Execute, FailExecute
  <2> QED
    BY <2>1, <2>2, CarryStores DEF StoresSound, Effect
<1>6. CASE Undo(r) \/ FailUndo(r)
  <2>1. /\ mode[r] = "backward" /\ step[r] \in Steps
        /\ request[r].kind = "delete" /\ StepSound(r)
    BY <1>6 DEF Undo, FailUndo, RequestSound, ModeFits, Stepping
  <2>2. PICK T \in SUBSET Items(data[r], step[r]) : CarryBack(data[r], step[r], T)
    BY <1>6 DEF Undo, FailUndo
  <2> QED
    BY <2>1, <2>2, CarryBackStores DEF StoresSound, Effect
<1> QED
  BY <1>1, <1>2, <1>3, <1>4, <1>5, <1>6, SelfEffect, StoresChange

\* There is nothing to say of a request that has not come or has been served.
LEMMA AtRest ==
    ASSUME NEW q \in Requests, mode'[q] = "idle" \/ mode'[q] = "done"
    PROVE  RequestSound(q)'
<1>1. ModeFits(q)'
  BY DEF ModeFits, Reading, Stepping
<1>2. WriteSound(q)'
  BY DEF WriteSound
<1>3. ReadSound(q)'
  BY DEF ReadSound, Reading
<1>4. StepSound(q)'
  BY DEF StepSound, Stepping
<1> QED
  BY <1>1, <1>2, <1>3, <1>4 DEF RequestSound

\* A request that is not served stays as sound as it was.
LEMMA OthersStep ==
    ASSUME TypeOK, KeptApart, NEW r \in Requests, NEW q \in Requests, q # r,
           Busy(r) \/ UNCHANGED stores, Effect(r), Idle(q), RequestSound(q)
    PROVE  RequestSound(q)'
<1>1. CASE UNCHANGED stores
  <2>1. Untouched({})
    BY <1>1 DEF stores, Untouched
  <2> QED
    BY <2>1, SoundElsewhere
<1>2. CASE ~Busy(q)
  <2>1. mode'[q] = "idle" \/ mode'[q] = "done"
    BY <1>2 DEF Idle, Busy
  <2> QED
    BY <2>1, AtRest
<1>3. CASE Busy(q) /\ ~UNCHANGED stores
  <2>1. Apart(r, q) /\ Busy(r)
    BY <1>3 DEF KeptApart
  <2>2. Node(q) \in Below(q) /\ Node(r) \in Below(r)
    BY DEF Below, Subtree
  <2>3. /\ request[r].kind = "delete" => Reach(r) = Below(r)
        /\ request[q].kind = "delete" => Reach(q) = Below(q)
        /\ Node(q) \in Reach(q) /\ Node(r) \in Reach(r)
    BY <2>2 DEF Reach, Below, Node
  <2>4. CASE request[r].kind = "delete"
    <3>1. Reach(q) \cap Below(r) = {} /\ Untouched(Below(r))
      BY <1>3, <2>1, <2>3, <2>4 DEF Apart, Effect
    <3> QED
      BY <2>3, <3>1, SoundElsewhere
  <2>5. CASE request[r].kind # "delete" /\ request[q].kind = "delete"
    <3>1. Node(r) \notin Below(q) /\ Untouched({Node(r)})
      BY <1>3, <2>1, <2>3, <2>5 DEF Apart, Effect
    <3> QED
      BY <2>2, <3>1, SoundElsewhere
  <2>6. CASE request[r].kind # "delete" /\ request[q].kind # "delete"
    BY <1>3, <2>6, SoundWhenGrowing DEF Effect
  <2> QED
    BY <2>4, <2>5, <2>6
<1> QED
  BY <1>1, <1>2, <1>3

-----------------------------------------------------------------------------
(* The request that is served *)

\* Each request has a place, a step and data of its own.
LEMMA Functions ==
    ASSUME TypeOK
    PROVE  /\ mode = [r \in Requests |-> mode[r]]
           /\ step = [r \in Requests |-> step[r]]
           /\ data = [r \in Requests |-> data[r]]
           /\ \A r \in Requests : step[r] \in 0..Finish
BY DEF TypeOK

\* A deletion that reads on: the stores stay, the data fits what they hold.
LEMMA ReadStep ==
    ASSUME TypeOK, RowsSound, Listed, NEW r \in Requests, RequestSound(r),
           FindIds(r) \/ FindNodes(r) \/ FindRows(r)
    PROVE  RequestSound(r)'
<1> USE DEF GoTo
<1> DEFINE n == request[r].node
<1>0. /\ data[r] \in [ids : SUBSET Nodes, rows : SUBSET RowSet,
                       titles : [Nodes -> {"old", "new"}], found : [Tables -> SUBSET Nodes]]
      /\ mode = [q \in Requests |-> mode[q]] /\ data = [q \in Requests |-> data[q]]
      /\ "nodes" \in Tables /\ live["nodes"] \subseteq Nodes
  BY ReadTypes, Functions, TableFacts
<1>r. request[r].kind = "delete" /\ Node(r) \in live["nodes"]
  BY DEF FindIds, FindNodes, FindRows, RequestSound, ModeFits, ReadSound, Reading
<1>1. /\ live' = live /\ rows' = rows /\ request' = request
      /\ Node(r)' = Node(r) /\ Below(r)' = Below(r)
  BY DEF FindIds, FindNodes, FindRows, Node, Below, stores
<1>2. mode'[r] \in {"nodes", "rows", "content"}
  BY <1>0 DEF FindIds, FindNodes, FindRows
<1>3. ModeFits(r)' /\ WriteSound(r)' /\ StepSound(r)'
  BY <1>0, <1>r, <1>1, <1>2 DEF ModeFits, WriteSound, StepSound, Stepping, Reading
<1>4. CASE FindIds(r)
  <2>1. mode'[r] = "nodes"
        /\ data'[r].ids = {n} \cup {row.id : row \in {s \in rows : s.node = n}}
    BY <1>0, <1>4 DEF FindIds
  <2>2. data'[r].ids \subseteq Below(r)
    BY <2>1 DEF Below, Subtree, Node, RowsSound, TypeOK, RowSet
  <2>3. live["nodes"] \cap Below(r) \subseteq data'[r].ids
    BY <1>0, <1>r, <2>1 DEF Below, Subtree, Node, Listed
  <2> QED
    BY <1>r, <1>1, <1>3, <2>1, <2>2, <2>3 DEF ReadSound, Reading, RequestSound
<1>5. CASE FindNodes(r)
  <2>1. /\ mode[r] = "nodes" /\ mode'[r] = "rows"
        /\ data'[r].ids = data[r].ids
        /\ data'[r].found["nodes"] = data[r].ids \cap live["nodes"]
    BY <1>0, <1>5 DEF FindNodes
  <2>2. data[r].ids \subseteq Below(r) /\ live["nodes"] \cap Below(r) \subseteq data[r].ids
    BY <2>1 DEF RequestSound, ReadSound
  <2> QED
    BY <1>r, <1>1, <1>3, <2>1, <2>2 DEF ReadSound, Reading, RequestSound
<1>6. CASE FindRows(r)
  <2>1. /\ mode[r] = "rows" /\ mode'[r] = "content"
        /\ data'[r].ids = data[r].ids /\ data'[r].found = data[r].found
        /\ data'[r].rows = RowsToDelete(n, data[r].ids)
    BY <1>0, <1>6 DEF FindRows
  <2>2. /\ data[r].ids \subseteq Below(r) /\ live["nodes"] \cap Below(r) \subseteq data[r].ids
        /\ data[r].found["nodes"] = live["nodes"] \cap Below(r)
    BY <2>1 DEF RequestSound, ReadSound
  <2>3. \A row \in data'[r].rows : row.node \in Ancestors(row.id) /\ row.id \in Below(r)
    BY <2>1, <2>2 DEF RowsToDelete, RowsSound
  <2> QED
    BY <1>r, <1>1, <1>3, <2>1, <2>2, <2>3 DEF ReadSound, Reading, RequestSound
<1> QED
  BY <1>4, <1>5, <1>6

\* The deletion starts with all it will need.
LEMMA StartStep ==
    ASSUME TypeOK, RowsSound, Listed, NEW r \in Requests, RequestSound(r), FindContent(r)
    PROVE  RequestSound(r)'
<1> DEFINE d == data[r]
<1>0. /\ mode[r] = "content" /\ request[r].kind = "delete" /\ "nodes" \in Tables
      /\ Node(r) \in live["nodes"] /\ Node(r) \in Below(r)
      /\ d.ids \subseteq Below(r) /\ live["nodes"] \cap Below(r) \subseteq d.ids
      /\ d.found["nodes"] = live["nodes"] \cap Below(r)
      /\ \A row \in d.rows : row.node \in Ancestors(row.id) /\ row.id \in Below(r)
  BY TableFacts DEF FindContent, RequestSound, ModeFits, ReadSound, Reading, Below, Subtree
<1>1. /\ UNCHANGED <<stores, request>> /\ Node(r)' = Node(r) /\ Below(r)' = Below(r)
      /\ mode'[r] = "forward" /\ step'[r] = 1
  BY DEF FindContent, At, GoTo, Node, Below, TypeOK
<1>2. /\ data'[r].rows = d.rows
      /\ \A t \in Tables : data'[r].found[t] = Found(d, t)
  BY DEF FindContent, TypeOK
<1>3. /\ data'[r].found["nodes"] = live["nodes"] \cap Below(r)
      /\ \A t \in Tables : data'[r].found[t] \subseteq Below(r) \cap live[t]
  BY <1>0, <1>2 DEF Found
<1>4. ModeFits(r)' /\ WriteSound(r)' /\ ReadSound(r)'
  BY <1>0, <1>1 DEF ModeFits, WriteSound, ReadSound, Reading, Stepping, Finish,
                    DeleteElasticData
<1>5. \A k \in DeleteSteps : data'[r].found[TableOf(k)] \subseteq live[TableOf(k)]
  BY <1>3, TableFacts
<1>6. \A m \in data'[r].found["nodes"] : \A a \in Ancestors(m) : Has(rows, a, m)
  BY <1>3 DEF Listed, Has
<1>7. StepSound(r)'
  BY <1>0, <1>1, <1>2, <1>3, <1>5, <1>6
     DEF StepSound, Stepping, ArchiveSteps, DeleteDescendants, stores
<1> QED
  BY <1>4, <1>7 DEF RequestSound

\* A deletion on its way and back.
LEMMA DeletionStep ==
    ASSUME TypeOK, Listed, NEW r \in Requests, RequestSound(r),
           Execute(r) \/ FailExecute(r) \/ Undo(r) \/ FailUndo(r)
    PROVE  RequestSound(r)'
<1> USE DEF GoTo, At
<1>0. /\ mode = [q \in Requests |-> mode[q]] /\ step = [q \in Requests |-> step[q]]
      /\ step[r] \in Steps /\ mode[r] \in {"forward", "backward"} /\ StepSound(r)
      /\ request[r].kind = "delete" /\ request' = request /\ data' = data
      /\ Finish = 17 /\ DeleteElasticData = 16 /\ Steps = 1..16
  BY Functions DEF Execute, FailExecute, Undo, FailUndo, RequestSound, ModeFits, Stepping, Finish,
                   DeleteElasticData, Steps
<1>1. CASE Execute(r)
  <2>1. /\ mode[r] = "forward" /\ mode'[r] = "forward" /\ step'[r] = step[r] + 1
        /\ Carry(data[r], step[r], Items(data[r], step[r]))
    BY <1>0, <1>1 DEF Execute
  <2>2. StepSound(r)'
    BY <1>0, <2>1, CarryStep
  <2>3. ModeFits(r)' /\ WriteSound(r)' /\ ReadSound(r)'
    BY <1>0, <2>1 DEF ModeFits, WriteSound, ReadSound, Reading, Stepping
  <2> QED
    BY <2>2, <2>3 DEF RequestSound
<1>2. CASE FailExecute(r)
  <2>1. mode[r] = "forward" /\ mode'[r] \in {"backward", "dead"} /\ step'[r] = step[r]
    BY <1>0, <1>2 DEF FailExecute
  <2>2. PICK T \in SUBSET Items(data[r], step[r]) : Carry(data[r], step[r], T)
    BY <1>2 DEF FailExecute
  <2>3. StepSound(r)'
    BY <1>0, <2>1, <2>2, CarryStep
  <2>4. ModeFits(r)' /\ WriteSound(r)' /\ ReadSound(r)'
    BY <1>0, <2>1 DEF ModeFits, WriteSound, ReadSound, Reading, Stepping
  <2> QED
    BY <2>3, <2>4 DEF RequestSound
<1>3. CASE Undo(r)
  <2>1. /\ mode[r] = "backward" /\ mode'[r] = "backward" /\ step'[r] = step[r] - 1
        /\ CarryBack(data[r], step[r], Items(data[r], step[r]))
    BY <1>0, <1>3 DEF Undo
  <2>2. StepSound(r)'
    BY <1>0, <2>1, CarryBackStep
  <2>3. ModeFits(r)' /\ WriteSound(r)' /\ ReadSound(r)'
    BY <1>0, <2>1 DEF ModeFits, WriteSound, ReadSound, Reading, Stepping
  <2> QED
    BY <2>2, <2>3 DEF RequestSound
<1>4. CASE FailUndo(r)
  <2>1. mode[r] = "backward" /\ mode'[r] = "dead" /\ step'[r] = step[r]
    BY <1>0, <1>4 DEF FailUndo
  <2>2. PICK T \in SUBSET Items(data[r], step[r]) : CarryBack(data[r], step[r], T)
    BY <1>4 DEF FailUndo
  <2>3. StepSound(r)'
    BY <1>0, <2>1, <2>2, CarryBackStep
  <2>4. ModeFits(r)' /\ WriteSound(r)' /\ ReadSound(r)'
    BY <1>0, <2>1 DEF ModeFits, WriteSound, ReadSound, Reading, Stepping
  <2> QED
    BY <2>3, <2>4 DEF RequestSound
<1> QED
  BY <1>1, <1>2, <1>3, <1>4

\* A deletion that turns round at Finish or is taken up from its log.
LEMMA TurnStep ==
    ASSUME TypeOK, NEW r \in Requests, RequestSound(r), Recover(r) \/ FailFinish(r)
    PROVE  RequestSound(r)'
<1> USE DEF GoTo, At
<1>s. /\ mode = [q \in Requests |-> mode[q]] /\ step = [q \in Requests |-> step[q]]
      /\ Finish = 17 /\ DeleteElasticData = 16 /\ Steps = 1..16
  BY Functions DEF Finish, DeleteElasticData, Steps
<1>0. /\ UNCHANGED <<stores, request, data>> /\ Node(r)' = Node(r) /\ Below(r)' = Below(r)
      /\ request[r].kind = "delete" /\ StepSound(r) /\ Stepping(r) /\ mode'[r] = "backward"
  BY <1>s DEF Recover, FailFinish, RequestSound, ModeFits, Stepping, Node, Below
<1>1. /\ step'[r] \in 0..16
      /\ \/ step'[r] = step[r] /\ mode[r] = "dead"
         \/ step'[r] = 16 /\ step[r] = 17
  BY <1>s, <1>0 DEF Recover, FailFinish, RequestSound, ModeFits
<1>2. ModeFits(r)' /\ WriteSound(r)' /\ ReadSound(r)'
  BY <1>s, <1>0, <1>1 DEF ModeFits, WriteSound, ReadSound, Reading, Stepping
<1>3. \A k \in DeleteSteps : k < 16
  BY DEF DeleteSteps, DeleteNodes
<1>4. StepSound(r)'
  <2>1. live' = live /\ archived' = archived /\ rows' = rows /\ data' = data
    BY <1>0 DEF stores
  <2>2. CASE step'[r] = step[r] /\ mode[r] = "dead"
    BY <1>0, <2>1, <2>2 DEF StepSound
  <2>3. CASE step'[r] = 16 /\ step[r] = 17
    <3>1. /\ \A k \in ArchiveSteps : k < 17
          /\ \A k \in DeleteSteps : ~(16 < k \/ (16 = k /\ FALSE))
          /\ ~(16 <= DeleteNodes) /\ ~(16 < DeleteDescendants) /\ 16 # DeleteDescendants
          /\ 17 >= DeleteDescendants
      BY <1>3 DEF ArchiveSteps, DeleteSteps, DeleteNodes, DeleteDescendants
    <3> QED
      BY <1>0, <2>1, <2>3, <3>1 DEF StepSound
  <2> QED
    BY <1>1, <2>2, <2>3
<1> QED
  BY <1>2, <1>4 DEF RequestSound

\* Every step of the request itself.
LEMMA OwnStep ==
    ASSUME TypeOK, RowsSound, Listed, NEW r \in Requests, RequestSound(r), Serve(r) \/ Fail(r)
    PROVE  RequestSound(r)'
<1> USE DEF GoTo, At
<1>0. /\ mode = [q \in Requests |-> mode[q]] /\ request[r].kind \in {"create", "title", "delete"}
      /\ request' = request /\ Node(r)' = Node(r)
  <2>1. request[r].kind \in {"create", "title", "delete"}
    BY DEF TypeOK, Asked
  <2> QED
    BY <2>1, Functions, ControlTypes DEF Control, Node
<1>1. CASE Arrive(r)
  <2>1. CASE mode'[r] = "done"
    BY <2>1, AtRest
  <2>2. CASE mode'[r] # "done"
    <3>1. /\ mode'[r] = First(request[r].kind) /\ UNCHANGED live
          /\ request[r].kind # "create" => Node(r) \in live["nodes"]
      BY <1>0, <1>1, <2>2 DEF Arrive, Needed, Node, stores
    <3>2. /\ request[r].kind = "create" => mode'[r] = "workflow"
          /\ request[r].kind = "title" => mode'[r] = "rename_rows"
          /\ request[r].kind = "delete" => mode'[r] = "ids"
      BY <3>1 DEF First
    <3>3. ModeFits(r)' /\ WriteSound(r)'
      BY <1>0, <3>1, <3>2 DEF ModeFits, WriteSound, Reading, Stepping
    <3>4. ReadSound(r)' /\ StepSound(r)'
      BY <1>0, <3>1, <3>2 DEF ReadSound, StepSound, Reading, Stepping
    <3> QED
      BY <3>3, <3>4 DEF RequestSound
  <2> QED
    BY <2>1, <2>2
<1>2. CASE Create(r)
  <2>0. /\ mode[r] \in {"workflow", "append", "insert"} /\ mode'[r] = NextPart(mode[r])
        /\ request[r].kind = "create" /\ UNCHANGED archived /\ CreatePart(r)
    BY <1>0, <1>2 DEF Create, RequestSound, ModeFits
  <2>1. CASE mode[r] = "insert"
    BY <2>0, <2>1, AtRest DEF NextPart
  <2>2. CASE mode[r] \in {"workflow", "append"}
    <3>1. /\ mode[r] = "workflow" => mode'[r] = "append"
          /\ mode[r] = "append" => mode'[r] = "insert"
      BY <2>0 DEF NextPart
    <3>2. mode[r] = "append" => \A a \in Ancestors(Node(r)) : Has(rows', a, Node(r))
      BY <2>0, CreateEffect
    <3>3. ModeFits(r)' /\ WriteSound(r)'
      BY <1>0, <2>0, <2>2, <3>1, <3>2 DEF ModeFits, WriteSound, Reading, Stepping
    <3>4. ReadSound(r)' /\ StepSound(r)'
      BY <2>2, <3>1 DEF ReadSound, StepSound, Reading, Stepping
    <3> QED
      BY <3>3, <3>4 DEF RequestSound
  <2> QED
    BY <2>0, <2>1, <2>2
<1>3. CASE RenameRows(r) \/ FailRenameRows(r)
  <2>0. /\ mode'[r] \in {"rename_node", "done"} /\ request[r].kind = "title"
        /\ Node(r) \in live["nodes"] /\ UNCHANGED live
    BY <1>0, <1>3 DEF RenameRows, FailRenameRows, RequestSound, ModeFits, WriteSound
  <2>1. CASE mode'[r] = "done"
    BY <2>1, AtRest
  <2>2. CASE mode'[r] = "rename_node"
    <3>1. ModeFits(r)' /\ WriteSound(r)'
      BY <1>0, <2>0, <2>2 DEF ModeFits, WriteSound, Reading, Stepping
    <3>2. ReadSound(r)' /\ StepSound(r)'
      BY <2>2 DEF ReadSound, StepSound, Reading, Stepping
    <3> QED
      BY <3>1, <3>2 DEF RequestSound
  <2> QED
    BY <2>0, <2>1, <2>2
<1>4. CASE Finished(r)
  <2>1. /\ Node(r) \in data[r].found["nodes"] /\ request[r].kind = "delete"
        /\ \A k \in ArchiveSteps : k < step[r] =>
              data[r].found[TableOf(k)] \subseteq archived[TableOf(k)]
    BY <1>4 DEF Finished, RequestSound, ModeFits, StepSound, Stepping
  <2>2. Node(r) \in archived["nodes"]
    BY <1>4, <2>1, TableOfSteps DEF Finished, Finish, DeleteElasticData, ArchiveSteps
  <2>3. mode'[r] = "self" /\ UNCHANGED archived
    BY <1>0, <1>4 DEF Finished, stores
  <2>4. ModeFits(r)' /\ WriteSound(r)' /\ ReadSound(r)'
    BY <1>0, <2>1, <2>2, <2>3 DEF ModeFits, WriteSound, ReadSound, Reading, Stepping
  <2>5. StepSound(r)'
    BY <2>3 DEF StepSound, Stepping
  <2> QED
    BY <2>4, <2>5 DEF RequestSound
<1>5. CASE RenameNode(r) \/ DeleteSelf(r) \/ RolledBack(r) \/ FailCreate(r) \/ FailRenameNode(r)
           \/ FailFind(r)
  <2>1. mode'[r] = "done"
    BY <1>0, <1>5 DEF RenameNode, DeleteSelf, RolledBack, FailCreate, FailRenameNode, FailFind
  <2> QED
    BY <2>1, AtRest
<1> QED
  BY <1>1, <1>2, <1>3, <1>4, <1>5, ReadStep, StartStep, DeletionStep, TurnStep DEF Serve, Fail

-----------------------------------------------------------------------------
(* The system *)

\* A request that comes keeps away from those being served, and they from it.
LEMMA KeptApartStep ==
    ASSUME ~Racing, TypeOK, KeptApart, NEW r \in Requests, Serve(r) \/ Fail(r)
    PROVE  KeptApart'
<1>1. /\ request' = request
      /\ \A q \in Requests : q # r => mode'[q] = mode[q]
  BY ControlTypes, Functions DEF Control
<1>2. \A q, p \in Requests : Apart(q, p)' = Apart(q, p) /\ Apart(q, p) = Apart(p, q)
  BY <1>1 DEF Apart, Reach
<1>3. \A q \in Requests : q # r => Busy(q)' = Busy(q)
  BY <1>1 DEF Busy
<1>4. CASE Arrive(r)
  <2>1. \A q \in Requests : Busy(q) => Apart(r, q)
    BY <1>4 DEF Arrive
  <2> QED
    BY <1>2, <1>3, <2>1 DEF KeptApart
<1>5. CASE ~Arrive(r)
  <2>1. Busy(r)
    BY <1>5 DEF Serve, Fail, Busy, Create, RenameRows, RenameNode, FindIds, FindNodes, FindRows,
           FindContent, Execute, Finished, DeleteSelf, Undo, RolledBack, Recover, FailCreate,
           FailRenameRows, FailRenameNode, FailFind, FailExecute, FailUndo, FailFinish
  <2> QED
    BY <1>2, <1>3, <2>1 DEF KeptApart
<1> QED
  BY <1>4, <1>5

\* Only a request that is being served changes the stores.
LEMMA BusyOrQuiet ==
    ASSUME NEW r \in Requests, Serve(r) \/ Fail(r)
    PROVE  Busy(r) \/ UNCHANGED stores
<1>1. CASE Arrive(r)
  BY <1>1 DEF Arrive
<1>2. CASE ~Arrive(r)
  BY <1>2 DEF Serve, Fail, Busy, Create, RenameRows, RenameNode, FindIds, FindNodes, FindRows,
         FindContent, Execute, Finished, DeleteSelf, Undo, RolledBack, Recover, FailCreate,
         FailRenameRows, FailRenameNode, FailFind, FailExecute, FailUndo, FailFinish
<1> QED
  BY <1>1, <1>2

\* A request touches its own data only.
LEMMA OthersIdle ==
    ASSUME TypeOK, NEW r \in Requests, NEW q \in Requests, q # r, Serve(r) \/ Fail(r)
    PROVE  Idle(q)
<1>1. /\ request' = request /\ mode'[q] = mode[q] /\ step'[q] = step[q]
  BY ControlTypes, Functions DEF Control
<1>2. data'[q] = data[q]
  <2>1. UNCHANGED data \/ FindIds(r) \/ FindNodes(r) \/ FindRows(r) \/ FindContent(r)
    BY DEF Serve, Fail, Arrive, Create, RenameRows, RenameNode, Execute, Finished, DeleteSelf,
           Undo, RolledBack, Recover, FailCreate, FailRenameRows, FailRenameNode, FailFind,
           FailExecute, FailUndo, FailFinish
  <2>2. \E v : data' = data \/ data' = [data EXCEPT ![r] = v]
    BY <2>1 DEF FindIds, FindNodes, FindRows, FindContent
  <2> QED
    BY <2>2, Functions
<1> QED
  BY <1>1, <1>2 DEF Idle

\* The invariant holds at first: every node there is, with its rows, and no
\* request has come.
LEMMA InitInv == Init => EditsInv
<1> SUFFICES ASSUME Init PROVE EditsInv
  OBVIOUS
<1> DEFINE existing == Nodes \ {request[r].node : r \in
                                 {q \in Requests : request[q].kind = "create"}}
<1>0. /\ request \in [Requests -> Asked]
      /\ live = [t \in Tables |-> existing]
      /\ rows = UNION {RowsOf(n, "old") : n \in existing}
      /\ existing \subseteq Nodes
  BY NodeEditsAssumption DEF Init, IsPlan
<1> HIDE DEF existing
<1>1. \A n \in existing : /\ RowsOf(n, "old") \subseteq rows /\ RowsOf(n, "old") \subseteq RowSet
                          /\ \A a \in Ancestors(n) : Has(RowsOf(n, "old"), a, n)
  BY <1>0, RowsOfNode
<1>2. TypeOK
  <2>1. rows \subseteq RowSet
    BY <1>0, <1>1
  <2>2. [n \in Nodes |-> "old"] \in [Nodes -> {"old", "new"}]
    OBVIOUS
  <2>3. /\ live \in [Tables -> SUBSET Nodes] /\ archived \in [Tables -> SUBSET Nodes]
        /\ title \in [Nodes -> {"old", "new"}]
    BY <1>0, <2>2 DEF Init
  <2>4. step \in [Requests -> 0..Finish] /\ faults \in 0..MaxFaults /\ broken \subseteq Nodes
    BY NodeEditsAssumption DEF Init, Finish, DeleteElasticData
  <2>5. data \in [Requests -> [ids : SUBSET Nodes, rows : SUBSET RowSet,
                              titles : [Nodes -> {"old", "new"}],
                              found : [Tables -> SUBSET Nodes]]]
    BY <2>3 DEF Init
  <2>6. mode = [r \in Requests |-> "idle"]
    BY DEF Init
  <2> QED
    BY <1>0, <2>1, <2>3, <2>4, <2>5, <2>6 DEF TypeOK
<1>3. KeptApart
  BY DEF Init, KeptApart, Busy
<1>4. RowsSound
  BY <1>0, RowsOfNode DEF RowsSound
<1>5. RequestsSound
  BY DEF Init, RequestsSound, ModeFits, WriteSound, ReadSound, StepSound, Reading, Stepping
<1>6. Listed
  BY <1>0, <1>1, TableFacts DEF Listed, Has
<1> QED
  BY <1>2, <1>3, <1>4, <1>5, <1>6 DEF EditsInv

\* Every step keeps it and loses nothing.
LEMMA InvStep == ~Racing /\ EditsInv /\ [Next]_vars => EditsInv' /\ (UNCHANGED vars \/ AllKept)
<1> SUFFICES ASSUME ~Racing, EditsInv, [Next]_vars
             PROVE  EditsInv' /\ (UNCHANGED vars \/ AllKept)
  OBVIOUS
<1>1. CASE UNCHANGED vars
  <2> USE <1>1 DEF EditsInv, vars
  <2>1. TypeOK'
    BY DEF TypeOK
  <2>2. KeptApart'
    BY DEF KeptApart, Busy, Apart, Reach
  <2>3. RowsSound' /\ Listed'
    BY DEF RowsSound, Listed
  <2>4. Untouched({}) /\ \A r \in Requests : Idle(r)
    BY DEF Untouched, Idle
  <2>5. RequestsSound'
    BY <2>4, SoundElsewhere DEF RequestsSound, RequestSound
  <2> QED
    BY <2>1, <2>2, <2>3, <2>5
<1>2. ASSUME NEW r \in Requests, Serve(r) \/ Fail(r)
      PROVE  EditsInv' /\ AllKept
  <2>0. TypeOK /\ KeptApart /\ RowsSound /\ Listed /\ \A q \in Requests : RequestSound(q)
    BY DEF EditsInv, RequestsSound, RequestSound
  <2>1. StoresSound(r)
    BY <1>2, <2>0, StoresStep
  <2>2. RequestSound(r)'
    BY <1>2, <2>0, OwnStep
  <2>3. ASSUME NEW q \in Requests, q # r
        PROVE  RequestSound(q)'
    BY <1>2, <2>0, <2>1, <2>3, OthersIdle, OthersStep, BusyOrQuiet DEF StoresSound
  <2>4. RequestsSound'
    BY <2>2, <2>3 DEF RequestsSound, RequestSound
  <2>5. TypeOK' /\ KeptApart'
    BY <1>2, <2>0, TypeStep, KeptApartStep
  <2> QED
    BY <2>1, <2>4, <2>5 DEF EditsInv, StoresSound
<1> QED
  BY <1>1, <1>2 DEF Next

\* What holds throughout creations, renamings and deletions (NodeDelete::new,
\* delete and recover), however their calls interleave and fail.
THEOREM EditsInvariant ==
    ASSUME ~Racing
    PROVE  Spec => []EditsInv
<1>1. EditsInv /\ [Next]_vars => EditsInv'
  BY InvStep
<1> QED
  BY <1>1, InitInv, PTL DEF Spec

\* A node that exists is listed at each of its ancestors, at all times: after
\* before_insert and its insert, in the middle of a deletion and of its undo.
THEOREM AlwaysListed ==
    ASSUME ~Racing
    PROVE  Spec => []Listed
<1>1. EditsInv => Listed
  BY DEF EditsInv
<1> QED
  BY <1>1, EditsInvariant, PTL

\* No step, error or crash takes a row out of its table and its archive both
\* (the order of the archive steps, the delete steps and their undos).
THEOREM NeverLost ==
    ASSUME ~Racing
    PROVE  Spec => NothingLost
<1>1. EditsInv /\ [Next]_vars
        => [\A t \in Tables :
              live[t] \cup archived[t] \subseteq (live[t] \cup archived[t])']_vars
  BY InvStep DEF AllKept
<1> QED
  BY <1>1, EditsInvariant, PTL DEF Spec, NothingLost

\* The tables, the archives and what the requests have read hold nodes, rows
\* and titles, whatever meets what, and a request is where it can be.
THEOREM Types == Spec => []TypeOK
<1>1. Init => TypeOK
  BY InitInv DEF EditsInv
<1>2. TypeOK /\ [Next]_vars => TypeOK'
  <2> SUFFICES ASSUME TypeOK, [Next]_vars PROVE TypeOK'
    OBVIOUS
  <2>1. CASE UNCHANGED vars
    BY <2>1 DEF vars, TypeOK
  <2>2. ASSUME NEW r \in Requests, Serve(r) \/ Fail(r)
        PROVE  TypeOK'
    BY <2>2, TypeStep
  <2> QED
    BY <2>1, <2>2 DEF Next
<1> QED
  BY <1>1, <1>2, PTL DEF Spec

-----------------------------------------------------------------------------
(* What is left when a deletion has been undone *)

\* The nodes whose rows, title and content a request may change.
Place(r) == IF request[r].kind = "delete" THEN Below(r) ELSE {Node(r)}

\* The step k is still to be carried out, or has been undone.
Ahead(r, k) == step[r] < k \/ (step[r] = k /\ mode[r] = "forward")

\* A node that does not exist yet; it is in no archive and no deletion knows
\* of it.
Making(r) == request[r].kind = "create" /\ mode[r] \in {"idle", "workflow", "append", "insert"}
Fresh(r) ==
    Making(r) =>
      /\ \A t \in Tables : Node(r) \notin archived[t]
      /\ \A t \in Tables : Node(r) \in live[t] => t = "workflows" /\ mode[r] # "idle"
      /\ \A q \in Requests : Stepping(q) => \A t \in Tables : Node(r) \notin data[q].found[t]

\* No two requests create the same node.
Distinct ==
    \A r, q \in Requests :
        r # q /\ request[r].kind = "create" /\ request[q].kind = "create" => Node(r) # Node(q)

\* What is both in its table and in the archive is in the hands of a deletion.
Twice ==
    \A t \in Tables : \A n \in live[t] \cap archived[t] :
        \E r \in Requests : Stepping(r) /\ n \in data[r].found[t]

\* What a deletion has not archived yet is not in the archives, what it has
\* deleted is not in the tables, and it knows the titles and the rows.
Undoable(r) ==
    LET d == data[r] IN
    /\ mode[r] \in {"rows", "content"} \/ Stepping(r) =>
         \A n \in Below(r) : d.titles[n] = title[n]
    /\ mode[r] = "content" => d.rows \subseteq rows
    /\ Stepping(r) =>
         /\ \A k \in ArchiveSteps :
              Ahead(r, k) => d.found[TableOf(k)] \cap archived[TableOf(k)] = {}
         /\ \A k \in DeleteSteps :
              step[r] > k => d.found[TableOf(k)] \cap live[TableOf(k)] = {}
         /\ Ahead(r, DeleteDescendants) => d.rows \subseteq rows

UndoInv == Distinct /\ Twice /\ \A r \in Requests : Fresh(r) /\ Undoable(r)


\* An undo gives titles back to the nodes that it puts back, and to no other.
LEMMA TitlesBack ==
    ASSUME TypeOK, NEW r \in Requests, StepSound(r), Stepping(r), step[r] \in Steps,
           NEW T \in SUBSET Items(data[r], step[r]), CarryBack(data[r], step[r], T)
    PROVE  /\ \A n \in Nodes : title'[n] = title[n] \/ title'[n] = data[r].titles[n]
           /\ \A n \in Nodes \ Below(r) : title'[n] = title[n]
<1> DEFINE k == step[r]
<1>1. CASE k \in DeleteSteps
  <2>1. T \subseteq Below(r)
    BY <1>1, ItemsBelow
  <2>2. k \notin ArchiveSteps /\ k # DeleteDescendants /\ ~(k >= DeleteLikes)
    BY <1>1 DEF ArchiveSteps, DeleteSteps, DeleteNodes, DeleteDescendants, DeleteLikes
  <2>3. title' = [n \in Nodes |-> IF k = DeleteNodes /\ n \in T THEN data[r].titles[n]
                                                                 ELSE title[n]]
    BY <2>2 DEF CarryBack
  <2> QED
    BY <2>1, <2>3
<1>2. CASE k \notin DeleteSteps
  <2>1. k \in ArchiveSteps \/ k = DeleteDescendants \/ k >= DeleteLikes
    BY <1>2, StepKinds
  <2>2. title' = title
    <3> USE DEF DeleteDescendants, DeleteLikes, ArchiveSteps
    <3>1. CASE k = DeleteDescendants
      BY <3>1 DEF CarryBack
    <3>2. CASE k # DeleteDescendants /\ k \in ArchiveSteps
      BY <3>2 DEF CarryBack
    <3>3. CASE k # DeleteDescendants /\ k \notin ArchiveSteps
      BY <2>1, <3>3 DEF CarryBack, stores
    <3> QED
      BY <3>1, <3>2, <3>3
  <2> QED
    BY <2>2
<1> QED
  BY <1>1, <1>2

\* Every table has its archive step and its delete step.
LEMMA EveryTable ==
    ASSUME NEW t \in Tables
    PROVE  /\ \E k \in ArchiveSteps : TableOf(k) = t
           /\ \E k \in DeleteSteps : TableOf(k) = t
<1>1. ArchiveSteps = {1, 2, 3, 4, 5, 6} /\ DeleteSteps = {7, 9, 10, 11, 12, 13}
  BY DEF ArchiveSteps, DeleteSteps, DeleteNodes
<1> QED
  BY <1>1, TableOfSteps

\* Nothing but the rows and titles of nodes of S changes.
Intact(S) ==
    /\ \A row : row.id \notin S => (row \in rows' <=> row \in rows)
    /\ \A n \in Nodes \ S : title'[n] = title[n]

\* Deleting rows or upserting them leaves the rows of other nodes.
LEMMA OtherRows ==
    ASSUME NEW S, NEW R, \A row \in R : row.id \in S,
           rows' = Without(R) \/ rows' = Without(R) \cup R
    PROVE  \A row : row.id \notin S => (row \in rows' <=> row \in rows)
BY DEF Without, SameKey

\* A request changes only what belongs to the nodes of its place.
LEMMA OnlyThere ==
    ASSUME TypeOK, RowsSound, Listed, NEW r \in Requests, RequestSound(r), Serve(r) \/ Fail(r)
    PROVE  Untouched(Place(r)) /\ Intact(Place(r))
<1> DEFINE n == Node(r)
<1>0. Effect(r) /\ n \in Place(r) /\ title = [m \in Nodes |-> title[m]] /\ n \in Nodes
  BY StoresStep, ReadTypes DEF StoresSound, Place, Below, Subtree, TypeOK
<1>1. Untouched(Place(r))
  <2>1. CASE UNCHANGED stores
    BY <2>1 DEF stores, Untouched
  <2>2. CASE ~UNCHANGED stores
    BY <1>0, <2>2 DEF Effect, Place
  <2> QED
    BY <2>1, <2>2
<1> SUFFICES Intact(Place(r))
  BY <1>1
<1>2. ASSUME UNCHANGED <<rows, title>>
      PROVE  Intact(Place(r))
  BY <1>2 DEF Intact
<1>3. ASSUME NEW R, \A row \in R : row.id \in Place(r), UNCHANGED title,
             rows' = Without(R) \/ rows' = Without(R) \cup R
      PROVE  Intact(Place(r))
  BY <1>3, OtherRows DEF Intact
<1>4. ASSUME NEW t, title' = [title EXCEPT ![n] = t], UNCHANGED rows
      PROVE  Intact(Place(r))
  BY <1>0, <1>4 DEF Intact
<1>5. CASE Create(r) \/ FailCreate(r)
  <2>1. mode[r] \in {"workflow", "append", "insert"} /\ (CreatePart(r) \/ UNCHANGED <<rows, title>>)
    BY <1>5 DEF Create, FailCreate
  <2>2. \A row \in RowsOf(n, "old") : row.id \in Place(r)
    BY <1>0, RowsOfNode
  <2>3. CASE mode[r] = "workflow" /\ CreatePart(r)
    BY <1>2, <2>3 DEF CreatePart
  <2>4. CASE mode[r] = "append" /\ CreatePart(r)
    BY <1>3, <2>2, <2>4 DEF CreatePart, Node
  <2>5. CASE mode[r] = "insert" /\ CreatePart(r)
    BY <1>4, <2>5 DEF CreatePart, Node
  <2> QED
    BY <1>2, <2>1, <2>3, <2>4, <2>5
<1>6. CASE RenameRows(r) \/ FailRenameRows(r)
  <2>1. \A row \in RowsOf(n, "new") : row.id \in Place(r)
    BY <1>0, RowsOfNode
  <2>2. PICK R \in SUBSET RowsOf(n, "new") : rows' = Without(R) \cup R
    BY <1>6 DEF RenameRows, FailRenameRows, Node
  <2>3. UNCHANGED title
    BY <1>6 DEF RenameRows, FailRenameRows
  <2> QED
    BY <1>3, <2>1, <2>2, <2>3
<1>7. CASE RenameNode(r) \/ FailRenameNode(r)
  <2>1. UNCHANGED rows /\ (SetTitle(n) \/ UNCHANGED title)
    BY <1>7 DEF RenameNode, FailRenameNode, Node
  <2> QED
    BY <1>2, <1>4, <2>1 DEF SetTitle
<1>8. CASE Execute(r) \/ FailExecute(r)
  <2>1. /\ step[r] \in Steps /\ Stepping(r) /\ StepSound(r)
    BY <1>8 DEF Execute, FailExecute, RequestSound, Stepping
  <2>2. PICK T \in SUBSET Items(data[r], step[r]) : Carry(data[r], step[r], T)
    BY <1>8 DEF Execute, FailExecute
  <2>3. request[r].kind = "delete"
    BY <2>1 DEF RequestSound, ModeFits
  <2>4. CarriedOut(step[r], T)
    BY <2>1, <2>2, Carried
  <2>5. CASE step[r] = DeleteDescendants
    <3>1. \A row \in T : row.id \in Place(r)
      BY <2>1, <2>3, <2>5, ItemsBelow DEF Place
    <3> QED
      BY <1>3, <2>4, <2>5, <3>1 DEF CarriedOut
  <2>6. CASE step[r] # DeleteDescendants
    BY <1>2, <2>4, <2>6 DEF CarriedOut
  <2> QED
    BY <2>5, <2>6
<1>9. CASE Undo(r) \/ FailUndo(r)
  <2>1. /\ step[r] \in Steps /\ Stepping(r) /\ StepSound(r)
    BY <1>9 DEF Undo, FailUndo, RequestSound, Stepping
  <2>2. PICK T \in SUBSET Items(data[r], step[r]) : CarryBack(data[r], step[r], T)
    BY <1>9 DEF Undo, FailUndo
  <2>3. request[r].kind = "delete"
    BY <2>1 DEF RequestSound, ModeFits
  <2>4. PutBack(step[r], T)
    BY <2>1, <2>2, CarriedBack
  <2>5. CASE step[r] = DeleteDescendants
    <3>1. \A row \in T : row.id \in Place(r)
      BY <2>1, <2>3, <2>5, ItemsBelow DEF Place
    <3>2. UNCHANGED title
      BY <2>2, <2>5 DEF CarryBack, DeleteDescendants, DeleteLikes, ArchiveSteps
    <3> QED
      BY <1>3, <2>4, <2>5, <3>1, <3>2 DEF PutBack
  <2>6. CASE step[r] # DeleteDescendants
    <3>1. rows' = rows
      BY <2>4, <2>6 DEF PutBack
    <3>2. \A m \in Nodes \ Place(r) : title'[m] = title[m]
      BY <2>1, <2>2, <2>3, <2>6, TitlesBack DEF Place
    <3> QED
      BY <3>1, <3>2 DEF Intact
  <2> QED
    BY <2>5, <2>6
<1>10. CASE DeleteSelf(r)
  BY <1>2, <1>10 DEF DeleteSelf
<1>11. CASE UNCHANGED stores
  BY <1>2, <1>11 DEF stores
<1> QED
  BY <1>5, <1>6, <1>7, <1>8, <1>9, <1>10, <1>11, StoresChange

\* Two requests that are being served never have a node in common.
LEMMA PlacesApart ==
    ASSUME TypeOK, KeptApart, Distinct, NEW r \in Requests, NEW q \in Requests, r # q,
           Busy(r), Busy(q), RequestSound(r), RequestSound(q), Fresh(r), Fresh(q)
    PROVE  Place(r) \cap Place(q) = {}
<1>0. /\ Apart(r, q) /\ Apart(q, r) /\ Node(r) \in Below(r) /\ Node(q) \in Below(q)
      /\ request[r] \in Asked /\ request[q] \in Asked /\ "nodes" \in Tables
  BY TableFacts DEF KeptApart, Below, Subtree, TypeOK
<1>1. CASE request[r].kind = "delete" \/ request[q].kind = "delete"
  <2>1. Place(r) \subseteq Reach(r) /\ Place(q) \subseteq Reach(q)
    BY DEF Place, Reach, Below, Node
  <2>2. Reach(r) \cap Reach(q) = {}
    BY <1>0, <1>1 DEF Apart
  <2> QED
    BY <2>1, <2>2
<1>2. CASE request[r].kind # "delete" /\ request[q].kind # "delete"
  <2>1. SUFFICES Node(r) # Node(q)
    BY <1>2 DEF Place
  <2>2. \A p \in {r, q} : /\ request[p].kind = "create" => Node(p) \notin live["nodes"]
                          /\ request[p].kind = "title" => Node(p) \in live["nodes"]
    <3>1. ASSUME NEW p \in {r, q}, request[p].kind = "create"
          PROVE  Node(p) \notin live["nodes"]
      <4>1. Making(p) /\ Fresh(p)
        BY <1>0, <3>1 DEF Making, Busy, RequestSound, ModeFits, Stepping, Reading, TypeOK
      <4> QED
        BY <1>0, <4>1 DEF Fresh
    <3>2. ASSUME NEW p \in {r, q}, request[p].kind = "title"
          PROVE  Node(p) \in live["nodes"]
      <4>1. mode[p] \in {"rename_rows", "rename_node"}
        BY <1>0, <3>2 DEF Busy, RequestSound, ModeFits, Stepping, Reading, TypeOK
      <4> QED
        BY <4>1 DEF RequestSound, WriteSound
    <3> QED
      BY <3>1, <3>2
  <2>3. request[r].kind \in {"create", "title"} /\ request[q].kind \in {"create", "title"}
    BY <1>0, <1>2 DEF Asked
  <2>4. CASE request[r].kind = "create" /\ request[q].kind = "create"
    BY <2>4 DEF Distinct
  <2>5. CASE request[r].kind = "title" /\ request[q].kind = "title"
    <3>1. SUFFICES ASSUME Node(r) = Node(q) PROVE FALSE
      OBVIOUS
    <3>2. request[r] = request[q]
      BY <1>0, <2>5, <3>1 DEF Node, Asked
    <3>3. Reach(r) \cap Reach(q) = {} /\ Reach(r) = {Node(r)} /\ Reach(q) = {Node(q)}
      BY <1>0, <2>5, <3>2 DEF Apart, Reach, Node
    <3> QED
      BY <3>1, <3>3
  <2> QED
    BY <2>2, <2>3, <2>4, <2>5
<1> QED
  BY <1>1, <1>2

\* What a request writes to the tables is what its deletion found or the node
\* that it creates; only deletions write to the archives.
LEMMA Grows ==
    ASSUME TypeOK, NEW r \in Requests, RequestSound(r), Serve(r) \/ Fail(r), NEW t \in Tables
    PROVE  /\ \/ archived'[t] \subseteq archived[t]
              \/ Stepping(r) /\ archived'[t] \subseteq archived[t] \cup data[r].found[t]
           /\ \/ live'[t] \subseteq live[t]
              \/ Stepping(r) /\ live'[t] \subseteq live[t] \cup data[r].found[t]
              \/ /\ Making(r) /\ live'[t] \subseteq live[t] \cup {Node(r)}
                 /\ mode'[r] = "done" \/ (t = "workflows" /\ mode'[r] = "append")
<1>f. live = [u \in Tables |-> live[u]] /\ mode = [q \in Requests |-> mode[q]]
  BY DEF TypeOK
<1>1. CASE UNCHANGED stores
  BY <1>1 DEF stores
<1>2. CASE Create(r) \/ FailCreate(r)
  <2>1. /\ mode[r] \in {"workflow", "append", "insert"} /\ UNCHANGED archived /\ Making(r)
        /\ CreatePart(r) \/ UNCHANGED live
        /\ mode'[r] = "done" \/ mode'[r] = NextPart(mode[r])
    BY <1>2, <1>f DEF Create, FailCreate, Making, RequestSound, ModeFits, GoTo
  <2>2. CASE UNCHANGED live
    BY <2>1, <2>2
  <2>3. CASE mode[r] = "workflow" /\ CreatePart(r)
    <3>1. live'[t] \subseteq live[t] \/ (t = "workflows" /\ live'[t] \subseteq live[t] \cup {Node(r)})
      BY <1>f, <2>3 DEF CreatePart, Node
    <3>2. mode'[r] = "done" \/ mode'[r] = "append"
      BY <2>1, <2>3 DEF NextPart
    <3> QED
      BY <2>1, <3>1, <3>2
  <2>4. CASE mode[r] = "append" /\ CreatePart(r)
    BY <2>1, <2>4 DEF CreatePart
  <2>5. CASE mode[r] = "insert" /\ CreatePart(r)
    <3>1. live'[t] \subseteq live[t] \cup {Node(r)}
      BY <1>f, <2>5 DEF CreatePart, Node
    <3>2. mode'[r] = "done"
      BY <2>1, <2>5 DEF NextPart
    <3> QED
      BY <2>1, <3>1, <3>2
  <2> QED
    BY <2>1, <2>2, <2>3, <2>4, <2>5
<1>3. CASE RenameRows(r) \/ FailRenameRows(r)
  BY <1>3 DEF RenameRows, FailRenameRows
<1>4. CASE RenameNode(r) \/ FailRenameNode(r)
  <2>1. /\ UNCHANGED archived /\ Node(r) \in live["nodes"]
        /\ SetTitle(Node(r)) \/ UNCHANGED live
    BY <1>4 DEF RenameNode, FailRenameNode, RequestSound, WriteSound, Node
  <2> QED
    BY <1>f, <2>1 DEF SetTitle
<1>5. CASE Execute(r) \/ FailExecute(r) \/ Undo(r) \/ FailUndo(r)
  <2>1. step[r] \in Steps /\ Stepping(r) /\ StepSound(r)
    BY <1>5 DEF Execute, FailExecute, Undo, FailUndo, RequestSound, Stepping
  <2>2. PICK T \in SUBSET Items(data[r], step[r]) :
          Carry(data[r], step[r], T) \/ CarryBack(data[r], step[r], T)
    BY <1>5 DEF Execute, FailExecute, Undo, FailUndo
  <2>3. CarriedOut(step[r], T) \/ PutBack(step[r], T)
    BY <2>1, <2>2, Carried, CarriedBack
  <2>4. step[r] \in ArchiveSteps \cup DeleteSteps => T \subseteq data[r].found[TableOf(step[r])]
    BY <2>1, ItemsBelow
  <2>5. CASE CarriedOut(step[r], T)
    BY <2>1, <2>4, <2>5, StepKinds DEF CarriedOut
  <2>6. CASE PutBack(step[r], T)
    BY <2>1, <2>4, <2>6, StepKinds DEF PutBack
  <2> QED
    BY <2>3, <2>5, <2>6
<1>6. CASE DeleteSelf(r)
  BY <1>f, <1>6 DEF DeleteSelf
<1> QED
  BY <1>1, <1>2, <1>3, <1>4, <1>5, <1>6, StoresChange

\* A deletion gets under way when it has read all, and is so until it has come
\* to the end of its steps or of their undos.
LEMMA UnderWay ==
    ASSUME TypeOK, NEW r \in Requests, Serve(r) \/ Fail(r)
    PROVE  /\ Stepping(r)' => FindContent(r) \/ (Stepping(r) /\ data'[r] = data[r])
           /\ Stepping(r) /\ ~Stepping(r)' => Finished(r) \/ RolledBack(r)
<1>0. mode = [q \in Requests |-> mode[q]] /\ request[r].kind \in {"create", "title", "delete"}
  BY DEF TypeOK, Asked
<1> USE DEF GoTo, At, Stepping
<1>1. CASE Arrive(r)
  BY <1>0, <1>1 DEF Arrive, First
<1>2. CASE Create(r)
  BY <1>0, <1>2 DEF Create, NextPart
<1>3. CASE RenameRows(r) \/ RenameNode(r)
  BY <1>0, <1>3 DEF RenameRows, RenameNode
<1>4. CASE FindIds(r) \/ FindNodes(r) \/ FindRows(r)
  BY <1>0, <1>4 DEF FindIds, FindNodes, FindRows
<1>5. CASE Execute(r) \/ Undo(r) \/ Recover(r) \/ FailFinish(r) \/ FailUndo(r)
  BY <1>0, <1>5 DEF Execute, Undo, Recover, FailFinish, FailUndo
<1>6. CASE FailExecute(r)
  BY <1>0, <1>6 DEF FailExecute
<1>7. CASE FailCreate(r) \/ FailRenameRows(r) \/ FailRenameNode(r) \/ FailFind(r)
  BY <1>0, <1>7 DEF FailCreate, FailRenameRows, FailRenameNode, FailFind
<1>8. CASE DeleteSelf(r)
  BY <1>0, <1>8 DEF DeleteSelf
<1>9. CASE FindContent(r)
  BY <1>9 DEF FindContent
<1>10. CASE Finished(r) \/ RolledBack(r)
  BY <1>0, <1>10 DEF Finished, RolledBack
<1> QED
  BY <1>1, <1>2, <1>3, <1>4, <1>5, <1>6, <1>7, <1>8, <1>9, <1>10 DEF Serve, Fail

\* Only a request that has come and is not done does anything, and none is to
\* come again.
LEMMA Active ==
    ASSUME TypeOK, NEW r \in Requests, Serve(r) \/ Fail(r)
    PROVE  (Busy(r) \/ Arrive(r)) /\ mode'[r] # "idle"
<1>0. /\ mode = [q \in Requests |-> mode[q]] /\ request[r].kind \in {"create", "title", "delete"}
      /\ mode[r] # "idle" => ~Arrive(r)
  BY DEF TypeOK, Asked, Arrive
<1> USE DEF GoTo, At, Busy
<1>1. CASE Arrive(r)
  BY <1>0, <1>1 DEF Arrive, First
<1>2. CASE Create(r)
  BY <1>0, <1>2 DEF Create, NextPart
<1>3. CASE RenameRows(r) \/ RenameNode(r)
  BY <1>0, <1>3 DEF RenameRows, RenameNode
<1>4. CASE FindIds(r) \/ FindNodes(r) \/ FindRows(r)
  BY <1>0, <1>4 DEF FindIds, FindNodes, FindRows
<1>5. CASE Execute(r) \/ Undo(r) \/ Recover(r) \/ FailFinish(r) \/ FailUndo(r)
  BY <1>0, <1>5 DEF Execute, Undo, Recover, FailFinish, FailUndo
<1>6. CASE FailExecute(r)
  BY <1>0, <1>6 DEF FailExecute
<1>7. CASE FailCreate(r) \/ FailRenameRows(r) \/ FailRenameNode(r) \/ FailFind(r)
  BY <1>0, <1>7 DEF FailCreate, FailRenameRows, FailRenameNode, FailFind
<1>8. CASE DeleteSelf(r) \/ FindContent(r)
  BY <1>0, <1>8 DEF DeleteSelf, FindContent
<1>9. CASE Finished(r) \/ RolledBack(r)
  BY <1>0, <1>9 DEF Finished, RolledBack
<1> QED
  BY <1>1, <1>2, <1>3, <1>4, <1>5, <1>6, <1>7, <1>8, <1>9 DEF Serve, Fail

\* What EditsInv says, in the form in which the proofs use it.
LEMMA EditsParts ==
    ASSUME EditsInv
    PROVE  /\ TypeOK /\ KeptApart /\ RowsSound /\ Listed
           /\ \A r \in Requests : RequestSound(r)
BY DEF EditsInv, RequestsSound, RequestSound

\* What happens to a request that is being served when another one goes on:
\* nothing, and nothing to its nodes.
LEMMA Bystander ==
    ASSUME EditsInv, UndoInv, NEW r \in Requests, NEW q \in Requests, q # r, Busy(q),
           Serve(r) \/ Fail(r)
    PROVE  Idle(q) /\ \E S : Untouched(S) /\ Intact(S) /\ Place(q) \cap S = {}
<1>1. Idle(q)
  BY EditsParts, OthersIdle
<1>2. CASE Arrive(r)
  <2>1. UNCHANGED stores
    BY <1>2 DEF Arrive
  <2>2. Untouched({}) /\ Intact({})
    BY <2>1 DEF stores, Untouched, Intact
  <2> QED
    BY <1>1, <2>2
<1>3. CASE Busy(r)
  <2>1. Untouched(Place(r)) /\ Intact(Place(r))
    BY EditsParts, OnlyThere
  <2>2. Place(q) \cap Place(r) = {}
    BY <1>3, EditsParts, PlacesApart DEF UndoInv
  <2> QED
    BY <1>1, <2>1, <2>2
<1> QED
  BY <1>2, <1>3, EditsParts, Active

\* A deletion that gets under way has found what is there below its node.
LEMMA FoundNow ==
    ASSUME TypeOK, NEW r \in Requests, RequestSound(r), FindContent(r)
    PROVE  /\ \A t \in Tables : data'[r].found[t] \subseteq live[t] \cap Below(r)
           /\ data'[r].found["nodes"] = live["nodes"] \cap Below(r)
           /\ \A t \in Tables \ {"nodes"} :
                live[t] \cap live["nodes"] \cap Below(r) \subseteq data'[r].found[t]
           /\ data'[r].rows = data[r].rows /\ data'[r].titles = data[r].titles
           /\ UNCHANGED <<stores, request, broken>>
           /\ mode[r] = "content" /\ mode'[r] = "forward" /\ step'[r] = 1
           /\ request[r].kind = "delete"
<1> DEFINE d == data[r]
<1>1. /\ mode[r] = "content" /\ request[r].kind = "delete" /\ "nodes" \in Tables
      /\ d.ids \subseteq Below(r) /\ live["nodes"] \cap Below(r) \subseteq d.ids
      /\ d.found["nodes"] = live["nodes"] \cap Below(r)
  BY TableFacts DEF FindContent, RequestSound, ModeFits, ReadSound, Reading
<1>2. /\ UNCHANGED <<stores, request, broken>> /\ mode'[r] = "forward" /\ step'[r] = 1
      /\ data'[r].rows = d.rows /\ data'[r].titles = d.titles
      /\ \A t \in Tables : data'[r].found[t] = Found(d, t)
  BY DEF FindContent, At, GoTo, TypeOK
<1> QED
  BY <1>1, <1>2 DEF Found

-----------------------------------------------------------------------------
(* Each part of UndoInv is kept *)

\* A node that does not exist yet stays out of the tables and of the deletions.
LEMMA FreshStep ==
    ASSUME EditsInv, UndoInv, NEW r \in Requests, Serve(r) \/ Fail(r), NEW q \in Requests
    PROVE  Fresh(q)'
<1> DEFINE n == Node(q)
<1>1. SUFFICES ASSUME Making(q)'
               PROVE  /\ \A t \in Tables : n \notin archived'[t]
                      /\ \A t \in Tables : n \in live'[t] => t = "workflows" /\ mode'[q] # "idle"
                      /\ \A p \in Requests : Stepping(p)' =>
                            \A t \in Tables : n \notin data'[p].found[t]
  <2>1. Node(q)' = n
    BY EditsParts, ControlTypes DEF Control, Node
  <2> QED
    BY <2>1 DEF Fresh
<1>2. /\ TypeOK /\ RequestSound(r) /\ RequestSound(q) /\ request' = request
      /\ Fresh(q) /\ Fresh(r) /\ Distinct
  BY EditsParts, ControlTypes DEF Control, UndoInv
<1>3. \A p \in Requests : p # r => Idle(p)
  BY <1>2, OthersIdle
<1>4. Making(q) /\ (mode[q] # "idle" => mode'[q] # "idle")
  <2>1. CASE q # r
    BY <1>1, <1>3, <2>1 DEF Making, Idle
  <2>2. CASE q = r
    <3>1. (Busy(r) \/ mode[r] = "idle") /\ mode'[r] # "idle"
      BY <1>2, Active DEF Arrive
    <3>2. mode[r] \in {"idle", "workflow", "append", "insert"}
      BY <1>1, <1>2, <2>2, <3>1 DEF Making, Busy, RequestSound, ModeFits, Reading, Stepping, TypeOK
    <3> QED
      BY <1>1, <1>2, <2>2, <3>1, <3>2 DEF Making
  <2> QED
    BY <2>1, <2>2
<1>5. ASSUME NEW t \in Tables
      PROVE  n \notin archived'[t]
  BY <1>2, <1>4, Grows DEF Fresh
<1>6. ASSUME NEW t \in Tables, n \in live'[t]
      PROVE  t = "workflows" /\ mode'[q] # "idle"
  <2>1. CASE n \in live[t]
    BY <1>2, <1>4, <2>1 DEF Fresh
  <2>2. CASE n \notin live[t]
    <3>1. /\ Making(r) /\ n = Node(r)
          /\ mode'[r] = "done" \/ (t = "workflows" /\ mode'[r] = "append")
      BY <1>2, <1>4, <1>6, <2>2, Grows DEF Fresh
    <3>2. q = r
      BY <1>2, <1>4, <3>1 DEF Distinct, Making
    <3> QED
      BY <1>1, <3>1, <3>2 DEF Making
  <2> QED
    BY <2>1, <2>2
<1>7. ASSUME NEW p \in Requests, Stepping(p)', NEW t \in Tables
      PROVE  n \notin data'[p].found[t]
  <2>1. CASE Stepping(p) /\ data'[p] = data[p]
    BY <1>2, <1>4, <2>1 DEF Fresh
  <2>2. CASE p = r /\ FindContent(r)
    <3>1. /\ data'[r].found[t] \subseteq live[t] \cap Below(r)
          /\ request[r].kind = "delete" /\ mode[r] = "content"
      BY <1>2, <2>2, FoundNow
    <3>2. SUFFICES ASSUME n \in live[t], n \in Below(r) PROVE FALSE
      BY <2>2, <3>1
    <3>3. Busy(q) /\ Busy(r) /\ q # r /\ Place(r) = Below(r) /\ n \in Place(q)
      BY <1>2, <1>4, <3>1, <3>2 DEF Fresh, Making, Busy, Place
    <3> QED
      BY <1>2, <3>2, <3>3, EditsParts, PlacesApart
  <2> QED
    BY <1>2, <1>3, <1>7, <2>1, <2>2, UnderWay DEF Idle, Stepping
<1> QED
  BY <1>5, <1>6, <1>7

\* Twice: whoever puts something back or into the archive is still at it, and
\* who comes to an end has it on one side only.
LEMMA TwiceStep ==
    ASSUME EditsInv, UndoInv, NEW r \in Requests, Serve(r) \/ Fail(r)
    PROVE  Twice'
<1>1. SUFFICES ASSUME NEW t \in Tables, NEW n \in live'[t] \cap archived'[t]
               PROVE  \E q \in Requests : Stepping(q)' /\ n \in data'[q].found[t]
  BY DEF Twice
<1>2. TypeOK /\ RequestSound(r) /\ Fresh(r) /\ Undoable(r) /\ Twice
  BY EditsParts DEF UndoInv
<1>3. \A p \in Requests : p # r => Idle(p)
  BY <1>2, OthersIdle
<1>4. CASE Stepping(r) /\ n \in data[r].found[t]
  <2>1. CASE Stepping(r)'
    <3>1. ~FindContent(r)
      BY <1>4 DEF FindContent, Stepping
    <3> QED
      BY <1>2, <1>4, <2>1, <3>1, UnderWay
  <2>2. CASE ~Stepping(r)'
    <3>1. Finished(r) \/ RolledBack(r)
      BY <1>2, <1>4, <2>2, UnderWay
    <3>2. live' = live /\ archived' = archived
      BY <3>1 DEF Finished, RolledBack, stores
    <3>3. PICK i \in ArchiveSteps : TableOf(i) = t
      BY EveryTable
    <3>4. PICK j \in DeleteSteps : TableOf(j) = t
      BY EveryTable
    <3>5. CASE Finished(r)
      <4>1. step[r] > j
        BY <3>5 DEF Finished, Finish, DeleteElasticData, DeleteSteps, DeleteNodes
      <4> QED
        BY <1>1, <1>2, <1>4, <3>2, <3>4, <4>1 DEF Undoable
    <3>6. CASE RolledBack(r)
      <4>1. Ahead(r, i)
        BY <3>6 DEF RolledBack, Ahead, ArchiveSteps
      <4> QED
        BY <1>1, <1>2, <1>4, <3>2, <3>3, <4>1 DEF Undoable
    <3> QED
      BY <3>1, <3>5, <3>6
  <2> QED
    BY <2>1, <2>2
<1>5. CASE ~(Stepping(r) /\ n \in data[r].found[t])
  <2>1. n \in archived[t]
    BY <1>1, <1>2, <1>5, Grows
  <2>2. n \in live[t]
    BY <1>1, <1>2, <1>5, <2>1, Grows DEF Fresh
  <2>3. PICK q \in Requests : Stepping(q) /\ n \in data[q].found[t]
    BY <1>2, <2>1, <2>2 DEF Twice
  <2>4. Idle(q)
    BY <1>3, <1>5, <2>3
  <2> QED
    BY <2>3, <2>4 DEF Idle, Stepping
<1> QED
  BY <1>4, <1>5

\* Where a request can get that has read titles or rows, and from where.
LEMMA Informed ==
    ASSUME TypeOK, NEW r \in Requests, Serve(r) \/ Fail(r)
    PROVE  \/ mode'[r] \in {"done", "workflow", "append", "insert", "rename_rows",
                            "rename_node", "ids", "nodes", "self"}
           \/ FindNodes(r) \/ FindRows(r) \/ FindContent(r)
           \/ Execute(r) \/ FailExecute(r) \/ Undo(r) \/ FailUndo(r)
           \/ Recover(r) \/ FailFinish(r)
<1>0. mode = [q \in Requests |-> mode[q]] /\ request[r].kind \in {"create", "title", "delete"}
  BY DEF TypeOK, Asked
<1> USE DEF GoTo, At
<1>1. CASE Arrive(r)
  BY <1>0, <1>1 DEF Arrive, First
<1>2. CASE Create(r)
  BY <1>0, <1>2 DEF Create, NextPart
<1>3. CASE RenameRows(r) \/ RenameNode(r) \/ FindIds(r) \/ DeleteSelf(r) \/ Finished(r)
  BY <1>0, <1>3 DEF RenameRows, RenameNode, FindIds, DeleteSelf, Finished
<1>4. CASE FailCreate(r) \/ FailRenameRows(r) \/ FailRenameNode(r) \/ FailFind(r) \/ RolledBack(r)
  BY <1>0, <1>4 DEF FailCreate, FailRenameRows, FailRenameNode, FailFind, RolledBack
<1> QED
  BY <1>1, <1>2, <1>3, <1>4 DEF Serve, Fail

\* The nodes below the one of a request are nodes.
LEMMA BelowNodes ==
    ASSUME TypeOK, NEW r \in Requests
    PROVE  Below(r) \subseteq Nodes
BY ReadTypes DEF Below, Subtree, Node

\* A deletion that goes forward, or turns round.
LEMMA UndoableForward ==
    ASSUME EditsInv, UndoInv, NEW r \in Requests, Execute(r) \/ FailExecute(r)
    PROVE  Undoable(r)'
<1> DEFINE k == step[r]
           d == data[r]
<1>1. /\ TypeOK /\ StepSound(r) /\ Undoable(r) /\ Stepping(r) /\ mode[r] = "forward"
      /\ k \in Steps /\ k \in 1..16 /\ data' = data /\ Below(r)' = Below(r)
      /\ mode = [q \in Requests |-> mode[q]] /\ step = [q \in Requests |-> step[q]]
  BY EditsParts DEF UndoInv, RequestSound, Execute, FailExecute, Stepping, Below, Node, TypeOK,
                    Steps, DeleteElasticData
<1>2. PICK T \in SUBSET Items(d, k) :
        /\ Carry(d, k, T)
        /\ \/ T = Items(d, k) /\ mode'[r] = "forward" /\ step'[r] = k + 1
           \/ mode'[r] \in {"backward", "dead"} /\ step'[r] = k
  <2>1. CASE Execute(r)
    BY <1>1, <2>1 DEF Execute, At, GoTo
  <2>2. CASE FailExecute(r)
    BY <1>1, <2>2 DEF FailExecute, GoTo
  <2> QED
    BY <2>1, <2>2
<1>3. CarriedOut(k, T)
  BY <1>1, <1>2, Carried
<1>4. \A n \in Below(r) : d.titles[n] = title'[n]
  BY <1>1, <1>3 DEF Undoable, CarriedOut
<1>5. ASSUME NEW i \in ArchiveSteps, Ahead(r, i)'
      PROVE  d.found[TableOf(i)] \cap archived'[TableOf(i)] = {}
  <2>1. k < i /\ TableOf(i) \in Tables /\ i \in 1..6
    BY <1>1, <1>2, <1>5, TableFacts DEF Ahead, ArchiveSteps
  <2>2. d.found[TableOf(i)] \cap archived[TableOf(i)] = {}
    BY <1>1, <2>1 DEF Undoable, Ahead
  <2>3. archived'[TableOf(i)] = archived[TableOf(i)]
    <3>1. k \in ArchiveSteps /\ k # i
      BY <1>1, <2>1 DEF ArchiveSteps
    <3>2. TableOf(k) # TableOf(i)
      BY <3>1, TableFacts
    <3> QED
      BY <1>3, <2>1, <3>1, <3>2 DEF CarriedOut
  <2> QED
    BY <2>2, <2>3
<1>6. ASSUME NEW j \in DeleteSteps, step'[r] > j
      PROVE  d.found[TableOf(j)] \cap live'[TableOf(j)] = {}
  <2>1. TableOf(j) \in Tables /\ j \in 7..13
    BY TableFacts DEF DeleteSteps, DeleteNodes
  <2>2. live'[TableOf(j)] \subseteq live[TableOf(j)]
    BY <1>1, <1>3, <2>1, StepKinds DEF CarriedOut
  <2>3. CASE k > j
    BY <1>1, <2>2, <2>3 DEF Undoable
  <2>4. CASE k = j /\ T = Items(d, k)
    <3>1. T = d.found[TableOf(j)]
      BY <2>4 DEF Items, DeleteSteps, DeleteNodes, DeleteDescendants, DeleteLikes
    <3> QED
      BY <1>3, <2>1, <2>4, <3>1 DEF CarriedOut
  <2> QED
    BY <1>1, <1>2, <1>6, <2>1, <2>3, <2>4
<1>7. ASSUME Ahead(r, DeleteDescendants)'
      PROVE  d.rows \subseteq rows'
  <2>1. k < 8
    BY <1>1, <1>2, <1>7 DEF Ahead, DeleteDescendants
  <2>2. d.rows \subseteq rows /\ rows' = rows
    BY <1>1, <1>3, <2>1 DEF Undoable, Ahead, CarriedOut, DeleteDescendants
  <2> QED
    BY <2>2
<1>8. mode'[r] # "content" /\ data'[r] = d
  BY <1>1, <1>2
<1> QED
  BY <1>1, <1>4, <1>5, <1>6, <1>7, <1>8 DEF Undoable

\* A deletion that is being undone.
LEMMA UndoableBackward ==
    ASSUME EditsInv, UndoInv, NEW r \in Requests, Undo(r) \/ FailUndo(r)
    PROVE  Undoable(r)'
<1> DEFINE k == step[r]
           d == data[r]
<1>1. /\ TypeOK /\ StepSound(r) /\ Undoable(r) /\ Stepping(r) /\ mode[r] = "backward"
      /\ k \in Steps /\ k \in 1..16 /\ data' = data /\ Below(r)' = Below(r)
      /\ mode = [q \in Requests |-> mode[q]] /\ step = [q \in Requests |-> step[q]]
  BY EditsParts DEF UndoInv, RequestSound, Undo, FailUndo, Stepping, Below, Node, TypeOK,
                    Steps, DeleteElasticData
<1>2. PICK T \in SUBSET Items(d, k) :
        /\ CarryBack(d, k, T)
        /\ \/ T = Items(d, k) /\ mode'[r] = "backward" /\ step'[r] = k - 1
           \/ mode'[r] = "dead" /\ step'[r] = k
  <2>1. CASE Undo(r)
    BY <1>1, <2>1 DEF Undo, At, GoTo
  <2>2. CASE FailUndo(r)
    BY <1>1, <2>2 DEF FailUndo, GoTo
  <2> QED
    BY <2>1, <2>2
<1>3. PutBack(k, T)
  BY <1>1, <1>2, CarriedBack
<1>4. \A n \in Below(r) : d.titles[n] = title'[n]
  <2>1. \A n \in Nodes : title'[n] = title[n] \/ title'[n] = d.titles[n]
    BY <1>1, <1>2, TitlesBack
  <2> QED
    BY <1>1, <2>1, BelowNodes DEF Undoable
<1>5. ASSUME NEW i \in ArchiveSteps, Ahead(r, i)'
      PROVE  d.found[TableOf(i)] \cap archived'[TableOf(i)] = {}
  <2>1. TableOf(i) \in Tables /\ i \in 1..6
    BY TableFacts DEF ArchiveSteps
  <2>2. archived'[TableOf(i)] \subseteq archived[TableOf(i)]
    BY <1>1, <1>3, <2>1, StepKinds DEF PutBack
  <2>3. CASE k < i
    <3>1. Ahead(r, i)
      BY <2>3 DEF Ahead
    <3> QED
      BY <1>1, <2>2, <3>1 DEF Undoable
  <2>4. CASE k = i /\ T = Items(d, k)
    <3>1. T = d.found[TableOf(i)]
      BY <2>4 DEF Items, ArchiveSteps, DeleteDescendants, DeleteLikes
    <3> QED
      BY <1>3, <2>1, <2>4, <3>1 DEF PutBack
  <2> QED
    BY <1>1, <1>2, <1>5, <2>1, <2>3, <2>4 DEF Ahead
<1>6. ASSUME NEW j \in DeleteSteps, step'[r] > j
      PROVE  d.found[TableOf(j)] \cap live'[TableOf(j)] = {}
  <2>1. TableOf(j) \in Tables /\ j \in 7..13 /\ k > j
    BY <1>1, <1>2, <1>6, TableFacts DEF DeleteSteps, DeleteNodes
  <2>2. d.found[TableOf(j)] \cap live[TableOf(j)] = {}
    BY <1>1, <2>1 DEF Undoable
  <2>3. live'[TableOf(j)] = live[TableOf(j)]
    <3>1. CASE k \in DeleteSteps
      <4>0. k # j
        BY <1>1, <2>1
      <4>1. TableOf(k) # TableOf(j)
        BY <3>1, <4>0, TableFacts
      <4> QED
        BY <1>3, <2>1, <3>1, <4>1 DEF PutBack
    <3>2. CASE k \notin DeleteSteps
      BY <1>1, <1>3, <3>2, StepKinds DEF PutBack
    <3> QED
      BY <3>1, <3>2
  <2> QED
    BY <2>2, <2>3
<1>7. ASSUME Ahead(r, DeleteDescendants)'
      PROVE  d.rows \subseteq rows'
  <2>1. CASE k < 8
    BY <1>1, <1>3, <2>1 DEF Undoable, Ahead, PutBack, DeleteDescendants
  <2>2. CASE k = 8 /\ T = Items(d, k)
    BY <1>3, <2>2 DEF PutBack, Items, DeleteDescendants, DeleteLikes
  <2> QED
    BY <1>1, <1>2, <1>7, <2>1, <2>2 DEF Ahead, DeleteDescendants
<1>8. mode'[r] # "content" /\ data'[r] = d
  BY <1>1, <1>2
<1> QED
  BY <1>1, <1>4, <1>5, <1>6, <1>7, <1>8 DEF Undoable

\* A deletion that reads on or gets under way.
LEMMA UndoableReading ==
    ASSUME EditsInv, UndoInv, NEW r \in Requests,
           FindNodes(r) \/ FindRows(r) \/ FindContent(r)
    PROVE  Undoable(r)'
<1>1. /\ TypeOK /\ RequestSound(r) /\ Undoable(r) /\ Below(r)' = Below(r)
      /\ mode = [q \in Requests |-> mode[q]] /\ data = [q \in Requests |-> data[q]]
      /\ UNCHANGED <<stores, request>>
      /\ data[r] \in [ids : SUBSET Nodes, rows : SUBSET RowSet,
                      titles : [Nodes -> {"old", "new"}], found : [Tables -> SUBSET Nodes]]
  BY EditsParts, ReadTypes, Functions
     DEF UndoInv, FindNodes, FindRows, FindContent, Below, Node
<1>2. CASE FindNodes(r)
  <2>1. mode'[r] = "rows" /\ data'[r].titles = title /\ title' = title
    BY <1>1, <1>2 DEF FindNodes, GoTo, stores
  <2> QED
    BY <1>1, <2>1 DEF Undoable, Stepping
<1>3. CASE FindRows(r)
  <2>1. /\ mode[r] = "rows" /\ mode'[r] = "content"
        /\ data'[r].titles = data[r].titles /\ title' = title /\ rows' = rows
        /\ data'[r].rows = RowsToDelete(request[r].node, data[r].ids)
    BY <1>1, <1>3 DEF FindRows, GoTo, stores
  <2>2. data'[r].rows \subseteq rows'
    BY <2>1 DEF RowsToDelete
  <2> QED
    BY <1>1, <2>1, <2>2 DEF Undoable, Stepping
<1>4. CASE FindContent(r)
  <2>1. /\ \A t \in Tables : data'[r].found[t] \subseteq live[t] \cap Below(r)
        /\ data'[r].rows = data[r].rows /\ data'[r].titles = data[r].titles
        /\ mode[r] = "content" /\ mode'[r] = "forward" /\ step'[r] = 1
        /\ request[r].kind = "delete"
    BY <1>1, <1>4, FoundNow
  <2>2. ASSUME NEW t \in Tables
        PROVE  data'[r].found[t] \cap archived[t] = {}
    <3>1. SUFFICES ASSUME NEW n \in data'[r].found[t], n \in archived[t] PROVE FALSE
      OBVIOUS
    <3>2. n \in live[t] /\ n \in Below(r)
      BY <2>1
    <3>3. PICK q \in Requests : Stepping(q) /\ n \in data[q].found[t]
      BY <3>1, <3>2 DEF UndoInv, Twice
    <3>4. q # r /\ Busy(q) /\ Busy(r) /\ RequestSound(q)
      BY <2>1, <3>3, EditsParts DEF Stepping, Busy
    <3>5. n \in Place(q) /\ n \in Place(r)
      BY <2>1, <3>2, <3>3, <3>4 DEF RequestSound, ModeFits, StepSound, Place
    <3> QED
      BY <3>4, <3>5, EditsParts, PlacesApart DEF UndoInv
  <2>3. \A k \in ArchiveSteps : data'[r].found[TableOf(k)] \cap archived'[TableOf(k)] = {}
    BY <1>1, <2>2, TableFacts DEF stores
  <2>4. \A k \in DeleteSteps : ~(1 > k)
    BY DEF DeleteSteps, DeleteNodes
  <2>5. data'[r].rows \subseteq rows' /\ \A n \in Below(r) : data'[r].titles[n] = title'[n]
    BY <1>1, <2>1 DEF Undoable, stores
  <2> QED
    BY <1>1, <2>1, <2>3, <2>4, <2>5 DEF Undoable
<1> QED
  BY <1>2, <1>3, <1>4

\* A deletion that turns round at Finish or is taken up from its log.
LEMMA UndoableTurn ==
    ASSUME EditsInv, UndoInv, NEW r \in Requests, Recover(r) \/ FailFinish(r)
    PROVE  Undoable(r)'
<1>1. /\ TypeOK /\ Undoable(r) /\ Below(r)' = Below(r) /\ Stepping(r)
      /\ mode = [q \in Requests |-> mode[q]] /\ step = [q \in Requests |-> step[q]]
      /\ UNCHANGED <<stores, request, data>>
  BY EditsParts, Functions DEF UndoInv, Recover, FailFinish, Below, Node, Stepping
<1>2. mode'[r] = "backward" /\ live' = live /\ archived' = archived /\ title' = title /\ rows' = rows
  BY <1>1 DEF Recover, FailFinish, GoTo, At, stores
<1>3. CASE Recover(r)
  <2>1. mode[r] = "dead" /\ step'[r] = step[r]
    BY <1>3 DEF Recover
  <2>2. \A k : Ahead(r, k)' <=> Ahead(r, k)
    BY <1>2, <2>1 DEF Ahead
  <2> QED
    BY <1>1, <1>2, <2>1, <2>2 DEF Undoable
<1>4. CASE FailFinish(r)
  <2>1. step[r] = 17 /\ step'[r] = 16
    BY <1>1, <1>4 DEF FailFinish, At, Finish, DeleteElasticData
  <2>2. /\ \A k \in ArchiveSteps : ~Ahead(r, k)'
        /\ ~Ahead(r, DeleteDescendants)'
        /\ \A k \in DeleteSteps : step[r] > k
    BY <1>2, <2>1 DEF Ahead, ArchiveSteps, DeleteSteps, DeleteNodes, DeleteDescendants
  <2> QED
    BY <1>1, <1>2, <2>1, <2>2 DEF Undoable
<1> QED
  BY <1>3, <1>4

\* Every deletion, whichever request goes on.
LEMMA UndoableStep ==
    ASSUME EditsInv, UndoInv, NEW r \in Requests, Serve(r) \/ Fail(r), NEW q \in Requests
    PROVE  Undoable(q)'
<1>1. CASE q = r
  <2>1. CASE mode'[r] \in {"done", "workflow", "append", "insert", "rename_rows", "rename_node",
                           "ids", "nodes", "self"}
    BY <1>1, <2>1 DEF Undoable, Stepping
  <2> QED
    BY <1>1, <2>1, EditsParts, Informed, UndoableReading, UndoableForward, UndoableBackward,
       UndoableTurn
<1>2. CASE q # r /\ Busy(q) /\ request[q].kind = "delete"
  <2>1. Idle(q) /\ Undoable(q) /\ Below(q)' = Below(q) /\ Place(q) = Below(q) /\ RequestSound(q)
        /\ Below(q) \subseteq Nodes
    BY <1>2, Bystander, EditsParts, BelowNodes DEF Idle, Below, Node, UndoInv, Place
  <2>2. PICK S : Untouched(S) /\ Intact(S) /\ Below(q) \cap S = {}
    BY <1>2, <2>1, Bystander
  <2>3. \A n \in Below(q) : title'[n] = title[n]
    BY <2>1, <2>2 DEF Intact
  <2>4. \A row \in data[q].rows : row.id \in Below(q) => (row \in rows' <=> row \in rows)
    BY <2>2 DEF Intact
  <2>5. /\ Stepping(q) \/ mode[q] = "content" => \A row \in data[q].rows : row.id \in Below(q)
        /\ Stepping(q) => \A t \in Tables : data[q].found[t] \subseteq Below(q)
    BY <2>1 DEF RequestSound, StepSound, ReadSound
  <2>6. ASSUME NEW t \in Tables, Stepping(q)
        PROVE  /\ data[q].found[t] \cap live'[t] = data[q].found[t] \cap live[t]
               /\ data[q].found[t] \cap archived'[t] = data[q].found[t] \cap archived[t]
    <3>1. data[q].found[t] \cap S = {}
      BY <2>2, <2>5, <2>6
    <3>2. live'[t] \ S = live[t] \ S /\ archived'[t] \ S = archived[t] \ S
      BY <2>2 DEF Untouched
    <3> QED
      BY <3>1, <3>2
  <2>7. mode'[q] = mode[q] /\ step'[q] = step[q] /\ data'[q] = data[q]
    BY <2>1 DEF Idle
  <2>8. \A k : Ahead(q, k)' <=> Ahead(q, k)
    BY <2>7 DEF Ahead
  <2> QED
    BY <2>1, <2>3, <2>4, <2>5, <2>6, <2>7, <2>8, TableFacts DEF Undoable, Stepping
<1>3. CASE q # r /\ ~(Busy(q) /\ request[q].kind = "delete")
  <2>1. Idle(q) /\ RequestSound(q)
    BY <1>3, EditsParts, OthersIdle
  <2>2. ~(mode[q] \in {"rows", "content", "forward", "backward", "dead"})
    BY <1>3, <2>1 DEF RequestSound, ModeFits, Reading, Stepping, Busy
  <2> QED
    BY <2>1, <2>2 DEF Undoable, Stepping, Idle
<1> QED
  BY <1>1, <1>2, <1>3

\* UndoInv holds at first.
LEMMA InitUndo == Init => UndoInv
<1> SUFFICES ASSUME Init PROVE UndoInv
  OBVIOUS
<1>1. /\ IsPlan(request) /\ mode = [r \in Requests |-> "idle"]
      /\ archived = [t \in Tables |-> {}]
      /\ live = [t \in Tables |-> Nodes \ {request[r].node : r \in
                                   {q \in Requests : request[q].kind = "create"}}]
  BY NodeEditsAssumption DEF Init
<1>2. Distinct
  BY <1>1 DEF Distinct, IsPlan, Node
<1>3. Twice
  BY <1>1 DEF Twice
<1>4. ASSUME NEW r \in Requests
      PROVE  Fresh(r) /\ Undoable(r)
  BY <1>1 DEF Fresh, Making, Node, Undoable, Stepping
<1> QED
  BY <1>2, <1>3, <1>4 DEF UndoInv

\* Every step keeps it.
LEMMA UndoInvStep == EditsInv /\ UndoInv /\ [Next]_vars => UndoInv'
<1> SUFFICES ASSUME EditsInv, UndoInv, [Next]_vars PROVE UndoInv'
  OBVIOUS
<1>1. CASE UNCHANGED vars
  BY <1>1 DEF vars, UndoInv, Distinct, Twice, Fresh, Undoable, Node, Stepping, Making, Below, Ahead
<1>2. ASSUME NEW r \in Requests, Serve(r) \/ Fail(r)
      PROVE  UndoInv'
  <2>1. Distinct'
    BY <1>2, EditsParts, ControlTypes DEF Control, UndoInv, Distinct, Node
  <2>2. Twice' /\ \A q \in Requests : Fresh(q)' /\ Undoable(q)'
    BY <1>2, TwiceStep, FreshStep, UndoableStep
  <2> QED
    BY <2>1, <2>2 DEF UndoInv
<1> QED
  BY <1>1, <1>2 DEF Next

\* A deletion that has been undone has put back every row it took, with the
\* title it had, and has left nothing in the archives (NodeDelete::recover),
\* whatever failed on the way and however often.
THEOREM UndoneIsRestored ==
    ASSUME ~Racing
    PROVE  Spec => UndoRestores
<1> DEFINE Restored ==
      \A r \in Requests :
         mode[r] = "backward" /\ mode'[r] = "done" =>
            LET d == data[r] IN
            /\ \A t \in Tables :
                 d.found[t] \subseteq live[t] /\ d.found[t] \cap archived[t] = {}
            /\ \A n \in d.found["nodes"] : title[n] = d.titles[n]
            /\ d.rows \subseteq rows
<1>1. EditsInv /\ UndoInv /\ [Next]_vars => [Restored]_vars
  <2> SUFFICES ASSUME EditsInv, UndoInv, Next,
                      NEW r \in Requests, mode[r] = "backward", mode'[r] = "done"
               PROVE  LET d == data[r] IN
                      /\ \A t \in Tables :
                           d.found[t] \subseteq live[t] /\ d.found[t] \cap archived[t] = {}
                      /\ \A n \in d.found["nodes"] : title[n] = d.titles[n]
                      /\ d.rows \subseteq rows
    OBVIOUS
  <2>1. TypeOK /\ RequestSound(r) /\ Undoable(r) /\ Stepping(r) /\ StepSound(r)
    BY EditsParts DEF UndoInv, Stepping, RequestSound
  <2>2. PICK q \in Requests : Serve(q) \/ Fail(q)
    BY DEF Next
  <2>3. q = r
    <3>1. q # r => mode'[r] = mode[r]
      BY <2>1, <2>2, OthersIdle DEF Idle
    <3> QED
      BY <3>1
  <2>4. RolledBack(r)
    <3>1. Finished(r) \/ RolledBack(r)
      BY <2>1, <2>2, <2>3, UnderWay DEF Stepping
    <3> QED
      BY <3>1 DEF Finished
  <2>5. step[r] = 0
    BY <2>4 DEF RolledBack
  <2>6. ASSUME NEW t \in Tables
        PROVE  data[r].found[t] \subseteq live[t] /\ data[r].found[t] \cap archived[t] = {}
    <3>1. PICK i \in ArchiveSteps : TableOf(i) = t
      BY EveryTable
    <3>2. PICK j \in DeleteSteps : TableOf(j) = t
      BY EveryTable
    <3>3. Ahead(r, i) /\ step[r] < j
      BY <2>5 DEF Ahead, ArchiveSteps, DeleteSteps, DeleteNodes
    <3> QED
      BY <2>1, <3>1, <3>2, <3>3 DEF Undoable, StepSound
  <2>7. data[r].rows \subseteq rows
    BY <2>1, <2>5 DEF Undoable, Ahead, DeleteDescendants
  <2>8. \A n \in data[r].found["nodes"] : title[n] = data[r].titles[n]
    BY <2>1, TableFacts DEF Undoable, StepSound
  <2> QED
    BY <2>6, <2>7, <2>8
<1>2. Spec => []UndoInv
  <2>1. EditsInv /\ UndoInv /\ [Next]_vars => UndoInv'
    BY UndoInvStep
  <2> QED
    BY <2>1, InitUndo, EditsInvariant, PTL DEF Spec
<1> QED
  BY <1>1, <1>2, EditsInvariant, PTL DEF Spec, UndoRestores

-----------------------------------------------------------------------------
(* What is there when nobody is at work *)

RowsFor(R, n) == {row \in R : row.id = n}

\* The node and its rows agree, or nothing is left of either.
Settled(n) ==
    /\ RowsFor(rows, n) = IF n \in live["nodes"] THEN RowsOf(n, title[n]) ELSE {}
    /\ n \notin live["nodes"] => \A t \in Tables : n \notin live[t]

\* Some request is in the middle of changing it.
Loose(n) ==
    \E r \in Requests :
        \/ Node(r) = n /\ mode[r] \in {"append", "insert", "rename_node"}
        \/ Stepping(r) /\ n \in Below(r)

Accounted == \A n \in Nodes \ broken : Loose(n) \/ Settled(n)

\* The nodes above one that exists do, unless a deletion is taking them away.
Rooted ==
    \A n \in live["nodes"] : \A a \in Ancestors(n) :
        a \in live["nodes"] \/ \E r \in Requests : Stepping(r) /\ a \in Below(r)

\* The parent of a new node is there, and its rows are when it is to be
\* written; so are those of a node that is given its new title.
Exact(r) ==
    /\ mode[r] \in {"workflow", "append", "insert"} => Parent[Node(r)] \in live["nodes"]
    /\ mode[r] = "insert" => RowsFor(rows, Node(r)) = RowsOf(Node(r), "old")
    /\ mode[r] = "rename_node" /\ Node(r) \notin broken =>
         RowsFor(rows, Node(r)) = RowsOf(Node(r), "new")

\* A deletion knows all there is below its node, but for what broke off.
Complete(r) ==
    LET d == data[r] IN
    /\ mode[r] = "content" =>
         \A n \in Below(r) \ broken : RowsFor(d.rows, n) = RowsFor(rows, n)
    /\ Stepping(r) =>
         /\ Ancestors(Node(r)) \subseteq live["nodes"]
         /\ \A n \in d.found["nodes"] : Ancestors(n) \cap Below(r) \subseteq d.found["nodes"]
         /\ \A n \in Below(r) \ broken :
              /\ \A t \in Tables : n \in live[t] => n \in d.found[t]
              /\ \A t \in Tables : n \in d.found[t] => n \in d.found["nodes"]
              /\ RowsFor(d.rows, n) =
                   IF n \in d.found["nodes"] THEN RowsOf(n, d.titles[n]) ELSE {}
              /\ RowsFor(rows, n) \subseteq d.rows
              /\ step[r] > DeleteDescendants => RowsFor(rows, n) = {}
    /\ mode[r] = "self" => live["nodes"] \cap Below(r) = {}

AgreeInv == Accounted /\ Rooted /\ \A r \in Requests : Exact(r) /\ Complete(r)

\* The nodes above a node are above what is below it, and one above the other.
LEMMA TreeOrder ==
    \A n \in Nodes :
       /\ \A x \in Ancestors(n) : x \in Nodes /\ Ancestors(x) \subseteq Ancestors(n)
       /\ \A x, y \in Ancestors(n) : x = y \/ x \in Ancestors(y) \/ y \in Ancestors(x)
<1>t. IsTree
  BY NodeEditsAssumption
<1> DEFINE Holds(n) ==
             /\ \A x \in Ancestors(n) : x \in Nodes /\ Ancestors(x) \subseteq Ancestors(n)
             /\ \A x, y \in Ancestors(n) : x = y \/ x \in Ancestors(y) \/ y \in Ancestors(x)
           bad == {n \in Nodes : ~Holds(n)}
           sets == {Ancestors(n) : n \in bad}
<1>1. SUFFICES ASSUME bad # {} PROVE FALSE
  OBVIOUS
<1>a. \A n \in Nodes : Ancestors(n) \in SUBSET Nodes
  BY <1>t DEF IsTree, Ancestors
<1>2. sets # {} /\ sets \subseteq FiniteSubsetsOf(Nodes)
  <2>1. \A S \in SUBSET Nodes : IsFiniteSet(S)
    BY <1>t, FS_Subset DEF IsTree
  <2> QED
    BY <1>1, <1>a, <2>1 DEF FiniteSubsetsOf
<1>3. PICK least \in sets : \A S \in sets : <<S, least>> \notin StrictSubsetOrdering(Nodes)
  <2>1. IsFiniteSet(Nodes)
    BY <1>t DEF IsTree
  <2> HIDE DEF sets
  <2> QED
    BY <1>2, <2>1, FS_StrictSubsetOrderingWellFounded, WFMin
<1>4. PICK n \in bad : least = Ancestors(n)
  BY <1>3
<1>5. n # Root /\ n \in Nodes
  BY <1>4, <1>t DEF IsTree
<1> DEFINE p == Parent[n]
<1>6. p \in Nodes /\ Ancestors(n) = {p} \cup Ancestors(p) /\ p \notin Ancestors(p)
  BY <1>5, <1>t DEF IsTree
<1>7. <<Ancestors(p), Ancestors(n)>> \in StrictSubsetOrdering(Nodes)
  BY <1>5, <1>6, <1>a DEF StrictSubsetOrdering
<1>8. Holds(p)
  BY <1>3, <1>4, <1>6, <1>7
<1>9. Holds(n)
  BY <1>6, <1>8
<1> QED
  BY <1>4, <1>9

\* The same of what is below the node of a request.
LEMMA BelowOrder ==
    ASSUME TypeOK, NEW r \in Requests
    PROVE  /\ Node(r) \in Below(r) /\ Node(r) \in Nodes /\ Below(r) \subseteq Nodes
           /\ \A n \in Nodes : \A a \in Ancestors(n) : a \in Below(r) => n \in Below(r)
           /\ \A n \in Below(r) : \A a \in Ancestors(n) : a \in Below(r) \/ a \in Ancestors(Node(r))
           /\ \A a \in Ancestors(Node(r)) : a \notin Below(r)
<1>1. Node(r) \in Nodes /\ Node(r) \in Below(r) /\ Below(r) \subseteq Nodes
  BY ReadTypes, BelowNodes DEF Below, Subtree
<1>2. \A n \in Nodes : n \notin Ancestors(n)
  BY NodeEditsAssumption DEF IsTree
<1>3. \A n \in Nodes : n \in Below(r) <=> n = Node(r) \/ Node(r) \in Ancestors(n)
  BY <1>1 DEF Below, Subtree
<1> QED
  BY <1>1, <1>2, <1>3, TreeOrder

-----------------------------------------------------------------------------
(* Each part of AgreeInv is kept *)

\* Upserting all rows of a node replaces those it had.
LEMMA RowsReplaced ==
    ASSUME RowsSound, NEW n, NEW t, rows' = Without(RowsOf(n, t)) \cup RowsOf(n, t)
    PROVE  RowsFor(rows', n) = RowsOf(n, t)
<1>1. \A row \in RowsOf(n, t) : row.id = n
  BY RowsOfNode
<1>2. ASSUME NEW row \in rows, row.id = n
      PROVE  row \notin Without(RowsOf(n, t))
  <2>1. row.node \in Ancestors(n)
    BY <1>2 DEF RowsSound
  <2>2. Row(row.node, n, t) \in RowsOf(n, t) /\ SameKey(row, Row(row.node, n, t))
    BY <1>2, <2>1 DEF RowsOf, Row, SameKey
  <2> QED
    BY <2>2 DEF Without
<1> QED
  BY <1>1, <1>2 DEF RowsFor, Without

\* What is left alone stays as it is.
LEMMA SameRows ==
    ASSUME NEW S, Intact(S), NEW n, n \notin S
    PROVE  RowsFor(rows', n) = RowsFor(rows, n)
BY DEF Intact, RowsFor

\* Only a deletion takes nodes away, and only those below its own.
LEMMA Removes ==
    ASSUME EditsInv, NEW r \in Requests, Serve(r) \/ Fail(r),
           NEW n \in live["nodes"], n \notin live'["nodes"]
    PROVE  Busy(r) /\ request[r].kind = "delete" /\ n \in Below(r)
<1>1. Effect(r) /\ "nodes" \in Tables
  BY EditsParts, StoresStep, TableFacts DEF StoresSound
<1>2. ~UNCHANGED stores
  BY DEF stores
<1>3. Busy(r)
  BY <1>2, BusyOrQuiet
<1> QED
  BY <1>1, <1>2, <1>3 DEF Effect, Untouched

\* The writing of a node that others do not touch.
LEMMA ExactStep ==
    ASSUME EditsInv, UndoInv, AgreeInv, NEW r \in Requests, Serve(r) \/ Fail(r),
           NEW q \in Requests
    PROVE  Exact(q)'
<1> DEFINE n == Node(q)
<1>1. /\ TypeOK /\ KeptApart /\ RowsSound /\ RequestSound(q) /\ RequestSound(r) /\ Exact(q)
      /\ request' = request /\ Node(q)' = n /\ broken \subseteq broken'
      /\ mode = [p \in Requests |-> mode[p]] /\ "nodes" \in Tables
      /\ request[q].kind \in {"create", "title", "delete"}
  BY EditsParts, ControlTypes, TableFacts DEF Control, AgreeInv, Node, TypeOK, Asked
<1>2. CASE q # r /\ Busy(q)
  <2>1. Idle(q) /\ n \in Place(q)
    BY <1>1, <1>2, Bystander, BelowOrder DEF Place
  <2>2. PICK S : Untouched(S) /\ Intact(S) /\ Place(q) \cap S = {}
    BY <1>2, Bystander
  <2>3. RowsFor(rows', n) = RowsFor(rows, n)
    BY <2>1, <2>2, SameRows
  <2>4. ASSUME mode[q] \in {"workflow", "append", "insert"}
        PROVE  Parent[n] \in live'["nodes"]
    <3>1. SUFFICES ASSUME Parent[n] \notin live'["nodes"] PROVE FALSE
      OBVIOUS
    <3>2. Busy(r) /\ request[r].kind = "delete" /\ Parent[n] \in Below(r)
      BY <1>1, <2>4, <3>1, Removes DEF Exact
    <3>3. Apart(q, r) /\ Parent[n] \in Reach(q) /\ Parent[n] \in Reach(r)
      BY <1>1, <1>2, <2>4, <3>2 DEF KeptApart, Reach, RequestSound, ModeFits, Below, Node
    <3> QED
      BY <3>2, <3>3 DEF Apart
  <2> QED
    BY <1>1, <2>1, <2>3, <2>4 DEF Exact, Idle
<1>3. CASE q # r /\ ~Busy(q)
  <2>1. Idle(q)
    BY <1>1, <1>3, OthersIdle
  <2> QED
    BY <1>3, <2>1 DEF Busy, Exact, Idle
<1>4. CASE q = r /\ Arrive(r)
  <2>1. mode'[r] \in {"workflow", "append", "insert"} => Parent[n] \in live["nodes"]
    <3>1. mode'[r] = "workflow" \/ mode'[r] \in {"done", "rename_rows", "ids"}
      BY <1>1, <1>4 DEF Arrive, First, GoTo
    <3>2. CASE mode'[r] = "workflow"
      <4>1. Needed(r) \in live["nodes"] /\ request[r].kind = "create"
        BY <1>1, <1>4, <3>2 DEF Arrive, First, GoTo
      <4> QED
        BY <1>4, <4>1 DEF Needed, Node
    <3> QED
      BY <3>1, <3>2
  <2>2. live' = live /\ mode'[r] \notin {"insert", "rename_node"}
    BY <1>1, <1>4 DEF Arrive, First, GoTo, stores
  <2> QED
    BY <1>1, <1>4, <2>1, <2>2 DEF Exact
<1>5. CASE q = r /\ Create(r)
  <2>1. /\ mode[r] \in {"workflow", "append", "insert"} /\ CreatePart(r)
        /\ mode'[r] = NextPart(mode[r])
    BY <1>1, <1>5 DEF Create, GoTo
  <2>2. CASE mode[r] = "workflow"
    <3>1. mode'[r] = "append" /\ live'["nodes"] = live["nodes"]
      BY <1>1, <2>1, <2>2 DEF NextPart, CreatePart, TypeOK
    <3> QED
      BY <1>1, <1>5, <2>1, <3>1 DEF Exact
  <2>3. CASE mode[r] = "append"
    <3>1. /\ mode'[r] = "insert" /\ live' = live
          /\ rows' = Without(RowsOf(n, "old")) \cup RowsOf(n, "old")
      BY <1>5, <2>1, <2>3 DEF NextPart, CreatePart, Node
    <3> QED
      BY <1>1, <1>5, <2>1, <3>1, RowsReplaced DEF Exact
  <2>4. CASE mode[r] = "insert"
    <3>1. mode'[r] = "done"
      BY <2>1, <2>4 DEF NextPart
    <3> QED
      BY <1>5, <3>1 DEF Exact
  <2> QED
    BY <2>1, <2>2, <2>3, <2>4
<1>6. CASE q = r /\ RenameRows(r)
  <2>1. mode'[r] = "rename_node" /\ rows' = Without(RowsOf(n, "new")) \cup RowsOf(n, "new")
    BY <1>1, <1>6 DEF RenameRows, GoTo, Node
  <2> QED
    BY <1>1, <1>6, <2>1, RowsReplaced DEF Exact
<1>7. CASE q = r /\ FailRenameRows(r)
  <2>1. mode'[r] \in {"rename_node", "done"} /\ n \in broken'
    BY <1>1, <1>7 DEF FailRenameRows, GoTo, Node
  <2> QED
    BY <1>1, <1>7, <2>1 DEF Exact
<1>8. CASE q = r /\ ~(Arrive(r) \/ Create(r) \/ RenameRows(r) \/ FailRenameRows(r))
  <2>1. mode'[r] \notin {"workflow", "append", "insert", "rename_node"}
    <3> USE DEF GoTo, At
    <3>1. CASE RenameNode(r) \/ FindIds(r) \/ FindNodes(r) \/ FindRows(r) \/ FindContent(r)
      BY <1>1, <3>1 DEF RenameNode, FindIds, FindNodes, FindRows, FindContent
    <3>2. CASE Execute(r) \/ Finished(r) \/ DeleteSelf(r) \/ Undo(r) \/ RolledBack(r) \/ Recover(r)
      BY <1>1, <3>2 DEF Execute, Finished, DeleteSelf, Undo, RolledBack, Recover
    <3>3. CASE FailCreate(r) \/ FailRenameNode(r) \/ FailFind(r) \/ FailExecute(r)
               \/ FailUndo(r) \/ FailFinish(r)
      BY <1>1, <3>3 DEF FailCreate, FailRenameNode, FailFind, FailExecute, FailUndo, FailFinish
    <3> QED
      BY <1>8, <3>1, <3>2, <3>3 DEF Serve, Fail
  <2> QED
    BY <1>8, <2>1 DEF Exact
<1> QED
  BY <1>2, <1>3, <1>4, <1>5, <1>6, <1>7, <1>8

\* A deletion that has found what is below its node, however often it goes
\* forward and back.
LEMMA CompleteKept ==
    ASSUME EditsInv, AgreeInv, NEW r \in Requests, Stepping(r), Complete(r),
           request' = request, data'[r] = data[r], broken \subseteq broken',
           mode'[r] \in {"forward", "backward", "dead"},
           live'["nodes"] \ Below(r) = live["nodes"] \ Below(r),
           \A t \in Tables : live'[t] \subseteq live[t] \cup data[r].found[t],
           rows' \subseteq rows \cup data[r].rows,
           step'[r] > DeleteDescendants =>
              \A n \in Below(r) \ broken : RowsFor(rows', n) = {}
    PROVE  Complete(r)'
<1> DEFINE d == data[r]
<1>1. Node(r)' = Node(r) /\ Below(r)' = Below(r) /\ mode'[r] # "content" /\ mode'[r] # "self"
  BY DEF Node, Below
<1>2. Ancestors(Node(r)) \subseteq live'["nodes"]
  BY EditsParts, BelowOrder DEF Complete
<1>3. ASSUME NEW n \in Below(r) \ broken'
      PROVE  /\ \A t \in Tables : n \in live'[t] => n \in d.found[t]
             /\ \A t \in Tables : n \in d.found[t] => n \in d.found["nodes"]
             /\ RowsFor(d.rows, n) =
                  IF n \in d.found["nodes"] THEN RowsOf(n, d.titles[n]) ELSE {}
             /\ RowsFor(rows', n) \subseteq d.rows
             /\ step'[r] > DeleteDescendants => RowsFor(rows', n) = {}
  <2>1. n \in Below(r) \ broken
    BY <1>3
  <2>2. /\ \A t \in Tables : n \in live[t] => n \in d.found[t]
        /\ \A t \in Tables : n \in d.found[t] => n \in d.found["nodes"]
        /\ RowsFor(d.rows, n) = IF n \in d.found["nodes"] THEN RowsOf(n, d.titles[n]) ELSE {}
        /\ RowsFor(rows, n) \subseteq d.rows
    BY <2>1 DEF Complete
  <2>3. RowsFor(rows', n) \subseteq d.rows
    BY <2>2 DEF RowsFor
  <2> QED
    BY <2>1, <2>2, <2>3
<1>4. \A n \in d.found["nodes"] : Ancestors(n) \cap Below(r) \subseteq d.found["nodes"]
  BY DEF Complete
<1> QED
  BY <1>1, <1>2, <1>3, <1>4 DEF Complete

\* Forward: the rows are gone when step 8 has been carried out.
LEMMA CompleteForward ==
    ASSUME EditsInv, AgreeInv, NEW r \in Requests, Execute(r) \/ FailExecute(r)
    PROVE  Complete(r)'
<1> DEFINE k == step[r]
           d == data[r]
<1>1. /\ TypeOK /\ StepSound(r) /\ Complete(r) /\ Stepping(r) /\ mode[r] = "forward"
      /\ k \in Steps /\ k \in 1..16 /\ data' = data /\ request' = request
      /\ broken' = broken /\ request[r].kind = "delete" /\ "nodes" \in Tables
      /\ mode = [q \in Requests |-> mode[q]] /\ step = [q \in Requests |-> step[q]]
  BY EditsParts, TableFacts DEF AgreeInv, RequestSound, ModeFits, Execute, FailExecute, Stepping,
                    TypeOK, Steps, DeleteElasticData
<1>2. PICK T \in SUBSET Items(d, k) :
        /\ Carry(d, k, T)
        /\ \/ T = Items(d, k) /\ mode'[r] = "forward" /\ step'[r] = k + 1
           \/ mode'[r] \in {"backward", "dead"} /\ step'[r] = k
  <2>1. CASE Execute(r)
    BY <1>1, <2>1 DEF Execute, At, GoTo
  <2>2. CASE FailExecute(r)
    BY <1>1, <2>2 DEF FailExecute, GoTo
  <2> QED
    BY <2>1, <2>2
<1>3. CarriedOut(k, T)
  BY <1>1, <1>2, Carried
<1>4. /\ \A t \in Tables : live'[t] \subseteq live[t]
      /\ rows' \subseteq rows
  BY <1>1, <1>3, StepKinds DEF CarriedOut, Without
<1>5. live'["nodes"] \ Below(r) = live["nodes"] \ Below(r)
  <2>1. Untouched(Below(r))
    BY <1>1, <1>2, EditsParts, CarryStores
  <2> QED
    BY <1>1, <2>1 DEF Untouched
<1>6. ASSUME step'[r] > DeleteDescendants, NEW n \in Below(r) \ broken
      PROVE  RowsFor(rows', n) = {}
  <2>1. CASE k > 8
    BY <1>1, <1>4, <2>1 DEF Complete, RowsFor, DeleteDescendants
  <2>2. CASE k = 8 /\ T = Items(d, k)
    <3>1. rows' = Without(d.rows)
      BY <1>3, <2>2 DEF CarriedOut, Items, DeleteDescendants, DeleteLikes
    <3>2. RowsFor(rows, n) \subseteq d.rows
      BY <1>1, <1>6 DEF Complete
    <3> QED
      BY <3>1, <3>2 DEF RowsFor, Without, SameKey
  <2> QED
    BY <1>1, <1>2, <1>6, <2>1, <2>2 DEF DeleteDescendants
<1> QED
  BY <1>1, <1>2, <1>4, <1>5, <1>6, CompleteKept

\* Back: what an undo puts back is what was found.
LEMMA CompleteBackward ==
    ASSUME EditsInv, AgreeInv, NEW r \in Requests, Undo(r) \/ FailUndo(r)
    PROVE  Complete(r)'
<1> DEFINE k == step[r]
           d == data[r]
<1>1. /\ TypeOK /\ StepSound(r) /\ Complete(r) /\ Stepping(r) /\ mode[r] = "backward"
      /\ k \in Steps /\ k \in 1..16 /\ data' = data /\ request' = request
      /\ broken' = broken /\ request[r].kind = "delete" /\ "nodes" \in Tables
      /\ mode = [q \in Requests |-> mode[q]] /\ step = [q \in Requests |-> step[q]]
  BY EditsParts, TableFacts DEF AgreeInv, RequestSound, ModeFits, Undo, FailUndo, Stepping,
                    TypeOK, Steps, DeleteElasticData
<1>2. PICK T \in SUBSET Items(d, k) :
        /\ CarryBack(d, k, T)
        /\ mode'[r] \in {"backward", "dead"} /\ step'[r] \in {k - 1, k}
  <2>1. CASE Undo(r)
    BY <1>1, <2>1 DEF Undo, At, GoTo
  <2>2. CASE FailUndo(r)
    BY <1>1, <2>2 DEF FailUndo, GoTo
  <2> QED
    BY <2>1, <2>2
<1>3. PutBack(k, T)
  BY <1>1, <1>2, CarriedBack
<1>4. \A t \in Tables : live'[t] \subseteq live[t] \cup d.found[t]
  <2>1. k \in DeleteSteps => T \subseteq d.found[TableOf(k)]
    BY <1>1, ItemsBelow
  <2> QED
    BY <1>1, <1>3, <2>1, StepKinds DEF PutBack
<1>5. rows' \subseteq rows \cup d.rows
  <2>1. k = DeleteDescendants => T \subseteq d.rows
    BY DEF Items
  <2> QED
    BY <1>3, <2>1 DEF PutBack, Without
<1>6. live'["nodes"] \ Below(r) = live["nodes"] \ Below(r)
  <2>1. Untouched(Below(r))
    BY <1>1, <1>2, EditsParts, CarryBackStores
  <2> QED
    BY <1>1, <2>1 DEF Untouched
<1>7. ASSUME step'[r] > DeleteDescendants, NEW n \in Below(r) \ broken
      PROVE  RowsFor(rows', n) = {}
  <2>1. k > 8
    BY <1>1, <1>2, <1>7 DEF DeleteDescendants
  <2>2. rows' = rows
    BY <1>3, <2>1 DEF PutBack, DeleteDescendants
  <2> QED
    BY <1>1, <2>1, <2>2 DEF Complete, DeleteDescendants
<1> QED
  BY <1>1, <1>2, <1>4, <1>5, <1>6, <1>7, CompleteKept

\* A node below the one of a request that is being served is in nobody else's
\* hands.
LEMMA NobodyElse ==
    ASSUME EditsInv, UndoInv, AgreeInv, NEW r \in Requests, Busy(r), ~Stepping(r),
           NEW n \in Place(r) \ broken,
           mode[r] \notin {"append", "insert", "rename_node"}
    PROVE  Settled(n)
<1>1. TypeOK /\ RequestSound(r)
  BY EditsParts
<1>2. n \in Nodes
  BY <1>1, BelowOrder DEF Place
<1>3. SUFFICES ASSUME Loose(n) PROVE FALSE
  BY <1>2 DEF AgreeInv, Accounted
<1>4. PICK q \in Requests : \/ Node(q) = n /\ mode[q] \in {"append", "insert", "rename_node"}
                            \/ Stepping(q) /\ n \in Below(q)
  BY <1>3 DEF Loose
<1>5. Busy(q) /\ n \in Place(q)
  BY <1>1, <1>4, EditsParts, BelowOrder
     DEF Busy, Stepping, Place, RequestSound, ModeFits
<1>6. CASE q = r
  BY <1>4, <1>6
<1>7. CASE q # r
  BY <1>5, <1>7, EditsParts, PlacesApart DEF UndoInv
<1> QED
  BY <1>6, <1>7

\* What exists below the node of a deletion has its ancestors, up to that node,
\* when no deletion has got under way there.
LEMMA RootedBelow ==
    ASSUME EditsInv, UndoInv, AgreeInv, NEW r \in Requests, Busy(r), ~Stepping(r),
           request[r].kind = "delete",
           NEW n \in live["nodes"], n \in Below(r), NEW a \in Ancestors(n)
    PROVE  a \in live["nodes"]
<1>1. TypeOK /\ n \in Nodes
  BY EditsParts, BelowOrder
<1>2. SUFFICES ASSUME NEW q \in Requests, Stepping(q), a \in Below(q) PROVE FALSE
  BY DEF AgreeInv, Rooted
<1>3. q # r /\ Busy(q) /\ n \in Below(q)
  BY <1>1, <1>2, BelowOrder DEF Busy, Stepping
<1>4. Place(q) = Below(q) /\ Place(r) = Below(r)
  BY <1>2, EditsParts DEF Place, RequestSound, ModeFits
<1> QED
  BY <1>3, <1>4, EditsParts, PlacesApart DEF UndoInv

\* The rows that are read are all the rows there are.
LEMMA CompleteRows ==
    ASSUME EditsInv, UndoInv, AgreeInv, NEW r \in Requests, FindRows(r)
    PROVE  Complete(r)'
<1> DEFINE ids == data[r].ids
<1>1. /\ TypeOK /\ RowsSound /\ mode[r] = "rows" /\ request[r].kind = "delete"
      /\ ids \subseteq Below(r) /\ live["nodes"] \cap Below(r) \subseteq ids
      /\ Busy(r) /\ ~Stepping(r) /\ Place(r) = Below(r)
  BY EditsParts DEF FindRows, RequestSound, ModeFits, ReadSound, Reading, Busy, Stepping, Place
<1>2. /\ mode'[r] = "content" /\ data'[r].rows = RowsToDelete(Node(r), ids)
      /\ UNCHANGED <<stores, request, broken>> /\ Below(r)' = Below(r)
  BY <1>1 DEF FindRows, GoTo, Node, Below, TypeOK
<1>3. ASSUME NEW n \in Below(r) \ broken
      PROVE  RowsFor(data'[r].rows, n) = RowsFor(rows, n)
  <2>1. Settled(n)
    BY <1>1, <1>3, NobodyElse
  <2>2. CASE n \notin live["nodes"]
    <3>1. RowsFor(rows, n) = {}
      BY <2>1, <2>2 DEF Settled
    <3> QED
      BY <1>2, <3>1 DEF RowsFor, RowsToDelete
  <2>3. CASE n \in live["nodes"]
    <3>1. ASSUME NEW row \in rows, row.id = n
          PROVE  row \in RowsToDelete(Node(r), ids)
      <4>1. row.node \in Ancestors(n) /\ n \in ids
        BY <1>1, <1>3, <2>3, <3>1 DEF RowsSound
      <4>2. row.node \in live["nodes"]
        BY <1>1, <1>3, <2>3, <4>1, RootedBelow
      <4>3. row.node \in Below(r) \/ row.node \in Ancestors(Node(r))
        BY <1>1, <1>3, <4>1, BelowOrder
      <4> QED
        BY <1>1, <3>1, <4>1, <4>2, <4>3 DEF RowsToDelete
    <3>2. RowsToDelete(Node(r), ids) \subseteq rows
      BY DEF RowsToDelete
    <3> QED
      BY <1>2, <3>1, <3>2 DEF RowsFor
  <2> QED
    BY <2>2, <2>3
<1>4. rows' = rows /\ broken' = broken
  BY <1>2 DEF stores
<1> QED
  BY <1>2, <1>3, <1>4 DEF Complete, Stepping

\* So the deletion gets under way with all there is.
LEMMA CompleteStart ==
    ASSUME EditsInv, UndoInv, AgreeInv, NEW r \in Requests, FindContent(r)
    PROVE  Complete(r)'
<1> DEFINE d == data[r]
<1>1. /\ TypeOK /\ RequestSound(r) /\ Undoable(r) /\ Complete(r) /\ "nodes" \in Tables
      /\ mode[r] = "content" /\ request[r].kind = "delete"
      /\ Busy(r) /\ ~Stepping(r) /\ Place(r) = Below(r) /\ Node(r) \in live["nodes"]
  BY EditsParts, TableFacts DEF FindContent, UndoInv, AgreeInv, RequestSound, ModeFits, ReadSound,
     Reading, Busy, Stepping, Place
<1>2. /\ \A t \in Tables : data'[r].found[t] \subseteq live[t] \cap Below(r)
      /\ data'[r].found["nodes"] = live["nodes"] \cap Below(r)
      /\ \A t \in Tables \ {"nodes"} :
           live[t] \cap live["nodes"] \cap Below(r) \subseteq data'[r].found[t]
      /\ data'[r].rows = d.rows /\ data'[r].titles = d.titles
      /\ UNCHANGED <<stores, request, broken>>
      /\ mode'[r] = "forward" /\ step'[r] = 1
  BY <1>1, FoundNow
<1>3. /\ live' = live /\ rows' = rows /\ title' = title /\ broken' = broken
      /\ Node(r)' = Node(r) /\ Below(r)' = Below(r)
  BY <1>2 DEF stores, Node, Below
<1>4. ASSUME NEW n \in live["nodes"], n \in Below(r), NEW a \in Ancestors(n)
      PROVE  a \in live["nodes"]
  BY <1>1, <1>4, RootedBelow
<1>5. Ancestors(Node(r)) \subseteq live["nodes"]
  BY <1>1, <1>4, BelowOrder
<1>6. \A n \in data'[r].found["nodes"] : Ancestors(n) \cap Below(r) \subseteq data'[r].found["nodes"]
  BY <1>2, <1>4
<1>7. ASSUME NEW n \in Below(r) \ broken
      PROVE  /\ \A t \in Tables : n \in live[t] => n \in data'[r].found[t]
             /\ \A t \in Tables : n \in data'[r].found[t] => n \in data'[r].found["nodes"]
             /\ RowsFor(data'[r].rows, n) =
                  IF n \in data'[r].found["nodes"] THEN RowsOf(n, data'[r].titles[n]) ELSE {}
             /\ RowsFor(rows, n) \subseteq data'[r].rows
  <2>1. Settled(n)
    BY <1>1, <1>7, NobodyElse
  <2>2. \A t \in Tables : n \in live[t] => n \in live["nodes"]
    BY <2>1 DEF Settled
  <2>3. RowsFor(d.rows, n) = RowsFor(rows, n) /\ d.titles[n] = title[n]
    BY <1>1, <1>7 DEF Complete, Undoable
  <2>4. RowsFor(rows, n) = IF n \in live["nodes"] THEN RowsOf(n, title[n]) ELSE {}
    BY <2>1 DEF Settled
  <2>5. RowsFor(d.rows, n) \subseteq d.rows
    BY DEF RowsFor
  <2> QED
    BY <1>2, <1>7, <2>2, <2>3, <2>4, <2>5
<1>8. ~(1 > DeleteDescendants)
  BY DEF DeleteDescendants
<1> QED
  BY <1>2, <1>3, <1>5, <1>6, <1>7, <1>8 DEF Complete, Stepping

\* Every deletion, whichever request goes on.
LEMMA CompleteStep ==
    ASSUME EditsInv, UndoInv, AgreeInv, NEW r \in Requests, Serve(r) \/ Fail(r),
           NEW q \in Requests
    PROVE  Complete(q)'
<1>0. /\ TypeOK /\ Complete(q) /\ request' = request /\ broken \subseteq broken'
      /\ mode = [p \in Requests |-> mode[p]] /\ step = [p \in Requests |-> step[p]]
      /\ RequestSound(q) /\ "nodes" \in Tables
  BY EditsParts, ControlTypes, TableFacts DEF Control, AgreeInv, TypeOK
<1>1. CASE q = r
  <2>1. CASE mode'[r] \in {"done", "workflow", "append", "insert", "rename_rows", "rename_node",
                           "ids", "nodes"}
    BY <1>1, <2>1 DEF Complete, Stepping
  <2>2. CASE mode'[r] = "self"
    <3>1. Finished(r)
      <4> USE DEF GoTo, At
      <4>1. ~FindNodes(r) /\ ~FindRows(r) /\ ~FindContent(r)
        BY <1>0, <2>2 DEF FindNodes, FindRows, FindContent
      <4>2. ~Execute(r) /\ ~FailExecute(r) /\ ~Undo(r) /\ ~FailUndo(r) /\ ~Recover(r) /\ ~FailFinish(r)
        BY <1>0, <2>2 DEF Execute, FailExecute, Undo, FailUndo, Recover, FailFinish
      <4>3. ~Create(r) /\ ~RenameRows(r) /\ ~RenameNode(r) /\ ~FindIds(r) /\ ~DeleteSelf(r)
            /\ ~RolledBack(r)
        BY <1>0, <2>2 DEF Create, NextPart, RenameRows, RenameNode, FindIds, DeleteSelf, RolledBack
      <4>4. ~FailCreate(r) /\ ~FailRenameRows(r) /\ ~FailRenameNode(r) /\ ~FailFind(r)
        BY <1>0, <2>2 DEF FailCreate, FailRenameRows, FailRenameNode, FailFind
      <4>5. ~Arrive(r)
        BY <1>0, <2>2 DEF Arrive, First, TypeOK, Asked
      <4> QED
        BY <4>1, <4>2, <4>3, <4>4, <4>5 DEF Serve, Fail
    <3>2. /\ live' = live /\ Below(r)' = Below(r) /\ Stepping(r) /\ step[r] = 17
          /\ StepSound(r)
      BY <1>0, <1>1, <3>1
         DEF Finished, stores, Below, Node, Stepping, Finish, DeleteElasticData, RequestSound
    <3>3. live["nodes"] \cap Below(r) = {}
      BY <3>2 DEF StepSound, DeleteDescendants
    <3> QED
      BY <1>1, <2>2, <3>2, <3>3 DEF Complete, Stepping
  <2>3. CASE FindNodes(r)
    <3>1. mode'[r] = "rows"
      BY <1>0, <2>3 DEF FindNodes, GoTo
    <3> QED
      BY <1>1, <3>1 DEF Complete, Stepping
  <2>4. CASE Recover(r) \/ FailFinish(r)
    <3>1. /\ Stepping(r) /\ mode'[r] = "backward" /\ UNCHANGED <<stores, data, broken>>
          /\ step'[r] > DeleteDescendants => step[r] > DeleteDescendants
      BY <1>0, <2>4 DEF Recover, FailFinish, Stepping, GoTo, At, Finish, DeleteElasticData,
                        DeleteDescendants
    <3>2. /\ step'[r] > DeleteDescendants => \A n \in Below(r) \ broken : RowsFor(rows', n) = {}
          /\ live' = live /\ rows' = rows
      BY <1>0, <1>1, <3>1 DEF Complete, stores
    <3> QED
      BY <1>0, <1>1, <3>1, <3>2, CompleteKept
  <2> QED
    BY <1>0, <1>1, <2>1, <2>2, <2>3, <2>4, Informed, CompleteRows, CompleteStart,
       CompleteForward, CompleteBackward
<1>2. CASE q # r /\ Busy(q) /\ request[q].kind = "delete"
  <2>1. /\ Idle(q) /\ Below(q)' = Below(q) /\ Place(q) = Below(q) /\ Node(q)' = Node(q)
    BY <1>0, <1>2, Bystander DEF Below, Node, Place
  <2>2. PICK S : Untouched(S) /\ Intact(S) /\ Below(q) \cap S = {}
    BY <1>2, <2>1, Bystander
  <2>3. \A n \in Below(q) : RowsFor(rows', n) = RowsFor(rows, n)
    BY <2>2, SameRows
  <2>4. \A t \in Tables : \A n \in Below(q) : n \in live'[t] <=> n \in live[t]
    BY <2>2 DEF Untouched
  <2>5. mode'[q] = mode[q] /\ step'[q] = step[q] /\ data'[q] = data[q]
    BY <2>1 DEF Idle
  <2>6. ASSUME Ancestors(Node(q)) \subseteq live["nodes"]
        PROVE  Ancestors(Node(q)) \subseteq live'["nodes"]
    <3>1. SUFFICES ASSUME NEW a \in Ancestors(Node(q)), a \notin live'["nodes"] PROVE FALSE
      OBVIOUS
    <3>2. Busy(r) /\ request[r].kind = "delete" /\ a \in Below(r)
      BY <2>6, <3>1, Removes
    <3>3. Node(q) \in Below(r) /\ Node(q) \in Below(q) /\ Place(r) = Below(r)
      BY <1>0, <3>1, <3>2, BelowOrder DEF Place
    <3> QED
      BY <1>2, <2>1, <3>2, <3>3, EditsParts, PlacesApart DEF UndoInv
  <2> QED
    BY <1>0, <2>1, <2>3, <2>4, <2>5, <2>6 DEF Complete, Stepping
<1>3. CASE q # r /\ ~(Busy(q) /\ request[q].kind = "delete")
  <2>1. Idle(q)
    BY <1>0, <1>3, OthersIdle
  <2>2. ~(mode[q] \in {"content", "forward", "backward", "dead", "self"})
    BY <1>0, <1>3 DEF RequestSound, ModeFits, Reading, Stepping, Busy
  <2> QED
    BY <2>1, <2>2 DEF Complete, Stepping, Idle
<1> QED
  BY <1>1, <1>2, <1>3

\* When a deletion has been undone or carried out, what is below its node is
\* there with its rows or gone with them.
LEMMA SettledAgain ==
    ASSUME EditsInv, UndoInv, AgreeInv, NEW r \in Requests, Stepping(r),
           step[r] = 0 \/ (step[r] = Finish /\ mode[r] = "forward"),
           NEW n \in Below(r) \ broken
    PROVE  Settled(n)
<1> DEFINE d == data[r]
<1>1. /\ StepSound(r) /\ Undoable(r) /\ Complete(r) /\ "nodes" \in Tables
  BY EditsParts, TableFacts DEF UndoInv, AgreeInv, RequestSound
<1>2. /\ \A t \in Tables : n \in live[t] => n \in d.found[t]
      /\ \A t \in Tables : n \in d.found[t] => n \in d.found["nodes"]
      /\ RowsFor(d.rows, n) = IF n \in d.found["nodes"] THEN RowsOf(n, d.titles[n]) ELSE {}
      /\ RowsFor(rows, n) \subseteq d.rows
      /\ step[r] > DeleteDescendants => RowsFor(rows, n) = {}
      /\ d.titles[n] = title[n]
  BY <1>1 DEF Complete, Undoable
<1>3. CASE step[r] = 0
  <2>1. d.found["nodes"] \subseteq live["nodes"]
    <3>1. PICK j \in DeleteSteps : TableOf(j) = "nodes"
      BY <1>1, EveryTable
    <3>2. step[r] < j
      BY <1>3 DEF DeleteSteps, DeleteNodes
    <3> QED
      BY <1>1, <3>1, <3>2 DEF StepSound
  <2>2. d.rows \subseteq rows
    BY <1>1, <1>3 DEF Undoable, Ahead, DeleteDescendants
  <2>3. RowsFor(rows, n) = RowsFor(d.rows, n)
    BY <1>2, <2>2 DEF RowsFor
  <2> QED
    BY <1>1, <1>2, <2>1, <2>3 DEF Settled
<1>4. CASE step[r] = Finish /\ mode[r] = "forward"
  <2>1. ASSUME NEW t \in Tables
        PROVE  n \notin live[t]
    <3>1. PICK j \in DeleteSteps : TableOf(j) = t
      BY EveryTable
    <3>2. step[r] > j
      BY <1>4 DEF Finish, DeleteElasticData, DeleteSteps, DeleteNodes
    <3> QED
      BY <1>1, <1>2, <3>1, <3>2 DEF Undoable
  <2>2. RowsFor(rows, n) = {}
    BY <1>2, <1>4 DEF Finish, DeleteElasticData, DeleteDescendants
  <2> QED
    BY <1>1, <2>1, <2>2 DEF Settled
<1> QED
  BY <1>3, <1>4

\* A node that is left alone stays settled.
LEMMA StillSettled ==
    ASSUME NEW n \in Nodes, NEW S, Untouched(S), Intact(S), n \notin S, Settled(n)
    PROVE  Settled(n)'
<1>1. RowsFor(rows', n) = RowsFor(rows, n) /\ title'[n] = title[n]
  BY SameRows DEF Intact
<1>2. \A t \in Tables : n \in live'[t] <=> n \in live[t]
  BY DEF Untouched
<1> QED
  BY <1>1, <1>2, TableFacts DEF Settled

\* The node of a request that goes on is settled again or still in its hands.
LEMMA OwnAccounted ==
    ASSUME EditsInv, UndoInv, AgreeInv, NEW r \in Requests, Serve(r) \/ Fail(r),
           NEW n \in Place(r) \ broken'
    PROVE  Loose(n)' \/ Settled(n)'
<1>1. /\ TypeOK /\ RowsSound /\ RequestSound(r) /\ Exact(r) /\ Complete(r) /\ request' = request
      /\ broken \subseteq broken' /\ Node(r)' = Node(r) /\ Below(r)' = Below(r)
      /\ mode = [q \in Requests |-> mode[q]] /\ "nodes" \in Tables /\ n \in Nodes
      /\ n \in Place(r) \ broken /\ request[r].kind \in {"create", "title", "delete"}
  <2>1. broken \subseteq broken' /\ request' = request
    BY EditsParts, ControlTypes DEF Control
  <2>2. n \in Nodes
    BY EditsParts, BelowOrder DEF Place
  <2> QED
    BY <2>1, <2>2, EditsParts, TableFacts DEF AgreeInv, Node, Below, TypeOK, Asked
<1>2. ASSUME UNCHANGED stores, Settled(n)
      PROVE  Settled(n)'
  BY <1>2 DEF stores, Settled
<1>3. ASSUME mode'[r] \in {"append", "insert", "rename_node"}, request[r].kind # "delete"
      PROVE  Loose(n)'
  BY <1>1, <1>3 DEF Loose, Place
<1>4. ASSUME mode'[r] \in {"forward", "backward", "dead"}, request[r].kind = "delete"
      PROVE  Loose(n)'
  BY <1>1, <1>4 DEF Loose, Place, Stepping
<1>5. CASE Arrive(r)
  <2>1. UNCHANGED stores /\ mode[r] = "idle" /\ UNCHANGED broken
    BY <1>5 DEF Arrive
  <2>2. CASE Settled(n)
    BY <1>2, <2>1, <2>2
  <2>3. CASE ~Settled(n)
    <3>1. Loose(n)
      BY <1>1, <2>3 DEF AgreeInv, Accounted
    <3>2. PICK q \in Requests : \/ Node(q) = n /\ mode[q] \in {"append", "insert", "rename_node"}
                                \/ Stepping(q) /\ n \in Below(q)
      BY <3>1 DEF Loose
    <3>3. Idle(q)
      BY <1>1, <2>1, <3>2, OthersIdle DEF Stepping
    <3> QED
      BY <3>2, <3>3 DEF Loose, Idle, Stepping, Node, Below
  <2> QED
    BY <2>2, <2>3
<1>6. CASE Create(r)
  <2>1. /\ mode[r] \in {"workflow", "append", "insert"} /\ CreatePart(r)
        /\ mode'[r] = NextPart(mode[r]) /\ request[r].kind = "create" /\ n = Node(r)
    BY <1>1, <1>6 DEF Create, GoTo, RequestSound, ModeFits, Place
  <2>2. CASE mode[r] \in {"workflow", "append"}
    <3>1. mode'[r] \in {"append", "insert"}
      BY <2>1, <2>2 DEF NextPart
    <3> QED
      BY <1>3, <2>1, <3>1
  <2>3. CASE mode[r] = "insert"
    <3>1. /\ live' = [live EXCEPT !["nodes"] = @ \cup {n}]
          /\ title' = [title EXCEPT ![n] = "old"] /\ rows' = rows
      BY <2>1, <2>3 DEF CreatePart, Node
    <3>2. n \in live'["nodes"] /\ title'[n] = "old"
      BY <1>1, <3>1 DEF TypeOK
    <3>3. RowsFor(rows', n) = RowsOf(n, "old")
      BY <1>1, <2>1, <2>3, <3>1 DEF Exact
    <3> QED
      BY <3>2, <3>3 DEF Settled
  <2> QED
    BY <2>1, <2>2, <2>3
<1>7. CASE RenameRows(r)
  <2>1. mode'[r] = "rename_node" /\ request[r].kind # "delete"
    BY <1>1, <1>7 DEF RenameRows, GoTo, RequestSound, ModeFits
  <2> QED
    BY <1>3, <2>1
<1>8. CASE RenameNode(r)
  <2>1. /\ mode[r] = "rename_node" /\ request[r].kind # "delete" /\ SetTitle(Node(r))
        /\ rows' = rows
    BY <1>1, <1>8 DEF RenameNode, RequestSound, ModeFits, Node
  <2>2. n = Node(r)
    BY <1>1, <2>1 DEF Place
  <2>3. n \in live'["nodes"] /\ title'[n] = "new"
    BY <1>1, <2>1, <2>2 DEF SetTitle, TypeOK
  <2>4. RowsFor(rows', n) = RowsOf(n, "new")
    BY <1>1, <2>1, <2>2 DEF Exact
  <2> QED
    BY <2>3, <2>4 DEF Settled
<1>9. CASE FailCreate(r) \/ FailRenameRows(r) \/ FailRenameNode(r)
  <2>1. Node(r) \in broken' /\ request[r].kind # "delete"
    BY <1>1, <1>9 DEF FailCreate, FailRenameRows, FailRenameNode, RequestSound, ModeFits, Node
  <2> QED
    BY <1>1, <2>1 DEF Place
<1>10. CASE FindIds(r) \/ FindNodes(r) \/ FindRows(r) \/ FindContent(r) \/ FailFind(r)
  <2>1. /\ UNCHANGED stores /\ Busy(r) /\ ~Stepping(r)
        /\ mode[r] \notin {"append", "insert", "rename_node"}
    BY <1>10 DEF FindIds, FindNodes, FindRows, FindContent, FailFind, Busy, Stepping
  <2> QED
    BY <1>1, <1>2, <2>1, NobodyElse
<1>11. CASE Execute(r) \/ FailExecute(r) \/ Undo(r) \/ FailUndo(r) \/ Recover(r) \/ FailFinish(r)
  <2>1. mode'[r] \in {"forward", "backward", "dead"}
    <3> USE DEF GoTo, At
    <3>1. CASE Execute(r) \/ Undo(r) \/ FailUndo(r) \/ Recover(r) \/ FailFinish(r)
      BY <1>1, <3>1 DEF Execute, Undo, FailUndo, Recover, FailFinish
    <3>2. CASE FailExecute(r)
      BY <1>1, <3>2 DEF FailExecute
    <3> QED
      BY <1>11, <3>1, <3>2
  <2>2. request[r].kind = "delete"
    BY <1>1, <1>11 DEF Execute, FailExecute, Undo, FailUndo, Recover, FailFinish, RequestSound,
                       ModeFits, Stepping
  <2> QED
    BY <1>4, <2>1, <2>2
<1>12. CASE Finished(r) \/ RolledBack(r)
  <2>1. /\ Stepping(r) /\ UNCHANGED stores /\ request[r].kind = "delete"
        /\ step[r] = 0 \/ (step[r] = Finish /\ mode[r] = "forward")
    BY <1>1, <1>12 DEF Finished, RolledBack, Stepping, RequestSound, ModeFits
  <2>2. n \in Below(r) \ broken
    BY <1>1, <2>1 DEF Place
  <2>3. Settled(n)
    BY <2>1, <2>2, SettledAgain
  <2> QED
    BY <1>2, <2>1, <2>3
<1>13. CASE DeleteSelf(r)
  <2>1. /\ mode[r] = "self" /\ request[r].kind = "delete" /\ Busy(r) /\ ~Stepping(r)
        /\ live' = [live EXCEPT !["nodes"] = @ \ {Node(r)}] /\ UNCHANGED <<archived, title, rows>>
    BY <1>1, <1>13 DEF DeleteSelf, RequestSound, ModeFits, Busy, Stepping, Node
  <2>2. Node(r) \notin live["nodes"]
    BY <1>1, <2>1, BelowOrder DEF Complete
  <2>3. live' = live
    BY <1>1, <2>1, <2>2 DEF TypeOK
  <2> QED
    BY <1>1, <1>2, <2>1, <2>3, NobodyElse DEF stores
<1> QED
  BY <1>5, <1>6, <1>7, <1>8, <1>9, <1>10, <1>11, <1>12, <1>13 DEF Serve, Fail

\* Every node.
LEMMA AccountedStep ==
    ASSUME EditsInv, UndoInv, AgreeInv, NEW r \in Requests, Serve(r) \/ Fail(r)
    PROVE  Accounted'
<1>1. TypeOK /\ Accounted /\ RequestSound(r) /\ broken \subseteq broken' /\ request' = request
  BY EditsParts, ControlTypes DEF Control, AgreeInv
<1>2. SUFFICES ASSUME NEW n \in Nodes \ broken' PROVE Loose(n)' \/ Settled(n)'
  BY DEF Accounted
<1>3. CASE n \in Place(r)
  BY <1>2, <1>3, OwnAccounted
<1>4. CASE n \notin Place(r) /\ Settled(n)
  BY <1>4, EditsParts, OnlyThere, StillSettled
<1>5. CASE n \notin Place(r) /\ Loose(n)
  <2>1. PICK q \in Requests : \/ Node(q) = n /\ mode[q] \in {"append", "insert", "rename_node"}
                              \/ Stepping(q) /\ n \in Below(q)
    BY <1>5 DEF Loose
  <2>2. q # r
    BY <1>1, <1>5, <2>1, BelowOrder DEF Place, RequestSound, ModeFits
  <2>3. Idle(q)
    BY <1>1, <2>2, OthersIdle
  <2> QED
    BY <2>1, <2>3 DEF Loose, Idle, Stepping, Node, Below
<1> QED
  BY <1>1, <1>2, <1>3, <1>4, <1>5 DEF Accounted

\* The ancestors of what exists.
LEMMA RootedStep ==
    ASSUME EditsInv, UndoInv, AgreeInv, NEW r \in Requests, Serve(r) \/ Fail(r)
    PROVE  Rooted'
<1>1. /\ TypeOK /\ RequestSound(r) /\ Rooted /\ Complete(r) /\ Exact(r) /\ request' = request
      /\ "nodes" \in Tables /\ live["nodes"] \subseteq Nodes
      /\ mode = [q \in Requests |-> mode[q]]
      /\ \A q \in Requests : Below(q)' = Below(q)
  BY EditsParts, ControlTypes, TableFacts DEF Control, AgreeInv, TypeOK, Below, Node
<1>2. SUFFICES ASSUME NEW n \in live'["nodes"], NEW a \in Ancestors(n)
               PROVE  a \in live'["nodes"] \/ \E q \in Requests : Stepping(q)' /\ a \in Below(q)
  BY <1>1 DEF Rooted
<1>3. ASSUME NEW q \in Requests, Stepping(q), a \in Below(q), q # r
      PROVE  Stepping(q)'
  BY <1>1, <1>3, OthersIdle DEF Idle, Stepping
<1>4. ASSUME Stepping(r), a \in Below(r), n \in live["nodes"]
      PROVE  Stepping(r)' \/ a \in live'["nodes"]
  <2>1. SUFFICES ASSUME ~Stepping(r)' PROVE a \in live'["nodes"]
    OBVIOUS
  <2>2. (Finished(r) \/ RolledBack(r)) /\ StepSound(r)
    BY <1>1, <1>4, <2>1, UnderWay DEF RequestSound
  <2>3. n \in Below(r) /\ live' = live
    BY <1>1, <1>4, <2>2, BelowOrder DEF Finished, RolledBack, stores
  <2>4. CASE Finished(r)
    BY <1>4, <2>2, <2>3, <2>4
       DEF Finished, StepSound, Finish, DeleteElasticData, DeleteDescendants
  <2>5. CASE RolledBack(r)
    <3>1. n \in data[r].found["nodes"]
      BY <1>4, <2>2, <2>3 DEF StepSound
    <3>2. a \in data[r].found["nodes"]
      BY <1>1, <1>4, <3>1 DEF Complete
    <3>3. PICK j \in DeleteSteps : TableOf(j) = "nodes"
      BY <1>1, EveryTable
    <3>4. step[r] < j
      BY <2>5 DEF RolledBack, DeleteSteps, DeleteNodes
    <3> QED
      BY <1>4, <2>2, <2>3, <3>2, <3>3, <3>4 DEF StepSound
  <2> QED
    BY <2>2, <2>4, <2>5
<1>5. ASSUME a \in live["nodes"], a \notin live'["nodes"]
      PROVE  Stepping(r)' /\ a \in Below(r)
  <2>1. Busy(r) /\ request[r].kind = "delete" /\ a \in Below(r)
    BY <1>5, Removes
  <2>2. CASE Stepping(r)
    <3>1. ~(Finished(r) \/ RolledBack(r))
      BY <1>5 DEF Finished, RolledBack, stores
    <3> QED
      BY <1>1, <2>1, <2>2, <3>1, UnderWay
  <2>3. CASE ~Stepping(r)
    <3>1. DeleteSelf(r)
      <4>1. ~UNCHANGED stores
        BY <1>5 DEF stores
      <4>2. ~(Create(r) \/ FailCreate(r) \/ RenameRows(r) \/ FailRenameRows(r)
              \/ RenameNode(r) \/ FailRenameNode(r))
        BY <1>1, <2>1 DEF Create, FailCreate, RenameRows, FailRenameRows, RenameNode,
                          FailRenameNode, RequestSound, ModeFits
      <4>3. ~(Execute(r) \/ FailExecute(r) \/ Undo(r) \/ FailUndo(r))
        BY <2>3 DEF Execute, FailExecute, Undo, FailUndo, Stepping
      <4> QED
        BY <4>1, <4>2, <4>3, StoresChange
    <3>2. live["nodes"] \cap Below(r) = {}
      BY <1>1, <3>1 DEF DeleteSelf, Complete
    <3> QED
      BY <1>5, <2>1, <3>2
  <2> QED
    BY <2>2, <2>3
<1>6. CASE n \in live["nodes"]
  <2>1. a \in live["nodes"] \/ \E q \in Requests : Stepping(q) /\ a \in Below(q)
    BY <1>1, <1>6 DEF Rooted
  <2>2. CASE a \in live["nodes"]
    BY <1>5, <2>2
  <2>3. CASE \E q \in Requests : Stepping(q) /\ a \in Below(q)
    BY <1>3, <1>4, <1>6, <2>3
  <2> QED
    BY <2>1, <2>2, <2>3
<1>7. CASE n \notin live["nodes"] /\ Stepping(r) /\ n \in data[r].found["nodes"]
  <2>1. /\ n \in Below(r) /\ Ancestors(Node(r)) \subseteq live["nodes"]
    BY <1>1, <1>7 DEF RequestSound, StepSound, Complete
  <2>2. a \in Below(r) \/ a \in Ancestors(Node(r))
    BY <1>1, <2>1, BelowOrder
  <2>3. CASE a \in Ancestors(Node(r))
    BY <1>5, <2>1, <2>3
  <2>4. CASE a \in Below(r)
    <3>1. ~(Finished(r) \/ RolledBack(r))
      BY <1>2, <1>7 DEF Finished, RolledBack, stores
    <3> QED
      BY <1>1, <1>7, <2>4, <3>1, UnderWay
  <2> QED
    BY <2>2, <2>3, <2>4
<1>8. CASE n \notin live["nodes"] /\ ~(Stepping(r) /\ n \in data[r].found["nodes"])
  <2>1. Making(r) /\ n = Node(r)
    BY <1>1, <1>2, <1>8, Grows
  <2>2. mode[r] # "idle"
    <3>1. ~Arrive(r)
      BY <1>2, <1>8 DEF Arrive, stores
    <3> QED
      BY <1>1, <3>1, Active DEF Busy
  <2>3. Parent[n] \in live["nodes"]
    BY <1>1, <2>1, <2>2 DEF Making, Exact
  <2>4. a = Parent[n] \/ a \in Ancestors(Parent[n])
    <3>1. n \in Nodes /\ n # Root
      <4>1. n \in Nodes /\ IsTree
        BY <1>1, <2>1, ReadTypes, NodeEditsAssumption
      <4> QED
        BY <4>1 DEF IsTree
    <3> QED
      BY <3>1, NodeEditsAssumption DEF IsTree
  <2>5. a \in live["nodes"] \/ \E q \in Requests : Stepping(q) /\ a \in Below(q)
    BY <1>1, <2>3, <2>4 DEF Rooted
  <2>6. ~Stepping(r)
    BY <2>1 DEF Making, Stepping
  <2> QED
    BY <1>3, <1>5, <2>5, <2>6
<1> QED
  BY <1>6, <1>7, <1>8

\* AgreeInv holds at first: each node with its rows, or neither.
LEMMA InitAgree == Init => AgreeInv
<1> SUFFICES ASSUME Init PROVE AgreeInv
  OBVIOUS
<1> DEFINE existing == Nodes \ {request[r].node : r \in
                                 {q \in Requests : request[q].kind = "create"}}
<1>1. /\ IsPlan(request) /\ mode = [r \in Requests |-> "idle"]
      /\ live = [t \in Tables |-> existing]
      /\ rows = UNION {RowsOf(n, "old") : n \in existing}
      /\ title = [n \in Nodes |-> "old"]
      /\ existing \subseteq Nodes /\ "nodes" \in Tables
      /\ \A t \in Tables : live[t] = existing
  BY NodeEditsAssumption, TableFacts DEF Init
<1>2. ASSUME NEW n \in Nodes \ existing
      PROVE  Creates(request, n)
  <2>1. PICK r \in Requests : request[r].kind = "create" /\ request[r].node = n
    BY <1>2
  <2>2. request[r] = [kind |-> "create", node |-> n]
    BY <1>1, <2>1 DEF IsPlan, Asked
  <2> QED
    BY <2>2 DEF Creates
<1>3. ASSUME NEW n \in existing
      PROVE  ~Creates(request, n)
  BY <1>3 DEF Creates
<1> HIDE DEF existing
<1>4. ASSUME NEW n \in Nodes
      PROVE  Settled(n)
  <2>1. \A m \in existing : \A row \in RowsOf(m, "old") : row.id = m
    BY RowsOfNode
  <2>2. CASE n \in existing
    <3>1. RowsFor(rows, n) = RowsOf(n, "old")
      BY <1>1, <2>1, <2>2 DEF RowsFor
    <3> QED
      BY <1>1, <2>2, <3>1 DEF Settled
  <2>3. CASE n \notin existing
    <3>1. RowsFor(rows, n) = {}
      BY <1>1, <2>1, <2>3 DEF RowsFor
    <3> QED
      BY <1>1, <2>3, <3>1 DEF Settled
  <2> QED
    BY <2>2, <2>3
<1>5. Rooted
  <2>1. SUFFICES ASSUME NEW n \in existing, NEW a \in Ancestors(n) PROVE a \in existing
    BY <1>1 DEF Rooted
  <2>2. n \in Nodes /\ a \in Nodes
    BY <1>1, <2>1, TreeOrder
  <2>3. ~Creates(request, a)
    BY <1>1, <1>3, <2>1, <2>2 DEF IsPlan
  <2> QED
    BY <1>2, <2>2, <2>3
<1>6. ASSUME NEW r \in Requests
      PROVE  Exact(r) /\ Complete(r)
  BY <1>1 DEF Exact, Complete, Stepping
<1> QED
  BY <1>4, <1>5, <1>6 DEF AgreeInv, Accounted

\* Every step keeps it.
LEMMA AgreeInvStep == EditsInv /\ UndoInv /\ AgreeInv /\ [Next]_vars => AgreeInv'
<1> SUFFICES ASSUME EditsInv, UndoInv, AgreeInv, [Next]_vars PROVE AgreeInv'
  OBVIOUS
<1>1. CASE UNCHANGED vars
  <2> USE <1>1 DEF vars
  <2>1. \A n : Loose(n)' <=> Loose(n)
    BY DEF Loose, Node, Stepping, Below
  <2>2. \A n : Settled(n)' <=> Settled(n)
    BY DEF Settled, RowsFor
  <2>3. Accounted'
    BY <2>1, <2>2 DEF AgreeInv, Accounted
  <2>4. Rooted'
    BY DEF AgreeInv, Rooted, Stepping, Below, Node
  <2>5. \A r \in Requests : Exact(r)' /\ Complete(r)'
    BY DEF AgreeInv, Exact, Complete, Node, Below, Stepping, RowsFor
  <2> QED
    BY <2>3, <2>4, <2>5 DEF AgreeInv
<1>2. ASSUME NEW r \in Requests, Serve(r) \/ Fail(r)
      PROVE  AgreeInv'
  BY <1>2, AccountedStep, RootedStep, ExactStep, CompleteStep DEF AgreeInv
<1> QED
  BY <1>1, <1>2 DEF Next

\* When nobody is at work, the nodes and the rows at their ancestors agree.
LEMMA QuietAgree == EditsInv /\ AgreeInv => Agree
<1> SUFFICES ASSUME EditsInv, AgreeInv, \A r \in Requests : ~Busy(r)
             PROVE  LET whole == live["nodes"] \ broken IN
                    /\ {row \in rows : row.id \notin broken}
                         = UNION {RowsOf(n, title[n]) : n \in whole}
                    /\ \A t \in Tables : live[t] \ broken \subseteq whole
  BY DEF Agree
<1> DEFINE whole == live["nodes"] \ broken
<1>1. TypeOK /\ "nodes" \in Tables
  BY EditsParts, TableFacts
<1>2. ASSUME NEW n \in Nodes \ broken
      PROVE  Settled(n)
  <2>1. ~Loose(n)
    BY DEF Loose, Busy, Stepping
  <2> QED
    BY <2>1 DEF AgreeInv, Accounted
<1>3. ASSUME NEW row \in rows, row.id \notin broken
      PROVE  row.id \in whole /\ row \in RowsOf(row.id, title[row.id])
  <2>1. row.id \in Nodes /\ row \in RowsFor(rows, row.id)
    BY <1>1 DEF TypeOK, RowSet, RowsFor
  <2> QED
    BY <1>2, <1>3, <2>1 DEF Settled
<1>4. ASSUME NEW n \in whole, NEW row \in RowsOf(n, title[n])
      PROVE  row \in rows /\ row.id \notin broken
  <2>1. n \in Nodes
    BY <1>1 DEF TypeOK
  <2>2. row \in RowsFor(rows, n) /\ row.id = n
    BY <1>2, <1>4, <2>1, RowsOfNode DEF Settled
  <2> QED
    BY <1>4, <2>2 DEF RowsFor
<1>5. {row \in rows : row.id \notin broken} = UNION {RowsOf(n, title[n]) : n \in whole}
  BY <1>3, <1>4
<1>6. \A t \in Tables : live[t] \ broken \subseteq whole
  BY <1>1, <1>2 DEF Settled, TypeOK
<1> QED
  BY <1>5, <1>6

\* When nobody is at work, the rows at the ancestors are those the nodes call
\* for, with their titles, and nothing is left of nodes that are gone, but for
\* the nodes whose creation or renaming broke off, whatever deletions failed and
\* were undone.
THEOREM AgreeAtRest ==
    ASSUME ~Racing
    PROVE  Spec => []Agree
<1>1. EditsInv /\ UndoInv /\ [Next]_vars => UndoInv'
  BY UndoInvStep
<1>2. EditsInv /\ UndoInv /\ AgreeInv /\ [Next]_vars => AgreeInv'
  BY AgreeInvStep
<1>3. EditsInv /\ AgreeInv => Agree
  BY QuietAgree
<1> QED
  BY <1>1, <1>2, <1>3, InitUndo, InitAgree, EditsInvariant, PTL DEF Spec
=============================================================================
