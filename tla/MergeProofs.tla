------------------------------ MODULE MergeProofs ------------------------------
(***************************************************************************)
(* Proved of Merge, for any tables, any list of changes, any number of     *)
(* merges and of errors and crashes in their steps and undos: MergeInv.    *)
(***************************************************************************)
EXTENDS Merge, FiniteSetTheorems, WellFoundedInduction, TLAPS

-----------------------------------------------------------------------------
(* Tables.                                                                 *)

\* The columns of tables.
Columns ==
    {"objs", "parent", "above", "title", "index", "place", "nodes", "inputs", "outputs", "inputted",
     "loose", "initial", "text"}
HasColumns(u) == DOMAIN u = Columns /\ u = [x \in DOMAIN u |-> u[x]]

\* Tables are the records that have their columns, of their types.
LEMMA TablesAre ==
    ASSUME NEW u
    PROVE  u \in Tables <=>
             /\ HasColumns(u)
             /\ u.objs \subseteq Objects
             /\ u.parent \in [Nodes -> Nodes \cup {None}] /\ u.above \in [Nodes -> SUBSET Nodes]
             /\ u.title \in [Titled -> Titles \cup {NoTitle}]
             /\ u.index \in [Steps -> Nat] /\ u.place \in [Flows -> Nat]
             /\ u.nodes \subseteq Steps \X Nodes
             /\ u.inputs \subseteq Steps \X Ios /\ u.outputs \subseteq Steps \X Ios
             /\ u.inputted \subseteq Steps \X Ios
             /\ u.loose \subseteq Ios /\ u.initial \subseteq Ios
             /\ u.text \in [Objects -> SUBSET Texts]
<1>1. ASSUME HasColumns(u)
      PROVE  u = [objs |-> u.objs, parent |-> u.parent, above |-> u.above, title |-> u.title,
                  index |-> u.index, place |-> u.place, nodes |-> u.nodes, inputs |-> u.inputs,
                  outputs |-> u.outputs, inputted |-> u.inputted, loose |-> u.loose,
                  initial |-> u.initial, text |-> u.text]
  BY <1>1 DEF HasColumns, Columns
<1>2. u \in Tables => HasColumns(u)
  BY DEF Tables, HasColumns, Columns
<1> QED
  BY <1>1, <1>2 DEF Tables

\* Of all objects but those of D, v says what u says, and v is tables.
SameBut(u, v, D) ==
    /\ v \in Tables
    /\ \A x \in Objects \ D : (x \in v.objs <=> x \in u.objs) /\ v.text[x] = u.text[x]
    /\ \A x \in Titled \ D : v.title[x] = u.title[x]
    /\ \A s \in Steps \ D : Of(v.nodes, s) = Of(u.nodes, s)
    /\ \A n \in Nodes \ D : v.above[n] = u.above[n]

\* Two changes after one another.
LEMMA SameTwice ==
    ASSUME NEW u, NEW v, NEW w, NEW D, NEW E, SameBut(u, v, D), SameBut(v, w, E)
    PROVE  SameBut(u, w, D \cup E)
BY DEF SameBut

LEMMA SameLess ==
    ASSUME NEW u, NEW v, NEW D, NEW E, SameBut(u, v, D), D \subseteq E
    PROVE  SameBut(u, v, E)
BY DEF SameBut

\* What InsertRows does to each column.
LEMMA InsertColumns ==
    ASSUME NEW u, HasColumns(u), NEW w, NEW S
    PROVE  LET v == InsertRows(u, w, S) IN
           /\ HasColumns(v)
           /\ v.objs = u.objs \cup S
           /\ v.parent = Overriding(u.parent, w.parent, S) /\ v.above = Overriding(u.above, w.above, S)
           /\ v.title = Overriding(u.title, w.title, S) /\ v.index = Overriding(u.index, w.index, S)
           /\ v.place = Overriding(u.place, w.place, S)
           /\ v.nodes = StepPairs(u.nodes, w.nodes, S) /\ v.inputs = StepPairs(u.inputs, w.inputs, S)
           /\ v.outputs = StepPairs(u.outputs, w.outputs, S)
           /\ v.inputted = IoPairs(u.inputted, w.inputted, S)
           /\ v.loose = (u.loose \ S) \cup (w.loose \cap S)
           /\ v.initial = u.initial /\ v.text = u.text
BY ZenonT(40) DEF InsertRows, HasColumns, Columns

LEMMA OverridingType ==
    ASSUME NEW A, NEW B, NEW f \in [A -> B], NEW g \in [A -> B], NEW S
    PROVE  /\ Overriding(f, g, S) \in [A -> B]
           /\ \A x \in A : Overriding(f, g, S)[x] = IF x \in S THEN g[x] ELSE f[x]
BY DEF Overriding

LEMMA StepPairsOf ==
    ASSUME NEW P, NEW Q, NEW S, NEW s
    PROVE  Of(StepPairs(P, Q, S), s) = IF s \in S THEN Of(Q, s) ELSE Of(P, s)
BY DEF Of, StepPairs

\* Rows inserted.
Inserted(u, w, S) ==
    LET v == InsertRows(u, w, S) IN
    /\ SameBut(u, v, S)
    /\ v.objs = u.objs \cup S /\ v.text = u.text
    /\ v.outputs = StepPairs(u.outputs, w.outputs, S)
    /\ \A n \in Nodes \cap S : v.above[n] = w.above[n]

LEMMA Inserting ==
    ASSUME NEW u \in Tables, NEW w \in Tables, NEW S, S \subseteq Objects
    PROVE  Inserted(u, w, S)
<1> DEFINE v == InsertRows(u, w, S)
<1>1. /\ Overriding(u.parent, w.parent, S) \in [Nodes -> Nodes \cup {None}]
      /\ Overriding(u.above, w.above, S) \in [Nodes -> SUBSET Nodes]
      /\ Overriding(u.title, w.title, S) \in [Titled -> Titles \cup {NoTitle}]
      /\ Overriding(u.index, w.index, S) \in [Steps -> Nat]
      /\ Overriding(u.place, w.place, S) \in [Flows -> Nat]
      /\ \A n \in Nodes : Overriding(u.above, w.above, S)[n] =
             IF n \in S THEN w.above[n] ELSE u.above[n]
      /\ \A x \in Titled : Overriding(u.title, w.title, S)[x] =
             IF x \in S THEN w.title[x] ELSE u.title[x]
  <2>2. /\ u.parent \in [Nodes -> Nodes \cup {None}] /\ w.parent \in [Nodes -> Nodes \cup {None}]
        /\ u.above \in [Nodes -> SUBSET Nodes] /\ w.above \in [Nodes -> SUBSET Nodes]
        /\ u.title \in [Titled -> Titles \cup {NoTitle}] /\ w.title \in [Titled -> Titles \cup {NoTitle}]
        /\ u.index \in [Steps -> Nat] /\ w.index \in [Steps -> Nat]
        /\ u.place \in [Flows -> Nat] /\ w.place \in [Flows -> Nat]
    BY TablesAre
  <2>3. Overriding(u.parent, w.parent, S) \in [Nodes -> Nodes \cup {None}]
    BY <2>2 DEF Overriding
  <2>4. /\ Overriding(u.above, w.above, S) \in [Nodes -> SUBSET Nodes]
        /\ \A n \in Nodes : Overriding(u.above, w.above, S)[n] =
             IF n \in S THEN w.above[n] ELSE u.above[n]
    BY <2>2 DEF Overriding
  <2>5. /\ Overriding(u.title, w.title, S) \in [Titled -> Titles \cup {NoTitle}]
        /\ \A x \in Titled : Overriding(u.title, w.title, S)[x] =
             IF x \in S THEN w.title[x] ELSE u.title[x]
    BY <2>2 DEF Overriding
  <2>6. Overriding(u.index, w.index, S) \in [Steps -> Nat]
    BY <2>2 DEF Overriding
  <2>7. Overriding(u.place, w.place, S) \in [Flows -> Nat]
    BY <2>2 DEF Overriding
  <2> QED
    BY <2>3, <2>4, <2>5, <2>6, <2>7
<1>2. /\ StepPairs(u.nodes, w.nodes, S) \subseteq Steps \X Nodes
      /\ StepPairs(u.inputs, w.inputs, S) \subseteq Steps \X Ios
      /\ StepPairs(u.outputs, w.outputs, S) \subseteq Steps \X Ios
      /\ IoPairs(u.inputted, w.inputted, S) \subseteq Steps \X Ios
      /\ (u.loose \ S) \cup (w.loose \cap S) \subseteq Ios
  BY DEF Tables, StepPairs, IoPairs
<1>3. HasColumns(u)
  BY TablesAre
<1>4. /\ HasColumns(v)
      /\ v.objs = u.objs \cup S
      /\ v.parent = Overriding(u.parent, w.parent, S) /\ v.above = Overriding(u.above, w.above, S)
      /\ v.title = Overriding(u.title, w.title, S) /\ v.index = Overriding(u.index, w.index, S)
      /\ v.place = Overriding(u.place, w.place, S)
      /\ v.nodes = StepPairs(u.nodes, w.nodes, S) /\ v.inputs = StepPairs(u.inputs, w.inputs, S)
      /\ v.outputs = StepPairs(u.outputs, w.outputs, S)
      /\ v.inputted = IoPairs(u.inputted, w.inputted, S)
      /\ v.loose = (u.loose \ S) \cup (w.loose \cap S)
      /\ v.initial = u.initial /\ v.text = u.text
  BY <1>3, InsertColumns
<1> HIDE DEF v
<1>5. u.objs \cup S \subseteq Objects /\ u.initial \subseteq Ios /\ u.text \in [Objects -> SUBSET Texts]
  BY TablesAre
<1>6. v \in Tables
  BY <1>1, <1>2, <1>4, <1>5, TablesAre
<1>7. \A s \in Steps : Of(v.nodes, s) = IF s \in S THEN Of(w.nodes, s) ELSE Of(u.nodes, s)
  BY <1>4, StepPairsOf
<1>8. SameBut(u, v, S)
  BY <1>1, <1>4, <1>6, <1>7 DEF SameBut
<1> QED
  BY <1>1, <1>4, <1>8 DEF v, Inserted

\* One column is written.
LEMMA Writing ==
    ASSUME NEW u \in Tables, NEW P
    PROVE  /\ P \subseteq Objects => [u EXCEPT !.objs = P] \in Tables
           /\ P \in [Nodes -> Nodes \cup {None}] => [u EXCEPT !.parent = P] \in Tables
           /\ P \in [Nodes -> SUBSET Nodes] => [u EXCEPT !.above = P] \in Tables
           /\ P \in [Titled -> Titles \cup {NoTitle}] => [u EXCEPT !.title = P] \in Tables
           /\ P \in [Steps -> Nat] => [u EXCEPT !.index = P] \in Tables
           /\ P \in [Flows -> Nat] => [u EXCEPT !.place = P] \in Tables
           /\ P \subseteq Steps \X Nodes => [u EXCEPT !.nodes = P] \in Tables
           /\ P \subseteq Steps \X Ios =>
                /\ [u EXCEPT !.outputs = P] \in Tables
                /\ [u EXCEPT !.inputs = P] \in Tables
                /\ [u EXCEPT !.inputted = P] \in Tables
           /\ P \subseteq Ios => [u EXCEPT !.initial = P] \in Tables /\ [u EXCEPT !.loose = P] \in Tables
           /\ P \in [Objects -> SUBSET Texts] => [u EXCEPT !.text = P] \in Tables
BY ZenonT(60) DEF Tables

LEMMA EmptyTables ==
    /\ Empty \in Tables /\ Empty.outputs = {} /\ Empty.text = [x \in Objects |-> {}]
    /\ \A n \in Nodes : Empty.above[n] = {}
BY DEF Empty, Tables

\* Rows deleted.
LEMMA Deleting ==
    ASSUME NEW u \in Tables, NEW S, S \subseteq Objects
    PROVE  LET v == DeleteRows(u, S) IN
           /\ SameBut(u, v, S)
           /\ v.objs = u.objs \ S
           /\ v.outputs = StepPairs(u.outputs, {}, S)
           /\ \A n \in Nodes : v.above[n] \in {u.above[n], {}}
<1> DEFINE w == InsertRows(u, Empty, S)
           v == DeleteRows(u, S)
<1>1. /\ SameBut(u, w, S) /\ w.objs = u.objs \cup S /\ w.text = u.text
      /\ w.outputs = StepPairs(u.outputs, {}, S)
      /\ \A n \in Nodes : w.above[n] \in {u.above[n], {}}
  <2>1. Empty \in Tables /\ Empty.outputs = {} /\ \A n \in Nodes : Empty.above[n] = {}
    BY EmptyTables
  <2>2. Inserted(u, Empty, S)
    BY <2>1, Inserting
  <2>3. /\ \A n \in Nodes \cap S : w.above[n] = {}
        /\ \A n \in Nodes \ S : w.above[n] = u.above[n]
    BY <2>1, <2>2 DEF Inserted, SameBut
  <2>4. \A n \in Nodes : w.above[n] \in {u.above[n], {}}
    BY <2>3
  <2> QED
    BY <2>1, <2>2, <2>4 DEF Inserted
<1>2. v = [w EXCEPT !.objs = @ \ S, !.text = Overriding(@, Empty.text, S)]
  BY DEF DeleteRows
<1>3. w \in Tables
  BY <1>1 DEF SameBut
<1> HIDE DEF w, v
<1>4. HasColumns(w)
  BY <1>3, TablesAre
<1>5. /\ Overriding(w.text, Empty.text, S) \in [Objects -> SUBSET Texts]
      /\ \A x \in Objects \ S : Overriding(w.text, Empty.text, S)[x] = w.text[x]
  BY <1>3, EmptyTables, TablesAre DEF Overriding
<1>6. /\ HasColumns(v) /\ v.objs = w.objs \ S /\ v.text = Overriding(w.text, Empty.text, S)
      /\ v.parent = w.parent /\ v.above = w.above /\ v.title = w.title /\ v.index = w.index
      /\ v.place = w.place /\ v.nodes = w.nodes /\ v.inputs = w.inputs /\ v.outputs = w.outputs
      /\ v.inputted = w.inputted /\ v.loose = w.loose /\ v.initial = w.initial
  BY <1>2, <1>4 DEF HasColumns, Columns
<1>7. v.objs = u.objs \ S /\ v.objs \subseteq Objects
  BY <1>1, <1>6, TablesAre
<1>8. v \in Tables
  BY <1>3, <1>5, <1>6, <1>7, TablesAre
<1>9. SameBut(u, v, S)
  BY <1>1, <1>5, <1>6, <1>7, <1>8 DEF SameBut
<1> QED
  BY <1>1, <1>6, <1>7, <1>9 DEF v

\* Columns that no promise is about are written.
LEMMA WritingSame ==
    ASSUME NEW u \in Tables, NEW P
    PROVE  /\ P \in [Steps -> Nat] => SameBut(u, [u EXCEPT !.index = P], {})
           /\ P \in [Flows -> Nat] => SameBut(u, [u EXCEPT !.place = P], {})
           /\ P \subseteq Steps \X Ios =>
                /\ SameBut(u, [u EXCEPT !.outputs = P], {})
                /\ SameBut(u, [u EXCEPT !.inputs = P], {})
                /\ SameBut(u, [u EXCEPT !.inputted = P], {})
           /\ P \subseteq Ios =>
                /\ SameBut(u, [u EXCEPT !.initial = P], {})
                /\ SameBut(u, [u EXCEPT !.loose = P], {})
<1>1. HasColumns(u)
  BY TablesAre
<1>2. \A v \in Tables :
         v.objs = u.objs /\ v.text = u.text /\ v.title = u.title /\ v.nodes = u.nodes /\ v.above = u.above
             => SameBut(u, v, {})
  BY DEF SameBut
<1>3. P \in [Steps -> Nat] => SameBut(u, [u EXCEPT !.index = P], {})
  <2> DEFINE v == [u EXCEPT !.index = P]
  <2>1. v.objs = u.objs /\ v.text = u.text /\ v.title = u.title /\ v.nodes = u.nodes /\ v.above = u.above
    BY <1>1 DEF HasColumns, Columns
  <2>2. P \in [Steps -> Nat] => v \in Tables
    BY Writing
  <2> HIDE DEF v
  <2> QED
    BY <1>2, <2>1, <2>2 DEF v
<1>4. P \in [Flows -> Nat] => SameBut(u, [u EXCEPT !.place = P], {})
  <2> DEFINE v == [u EXCEPT !.place = P]
  <2>1. v.objs = u.objs /\ v.text = u.text /\ v.title = u.title /\ v.nodes = u.nodes /\ v.above = u.above
    BY <1>1 DEF HasColumns, Columns
  <2>2. P \in [Flows -> Nat] => v \in Tables
    BY Writing
  <2> HIDE DEF v
  <2> QED
    BY <1>2, <2>1, <2>2 DEF v
<1>5. P \subseteq Steps \X Ios => SameBut(u, [u EXCEPT !.outputs = P], {})
  <2> DEFINE v == [u EXCEPT !.outputs = P]
  <2>1. v.objs = u.objs /\ v.text = u.text /\ v.title = u.title /\ v.nodes = u.nodes /\ v.above = u.above
    BY <1>1 DEF HasColumns, Columns
  <2>2. P \subseteq Steps \X Ios => v \in Tables
    BY Writing
  <2> HIDE DEF v
  <2> QED
    BY <1>2, <2>1, <2>2 DEF v
<1>6. P \subseteq Steps \X Ios => SameBut(u, [u EXCEPT !.inputs = P], {})
  <2> DEFINE v == [u EXCEPT !.inputs = P]
  <2>1. v.objs = u.objs /\ v.text = u.text /\ v.title = u.title /\ v.nodes = u.nodes /\ v.above = u.above
    BY <1>1 DEF HasColumns, Columns
  <2>2. P \subseteq Steps \X Ios => v \in Tables
    BY Writing
  <2> HIDE DEF v
  <2> QED
    BY <1>2, <2>1, <2>2 DEF v
<1>7. P \subseteq Steps \X Ios => SameBut(u, [u EXCEPT !.inputted = P], {})
  <2> DEFINE v == [u EXCEPT !.inputted = P]
  <2>1. v.objs = u.objs /\ v.text = u.text /\ v.title = u.title /\ v.nodes = u.nodes /\ v.above = u.above
    BY <1>1 DEF HasColumns, Columns
  <2>2. P \subseteq Steps \X Ios => v \in Tables
    BY Writing
  <2> HIDE DEF v
  <2> QED
    BY <1>2, <2>1, <2>2 DEF v
<1>8. P \subseteq Ios => SameBut(u, [u EXCEPT !.initial = P], {})
  <2> DEFINE v == [u EXCEPT !.initial = P]
  <2>1. v.objs = u.objs /\ v.text = u.text /\ v.title = u.title /\ v.nodes = u.nodes /\ v.above = u.above
    BY <1>1 DEF HasColumns, Columns
  <2>2. P \subseteq Ios => v \in Tables
    BY Writing
  <2> HIDE DEF v
  <2> QED
    BY <1>2, <2>1, <2>2 DEF v
<1>9. P \subseteq Ios => SameBut(u, [u EXCEPT !.loose = P], {})
  <2> DEFINE v == [u EXCEPT !.loose = P]
  <2>1. v.objs = u.objs /\ v.text = u.text /\ v.title = u.title /\ v.nodes = u.nodes /\ v.above = u.above
    BY <1>1 DEF HasColumns, Columns
  <2>2. P \subseteq Ios => v \in Tables
    BY Writing
  <2> HIDE DEF v
  <2> QED
    BY <1>2, <2>1, <2>2 DEF v
<1> QED
  BY <1>3, <1>4, <1>5, <1>6, <1>7, <1>8, <1>9

\* Nodes removed with what is below and inside them.
LEMMA RemovingNodes ==
    ASSUME NEW u \in Tables, NEW S, S \subseteq Nodes
    PROVE  LET v == DeleteNodesOf(u, S)  D == Inside(u, Below(u, S)) IN
           /\ SameBut(u, v, D)
           /\ v.objs = u.objs \ D
           /\ v.outputs \subseteq u.outputs
           /\ \A n \in Nodes : v.above[n] \in {u.above[n], {}}
<1> DEFINE D == Inside(u, Below(u, S))
           w == DeleteRows(u, D)
<1>1. D \subseteq Objects
  BY TablesAre DEF Inside, Below, Objects
<1>2. /\ SameBut(u, w, D) /\ w.objs = u.objs \ D /\ w.outputs = StepPairs(u.outputs, {}, D)
      /\ \A n \in Nodes : w.above[n] \in {u.above[n], {}}
  BY <1>1, Deleting
<1>3. DeleteNodesOf(u, S) = [w EXCEPT !.initial = w.initial \ D]
  BY DEF DeleteNodesOf
<1> HIDE DEF D, w
<1>4. w \in Tables /\ w.initial \ D \subseteq Ios
  BY <1>2, TablesAre DEF SameBut
<1>5. SameBut(w, DeleteNodesOf(u, S), {})
  BY <1>3, <1>4, WritingSame
<1>6. /\ DeleteNodesOf(u, S).objs = w.objs /\ DeleteNodesOf(u, S).outputs = w.outputs
      /\ DeleteNodesOf(u, S).above = w.above
  BY <1>3, <1>4 DEF Tables
<1>7. SameBut(u, DeleteNodesOf(u, S), D \cup {})
  BY <1>2, <1>5, SameTwice
<1>8. w.outputs \subseteq u.outputs
  BY <1>2 DEF StepPairs
<1> QED
  BY <1>2, <1>6, <1>7, <1>8 DEF D

\* Steps removed with their outputs.
LEMMA RemovingSteps ==
    ASSUME NEW u \in Tables, NEW w \in Tables, NEW S, S \subseteq Steps
    PROVE  LET v == DeleteSteps(u, w, S)  D == S \cup UNION {Of(w.outputs, s) : s \in S} IN
           /\ SameBut(u, v, D)
           /\ v.objs = u.objs \ D
           /\ v.outputs \subseteq u.outputs
           /\ D \subseteq Objects
<1> DEFINE D == S \cup UNION {Of(w.outputs, s) : s \in S}
<1>1. w.outputs \subseteq Steps \X Ios
  BY TablesAre
<1>2. \A s \in S : Of(w.outputs, s) \subseteq Ios
  BY <1>1 DEF Of
<1>3. D \subseteq Objects
  BY <1>2 DEF Objects
<1>4. DeleteSteps(u, w, S) = DeleteRows(u, D)
  BY DEF DeleteSteps
<1> HIDE DEF D
<1>5. /\ SameBut(u, DeleteRows(u, D), D) /\ DeleteRows(u, D).objs = u.objs \ D
      /\ DeleteRows(u, D).outputs = StepPairs(u.outputs, {}, D)
  BY <1>3, Deleting
<1>6. StepPairs(u.outputs, {}, D) \subseteq u.outputs
  BY DEF StepPairs
<1> QED
  BY <1>3, <1>4, <1>5, <1>6 DEF D

\* Flows removed with their steps and the outputs of these.
FlowsGone(u, S) ==
    S \cup StepsIn(u, S) \cup UNION {Of(u.outputs, s) : s \in StepsIn(u, S)}

LEMMA RemovingFlows ==
    ASSUME NEW u \in Tables, NEW S, S \subseteq Flows
    PROVE  LET v == DeleteFlows(u, S) IN
           /\ SameBut(u, v, FlowsGone(u, S))
           /\ v.objs = u.objs \ FlowsGone(u, S)
           /\ v.outputs \subseteq u.outputs
<1> DEFINE T == StepsIn(u, S)
           w == DeleteSteps(u, u, T)
           D == T \cup UNION {Of(u.outputs, s) : s \in T}
<1>1. T \subseteq Steps
  BY DEF StepsIn
<1>2. SameBut(u, w, D) /\ w.objs = u.objs \ D /\ w.outputs \subseteq u.outputs
  BY <1>1, RemovingSteps
<1>3. DeleteFlows(u, S) = DeleteRows(w, S)
  BY DEF DeleteFlows
<1>4. FlowsGone(u, S) = S \cup D
  BY DEF FlowsGone
<1> HIDE DEF T, w, D
<1>5. w \in Tables /\ S \subseteq Objects
  BY <1>2 DEF SameBut, Objects
<1>6. /\ SameBut(w, DeleteRows(w, S), S) /\ DeleteRows(w, S).objs = w.objs \ S
      /\ DeleteRows(w, S).outputs = StepPairs(w.outputs, {}, S)
  BY <1>5, Deleting
<1>7. SameBut(u, DeleteRows(w, S), D \cup S)
  BY <1>2, <1>6, SameTwice
<1>8. DeleteRows(w, S).outputs \subseteq u.outputs
  BY <1>2, <1>6 DEF StepPairs
<1>9. D \cup S = S \cup D
  OBVIOUS
<1> QED
  BY <1>2, <1>3, <1>4, <1>6, <1>7, <1>8, <1>9

\* What becomes of tables when IOs, flows or nodes are written: objects of D may
\* change, those of G may come, and outputs are among what was there and P.
Fits(u, v, D, G, P) ==
    /\ SameBut(u, v, D)
    /\ v.objs \subseteq u.objs \cup G
    /\ v.outputs \subseteq u.outputs \cup P

LEMMA FitsTwice ==
    ASSUME NEW u, NEW v, NEW w, NEW D, NEW E, NEW G, NEW H, NEW P, NEW Q,
           Fits(u, v, D, G, P), Fits(v, w, E, H, Q)
    PROVE  Fits(u, w, D \cup E, G \cup H, P \cup Q)
BY SameTwice DEF Fits

LEMMA FitsMore ==
    ASSUME NEW u, NEW v, NEW D, NEW E, NEW G, NEW H, NEW P, NEW Q,
           Fits(u, v, D, G, P), D \subseteq E, G \subseteq H, P \subseteq Q
    PROVE  Fits(u, v, E, H, Q)
BY SameLess DEF Fits

LEMMA Uninputting ==
    ASSUME NEW u \in Tables, NEW w, NEW S
    PROVE  Fits(u, Uninput(u, w, S), {}, {}, {})
<1> DEFINE P == {p \in u.inputs : ~(/\ p[2] \in S /\ p \in w.inputted
                                    /\ NodeOf[p[1]] = NodeOf[p[2]])}
           v == Uninput(u, w, S)
<1>1. v = [u EXCEPT !.inputs = P]
  BY DEF Uninput
<1>2. P \subseteq Steps \X Ios /\ HasColumns(u)
  BY TablesAre
<1> HIDE DEF P, v
<1>3. SameBut(u, v, {})
  BY <1>1, <1>2, WritingSame
<1>4. v.objs = u.objs /\ v.outputs = u.outputs
  BY <1>1, <1>2 DEF HasColumns, Columns
<1> QED
  BY <1>3, <1>4 DEF v, Fits

LEMMA Inserts ==
    ASSUME NEW u \in Tables, NEW w \in Tables, NEW S, S \subseteq Objects
    PROVE  Fits(u, InsertRows(u, w, S), S, S, w.outputs)
BY Inserting DEF Inserted, Fits, StepPairs

LEMMA Deletes ==
    ASSUME NEW u \in Tables, NEW S, S \subseteq Objects
    PROVE  Fits(u, DeleteRows(u, S), S, {}, {})
BY Deleting DEF Fits, StepPairs

LEMMA Unattaching ==
    ASSUME NEW u \in Tables, NEW w \in Tables, NEW S, S \subseteq Ios
    PROVE  Fits(u, Unattach(u, w, S), S, S, w.outputs)
<1> DEFINE kept == Attached(w, S) \cap Mains
           a == DeleteRows(u, S)
           b == InsertRows(a, w, kept)
           v == Unattach(u, w, S)
<1>1. kept \subseteq S /\ kept \subseteq Ios /\ S \subseteq Objects /\ kept \subseteq Objects
  BY DEF Attached, Objects
<1>2. v = [b EXCEPT !.loose = b.loose \cup kept]
  BY DEF Unattach
<1> HIDE DEF kept, v
<1>3. Fits(u, a, S, {}, {})
  BY <1>1, Deletes
<1>4. a \in Tables
  BY <1>3 DEF Fits, SameBut
<1> HIDE DEF a
<1>5. Fits(a, b, kept, kept, w.outputs)
  BY <1>1, <1>4, Inserts
<1>6. b \in Tables
  BY <1>5 DEF Fits, SameBut
<1> HIDE DEF b
<1>7. b.loose \cup kept \subseteq Ios /\ HasColumns(b)
  BY <1>1, <1>6, TablesAre
<1>8. Fits(b, v, {}, {}, {})
  <2>1. SameBut(b, v, {})
    BY <1>2, <1>6, <1>7, WritingSame
  <2>2. v.objs = b.objs /\ v.outputs = b.outputs
    BY <1>2, <1>7 DEF HasColumns, Columns
  <2> QED
    BY <2>1, <2>2 DEF Fits
<1>9. Fits(u, v, (S \cup kept) \cup {}, ({} \cup kept) \cup {}, ({} \cup w.outputs) \cup {})
  BY <1>3, <1>5, <1>8, FitsTwice
<1> QED
  BY <1>1, <1>9, FitsMore DEF v

\* IOs inserted.
LEMMA InsertingIos ==
    ASSUME NEW u \in Tables, NEW w \in Tables, NEW S, S \subseteq Ios
    PROVE  Fits(u, InsertIos(u, w, S), S, S, w.outputs \cup (Steps \X S))
<1> DEFINE pushed == Attached(w, S) \ Stepless(u, w, S)
           P == {<<StepOf[i], i>> : i \in pushed}
           Q == {i \in S : StepOf[i] = None}
           a == InsertRows(u, w, S)
           b == [a EXCEPT !.outputs = a.outputs \cup P]
           v == InsertIos(u, w, S)
<1>1. P \subseteq Steps \X S /\ Q \subseteq Ios /\ S \subseteq Objects
  BY BranchRowAssumption DEF Attached, Objects
<1>2. v = [a EXCEPT !.outputs = a.outputs \cup P, !.initial = a.initial \cup Q]
  BY DEF InsertIos
<1>3. Fits(u, a, S, S, w.outputs)
  BY <1>1, Inserts
<1>4. a \in Tables
  BY <1>3 DEF Fits, SameBut
<1> HIDE DEF a, P, Q, v
<1>5. a.outputs \cup P \subseteq Steps \X Ios /\ HasColumns(a) /\ a.initial \cup Q \subseteq Ios
  BY <1>1, <1>4, TablesAre
<1>6. /\ SameBut(a, b, {}) /\ b \in Tables
  BY <1>4, <1>5, Writing, WritingSame
<1>7. b.objs = a.objs /\ b.outputs = a.outputs \cup P /\ b.initial = a.initial
  BY <1>5 DEF HasColumns, Columns
<1>8. v = [b EXCEPT !.initial = b.initial \cup Q]
  BY <1>2, <1>5 DEF HasColumns, Columns
<1>9. HasColumns(b)
  BY <1>6, TablesAre
<1> HIDE DEF b
<1>10. SameBut(b, v, {})
  BY <1>5, <1>6, <1>7, <1>8, WritingSame
<1>11. v.objs = b.objs /\ v.outputs = b.outputs
  BY <1>8, <1>9 DEF HasColumns, Columns
<1>12. SameBut(u, v, (S \cup {}) \cup {})
  BY <1>3, <1>6, <1>10, SameTwice DEF Fits
<1>13. SameBut(u, v, S)
  BY <1>12, SameLess
<1> QED
  BY <1>1, <1>3, <1>7, <1>11, <1>13 DEF v, Fits

\* IOs deleted, or left without a step.
LEMMA RemovingIos ==
    ASSUME NEW u \in Tables, NEW w \in Tables, NEW S, S \subseteq Ios
    PROVE  Fits(u, DeleteIos(u, w, S), S, S, w.outputs)
<1> DEFINE D == S \ Stepless(u, w, S)
           P == {p \in u.outputs : p[2] \notin Attached(w, D) \/ p[1] # StepOf[p[2]]}
           Q == u.initial \ S
           a == [u EXCEPT !.outputs = P]
           b == [u EXCEPT !.outputs = P, !.initial = Q]
           c == Uninput(b, w, D)
<1>1. DeleteIos(u, w, S) = Unattach(c, w, D)
  BY DEF DeleteIos
<1>2. D \subseteq S /\ P \subseteq u.outputs
  OBVIOUS
<1>3. HasColumns(u) /\ u.outputs \subseteq Steps \X Ios /\ Q \subseteq Ios
  BY TablesAre
<1> HIDE DEF D, P, Q
<1>4. SameBut(u, a, {}) /\ a \in Tables
  BY <1>2, <1>3, Writing, WritingSame
<1>5. a.objs = u.objs /\ a.outputs = P /\ b = [a EXCEPT !.initial = Q]
  BY <1>3 DEF HasColumns, Columns
<1>6. HasColumns(a)
  BY <1>4, TablesAre
<1> HIDE DEF a, b
<1>7. SameBut(a, b, {})
  BY <1>3, <1>4, <1>5, WritingSame
<1>8. b \in Tables /\ b.objs = a.objs /\ b.outputs = a.outputs
  BY <1>5, <1>6, <1>7 DEF SameBut, HasColumns, Columns
<1>9. SameBut(u, b, {} \cup {})
  BY <1>4, <1>7, SameTwice
<1>10. Fits(u, b, {}, {}, {})
  BY <1>2, <1>5, <1>8, <1>9 DEF Fits
<1>11. Fits(b, c, {}, {}, {})
  BY <1>8, Uninputting
<1>12. c \in Tables
  BY <1>11 DEF Fits, SameBut
<1> HIDE DEF c
<1>13. Fits(c, Unattach(c, w, D), D, D, w.outputs)
  BY <1>2, <1>12, Unattaching
<1>14. Fits(u, Unattach(c, w, D), ({} \cup {}) \cup D, ({} \cup {}) \cup D, ({} \cup {}) \cup w.outputs)
  BY <1>10, <1>11, <1>13, FitsTwice
<1> QED
  BY <1>1, <1>2, <1>14, FitsMore

\* Outputs that a step with fewer nodes loses.
GoneFrom(u, S, pairs) ==
    {p[2] : p \in {q \in u.outputs : q[1] \in S /\ <<q[1], At[q[2]]>> \notin pairs}} \cap u.objs

NodesUpdated(u, S, pairs) ==
    LET v == UpdateNodes(u, S, pairs) IN
    /\ Fits(u, v, GoneFrom(u, S, pairs) \cup S, {}, {})
    /\ \A x \in Objects \ GoneFrom(u, S, pairs) :
           (x \in v.objs <=> x \in u.objs) /\ v.text[x] = u.text[x]
    /\ \A x \in Titled \ GoneFrom(u, S, pairs) : v.title[x] = u.title[x]
    /\ \A n \in Nodes \ GoneFrom(u, S, pairs) : v.above[n] = u.above[n]
    /\ \A s \in S : Of(v.nodes, s) = Of(pairs, s)

LEMMA UpdatingNodes ==
    ASSUME NEW u \in Tables, NEW S, S \subseteq Steps, NEW pairs, pairs \subseteq Steps \X Nodes
    PROVE  NodesUpdated(u, S, pairs)
<1> DEFINE gone(p) == p[1] \in S /\ <<p[1], At[p[2]]>> \notin pairs
           I == GoneFrom(u, S, pairs)
           a == Uninput(u, u, I)
           b == Unattach(a, u, I)
           P == StepPairs(b.nodes, pairs, S)
           Q == {p \in b.outputs : ~gone(p)}
           R == {p \in StepPairs(b.inputs, u.inputs, S) : ~gone(p)}
           v == UpdateNodes(u, S, pairs)
<1>1. HasColumns(u) /\ u.outputs \subseteq Steps \X Ios /\ u.inputs \subseteq Steps \X Ios
  BY TablesAre
<1>2. I \subseteq Ios /\ I \subseteq u.objs
  BY <1>1 DEF GoneFrom
<1>3. v = [b EXCEPT !.nodes = P, !.outputs = Q, !.inputs = R]
  BY DEF UpdateNodes, GoneFrom
<1> HIDE DEF I, v
<1>4. Fits(u, a, {}, {}, {})
  BY Uninputting
<1>5. a \in Tables
  BY <1>4 DEF Fits, SameBut
<1> HIDE DEF a
<1>6. Fits(a, b, I, I, u.outputs)
  BY <1>2, <1>5, Unattaching
<1>7. Fits(u, b, {} \cup I, {} \cup I, {} \cup u.outputs)
  BY <1>4, <1>6, FitsTwice
<1>8. /\ SameBut(u, b, I) /\ b \in Tables
      /\ b.objs \subseteq u.objs /\ b.outputs \subseteq u.outputs
  BY <1>2, <1>7, SameLess DEF Fits, SameBut
<1> HIDE DEF b
<1>9. /\ HasColumns(b) /\ b.nodes \subseteq Steps \X Nodes /\ b.inputs \subseteq Steps \X Ios
      /\ b.outputs \subseteq Steps \X Ios
  BY <1>8, TablesAre
<1>10. P \subseteq Steps \X Nodes /\ R \subseteq Steps \X Ios /\ Q \subseteq Steps \X Ios
  BY <1>1, <1>9 DEF StepPairs
<1>11. \A s : Of(P, s) = IF s \in S THEN Of(pairs, s) ELSE Of(b.nodes, s)
  BY StepPairsOf
<1>12. Q \subseteq b.outputs
  OBVIOUS
<1> HIDE DEF P, Q, R
<1>13. /\ HasColumns(v) /\ v.objs = b.objs /\ v.parent = b.parent /\ v.above = b.above
       /\ v.title = b.title /\ v.index = b.index /\ v.place = b.place
       /\ v.nodes = P /\ v.inputs = R /\ v.outputs = Q
       /\ v.inputted = b.inputted /\ v.loose = b.loose /\ v.initial = b.initial /\ v.text = b.text
  BY <1>3, <1>9 DEF HasColumns, Columns
<1>14. v \in Tables
  BY <1>8, <1>10, <1>13, TablesAre
<1>15. /\ \A x \in Objects \ I : (x \in v.objs <=> x \in u.objs) /\ v.text[x] = u.text[x]
       /\ \A x \in Titled \ I : v.title[x] = u.title[x]
       /\ \A n \in Nodes \ I : v.above[n] = u.above[n]
       /\ \A s \in Steps \ (I \cup S) : Of(v.nodes, s) = Of(u.nodes, s)
  BY <1>8, <1>11, <1>13 DEF SameBut
<1>16. Fits(u, v, I \cup S, {}, {})
  BY <1>8, <1>12, <1>13, <1>14, <1>15 DEF Fits, SameBut
<1>17. \A s \in S : Of(v.nodes, s) = Of(pairs, s)
  BY <1>11, <1>13
<1> QED
  BY <1>15, <1>16, <1>17 DEF I, v, NodesUpdated

LEMMA UpdatingInputs ==
    ASSUME NEW u \in Tables, NEW S, NEW pairs, pairs \subseteq Steps \X Ios
    PROVE  Fits(u, UpdateInputs(u, S, pairs), {}, {}, {})
<1> DEFINE P == StepPairs(u.inputs, pairs, S)
           Q == {p \in u.inputted : p[1] \in S /\ p \in u.inputs => p \in pairs}
                    \cup {p \in pairs \ u.inputs : p[1] \in S /\ p[2] \in u.objs}
           a == [u EXCEPT !.inputs = P]
           v == UpdateInputs(u, S, pairs)
<1>1. v = [u EXCEPT !.inputs = P, !.inputted = Q]
  BY DEF UpdateInputs
<1>2. HasColumns(u) /\ P \subseteq Steps \X Ios /\ Q \subseteq Steps \X Ios
  BY TablesAre DEF StepPairs
<1> HIDE DEF P, Q, v
<1>3. SameBut(u, a, {}) /\ a \in Tables
  BY <1>2, Writing, WritingSame
<1>4. a.objs = u.objs /\ a.outputs = u.outputs /\ v = [a EXCEPT !.inputted = Q]
  BY <1>1, <1>2 DEF HasColumns, Columns
<1>5. HasColumns(a)
  BY <1>3, TablesAre
<1> HIDE DEF a
<1>6. SameBut(a, v, {})
  BY <1>2, <1>3, <1>4, WritingSame
<1>7. v.objs = a.objs /\ v.outputs = a.outputs
  BY <1>4, <1>5 DEF HasColumns, Columns
<1>8. SameBut(u, v, {} \cup {})
  BY <1>3, <1>6, SameTwice
<1> QED
  BY <1>4, <1>7, <1>8 DEF v, Fits

\* Flows inserted, each at a place of its own.
LEMMA InsertingFlows ==
    ASSUME NEW u \in Tables, NEW w \in Tables, NEW S, S \subseteq Flows
    PROVE  /\ Fits(u, InsertFlows(u, w, S), S, S, w.outputs)
           /\ InsertFlows(u, w, S).place \in [Flows -> Nat]
<1> DEFINE order == SetToSeq(S)
           Before(f) == {order[i] : i \in {j \in DOMAIN order :
                            \E k \in DOMAIN order : j < k /\ order[k] = f}}
           Room(f) == Cardinality(FlowsOf([u EXCEPT !.objs = @ \cup Before(f)], NodeOf[f]))
           a == InsertRows(u, w, S)
           P == [f \in Flows |-> IF f \in S THEN Room(f) ELSE a.place[f]]
           v == InsertFlows(u, w, S)
<1>1. v = [a EXCEPT !.place = P]
  BY DEF InsertFlows
<1>2. S \subseteq Objects
  BY DEF Objects
<1>3. Fits(u, a, S, S, w.outputs)
  BY <1>2, Inserts
<1>4. a \in Tables
  BY <1>3 DEF Fits, SameBut
<1> HIDE DEF a
<1>5. HasColumns(a) /\ a.place \in [Flows -> Nat]
  BY <1>4, TablesAre
<1>6. \A f : Room(f) \in Nat
  <2>1. \A t, n : FlowsOf(t, n) \subseteq Flows
    BY DEF FlowsOf
  <2>2. \A t, n : Cardinality(FlowsOf(t, n)) \in Nat
    BY <2>1, MergeAssumption, FS_Subset, FS_CardinalityType
  <2> QED
    BY <2>2
<1> HIDE DEF Room
<1>7. P \in [Flows -> Nat]
  BY <1>5, <1>6
<1> HIDE DEF P, v
<1>8. SameBut(a, v, {})
  BY <1>1, <1>4, <1>7, WritingSame
<1>9. v.objs = a.objs /\ v.outputs = a.outputs /\ v.place = P
  BY <1>1, <1>5 DEF HasColumns, Columns
<1>10. Fits(a, v, {}, {}, {})
  BY <1>8, <1>9 DEF Fits
<1>11. Fits(u, v, S \cup {}, S \cup {}, w.outputs \cup {})
  BY <1>3, <1>10, FitsTwice
<1>12. Fits(u, v, S, S, w.outputs)
  BY <1>11, FitsMore
<1> QED
  BY <1>7, <1>9, <1>12 DEF v

\* What titles, texts and moves leave alone.
Rest(u, v) ==
    /\ v \in Tables
    /\ v.objs = u.objs /\ v.nodes = u.nodes /\ v.outputs = u.outputs

LEMMA Retitling ==
    ASSUME orig \in Tables, NEW w \in Tables, NEW S
    PROVE  /\ Rest(orig, WithTitles(w, S))
           /\ WithTitles(w, S).text = orig.text /\ WithTitles(w, S).above = orig.above
           /\ \A x \in Titled :
                  WithTitles(w, S).title[x] = IF x \in S THEN w.title[x] ELSE orig.title[x]
<1> DEFINE P == Overriding(orig.title, w.title, S)
           v == [orig EXCEPT !.title = P]
<1>1. /\ HasColumns(orig)
      /\ orig.title \in [Titled -> Titles \cup {NoTitle}] /\ w.title \in [Titled -> Titles \cup {NoTitle}]
  BY TablesAre
<1>2. P \in [Titled -> Titles \cup {NoTitle}]
  BY <1>1 DEF Overriding
<1>3. \A x \in Titled : P[x] = IF x \in S THEN w.title[x] ELSE orig.title[x]
  BY <1>1 DEF Overriding
<1>4. WithTitles(w, S) = v
  BY DEF WithTitles
<1> HIDE DEF P
<1>5. v \in Tables
  BY <1>2, Writing
<1>6. /\ v.objs = orig.objs /\ v.nodes = orig.nodes /\ v.outputs = orig.outputs /\ v.text = orig.text
      /\ v.above = orig.above /\ v.title = P
  BY <1>1 DEF HasColumns, Columns
<1> HIDE DEF v
<1> QED
  BY <1>3, <1>4, <1>5, <1>6 DEF Rest

LEMMA Retexting ==
    ASSUME NEW u \in Tables, NEW P \in [Objects -> SUBSET Texts]
    PROVE  LET v == [u EXCEPT !.text = P] IN
           Rest(u, v) /\ v.title = u.title /\ v.above = u.above /\ v.text = P
<1> DEFINE v == [u EXCEPT !.text = P]
<1>1. HasColumns(u)
  BY TablesAre
<1>2. v \in Tables
  BY Writing
<1>3. /\ v.objs = u.objs /\ v.nodes = u.nodes /\ v.outputs = u.outputs /\ v.text = P
      /\ v.above = u.above /\ v.title = u.title
  BY <1>1 DEF HasColumns, Columns
<1> QED
  BY <1>2, <1>3 DEF Rest

-----------------------------------------------------------------------------
(* Moves.                                                                  *)

\* No node but those of A lies below one of A.
Clear(u, A) == \A n \in Nodes \ A : u.above[n] \cap A = {}

\* Nodes have been moved, none but those of A below one of A.
Shifted(u, v, A) ==
    /\ Rest(u, v) /\ v.title = u.title /\ v.text = u.text
    /\ Clear(u, A) => Clear(v, A)

LEMMA ShiftedTwice ==
    ASSUME NEW u, NEW v, NEW w, NEW A, Shifted(u, v, A), Shifted(v, w, A)
    PROVE  Shifted(u, w, A)
BY DEF Shifted, Rest

LEMMA Moving ==
    ASSUME NEW u \in Tables, NEW n \in Nodes, NEW p \in Nodes, NEW A, p \in A => n \in A
    PROVE  Shifted(u, Move(u, n, p), A)
<1> DEFINE lost == u.above[n]
           new == u.above[p] \cup {p}
           P == [u.parent EXCEPT ![n] = p]
           Q == [x \in Nodes |->
                    IF x = n \/ n \in u.above[x] THEN (u.above[x] \ lost) \cup new ELSE u.above[x]]
           a == [u EXCEPT !.parent = P]
           v == [u EXCEPT !.parent = P, !.above = Q]
<1>1. CASE ~({n, p} \subseteq u.objs /\ n # p /\ n \notin u.above[p])
  <2>1. Move(u, n, p) = u
    BY <1>1 DEF Move
  <2> QED
    BY <2>1 DEF Shifted, Rest
<1>2. CASE {n, p} \subseteq u.objs /\ n # p /\ n \notin u.above[p]
  <2>1. Move(u, n, p) = v
    BY <1>2 DEF Move
  <2>2. /\ HasColumns(u) /\ u.parent \in [Nodes -> Nodes \cup {None}]
        /\ u.above \in [Nodes -> SUBSET Nodes]
    BY TablesAre
  <2>3. P \in [Nodes -> Nodes \cup {None}]
    BY <2>2
  <2>4. Q \in [Nodes -> SUBSET Nodes]
    BY <2>2
  <2>5. ASSUME Clear(u, A), NEW x \in Nodes \ A
        PROVE  Q[x] \cap A = {}
    <3>1. u.above[x] \cap A = {}
      BY <2>5 DEF Clear
    <3>2. CASE x = n \/ n \in u.above[x]
      <4>1. p \notin A
        BY <2>5, <3>1, <3>2
      <4>2. u.above[p] \cap A = {}
        BY <1>2, <2>5, <4>1 DEF Clear
      <4> QED
        BY <3>1, <3>2, <4>1, <4>2
    <3> QED
      BY <3>1, <3>2
  <2> HIDE DEF P, Q
  <2>6. a \in Tables /\ v = [a EXCEPT !.above = Q]
    BY <2>2, <2>3, Writing DEF HasColumns, Columns
  <2> HIDE DEF a
  <2>7. v \in Tables
    BY <2>4, <2>6, Writing
  <2>8. /\ v.objs = u.objs /\ v.nodes = u.nodes /\ v.outputs = u.outputs /\ v.text = u.text
        /\ v.title = u.title /\ v.above = Q
    BY <2>2 DEF HasColumns, Columns
  <2> HIDE DEF v
  <2>9. Clear(u, A) => Clear(v, A)
    BY <2>5, <2>8 DEF Clear
  <2> QED
    BY <2>1, <2>7, <2>8, <2>9 DEF Shifted, Rest
<1> QED
  BY <1>1, <1>2

\* A set of numbers up to n has a least one.
LEMMA Least ==
    ASSUME NEW n \in Nat, NEW S \in SUBSET (1 .. n), S # {}
    PROVE  \E m \in S : \A k \in S : m <= k
<1> DEFINE sets == {1 .. k : k \in S}
<1>1. sets # {} /\ sets \subseteq FiniteSubsetsOf(1 .. n)
  <2>1. \A k \in S : (1 .. k) \subseteq 1 .. n /\ IsFiniteSet(1 .. k)
    BY FS_Interval
  <2> QED
    BY <2>1 DEF FiniteSubsetsOf
<1>2. PICK least \in sets : \A T \in sets : <<T, least>> \notin StrictSubsetOrdering(1 .. n)
  <2> HIDE DEF sets
  <2> QED
    BY <1>1, FS_StrictSubsetOrderingWellFounded, WFMin
<1>3. PICK m \in S : least = 1 .. m
  BY <1>2
<1>4. ASSUME NEW k \in S, k < m
      PROVE  FALSE
  <2>1. (1 .. k) \subseteq 1 .. m /\ m \in 1 .. m /\ m \notin 1 .. k
    BY <1>4
  <2>2. 1 .. k \in SUBSET (1 .. n) /\ 1 .. m \in SUBSET (1 .. n)
    OBVIOUS
  <2>3. <<1 .. k, 1 .. m>> \in StrictSubsetOrdering(1 .. n)
    BY <2>1, <2>2 DEF StrictSubsetOrdering
  <2> QED
    BY <1>2, <1>3, <2>3
<1> QED
  BY <1>4

\* One move of the list, if it is of a node of S.
MoveOf(k, t, S, back) ==
    LET entry == row.reordered[k] IN
    IF entry.id \in S THEN Move(t, entry.id, IF back THEN entry.old ELSE entry.parent) ELSE t

\* f[k] is what the first k moves make of t.
Follows(t, S, back, m, f) ==
    f = [k \in 0 .. m |-> IF k = 0 THEN t ELSE MoveOf(k, f[k - 1], S, back)]

LEMMA MovedIs ==
    ASSUME NEW t, NEW S, NEW back
    PROVE  Moved(t, S, back) =
               (CHOOSE f : Follows(t, S, back, Len(row.reordered), f))[Len(row.reordered)]
BY DEF Moved, Follows, MoveOf


LEMMA MovingThem ==
    ASSUME row \in RowSet, NEW t \in Tables, NEW S, NEW back, NEW A,
           \A k \in DOMAIN row.reordered : LET entry == row.reordered[k] IN
               entry.id \in S /\ {entry.parent, entry.old} \cap A # {} => entry.id \in A
    PROVE  Shifted(t, Moved(t, S, back), A)
<1> DEFINE last == Len(row.reordered)
           Exists(m) == \E f : Follows(t, S, back, m, f)
           bad == {m \in 1 .. last : ~Exists(m)}
<1>1. row.reordered \in Seq(Moves)
  BY DEF RowSet
<1>2. last \in Nat /\ DOMAIN row.reordered = 1 .. last
  BY <1>1
<1>3. Exists(0)
  <2> DEFINE f == [k \in 0 .. 0 |-> IF k = 0 THEN t ELSE t]
  <2>1. f = [k \in 0 .. 0 |-> IF k = 0 THEN t ELSE MoveOf(k, f[k - 1], S, back)]
    OBVIOUS
  <2> HIDE DEF f
  <2> QED
    BY <2>1 DEF Follows
<1>4. ASSUME bad # {} PROVE FALSE
  <2>1. PICK m \in bad : \A k \in bad : m <= k
    <3>1. bad \in SUBSET (1 .. last)
      OBVIOUS
    <3> HIDE DEF bad, last
    <3> QED
      BY <1>2, <1>4, <3>1, Least
  <2>2. m \in 1 .. last /\ m \in Nat /\ m - 1 \in 0 .. last /\ m - 1 < m
    BY <1>2, <2>1
  <2>3. PICK g : Follows(t, S, back, m - 1, g)
    BY <1>3, <2>1, <2>2
  <2>4. g = [k \in 0 .. (m - 1) |-> IF k = 0 THEN t ELSE MoveOf(k, g[k - 1], S, back)]
    BY <2>3 DEF Follows
  <2> DEFINE f == [k \in 0 .. m |-> IF k = m THEN MoveOf(m, g[m - 1], S, back) ELSE g[k]]
  <2>5. ASSUME NEW k \in 0 .. m
        PROVE  f[k] = IF k = 0 THEN t ELSE MoveOf(k, f[k - 1], S, back)
    <3>1. CASE k = m
      <4>1. f[m] = MoveOf(m, g[m - 1], S, back) /\ f[m - 1] = g[m - 1]
        BY <2>2
      <4> QED
        BY <2>2, <3>1, <4>1
    <3>2. CASE k # m
      <4>1. k \in 0 .. (m - 1) /\ (k # 0 => k - 1 \in 0 .. (m - 1) /\ k - 1 # m /\ k - 1 \in 0 .. m)
        BY <2>2, <3>2
      <4>2. g[k] = IF k = 0 THEN t ELSE MoveOf(k, g[k - 1], S, back)
        BY <2>4, <4>1
      <4> QED
        BY <3>2, <4>1, <4>2
    <3> QED
      BY <3>1, <3>2
  <2>6. f = [k \in 0 .. m |-> f[k]]
    OBVIOUS
  <2> HIDE DEF f
  <2>7. f = [k \in 0 .. m |-> IF k = 0 THEN t ELSE MoveOf(k, f[k - 1], S, back)]
    BY <2>5, <2>6
  <2>8. Follows(t, S, back, m, f)
    BY <2>7 DEF Follows
  <2> QED
    BY <2>1, <2>8
<1>10. PICK g : Follows(t, S, back, last, g)
  <2>1. last # 0 => last \notin bad /\ last \in 1 .. last
    <3> HIDE DEF bad, last
    <3> QED
      BY <1>2, <1>4
  <2>2. Exists(last)
    <3> HIDE DEF last, Exists
    <3> QED
      BY <1>3, <2>1
  <2> QED
    BY <2>2
<1> DEFINE f == CHOOSE h : Follows(t, S, back, last, h)
<1>5. Follows(t, S, back, last, f)
  BY <1>10
<1> HIDE DEF f
<1>6. \A k \in 0 .. last : f[k] = IF k = 0 THEN t ELSE MoveOf(k, f[k - 1], S, back)
  <2>1. f = [k \in 0 .. last |-> IF k = 0 THEN t ELSE MoveOf(k, f[k - 1], S, back)]
    BY <1>5 DEF Follows
  <2> QED
    BY <2>1
<1> DEFINE wrong == {k \in 1 .. last : ~Shifted(t, f[k], A)}
<1>7. Shifted(t, f[0], A)
  <2>1. f[0] = t
    BY <1>2, <1>6
  <2> QED
    BY <2>1 DEF Shifted, Rest
<1>8. ASSUME wrong # {} PROVE FALSE
  <2>1. PICK m \in wrong : \A k \in wrong : m <= k
    <3>1. wrong \in SUBSET (1 .. last)
      OBVIOUS
    <3> HIDE DEF wrong, last
    <3> QED
      BY <1>2, <1>8, <3>1, Least
  <2>2. m \in 1 .. last /\ m # 0 /\ m \in 0 .. last /\ m - 1 \in 0 .. last /\ m - 1 < m
    BY <1>2, <2>1
  <2>3. Shifted(t, f[m - 1], A)
    BY <1>7, <2>1, <2>2
  <2>4. f[m] = MoveOf(m, f[m - 1], S, back)
    BY <1>6, <2>2
  <2>5. f[m - 1] \in Tables
    BY <2>3 DEF Shifted, Rest
  <2> DEFINE entry == row.reordered[m]
  <2>6. entry \in Moves /\ m \in DOMAIN row.reordered
    BY <1>1, <1>2, <2>2
  <2>7. entry.id \in Nodes /\ entry.parent \in Nodes /\ entry.old \in Nodes
    BY <2>6 DEF Moves
  <2>8. CASE entry.id \notin S
    <3>1. f[m] = f[m - 1]
      BY <2>4, <2>8 DEF MoveOf
    <3> QED
      BY <2>1, <2>3, <3>1
  <2>9. CASE entry.id \in S
    <3> DEFINE p == IF back THEN entry.old ELSE entry.parent
    <3>1. f[m] = Move(f[m - 1], entry.id, p)
      BY <2>4, <2>9 DEF MoveOf
    <3>2. {entry.parent, entry.old} \cap A # {} => entry.id \in A
      BY <2>6, <2>9
    <3>3. p \in Nodes /\ (p \in A => entry.id \in A)
      BY <2>7, <3>2
    <3> HIDE DEF p, entry
    <3>4. Shifted(f[m - 1], f[m], A)
      BY <2>5, <2>7, <3>1, <3>3, Moving
    <3> QED
      BY <2>1, <2>3, <3>4, ShiftedTwice
  <2> QED
    BY <2>8, <2>9
<1>9. Shifted(t, f[last], A)
  BY <1>2, <1>7, <1>8
<1> QED
  BY <1>9, MovedIs DEF f

-----------------------------------------------------------------------------
(* The steps of a merge and their items.                                   *)

LEMMA StepNames ==
    ASSUME NEW k \in Start .. Finish
    PROVE  /\ Finish = 23
           /\ k \notin {Start, Finish} =>
                Name(k) \in NodeSteps \cup FlowSteps \cup StepSteps \cup Deltas \cup IoSteps
                                \cup DescriptionSteps
           /\ Name(1) = "RestoreNodes" /\ Name(2) = "CreateNodes" /\ Name(3) = "DeleteNodes"
           /\ k > 3 => Name(k) # "DeleteNodes"
           /\ Name(Finish) = "Finish"
<1>1. Finish = 23 /\ Start = 0
  BY DEF Finish, MergeSteps, Start
<1>2. Name(1) = "RestoreNodes" /\ Name(2) = "CreateNodes" /\ Name(3) = "DeleteNodes"
  BY DEF Name, MergeSteps
<1>3. k \in 1 .. 22 =>
         Name(k) \in NodeSteps \cup FlowSteps \cup StepSteps \cup Deltas \cup IoSteps
                         \cup DescriptionSteps
  BY DEF Name, MergeSteps, NodeSteps, FlowSteps, StepSteps, Deltas, IoSteps, DescriptionSteps
<1>4. k \in 4 .. 23 => Name(k) # "DeleteNodes"
  BY DEF Name, MergeSteps
<1>5. Name(23) = "Finish"
  BY DEF Name, MergeSteps
<1> QED
  BY <1>1, <1>2, <1>3, <1>4, <1>5

LEMMA ItemsAre ==
    /\ Items("RestoreNodes") = RestoredNodes(row, was.objs) \cap src.objs
    /\ Items("CreateNodes") = CreatedNodes(row, src.above) \cap src.objs
    /\ Items("DeleteNodes") = DeletedNodes(row, was.objs)
    /\ Items("UpdateNodesTitles") = Retitled(Nodes)
    /\ Items("ReorderNodes") = {entry.id : entry \in ReorderedNodes(row)}
    /\ Items("RestoreFlows") = RestoredFlows(row, was.objs) \cap src.objs
    /\ Items("CreateFlows") = CreatedFlows(row) \cap src.objs
    /\ Items("DeleteFlows") = DeletedFlows(row, was.objs)
    /\ Items("UpdateFlowsTitles") = {}
    /\ Items("DeleteFlowSteps") = DeletedSteps(row, was.objs)
    /\ Items("RestoreFlowSteps") = RestoredSteps(row, was.objs) \cap src.objs
    /\ Items("CreateFlowSteps") = CreatedSteps(row) \cap src.objs
    /\ Items("CreateFlowStepNodes") = GainingNodes
    /\ Items("DeleteFlowStepNodes") = LosingNodes
    /\ Items("CreateFlowStepInputs") = GainingInputs
    /\ Items("DeleteFlowStepInputs") = LosingInputs
    /\ Items("RestoreIos") = RestoredIos(row, was.objs) \cap src.objs
    /\ Items("CreateIos") = CreatedIos(row) \cap src.objs
    /\ Items("DeleteIos") = DeletedIos(row, was.objs)
    /\ Items("UpdateIoTitles") = Titling(Retitled(Ios))
    /\ Items("UpdateDescriptions") = Redescribed
    /\ Items("DeleteDescriptions") = Undescribed
BY DEF Items, NodeSteps, FlowSteps, StepSteps, Deltas, IoSteps, NodeItems, FlowItems, StepItems,
       DeltaItems, IoItems

\* Inputs of the steps S are written, with rows for those that are gone.
InputsWritten(S, pairs) ==
    [UpdateInputs(orig, S, pairs) EXCEPT
        !.objs = @ \cup S, !.index = Overriding(@, was.index, S)]

LEMMA EffectsAre ==
    ASSUME NEW S
    PROVE  /\ Effect("RestoreNodes", S) = InsertRows(orig, src, S)
           /\ Effect("CreateNodes", S) = InsertRows(orig, src, S)
           /\ Effect("DeleteNodes", S) = DeleteNodesOf(orig, S)
           /\ Effect("UpdateNodesTitles", S) = NodeTitles(S)
           /\ Effect("ReorderNodes", S) = Moved(orig, S, FALSE)
           /\ Effect("RestoreFlows", S) = InsertFlows(orig, src, S)
           /\ Effect("CreateFlows", S) = InsertFlows(orig, src, S)
           /\ Effect("DeleteFlows", S) = DeleteFlows(orig, S)
           /\ Effect("UpdateFlowsTitles", S) = WithTitles(src, S)
           /\ Effect("DeleteFlowSteps", S) = DeleteSteps(orig, was, S)
           /\ Effect("RestoreFlowSteps", S) = InsertRows(orig, src, S)
           /\ Effect("CreateFlowSteps", S) = InsertRows(orig, Numbered(S), S)
           /\ \A name \in {"CreateFlowStepNodes", "DeleteFlowStepNodes"} :
                  Effect(name, S) = UpdateNodes(orig, S, Changed(name, S))
           /\ \A name \in {"CreateFlowStepInputs", "DeleteFlowStepInputs"} :
                  Effect(name, S) = InputsWritten(S, Changed(name, S))
           /\ Effect("RestoreIos", S) = InsertIos(orig, src, S)
           /\ Effect("CreateIos", S) = InsertIos(orig, src, S)
           /\ Effect("DeleteIos", S) = DeleteIos(orig, was, S)
           /\ Effect("UpdateIoTitles", S) = IoTitles(src, Retitled(Ios), S)
           /\ \A name \in DescriptionSteps : Effect(name, S) = DescriptionEffect(name, S)
BY DEF Effect, NodeSteps, FlowSteps, StepSteps, Deltas, IoSteps, DescriptionSteps, NodeEffect,
       FlowEffect, StepEffect, DeltaEffect, NodeDeltas, InputsWritten, IoEffect

LEMMA UndoEffectsAre ==
    ASSUME NEW S
    PROVE  /\ UndoEffect("RestoreNodes", S) = DeleteNodesOf(orig, S)
           /\ UndoEffect("CreateNodes", S) = DeleteNodesOf(orig, S)
           /\ UndoEffect("DeleteNodes", S) = InsertRows(orig, was, S)
           /\ UndoEffect("UpdateNodesTitles", S) = WithTitles(was, S)
           /\ UndoEffect("ReorderNodes", S) = Moved(orig, S, TRUE)
           /\ \A name \in {"RestoreFlows", "CreateFlows"} :
                  UndoEffect(name, S) =
                      DeleteFlows(orig, {f \in S : fromLog => orig.place[f] = src.place[f]})
           /\ UndoEffect("DeleteFlows", S) = InsertFlows(orig, was, S)
           /\ UndoEffect("UpdateFlowsTitles", S) = WithTitles(was, S)
           /\ UndoEffect("DeleteFlowSteps", S) = InsertRows(orig, was, S)
           /\ UndoEffect("RestoreFlowSteps", S) = DeleteSteps(orig, src, S)
           /\ UndoEffect("CreateFlowSteps", S) =
                  DeleteSteps(orig, src, {s \in S : orig.index[s] = IndexKnown(s)})
           /\ \A name \in {"CreateFlowStepNodes", "DeleteFlowStepNodes"} :
                  UndoEffect(name, S) =
                      UpdateNodes(orig, S, {p \in deltas[name].pairs : p[1] \in S})
           /\ \A name \in {"CreateFlowStepInputs", "DeleteFlowStepInputs"} :
                  UndoEffect(name, S) =
                      InputsWritten(S, {p \in deltas[name].pairs : p[1] \in S})
           /\ UndoEffect("RestoreIos", S) = DeleteIos(orig, src, S)
           /\ UndoEffect("CreateIos", S) = DeleteIos(orig, src, S)
           /\ UndoEffect("DeleteIos", S) = InsertIos(orig, was, S)
           /\ UndoEffect("UpdateIoTitles", S) = IoTitles(was, WithTitle(Ios), S)
           /\ \A name \in DescriptionSteps :
                  UndoEffect(name, S) = [orig EXCEPT !.text = Overriding(@, was.text, S)]
BY DEF UndoEffect, NodeSteps, FlowSteps, StepSteps, Deltas, IoSteps, DescriptionSteps, UndoNodes,
       UndoFlows, UndoSteps, DeltaEffect, NodeDeltas, InputsWritten, UndoIos

NodeInsertions == {"RestoreNodes", "CreateNodes"}
FlowInsertions == {"RestoreFlows", "CreateFlows"}
StepInsertions == {"RestoreFlowSteps", "CreateFlowSteps"}
IoInsertions == {"RestoreIos", "CreateIos"}

\* What is inserted is the branch's own, what is deleted is in the original.
LEMMA ItemsIn ==
    ASSUME row \in RowSet, was \in Tables
    PROVE  /\ \A name \in NodeInsertions : Items(name) \subseteq Nodes \cap Own \cap Insertions
           /\ \A name \in FlowInsertions : Items(name) \subseteq Flows \cap Own \cap Insertions
           /\ \A name \in StepInsertions : Items(name) \subseteq Steps \cap Own \cap Insertions
           /\ \A name \in IoInsertions : Items(name) \subseteq Ios \cap Own \cap Insertions
           /\ Items("DeleteNodes") \subseteq Nodes \cap was.objs \cap Deletions
           /\ Items("DeleteFlows") \subseteq Flows \cap was.objs \cap Deletions
           /\ Items("DeleteFlowSteps") \subseteq Steps \cap was.objs \cap Deletions
           /\ Items("DeleteIos") \subseteq Ios \cap was.objs \cap Deletions
           /\ Items("UpdateNodesTitles") \subseteq Nodes \cap row.title \cap was.objs
           /\ Items("UpdateFlowsTitles") = {}
           /\ \A name \in Deltas : Items(name) \subseteq Steps \cap was.objs
           /\ Items("CreateFlowStepNodes") = GainingNodes /\ Items("DeleteFlowStepNodes") = LosingNodes
           /\ Items("UpdateDescriptions") \subseteq row.description
           /\ Insertions \subseteq Own
<1>1. /\ Items("RestoreNodes") \subseteq Nodes \cap Own
      /\ Items("CreateNodes") \subseteq Nodes \cap Own
      /\ Items("DeleteNodes") \subseteq Nodes \cap was.objs
      /\ Items("UpdateNodesTitles") \subseteq Nodes \cap row.title \cap was.objs
  BY ItemsAre DEF RestoredNodes, CreatedNodes, NodesKept, DeletedNodes, Own, Retitled, OriginalRecords
<1>2. /\ Items("RestoreFlows") \subseteq Flows \cap Own
      /\ Items("CreateFlows") \subseteq Flows \cap Own
      /\ Items("DeleteFlows") \subseteq Flows \cap was.objs
      /\ Items("UpdateFlowsTitles") = {}
  BY ItemsAre DEF RestoredFlows, CreatedFlows, FlowsKept, DeletedFlows, Own
<1>3. /\ Items("RestoreFlowSteps") \subseteq Steps \cap Own
      /\ Items("CreateFlowSteps") \subseteq Steps \cap Own
      /\ Items("DeleteFlowSteps") \subseteq Steps \cap was.objs
  BY ItemsAre DEF RestoredSteps, CreatedSteps, StepsKept, DeletedSteps, Own
<1>4. /\ Items("RestoreIos") \subseteq Ios \cap Own
      /\ Items("CreateIos") \subseteq Ios \cap Own
      /\ Items("DeleteIos") \subseteq Ios \cap was.objs
  BY ItemsAre DEF RestoredIos, CreatedIos, IosKept, DeletedIos, Own
<1>5. \A name \in Deltas : Items(name) \subseteq Steps \cap was.objs
  <2>1. row.nodes.steps \subseteq Steps /\ row.inputs.steps \subseteq Steps
    BY DEF RowSet, Pairs
  <2>2. Listing(row.nodes.deleted) \subseteq Steps /\ Listing(row.inputs.deleted) \subseteq Steps
    BY DEF RowSet, Pairs, Listing
  <2>3. \A S \in SUBSET Steps : OriginalSteps(row, S, was.objs) \subseteq Steps \cap was.objs
    BY DEF OriginalSteps, StepsKept
  <2>4. /\ GainingNodes \subseteq Steps \cap was.objs /\ LosingNodes \subseteq Steps \cap was.objs
        /\ GainingInputs \subseteq Steps \cap was.objs /\ LosingInputs \subseteq Steps \cap was.objs
    BY <2>1, <2>2, <2>3 DEF GainingNodes, LosingNodes, GainingInputs, LosingInputs
  <2> QED
    BY <2>4, ItemsAre DEF Deltas
<1>6. Items("UpdateDescriptions") \subseteq row.description
  BY ItemsAre DEF Redescribed
<1>7. /\ Items("CreateFlowStepNodes") = GainingNodes
      /\ Items("DeleteFlowStepNodes") = LosingNodes
  BY ItemsAre
<1>8. \A name \in NodeInsertions \cup FlowInsertions \cup StepInsertions \cup IoInsertions :
         Items(name) \subseteq Insertions
  BY DEF Insertions, NodeInsertions, FlowInsertions, StepInsertions, IoInsertions
<1>9. \A name \in {"DeleteNodes", "DeleteFlows", "DeleteFlowSteps", "DeleteIos"} :
         Items(name) \subseteq Deletions
  BY DEF Deletions
<1>10. Insertions \subseteq Own
  BY <1>1, <1>2, <1>3, <1>4 DEF Insertions
<1> QED
  <2>1. /\ \A name \in NodeInsertions : Items(name) \subseteq Nodes \cap Own
        /\ \A name \in FlowInsertions : Items(name) \subseteq Flows \cap Own
        /\ \A name \in StepInsertions : Items(name) \subseteq Steps \cap Own
        /\ \A name \in IoInsertions : Items(name) \subseteq Ios \cap Own
    BY <1>1, <1>2, <1>3, <1>4 DEF NodeInsertions, FlowInsertions, StepInsertions, IoInsertions
  <2> QED
    BY <1>1, <1>2, <1>3, <1>4, <1>5, <1>6, <1>7, <1>8, <1>9, <1>10, <2>1


-----------------------------------------------------------------------------
(* What is promised, of tables o and of objects L or those not with T.     *)

DoomedBy(T) == Along(T) \cup Unlisted \cup UNION {Outputs(s) : s \in Along(T) \cap Steps}

\* The title that x had, or one of an IO that it shares its title with.
Named(x, title) ==
    \/ title = was.title[x]
    \/ \E y \in row.title \cap Alike(x) : title \in {was.title[y], src.title[y]}

Promise(o, L) ==
    /\ L \subseteq o.objs
    /\ o.objs \subseteq was.objs \cup Insertions
    /\ \A x \in Titled \cap L : Named(x, o.title[x])
    /\ \A x \in L :
           /\ was.text[x] \subseteq o.text[x]
           /\ o.text[x] \subseteq was.text[x] \cup IF x \in row.description THEN src.text[x] ELSE {}
    /\ \A s \in Steps \cap L :
           /\ Of(was.nodes, s) \ Of(o.nodes, s) \subseteq Of(row.nodes.deleted, s)
           /\ Of(o.nodes, s) \ Of(was.nodes, s) \subseteq Of(src.nodes, s)

\* The outputs that o lists are known, or the branch's own or deleted.
Known(p) == p[2] \in Outputs(p[1]) \cup Own \cup Deletions
Listed(o) == \A p \in o.outputs : Known(p)

LEMMA PromiseKept ==
    ASSUME NEW L, NEW u, NEW v, NEW D, NEW G, NEW P,
           Promise(u, L), L \subseteq Objects, Fits(u, v, D, G, P), D \cap L = {},
           G \subseteq was.objs \cup Insertions
    PROVE  Promise(v, L)
<1>1. /\ L \subseteq v.objs /\ \A x \in L : v.text[x] = u.text[x]
      /\ v.objs \subseteq was.objs \cup Insertions
  BY DEF Promise, Fits, SameBut
<1>2. \A x \in Titled \cap L : v.title[x] = u.title[x]
  BY DEF Fits, SameBut
<1>3. \A s \in Steps \cap L : Of(v.nodes, s) = Of(u.nodes, s)
  BY DEF Fits, SameBut
<1> QED
  BY <1>1, <1>2, <1>3 DEF Promise

LEMMA ListedKept ==
    ASSUME NEW u, NEW v, NEW D, NEW G, NEW P,
           Listed(u), Fits(u, v, D, G, P), \A p \in P : Known(p)
    PROVE  Listed(v)
BY DEF Listed, Fits

LEMMA KnownOutputs ==
    /\ \A p \in was.outputs \cup src.outputs : Known(p)
    /\ \A S \in SUBSET (Own \cup Deletions) : \A p \in Steps \X S : Known(p)
BY DEF Known, Outputs, Of

\* The branch may have moved no node from or to those of its own and those below
\* but these themselves.
LEMMA AstrayHolds ==
    ASSUME row \in RowSet
    PROVE  Holds(Astray) /\ Astray \subseteq Nodes
<1>1. Own \cap Nodes \subseteq Astray
  BY DEF Astray, Holds
<1>2. ASSUME NEW n \in Nodes, was.above[n] \cap Astray # {}
      PROVE  n \in Astray
  <2>1. PICK m \in was.above[n] : m \in Astray
    BY <1>2
  <2>2. \A S \in SUBSET Nodes : Holds(S) => n \in S
    BY <2>1 DEF Astray, Holds
  <2> QED
    BY <2>2 DEF Astray
<1>3. ASSUME NEW entry \in ReorderedNodes(row), {entry.parent, entry.old} \cap Astray # {}
      PROVE  entry.id \in Astray
  <2>1. PICK m \in {entry.parent, entry.old} : m \in Astray
    BY <1>3
  <2>2. \A S \in SUBSET Nodes : Holds(S) => entry.id \in S
    BY <2>1 DEF Astray, Holds
  <2>3. entry \in Moves
    BY <1>3 DEF ReorderedNodes, RowSet
  <2> QED
    BY <2>2, <2>3 DEF Astray, Moves
<1>4. ASSUME NEW n \in row.title \cap Nodes, src.above[n] \cap Astray # {}
      PROVE  n \in Astray
  <2>1. PICK m \in src.above[n] : m \in Astray
    BY <1>4
  <2>2. \A S \in SUBSET Nodes : Holds(S) => n \in S
    BY <2>1 DEF Astray, Holds
  <2> QED
    BY <2>2 DEF Astray
<1>5. Astray \subseteq Nodes
  BY DEF Astray
<1> QED
  BY <1>1, <1>2, <1>3, <1>4, <1>5 DEF Holds

-----------------------------------------------------------------------------
(* What the steps and the undos remove, is doomed.                         *)

LEMMA DoomedMore ==
    ASSUME NEW T, NEW U, T \subseteq U
    PROVE  Along(T) \subseteq Along(U) /\ DoomedBy(T) \subseteq DoomedBy(U)
<1>1. Along(T) \subseteq Along(U)
  BY DEF Along, Inside, Below, StepsIn
<1>2. DoomedBy(T) \subseteq DoomedBy(U)
  BY <1>1 DEF DoomedBy
<1> QED
  BY <1>1, <1>2

LEMMA TakenDoomed ==
    ASSUME NEW T
    PROVE  T \subseteq Along(T) /\ Along(T) \subseteq DoomedBy(T)
BY DEF DoomedBy, Along, Inside

\* Objects of T, or of the original and inside nodes of T or below.
LEMMA InsideDoomed ==
    ASSUME NEW T, NEW o, Own \subseteq T, o.objs \subseteq was.objs \cup Own,
           NEW N, \A n \in N : n \in T \/ n \in Below(was, T \cap Nodes)
    PROVE  Inside(o, N) \subseteq DoomedBy(T)
<1>1. ASSUME NEW x \in Inside(o, N)
      PROVE  x \in Along(T)
  <2>1. CASE x \in N
    BY <2>1 DEF Along, Inside
  <2>2. CASE x \in o.objs \ Nodes /\ NodeOf[x] \in N
    <3>1. CASE x \in Own
      BY <3>1 DEF Along, Inside
    <3>2. CASE x \in was.objs
      BY <2>2, <3>2 DEF Along, Inside
    <3> QED
      BY <2>2, <3>1, <3>2
  <2> QED
    BY <1>1, <2>1, <2>2 DEF Inside
<1> QED
  BY <1>1 DEF DoomedBy

\* Nodes deleted before any is moved.
LEMMA DeletedNodesDoomed ==
    ASSUME NEW T, NEW o, Own \subseteq T, o.objs \subseteq was.objs \cup Own,
           NEW S, S \subseteq Nodes \cap T,
           \A n \in Nodes \ Own : o.above[n] = was.above[n]
    PROVE  Inside(o, Below(o, S)) \subseteq DoomedBy(T)
<1>1. ASSUME NEW n \in Below(o, S)
      PROVE  n \in T \/ n \in Below(was, T \cap Nodes)
  <2>1. n \in Nodes /\ n \in was.objs \cup Own /\ (n \in S \/ o.above[n] \cap S # {})
    BY <1>1 DEF Below
  <2>2. CASE n \in Own
    BY <2>2
  <2>3. CASE n \notin Own
    <3>1. n \in was.objs /\ o.above[n] = was.above[n]
      BY <2>1, <2>3
    <3>2. n \in T \cap Nodes \/ was.above[n] \cap (T \cap Nodes) # {}
      BY <2>1, <3>1
    <3> QED
      BY <2>1, <3>1, <3>2 DEF Below
  <2> QED
    BY <2>2, <2>3
<1> QED
  BY <1>1, InsideDoomed

\* Nodes removed again, when only those of A are below any of A.
LEMMA UndoneNodesDoomed ==
    ASSUME NEW T, NEW o, Own \subseteq T, o.objs \subseteq was.objs \cup Own,
           NEW A, A \subseteq T, Clear(o, A), NEW S, S \subseteq A
    PROVE  Inside(o, Below(o, S)) \subseteq DoomedBy(T)
<1>1. ASSUME NEW n \in Below(o, S)
      PROVE  n \in T
  <2>1. n \in Nodes \cap o.objs /\ (n \in S \/ o.above[n] \cap S # {})
    BY <1>1 DEF Below
  <2>2. n \in A
    BY <2>1 DEF Clear
  <2> QED
    BY <2>2
<1> QED
  BY <1>1, InsideDoomed

\* The outputs of steps that go.
LEMMA OutputsDoomed ==
    ASSUME NEW T, NEW s \in Steps, s \in Along(T)
    PROVE  Outputs(s) \subseteq DoomedBy(T)
BY DEF DoomedBy

LEMMA ListedOutputs ==
    ASSUME NEW T, NEW o, Own \cup Deletions \subseteq T, Listed(o), NEW s \in Steps, s \in Along(T)
    PROVE  Of(o.outputs, s) \subseteq DoomedBy(T)
<1>1. ASSUME NEW i \in Of(o.outputs, s)
      PROVE  i \in DoomedBy(T)
  <2>1. i \in Outputs(s) \/ i \in Own \cup Deletions
    <3>1. PICK p \in o.outputs : p[1] = s /\ p[2] = i
      BY <1>1 DEF Of
    <3> QED
      BY <3>1 DEF Listed, Known
  <2> QED
    BY <2>1, OutputsDoomed, TakenDoomed
<1> QED
  BY <1>1

LEMMA StepsDoomed ==
    ASSUME NEW T, NEW w, w \in {was, src}, NEW S, S \subseteq Steps \cap T
    PROVE  S \cup UNION {Of(w.outputs, s) : s \in S} \subseteq DoomedBy(T)
<1>1. \A s \in S : s \in Along(T)
  BY DEF Along, Inside
<1>2. \A s \in S : Of(w.outputs, s) \subseteq Outputs(s)
  BY DEF Outputs
<1>3. \A s \in S : Outputs(s) \subseteq DoomedBy(T)
  BY <1>1, OutputsDoomed
<1> QED
  BY <1>2, <1>3, TakenDoomed

LEMMA FlowsDoomed ==
    ASSUME NEW T, NEW o, Own \cup Deletions \subseteq T, o.objs \subseteq was.objs \cup Own,
           Listed(o), NEW S, S \subseteq Flows \cap T
    PROVE  FlowsGone(o, S) \subseteq DoomedBy(T)
<1>1. ASSUME NEW s \in StepsIn(o, S)
      PROVE  s \in Steps /\ s \in Along(T)
  <2>1. s \in Steps /\ s \in was.objs \cup Own /\ FlowOf[s] \in T \cap Flows
    BY <1>1 DEF StepsIn
  <2>2. CASE s \in Own
    BY <2>1, <2>2 DEF Along, Inside
  <2>3. CASE s \in was.objs
    BY <2>1, <2>3 DEF Along, StepsIn
  <2> QED
    BY <2>1, <2>2, <2>3
<1>2. \A s \in StepsIn(o, S) : s \in DoomedBy(T) /\ Of(o.outputs, s) \subseteq DoomedBy(T)
  BY <1>1, ListedOutputs DEF DoomedBy
<1> QED
  BY <1>2, TakenDoomed DEF FlowsGone

\* Of relates to pairs.
LEMMA OfPair ==
    ASSUME NEW A, NEW B, NEW P, P \subseteq A \X B, NEW s, NEW x
    PROVE  x \in Of(P, s) <=> <<s, x>> \in P
<1>1. ASSUME <<s, x>> \in P PROVE x \in Of(P, s)
  BY <1>1 DEF Of
<1>2. ASSUME x \in Of(P, s) PROVE <<s, x>> \in P
  <2>1. PICK p \in P : p[1] = s /\ p[2] = x
    BY <1>2 DEF Of
  <2>2. p = <<p[1], p[2]>>
    BY <2>1
  <2> QED
    BY <2>1, <2>2
<1> QED
  BY <1>1, <1>2

LEMMA GoneDoomed ==
    ASSUME NEW T, NEW o, Own \cup Deletions \subseteq T, Listed(o),
           row \in RowSet, was \in Tables, NEW pairs, pairs \subseteq Steps \X Nodes,
           NEW S, S \subseteq Steps \cap (GainingNodes \cup LosingNodes),
           \A s \in S \ Along(T) : Of(was.nodes, s) \ Of(pairs, s) \subseteq Of(row.nodes.deleted, s)
    PROVE  GoneFrom(o, S, pairs) \subseteq DoomedBy(T)
<1>1. ASSUME NEW p \in o.outputs, p[1] \in S, <<p[1], At[p[2]]>> \notin pairs
      PROVE  p[2] \in DoomedBy(T)
  <2>1. p[2] \in Outputs(p[1]) \/ p[2] \in Own \cup Deletions
    BY <1>1 DEF Listed, Known
  <2>2. CASE p[2] \in Own \cup Deletions
    BY <2>2, TakenDoomed
  <2>3. CASE p[2] \in Outputs(p[1]) /\ p[1] \in Along(T)
    BY <1>1, <2>3, OutputsDoomed
  <2>4. CASE p[2] \in Outputs(p[1]) /\ p[1] \notin Along(T)
    <3>1. /\ At[p[2]] \in Of(pairs, p[1]) <=> <<p[1], At[p[2]]>> \in pairs
          /\ At[p[2]] \in Of(was.nodes, p[1]) <=> <<p[1], At[p[2]]>> \in was.nodes
          /\ At[p[2]] \in Of(row.nodes.deleted, p[1]) <=> <<p[1], At[p[2]]>> \in row.nodes.deleted
      <4>1. was.nodes \subseteq Steps \X Nodes /\ row.nodes.deleted \subseteq Steps \X Nodes
        BY TablesAre DEF RowSet, Pairs
      <4> QED
        BY <4>1, OfPair
    <3>2. <<p[1], At[p[2]]>> \notin was.nodes \ row.nodes.deleted
      BY <1>1, <2>4, <3>1
    <3> DEFINE Lost(s) == {i \in Outputs(s) : <<s, At[i]>> \notin was.nodes \ row.nodes.deleted}
    <3>3. p[2] \in Lost(p[1])
      BY <2>4, <3>2
    <3>4. p[1] \in GainingNodes \cup LosingNodes
      BY <1>1
    <3>5. Unlisted = UNION {Lost(s) : s \in GainingNodes \cup LosingNodes}
      BY DEF Unlisted
    <3> HIDE DEF Lost
    <3>6. p[2] \in Unlisted
      BY <3>3, <3>4, <3>5
    <3> QED
      BY <3>6 DEF DoomedBy
  <2> QED
    BY <2>1, <2>2, <2>3, <2>4
<1> QED
  BY <1>1 DEF GoneFrom

-----------------------------------------------------------------------------
(* What holds of the original while a merge runs and is undone.            *)

Good(o, T) ==
    /\ o \in Tables
    /\ Promise(o, was.objs \ DoomedBy(T))
    /\ Listed(o)
    /\ Clear(o, Astray)

\* The titles, texts and nodes of the objects of L are the same in u and v.
SameOf(L, u, v) ==
    /\ \A x \in Titled \cap L : v.title[x] = u.title[x]
    /\ \A x \in L : v.text[x] = u.text[x]
    /\ \A s \in Steps \cap L : Of(v.nodes, s) = Of(u.nodes, s)

\* Those of what does not go with T.
Kept(u, v, T) == SameOf(was.objs \ DoomedBy(T), u, v)

\* The steps that write titles, texts and nodes of what the original has.
TitleSteps == {"UpdateNodesTitles", "UpdateIoTitles"}
DataSteps == TitleSteps \cup DescriptionSteps \cup NodeDeltas

Typed == row \in RowSet /\ was \in Tables /\ src \in Tables

LEMMA GoodMore ==
    ASSUME NEW o, NEW T, NEW U, T \subseteq U, Good(o, T)
    PROVE  Good(o, U)
BY DoomedMore DEF Good, Promise

LEMMA GoodIn ==
    ASSUME Typed, NEW o, NEW T, Good(o, T)
    PROVE  o.objs \subseteq was.objs \cup Own /\ o.objs \subseteq was.objs \cup Insertions
BY ItemsIn DEF Good, Promise, Typed

LEMMA GoodKept ==
    ASSUME Typed, NEW u, NEW v, NEW T, NEW D, NEW G, NEW P, Good(u, T), Fits(u, v, D, G, P),
           D \subseteq DoomedBy(T), G \subseteq was.objs \cup Insertions, \A p \in P : Known(p),
           Clear(v, Astray)
    PROVE  Good(v, T) /\ Kept(u, v, T)
<1> DEFINE L == was.objs \ DoomedBy(T)
<1>1. L \subseteq Objects /\ D \cap L = {}
  BY TablesAre DEF Typed
<1>2. Promise(u, L) /\ Listed(u)
  BY DEF Good
<1> HIDE DEF L
<1>3. Promise(v, L) /\ Listed(v)
  BY <1>1, <1>2, PromiseKept, ListedKept
<1>4. SameOf(L, u, v)
  BY <1>1 DEF SameOf, Fits, SameBut
<1> QED
  BY <1>3, <1>4 DEF L, Good, Kept, Fits, SameBut

LEMMA ClearKept ==
    ASSUME NEW u, NEW v, NEW D, NEW G, NEW P, NEW A, Clear(u, A), Fits(u, v, D, G, P),
           (D \cup G) \cap Nodes = {}
    PROVE  Clear(v, A)
BY DEF Clear, Fits, SameBut

\* Objects other than nodes change.
LEMMA GoodOthers ==
    ASSUME Typed, NEW u, NEW v, NEW T, NEW D, NEW G, NEW P, Good(u, T), Fits(u, v, D, G, P),
           D \subseteq DoomedBy(T), G \subseteq was.objs \cup Insertions, \A p \in P : Known(p),
           (D \cup G) \cap Nodes = {}
    PROVE  Good(v, T) /\ Kept(u, v, T)
BY ClearKept, GoodKept DEF Good

\* Titles, texts and places change, and rows come that had been there.
Grown(u, v) ==
    /\ v \in Tables
    /\ u.objs \subseteq v.objs /\ v.objs \subseteq u.objs \cup was.objs
    /\ v.nodes = u.nodes /\ v.outputs = u.outputs

LEMMA GoodGrown ==
    ASSUME Typed, NEW u, NEW v, NEW T, Good(u, T), Grown(u, v),
           \A x \in Titled : v.title[x] = u.title[x] \/ Named(x, v.title[x]),
           \A x \in Objects :
               \/ v.text[x] = u.text[x]
               \/ v.text[x] = was.text[x]
               \/ x \in row.description /\ v.text[x] = u.text[x] \cup src.text[x],
           Clear(v, Astray)
    PROVE  Good(v, T)
<1> DEFINE L == was.objs \ DoomedBy(T)
<1>1. L \subseteq Objects /\ Promise(u, L)
  BY TablesAre DEF Typed, Good
<1> HIDE DEF L
<1>2. \A x \in Titled \cap L : Named(x, v.title[x])
  BY <1>1 DEF Promise
<1>3. \A x \in L : /\ was.text[x] \subseteq v.text[x]
                   /\ v.text[x] \subseteq
                          was.text[x] \cup IF x \in row.description THEN src.text[x] ELSE {}
  BY <1>1 DEF Promise
<1>4. Promise(v, L)
  BY <1>1, <1>2, <1>3 DEF Promise, Grown
<1> QED
  BY <1>4 DEF L, Good, Grown, Listed

LEMMA GoodRest ==
    ASSUME Typed, NEW u, NEW v, NEW T, Good(u, T), Rest(u, v),
           \A x \in Titled : v.title[x] = u.title[x] \/ Named(x, v.title[x]),
           \A x \in Objects :
               \/ v.text[x] = u.text[x]
               \/ v.text[x] = was.text[x]
               \/ x \in row.description /\ v.text[x] = u.text[x] \cup src.text[x],
           Clear(v, Astray)
    PROVE  Good(v, T)
<1>1. Grown(u, v)
  BY DEF Rest, Grown
<1> QED
  BY <1>1, GoodGrown

\* A merge begins with it.
LEMMA GoodStart ==
    ASSUME Typed, NEW T
    PROVE  Good(was, T)
<1>1. Promise(was, was.objs \ DoomedBy(T))
  BY DEF Promise, Named
<1>2. Listed(was)
  BY KnownOutputs DEF Listed
<1>3. Clear(was, Astray)
  BY AstrayHolds DEF Clear, Holds, Typed
<1> QED
  BY <1>1, <1>2, <1>3 DEF Good, Typed

\* Titles of the branch, or those that were, are written.
LEMMA TitlesGood ==
    ASSUME Typed, NEW T, Good(orig, T), NEW w, NEW S, w = was \/ (w = src /\ S \subseteq row.title)
    PROVE  Good(WithTitles(w, S), T)
<1>1. orig \in Tables /\ w \in Tables /\ Clear(orig, Astray)
  BY DEF Good, Typed
<1>2. /\ Rest(orig, WithTitles(w, S)) /\ WithTitles(w, S).text = orig.text
      /\ WithTitles(w, S).above = orig.above
      /\ \A x \in Titled : WithTitles(w, S).title[x] = IF x \in S THEN w.title[x] ELSE orig.title[x]
  BY <1>1, Retitling
<1>3. Clear(WithTitles(w, S), Astray)
  BY <1>1, <1>2 DEF Clear
<1>4. \A x \in Titled : x \in Alike(x)
  BY DEF Alike
<1>5. \A x \in Titled : \/ WithTitles(w, S).title[x] = orig.title[x]
                        \/ Named(x, WithTitles(w, S).title[x])
  BY <1>2, <1>4 DEF Named
<1> QED
  BY <1>2, <1>3, <1>5, GoodRest

\* The branch's rows of nodes are written with their titles.
LEMMA NodeTitling ==
    ASSUME Typed, orig \in Tables, NEW S, S \subseteq Nodes \cap was.objs
    PROVE  LET v == NodeTitles(S) IN
           /\ Grown(orig, v) /\ v.text = orig.text
           /\ \A x \in Titled : v.title[x] = IF x \in S THEN src.title[x] ELSE orig.title[x]
           /\ \A n \in Nodes : v.above[n] = orig.above[n] \cup IF n \in S THEN src.above[n] ELSE {}
<1> DEFINE w == WithTitles(src, S)
           O == w.objs \cup S
           P == Overriding(w.parent, src.parent, S)
           A == [n \in Nodes |-> w.above[n] \cup IF n \in S THEN src.above[n] ELSE {}]
           v == NodeTitles(S)
<1>1. src \in Tables /\ was \in Tables
  BY DEF Typed
<1>2. /\ Rest(orig, w) /\ w.text = orig.text /\ w.above = orig.above
      /\ \A x \in Titled : w.title[x] = IF x \in S THEN src.title[x] ELSE orig.title[x]
  BY <1>1, Retitling
<1>3. v = [w EXCEPT !.objs = O, !.parent = P, !.above = A]
  BY DEF NodeTitles
<1> HIDE DEF w, v
<1>4. w \in Tables /\ HasColumns(w)
  BY <1>2, TablesAre DEF Rest
<1>5. /\ w.parent \in [Nodes -> Nodes \cup {None}] /\ src.parent \in [Nodes -> Nodes \cup {None}]
      /\ w.above \in [Nodes -> SUBSET Nodes] /\ src.above \in [Nodes -> SUBSET Nodes]
      /\ w.objs \subseteq Objects /\ was.objs \subseteq Objects
  BY <1>1, <1>4, TablesAre
<1>6. P \in [Nodes -> Nodes \cup {None}]
  BY <1>5 DEF Overriding
<1>7. A \in [Nodes -> SUBSET Nodes] /\ O \subseteq Objects
  BY <1>5
<1>8. \A n \in Nodes : A[n] = orig.above[n] \cup IF n \in S THEN src.above[n] ELSE {}
  BY <1>2
<1>9. O = orig.objs \cup S
  BY <1>2 DEF Rest
<1> HIDE DEF O, P, A
<1>10. /\ HasColumns(v) /\ v.objs = O /\ v.parent = P /\ v.above = A
       /\ v.title = w.title /\ v.index = w.index /\ v.place = w.place
       /\ v.nodes = w.nodes /\ v.inputs = w.inputs /\ v.outputs = w.outputs
       /\ v.inputted = w.inputted /\ v.loose = w.loose /\ v.initial = w.initial /\ v.text = w.text
  BY <1>3, <1>4 DEF HasColumns, Columns
<1>11. v \in Tables
  BY <1>4, <1>6, <1>7, <1>10, TablesAre
<1>12. Grown(orig, v)
  BY <1>2, <1>9, <1>10, <1>11 DEF Grown, Rest
<1> QED
  BY <1>2, <1>8, <1>10, <1>12 DEF v

LEMMA NodeTitlesGood ==
    ASSUME Typed, NEW T, Good(orig, T), NEW S, S \subseteq Nodes \cap row.title \cap was.objs
    PROVE  Good(NodeTitles(S), T)
<1> DEFINE v == NodeTitles(S)
<1>1. orig \in Tables /\ row \in RowSet /\ Clear(orig, Astray)
  BY DEF Good, Typed
<1>2. /\ Grown(orig, v) /\ v.text = orig.text
      /\ \A x \in Titled : v.title[x] = IF x \in S THEN src.title[x] ELSE orig.title[x]
      /\ \A n \in Nodes : v.above[n] = orig.above[n] \cup IF n \in S THEN src.above[n] ELSE {}
  BY <1>1, NodeTitling
<1> HIDE DEF v
<1>3. Clear(v, Astray)
  <2>1. \A n \in S \ Astray : src.above[n] \cap Astray = {}
    BY <1>1, AstrayHolds DEF Holds
  <2> QED
    BY <1>1, <1>2, <2>1 DEF Clear
<1>4. \A x \in Titled : x \in Alike(x)
  BY DEF Alike
<1>5. \A x \in Titled : v.title[x] = orig.title[x] \/ Named(x, v.title[x])
  BY <1>2, <1>4 DEF Named
<1>6. Good(v, T)
  BY <1>2, <1>3, <1>5, GoodGrown
<1> QED
  BY <1>6 DEF v

\* IOs are given one title with those that share their main_id.
LEMMA IoTitling ==
    ASSUME Typed, orig \in Tables, NEW t, t \in {was, src}, NEW listed, listed \subseteq Ios \cap was.objs,
           NEW S, S \subseteq Titling(listed)
    PROVE  LET v == IoTitles(t, listed, S)  rows == S \cap (orig.objs \cup listed) IN
           /\ Grown(orig, v) /\ v.text = orig.text /\ v.above = orig.above
           /\ \A x \in Titled :
                  IF x \in rows THEN \E y \in listed \cap Alike(x) : v.title[x] = t.title[y]
                  ELSE v.title[x] = orig.title[x]
<1> DEFINE rows == S \cap (orig.objs \cup listed)
           O == orig.objs \cup rows
           L == orig.loose \cup (rows \ orig.objs)
           Y(x) == CHOOSE y \in listed : y \in Alike(x)
           P == [x \in Titled |-> IF x \in rows THEN t.title[Y(x)] ELSE orig.title[x]]
           v == IoTitles(t, listed, S)
<1>1. v = [orig EXCEPT !.objs = O, !.loose = L, !.title = P]
  BY DEF IoTitles
<1>2. \A x \in rows : x \in Ios /\ \E y \in listed : y \in Alike(x)
  BY DEF Titling
<1>3. \A x \in rows : Y(x) \in listed /\ Y(x) \in Alike(x)
  BY <1>2
<1> HIDE DEF Y, v
<1>4. t \in Tables /\ was \in Tables /\ HasColumns(orig)
  BY TablesAre DEF Typed
<1>5. /\ orig.title \in [Titled -> Titles \cup {NoTitle}] /\ t.title \in [Titled -> Titles \cup {NoTitle}]
      /\ orig.objs \subseteq Objects /\ was.objs \subseteq Objects /\ orig.loose \subseteq Ios
  BY <1>4, TablesAre
<1>6. listed \subseteq Titled
  BY DEF Titled
<1>7. P \in [Titled -> Titles \cup {NoTitle}]
  <2>1. ASSUME NEW x \in Titled
        PROVE  (IF x \in rows THEN t.title[Y(x)] ELSE orig.title[x]) \in Titles \cup {NoTitle}
    <3>1. x \in rows => Y(x) \in Titled
      BY <1>3, <1>6
    <3> HIDE DEF rows
    <3> QED
      BY <1>5, <3>1
  <2> HIDE DEF rows
  <2> QED
    BY <2>1
<1>8. \A x \in Titled :
         IF x \in rows THEN \E y \in listed \cap Alike(x) : P[x] = t.title[y]
         ELSE P[x] = orig.title[x]
  <2>1. ASSUME NEW x \in Titled, x \in rows
        PROVE  \E y \in listed \cap Alike(x) : P[x] = t.title[y]
    <3>1. P[x] = t.title[Y(x)] /\ Y(x) \in listed \cap Alike(x)
      BY <1>3, <2>1
    <3> QED
      BY <3>1
  <2> QED
    BY <2>1
<1>9. rows \subseteq Ios /\ O \subseteq Objects /\ L \subseteq Ios /\ O \subseteq orig.objs \cup was.objs
  BY <1>2, <1>5
<1>10. orig.objs \subseteq O
  OBVIOUS
<1> HIDE DEF O, L, P, rows
<1>11. /\ HasColumns(v) /\ v.objs = O /\ v.parent = orig.parent /\ v.above = orig.above
       /\ v.title = P /\ v.index = orig.index /\ v.place = orig.place
       /\ v.nodes = orig.nodes /\ v.inputs = orig.inputs /\ v.outputs = orig.outputs
       /\ v.inputted = orig.inputted /\ v.loose = L /\ v.initial = orig.initial
       /\ v.text = orig.text
  BY <1>1, <1>4 DEF HasColumns, Columns
<1>12. v \in Tables
  BY <1>7, <1>9, <1>11, TablesAre
<1>13. Grown(orig, v)
  BY <1>9, <1>10, <1>11, <1>12 DEF Grown
<1> QED
  BY <1>8, <1>11, <1>13 DEF v, rows

LEMMA IoTitlesGood ==
    ASSUME Typed, NEW T, Good(orig, T), NEW t, t \in {was, src},
           NEW listed, listed \subseteq Ios \cap row.title \cap was.objs,
           NEW S, S \subseteq Titling(listed)
    PROVE  Good(IoTitles(t, listed, S), T)
<1> DEFINE v == IoTitles(t, listed, S)
<1>1. orig \in Tables /\ Clear(orig, Astray)
  BY DEF Good
<1>2. /\ Grown(orig, v) /\ v.text = orig.text /\ v.above = orig.above
      /\ \A x \in Titled : \/ v.title[x] = orig.title[x]
                           \/ \E y \in listed \cap Alike(x) : v.title[x] = t.title[y]
  BY <1>1, IoTitling
<1> HIDE DEF v
<1>3. Clear(v, Astray)
  BY <1>1, <1>2 DEF Clear
<1>4. \A x \in Titled : v.title[x] = orig.title[x] \/ Named(x, v.title[x])
  BY <1>2 DEF Named
<1>5. Good(v, T)
  BY <1>2, <1>3, <1>4, GoodGrown
<1> QED
  BY <1>5 DEF v

\* The titles listed are of IOs of the original.
LEMMA IosListed ==
    /\ Retitled(Ios) \subseteq Ios \cap row.title \cap was.objs
    /\ WithTitle(Ios) \subseteq Ios \cap row.title \cap was.objs
    /\ Items("UpdateIoTitles") = Titling(Retitled(Ios))
    /\ UndoItems("UpdateIoTitles") = Titling(WithTitle(Ios))
    /\ Titling(Retitled(Ios)) \subseteq Titling(WithTitle(Ios))
<1>1. /\ Retitled(Ios) \subseteq WithTitle(Ios)
      /\ WithTitle(Ios) \subseteq Ios \cap row.title \cap was.objs
  BY DEF Retitled, WithTitle, OriginalRecords
<1>2. Titling(Retitled(Ios)) \subseteq Titling(WithTitle(Ios))
  BY <1>1 DEF Titling
<1>3. UndoItems("UpdateIoTitles") = Titling(WithTitle(Ios))
  BY DEF UndoItems, Deltas
<1> QED
  BY <1>1, <1>2, <1>3, ItemsAre

\* Inputs are written: the rows that come are of steps that are doomed.
LEMMA InputsGood ==
    ASSUME Typed, NEW T, Good(orig, T), NEW S, S \subseteq Steps \cap was.objs,
           NEW pairs, pairs \subseteq Steps \X Ios
    PROVE  Good(InputsWritten(S, pairs), T) /\ Kept(orig, InputsWritten(S, pairs), T)
<1> DEFINE w == UpdateInputs(orig, S, pairs)
           O == w.objs \cup S
           P == Overriding(w.index, was.index, S)
           v == InputsWritten(S, pairs)
           D == S \ orig.objs
<1>1. orig \in Tables /\ was \in Tables
  BY DEF Good, Typed
<1>2. Fits(orig, w, {}, {}, {})
  BY <1>1, UpdatingInputs
<1>3. v = [w EXCEPT !.objs = O, !.index = P]
  BY DEF InputsWritten
<1> HIDE DEF w, v
<1>4. w \in Tables /\ HasColumns(w)
  BY <1>2, TablesAre DEF Fits, SameBut
<1>5. /\ w.index \in [Steps -> Nat] /\ was.index \in [Steps -> Nat]
      /\ w.objs \subseteq Objects /\ orig.objs \subseteq Objects
  BY <1>1, <1>4, TablesAre
<1>6. P \in [Steps -> Nat]
  BY <1>5 DEF Overriding
<1>7. \A x \in Objects : x \in w.objs <=> x \in orig.objs
  BY <1>2 DEF Fits, SameBut
<1>8. O = orig.objs \cup D /\ O \subseteq Objects /\ D \subseteq Steps \cap was.objs
  BY <1>5, <1>7 DEF Objects
<1>9. D \subseteq DoomedBy(T)
  BY DEF Good, Promise
<1>10. D \cap Nodes = {}
  BY MergeAssumption
<1> HIDE DEF O, P, D
<1>11. /\ HasColumns(v) /\ v.objs = O /\ v.parent = w.parent /\ v.above = w.above
       /\ v.title = w.title /\ v.index = P /\ v.place = w.place
       /\ v.nodes = w.nodes /\ v.inputs = w.inputs /\ v.outputs = w.outputs
       /\ v.inputted = w.inputted /\ v.loose = w.loose /\ v.initial = w.initial /\ v.text = w.text
  BY <1>3, <1>4 DEF HasColumns, Columns
<1>12. v \in Tables
  BY <1>4, <1>6, <1>8, <1>11, TablesAre
<1>13. SameBut(orig, v, D)
  <2>1. /\ \A x \in Objects : w.text[x] = orig.text[x]
        /\ \A x \in Titled : w.title[x] = orig.title[x]
        /\ \A s \in Steps : Of(w.nodes, s) = Of(orig.nodes, s)
        /\ \A n \in Nodes : w.above[n] = orig.above[n]
    BY <1>2 DEF Fits, SameBut
  <2> QED
    BY <1>8, <1>11, <1>12, <2>1 DEF SameBut
<1>14. Fits(orig, v, D, D, {})
  BY <1>2, <1>8, <1>11, <1>13 DEF Fits
<1>15. Good(v, T) /\ Kept(orig, v, T)
  BY <1>8, <1>9, <1>10, <1>14, GoodOthers
<1> QED
  BY <1>15 DEF v

\* Moving nodes of the list.
LEMMA MovesAstray ==
    ASSUME row \in RowSet, NEW u \in Tables, NEW S, S \subseteq Items("ReorderNodes"), NEW back
    PROVE  Shifted(u, Moved(u, S, back), Astray)
<1>1. ASSUME NEW k \in DOMAIN row.reordered, row.reordered[k].id \in S,
             {row.reordered[k].parent, row.reordered[k].old} \cap Astray # {}
      PROVE  row.reordered[k].id \in Astray
  <2>1. PICK entry \in ReorderedNodes(row) : entry.id = row.reordered[k].id
    BY <1>1, ItemsAre
  <2>2. row.reordered[k] \in ReorderedNodes(row)
    BY <2>1 DEF ReorderedNodes
  <2> QED
    BY <1>1, <2>2, AstrayHolds DEF Holds
<1> QED
  BY <1>1, MovingThem

\* The node steps.
LEMMA NodeEffectGood ==
    ASSUME Typed, NEW T, Own \cup Deletions \subseteq T, Good(orig, T),
           NEW name \in NodeSteps, NEW S, S \subseteq Items(name),
           name = "DeleteNodes" => \A n \in Nodes \ Own : orig.above[n] = was.above[n]
    PROVE  /\ Good(Effect(name, S), T)
           /\ name \notin DataSteps => Kept(orig, Effect(name, S), T)
<1>1. orig \in Tables /\ was \in Tables /\ src \in Tables /\ row \in RowSet /\ Clear(orig, Astray)
  BY DEF Good, Typed
<1>2. orig.objs \subseteq was.objs \cup Own
  BY GoodIn
<1>3. CASE name \in NodeInsertions
  <2>1. Effect(name, S) = InsertRows(orig, src, S)
    BY <1>3, EffectsAre DEF NodeInsertions
  <2>2. S \subseteq Nodes \cap Own \cap Insertions
    BY <1>1, <1>3, ItemsIn
  <2>3. S \subseteq Objects
    BY <2>2 DEF Objects
  <2>4. Fits(orig, InsertRows(orig, src, S), S, S, src.outputs)
    BY <1>1, <2>3, Inserts
  <2>5. S \subseteq Astray
    BY <1>1, <2>2, AstrayHolds DEF Holds
  <2>6. Clear(InsertRows(orig, src, S), Astray)
    BY <1>1, <2>4, <2>5 DEF Clear, Fits, SameBut
  <2>7. S \subseteq DoomedBy(T)
    BY <2>2, TakenDoomed
  <2> QED
    BY <2>1, <2>2, <2>4, <2>6, <2>7, KnownOutputs, GoodKept
<1>4. CASE name = "DeleteNodes"
  <2> DEFINE D == Inside(orig, Below(orig, S))
  <2>1. Effect(name, S) = DeleteNodesOf(orig, S)
    BY <1>4, EffectsAre
  <2>2. S \subseteq Nodes \cap Deletions
    BY <1>1, <1>4, ItemsIn
  <2>3. D \subseteq DoomedBy(T)
    BY <1>2, <1>4, <2>2, DeletedNodesDoomed
  <2>4. /\ SameBut(orig, DeleteNodesOf(orig, S), D) /\ DeleteNodesOf(orig, S).objs = orig.objs \ D
        /\ DeleteNodesOf(orig, S).outputs \subseteq orig.outputs
        /\ \A n \in Nodes : DeleteNodesOf(orig, S).above[n] \in {orig.above[n], {}}
    BY <1>1, <2>2, RemovingNodes
  <2> HIDE DEF D
  <2>5. Fits(orig, DeleteNodesOf(orig, S), D, {}, {})
    BY <2>4 DEF Fits
  <2>6. Clear(DeleteNodesOf(orig, S), Astray)
    BY <1>1, <2>4 DEF Clear
  <2> QED
    BY <2>1, <2>3, <2>5, <2>6, GoodKept
<1>5. CASE name = "UpdateNodesTitles"
  <2>1. Effect(name, S) = NodeTitles(S)
    BY <1>5, EffectsAre
  <2>2. S \subseteq Nodes \cap row.title \cap was.objs
    BY <1>1, <1>5, ItemsIn
  <2> QED
    BY <1>5, <2>1, <2>2, NodeTitlesGood DEF DataSteps, TitleSteps
<1>6. CASE name = "ReorderNodes"
  <2>1. Effect(name, S) = Moved(orig, S, FALSE)
    BY <1>6, EffectsAre
  <2>2. Shifted(orig, Moved(orig, S, FALSE), Astray)
    BY <1>1, <1>6, MovesAstray
  <2> QED
    BY <1>1, <2>1, <2>2, GoodRest DEF Shifted, Rest, Kept, SameOf
<1> QED
  BY <1>3, <1>4, <1>5, <1>6 DEF NodeSteps, NodeInsertions


\* Flows and steps that are taken, are removed.
LEMMA FlowsGoodWithout ==
    ASSUME Typed, NEW T, Own \cup Deletions \subseteq T, Good(orig, T),
           NEW S, S \subseteq Flows \cap T
    PROVE  Good(DeleteFlows(orig, S), T) /\ Kept(orig, DeleteFlows(orig, S), T)
<1>1. orig \in Tables /\ Listed(orig) /\ orig.objs \subseteq was.objs \cup Own
  BY GoodIn DEF Good
<1> DEFINE D == FlowsGone(orig, S)
           v == DeleteFlows(orig, S)
<1>2. D \subseteq DoomedBy(T)
  BY <1>1, FlowsDoomed
<1>3. SameBut(orig, v, D) /\ v.objs = orig.objs \ D /\ v.outputs \subseteq orig.outputs
  BY <1>1, RemovingFlows
<1>4. D \cap Nodes = {}
  <2>1. D \subseteq Flows \cup Steps \cup Ios
    BY <1>1, TablesAre DEF FlowsGone, StepsIn, Of
  <2> QED
    BY <2>1, MergeAssumption
<1> HIDE DEF D, v
<1>5. Fits(orig, v, D, {}, {})
  BY <1>3 DEF Fits
<1>6. Good(v, T) /\ Kept(orig, v, T)
  BY <1>2, <1>4, <1>5, GoodOthers
<1> QED
  BY <1>6 DEF v

LEMMA StepsGoodWithout ==
    ASSUME Typed, NEW T, Own \cup Deletions \subseteq T, Good(orig, T),
           NEW w, w \in {was, src}, NEW S, S \subseteq Steps \cap T
    PROVE  Good(DeleteSteps(orig, w, S), T) /\ Kept(orig, DeleteSteps(orig, w, S), T)
<1>1. orig \in Tables /\ w \in Tables
  BY DEF Good, Typed
<1> DEFINE D == S \cup UNION {Of(w.outputs, s) : s \in S}
           v == DeleteSteps(orig, w, S)
<1>2. D \subseteq DoomedBy(T)
  BY StepsDoomed
<1>3. SameBut(orig, v, D) /\ v.objs = orig.objs \ D /\ v.outputs \subseteq orig.outputs
  BY <1>1, RemovingSteps, ZenonT(60)
<1>4. D \cap Nodes = {}
  <2>1. D \subseteq Steps \cup Ios
    BY <1>1, TablesAre DEF Of
  <2> QED
    BY <2>1, MergeAssumption
<1> HIDE DEF D, v
<1>5. Fits(orig, v, D, {}, {})
  BY <1>3 DEF Fits
<1>6. Good(v, T) /\ Kept(orig, v, T)
  BY <1>2, <1>4, <1>5, GoodOthers
<1> QED
  BY <1>6 DEF v

LEMMA NumberedType ==
    ASSUME src \in Tables, NEW S
    PROVE  /\ Numbered(S) \in Tables /\ Numbered(S).outputs = src.outputs
           /\ Incremented(S) \in [Steps -> Nat]
<1>1. HasColumns(src) /\ src.index \in [Steps -> Nat]
  BY TablesAre
<1>2. Incremented(S) \in [Steps -> Nat]
  BY <1>1 DEF Incremented
<1>3. Numbered(S) \in Tables
  BY <1>2, Writing DEF Numbered
<1>4. Numbered(S).outputs = src.outputs
  BY <1>1 DEF Numbered, HasColumns, Columns
<1> QED
  BY <1>2, <1>3, <1>4

\* The flow steps.
LEMMA FlowEffectGood ==
    ASSUME Typed, NEW T, Own \cup Deletions \subseteq T, Good(orig, T),
           NEW name \in FlowSteps, NEW S, S \subseteq Items(name)
    PROVE  /\ Good(Effect(name, S), T)
           /\ name \notin DataSteps => Kept(orig, Effect(name, S), T)
<1>1. orig \in Tables /\ was \in Tables /\ src \in Tables /\ row \in RowSet /\ Clear(orig, Astray)
  BY DEF Good, Typed
<1>2. orig.objs \subseteq was.objs \cup Own
  BY GoodIn
<1>3. CASE name \in FlowInsertions
  <2>1. Effect(name, S) = InsertFlows(orig, src, S)
    BY <1>3, EffectsAre DEF FlowInsertions
  <2>2. S \subseteq Flows \cap Own \cap Insertions
    BY <1>1, <1>3, ItemsIn
  <2>3. Fits(orig, InsertFlows(orig, src, S), S, S, src.outputs)
    BY <1>1, <2>2, InsertingFlows
  <2>4. S \subseteq DoomedBy(T) /\ S \cap Nodes = {}
    BY <2>2, TakenDoomed, MergeAssumption
  <2> QED
    BY <2>1, <2>2, <2>3, <2>4, KnownOutputs, GoodOthers
<1>4. CASE name = "DeleteFlows"
  <2>1. Effect(name, S) = DeleteFlows(orig, S)
    BY <1>4, EffectsAre
  <2>2. S \subseteq Flows \cap Deletions
    BY <1>1, <1>4, ItemsIn
  <2> QED
    BY <2>1, <2>2, FlowsGoodWithout
<1>5. CASE name = "UpdateFlowsTitles"
  <2>1. Effect(name, S) = WithTitles(src, S)
    BY <1>5, EffectsAre
  <2>2. S = {}
    BY <1>1, <1>5, ItemsIn
  <2>3. /\ Rest(orig, WithTitles(src, S)) /\ WithTitles(src, S).text = orig.text
        /\ WithTitles(src, S).above = orig.above
        /\ \A x \in Titled : WithTitles(src, S).title[x] = orig.title[x]
    BY <1>1, <2>2, Retitling
  <2>4. Clear(WithTitles(src, S), Astray)
    BY <1>1, <2>3 DEF Clear, Rest
  <2>5. Kept(orig, WithTitles(src, S), T)
    BY <2>3 DEF Kept, SameOf, Rest
  <2> QED
    BY <2>1, <2>3, <2>4, <2>5, GoodRest
<1> QED
  BY <1>3, <1>4, <1>5 DEF FlowSteps, FlowInsertions

\* The steps that insert and delete flow steps.
LEMMA StepEffectGood ==
    ASSUME Typed, NEW T, Own \cup Deletions \subseteq T, Good(orig, T),
           NEW name \in StepSteps, NEW S, S \subseteq Items(name)
    PROVE  /\ Good(Effect(name, S), T)
           /\ name \notin DataSteps => Kept(orig, Effect(name, S), T)
<1>1. orig \in Tables /\ was \in Tables /\ src \in Tables /\ row \in RowSet
  BY DEF Good, Typed
<1>2. CASE name \in StepInsertions
  <2> DEFINE w == IF name = "RestoreFlowSteps" THEN src ELSE Numbered(S)
  <2>1. Effect(name, S) = InsertRows(orig, w, S)
    BY <1>2, EffectsAre DEF StepInsertions
  <2>2. S \subseteq Steps \cap Own \cap Insertions
    BY <1>1, <1>2, ItemsIn
  <2>3. S \subseteq Objects /\ S \cap Nodes = {}
    BY <2>2, MergeAssumption DEF Objects
  <2>4. w \in Tables /\ w.outputs = src.outputs
    BY <1>1, NumberedType
  <2> HIDE DEF w
  <2>5. Fits(orig, InsertRows(orig, w, S), S, S, w.outputs)
    BY <1>1, <2>3, <2>4, Inserts
  <2>6. S \subseteq DoomedBy(T)
    BY <2>2, TakenDoomed
  <2> QED
    BY <2>1, <2>2, <2>3, <2>4, <2>5, <2>6, KnownOutputs, GoodOthers
<1>3. CASE name = "DeleteFlowSteps"
  <2>1. Effect(name, S) = DeleteSteps(orig, was, S)
    BY <1>3, EffectsAre
  <2>2. S \subseteq Steps \cap Deletions
    BY <1>1, <1>3, ItemsIn
  <2> QED
    BY <2>1, <2>2, StepsGoodWithout
<1> QED
  BY <1>2, <1>3 DEF StepSteps, StepInsertions


-----------------------------------------------------------------------------
(* The steps that change the nodes and the inputs of flow steps.           *)

\* Nodes of steps S that a merge may give them.
DeltaFits(pairs, S, T) ==
    /\ pairs \subseteq Steps \X Nodes
    /\ \A s \in S \ Along(T) :
           /\ Of(was.nodes, s) \ Of(pairs, s) \subseteq Of(row.nodes.deleted, s)
           /\ Of(pairs, s) \ Of(was.nodes, s) \subseteq Of(src.nodes, s)

LEMMA OutputsIos ==
    ASSUME Typed, NEW T, NEW s \in Steps, s \in was.objs, s \notin Along(T)
    PROVE  s \in was.objs \ DoomedBy(T)
<1>1. \A r : Outputs(r) \subseteq Ios
  <2>1. was.outputs \subseteq Steps \X Ios /\ src.outputs \subseteq Steps \X Ios
    BY TablesAre DEF Typed
  <2> QED
    BY <2>1 DEF Outputs, Of
<1>2. Unlisted \subseteq Ios
  <2> DEFINE Lost(r) == {i \in Outputs(r) : <<r, At[i]>> \notin was.nodes \ row.nodes.deleted}
  <2>1. Unlisted = UNION {Lost(r) : r \in GainingNodes \cup LosingNodes}
    BY DEF Unlisted
  <2>2. \A r : Lost(r) \subseteq Ios
    BY <1>1
  <2> HIDE DEF Lost
  <2> QED
    BY <2>1, <2>2
<1>3. s \notin Ios
  BY MergeAssumption
<1> QED
  BY <1>1, <1>2, <1>3 DEF DoomedBy

LEMMA DeltaGood ==
    ASSUME Typed, NEW T, Own \cup Deletions \subseteq T, NEW u, Good(u, T),
           NEW S, S \subseteq Steps \cap (GainingNodes \cup LosingNodes),
           NEW pairs, DeltaFits(pairs, S, T)
    PROVE  Good(UpdateNodes(u, S, pairs), T)
<1> DEFINE L == was.objs \ DoomedBy(T)
           I == GoneFrom(u, S, pairs)
           v == UpdateNodes(u, S, pairs)
<1>1. /\ u \in Tables /\ was \in Tables /\ row \in RowSet /\ Listed(u) /\ Promise(u, L)
      /\ Clear(u, Astray)
  BY DEF Good, Typed
<1>2. I \subseteq DoomedBy(T)
  BY <1>1, GoneDoomed DEF DeltaFits
<1>3. /\ Fits(u, v, I \cup S, {}, {})
      /\ \A x \in Objects \ I : (x \in v.objs <=> x \in u.objs) /\ v.text[x] = u.text[x]
      /\ \A x \in Titled \ I : v.title[x] = u.title[x]
      /\ \A n \in Nodes \ I : v.above[n] = u.above[n]
      /\ \A s \in S : Of(v.nodes, s) = Of(pairs, s)
  <2>1. S \subseteq Steps /\ pairs \subseteq Steps \X Nodes
    BY DEF DeltaFits
  <2>2. NodesUpdated(u, S, pairs)
    <3> HIDE DEF L, I, v
    <3> QED
      BY <1>1, <2>1, UpdatingNodes
  <2> QED
    BY <2>2 DEF NodesUpdated
<1>4. I \cap Nodes = {}
  <2>1. u.outputs \subseteq Steps \X Ios
    BY <1>1, TablesAre
  <2>2. I \subseteq Ios
    BY <2>1 DEF GoneFrom
  <2> QED
    BY <2>2, MergeAssumption
<1>5. L \subseteq Objects /\ L \cap I = {} /\ L \cap Along(T) = {}
  BY <1>1, <1>2, TablesAre, TakenDoomed
<1> HIDE DEF L, I, v
<1>6. ASSUME NEW s \in Steps \cap L
      PROVE  /\ Of(was.nodes, s) \ Of(v.nodes, s) \subseteq Of(row.nodes.deleted, s)
             /\ Of(v.nodes, s) \ Of(was.nodes, s) \subseteq Of(src.nodes, s)
  <2>1. CASE s \in S
    BY <1>3, <1>5, <1>6, <2>1 DEF DeltaFits
  <2>2. CASE s \notin S
    <3>1. Of(v.nodes, s) = Of(u.nodes, s)
      BY <1>3, <1>5, <1>6, <2>2 DEF Fits, SameBut
    <3> QED
      BY <1>1, <1>6, <3>1 DEF Promise
  <2> QED
    BY <2>1, <2>2
<1>7. Promise(v, L)
  <2>1. /\ L \subseteq v.objs /\ v.objs \subseteq was.objs \cup Insertions
        /\ \A x \in L : v.text[x] = u.text[x]
        /\ \A x \in Titled \cap L : v.title[x] = u.title[x]
    BY <1>1, <1>3, <1>5 DEF Promise, Fits
  <2> QED
    BY <1>1, <1>6, <2>1 DEF Promise
<1>8. Listed(v)
  BY <1>1, <1>3, ListedKept
<1>9. Clear(v, Astray)
  BY <1>1, <1>3, <1>4 DEF Clear, Fits
<1>10. v \in Tables
  BY <1>3 DEF Fits, SameBut
<1> QED
  BY <1>7, <1>8, <1>9, <1>10 DEF Good, L, v

\* What is read of the nodes of steps, and what they had, fits.
LEMMA ReadFits ==
    ASSUME Typed, NEW T, Good(orig, T), NEW s \in Steps, s \in was.objs, s \notin Along(T)
    PROVE  /\ Of(was.nodes, s) \ NodesRead(s) \subseteq Of(row.nodes.deleted, s)
           /\ NodesRead(s) \ Of(was.nodes, s) \subseteq Of(src.nodes, s)
<1>1. s \in was.objs \ DoomedBy(T)
  BY OutputsIos
<1>2. /\ Of(was.nodes, s) \ Of(orig.nodes, s) \subseteq Of(row.nodes.deleted, s)
      /\ Of(orig.nodes, s) \ Of(was.nodes, s) \subseteq Of(src.nodes, s)
  BY <1>1 DEF Good, Promise
<1> QED
  BY <1>2 DEF NodesRead

LEMMA OfThem ==
    ASSUME NEW S, NEW s \in S
    PROVE  \A P : Of({p \in P : p[1] \in S}, s) = Of(P, s)
BY DEF Of

LEMMA OfRead ==
    ASSUME NEW S, NEW s \in S
    PROVE  Of(UNION {{r} \X NodesRead(r) : r \in S}, s) = NodesRead(s)
<1> DEFINE R == UNION {{r} \X NodesRead(r) : r \in S}
<1>1. ASSUME NEW n \in NodesRead(s)
      PROVE  n \in Of(R, s)
  <2>1. <<s, n>> \in {s} \X NodesRead(s)
    BY <1>1
  <2>2. <<s, n>> \in R
    BY <2>1
  <2> QED
    BY <2>2 DEF Of
<1>2. ASSUME NEW n \in Of(R, s)
      PROVE  n \in NodesRead(s)
  <2>1. PICK p \in R : p[1] = s /\ p[2] = n
    BY <1>2 DEF Of
  <2>2. PICK r \in S : p \in {r} \X NodesRead(r)
    BY <2>1
  <2> QED
    BY <2>1, <2>2
<1> QED
  BY <1>1, <1>2

\* What is written to the nodes of a step, and what of them is kept in memory.
LEMMA ChangedNodes ==
    ASSUME Typed, orig \in Tables, NEW name \in NodeDeltas, NEW S, S \subseteq Items(name)
    PROVE  /\ Changed(name, S) \subseteq Steps \X Nodes /\ BeforeChange(name, S) \subseteq Steps \X Nodes
           /\ \A s \in S :
                  /\ name = "CreateFlowStepNodes" =>
                         /\ Of(Changed(name, S), s) = Of(was.nodes, s) \cup Of(src.nodes, s)
                         /\ Of(BeforeChange(name, S), s) = Of(was.nodes, s)
                  /\ name = "DeleteFlowStepNodes" =>
                         /\ Of(Changed(name, S), s) = NodesRead(s) \ Of(row.nodes.deleted, s)
                         /\ Of(BeforeChange(name, S), s) = NodesRead(s)
<1>1. was \in Tables /\ src \in Tables /\ row \in RowSet
  BY DEF Typed
<1>2. S \subseteq Steps
  BY <1>1, ItemsIn DEF NodeDeltas, Deltas
<1>3. /\ orig.nodes \subseteq Steps \X Nodes /\ was.nodes \subseteq Steps \X Nodes
      /\ src.nodes \subseteq Steps \X Nodes /\ row.nodes.deleted \subseteq Steps \X Nodes
  BY <1>1, TablesAre DEF RowSet, Pairs
<1>4. CASE name = "CreateFlowStepNodes"
  <2>1. /\ Changed(name, S) = {p \in was.nodes \cup src.nodes : p[1] \in S}
        /\ BeforeChange(name, S) = {p \in was.nodes : p[1] \in S}
    BY <1>4 DEF Changed, BeforeChange
  <2>2. \A s \in S : /\ Of(Changed(name, S), s) = Of(was.nodes \cup src.nodes, s)
                     /\ Of(BeforeChange(name, S), s) = Of(was.nodes, s)
    BY <2>1, OfThem
  <2>3. \A s : Of(was.nodes \cup src.nodes, s) = Of(was.nodes, s) \cup Of(src.nodes, s)
    BY DEF Of
  <2> QED
    BY <1>3, <1>4, <2>1, <2>2, <2>3
<1>5. CASE name = "DeleteFlowStepNodes"
  <2> DEFINE R == UNION {{r} \X NodesRead(r) : r \in S}
  <2>1. Changed(name, S) = R \ row.nodes.deleted /\ BeforeChange(name, S) = R
    BY <1>5 DEF Changed, BeforeChange
  <2>2. \A s \in S : Of(R, s) = NodesRead(s)
    BY OfRead
  <2>3. R \subseteq Steps \X Nodes
    <3>1. \A s \in S : NodesRead(s) \subseteq Nodes
      BY <1>3 DEF NodesRead, Of
    <3> QED
      BY <1>2, <3>1
  <2> HIDE DEF R
  <2>4. \A s \in S : Of(R \ row.nodes.deleted, s) = NodesRead(s) \ Of(row.nodes.deleted, s)
    <3>1. \A s, x : /\ x \in Of(R, s) <=> <<s, x>> \in R
                    /\ x \in Of(row.nodes.deleted, s) <=> <<s, x>> \in row.nodes.deleted
                    /\ x \in Of(R \ row.nodes.deleted, s) <=> <<s, x>> \in R \ row.nodes.deleted
      BY <1>3, <2>3, OfPair
    <3> QED
      BY <2>2, <3>1
  <2> QED
    BY <1>5, <2>1, <2>2, <2>3, <2>4
<1> QED
  BY <1>4, <1>5 DEF NodeDeltas

LEMMA ChangeFits ==
    ASSUME Typed, NEW T, Good(orig, T), NEW name \in NodeDeltas,
           NEW S, S \subseteq Items(name)
    PROVE  DeltaFits(Changed(name, S), S, T) /\ DeltaFits(BeforeChange(name, S), S, T)
<1>1. orig \in Tables /\ was \in Tables /\ row \in RowSet
  BY DEF Good, Typed
<1>2. S \subseteq Steps /\ S \subseteq was.objs
  BY <1>1, ItemsIn DEF NodeDeltas, Deltas
<1>3. \A s \in S \ Along(T) :
         /\ Of(was.nodes, s) \ NodesRead(s) \subseteq Of(row.nodes.deleted, s)
         /\ NodesRead(s) \ Of(was.nodes, s) \subseteq Of(src.nodes, s)
  BY <1>2, ReadFits
<1> QED
  BY <1>1, <1>3, ChangedNodes DEF DeltaFits, NodeDeltas


InputDeltas == {"CreateFlowStepInputs", "DeleteFlowStepInputs"}

LEMMA InputChanges ==
    ASSUME Typed, orig \in Tables, NEW name \in InputDeltas, NEW S, S \subseteq Items(name)
    PROVE  Changed(name, S) \subseteq Steps \X Ios /\ BeforeChange(name, S) \subseteq Steps \X Ios
<1>1. was \in Tables /\ src \in Tables /\ row \in RowSet
  BY DEF Typed
<1>2. S \subseteq Steps
  BY <1>1, ItemsIn DEF InputDeltas, Deltas
<1>3. /\ orig.inputs \subseteq Steps \X Ios /\ was.inputs \subseteq Steps \X Ios
      /\ src.inputs \subseteq Steps \X Ios
  BY <1>1, TablesAre
<1>4. CASE name = "CreateFlowStepInputs"
  <2>1. /\ Changed(name, S) = {p \in was.inputs \cup src.inputs : p[1] \in S}
        /\ BeforeChange(name, S) = {p \in was.inputs : p[1] \in S}
    BY <1>4 DEF Changed, BeforeChange
  <2> QED
    BY <1>3, <2>1
<1>5. CASE name = "DeleteFlowStepInputs"
  <2> DEFINE R == UNION {{r} \X InputsRead(r) : r \in S}
  <2>1. /\ Changed(name, S) = R \ (row.inputs.deleted \ row.inputs.created)
        /\ BeforeChange(name, S) = R
    BY <1>5 DEF Changed, BeforeChange
  <2>2. R \subseteq Steps \X Ios
    <3>1. \A s \in S : InputsRead(s) \subseteq Ios
      BY <1>3 DEF InputsRead, Of
    <3> QED
      BY <1>2, <3>1
  <2> HIDE DEF R
  <2> QED
    BY <2>1, <2>2
<1> QED
  BY <1>4, <1>5 DEF InputDeltas

LEMMA DeltaEffectGood ==
    ASSUME Typed, NEW T, Own \cup Deletions \subseteq T, Good(orig, T),
           NEW name \in Deltas, NEW S, S \subseteq Items(name)
    PROVE  /\ Good(Effect(name, S), T)
           /\ name \notin DataSteps => Kept(orig, Effect(name, S), T)
<1>1. orig \in Tables /\ row \in RowSet /\ was \in Tables
  BY DEF Good, Typed
<1>2. CASE name \in NodeDeltas
  <2>1. Effect(name, S) = UpdateNodes(orig, S, Changed(name, S))
    BY <1>2, EffectsAre DEF NodeDeltas
  <2>2. S \subseteq Steps \cap (GainingNodes \cup LosingNodes)
    <3>1. Items(name) \subseteq GainingNodes \cup LosingNodes /\ Items(name) \subseteq Steps
      BY <1>1, <1>2, ItemsIn DEF NodeDeltas, Deltas
    <3> QED
      BY <3>1
  <2>3. DeltaFits(Changed(name, S), S, T)
    BY <1>2, ChangeFits
  <2> QED
    BY <1>2, <2>1, <2>2, <2>3, DeltaGood DEF DataSteps
<1>3. CASE name \in InputDeltas
  <2>1. Effect(name, S) = InputsWritten(S, Changed(name, S))
    BY <1>3, EffectsAre DEF InputDeltas
  <2>2. Changed(name, S) \subseteq Steps \X Ios
    BY <1>1, <1>3, InputChanges
  <2>3. S \subseteq Steps \cap was.objs
    BY <1>1, ItemsIn
  <2> QED
    BY <2>1, <2>2, <2>3, InputsGood
<1> QED
  BY <1>2, <1>3 DEF Deltas, NodeDeltas, InputDeltas

-----------------------------------------------------------------------------
(* The other steps, and all of them.                                       *)

\* IOs of the branch's own, or deleted ones, come, or go.
LEMMA IosGood ==
    ASSUME Typed, NEW T, Own \cup Deletions \subseteq T, Good(orig, T), NEW w, w \in {was, src},
           NEW S, S \subseteq Ios \cap (Own \cup Deletions), S \subseteq was.objs \cup Insertions
    PROVE  /\ Good(InsertIos(orig, w, S), T) /\ Kept(orig, InsertIos(orig, w, S), T)
           /\ Good(DeleteIos(orig, w, S), T) /\ Kept(orig, DeleteIos(orig, w, S), T)
<1>1. orig \in Tables /\ w \in Tables
  BY DEF Good, Typed
<1>2. S \subseteq DoomedBy(T) /\ S \cap Nodes = {}
  BY TakenDoomed, MergeAssumption
<1>3. \A p \in w.outputs \cup (Steps \X S) : Known(p)
  BY KnownOutputs
<1>4. Fits(orig, InsertIos(orig, w, S), S, S, w.outputs \cup (Steps \X S))
  BY <1>1, InsertingIos
<1>5. Fits(orig, DeleteIos(orig, w, S), S, S, w.outputs)
  BY <1>1, RemovingIos
<1>6. Good(InsertIos(orig, w, S), T) /\ Kept(orig, InsertIos(orig, w, S), T)
  BY <1>2, <1>3, <1>4, GoodOthers
<1>7. Good(DeleteIos(orig, w, S), T) /\ Kept(orig, DeleteIos(orig, w, S), T)
  BY <1>2, <1>3, <1>5, GoodOthers
<1> QED
  BY <1>6, <1>7

LEMMA IoEffectGood ==
    ASSUME Typed, NEW T, Own \cup Deletions \subseteq T, Good(orig, T),
           NEW name \in IoSteps, NEW S, S \subseteq Items(name)
    PROVE  /\ Good(Effect(name, S), T)
           /\ name \notin DataSteps => Kept(orig, Effect(name, S), T)
<1>1. row \in RowSet /\ was \in Tables
  BY DEF Typed
<1>2. CASE name \in IoInsertions
  <2>1. Effect(name, S) = InsertIos(orig, src, S)
    BY <1>2, EffectsAre DEF IoInsertions
  <2>2. S \subseteq Ios \cap Own \cap Insertions
    BY <1>1, <1>2, ItemsIn
  <2> QED
    BY <2>1, <2>2, IosGood
<1>3. CASE name = "DeleteIos"
  <2>1. Effect(name, S) = DeleteIos(orig, was, S)
    BY <1>3, EffectsAre
  <2>2. S \subseteq Ios \cap was.objs \cap Deletions
    BY <1>1, <1>3, ItemsIn
  <2> QED
    BY <2>1, <2>2, IosGood
<1>4. CASE name = "UpdateIoTitles"
  <2>1. Effect(name, S) = IoTitles(src, Retitled(Ios), S)
    BY <1>4, EffectsAre
  <2>2. S \subseteq Titling(Retitled(Ios)) /\ Retitled(Ios) \subseteq Ios \cap row.title \cap was.objs
    BY <1>4, IosListed
  <2> QED
    BY <1>4, <2>1, <2>2, IoTitlesGood DEF DataSteps, TitleSteps
<1> QED
  BY <1>2, <1>3, <1>4 DEF IoSteps, IoInsertions

LEMMA DescriptionEffectGood ==
    ASSUME Typed, NEW T, Good(orig, T),
           NEW name \in DescriptionSteps, NEW S, S \subseteq Items(name)
    PROVE  Good(Effect(name, S), T)
<1>1. orig \in Tables /\ row \in RowSet /\ was \in Tables /\ src \in Tables /\ Clear(orig, Astray)
  BY DEF Good, Typed
<1>2. Effect(name, S) = DescriptionEffect(name, S)
  BY EffectsAre
<1>3. CASE name = "UpdateDescriptions"
  <2> DEFINE P == [x \in Objects |-> orig.text[x] \cup IF x \in S THEN src.text[x] ELSE {}]
             v == [orig EXCEPT !.text = P]
  <2>1. Effect(name, S) = v
    BY <1>2, <1>3 DEF DescriptionEffect
  <2>2. S \subseteq row.description
    BY <1>1, <1>3, ItemsIn
  <2>3. P \in [Objects -> SUBSET Texts]
    BY <1>1, TablesAre
  <2>4. Rest(orig, v) /\ v.title = orig.title /\ v.above = orig.above /\ v.text = P
    BY <1>1, <2>3, Retexting
  <2>5. \A x \in Objects : \/ P[x] = orig.text[x]
                           \/ x \in row.description /\ P[x] = orig.text[x] \cup src.text[x]
    BY <2>2
  <2> HIDE DEF P, v
  <2>6. Clear(v, Astray)
    BY <1>1, <2>4 DEF Clear, Rest
  <2> QED
    BY <2>1, <2>4, <2>5, <2>6, GoodRest
<1>4. CASE name # "UpdateDescriptions"
  BY <1>2, <1>4 DEF DescriptionEffect
<1> QED
  BY <1>3, <1>4

LEMMA EffectGood ==
    ASSUME Typed, NEW T, Own \cup Deletions \subseteq T, Good(orig, T),
           NEW name \in NodeSteps \cup FlowSteps \cup StepSteps \cup Deltas \cup IoSteps
                            \cup DescriptionSteps,
           NEW S, S \subseteq Items(name),
           name = "DeleteNodes" => \A n \in Nodes \ Own : orig.above[n] = was.above[n]
    PROVE  /\ Good(Effect(name, S), T)
           /\ name \notin DataSteps => Kept(orig, Effect(name, S), T)
BY NodeEffectGood, FlowEffectGood, StepEffectGood, DeltaEffectGood, IoEffectGood,
   DescriptionEffectGood DEF DataSteps


-----------------------------------------------------------------------------
(* Undoing.                                                                *)

LEMMA UndoItemsIn ==
    /\ \A name \in NodeInsertions : UndoItems(name) \subseteq Items(name)
    /\ \A name \in FlowInsertions \cup StepInsertions \cup IoInsertions : UndoItems(name) = Items(name)
    /\ \A name \in {"DeleteNodes", "DeleteFlows", "DeleteFlowSteps", "DeleteIos", "ReorderNodes"} :
           UndoItems(name) = Items(name)
    /\ \A name \in Deltas : UndoItems(name) = deltas[name].steps
    /\ UndoItems("UpdateFlowsTitles") = Items("UpdateFlowsTitles")
BY DEF UndoItems, Topmost, NodeInsertions, FlowInsertions, StepInsertions, IoInsertions, Deltas

LEMMA UndoNodesGood ==
    ASSUME Typed, NEW T, Own \cup Deletions \cup Astray \subseteq T, Good(orig, T),
           NEW name \in NodeSteps, NEW S, S \subseteq UndoItems(name)
    PROVE  /\ Good(UndoEffect(name, S), T)
           /\ name \notin DataSteps => Kept(orig, UndoEffect(name, S), T)
<1>1. orig \in Tables /\ was \in Tables /\ src \in Tables /\ row \in RowSet /\ Clear(orig, Astray)
  BY DEF Good, Typed
<1>2. orig.objs \subseteq was.objs \cup Own
  BY GoodIn
<1>3. CASE name \in NodeInsertions
  <2> DEFINE D == Inside(orig, Below(orig, S))
             v == DeleteNodesOf(orig, S)
  <2>1. UndoEffect(name, S) = v
    BY <1>3, UndoEffectsAre DEF NodeInsertions
  <2>2. S \subseteq Nodes \cap Own
    BY <1>1, <1>3, UndoItemsIn, ItemsIn
  <2>3. S \subseteq Astray
    BY <1>1, <2>2, AstrayHolds DEF Holds
  <2>4. D \subseteq DoomedBy(T)
    <3>1. Astray \subseteq T /\ Own \subseteq T
      OBVIOUS
    <3> QED
      BY <1>1, <1>2, <2>3, <3>1, UndoneNodesDoomed
  <2>5. /\ SameBut(orig, v, D) /\ v.objs = orig.objs \ D /\ v.outputs \subseteq orig.outputs
        /\ \A n \in Nodes : v.above[n] \in {orig.above[n], {}}
    BY <1>1, <2>2, RemovingNodes
  <2> HIDE DEF D, v
  <2>6. Fits(orig, v, D, {}, {})
    BY <2>5 DEF Fits
  <2>7. Clear(v, Astray)
    BY <1>1, <2>5 DEF Clear
  <2> QED
    BY <2>1, <2>4, <2>6, <2>7, GoodKept
<1>4. CASE name = "DeleteNodes"
  <2> DEFINE v == InsertRows(orig, was, S)
  <2>1. UndoEffect(name, S) = v
    BY <1>4, UndoEffectsAre
  <2>2. S \subseteq Nodes \cap was.objs \cap Deletions
    BY <1>1, <1>4, UndoItemsIn, ItemsIn
  <2>3. S \subseteq Objects /\ S \subseteq DoomedBy(T)
    BY <2>2, TakenDoomed DEF Objects
  <2>4. Inserted(orig, was, S)
    BY <1>1, <2>3, Inserting
  <2>5. Fits(orig, v, S, S, was.outputs)
    BY <1>1, <2>3, Inserts
  <2>6. \A n \in Nodes : v.above[n] = IF n \in S THEN was.above[n] ELSE orig.above[n]
    BY <2>4 DEF Inserted, SameBut
  <2> HIDE DEF v
  <2>7. ASSUME NEW n \in Nodes \ Astray
        PROVE  v.above[n] \cap Astray = {}
    <3>1. CASE n \in S
      BY <1>1, <2>6, <3>1, AstrayHolds DEF Holds
    <3>2. CASE n \notin S
      BY <1>1, <2>6, <3>2 DEF Clear
    <3> QED
      BY <3>1, <3>2
  <2>8. Clear(v, Astray)
    BY <2>7 DEF Clear
  <2> QED
    BY <2>1, <2>2, <2>3, <2>5, <2>8, KnownOutputs, GoodKept
<1>5. CASE name = "UpdateNodesTitles"
  <2>1. UndoEffect(name, S) = WithTitles(was, S)
    BY <1>5, UndoEffectsAre
  <2> QED
    BY <1>5, <2>1, TitlesGood DEF DataSteps, TitleSteps
<1>6. CASE name = "ReorderNodes"
  <2>1. UndoEffect(name, S) = Moved(orig, S, TRUE)
    BY <1>6, UndoEffectsAre
  <2>2. Shifted(orig, Moved(orig, S, TRUE), Astray)
    BY <1>1, <1>6, UndoItemsIn, MovesAstray
  <2> QED
    BY <1>1, <2>1, <2>2, GoodRest DEF Shifted, Rest, Kept, SameOf
<1> QED
  BY <1>3, <1>4, <1>5, <1>6 DEF NodeSteps, NodeInsertions

LEMMA UndoFlowsGood ==
    ASSUME Typed, NEW T, Own \cup Deletions \subseteq T, Good(orig, T),
           NEW name \in FlowSteps, NEW S, S \subseteq UndoItems(name)
    PROVE  /\ Good(UndoEffect(name, S), T)
           /\ name \notin DataSteps => Kept(orig, UndoEffect(name, S), T)
<1>1. orig \in Tables /\ was \in Tables /\ row \in RowSet
  BY DEF Good, Typed
<1>2. CASE name \in FlowInsertions
  <2> DEFINE U == {f \in S : fromLog => orig.place[f] = src.place[f]}
  <2>1. UndoEffect(name, S) = DeleteFlows(orig, U)
    BY <1>2, UndoEffectsAre DEF FlowInsertions
  <2>2. S \subseteq Flows \cap Own
    BY <1>1, <1>2, UndoItemsIn, ItemsIn
  <2>3. U \subseteq Flows \cap T
    BY <2>2
  <2> HIDE DEF U
  <2> QED
    BY <2>1, <2>3, FlowsGoodWithout
<1>3. CASE name = "DeleteFlows"
  <2>1. UndoEffect(name, S) = InsertFlows(orig, was, S)
    BY <1>3, UndoEffectsAre
  <2>2. S \subseteq Flows \cap was.objs \cap Deletions
    BY <1>1, <1>3, UndoItemsIn, ItemsIn
  <2>3. Fits(orig, InsertFlows(orig, was, S), S, S, was.outputs)
    BY <1>1, <2>2, InsertingFlows
  <2>4. S \subseteq DoomedBy(T) /\ S \cap Nodes = {}
    BY <2>2, TakenDoomed, MergeAssumption
  <2> QED
    BY <2>1, <2>2, <2>3, <2>4, KnownOutputs, GoodOthers
<1>4. CASE name = "UpdateFlowsTitles"
  <2>1. UndoEffect(name, S) = WithTitles(was, S)
    BY <1>4, UndoEffectsAre
  <2>2. S = {}
    BY <1>1, <1>4, UndoItemsIn, ItemsIn
  <2>3. Kept(orig, WithTitles(was, S), T)
    BY <1>1, <2>2, Retitling DEF Kept, SameOf, Rest
  <2> QED
    BY <2>1, <2>3, TitlesGood
<1> QED
  BY <1>2, <1>3, <1>4 DEF FlowSteps, FlowInsertions

LEMMA UndoStepsGood ==
    ASSUME Typed, NEW T, Own \cup Deletions \subseteq T, Good(orig, T),
           NEW name \in StepSteps, NEW S, S \subseteq UndoItems(name)
    PROVE  /\ Good(UndoEffect(name, S), T)
           /\ name \notin DataSteps => Kept(orig, UndoEffect(name, S), T)
<1>1. orig \in Tables /\ was \in Tables /\ row \in RowSet
  BY DEF Good, Typed
<1>2. CASE name \in StepInsertions
  <2> DEFINE U == IF name = "RestoreFlowSteps" THEN S ELSE {s \in S : orig.index[s] = IndexKnown(s)}
  <2>1. UndoEffect(name, S) = DeleteSteps(orig, src, U)
    BY <1>2, UndoEffectsAre DEF StepInsertions
  <2>2. S \subseteq Steps \cap Own
    BY <1>1, <1>2, UndoItemsIn, ItemsIn
  <2>3. U \subseteq Steps \cap T
    BY <2>2
  <2> HIDE DEF U
  <2> QED
    BY <2>1, <2>3, StepsGoodWithout
<1>3. CASE name = "DeleteFlowSteps"
  <2>1. UndoEffect(name, S) = InsertRows(orig, was, S)
    BY <1>3, UndoEffectsAre
  <2>2. S \subseteq Steps \cap was.objs \cap Deletions
    BY <1>1, <1>3, UndoItemsIn, ItemsIn
  <2>3. S \subseteq Objects
    BY <2>2 DEF Objects
  <2>4. Fits(orig, InsertRows(orig, was, S), S, S, was.outputs)
    BY <1>1, <2>3, Inserts
  <2>5. S \subseteq DoomedBy(T) /\ S \cap Nodes = {}
    BY <2>2, TakenDoomed, MergeAssumption
  <2> QED
    BY <2>1, <2>2, <2>4, <2>5, KnownOutputs, GoodOthers
<1> QED
  BY <1>2, <1>3 DEF StepSteps, StepInsertions

\* What the merge remembers of steps, until it ends.
Remembered(kept, T) ==
    /\ \A name \in NodeDeltas :
           /\ kept[name].steps \subseteq Steps \cap (GainingNodes \cup LosingNodes)
           /\ DeltaFits(kept[name].pairs, kept[name].steps, T)
    /\ \A name \in InputDeltas :
           kept[name].steps \subseteq Steps \cap was.objs /\ kept[name].pairs \subseteq Steps \X Ios

LEMMA UndoDeltasGood ==
    ASSUME Typed, NEW T, Own \cup Deletions \subseteq T, Good(orig, T), Remembered(deltas, T),
           NEW name \in Deltas, NEW S, S \subseteq UndoItems(name)
    PROVE  /\ Good(UndoEffect(name, S), T)
           /\ name \notin DataSteps => Kept(orig, UndoEffect(name, S), T)
<1> DEFINE pairs == {p \in deltas[name].pairs : p[1] \in S}
<1>1. orig \in Tables
  BY DEF Good
<1>2. S \subseteq deltas[name].steps
  BY UndoItemsIn
<1>3. CASE name \in NodeDeltas
  <2>1. UndoEffect(name, S) = UpdateNodes(orig, S, pairs)
    BY <1>3, UndoEffectsAre DEF NodeDeltas
  <2>2. S \subseteq Steps \cap (GainingNodes \cup LosingNodes)
    BY <1>2, <1>3 DEF Remembered
  <2>3. DeltaFits(deltas[name].pairs, deltas[name].steps, T)
    BY <1>3 DEF Remembered
  <2>4. \A s \in S : Of(pairs, s) = Of(deltas[name].pairs, s)
    BY OfThem
  <2>5. pairs \subseteq deltas[name].pairs
    OBVIOUS
  <2> HIDE DEF pairs
  <2>6. DeltaFits(pairs, S, T)
    BY <1>2, <2>3, <2>4, <2>5 DEF DeltaFits
  <2> QED
    BY <1>3, <2>1, <2>2, <2>6, DeltaGood DEF DataSteps
<1>4. CASE name \in InputDeltas
  <2>1. UndoEffect(name, S) = InputsWritten(S, pairs)
    BY <1>4, UndoEffectsAre DEF InputDeltas
  <2>2. pairs \subseteq Steps \X Ios /\ S \subseteq Steps \cap was.objs
    BY <1>2, <1>4 DEF Remembered
  <2> HIDE DEF pairs
  <2> QED
    BY <2>1, <2>2, InputsGood
<1> QED
  BY <1>3, <1>4 DEF Deltas, NodeDeltas, InputDeltas

LEMMA UndoIosGood ==
    ASSUME Typed, NEW T, Own \cup Deletions \subseteq T, Good(orig, T),
           NEW name \in IoSteps, NEW S, S \subseteq UndoItems(name)
    PROVE  /\ Good(UndoEffect(name, S), T)
           /\ name \notin DataSteps => Kept(orig, UndoEffect(name, S), T)
<1>1. row \in RowSet /\ was \in Tables
  BY DEF Typed
<1>2. CASE name \in IoInsertions
  <2>1. UndoEffect(name, S) = DeleteIos(orig, src, S)
    BY <1>2, UndoEffectsAre DEF IoInsertions
  <2>2. S \subseteq Ios \cap Own \cap Insertions
    BY <1>1, <1>2, UndoItemsIn, ItemsIn
  <2> QED
    BY <2>1, <2>2, IosGood
<1>3. CASE name = "DeleteIos"
  <2>1. UndoEffect(name, S) = InsertIos(orig, was, S)
    BY <1>3, UndoEffectsAre
  <2>2. S \subseteq Ios \cap was.objs \cap Deletions
    BY <1>1, <1>3, UndoItemsIn, ItemsIn
  <2> QED
    BY <2>1, <2>2, IosGood
<1>4. CASE name = "UpdateIoTitles"
  <2>1. UndoEffect(name, S) = IoTitles(was, WithTitle(Ios), S)
    BY <1>4, UndoEffectsAre
  <2>2. S \subseteq Titling(WithTitle(Ios)) /\ WithTitle(Ios) \subseteq Ios \cap row.title \cap was.objs
    BY <1>4, IosListed
  <2> QED
    BY <1>4, <2>1, <2>2, IoTitlesGood DEF DataSteps, TitleSteps
<1> QED
  BY <1>2, <1>3, <1>4 DEF IoSteps, IoInsertions

LEMMA UndoDescriptionsGood ==
    ASSUME Typed, NEW T, Good(orig, T), NEW name \in DescriptionSteps, NEW S
    PROVE  Good(UndoEffect(name, S), T)
<1> DEFINE P == Overriding(orig.text, was.text, S)
           v == [orig EXCEPT !.text = P]
<1>1. orig \in Tables /\ was \in Tables /\ Clear(orig, Astray)
  BY DEF Good, Typed
<1>2. UndoEffect(name, S) = v
  BY UndoEffectsAre
<1>3. orig.text \in [Objects -> SUBSET Texts] /\ was.text \in [Objects -> SUBSET Texts]
  BY <1>1, TablesAre
<1>4. P \in [Objects -> SUBSET Texts] /\ \A x \in Objects : P[x] = orig.text[x] \/ P[x] = was.text[x]
  BY <1>3 DEF Overriding
<1> HIDE DEF P
<1>5. Rest(orig, v) /\ v.title = orig.title /\ v.above = orig.above /\ v.text = P
  BY <1>1, <1>4, Retexting
<1> HIDE DEF v
<1>6. Clear(v, Astray)
  BY <1>1, <1>5 DEF Clear, Rest
<1> QED
  BY <1>2, <1>4, <1>5, <1>6, GoodRest

LEMMA UndoEffectGood ==
    ASSUME Typed, NEW T, Own \cup Deletions \cup Astray \subseteq T, Good(orig, T), Remembered(deltas, T),
           NEW name \in NodeSteps \cup FlowSteps \cup StepSteps \cup Deltas \cup IoSteps
                            \cup DescriptionSteps,
           NEW S, S \subseteq UndoItems(name)
    PROVE  /\ Good(UndoEffect(name, S), T)
           /\ name \notin DataSteps => Kept(orig, UndoEffect(name, S), T)
<1>1. Own \cup Deletions \subseteq T
  OBVIOUS
<1> QED
  BY <1>1, UndoNodesGood, UndoFlowsGood, UndoStepsGood, UndoDeltasGood, UndoIosGood,
     UndoDescriptionsGood DEF DataSteps


-----------------------------------------------------------------------------
(* The inductive invariant.                                                *)

\* Steps that have a name are run and undone, and nodes are deleted before any
\* of the original's is moved.
Stepping ==
    /\ mode = "run" => step # Start
    /\ mode \in {"undo", "dead", "failed"} => step # Finish
    /\ mode = "run" /\ step <= 3 => \A n \in Nodes \ Own : orig.above[n] = was.above[n]

MergeIInv ==
    /\ TypeOK
    /\ mode # "open" => Good(orig, Taken) /\ Remembered(deltas, Taken) /\ Stepping

\* Terms that the steps of a merge do not change.
LEMMA SameItems ==
    ASSUME row' = row, was' = was, src' = src
    PROVE  /\ \A name : Items(name)' = Items(name)
           /\ Own' = Own /\ Insertions' = Insertions /\ Deletions' = Deletions /\ Astray' = Astray
           /\ GainingNodes' = GainingNodes /\ LosingNodes' = LosingNodes
<1>1. /\ GainingNodes' = GainingNodes /\ LosingNodes' = LosingNodes
      /\ GainingInputs' = GainingInputs /\ LosingInputs' = LosingInputs
  BY DEF GainingNodes, LosingNodes, GainingInputs, LosingInputs
<1>2. /\ \A S : Retitled(S)' = Retitled(S)
      /\ Titling(Retitled(Ios))' = Titling(Retitled(Ios))
  BY DEF Retitled, Titling
<1>3. Redescribed' = Redescribed /\ Undescribed' = Undescribed
  BY DEF Redescribed, Undescribed
<1>4. \A name : /\ NodeItems(name)' = NodeItems(name) /\ FlowItems(name)' = FlowItems(name)
                /\ StepItems(name)' = StepItems(name) /\ DeltaItems(name)' = DeltaItems(name)
                /\ IoItems(name)' = IoItems(name)
  BY <1>1, <1>2 DEF NodeItems, FlowItems, StepItems, DeltaItems, IoItems
<1>5. \A name : Items(name)' = Items(name)
  BY <1>3, <1>4 DEF Items
<1>6. Insertions' = Insertions /\ Deletions' = Deletions
  BY <1>5 DEF Insertions, Deletions
<1>7. Own' = Own
  BY DEF Own
<1>8. \A S : Holds(S)' <=> Holds(S)
  BY <1>7 DEF Holds
<1>9. Astray' = Astray
  BY <1>8 DEF Astray
<1> QED
  BY <1>1, <1>5, <1>6, <1>7, <1>9

LEMMA SameGood ==
    ASSUME row' = row, was' = was, src' = src
    PROVE  /\ \A o, T : Good(o, T)' <=> Good(o, T)
           /\ \A d, T : Remembered(d, T)' <=> Remembered(d, T)
           /\ \A T : DoomedBy(T)' = DoomedBy(T)
<1>1. /\ Own' = Own /\ Insertions' = Insertions /\ Deletions' = Deletions /\ Astray' = Astray
      /\ GainingNodes' = GainingNodes /\ LosingNodes' = LosingNodes
  BY SameItems
<1>2. \A s : Outputs(s)' = Outputs(s)
  BY DEF Outputs
<1>3. Unlisted' = Unlisted
  <2> DEFINE Lost(s) == {i \in Outputs(s) : <<s, At[i]>> \notin was.nodes \ row.nodes.deleted}
  <2>1. \A s : Lost(s)' = Lost(s)
    BY <1>2
  <2>2. /\ Unlisted = UNION {Lost(s) : s \in GainingNodes \cup LosingNodes}
        /\ Unlisted' = UNION {Lost(s)' : s \in (GainingNodes \cup LosingNodes)'}
    BY DEF Unlisted
  <2> HIDE DEF Lost
  <2> QED
    BY <1>1, <2>1, <2>2
<1>4. \A T : Along(T)' = Along(T)
  BY DEF Along
<1>5. \A T : DoomedBy(T)' = DoomedBy(T)
  BY <1>2, <1>3, <1>4 DEF DoomedBy
<1>6. \A o, L : Promise(o, L)' <=> Promise(o, L)
  BY <1>1 DEF Promise, Named
<1>7. \A o : Listed(o)' <=> Listed(o)
  BY <1>1, <1>2 DEF Listed, Known
<1>8. \A o, T : Good(o, T)' <=> Good(o, T)
  BY <1>1, <1>5, <1>6, <1>7 DEF Good
<1>9. \A P, S, T : DeltaFits(P, S, T)' <=> DeltaFits(P, S, T)
  BY <1>4 DEF DeltaFits
<1>10. \A d, T : Remembered(d, T)' <=> Remembered(d, T)
  BY <1>1, <1>9 DEF Remembered
<1> QED
  BY <1>5, <1>8, <1>10


LEMMA StepsFound ==
    ASSUME NEW k \in Start .. Finish
    PROVE  /\ k # Finish => /\ NextStep(k) \in (k + 1) .. Finish
                            /\ \A j \in (k + 1) .. (NextStep(k) - 1) : ~Busy(j)
           /\ k # Start => /\ LastStep(k) \in Start .. (k - 1)
                           /\ \A j \in (LastStep(k) + 1) .. (k - 1) : ~Busy(j)
<1>1. Finish = 23 /\ Start = 0 /\ k \in 0 .. 23
  BY StepNames DEF Start
<1>2. ASSUME k # Finish
      PROVE  /\ NextStep(k) \in (k + 1) .. Finish
             /\ \A j \in (k + 1) .. (NextStep(k) - 1) : ~Busy(j)
  <2> DEFINE S == {n \in (k + 1) .. 23 : Busy(n)}
             Found(n) == Busy(n) /\ \A between \in (k + 1) .. (n - 1) : ~Busy(between)
  <2>1. S \in SUBSET (1 .. 23) /\ 23 \in S
    BY <1>1, <1>2 DEF Busy
  <2>2. PICK m \in S : \A n \in S : m <= n
    <3> HIDE DEF S
    <3> QED
      BY <2>1, Least
  <2>3. m \in (k + 1) .. 23 /\ Found(m)
    BY <1>1, <2>2
  <2>4. NextStep(k) = CHOOSE n \in (k + 1) .. 23 : Found(n)
    BY <1>1 DEF NextStep
  <2>5. NextStep(k) \in (k + 1) .. 23 /\ Found(NextStep(k))
    <3> HIDE DEF Found
    <3> QED
      BY <2>3, <2>4
  <2> QED
    BY <1>1, <2>5
<1>3. ASSUME k # Start
      PROVE  /\ LastStep(k) \in Start .. (k - 1)
             /\ \A j \in (LastStep(k) + 1) .. (k - 1) : ~Busy(j)
  <2> DEFINE S == {n \in 1 .. k : Busy(k - n)}
             Found(n) == Busy(n) /\ \A between \in (n + 1) .. (k - 1) : ~Busy(between)
  <2>1. S \in SUBSET (1 .. k) /\ k \in S /\ k \in Nat
    BY <1>1, <1>3 DEF Busy
  <2>2. PICK m \in S : \A n \in S : m <= n
    <3> HIDE DEF S
    <3> QED
      BY <2>1, Least
  <2>3. k - m \in Start .. (k - 1) /\ Busy(k - m)
    BY <1>1, <2>2
  <2>4. ASSUME NEW between \in (k - m + 1) .. (k - 1), Busy(between)
        PROVE  FALSE
    <3>1. k - between \in 1 .. k /\ k - (k - between) = between /\ k - between < m
      BY <1>1, <2>2, <2>4
    <3>2. k - between \in S
      BY <2>4, <3>1
    <3> QED
      BY <1>1, <2>2, <3>1, <3>2
  <2>5. Found(k - m)
    BY <2>3, <2>4
  <2>6. LastStep(k) = CHOOSE n \in Start .. (k - 1) : Found(n)
    BY DEF LastStep
  <2>7. LastStep(k) \in Start .. (k - 1) /\ Found(LastStep(k))
    <3> HIDE DEF Found
    <3> QED
      BY <2>3, <2>5, <2>6
  <2> QED
    BY <2>7
<1> QED
  BY <1>2, <1>3

LEMMA TakenThen ==
    ASSUME row' = row, was' = was, src' = src, ~Undoing \/ Undoing'
    PROVE  /\ Own \cup Deletions \subseteq Taken /\ Taken \subseteq Taken'
           /\ (Undoing => Own \cup Deletions \cup Astray \subseteq Taken)
BY SameItems DEF Taken

LEMMA RememberedMore ==
    ASSUME NEW d, NEW T, NEW U, T \subseteq U, Remembered(d, T)
    PROVE  Remembered(d, U)
<1>1. Along(T) \subseteq Along(U)
  BY DoomedMore
<1> QED
  BY <1>1 DEF Remembered, DeltaFits

\* What goes on in a merge, from good to good.
LEMMA GoodNow ==
    ASSUME row' = row, was' = was, src' = src, ~Undoing \/ Undoing',
           Good(orig', Taken), Remembered(deltas', Taken)
    PROVE  Good(orig, Taken)' /\ Remembered(deltas, Taken)'
<1>1. Taken \subseteq Taken'
  BY TakenThen
<1>2. Good(orig', Taken') /\ Remembered(deltas', Taken')
  BY <1>1, GoodMore, RememberedMore
<1> QED
  BY <1>2, SameGood

DeltaSet == [steps : SUBSET Steps, pairs : SUBSET (Steps \X (Nodes \cup Ios))]

LEMMA BranchType ==
    ASSUME Typed, orig \in Tables, mine \in Tables, NEW name, NEW S, S \subseteq Items(name)
    PROVE  EffectOnBranch(name, S) \in Tables
<1>1. src \in Tables /\ was \in Tables /\ row \in RowSet
  BY DEF Typed
<1>2. /\ mine.index \in [Steps -> Nat] /\ mine.place \in [Flows -> Nat]
      /\ mine.text \in [Objects -> SUBSET Texts]
  BY TablesAre
<1>3. CASE name = "CreateFlowSteps"
  <2>1. Incremented(S) \in [Steps -> Nat]
    BY <1>1, NumberedType
  <2>2. Overriding(mine.index, Incremented(S), S) \in [Steps -> Nat]
    BY <1>2, <2>1 DEF Overriding
  <2>3. EffectOnBranch(name, S) = [mine EXCEPT !.index = Overriding(mine.index, Incremented(S), S)]
    BY <1>3 DEF EffectOnBranch
  <2> QED
    BY <2>2, <2>3, Writing, ZenonT(60)
<1>4. CASE name \in FlowInsertions
  <2> DEFINE P == InsertFlows(orig, src, S).place
  <2>1. S \subseteq Flows
    BY <1>1, <1>4, ItemsIn
  <2>2. P \in [Flows -> Nat]
    BY <1>1, <2>1, InsertingFlows
  <2>3. EffectOnBranch(name, S) = [mine EXCEPT !.place = Overriding(mine.place, P, S)]
    BY <1>4 DEF EffectOnBranch, FlowInsertions
  <2> HIDE DEF P
  <2>4. Overriding(mine.place, P, S) \in [Flows -> Nat]
    BY <1>2, <2>2 DEF Overriding
  <2> QED
    BY <2>3, <2>4, Writing, ZenonT(60)
<1>5. CASE name = "DeleteDescriptions"
  <2>1. Overriding(mine.text, Empty.text, S) \in [Objects -> SUBSET Texts]
    BY <1>2, EmptyTables DEF Overriding
  <2>2. EffectOnBranch(name, S) = [mine EXCEPT !.text = Overriding(mine.text, Empty.text, S)]
    BY <1>5 DEF EffectOnBranch
  <2> QED
    BY <2>1, <2>2, Writing, ZenonT(60)
<1>6. CASE name \notin FlowInsertions \cup {"CreateFlowSteps", "DeleteDescriptions"}
  <2>1. EffectOnBranch(name, S) = mine
    BY <1>6 DEF EffectOnBranch, FlowInsertions
  <2> QED
    BY <2>1
<1> QED
  BY <1>3, <1>4, <1>5, <1>6


\* Items of a step are carried over.
LEMMA Carrying ==
    ASSUME MergeIInv, mode = "run", step # Finish, NEW S, S \subseteq Items(Name(step)),
           NEW saved, saved \subseteq S, Carry(S, saved), mode' \in {"run", "undo", "dead"}
    PROVE  /\ Good(orig, Taken)' /\ Remembered(deltas, Taken)'
           /\ {orig, mine, was, src}' \subseteq Tables /\ row' \in RowSet
           /\ deltas' \in [Deltas -> DeltaSet] /\ fromLog' = fromLog
           /\ step <= 2 => \A n \in Nodes \ Own : orig'.above[n] = was.above[n]
<1> DEFINE name == Name(step)
<1>1. row' = row /\ was' = was /\ src' = src /\ fromLog' = fromLog
  BY DEF Carry
<1>2. /\ Typed /\ mine \in Tables /\ deltas \in [Deltas -> DeltaSet]
      /\ step \in Start .. Finish /\ step \notin {Start, Finish} /\ ~Undoing
  BY DEF MergeIInv, TypeOK, Typed, Stepping, DeltaSet, Undoing
<1>3. Good(orig, Taken) /\ Remembered(deltas, Taken) /\ orig \in Tables
  BY DEF MergeIInv, Good
<1>4. name \in NodeSteps \cup FlowSteps \cup StepSteps \cup Deltas \cup IoSteps \cup DescriptionSteps
  BY <1>2, StepNames
<1>5. Own \cup Deletions \subseteq Taken
  BY <1>1, <1>2, TakenThen
<1>6. step <= 3 => \A n \in Nodes \ Own : orig.above[n] = was.above[n]
  BY DEF MergeIInv, Stepping
<1>7. name = "DeleteNodes" => step <= 3
  BY <1>2, StepNames DEF Start
<1>8. S \subseteq Items(name)
  OBVIOUS
<1>9. /\ orig' = Effect(name, S) /\ mine' = EffectOnBranch(name, S)
      /\ deltas' = IF name \in Deltas
                   THEN [deltas EXCEPT ![name] =
                            [steps |-> saved, pairs |-> BeforeChange(name, saved)]]
                   ELSE deltas
  BY DEF Carry
<1>10. step <= 2 => name \in NodeInsertions
  BY <1>2, StepNames DEF NodeInsertions, Start
<1> HIDE DEF name
<1>11. Good(orig', Taken)
  BY <1>2, <1>3, <1>4, <1>5, <1>6, <1>7, <1>8, <1>9, EffectGood
<1>12. mine' \in Tables /\ orig' \in Tables
  BY <1>2, <1>3, <1>8, <1>9, <1>11, BranchType DEF Good
<1>13. Remembered(deltas', Taken) /\ deltas' \in [Deltas -> DeltaSet]
  <2>1. CASE name \notin Deltas
    BY <1>2, <1>3, <1>9, <2>1
  <2>2. CASE name \in Deltas
    <3> DEFINE new == [steps |-> saved, pairs |-> BeforeChange(name, saved)]
    <3>0. saved \subseteq Items(name)
      BY <1>8
    <3>1. deltas' = [deltas EXCEPT ![name] = new]
      BY <1>9, <2>2
    <3>2. saved \subseteq Steps \cap was.objs
      BY <1>2, <2>2, <3>0, ItemsIn DEF Typed
    <3>3. name \in NodeDeltas =>
            /\ DeltaFits(new.pairs, saved, Taken) /\ new.pairs \subseteq Steps \X Nodes
            /\ saved \subseteq GainingNodes \cup LosingNodes
      <4>1. name \in NodeDeltas => saved \subseteq GainingNodes \cup LosingNodes
        BY <1>2, <3>0, ItemsIn DEF NodeDeltas, Typed
      <4> QED
        BY <1>2, <1>3, <3>0, <4>1, ChangeFits DEF DeltaFits
    <3>4. name \in InputDeltas => new.pairs \subseteq Steps \X Ios
      BY <1>2, <1>3, <3>0, InputChanges
    <3>5. name \in NodeDeltas \cup InputDeltas
      BY <2>2 DEF Deltas, NodeDeltas, InputDeltas
    <3>6. new \in DeltaSet
      BY <3>2, <3>3, <3>4, <3>5 DEF DeltaSet
    <3>7. new.steps = saved
      OBVIOUS
    <3> HIDE DEF new
    <3>8. \A d \in Deltas : deltas'[d] = IF d = name THEN new ELSE deltas[d]
      BY <1>2, <3>1
    <3>9. deltas' \in [Deltas -> DeltaSet]
      BY <1>2, <3>1, <3>6
    <3>10. NodeDeltas \subseteq Deltas /\ InputDeltas \subseteq Deltas
      BY DEF Deltas, NodeDeltas, InputDeltas
    <3>11. Remembered(deltas', Taken)
      BY <1>3, <3>2, <3>3, <3>4, <3>7, <3>8, <3>10 DEF Remembered
    <3> QED
      BY <3>9, <3>11
  <2> QED
    BY <2>1, <2>2
<1>14. step <= 2 => \A n \in Nodes \ Own : orig'.above[n] = was.above[n]
  <2>1. ASSUME step <= 2, NEW n \in Nodes \ Own
        PROVE  orig'.above[n] = was.above[n]
    <3>1. orig' = InsertRows(orig, src, S)
      BY <1>9, <1>10, <2>1, EffectsAre DEF NodeInsertions
    <3>2. S \subseteq Nodes \cap Own
      BY <1>2, <1>8, <1>10, <2>1, ItemsIn DEF Typed
    <3>3. S \subseteq Objects
      BY <3>2 DEF Objects
    <3>4. Fits(orig, orig', S, S, src.outputs)
      BY <1>2, <1>3, <3>1, <3>3, Inserts DEF Typed
    <3>5. orig'.above[n] = orig.above[n]
      BY <2>1, <3>2, <3>4 DEF Fits, SameBut
    <3>6. step <= 3
      BY <1>2, <2>1, StepNames DEF Start
    <3> QED
      BY <1>6, <2>1, <3>5, <3>6
  <2> QED
    BY <2>1
<1> QED
  BY <1>1, <1>2, <1>11, <1>12, <1>13, <1>14, GoodNow DEF Typed

\* Items of a step are carried back.
LEMMA CarryingBack ==
    ASSUME MergeIInv, mode = "undo", step # Start, NEW S, S \subseteq UndoItems(Name(step)),
           CarryBack(S), mode' \in {"undo", "failed", "dead"}
    PROVE  /\ Good(orig, Taken)' /\ Remembered(deltas, Taken)'
           /\ {orig, mine, was, src}' \subseteq Tables /\ row' \in RowSet
           /\ deltas' \in [Deltas -> DeltaSet] /\ fromLog' = fromLog
<1> DEFINE name == Name(step)
<1>1. /\ row' = row /\ was' = was /\ src' = src /\ fromLog' = fromLog /\ deltas' = deltas
      /\ mine' = mine /\ orig' = UndoEffect(name, S)
  BY DEF CarryBack
<1>2. /\ Typed /\ mine \in Tables /\ deltas \in [Deltas -> DeltaSet]
      /\ step \in Start .. Finish /\ step \notin {Start, Finish} /\ Undoing /\ Undoing'
  BY DEF MergeIInv, TypeOK, Typed, Stepping, DeltaSet, Undoing
<1>3. Good(orig, Taken) /\ Remembered(deltas, Taken)
  BY DEF MergeIInv
<1>4. name \in NodeSteps \cup FlowSteps \cup StepSteps \cup Deltas \cup IoSteps \cup DescriptionSteps
  BY <1>2, StepNames
<1>5. Own \cup Deletions \cup Astray \subseteq Taken
  BY <1>1, <1>2, TakenThen
<1>6. S \subseteq UndoItems(name)
  OBVIOUS
<1> HIDE DEF name
<1>7. Good(orig', Taken)
  BY <1>1, <1>2, <1>3, <1>4, <1>5, <1>6, UndoEffectGood
<1>8. orig' \in Tables
  BY <1>7 DEF Good
<1> QED
  BY <1>1, <1>2, <1>3, <1>7, <1>8, GoodNow DEF Typed


-----------------------------------------------------------------------------
(* The theorem.                                                            *)

\* What the handlers return, for rows and tables, are rows and tables.
Handled ==
    /\ Original \in Tables
    /\ \A r \in RowSet : \A t, o \in Tables : Edits(r, t, o) \subseteq [row : RowSet, mine : Tables]
    /\ \A o \in Tables : OtherEdits(o) \subseteq Tables

LEMMA MergeInit ==
    ASSUME Handled, Init
    PROVE  MergeIInv
<1>1. NewRow \in RowSet
  BY DEF NewRow, RowSet, Pairs, NoPairs
<1>2. NoDeltas \in [Deltas -> [steps : SUBSET Steps, pairs : SUBSET (Steps \X (Nodes \cup Ios))]]
  BY DEF NoDeltas
<1>3. Start \in Start .. Finish
  BY DEF Start, Finish, MergeSteps
<1> QED
  BY <1>1, <1>2, <1>3, EmptyTables DEF Handled, Init, MergeIInv, TypeOK, Modes

\* Nothing is remembered when a merge begins, is given up, or is at its end.
LEMMA NothingRemembered ==
    ASSUME NEW T
    PROVE  /\ Remembered(NoDeltas, T)
           /\ NoDeltas \in [Deltas -> [steps : SUBSET Steps, pairs : SUBSET (Steps \X (Nodes \cup Ios))]]
BY DEF Remembered, DeltaFits, NoDeltas, NodeDeltas, InputDeltas, Deltas, Of

\* The two, as facts about the rows and tables of any moment.
LEMMA GoodAtStart ==
    Typed => Good(was, Taken)
BY GoodStart

LEMMA NothingKept ==
    Remembered(NoDeltas, Taken)
BY NothingRemembered

\* Steps in which the rows and tables stay.
LEMMA MergeStays ==
    ASSUME MergeIInv, mode # "open", ~Undoing \/ Undoing', orig' = orig, mine' = mine,
           row' = row, was' = was, src' = src, deltas' \in {deltas, NoDeltas}, fromLog' \in BOOLEAN,
           mode' \in Modes, step' \in Start .. Finish, Stepping'
    PROVE  MergeIInv'
<1>1. Good(orig', Taken) /\ Remembered(deltas', Taken)
  BY NothingRemembered DEF MergeIInv
<1>2. Good(orig, Taken)' /\ Remembered(deltas, Taken)'
  BY <1>1, GoodNow
<1>3. TypeOK'
  BY NothingRemembered DEF MergeIInv, TypeOK
<1> QED
  BY <1>2, <1>3 DEF MergeIInv

\* A step that is carried over, and the next one comes.
LEMMA MergeGoesOn ==
    ASSUME MergeIInv, mode = "run", step # Finish, NEW S, S \subseteq Items(Name(step)),
           Carry(S, S), mode' = "run", step' = NextStep(step)
    PROVE  MergeIInv'
<1>1. /\ Good(orig, Taken)' /\ Remembered(deltas, Taken)'
      /\ {orig, mine, was, src}' \subseteq Tables /\ row' \in RowSet
      /\ deltas' \in [Deltas -> DeltaSet] /\ fromLog' = fromLog
      /\ step <= 2 => \A n \in Nodes \ Own : orig'.above[n] = was.above[n]
  BY Carrying
<1>2. step \in Start .. Finish /\ fromLog \in BOOLEAN /\ Start = 0 /\ Finish = 23
  BY StepNames DEF MergeIInv, TypeOK, Start
<1>3. step' \in (step + 1) .. Finish
  BY StepsFound, <1>2
<1>4. TypeOK'
  BY <1>1, <1>2, <1>3 DEF TypeOK, Modes, DeltaSet
<1>5. row' = row /\ was' = was /\ src' = src
  BY DEF Carry
<1>6. Own' = Own
  BY <1>5, SameItems
<1>7. Stepping'
  BY <1>1, <1>2, <1>3, <1>5, <1>6 DEF Stepping
<1> QED
  BY <1>1, <1>4, <1>7 DEF MergeIInv

\* A step that is carried over in part, and the merge ends.
LEMMA MergeStops ==
    ASSUME MergeIInv, mode = "run", step # Finish, NEW S, S \subseteq Items(Name(step)),
           NEW saved, saved \subseteq S, Carry(S, saved), mode' \in {"undo", "dead"}, step' = step
    PROVE  MergeIInv'
<1>1. /\ Good(orig, Taken)' /\ Remembered(deltas, Taken)'
      /\ {orig, mine, was, src}' \subseteq Tables /\ row' \in RowSet
      /\ deltas' \in [Deltas -> DeltaSet] /\ fromLog' = fromLog
  BY Carrying
<1>2. TypeOK'
  BY <1>1 DEF TypeOK, Modes, DeltaSet, MergeIInv
<1>3. Stepping'
  BY DEF Stepping, Finish, MergeSteps
<1> QED
  BY <1>1, <1>2, <1>3 DEF MergeIInv

\* A step that is carried back, all of it or in part.
LEMMA MergeGoesBack ==
    ASSUME MergeIInv, mode = "undo", step # Start, NEW S, S \subseteq UndoItems(Name(step)),
           CarryBack(S), mode' \in {"undo", "failed", "dead"},
           step' = step \/ step' \in Start .. (step - 1)
    PROVE  MergeIInv'
<1>1. /\ Good(orig, Taken)' /\ Remembered(deltas, Taken)'
      /\ {orig, mine, was, src}' \subseteq Tables /\ row' \in RowSet
      /\ deltas' \in [Deltas -> DeltaSet] /\ fromLog' = fromLog
  BY CarryingBack
<1>2. step \in Start .. Finish /\ step # Finish /\ Start = 0 /\ Finish = 23
  BY StepNames DEF MergeIInv, TypeOK, Start, Stepping
<1>3. step' \in Start .. Finish
  BY <1>2
<1>4. fromLog \in BOOLEAN
  BY DEF MergeIInv, TypeOK
<1>5. TypeOK'
  BY <1>1, <1>3, <1>4 DEF TypeOK, Modes, DeltaSet
<1>6. Stepping'
  BY <1>2 DEF Stepping
<1> QED
  BY <1>1, <1>5, <1>6 DEF MergeIInv

LEMMA MergeNext ==
    ASSUME Handled, MergeIInv, [Next]_vars
    PROVE  MergeIInv'
<1>1. /\ TypeOK /\ Typed /\ step \in Start .. Finish /\ Start = 0 /\ Finish = 23
      /\ orig \in Tables /\ mine \in Tables /\ fromLog \in BOOLEAN
  BY StepNames DEF MergeIInv, TypeOK, Typed, Start
<1>2. \A name, S : Losing(name, S) \subseteq S
  BY DEF Losing
<1>3. CASE EditBranch
  <2>1. mode = "open" /\ mode' = "open"
    BY <1>3 DEF EditBranch
  <2>2. PICK both \in Edits(row, mine, orig) : row' = both.row /\ mine' = both.mine
    BY <1>3 DEF EditBranch
  <2>3. both \in [row : RowSet, mine : Tables]
    BY <1>1, <2>2 DEF Handled, Typed
  <2>4. TypeOK'
    BY <1>1, <1>3, <2>2, <2>3 DEF TypeOK, EditBranch
  <2> QED
    BY <2>1, <2>4 DEF MergeIInv
<1>4. CASE EditOriginal
  <2>1. mode = "open" /\ mode' = "open"
    BY <1>4 DEF EditOriginal
  <2>2. orig' \in Tables
    BY <1>1, <1>4 DEF EditOriginal, Handled
  <2>3. TypeOK'
    BY <1>1, <1>4, <2>2 DEF TypeOK, EditOriginal
  <2> QED
    BY <2>1, <2>3 DEF MergeIInv
<1>5. CASE StartMerge
  <2>1. /\ mode' = "run" /\ step' = 1 /\ was' = orig /\ src' = mine /\ deltas' = NoDeltas
        /\ orig' = orig /\ row' = row /\ mine' = mine /\ fromLog' = FALSE
    BY <1>1, <1>5 DEF StartMerge
  <2>2. TypeOK'
    <3>1. deltas' \in [Deltas -> DeltaSet]
      BY <2>1, NothingRemembered DEF DeltaSet
    <3>2. step' \in Start .. Finish
      BY <1>1, <2>1
    <3> QED
      BY <1>1, <2>1, <3>1, <3>2 DEF TypeOK, Modes, DeltaSet, MergeIInv
  <2>3. Typed'
    BY <1>1, <2>1 DEF Typed
  <2>4. Good(orig, Taken)'
    <3>1. (Typed => Good(was, Taken))'
      BY GoodAtStart, PTL
    <3> QED
      BY <2>1, <2>3, <3>1 DEF Good
  <2>5. Remembered(deltas, Taken)'
    <3>1. Remembered(NoDeltas, Taken)'
      BY NothingKept, PTL
    <3> QED
      BY <2>1, <3>1 DEF Remembered
  <2>6. Stepping'
    BY <1>1, <2>1 DEF Stepping
  <2> QED
    BY <2>1, <2>2, <2>4, <2>5, <2>6 DEF MergeIInv
<1>6. CASE Execute
  <2>1. mode = "run" /\ step # Finish /\ mode' = "run" /\ step' = NextStep(step)
    BY <1>6 DEF Execute
  <2> DEFINE S == Losing(Name(step), Items(Name(step)))
  <2>2. Carry(S, S) /\ S \subseteq Items(Name(step))
    BY <1>2, <1>6 DEF Execute
  <2> HIDE DEF S
  <2> QED
    BY <2>1, <2>2, MergeGoesOn
<1>7. CASE GetStuck
  <2>1. mode = "run" /\ step # Finish /\ mode' = "undo" /\ step' = step
    BY <1>7 DEF GetStuck
  <2>2. PICK S \in Portions(Name(step)) : Carry(S, S)
    BY <1>7 DEF GetStuck
  <2>3. S \subseteq Items(Name(step))
    BY <1>2, <2>2 DEF Portions
  <2> QED
    BY <2>1, <2>2, <2>3, MergeStops
<1>8. CASE FinishMerge
  <2>1. /\ mode = "run" /\ mode' = "merged" /\ deltas' = NoDeltas
        /\ UNCHANGED <<orig, row, mine, step, was, src, fromLog>>
    BY <1>8 DEF FinishMerge
  <2>2. Stepping' /\ ~Undoing
    BY <2>1 DEF Stepping, Undoing
  <2> QED
    BY <1>1, <2>1, <2>2, MergeStays DEF Modes
<1>9. CASE Undo
  <2>1. mode = "undo" /\ step # Start /\ mode' = "undo" /\ step' = LastStep(step)
        /\ CarryBack(UndoItems(Name(step)))
    BY <1>9 DEF Undo
  <2>2. step' \in Start .. (step - 1)
    BY <1>1, <2>1, StepsFound
  <2> QED
    BY <1>1, <2>1, <2>2, MergeGoesBack
<1>10. CASE GetStuckUndoing
  <2>1. mode = "undo" /\ step # Start /\ mode' = "failed" /\ step' = step
    BY <1>10 DEF GetStuckUndoing
  <2>2. PICK S \in SUBSET (UndoItems(Name(step)) \cap orig.objs) : CarryBack(S)
    BY <1>10 DEF GetStuckUndoing
  <2> QED
    BY <1>1, <2>1, <2>2, MergeGoesBack
<1>11. CASE RolledBack
  <2>1. mode = "undo" /\ mode' = "recovered" /\ UNCHANGED <<orig, row, mine, step, was, src, deltas, fromLog>>
    BY <1>11 DEF RolledBack
  <2>2. Stepping' /\ Undoing'
    BY <2>1 DEF Stepping, Undoing
  <2> QED
    BY <1>1, <2>1, <2>2, MergeStays DEF Modes
<1>12. CASE Recover
  <2>1. /\ mode \in {"dead", "failed"} /\ mode' = "undo" /\ deltas' = NoDeltas /\ fromLog' = TRUE
        /\ UNCHANGED <<orig, row, mine, step, was, src>>
    BY <1>12 DEF Recover
  <2>2. step # Finish
    BY <2>1 DEF MergeIInv, Stepping
  <2>3. Stepping' /\ Undoing'
    BY <1>1, <2>1, <2>2 DEF Stepping, Undoing
  <2> QED
    BY <1>1, <2>1, <2>3, MergeStays DEF Modes
<1>13. CASE FailExecute
  <2>1. mode = "run" /\ step # Finish /\ mode' \in {"undo", "dead"} /\ step' = step
    BY <1>13 DEF FailExecute
  <2>2. PICK S \in Portions(Name(step)) : \E last \in S \cup {None} : Carry(S, S \ {last})
    BY <1>13 DEF FailExecute
  <2>3. S \subseteq Items(Name(step)) /\ \E saved : saved \subseteq S /\ Carry(S, saved)
    BY <1>2, <2>2 DEF Portions
  <2> QED
    BY <2>1, <2>2, <2>3, MergeStops
<1>14. CASE FailMove
  <2>1. /\ mode = "run" /\ Name(step) = "ReorderNodes" /\ mode' = "run" /\ step' = NextStep(step)
    BY <1>14 DEF FailMove
  <2>2. PICK n \in Items("ReorderNodes") :
            Carry(Items("ReorderNodes") \ {n}, Items("ReorderNodes") \ {n})
    BY <1>14 DEF FailMove
  <2>3. step # Finish
    <3>1. Name(Finish) = "Finish"
      BY <1>1, StepNames
    <3> QED
      BY <2>1, <3>1
  <2> DEFINE S == Items("ReorderNodes") \ {n}
  <2>4. Carry(S, S) /\ S \subseteq Items(Name(step))
    BY <2>1, <2>2
  <2> HIDE DEF S
  <2> QED
    BY <2>1, <2>3, <2>4, MergeGoesOn
<1>15. CASE FailFinish
  <2>1. /\ mode = "run" /\ step = Finish /\ mode' \in {"undo", "dead"} /\ step' = LastStep(step)
        /\ UNCHANGED <<orig, row, mine, was, src, deltas, fromLog>>
    BY <1>15 DEF FailFinish
  <2>2. step' \in Start .. (step - 1)
    BY <1>1, <2>1, StepsFound
  <2>3. Stepping' /\ Undoing'
    BY <1>1, <2>1, <2>2 DEF Stepping, Undoing
  <2> QED
    BY <1>1, <2>1, <2>2, <2>3, MergeStays DEF Modes
<1>16. CASE FailUndo
  <2>1. mode = "undo" /\ step # Start /\ mode' \in {"failed", "dead"} /\ step' = step
    BY <1>16 DEF FailUndo
  <2>2. PICK S \in SUBSET UndoItems(Name(step)) : CarryBack(S)
    BY <1>16 DEF FailUndo
  <2> QED
    BY <1>1, <2>1, <2>2, MergeGoesBack
<1>17. CASE FailMoveBack
  <2>1. /\ mode = "undo" /\ step # Start /\ Name(step) = "ReorderNodes" /\ mode' = "undo"
        /\ step' = LastStep(step)
    BY <1>17 DEF FailMoveBack
  <2>2. PICK n \in UndoItems("ReorderNodes") : CarryBack(UndoItems("ReorderNodes") \ {n})
    BY <1>17 DEF FailMoveBack
  <2> DEFINE S == UndoItems("ReorderNodes") \ {n}
  <2>3. CarryBack(S) /\ S \subseteq UndoItems(Name(step))
    BY <2>1, <2>2
  <2>4. step' \in Start .. (step - 1)
    BY <1>1, <2>1, StepsFound
  <2> HIDE DEF S
  <2> QED
    BY <1>1, <2>1, <2>3, <2>4, MergeGoesBack
<1>18. CASE UNCHANGED vars
  <2>1. mode' = mode /\ UNCHANGED <<orig, row, mine, step, was, src, deltas, fromLog>>
    BY <1>18 DEF vars
  <2>2. CASE mode = "open"
    BY <2>1, <2>2 DEF MergeIInv, TypeOK
  <2>3. CASE mode # "open"
    <3>1. Own' = Own
      BY <2>1, SameItems
    <3>2. Stepping' /\ (Undoing' <=> Undoing)
      BY <2>1, <2>3, <3>1 DEF Stepping, Undoing, MergeIInv
    <3> QED
      BY <1>1, <2>1, <2>3, <3>2, MergeStays DEF TypeOK
  <2> QED
    BY <2>2, <2>3
<1> QED
  BY <1>3, <1>4, <1>5, <1>6, <1>7, <1>8, <1>9, <1>10, <1>11, <1>12, <1>13, <1>14, <1>15, <1>16,
     <1>17, <1>18 DEF Next

\* However a merge goes, in the middle of it, after errors and crashes in steps
\* and undos, the rows of the original that the branch does not delete are
\* there, and have their titles, texts and nodes, or those of the branch if that
\* changed them; nothing comes but what the branch has created or restored
\* (Branch::merge and the steps and undos of models/branch/merge).
THEOREM MergeSafe ==
    ASSUME Handled
    PROVE  Spec => []MergeInv
<1>1. Init => MergeIInv
  BY MergeInit
<1>2. MergeIInv /\ [Next]_vars => MergeIInv'
  BY MergeNext
<1>3. MergeIInv => MergeInv
  BY DEF MergeIInv, MergeInv, Untouched, Good, Promise, Named, DoomedBy, Doomed, Left
<1> QED
  BY <1>1, <1>2, <1>3, PTL DEF Spec

-----------------------------------------------------------------------------
(* All or nothing: titles, texts and nodes.                                *)

Spared(T) == was.objs \ DoomedBy(T)

\* A title that x gets from the branch, and one that it gets back.
Retold(x, title) == \E y \in Retitled(Nodes \cup Ios) \cap Alike(x) : title = src.title[y]
WasNamed(x, title) == \E y \in {x} \cup (WithTitle(Ios) \cap Alike(x)) : title = was.title[y]

\* The nodes of flow steps are written.
LEMMA NodesWritten ==
    ASSUME Typed, NEW T, Own \cup Deletions \subseteq T, Good(orig, T),
           NEW S, S \subseteq Steps \cap (GainingNodes \cup LosingNodes),
           NEW pairs, DeltaFits(pairs, S, T), NEW v, v = UpdateNodes(orig, S, pairs)
    PROVE  /\ \A x \in Titled \cap Spared(T) : v.title[x] = orig.title[x]
           /\ \A x \in Spared(T) : v.text[x] = orig.text[x]
           /\ \A s \in Steps \cap Spared(T) :
                  Of(v.nodes, s) = IF s \in S THEN Of(pairs, s) ELSE Of(orig.nodes, s)
<1> DEFINE I == GoneFrom(orig, S, pairs)
<1>1. orig \in Tables /\ was \in Tables /\ row \in RowSet /\ Listed(orig)
  BY DEF Good, Typed
<1>2. S \subseteq Steps /\ pairs \subseteq Steps \X Nodes
  BY DEF DeltaFits
<1>3. I \subseteq DoomedBy(T)
  BY <1>1, GoneDoomed DEF DeltaFits
<1>4. NodesUpdated(orig, S, pairs)
  BY <1>1, <1>2, UpdatingNodes
<1>5. /\ \A s \in Steps \ (I \cup S) : Of(v.nodes, s) = Of(orig.nodes, s)
      /\ \A x \in Objects \ I : v.text[x] = orig.text[x]
      /\ \A x \in Titled \ I : v.title[x] = orig.title[x]
      /\ \A s \in S : Of(v.nodes, s) = Of(pairs, s)
  BY <1>4 DEF NodesUpdated, Fits, SameBut
<1>6. Spared(T) \subseteq Objects
  BY <1>1, TablesAre DEF Spared
<1> HIDE DEF I
<1> QED
  BY <1>3, <1>5, <1>6 DEF Spared

\* What a step makes of the data of what does not go.
LEMMA EffectData ==
    ASSUME Typed, NEW T, Own \cup Deletions \subseteq T, Good(orig, T),
           NEW name \in NodeSteps \cup FlowSteps \cup StepSteps \cup Deltas \cup IoSteps
                            \cup DescriptionSteps,
           NEW S, S \subseteq Items(name),
           name = "DeleteNodes" => \A n \in Nodes \ Own : orig.above[n] = was.above[n],
           NEW v, v = Effect(name, S)
    PROVE  /\ \A x \in Titled \cap Spared(T) :
                  IF name \in TitleSteps /\ x \in S THEN Retold(x, v.title[x])
                  ELSE v.title[x] = orig.title[x]
           /\ \A x \in Spared(T) :
                  v.text[x] = orig.text[x] \cup
                      IF name = "UpdateDescriptions" /\ x \in S THEN src.text[x] ELSE {}
           /\ \A s \in Steps \cap Spared(T) :
                  Of(v.nodes, s) = IF name \in NodeDeltas /\ s \in S THEN Of(Changed(name, S), s)
                                   ELSE Of(orig.nodes, s)
<1>1. orig \in Tables /\ was \in Tables /\ src \in Tables /\ row \in RowSet
  BY DEF Good, Typed
<1>2. CASE name \notin DataSteps
  <2>1. Kept(orig, v, T)
    BY <1>2, EffectGood
  <2> QED
    BY <1>2, <2>1 DEF Kept, SameOf, Spared, DataSteps, DescriptionSteps
<1>3. CASE name \in TitleSteps
  <2>1. name \notin NodeDeltas /\ name # "UpdateDescriptions"
    BY <1>3 DEF TitleSteps, NodeDeltas
  <2>2. CASE name = "UpdateNodesTitles"
    <3>1. v = NodeTitles(S) /\ S \subseteq Nodes \cap was.objs /\ S \subseteq Retitled(Nodes)
      BY <1>1, <2>2, EffectsAre, ItemsAre, ItemsIn
    <3>2. /\ v.nodes = orig.nodes /\ v.text = orig.text
          /\ \A x \in Titled : v.title[x] = IF x \in S THEN src.title[x] ELSE orig.title[x]
      BY <1>1, <3>1, NodeTitling DEF Grown
    <3>3. \A x \in S : x \in Retitled(Nodes \cup Ios) \cap Alike(x)
      BY <3>1 DEF Retitled, OriginalRecords, Alike
    <3> QED
      BY <1>3, <2>1, <3>2, <3>3 DEF Retold
  <2>3. CASE name = "UpdateIoTitles"
    <3>1. v = IoTitles(src, Retitled(Ios), S) /\ S \subseteq Titling(Retitled(Ios))
          /\ Retitled(Ios) \subseteq Ios \cap was.objs
      BY <2>3, EffectsAre, IosListed
    <3> DEFINE rows == S \cap (orig.objs \cup Retitled(Ios))
    <3>2. /\ v.nodes = orig.nodes /\ v.text = orig.text
          /\ \A x \in Titled :
                 IF x \in rows THEN \E y \in Retitled(Ios) \cap Alike(x) : v.title[x] = src.title[y]
                 ELSE v.title[x] = orig.title[x]
      BY <1>1, <3>1, IoTitling DEF Grown
    <3>3. Retitled(Ios) \subseteq Retitled(Nodes \cup Ios)
      BY DEF Retitled, OriginalRecords
    <3>4. \A x \in Spared(T) : x \in S <=> x \in rows
      BY DEF Spared, Good, Promise
    <3> HIDE DEF rows
    <3> QED
      BY <1>3, <2>1, <3>2, <3>3, <3>4 DEF Retold
  <2> QED
    BY <1>3, <2>2, <2>3 DEF TitleSteps
<1>4. CASE name \in DescriptionSteps
  <2>1. v = DescriptionEffect(name, S)
    BY <1>4, EffectsAre
  <2>2. name \notin NodeDeltas /\ name \notin TitleSteps
    BY <1>4 DEF TitleSteps, NodeDeltas, DescriptionSteps
  <2>3. CASE name = "UpdateDescriptions"
    <3> DEFINE P == [x \in Objects |-> orig.text[x] \cup IF x \in S THEN src.text[x] ELSE {}]
    <3>1. v = [orig EXCEPT !.text = P]
      BY <2>1, <2>3 DEF DescriptionEffect
    <3>2. P \in [Objects -> SUBSET Texts]
      BY <1>1, TablesAre
    <3>3. \A x \in Objects : P[x] = orig.text[x] \cup IF x \in S THEN src.text[x] ELSE {}
      OBVIOUS
    <3> HIDE DEF P
    <3>4. v.nodes = orig.nodes /\ v.title = orig.title /\ v.text = P
      BY <1>1, <3>1, <3>2, Retexting DEF Rest
    <3>5. Spared(T) \subseteq Objects
      BY <1>1, TablesAre DEF Spared
    <3> QED
      BY <2>2, <2>3, <3>3, <3>4, <3>5
  <2>4. CASE name # "UpdateDescriptions"
    BY <2>1, <2>2, <2>4 DEF DescriptionEffect
  <2> QED
    BY <2>3, <2>4
<1>5. CASE name \in NodeDeltas
  <2>1. v = UpdateNodes(orig, S, Changed(name, S))
    BY <1>5, EffectsAre DEF NodeDeltas
  <2>2. S \subseteq Steps \cap (GainingNodes \cup LosingNodes)
    <3>1. Items(name) \subseteq GainingNodes \cup LosingNodes /\ Items(name) \subseteq Steps
      BY <1>1, <1>5, ItemsIn DEF NodeDeltas, Deltas
    <3> QED
      BY <3>1
  <2>3. DeltaFits(Changed(name, S), S, T)
    BY <1>5, ChangeFits
  <2>4. name # "UpdateDescriptions" /\ name \notin TitleSteps
    BY <1>5 DEF TitleSteps, NodeDeltas
  <2> QED
    BY <1>5, <2>1, <2>2, <2>3, <2>4, NodesWritten
<1> QED
  BY <1>2, <1>3, <1>4, <1>5 DEF DataSteps

\* What the undo of a step makes of it.
LEMMA UndoData ==
    ASSUME Typed, NEW T, Own \cup Deletions \cup Astray \subseteq T, Good(orig, T),
           Remembered(deltas, T),
           NEW name \in NodeSteps \cup FlowSteps \cup StepSteps \cup Deltas \cup IoSteps
                            \cup DescriptionSteps,
           NEW S, S \subseteq UndoItems(name), NEW v, v = UndoEffect(name, S)
    PROVE  /\ \A x \in Titled \cap Spared(T) :
                  IF name \in TitleSteps /\ x \in S THEN WasNamed(x, v.title[x])
                  ELSE v.title[x] = orig.title[x]
           /\ \A x \in Spared(T) :
                  v.text[x] = IF name \in DescriptionSteps /\ x \in S THEN was.text[x]
                              ELSE orig.text[x]
           /\ \A s \in Steps \cap Spared(T) :
                  Of(v.nodes, s) = IF name \in NodeDeltas /\ s \in S THEN Of(deltas[name].pairs, s)
                                   ELSE Of(orig.nodes, s)
<1>1. orig \in Tables /\ was \in Tables /\ src \in Tables /\ row \in RowSet
  BY DEF Good, Typed
<1>2. CASE name \notin DataSteps
  <2>1. Kept(orig, v, T)
    BY <1>2, UndoEffectGood
  <2> QED
    BY <1>2, <2>1 DEF Kept, SameOf, Spared, DataSteps
<1>3. CASE name \in TitleSteps
  <2>1. name \notin NodeDeltas /\ name \notin DescriptionSteps
    BY <1>3 DEF TitleSteps, NodeDeltas, DescriptionSteps
  <2>2. CASE name = "UpdateNodesTitles"
    <3>1. v = WithTitles(was, S)
      BY <2>2, UndoEffectsAre
    <3>2. /\ v.nodes = orig.nodes /\ v.text = orig.text
          /\ \A x \in Titled : v.title[x] = IF x \in S THEN was.title[x] ELSE orig.title[x]
      BY <1>1, <3>1, Retitling DEF Rest
    <3> QED
      BY <1>3, <2>1, <3>2 DEF WasNamed
  <2>3. CASE name = "UpdateIoTitles"
    <3>1. v = IoTitles(was, WithTitle(Ios), S) /\ S \subseteq Titling(WithTitle(Ios))
          /\ WithTitle(Ios) \subseteq Ios \cap was.objs
      BY <2>3, UndoEffectsAre, IosListed
    <3> DEFINE rows == S \cap (orig.objs \cup WithTitle(Ios))
    <3>2. /\ v.nodes = orig.nodes /\ v.text = orig.text
          /\ \A x \in Titled :
                 IF x \in rows THEN \E y \in WithTitle(Ios) \cap Alike(x) : v.title[x] = was.title[y]
                 ELSE v.title[x] = orig.title[x]
      BY <1>1, <3>1, IoTitling DEF Grown
    <3>3. \A x \in Spared(T) : x \in S <=> x \in rows
      BY DEF Spared, Good, Promise
    <3> HIDE DEF rows
    <3> QED
      BY <1>3, <2>1, <3>2, <3>3 DEF WasNamed
  <2> QED
    BY <1>3, <2>2, <2>3 DEF TitleSteps
<1>4. CASE name \in DescriptionSteps
  <2> DEFINE P == Overriding(orig.text, was.text, S)
  <2>1. v = [orig EXCEPT !.text = P]
    BY <1>4, UndoEffectsAre
  <2>2. orig.text \in [Objects -> SUBSET Texts] /\ was.text \in [Objects -> SUBSET Texts]
    BY <1>1, TablesAre
  <2>3. /\ P \in [Objects -> SUBSET Texts]
        /\ \A x \in Objects : P[x] = IF x \in S THEN was.text[x] ELSE orig.text[x]
    BY <2>2 DEF Overriding
  <2> HIDE DEF P
  <2>4. v.nodes = orig.nodes /\ v.title = orig.title /\ v.text = P
    BY <1>1, <2>1, <2>3, Retexting DEF Rest
  <2>5. name \notin NodeDeltas /\ name \notin TitleSteps
    BY <1>4 DEF TitleSteps, NodeDeltas, DescriptionSteps
  <2>6. Spared(T) \subseteq Objects
    BY <1>1, TablesAre DEF Spared
  <2> QED
    BY <1>4, <2>3, <2>4, <2>5, <2>6
<1>5. CASE name \in NodeDeltas
  <2> DEFINE pairs == {p \in deltas[name].pairs : p[1] \in S}
  <2>1. v = UpdateNodes(orig, S, pairs)
    BY <1>5, UndoEffectsAre DEF NodeDeltas
  <2>2. S \subseteq deltas[name].steps
    BY <1>5, UndoItemsIn DEF NodeDeltas, Deltas
  <2>3. /\ S \subseteq Steps \cap (GainingNodes \cup LosingNodes)
        /\ DeltaFits(deltas[name].pairs, deltas[name].steps, T)
    BY <1>5, <2>2 DEF Remembered
  <2>4. \A s \in S : Of(pairs, s) = Of(deltas[name].pairs, s)
    BY OfThem
  <2>5. pairs \subseteq deltas[name].pairs
    OBVIOUS
  <2> HIDE DEF pairs
  <2>6. DeltaFits(pairs, S, T)
    BY <2>2, <2>3, <2>4, <2>5 DEF DeltaFits
  <2>7. name \notin DescriptionSteps /\ name \notin TitleSteps
    BY <1>5 DEF TitleSteps, NodeDeltas, DescriptionSteps
  <2>8. Own \cup Deletions \subseteq T
    OBVIOUS
  <2>9. /\ \A x \in Titled \cap Spared(T) : v.title[x] = orig.title[x]
        /\ \A x \in Spared(T) : v.text[x] = orig.text[x]
        /\ \A s \in Steps \cap Spared(T) :
               Of(v.nodes, s) = IF s \in S THEN Of(pairs, s) ELSE Of(orig.nodes, s)
    BY <2>1, <2>3, <2>6, <2>8, NodesWritten
  <2> QED
    BY <1>5, <2>4, <2>7, <2>9
<1> QED
  BY <1>2, <1>3, <1>4, <1>5 DEF DataSteps

\* A step of this name is among the first k.
Past(name, k) == \E j \in 1 .. k : Name(j) = name

LEMMA PastNext ==
    ASSUME NEW k \in 1 .. 22
    PROVE  \A name : Past(name, k) <=> Past(name, k - 1) \/ name = Name(k)
<1>1. 1 .. k = 1 .. (k - 1) \cup {k}
  OBVIOUS
<1> QED
  BY <1>1 DEF Past

LEMMA PastMore ==
    ASSUME NEW k \in 0 .. 22, NEW m \in 0 .. 22, k <= m
    PROVE  \A name : Past(name, k) => Past(name, m)
BY DEF Past

\* Each name is one step's, and all steps have one.
LEMMA PastSteps ==
    /\ \A k \in 1 .. 22 : ~Past(Name(k), k - 1)
    /\ \A name \in DataSteps : Past(name, 22)
    /\ \A k \in 0 .. 13 : ~Past("DeleteFlowStepNodes", k)
    /\ \A k \in 1 .. 22 : Name(k) = "DeleteFlowStepNodes" =>
           k = 14 /\ Past("CreateFlowStepNodes", k - 1)
    /\ \A k \in 1 .. 22 : Name(k) = "CreateFlowStepNodes" => k = 13
    /\ \A k, j \in 1 .. 22 : Name(j) = Name(k) => j = k
<1>1. \A k, j \in 1 .. 22 : j < k => Name(j) # Name(k)
  BY DEF Name, MergeSteps
<1>2. /\ Name(4) = "UpdateNodesTitles" /\ Name(20) = "UpdateIoTitles"
      /\ Name(13) = "CreateFlowStepNodes" /\ Name(14) = "DeleteFlowStepNodes"
      /\ Name(21) = "UpdateDescriptions" /\ Name(22) = "DeleteDescriptions"
  BY DEF Name, MergeSteps
<1>3. \A name \in DataSteps : \E k \in 1 .. 22 : Name(k) = name
  BY <1>2 DEF DataSteps, TitleSteps, NodeDeltas, DescriptionSteps
<1>4. \A k, j \in 1 .. 22 : Name(j) = Name(k) => j = k
  <2>1. \A k, j \in 1 .. 22 : j < k \/ k < j \/ j = k
    OBVIOUS
  <2> QED
    BY <1>1, <2>1
<1> QED
  <2>1. \A k \in 1 .. 22 : ~Past(Name(k), k - 1)
    <3>1. ASSUME NEW k \in 1 .. 22, NEW j \in 1 .. (k - 1), Name(j) = Name(k)
          PROVE  FALSE
      <4>1. j \in 1 .. 22 /\ j # k
        OBVIOUS
      <4> QED
        BY <1>4, <3>1, <4>1
    <3> QED
      BY <3>1 DEF Past
  <2>2. \A k \in 0 .. 13 : ~Past("DeleteFlowStepNodes", k)
    <3>1. ASSUME NEW k \in 0 .. 13, NEW j \in 1 .. k, Name(j) = "DeleteFlowStepNodes"
          PROVE  FALSE
      <4>1. j \in 1 .. 22 /\ j # 14
        OBVIOUS
      <4> QED
        BY <1>2, <1>4, <3>1, <4>1
    <3> QED
      BY <3>1 DEF Past
  <2>3. /\ \A k \in 1 .. 22 : Name(k) = "DeleteFlowStepNodes" =>
               k = 14 /\ Past("CreateFlowStepNodes", k - 1)
        /\ \A k \in 1 .. 22 : Name(k) = "CreateFlowStepNodes" => k = 13
    BY <1>2, <1>4 DEF Past
  <2> QED
    BY <1>3, <1>4, <2>1, <2>2, <2>3 DEF Past

LEMMA PastThen ==
    ASSUME NEW k \in 1 .. 22
    PROVE  /\ \A n : Past(n, k) <=> Past(n, k - 1) \/ n = Name(k)
           /\ ~Past(Name(k), k - 1)
           /\ Name(k) = "DeleteFlowStepNodes" => Past("CreateFlowStepNodes", k - 1)
           /\ Name(k) = "CreateFlowStepNodes" => ~Past("DeleteFlowStepNodes", k)
<1>1. \A n : Past(n, k) <=> Past(n, k - 1) \/ n = Name(k)
  BY PastNext
<1>2. ~Past(Name(k), k - 1)
  BY PastSteps
<1>3. Name(k) = "DeleteFlowStepNodes" => Past("CreateFlowStepNodes", k - 1)
  BY PastSteps
<1>4. ASSUME Name(k) = "CreateFlowStepNodes"
      PROVE  ~Past("DeleteFlowStepNodes", k)
  <2>1. k = 13
    BY <1>4, PastSteps
  <2>2. ~Past("DeleteFlowStepNodes", 13)
    BY PastSteps
  <2> QED
    BY <2>1, <2>2
<1> QED
  BY <1>1, <1>2, <1>3, <1>4

\* In a run, of what does not go, titles, texts and nodes of o are those of the
\* branch if a step up to the k-th has carried them over, and what they were if
\* not.
Exact(o, k, T) ==
    /\ \A x \in Titled \cap Spared(T) :
           IF \/ x \in Items("UpdateNodesTitles") /\ Past("UpdateNodesTitles", k)
              \/ x \in Items("UpdateIoTitles") /\ Past("UpdateIoTitles", k)
           THEN Retold(x, o.title[x]) ELSE o.title[x] = was.title[x]
    /\ \A x \in Spared(T) :
           o.text[x] = was.text[x] \cup
               IF x \in Items("UpdateDescriptions") /\ Past("UpdateDescriptions", k)
               THEN src.text[x] ELSE {}
    /\ \A s \in Steps \cap Spared(T) :
           Of(o.nodes, s) =
               (Of(was.nodes, s) \cup
                    IF s \in GainingNodes /\ Past("CreateFlowStepNodes", k)
                    THEN Of(src.nodes, s) ELSE {})
               \ IF s \in LosingNodes /\ Past("DeleteFlowStepNodes", k)
                 THEN Of(row.nodes.deleted, s) ELSE {}

\* In an undo, what of it is not what it was is put back by a step up to the k-th:
\* as for nodes, the step that has read them last puts back what it has read, and
\* the one before what they were.  Nothing is said of the nodes of those lost.
Settled(o, kept, k, T, lost) ==
    /\ \A x \in Titled \cap Spared(T) :
           \/ WasNamed(x, o.title[x])
           \/ x \in WithTitle(Nodes) /\ Past("UpdateNodesTitles", k)
           \/ x \in Titling(WithTitle(Ios)) /\ Past("UpdateIoTitles", k)
    /\ \A x \in Spared(T) :
           was.text[x] # {} /\ o.text[x] # was.text[x] =>
               x \in row.description /\ src.text[x] # {} /\ Past("UpdateDescriptions", k)
    /\ \A s \in (Steps \cap Spared(T)) \ lost :
           /\ Of(o.nodes, s) # Of(was.nodes, s) =>
                  \E name \in NodeDeltas : s \in kept[name].steps /\ Past(name, k)
           /\ s \in kept["CreateFlowStepNodes"].steps =>
                  Of(kept["CreateFlowStepNodes"].pairs, s) = Of(was.nodes, s)
           /\ /\ s \in kept["DeleteFlowStepNodes"].steps /\ Past("DeleteFlowStepNodes", k)
              /\ Of(kept["DeleteFlowStepNodes"].pairs, s) # Of(was.nodes, s)
              => s \in kept["CreateFlowStepNodes"].steps

LEMMA ExactMore ==
    ASSUME NEW o, NEW k, NEW T, NEW U, T \subseteq U, Exact(o, k, T)
    PROVE  Exact(o, k, U)
<1>1. Spared(U) \subseteq Spared(T)
  BY DoomedMore DEF Spared
<1> QED
  BY <1>1 DEF Exact

LEMMA SettledMore ==
    ASSUME NEW o, NEW kept, NEW k, NEW T, NEW U, T \subseteq U,
           NEW lost, NEW more, lost \cap Steps \subseteq more, Settled(o, kept, k, T, lost)
    PROVE  Settled(o, kept, k, U, more)
<1>1. Spared(U) \subseteq Spared(T)
  BY DoomedMore DEF Spared
<1> QED
  BY <1>1 DEF Settled

LEMMA SameExact ==
    ASSUME row' = row, was' = was, src' = src
    PROVE  /\ \A o, k, T : Exact(o, k, T)' <=> Exact(o, k, T)
           /\ \A o, d, k, T, lost : Settled(o, d, k, T, lost)' <=> Settled(o, d, k, T, lost)
<1>1. \A T : Spared(T)' = Spared(T)
  BY SameGood DEF Spared
<1>2. /\ \A name : Items(name)' = Items(name)
      /\ GainingNodes' = GainingNodes /\ LosingNodes' = LosingNodes
  BY SameItems
<1>3. \A x, title : Retold(x, title)' <=> Retold(x, title)
  BY DEF Retold, Retitled
<1>4. ASSUME NEW o, NEW k, NEW T
      PROVE  Exact(o, k, T)' <=> Exact(o, k, T)
  <2> DEFINE S == Spared(T)
             given(x) == \/ x \in Items("UpdateNodesTitles") /\ Past("UpdateNodesTitles", k)
                         \/ x \in Items("UpdateIoTitles") /\ Past("UpdateIoTitles", k)
             written(x) == x \in Items("UpdateDescriptions") /\ Past("UpdateDescriptions", k)
             gained(s) == s \in GainingNodes /\ Past("CreateFlowStepNodes", k)
             lost(s) == s \in LosingNodes /\ Past("DeleteFlowStepNodes", k)
  <2>1. S' = S
    BY <1>1
  <2>2. /\ \A x : (given(x)' <=> given(x)) /\ (written(x)' <=> written(x))
        /\ \A s : (gained(s)' <=> gained(s)) /\ (lost(s)' <=> lost(s))
    BY <1>2
  <2>3. Exact(o, k, T) <=>
          /\ \A x \in Titled \cap S :
                 IF given(x) THEN Retold(x, o.title[x]) ELSE o.title[x] = was.title[x]
          /\ \A x \in S : o.text[x] = was.text[x] \cup IF written(x) THEN src.text[x] ELSE {}
          /\ \A s \in Steps \cap S :
                 Of(o.nodes, s) = (Of(was.nodes, s) \cup IF gained(s) THEN Of(src.nodes, s) ELSE {})
                                      \ IF lost(s) THEN Of(row.nodes.deleted, s) ELSE {}
    BY DEF Exact
  <2>4. Exact(o, k, T)' <=>
          /\ \A x \in Titled \cap S' :
                 IF given(x)' THEN Retold(x, o.title[x])' ELSE o.title[x] = was'.title[x]
          /\ \A x \in S' : o.text[x] = was'.text[x] \cup IF written(x)' THEN src'.text[x] ELSE {}
          /\ \A s \in Steps \cap S' :
                 Of(o.nodes, s) = (Of(was'.nodes, s) \cup IF gained(s)' THEN Of(src'.nodes, s) ELSE {})
                                      \ IF lost(s)' THEN Of(row'.nodes.deleted, s) ELSE {}
    BY DEF Exact
  <2> HIDE DEF S, given, written, gained, lost
  <2> QED
    BY <1>3, <2>1, <2>2, <2>3, <2>4
<1>5. \A S : WithTitle(S)' = WithTitle(S)
  BY DEF WithTitle
<1>6. Titling(WithTitle(Ios))' = Titling(WithTitle(Ios))
  BY <1>5 DEF Titling
<1>7. \A x, title : WasNamed(x, title)' <=> WasNamed(x, title)
  BY <1>5 DEF WasNamed
<1>8. \A o, d, k, T, lost : Settled(o, d, k, T, lost)' <=> Settled(o, d, k, T, lost)
  BY <1>1, <1>5, <1>6, <1>7 DEF Settled
<1> QED
  BY <1>4, <1>8

\* A merge begins with it.
LEMMA DataStart ==
    ASSUME NEW T
    PROVE  Exact(was, 0, T) /\ Settled(was, NoDeltas, 0, T, {})
<1>1. \A name : ~Past(name, 0)
  BY DEF Past
<1>2. Exact(was, 0, T)
  BY <1>1 DEF Exact
<1>3. \A name \in NodeDeltas : NoDeltas[name].steps = {}
  BY DEF NoDeltas, NodeDeltas, Deltas
<1>4. Settled(was, NoDeltas, 0, T, {})
  BY <1>1, <1>3 DEF Settled, NodeDeltas, WasNamed
<1> QED
  BY <1>2, <1>4

DataUndone ==
    /\ UndoItems("UpdateNodesTitles") = WithTitle(Nodes)
    /\ UndoItems("UpdateIoTitles") = Titling(WithTitle(Ios))
    /\ UndoItems("UpdateDescriptions") =
           {x \in row.description : src.text[x] # {} /\ was.text[x] # {}}
    /\ \A name \in NodeDeltas : UndoItems(name) = deltas[name].steps

LEMMA UndoDataItems ==
    DataUndone
BY DEF DataUndone, UndoItems, NodeDeltas, Deltas, WithText

\* Steps that have nothing to do or to undo.
LEMMA ExactOn ==
    ASSUME NEW o, NEW T, NEW k \in 0 .. 22, NEW m \in 0 .. 22, k <= m, Exact(o, k, T),
           \A j \in (k + 1) .. m : Items(Name(j)) = {}
    PROVE  Exact(o, m, T)
<1>1. \A name, x : x \in Items(name) => (Past(name, m) <=> Past(name, k))
  <2>1. ASSUME NEW name, NEW x, x \in Items(name), Past(name, m)
        PROVE  Past(name, k)
    <3>1. PICK j \in 1 .. m : Name(j) = name
      BY <2>1 DEF Past
    <3>2. j \notin (k + 1) .. m
      BY <2>1, <3>1
    <3>3. j \in 1 .. k
      BY <3>2
    <3> QED
      BY <3>1, <3>3 DEF Past
  <2> QED
    BY <2>1, PastMore
<1>2. /\ GainingNodes = Items("CreateFlowStepNodes") /\ LosingNodes = Items("DeleteFlowStepNodes")
  BY ItemsAre
<1> QED
  BY <1>1, <1>2 DEF Exact

LEMMA SettledOn ==
    ASSUME NEW o, NEW kept, NEW T, NEW lost, NEW k \in 0 .. 22, NEW m \in 0 .. 22, k <= m,
           Settled(o, kept, k, T, lost),
           \A j \in (k + 1) .. m : Name(j) \in NodeDeltas => kept[Name(j)].steps = {}
    PROVE  Settled(o, kept, m, T, lost)
<1>1. \A name : Past(name, k) => Past(name, m)
  BY PastMore
<1>2. ASSUME NEW s \in kept["DeleteFlowStepNodes"].steps, Past("DeleteFlowStepNodes", m)
      PROVE  Past("DeleteFlowStepNodes", k)
  <2>1. PICK j \in 1 .. m : Name(j) = "DeleteFlowStepNodes"
    BY <1>2 DEF Past
  <2>2. j \notin (k + 1) .. m
    BY <1>2, <2>1 DEF NodeDeltas
  <2>3. j \in 1 .. k
    BY <2>2
  <2> QED
    BY <2>1, <2>3 DEF Past
<1> QED
  BY <1>1, <1>2 DEF Settled

LEMMA SettledDown ==
    ASSUME NEW o, NEW T, NEW lost, NEW k \in 0 .. 22, NEW m \in 0 .. 22, m <= k,
           Settled(o, deltas, k, T, lost),
           \A j \in (m + 1) .. k : UndoItems(Name(j)) = {}
    PROVE  Settled(o, deltas, m, T, lost)
<1>1. \A name : Past(name, m) => Past(name, k)
  BY PastMore
<1>2. ASSUME NEW name, NEW x \in UndoItems(name), Past(name, k)
      PROVE  Past(name, m)
  <2>1. PICK j \in 1 .. k : Name(j) = name
    BY <1>2 DEF Past
  <2>2. j \notin (m + 1) .. k
    BY <2>1
  <2>3. j \in 1 .. m
    BY <2>2
  <2> QED
    BY <2>1, <2>3 DEF Past
<1>3. DataUndone
  BY UndoDataItems
<1> QED
  BY <1>1, <1>2, <1>3 DEF Settled, DataUndone

AllSteps == NodeSteps \cup FlowSteps \cup StepSteps \cup Deltas \cup IoSteps \cup DescriptionSteps

\* A step is carried over in full.
LEMMA ExactNext ==
    ASSUME Typed, NEW T, Own \cup Deletions \subseteq T, Good(orig, T), NEW k \in 1 .. 22,
           NEW name, name = Name(k), name \in AllSteps, NEW S, S \subseteq Items(name),
           name \in DataSteps => S = Losing(name, Items(name)),
           name = "DeleteNodes" => \A n \in Nodes \ Own : orig.above[n] = was.above[n],
           Exact(orig, k - 1, T), NEW v, v = Effect(name, S)
    PROVE  Exact(v, k, T)
<1>1. /\ \A n : Past(n, k) <=> Past(n, k - 1) \/ n = name
      /\ ~Past(name, k - 1)
      /\ name = "DeleteFlowStepNodes" => Past("CreateFlowStepNodes", k - 1)
      /\ name = "CreateFlowStepNodes" => ~Past("DeleteFlowStepNodes", k)
  BY PastThen
<1>2. /\ \A x \in Titled \cap Spared(T) :
             IF name \in TitleSteps /\ x \in S THEN Retold(x, v.title[x])
             ELSE v.title[x] = orig.title[x]
      /\ \A x \in Spared(T) :
             v.text[x] = orig.text[x] \cup
                 IF name = "UpdateDescriptions" /\ x \in S THEN src.text[x] ELSE {}
      /\ \A s \in Steps \cap Spared(T) :
             Of(v.nodes, s) = IF name \in NodeDeltas /\ s \in S THEN Of(Changed(name, S), s)
                              ELSE Of(orig.nodes, s)
  BY EffectData DEF AllSteps
<1>3. name \in DataSteps /\ name # "DeleteFlowStepNodes" => S = Items(name)
  <2>1. name # "DeleteFlowStepInputs" \/ name \notin DataSteps
    BY DEF DataSteps, TitleSteps, DescriptionSteps, NodeDeltas
  <2> QED
    BY <2>1 DEF Losing
<1>4. \A x \in Titled \cap Spared(T) :
         IF \/ x \in Items("UpdateNodesTitles") /\ Past("UpdateNodesTitles", k)
            \/ x \in Items("UpdateIoTitles") /\ Past("UpdateIoTitles", k)
         THEN Retold(x, v.title[x]) ELSE v.title[x] = was.title[x]
  <2>1. \A x \in Titled \cap Spared(T) :
           IF \/ x \in Items("UpdateNodesTitles") /\ Past("UpdateNodesTitles", k - 1)
              \/ x \in Items("UpdateIoTitles") /\ Past("UpdateIoTitles", k - 1)
           THEN Retold(x, orig.title[x]) ELSE orig.title[x] = was.title[x]
    BY DEF Exact
  <2>2. CASE name \in TitleSteps
    <3>1. S = Items(name)
      BY <1>3, <2>2 DEF DataSteps, TitleSteps
    <3> QED
      BY <1>1, <1>2, <2>1, <2>2, <3>1 DEF TitleSteps
  <2>3. CASE name \notin TitleSteps
    BY <1>1, <1>2, <2>1, <2>3 DEF TitleSteps
  <2> QED
    BY <2>2, <2>3
<1>5. \A x \in Spared(T) :
         v.text[x] = was.text[x] \cup
             IF x \in Items("UpdateDescriptions") /\ Past("UpdateDescriptions", k)
             THEN src.text[x] ELSE {}
  <2>1. \A x \in Spared(T) :
           orig.text[x] = was.text[x] \cup
               IF x \in Items("UpdateDescriptions") /\ Past("UpdateDescriptions", k - 1)
               THEN src.text[x] ELSE {}
    BY DEF Exact
  <2>2. CASE name = "UpdateDescriptions"
    <3>1. S = Items(name)
      BY <1>3, <2>2 DEF DataSteps, DescriptionSteps
    <3> QED
      BY <1>1, <1>2, <2>1, <2>2, <3>1
  <2>3. CASE name # "UpdateDescriptions"
    BY <1>1, <1>2, <2>1, <2>3
  <2> QED
    BY <2>2, <2>3
<1>6. ASSUME NEW s \in Steps \cap Spared(T)
      PROVE  Of(v.nodes, s) =
                 (Of(was.nodes, s) \cup
                      IF s \in GainingNodes /\ Past("CreateFlowStepNodes", k)
                      THEN Of(src.nodes, s) ELSE {})
                 \ IF s \in LosingNodes /\ Past("DeleteFlowStepNodes", k)
                   THEN Of(row.nodes.deleted, s) ELSE {}
  <2>1. Of(orig.nodes, s) =
            (Of(was.nodes, s) \cup
                 IF s \in GainingNodes /\ Past("CreateFlowStepNodes", k - 1)
                 THEN Of(src.nodes, s) ELSE {})
            \ IF s \in LosingNodes /\ Past("DeleteFlowStepNodes", k - 1)
              THEN Of(row.nodes.deleted, s) ELSE {}
    BY DEF Exact
  <2>2. orig \in Tables /\ row \in RowSet /\ was \in Tables
    BY DEF Good, Typed
  <2>3. CASE name = "CreateFlowStepNodes"
    <3>1. S = GainingNodes
      BY <1>3, <2>2, <2>3, ItemsIn DEF DataSteps, NodeDeltas
    <3>2. s \in S => Of(Changed(name, S), s) = Of(was.nodes, s) \cup Of(src.nodes, s)
      BY <2>2, <2>3, ChangedNodes DEF NodeDeltas
    <3> QED
      BY <1>1, <1>2, <2>1, <2>3, <3>1, <3>2 DEF NodeDeltas
  <2>4. CASE name = "DeleteFlowStepNodes"
    <3>1. S = {r \in LosingNodes : Of(row.nodes.deleted, r) \cap NodesRead(r) # {}}
      <4>1. Items(name) = LosingNodes
        BY <2>2, <2>4, ItemsIn
      <4> QED
        BY <2>4, <4>1 DEF DataSteps, NodeDeltas, Losing
    <3>2. s \in S => Of(Changed(name, S), s) = NodesRead(s) \ Of(row.nodes.deleted, s)
      BY <2>2, <2>4, ChangedNodes DEF NodeDeltas
    <3>3. NodesRead(s) = Of(orig.nodes, s)
      <4>1. GainingNodes \subseteq row.nodes.steps
        BY DEF GainingNodes, OriginalSteps, StepsKept
      <4>2. CASE s \in row.nodes.steps
        BY <4>2 DEF NodesRead
      <4>3. CASE s \notin row.nodes.steps
        BY <1>1, <2>1, <2>4, <4>1, <4>3 DEF NodesRead
      <4> QED
        BY <4>2, <4>3
    <3>4. Of(v.nodes, s) = IF s \in LosingNodes THEN Of(orig.nodes, s) \ Of(row.nodes.deleted, s)
                           ELSE Of(orig.nodes, s)
      <4>1. Of(v.nodes, s) = IF s \in S THEN Of(Changed(name, S), s) ELSE Of(orig.nodes, s)
        BY <1>2, <2>4 DEF NodeDeltas
      <4>2. CASE s \in S
        BY <3>1, <3>2, <3>3, <4>1, <4>2
      <4>3. CASE s \notin S
        <5>1. s \in LosingNodes => Of(orig.nodes, s) \cap Of(row.nodes.deleted, s) = {}
          BY <3>1, <3>3, <4>3
        <5> QED
          BY <4>1, <4>3, <5>1
      <4> QED
        BY <4>2, <4>3
    <3> QED
      BY <1>1, <2>1, <2>4, <3>4
  <2>5. CASE name \notin NodeDeltas
    BY <1>1, <1>2, <2>1, <2>5 DEF NodeDeltas
  <2> QED
    BY <2>3, <2>4, <2>5 DEF NodeDeltas
<1> QED
  BY <1>4, <1>5, <1>6 DEF Exact

\* A step is carried over, or any of its items are: those are lost whose delta
\* is not kept.
LEMMA SettledNext ==
    ASSUME Typed, NEW T, Own \cup Deletions \subseteq T, Good(orig, T), NEW k \in 1 .. 22,
           NEW name, name = Name(k), name \in AllSteps, NEW S, S \subseteq Items(name),
           name = "DeleteNodes" => \A n \in Nodes \ Own : orig.above[n] = was.above[n],
           NEW saved, saved \subseteq S, NEW kept,
           name \in NodeDeltas => kept[name] = [steps |-> saved, pairs |-> BeforeChange(name, saved)],
           \A n \in NodeDeltas \ {name} : kept[n] = deltas[n],
           Settled(orig, deltas, k - 1, T, {}), NEW v, v = Effect(name, S)
    PROVE  Settled(v, kept, k, T, S \ saved)
<1>1. /\ \A n : Past(n, k) <=> Past(n, k - 1) \/ n = name
      /\ ~Past(name, k - 1)
      /\ name = "DeleteFlowStepNodes" => ~Past("DeleteFlowStepNodes", k - 1)
      /\ name = "CreateFlowStepNodes" => ~Past("DeleteFlowStepNodes", k)
  BY PastThen
<1>2. /\ \A x \in Titled \cap Spared(T) :
             IF name \in TitleSteps /\ x \in S THEN Retold(x, v.title[x])
             ELSE v.title[x] = orig.title[x]
      /\ \A x \in Spared(T) :
             v.text[x] = orig.text[x] \cup
                 IF name = "UpdateDescriptions" /\ x \in S THEN src.text[x] ELSE {}
      /\ \A s \in Steps \cap Spared(T) :
             Of(v.nodes, s) = IF name \in NodeDeltas /\ s \in S THEN Of(Changed(name, S), s)
                              ELSE Of(orig.nodes, s)
  BY EffectData DEF AllSteps
<1>3. orig \in Tables /\ row \in RowSet /\ was \in Tables
  BY DEF Good, Typed
<1>4. ASSUME NEW x \in Titled \cap Spared(T), ~WasNamed(x, v.title[x])
      PROVE  \/ x \in WithTitle(Nodes) /\ Past("UpdateNodesTitles", k)
             \/ x \in Titling(WithTitle(Ios)) /\ Past("UpdateIoTitles", k)
  <2>1. CASE name \in TitleSteps /\ x \in S
    <3>1. /\ Items("UpdateNodesTitles") \subseteq WithTitle(Nodes)
          /\ Items("UpdateIoTitles") \subseteq Titling(WithTitle(Ios))
      BY ItemsAre, IosListed DEF Retitled, OriginalRecords, WithTitle
    <3> QED
      BY <1>1, <2>1, <3>1 DEF TitleSteps
  <2>2. CASE ~(name \in TitleSteps /\ x \in S)
    <3>1. ~WasNamed(x, orig.title[x])
      BY <1>2, <1>4, <2>2
    <3> QED
      BY <1>1, <3>1 DEF Settled
  <2> QED
    BY <2>1, <2>2
<1>5. ASSUME NEW x \in Spared(T), was.text[x] # {}, v.text[x] # was.text[x]
      PROVE  x \in row.description /\ src.text[x] # {} /\ Past("UpdateDescriptions", k)
  <2>1. CASE name = "UpdateDescriptions" /\ x \in S
    <3>1. Items("UpdateDescriptions") \subseteq {y \in row.description : src.text[y] # {}}
      BY ItemsAre DEF Redescribed
    <3> QED
      BY <1>1, <2>1, <3>1
  <2>2. CASE ~(name = "UpdateDescriptions" /\ x \in S)
    <3>1. orig.text[x] # was.text[x]
      BY <1>2, <1>5, <2>2, ZenonT(60)
    <3> QED
      BY <1>1, <1>5, <3>1 DEF Settled
  <2> QED
    BY <2>1, <2>2
<1>6. ASSUME NEW s \in (Steps \cap Spared(T)) \ (S \ saved), Of(v.nodes, s) # Of(was.nodes, s)
      PROVE  \E n \in NodeDeltas : s \in kept[n].steps /\ Past(n, k)
  <2>1. CASE name \in NodeDeltas /\ s \in S
    BY <1>1, <2>1
  <2>2. CASE ~(name \in NodeDeltas /\ s \in S)
    <3>1. Of(orig.nodes, s) # Of(was.nodes, s)
      BY <1>2, <1>6, <2>2
    <3>2. PICK n \in NodeDeltas : s \in deltas[n].steps /\ Past(n, k - 1)
      BY <3>1 DEF Settled
    <3>3. n # name
      BY <1>1, <3>2
    <3> QED
      BY <1>1, <3>2, <3>3
  <2> QED
    BY <2>1, <2>2
<1>7. ASSUME NEW s \in (Steps \cap Spared(T)) \ (S \ saved), s \in kept["CreateFlowStepNodes"].steps
      PROVE  Of(kept["CreateFlowStepNodes"].pairs, s) = Of(was.nodes, s)
  <2>1. CASE name = "CreateFlowStepNodes"
    <3>1. kept[name] = [steps |-> saved, pairs |-> BeforeChange(name, saved)] /\ name \in NodeDeltas
      BY <2>1 DEF NodeDeltas
    <3>2. s \in saved /\ saved \subseteq Items(name)
      BY <1>7, <2>1, <3>1
    <3> QED
      BY <1>3, <2>1, <3>1, <3>2, ChangedNodes
  <2>2. CASE name # "CreateFlowStepNodes"
    <3>1. kept["CreateFlowStepNodes"] = deltas["CreateFlowStepNodes"]
      BY <2>2 DEF NodeDeltas
    <3> QED
      BY <1>7, <3>1 DEF Settled
  <2> QED
    BY <2>1, <2>2
<1>8. ASSUME NEW s \in (Steps \cap Spared(T)) \ (S \ saved), s \in kept["DeleteFlowStepNodes"].steps,
             Past("DeleteFlowStepNodes", k),
             Of(kept["DeleteFlowStepNodes"].pairs, s) # Of(was.nodes, s)
      PROVE  s \in kept["CreateFlowStepNodes"].steps
  <2>1. name # "CreateFlowStepNodes"
    BY <1>1, <1>8
  <2>2. kept["CreateFlowStepNodes"] = deltas["CreateFlowStepNodes"]
    BY <2>1 DEF NodeDeltas
  <2>3. CASE name = "DeleteFlowStepNodes"
    <3>1. kept[name] = [steps |-> saved, pairs |-> BeforeChange(name, saved)] /\ name \in NodeDeltas
      BY <2>3 DEF NodeDeltas
    <3>2. s \in saved /\ saved \subseteq Items(name)
      BY <1>8, <2>3, <3>1
    <3>3. NodesRead(s) # Of(was.nodes, s)
      BY <1>3, <1>8, <2>3, <3>1, <3>2, ChangedNodes
    <3>4. Of(orig.nodes, s) # Of(was.nodes, s)
      BY <3>3 DEF NodesRead
    <3>5. PICK n \in NodeDeltas : s \in deltas[n].steps /\ Past(n, k - 1)
      BY <3>4 DEF Settled
    <3>6. n = "CreateFlowStepNodes"
      BY <1>1, <2>3, <3>5 DEF NodeDeltas
    <3> QED
      BY <2>2, <3>5, <3>6
  <2>4. CASE name # "DeleteFlowStepNodes"
    <3>1. kept["DeleteFlowStepNodes"] = deltas["DeleteFlowStepNodes"]
      BY <2>4 DEF NodeDeltas
    <3> QED
      BY <1>1, <1>8, <2>2, <2>4, <3>1 DEF Settled
  <2> QED
    BY <2>3, <2>4
<1> QED
  BY <1>4, <1>5, <1>6, <1>7, <1>8 DEF Settled

\* A step is undone in full.
LEMMA SettledBack ==
    ASSUME Typed, NEW T, Own \cup Deletions \cup Astray \subseteq T, Good(orig, T),
           Remembered(deltas, T), NEW k \in 1 .. 22,
           NEW name, name = Name(k), name \in AllSteps, NEW S, S \subseteq UndoItems(name),
           name \in DataSteps => S = UndoItems(name),
           NEW lost, Settled(orig, deltas, k, T, lost), NEW v, v = UndoEffect(name, S)
    PROVE  Settled(v, deltas, k - 1, T, lost)
<1>1. /\ \A n : Past(n, k) <=> Past(n, k - 1) \/ n = name
      /\ name = "DeleteFlowStepNodes" => Past("CreateFlowStepNodes", k - 1)
  BY PastThen
<1>2. /\ \A x \in Titled \cap Spared(T) :
             IF name \in TitleSteps /\ x \in S THEN WasNamed(x, v.title[x])
             ELSE v.title[x] = orig.title[x]
      /\ \A x \in Spared(T) :
             v.text[x] = IF name \in DescriptionSteps /\ x \in S THEN was.text[x] ELSE orig.text[x]
      /\ \A s \in Steps \cap Spared(T) :
             Of(v.nodes, s) = IF name \in NodeDeltas /\ s \in S THEN Of(deltas[name].pairs, s)
                              ELSE Of(orig.nodes, s)
  BY UndoData DEF AllSteps
<1>3. DataUndone
  BY UndoDataItems
<1>4. ASSUME NEW x \in Titled \cap Spared(T), ~WasNamed(x, v.title[x])
      PROVE  \/ x \in WithTitle(Nodes) /\ Past("UpdateNodesTitles", k - 1)
             \/ x \in Titling(WithTitle(Ios)) /\ Past("UpdateIoTitles", k - 1)
  <2>1. ~(name \in TitleSteps /\ x \in S) /\ ~WasNamed(x, orig.title[x])
    BY <1>2, <1>4
  <2>2. \/ x \in WithTitle(Nodes) /\ Past("UpdateNodesTitles", k)
        \/ x \in Titling(WithTitle(Ios)) /\ Past("UpdateIoTitles", k)
    BY <2>1 DEF Settled
  <2>3. /\ name = "UpdateNodesTitles" => x \notin WithTitle(Nodes)
        /\ name = "UpdateIoTitles" => x \notin Titling(WithTitle(Ios))
    BY <1>3, <2>1 DEF DataUndone, DataSteps, TitleSteps
  <2> QED
    BY <1>1, <2>2, <2>3
<1>5. ASSUME NEW x \in Spared(T), was.text[x] # {}, v.text[x] # was.text[x]
      PROVE  x \in row.description /\ src.text[x] # {} /\ Past("UpdateDescriptions", k - 1)
  <2>1. ~(name \in DescriptionSteps /\ x \in S) /\ orig.text[x] # was.text[x]
    BY <1>2, <1>5
  <2>2. x \in row.description /\ src.text[x] # {} /\ Past("UpdateDescriptions", k)
    BY <1>5, <2>1 DEF Settled
  <2>3. name # "UpdateDescriptions"
    BY <1>3, <1>5, <2>1, <2>2 DEF DataUndone, DataSteps, DescriptionSteps
  <2> QED
    BY <1>1, <2>2, <2>3
<1>6. ASSUME NEW s \in (Steps \cap Spared(T)) \ lost, Of(v.nodes, s) # Of(was.nodes, s)
      PROVE  \E n \in NodeDeltas : s \in deltas[n].steps /\ Past(n, k - 1)
  <2>1. CASE name \in NodeDeltas /\ s \in S
    <3>1. Of(deltas[name].pairs, s) # Of(was.nodes, s)
      BY <1>2, <1>6, <2>1
    <3>2. s \in deltas[name].steps
      BY <1>3, <2>1 DEF DataUndone
    <3>3. name = "DeleteFlowStepNodes"
      <4>1. name # "CreateFlowStepNodes"
        BY <3>1, <3>2 DEF Settled
      <4> QED
        BY <2>1, <4>1 DEF NodeDeltas
    <3>4. Past("DeleteFlowStepNodes", k)
      BY <1>1, <3>3
    <3>5. s \in deltas["CreateFlowStepNodes"].steps
      BY <3>1, <3>2, <3>3, <3>4 DEF Settled
    <3> QED
      BY <1>1, <3>3, <3>5 DEF NodeDeltas
  <2>2. CASE ~(name \in NodeDeltas /\ s \in S)
    <3>1. Of(orig.nodes, s) # Of(was.nodes, s)
      BY <1>2, <1>6, <2>2
    <3>2. PICK n \in NodeDeltas : s \in deltas[n].steps /\ Past(n, k)
      BY <3>1 DEF Settled
    <3>3. n # name
      BY <1>3, <2>2, <3>2 DEF DataUndone, DataSteps
    <3> QED
      BY <1>1, <3>2, <3>3
  <2> QED
    BY <2>1, <2>2
<1>7. \A s \in (Steps \cap Spared(T)) \ lost :
         /\ s \in deltas["CreateFlowStepNodes"].steps =>
                Of(deltas["CreateFlowStepNodes"].pairs, s) = Of(was.nodes, s)
         /\ /\ s \in deltas["DeleteFlowStepNodes"].steps /\ Past("DeleteFlowStepNodes", k - 1)
            /\ Of(deltas["DeleteFlowStepNodes"].pairs, s) # Of(was.nodes, s)
            => s \in deltas["CreateFlowStepNodes"].steps
  BY <1>1 DEF Settled
<1> QED
  BY <1>4, <1>5, <1>6, <1>7 DEF Settled

-----------------------------------------------------------------------------
(* What holds in the middle of a merge, and of its undo.                   *)

DataIInv ==
    /\ mode = "run" =>
           Exact(orig, step - 1, Taken) /\ Settled(orig, deltas, step - 1, Taken, {})
    /\ mode = "merged" => Exact(orig, 22, Taken)
    /\ mode \in {"undo", "recovered"} /\ ~fromLog =>
           \E lost \in Steps \cup {None} : Settled(orig, deltas, step, Taken, {lost})
    /\ mode = "recovered" => step = Start

LEMMA DataNow ==
    ASSUME row' = row, was' = was, src' = src, ~Undoing \/ Undoing'
    PROVE  /\ Exact(orig', step' - 1, Taken) => Exact(orig, step - 1, Taken)'
           /\ Exact(orig', 22, Taken) => Exact(orig, 22, Taken)'
           /\ \A lost : Settled(orig', deltas', step' - 1, Taken, lost) =>
                            Settled(orig, deltas, step - 1, Taken, lost)'
           /\ \A lost : Settled(orig', deltas', step', Taken, lost) =>
                            Settled(orig, deltas, step, Taken, lost)'
<1>1. Taken \subseteq Taken'
  BY TakenThen
<1>2. /\ \A k : Exact(orig', k, Taken) => Exact(orig', k, Taken')
      /\ \A k, lost : Settled(orig', deltas', k, Taken, lost) =>
                           Settled(orig', deltas', k, Taken', lost)
  BY <1>1, ExactMore, SettledMore
<1>3. /\ \A o, k, T : Exact(o, k, T)' <=> Exact(o, k, T)
      /\ \A o, d, k, T, lost : Settled(o, d, k, T, lost)' <=> Settled(o, d, k, T, lost)
  BY SameExact
<1> QED
  BY <1>2, <1>3

LEMMA DataBegins ==
    mode = "run" /\ step = 1 /\ orig = was /\ deltas = NoDeltas => DataIInv
BY DataStart DEF DataIInv

\* Items of a step are carried over.
LEMMA DataCarried ==
    ASSUME MergeIInv, DataIInv, mode = "run", step # Finish, NEW S, S \subseteq Items(Name(step)),
           NEW saved, saved \subseteq S, Carry(S, saved)
    PROVE  /\ step \in 1 .. 22 /\ Settled(orig', deltas', step, Taken, S \ saved)
           /\ \A n \in NodeDeltas \ {Name(step)} : deltas'[n] = deltas[n]
           /\ (Name(step) \in DataSteps => S = Losing(Name(step), Items(Name(step)))) =>
                  Exact(orig', step, Taken)
<1> DEFINE name == Name(step)
<1>1. /\ row' = row /\ was' = was /\ src' = src /\ ~Undoing
      /\ orig' = Effect(name, S)
      /\ deltas' = IF name \in Deltas
                   THEN [deltas EXCEPT ![name] =
                            [steps |-> saved, pairs |-> BeforeChange(name, saved)]]
                   ELSE deltas
  BY DEF Carry, Undoing
<1>2. /\ Typed /\ Good(orig, Taken) /\ deltas \in [Deltas -> DeltaSet]
      /\ step \in 1 .. 22 /\ Start = 0 /\ Finish = 23
  BY StepNames DEF MergeIInv, TypeOK, Typed, Stepping, DeltaSet, Start
<1>3. name \in AllSteps
  BY <1>2, StepNames DEF AllSteps
<1>4. name = "DeleteNodes" => \A n \in Nodes \ Own : orig.above[n] = was.above[n]
  <2>1. name = "DeleteNodes" => step <= 3
    BY <1>2, StepNames
  <2> QED
    BY <2>1 DEF MergeIInv, Stepping
<1>5. Own \cup Deletions \subseteq Taken
  BY <1>1, TakenThen
<1>6. Exact(orig, step - 1, Taken) /\ Settled(orig, deltas, step - 1, Taken, {})
  BY DEF DataIInv
<1>7. NodeDeltas \subseteq Deltas
  BY DEF NodeDeltas, Deltas
<1>8. /\ name \in NodeDeltas =>
             deltas'[name] = [steps |-> saved, pairs |-> BeforeChange(name, saved)]
      /\ \A n \in NodeDeltas \ {name} : deltas'[n] = deltas[n]
  BY <1>1, <1>2, <1>7
<1>9. S \subseteq Items(name) /\ saved \subseteq S
  OBVIOUS
<1>10. name = Name(step)
  OBVIOUS
<1> HIDE DEF name
<1>11. Settled(orig', deltas', step, Taken, S \ saved)
  <2>1. PICK kept : kept = deltas'
    OBVIOUS
  <2>2. /\ name \in NodeDeltas =>
               kept[name] = [steps |-> saved, pairs |-> BeforeChange(name, saved)]
        /\ \A n \in NodeDeltas \ {name} : kept[n] = deltas[n]
    BY <1>8, <2>1
  <2>3. Settled(orig', kept, step, Taken, S \ saved)
    BY <1>1, <1>2, <1>3, <1>4, <1>5, <1>6, <1>9, <1>10, <2>2, SettledNext
  <2> QED
    BY <2>1, <2>3
<1>12. ASSUME name \in DataSteps => S = Losing(name, Items(name))
       PROVE  Exact(orig', step, Taken)
  BY <1>1, <1>2, <1>3, <1>4, <1>5, <1>6, <1>9, <1>10, <1>12, ExactNext
<1> QED
  BY <1>2, <1>8, <1>10, <1>11, <1>12

\* A step that is carried over, in full where it is one of data.
LEMMA DataGoesOn ==
    ASSUME MergeIInv, DataIInv, mode = "run", step # Finish, NEW S, S \subseteq Items(Name(step)),
           Name(step) \in DataSteps => S = Losing(Name(step), Items(Name(step))), Carry(S, S),
           mode' = "run", step' = NextStep(step)
    PROVE  DataIInv'
<1>1. row' = row /\ was' = was /\ src' = src /\ ~Undoing
  BY DEF Carry, Undoing
<1>2. /\ step \in 1 .. 22 /\ Settled(orig', deltas', step, Taken, {}) /\ Exact(orig', step, Taken)
      /\ \A n \in NodeDeltas \ {Name(step)} : deltas'[n] = deltas[n]
  <2>1. S \ S = {}
    OBVIOUS
  <2>2. Settled(orig', deltas', step, Taken, S \ S)
    BY DataCarried
  <2> QED
    BY <2>1, <2>2, DataCarried
<1>3. /\ step' \in (step + 1) .. 23
      /\ \A j \in (step + 1) .. (step' - 1) : Items(Name(j)) = {} /\ UndoItems(Name(j)) = {}
  <2>1. step \in Start .. Finish /\ Finish = 23
    BY <1>2 DEF Start, Finish, MergeSteps
  <2> QED
    BY <2>1, StepsFound DEF Busy
<1>4. step \in 0 .. 22 /\ step' - 1 \in 0 .. 22 /\ step <= step' - 1
  BY <1>2, <1>3
<1>5. Exact(orig', step' - 1, Taken)
  BY <1>2, <1>3, <1>4, ExactOn
<1>6. ASSUME NEW j \in (step + 1) .. (step' - 1), Name(j) \in NodeDeltas
      PROVE  deltas'[Name(j)].steps = {}
  <2>1. j \in 1 .. 22 /\ j # step
    BY <1>2, <1>3
  <2>2. Name(j) # Name(step)
    BY <1>2, <2>1, PastSteps
  <2>3. deltas[Name(j)].steps = {}
    BY <1>3, <1>6, UndoDataItems DEF DataUndone
  <2> QED
    BY <1>2, <1>6, <2>2, <2>3
<1>7. Settled(orig', deltas', step' - 1, Taken, {})
  <2>1. PICK kept : kept = deltas'
    OBVIOUS
  <2>2. /\ Settled(orig', kept, step, Taken, {})
        /\ \A j \in (step + 1) .. (step' - 1) : Name(j) \in NodeDeltas => kept[Name(j)].steps = {}
    BY <1>2, <1>6, <2>1
  <2>3. Settled(orig', kept, step' - 1, Taken, {})
    BY <1>4, <2>2, SettledOn
  <2> QED
    BY <2>1, <2>3
<1>8. Exact(orig, step - 1, Taken)' /\ Settled(orig, deltas, step - 1, Taken, {})'
  BY <1>1, <1>5, <1>7, DataNow
<1> QED
  BY <1>8 DEF DataIInv

\* A step that is carried over in part, and the merge ends.
LEMMA DataStops ==
    ASSUME MergeIInv, DataIInv, mode = "run", step # Finish, NEW S, S \subseteq Items(Name(step)),
           NEW last, Carry(S, S \ {last}), mode' \in {"undo", "dead"}, step' = step
    PROVE  DataIInv'
<1>1. row' = row /\ was' = was /\ src' = src /\ ~Undoing
  BY DEF Carry, Undoing
<1> DEFINE lost == IF last \in Steps THEN last ELSE None
<1>2. Settled(orig', deltas', step', Taken, {lost})
  <2> DEFINE saved == S \ {last}
  <2>1. saved \subseteq S /\ Carry(S, saved)
    OBVIOUS
  <2>2. (S \ saved) \cap Steps \subseteq {lost}
    OBVIOUS
  <2> HIDE DEF saved, lost
  <2>3. Settled(orig', deltas', step', Taken, S \ saved)
    BY <2>1, DataCarried
  <2> QED
    BY <2>2, <2>3, SettledMore
<1>3. lost \in Steps \cup {None}
  OBVIOUS
<1> HIDE DEF lost
<1>4. Settled(orig, deltas, step, Taken, {lost})'
  BY <1>1, <1>2, DataNow
<1> QED
  BY <1>3, <1>4 DEF DataIInv

\* A step that is carried back, in full where it is one of data.
LEMMA DataGoesBack ==
    ASSUME MergeIInv, DataIInv, mode = "undo", step # Start, NEW S,
           S \subseteq UndoItems(Name(step)),
           Name(step) \in DataSteps => S = UndoItems(Name(step)),
           CarryBack(S), mode' = "undo", step' = LastStep(step)
    PROVE  DataIInv'
<1> DEFINE name == Name(step)
<1>1. /\ row' = row /\ was' = was /\ src' = src /\ fromLog' = fromLog /\ deltas' = deltas
      /\ orig' = UndoEffect(name, S) /\ Undoing /\ Undoing'
  BY DEF CarryBack, Undoing
<1>2. /\ Typed /\ Good(orig, Taken) /\ Remembered(deltas, Taken)
      /\ step \in 1 .. 22 /\ Start = 0 /\ Finish = 23
  BY StepNames DEF MergeIInv, TypeOK, Typed, Stepping, Start
<1>3. name \in AllSteps
  BY <1>2, StepNames DEF AllSteps
<1>4. Own \cup Deletions \cup Astray \subseteq Taken
  BY <1>1, TakenThen
<1>5. ASSUME ~fromLog
      PROVE  \E lost \in Steps \cup {None} : Settled(orig, deltas, step, Taken, {lost})
  BY <1>5 DEF DataIInv
<1>6. /\ step' \in 0 .. (step - 1)
      /\ \A j \in (step' + 1) .. (step - 1) : UndoItems(Name(j)) = {}
  <2>1. step \in Start .. Finish
    BY <1>2
  <2> QED
    BY <1>2, <2>1, StepsFound DEF Busy
<1>7. /\ S \subseteq UndoItems(name) /\ (name \in DataSteps => S = UndoItems(name))
      /\ name = Name(step)
  OBVIOUS
<1> HIDE DEF name
<1>8. ASSUME NEW lost, Settled(orig, deltas, step, Taken, {lost})
      PROVE  Settled(orig', deltas, step - 1, Taken, {lost})
  BY <1>1, <1>2, <1>3, <1>4, <1>7, <1>8, SettledBack
<1>9. ASSUME NEW lost, Settled(orig, deltas, step, Taken, {lost})
      PROVE  Settled(orig', deltas, step', Taken, {lost})
  <2>1. step' \in 0 .. 22 /\ step - 1 \in 0 .. 22 /\ step' <= step - 1
    BY <1>2, <1>6
  <2> QED
    BY <1>6, <1>8, <1>9, <2>1, SettledDown
<1>10. ASSUME ~fromLog
       PROVE  \E lost \in Steps \cup {None} : Settled(orig, deltas, step, Taken, {lost})'
  <2>1. PICK lost \in Steps \cup {None} : Settled(orig, deltas, step, Taken, {lost})
    BY <1>5, <1>10
  <2>2. Settled(orig', deltas', step', Taken, {lost})
    BY <1>1, <1>9, <2>1
  <2>3. Settled(orig, deltas, step, Taken, {lost})'
    BY <1>1, <2>2, DataNow
  <2> QED
    BY <2>3
<1> QED
  BY <1>1, <1>10 DEF DataIInv

\* Rows and tables stay.
LEMMA DataStays ==
    ASSUME MergeIInv, DataIInv, UNCHANGED <<orig, row, was, src, fromLog>>, mode # "open",
           \/ mode' = mode /\ step' = step /\ deltas' = deltas
           \/ mode = "run" /\ step = Finish /\ mode' = "merged"
           \/ mode = "run" /\ step = Finish /\ mode' \in {"undo", "dead"} /\ step' = LastStep(step)
              /\ deltas' = deltas
           \/ mode = "undo" /\ step = Start /\ mode' = "recovered" /\ step' = step
              /\ deltas' = deltas
    PROVE  DataIInv'
<1>1. /\ row' = row /\ was' = was /\ src' = src /\ orig' = orig /\ fromLog' = fromLog
      /\ ~Undoing \/ Undoing'
  BY DEF Undoing
<1>2. ASSUME step' = step, deltas' = deltas,
             \E lost \in Steps \cup {None} : Settled(orig, deltas, step, Taken, {lost})
      PROVE  \E lost \in Steps \cup {None} : Settled(orig, deltas, step, Taken, {lost})'
  <2>1. PICK lost \in Steps \cup {None} : Settled(orig, deltas, step, Taken, {lost})
    BY <1>2
  <2>2. Settled(orig', deltas', step', Taken, {lost})
    BY <1>1, <1>2, <2>1
  <2>3. Settled(orig, deltas, step, Taken, {lost})'
    BY <1>1, <2>2, DataNow
  <2> QED
    BY <2>3
<1>3. CASE mode' = mode /\ step' = step /\ deltas' = deltas
  <2>1. CASE mode = "run" \/ mode = "merged"
    BY <1>1, <1>3, <2>1, DataNow DEF DataIInv
  <2>2. CASE mode \in {"undo", "recovered"}
    <3>1. ~fromLog => \E lost \in Steps \cup {None} : Settled(orig, deltas, step, Taken, {lost})
      BY <2>2 DEF DataIInv
    <3>2. ~fromLog' =>
              \E lost \in Steps \cup {None} : Settled(orig, deltas, step, Taken, {lost})'
      BY <1>1, <1>2, <1>3, <3>1, SMTT(30)
    <3> QED
      BY <1>3, <2>2, <3>2 DEF DataIInv
  <2> QED
    BY <1>3, <2>1, <2>2 DEF DataIInv
<1>4. CASE mode = "run" /\ step = Finish /\ mode' = "merged"
  <2>1. step - 1 = 22
    BY <1>4 DEF Finish, MergeSteps
  <2>2. Exact(orig', 22, Taken)
    BY <1>1, <1>4, <2>1 DEF DataIInv
  <2> QED
    BY <1>1, <1>4, <2>2, DataNow DEF DataIInv
<1>5. CASE /\ mode = "run" /\ step = Finish /\ mode' \in {"undo", "dead"} /\ step' = LastStep(step)
           /\ deltas' = deltas
  <2>1. Finish = 23 /\ Start = 0
    BY DEF Finish, MergeSteps, Start
  <2>2. /\ step' \in 0 .. 22
        /\ \A j \in (step' + 1) .. 22 : UndoItems(Name(j)) = {}
    BY <1>5, <2>1, StepsFound DEF Busy
  <2>3. Settled(orig, deltas, 22, Taken, {})
    BY <1>5, <2>1 DEF DataIInv
  <2>4. Settled(orig, deltas, step', Taken, {None})
    <3>1. step' <= 22 /\ 22 \in 0 .. 22
      BY <2>2
    <3>2. Settled(orig, deltas, step', Taken, {})
      BY <2>2, <2>3, <3>1, SettledDown
    <3> QED
      BY <3>2, SettledMore
  <2>5. Settled(orig, deltas, step, Taken, {None})'
    BY <1>1, <1>5, <2>4, DataNow
  <2> QED
    BY <1>5, <2>5 DEF DataIInv
<1>6. CASE /\ mode = "undo" /\ step = Start /\ mode' = "recovered" /\ step' = step
           /\ deltas' = deltas
  <2>1. ~fromLog => \E lost \in Steps \cup {None} : Settled(orig, deltas, step, Taken, {lost})
    BY <1>6 DEF DataIInv
  <2>2. step' = step /\ deltas' = deltas /\ step' = Start /\ mode' = "recovered"
    BY <1>6
  <2>3. ASSUME ~fromLog'
        PROVE  \E lost \in Steps \cup {None} : Settled(orig, deltas, step, Taken, {lost})'
    <3>1. ~fromLog
      BY <1>1, <2>3
    <3>2. \E lost \in Steps \cup {None} : Settled(orig, deltas, step, Taken, {lost})
      BY <2>1, <3>1
    <3> QED
      BY <1>2, <2>2, <3>2
  <2> QED
    BY <2>2, <2>3 DEF DataIInv, Start
<1> QED
  BY <1>3, <1>4, <1>5, <1>6

LEMMA DataNext ==
    ASSUME MergeIInv, DataIInv, [Next]_vars
    PROVE  DataIInv'
<1>1. \A name, S : Losing(name, S) \subseteq S
  BY DEF Losing
<1>2. CASE EditBranch \/ EditOriginal
  <2>1. mode' = "open"
    BY <1>2 DEF EditBranch, EditOriginal
  <2> QED
    BY <2>1 DEF DataIInv
<1>3. CASE StartMerge
  <2>1. mode' = "run" /\ step' = 1 /\ was' = orig /\ deltas' = NoDeltas /\ orig' = orig
    BY <1>3 DEF StartMerge, Start
  <2>2. (mode = "run" /\ step = 1 /\ orig = was /\ deltas = NoDeltas => DataIInv)'
    BY DataBegins, PTL
  <2>3. NoDeltas' = NoDeltas
    OBVIOUS
  <2> QED
    BY <2>1, <2>2, <2>3
<1>4. CASE Execute
  <2>1. mode = "run" /\ step # Finish /\ mode' = "run" /\ step' = NextStep(step)
    BY <1>4 DEF Execute
  <2> DEFINE S == Losing(Name(step), Items(Name(step)))
  <2>2. Carry(S, S) /\ S \subseteq Items(Name(step)) /\ S = Losing(Name(step), Items(Name(step)))
    BY <1>1, <1>4 DEF Execute
  <2> HIDE DEF S
  <2> QED
    BY <2>1, <2>2, DataGoesOn
<1>5. CASE GetStuck \/ FailExecute
  <2>1. mode = "run" /\ step # Finish /\ mode' \in {"undo", "dead"} /\ step' = step
    BY <1>5 DEF GetStuck, FailExecute
  <2>2. PICK S \in Portions(Name(step)) : Carry(S, S) \/ \E last : Carry(S, S \ {last})
    BY <1>5 DEF GetStuck, FailExecute
  <2>3. S \subseteq Items(Name(step))
    BY <1>1, <2>2 DEF Portions
  <2>4. \E last : Carry(S, S \ {last})
    <3>1. PICK last : last \notin S
      BY NoSetContainsEverything
    <3>2. S \ {last} = S
      BY <3>1
    <3> QED
      BY <2>2, <3>2
  <2> QED
    BY <2>1, <2>3, <2>4, DataStops
<1>6. CASE FinishMerge \/ FailFinish
  <2>1. UNCHANGED <<orig, row, was, src, fromLog>>
    BY <1>6 DEF FinishMerge, FailFinish
  <2>2. mode = "run" /\ step = Finish
    BY <1>6 DEF FinishMerge, FailFinish
  <2>3. \/ mode' = "merged"
        \/ mode' \in {"undo", "dead"} /\ step' = LastStep(step) /\ deltas' = deltas
    BY <1>6 DEF FinishMerge, FailFinish
  <2> QED
    BY <2>1, <2>2, <2>3, DataStays
<1>7. CASE Undo
  <2>1. mode = "undo" /\ step # Start /\ mode' = "undo" /\ step' = LastStep(step)
        /\ CarryBack(UndoItems(Name(step)))
    BY <1>7 DEF Undo
  <2> DEFINE S == UndoItems(Name(step))
  <2>2. CarryBack(S) /\ S \subseteq UndoItems(Name(step)) /\ S = UndoItems(Name(step))
    BY <2>1
  <2> HIDE DEF S
  <2> QED
    BY <2>1, <2>2, DataGoesBack
<1>8. CASE FailMove
  <2>1. mode = "run" /\ Name(step) = "ReorderNodes" /\ mode' = "run" /\ step' = NextStep(step)
    BY <1>8 DEF FailMove
  <2>2. PICK n \in Items("ReorderNodes") :
            Carry(Items("ReorderNodes") \ {n}, Items("ReorderNodes") \ {n})
    BY <1>8 DEF FailMove
  <2>3. step # Finish
    BY <2>1 DEF Name, Finish, MergeSteps
  <2> DEFINE S == Items("ReorderNodes") \ {n}
  <2>4. Carry(S, S) /\ S \subseteq Items(Name(step))
    BY <2>1, <2>2
  <2>5. Name(step) \notin DataSteps
    BY <2>1 DEF DataSteps, TitleSteps, DescriptionSteps, NodeDeltas
  <2> HIDE DEF S
  <2> QED
    BY <2>1, <2>3, <2>4, <2>5, DataGoesOn
<1>9. CASE FailMoveBack
  <2>1. /\ mode = "undo" /\ step # Start /\ Name(step) = "ReorderNodes" /\ mode' = "undo"
        /\ step' = LastStep(step)
    BY <1>9 DEF FailMoveBack
  <2>2. PICK n \in UndoItems("ReorderNodes") : CarryBack(UndoItems("ReorderNodes") \ {n})
    BY <1>9 DEF FailMoveBack
  <2> DEFINE S == UndoItems("ReorderNodes") \ {n}
  <2>3. CarryBack(S) /\ S \subseteq UndoItems(Name(step))
    BY <2>1, <2>2
  <2>4. Name(step) \notin DataSteps
    BY <2>1 DEF DataSteps, TitleSteps, DescriptionSteps, NodeDeltas
  <2> HIDE DEF S
  <2> QED
    BY <2>1, <2>3, <2>4, DataGoesBack
<1>10. CASE GetStuckUndoing \/ FailUndo
  <2>1. mode' \in {"failed", "dead"}
    BY <1>10 DEF GetStuckUndoing, FailUndo
  <2> QED
    BY <2>1 DEF DataIInv
<1>11. CASE Recover
  <2>1. mode' = "undo" /\ fromLog' = TRUE
    BY <1>11 DEF Recover
  <2> QED
    BY <2>1 DEF DataIInv
<1>12. CASE RolledBack
  <2>1. /\ UNCHANGED <<orig, row, was, src, fromLog>>
        /\ mode = "undo" /\ step = Start /\ mode' = "recovered" /\ step' = step
        /\ deltas' = deltas
    BY <1>12 DEF RolledBack
  <2> QED
    BY <2>1, DataStays
<1>13. CASE UNCHANGED vars
  <2>1. /\ UNCHANGED <<orig, row, was, src, fromLog>>
        /\ mode' = mode /\ step' = step /\ deltas' = deltas
    BY <1>13 DEF vars
  <2>2. CASE mode = "open"
    BY <2>1, <2>2 DEF DataIInv
  <2>3. CASE mode # "open"
    BY <2>1, <2>3, DataStays
  <2> QED
    BY <2>2, <2>3
<1> QED
  BY <1>2, <1>3, <1>4, <1>5, <1>6, <1>7, <1>8, <1>9, <1>10, <1>11, <1>12, <1>13 DEF Next

LEMMA DataMerged ==
    ASSUME Exact(orig, 22, Taken)
    PROVE  /\ \A x \in Titled \cap Left :
                  LET new == Retitled(Nodes \cup Ios) \cap Alike(x) IN
                  IF new = {} THEN orig.title[x] = was.title[x]
                  ELSE \E y \in new : orig.title[x] = src.title[y]
           /\ \A x \in Left :
                  orig.text[x] = was.text[x] \cup IF x \in row.description THEN src.text[x] ELSE {}
           /\ \A s \in Steps \cap Left : Of(orig.nodes, s) = NodesMerged(s)
<1>1. Left = Spared(Taken)
  BY DEF Left, Spared, Doomed, DoomedBy
<1>2. \A name \in DataSteps : Past(name, 22)
  BY PastSteps
<1>3. \A x \in Titled :
         x \in Items("UpdateNodesTitles") \cup Items("UpdateIoTitles") <=>
             Retitled(Nodes \cup Ios) \cap Alike(x) # {}
  <2>1. /\ Items("UpdateNodesTitles") = Retitled(Nodes)
        /\ Items("UpdateIoTitles") = Titling(Retitled(Ios))
    BY ItemsAre
  <2>2. /\ Retitled(Nodes) \subseteq Nodes /\ Retitled(Ios) \subseteq Ios
        /\ Retitled(Nodes \cup Ios) = Retitled(Nodes) \cup Retitled(Ios)
    BY DEF Retitled, OriginalRecords
  <2>3. \A x \in Ios : Alike(x) \subseteq Ios /\ x \notin Nodes
    BY MergeAssumption DEF Alike
  <2>4. \A x \in Titled \ Ios : Alike(x) = {x}
    BY DEF Alike
  <2>5. Nodes \cap Ios = {}
    BY MergeAssumption
  <2> QED
    BY <2>1, <2>2, <2>3, <2>4, <2>5, SMTT(30) DEF Titling
<1>4. \A x \in Titled \cap Left :
         LET new == Retitled(Nodes \cup Ios) \cap Alike(x) IN
         IF new = {} THEN orig.title[x] = was.title[x]
         ELSE \E y \in new : orig.title[x] = src.title[y]
  <2>1. /\ Past("UpdateNodesTitles", 22) /\ Past("UpdateIoTitles", 22)
    BY <1>2 DEF DataSteps, TitleSteps
  <2>2. \A x \in Titled \cap Left :
           IF x \in Items("UpdateNodesTitles") \cup Items("UpdateIoTitles")
           THEN Retold(x, orig.title[x]) ELSE orig.title[x] = was.title[x]
    BY <1>1, <2>1 DEF Exact
  <2> QED
    BY <1>3, <2>2 DEF Retold
<1>5. \A x \in Left :
         orig.text[x] = was.text[x] \cup IF x \in row.description THEN src.text[x] ELSE {}
  <2>1. Items("UpdateDescriptions") = {x \in row.description : src.text[x] # {} /\ src.text[x] # was.text[x]}
    BY ItemsAre DEF Redescribed
  <2>2. \A x \in Left : orig.text[x] = was.text[x] \cup
            IF x \in Items("UpdateDescriptions") THEN src.text[x] ELSE {}
    BY <1>1, <1>2 DEF Exact, DataSteps, DescriptionSteps
  <2> QED
    BY <2>1, <2>2
<1>6. \A s \in Steps \cap Left : Of(orig.nodes, s) = NodesMerged(s)
  BY <1>1, <1>2 DEF Exact, DataSteps, NodeDeltas, NodesMerged
<1> QED
  BY <1>4, <1>5, <1>6

LEMMA DataRecovered ==
    ASSUME NEW lost, Settled(orig, deltas, Start, Taken, {lost})
    PROVE  /\ \A x \in Titled \cap Left :
                  \E y \in {x} \cup (WithTitle(Ios) \cap Alike(x)) : orig.title[x] = was.title[y]
           /\ \A x \in Left : was.text[x] # {} => orig.text[x] = was.text[x]
           /\ \A s \in (Steps \cap Left) \ {lost} : Of(orig.nodes, s) = Of(was.nodes, s)
<1>1. Left = Spared(Taken)
  BY DEF Left, Spared, Doomed, DoomedBy
<1>2. \A name : ~Past(name, Start)
  BY DEF Past, Start
<1> QED
  BY <1>1, <1>2 DEF Settled, WasNamed

\* A merge changes the titles, the texts and the nodes of what it leaves all or
\* not at all: at its end they are those of the branch wherever that has changed
\* them, or an IO of the same main_id, and when the process that ran it has undone
\* it they are what they were: with one of their titles for the IOs of a main_id,
\* and but for the nodes of one step, whose write was answered with an error
\* (Branch::merge, MergeNodes and the like, undo_update_title,
\* undo_create_flow_step_nodes, undo_delete_flow_step_nodes,
\* undo_update_description).
THEOREM MergeAllOrNothing ==
    ASSUME Handled
    PROVE  Spec => []AllOrNothing
<1>1. Init => MergeIInv /\ DataIInv
  <2>1. Init => DataIInv
    BY DEF Init, DataIInv
  <2> QED
    BY <2>1, MergeInit
<1>2. MergeIInv /\ DataIInv /\ [Next]_vars => (MergeIInv /\ DataIInv)'
  BY MergeNext, DataNext
<1>3. DataIInv => AllOrNothing
  <2>1. ASSUME DataIInv, mode = "merged"
        PROVE  Exact(orig, 22, Taken)
    BY <2>1 DEF DataIInv
  <2>2. ASSUME DataIInv, mode = "recovered", ~fromLog
        PROVE  \E lost \in Steps \cup {None} : Settled(orig, deltas, Start, Taken, {lost})
    BY <2>2 DEF DataIInv
  <2> QED
    BY <2>1, <2>2, DataMerged, DataRecovered DEF AllOrNothing
<1> QED
  BY <1>1, <1>2, <1>3, PTL DEF Spec
=============================================================================
