---------------------------- MODULE ReorderProofs ----------------------------
(***************************************************************************)
(* Proved of Reorder, for any trees, branches, moves, errors and crashes:  *)
(*   - reorders of a contribution never write to the original's tables;    *)
(*   - both tables keep their types;                                       *)
(*   - a contribution lists as reordered only where its nodes are, if the  *)
(*     write of the list never fails unseen;                               *)
(*   - at rest the original's tables describe one and the same tree; a     *)
(*     reorder of the original that is undone leaves them as they were,    *)
(*     and one that is done has put its node where it was asked to.        *)
(* The last rests on OriginalOK: how far each set of ancestors and each    *)
(* set of rows has come at every step, forward, undone in part or dead.    *)
(***************************************************************************)
EXTENDS Reorder, FiniteSetTheorems, WellFoundedInduction, TLAPS

\* What the proof needs of the types: tables of nodes and of branch lists are
\* functions, so that a change in one branch leaves the others alone.
Shape ==
    /\ nodes = [b \in Branches |-> [n \in Nodes |-> nodes[b][n]]]
    /\ reordered = [b \in Branches |-> reordered[b]]

\* The statements S are statements on the tables of branch b.
Within(S, b) ==
    \A s \in S :
        /\ s.op \in {"insert", "delete"} => s.row.branch = b
        /\ s.op \in {"push", "pull", "place"} => s.branch = b

RowsOf(b, R) == {row \in R : row.branch = b}

\* Statements on one branch leave the rows of another alone.
LEMMA RowsElsewhere ==
    ASSUME NEW S, NEW b, NEW other, b # other, Within(S, b)
    PROVE  RowsOf(other, RowsAfter(S)) = RowsOf(other, rows)
<1> DEFINE onRows == {s \in S : s.op \in {"insert", "delete"}}
           kept == {row \in rows : \A s \in onRows : Key(s.row) # Key(row)}
           new == {s.row : s \in {t \in onRows : t.op = "insert"}}
<1>1. RowsAfter(S) = kept \cup new
  BY DEF RowsAfter
<1>2. \A row \in new : row.branch = b
  BY DEF Within
<1>3. ASSUME NEW row \in rows, row.branch = other
      PROVE  row \in kept
  <2>1. \A s \in onRows : s.row.branch = b
    BY DEF Within
  <2>2. \A s \in onRows : Key(s.row)[1] # Key(row)[1]
    BY <1>3, <2>1 DEF Key
  <2> QED
    BY <2>2
<1>4. kept \subseteq rows
  OBVIOUS
<1> HIDE DEF kept, new
<1> QED
  BY <1>1, <1>2, <1>3, <1>4 DEF RowsOf

\* They leave its nodes alone as well.
LEMMA NodesElsewhere ==
    ASSUME NEW S, NEW b, NEW other \in Branches, b # other, Within(S, b), Shape
    PROVE  NodesAfter(S)[other] = nodes[other]
<1>1. \A n : {s \in S : /\ s.op \in {"push", "pull", "place"}
                        /\ s.branch = other /\ s.id = n} = {}
  BY DEF Within
<1>2. NodesAfter(S)[other] = [n \in Nodes |-> nodes[other][n]]
  BY <1>1 DEF NodesAfter
<1> QED
  BY <1>2 DEF Shape

\* Copying to a branch writes to the tables of that branch only.
LEMMA CopyElsewhere ==
    ASSUME NEW b \in Branches, NEW S, NEW other \in Branches, b # other, Shape,
           Copy(b, S) \/ CopyWithoutRows(b, S)
    PROVE  /\ nodes'[other] = nodes[other]
           /\ RowsOf(other, rows') = RowsOf(other, rows)
<1>1. nodes'[other] = nodes[other]
  BY DEF Copy, CopyWithoutRows, Shape
<1>2. CASE CopyWithoutRows(b, S)
  BY <1>1, <1>2 DEF CopyWithoutRows
<1>3. CASE Copy(b, S)
  <2> DEFINE statements == {Insert(row) : row \in
                 UNION {AncestorRows(b, n, nodes[Original][n]) : n \in Missing(b, S)}}
  <2>1. Within(statements, b)
    BY DEF Within, Insert, AncestorRows, Row
  <2>2. rows' = RowsAfter(statements)
    BY <1>3 DEF Copy
  <2> HIDE DEF statements
  <2>3. RowsOf(other, RowsAfter(statements)) = RowsOf(other, rows)
    BY <2>1, RowsElsewhere
  <2> QED
    BY <1>1, <2>2, <2>3
<1> QED
  BY <1>2, <1>3

\* So does a set of statements on its tables.
LEMMA ApplyElsewhere ==
    ASSUME NEW b, NEW S, NEW other \in Branches, b # other, Shape, Within(S, b), Apply(S)
    PROVE  /\ nodes'[other] = nodes[other]
           /\ RowsOf(other, rows') = RowsOf(other, rows)
BY RowsElsewhere, NodesElsewhere DEF Apply

\* The statements of every step, and of every undo, are on the tables of the
\* branch being reordered.
LEMMA StatementsWithin ==
    ASSUME NEW b, NEW d, NEW k
    PROVE  Within(Statements(b, d, k), b) /\ Within(UndoStatements(b, d, k), b)
<1> USE DEF Within, Inserts, Deletes, Insert, Delete, Place, PushAncestors, PullAncestors,
            NodeRowsAt, DescendantRowsAt, Row
<1>1. Within(Statements(b, d, k), b)
  BY DEF Statements
<1>2. Within(UndoStatements(b, d, k), b)
  BY DEF UndoStatements
<1> QED
  BY <1>1, <1>2

\* Every branch starts with a table of all nodes and a list.
LEMMA InitShape == Init => Shape
BY DEF Init, Shape

\* Copying keeps the tables functions of branches and nodes.
LEMMA CopyShape ==
    ASSUME NEW b \in Branches, NEW S, Shape, UNCHANGED reordered,
           Copy(b, S) \/ CopyWithoutRows(b, S)
    PROVE  Shape'
<1> DEFINE copied == [n \in Nodes |->
                        IF n \in Missing(b, S) THEN nodes[Original][n] ELSE nodes[b][n]]
<1>1. nodes' = [nodes EXCEPT ![b] = copied]
  BY DEF Copy, CopyWithoutRows
<1>2. copied = [n \in Nodes |-> copied[n]]
  OBVIOUS
<1> HIDE DEF copied
<1>3. nodes' = [c \in Branches |-> [n \in Nodes |-> nodes'[c][n]]]
  <2>1. nodes' = [c \in Branches |-> IF c = b THEN copied ELSE nodes[c]]
    BY <1>1 DEF Shape
  <2>2. ASSUME NEW c \in Branches
        PROVE  nodes'[c] = [n \in Nodes |-> nodes'[c][n]]
    BY <1>2, <2>1 DEF Shape
  <2> QED
    BY <2>1, <2>2
<1> QED
  BY <1>3 DEF Shape

\* So does the execution of statements.
LEMMA ApplyShape ==
    ASSUME NEW S, Apply(S), reordered' = [c \in Branches |-> reordered'[c]]
    PROVE  Shape'
BY DEF Apply, NodesAfter, Shape

\* A branch's entry goes to the list of that branch; the original has none.
LEMMA ListElsewhere ==
    ASSUME NEW b \in Branches, NEW k, NEW entry, Shape,
           reordered' \in {reordered, List(b, k, entry)}
    PROVE  /\ reordered'[Original] = reordered[Original]
           /\ reordered' = [c \in Branches |-> reordered'[c]]
BY DEF List, Shape, Branches

\* The original's tables stay, or its own reorder is at its steps.
Untouched == Tables(Original)' = Tables(Original) \/ mode[Original] \in {"forward", "backward"}

\* An action that writes no table keeps both.
LEMMA Unchanged == ASSUME Shape, UNCHANGED tables PROVE Shape' /\ Untouched
BY DEF tables, Shape, Tables, Untouched

\* The reorder of some branch changes its tables by some of its statements.
LEMMA StatementsStep ==
    ASSUME NEW b \in Branches, NEW S, NEW k, NEW entry, Shape,
           mode[b] \in {"forward", "backward"}, Within(S, b), Apply(S),
           reordered' \in {reordered, List(b, k, entry)}
    PROVE  Shape' /\ Untouched
<1>1. Shape'
  BY ListElsewhere, ApplyShape
<1>2. CASE b = Original
  BY <1>1, <1>2 DEF Untouched
<1>3. CASE b # Original
  <2>1. Original \in Branches
    BY DEF Branches
  <2>2. /\ nodes'[Original] = nodes[Original]
        /\ RowsOf(Original, rows') = RowsOf(Original, rows)
    BY <1>3, <2>1, ApplyElsewhere
  <2>3. reordered'[Original] = reordered[Original]
    BY ListElsewhere
  <2> QED
    BY <1>1, <2>2, <2>3 DEF Untouched, Tables, RowsOf
<1> QED
  BY <1>2, <1>3

\* Copying to a contribution keeps both.
LEMMA CopyStep ==
    ASSUME NEW b \in Branches, b # Original, NEW S, Shape, UNCHANGED reordered,
           Copy(b, S) \/ CopyWithoutRows(b, S)
    PROVE  Shape' /\ Untouched
<1>1. Original \in Branches
  BY DEF Branches
<1>2. /\ nodes'[Original] = nodes[Original]
      /\ RowsOf(Original, rows') = RowsOf(Original, rows)
  BY <1>1, CopyElsewhere
<1> QED
  BY <1>2, CopyShape DEF Untouched, Tables, RowsOf

\* Every action of Reorder keeps both.
LEMMA NextStep == ASSUME Shape, [Next]_vars PROVE Shape' /\ Untouched
<1>1. CASE UNCHANGED vars
  BY <1>1, Unchanged DEF vars, tables
<1>2. ASSUME NEW b \in Branches, FindNode(b)
      PROVE  Shape' /\ Untouched
  <2>1. CASE b = Original
    BY <1>2, <2>1, Unchanged DEF FindNode, tables
  <2>2. CASE b # Original
    <3>1. PICK n \in Nodes \ {Root} : Copy(b, {n} \cup BranchedOrOriginal(b, n).ancestors)
      BY <1>2, <2>2 DEF FindNode
    <3>2. UNCHANGED reordered
      BY <1>2 DEF FindNode
    <3> QED
      BY <2>2, <3>1, <3>2, CopyStep
  <2> QED
    BY <2>1, <2>2
<1>3. ASSUME NEW b \in Branches,
             Refuse(b) \/ Validate(b) \/ Recover(b) \/ FailFinish(b) \/ Finished(b) \/ RolledBack(b)
      PROVE  Shape' /\ Untouched
  BY <1>3, Unchanged DEF Refuse, Validate, Recover, FailFinish, Finished, RolledBack, Return
<1>4. ASSUME NEW b \in Branches, CreateBranchNodes(b)
      PROVE  Shape' /\ Untouched
  <2>1. CASE b = Original
    BY <1>4, <2>1, Unchanged DEF CreateBranchNodes, tables
  <2>2. CASE b # Original
    BY <1>4, <2>2, CopyStep DEF CreateBranchNodes
  <2> QED
    BY <2>1, <2>2
<1>5. ASSUME NEW b \in Branches, FailCreateBranchNodes(b)
      PROVE  Shape' /\ Untouched
  BY <1>5, CopyStep DEF FailCreateBranchNodes
<1>6. ASSUME NEW b \in Branches, Execute(b)
      PROVE  Shape' /\ Untouched
  BY <1>6, StatementsWithin, StatementsStep DEF Execute, Listed
<1>7. ASSUME NEW b \in Branches, Undo(b)
      PROVE  Shape' /\ Untouched
  BY <1>7, StatementsWithin, StatementsStep DEF Undo, Listed
<1>8. ASSUME NEW b \in Branches, FailExecute(b)
      PROVE  Shape' /\ Untouched
  <2>1. PICK S \in SUBSET Statements(b, data[b], step[b]) : Apply(S)
    BY <1>8 DEF FailExecute
  <2>2. Within(S, b)
    BY StatementsWithin DEF Within
  <2> QED
    BY <1>8, <2>1, <2>2, StatementsStep DEF FailExecute
<1>9. ASSUME NEW b \in Branches, FailUndo(b)
      PROVE  Shape' /\ Untouched
  <2>1. PICK S \in SUBSET UndoStatements(b, data[b], step[b]) : Apply(S)
    BY <1>9 DEF FailUndo
  <2>2. Within(S, b)
    BY StatementsWithin DEF Within
  <2> QED
    BY <1>9, <2>1, <2>2, StatementsStep DEF FailUndo
<1> QED
  BY <1>1, <1>2, <1>3, <1>4, <1>5, <1>6, <1>7, <1>8, <1>9 DEF Next

\* Reorders in the contributions (find_or_insert_branched, create_branch_nodes
\* and all steps and undos of reorder.rs, failed or not) never change the
\* original's nodes, rows or list.
THEOREM OriginalSafe == Spec => OriginalUntouched
<1>1. Shape /\ [Next]_vars => Shape'
  BY NextStep
<1>2. Shape /\ [Next]_vars =>
        [Tables(Original)' # Tables(Original) => mode[Original] \in {"forward", "backward"}]_vars
  BY NextStep DEF Untouched
<1> QED
  BY <1>1, <1>2, InitShape, PTL DEF Spec, OriginalUntouched

-----------------------------------------------------------------------------
(* The types.                                                              *)

RowOK(row) ==
    /\ row.branch \in Branches
    /\ row.node \in Nodes /\ row.id \in Nodes \ {Root} /\ row.parent \in Nodes
    /\ row.order \in Int

\* A row of the table nodes: only the root is below nothing.
Good(n, node) ==
    /\ node \in NodeRows
    /\ IF n = Root THEN node.ancestors = {} ELSE node.parent \in Nodes

TablesOK ==
    /\ nodes \in [Branches -> [Nodes -> NodeRows \cup {Nobody}]]
    /\ \A b \in Branches, n \in Nodes : nodes[b][n] = Nobody \/ Good(n, nodes[b][n])
    /\ \A n \in Nodes : Good(n, nodes[Original][n])
    /\ \A row \in rows : RowOK(row)

\* A statement on branch b that keeps the types.
StatementOK(b, s) ==
    /\ s.op \in {"insert", "delete", "push", "pull", "place"}
    /\ s.op \in {"insert", "delete"} => RowOK(s.row)
    /\ s.op \in {"push", "pull"} => s.ids \subseteq Nodes
    /\ s.op = "place" => s.parent \in Nodes /\ s.order \in Int
    /\ s.op \in {"push", "pull", "place"} =>
          s.branch = b /\ s.id \in Nodes \ {Root} /\ Good(s.id, nodes[b][s.id])

\* Nodes that are there stay, and none but those of branch b change.
Keeps(b) ==
    /\ \A n \in Nodes : Good(n, nodes[b][n]) => Good(n, nodes'[b][n])
    /\ \A c \in Branches \ {b} : nodes'[c] = nodes[c]

\* What is there is not Nobody.
LEMMA GoodExists ==
    ASSUME NEW n, NEW node, Good(n, node)
    PROVE  node # Nobody
BY ReorderAssumption DEF Good

\* The node that is placed, field by field.
LEMMA PlacedNode ==
    ASSUME NEW node \in NodeRows, NEW parent, NEW order
    PROVE  [node EXCEPT !.parent = parent, !.order = order]
           = [parent |-> parent, ancestors |-> node.ancestors, order |-> order]
<1> DEFINE moved == [node EXCEPT !.parent = parent]
           placed == [node EXCEPT !.parent = parent, !.order = order]
<1>1. moved = [parent |-> parent, ancestors |-> node.ancestors, order |-> node.order]
  BY DEF NodeRows
<1>2. placed = [moved EXCEPT !.order = order]
  OBVIOUS
<1> HIDE DEF moved, placed
<1>3. placed = [parent |-> parent, ancestors |-> node.ancestors, order |-> order]
  BY <1>1, <1>2
<1> QED
  BY <1>3 DEF placed

\* The node that some statements leave.
LEMMA NodeAfterType ==
    ASSUME NEW n \in Nodes \ {Root}, NEW node, Good(n, node), NEW S,
           \A s \in S : /\ s.op \in {"push", "pull"} => s.ids \subseteq Nodes
                        /\ s.op = "place" => s.parent \in Nodes /\ s.order \in Int
    PROVE  Good(n, NodeAfter(node, S))
<1> DEFINE places == {s \in S : s.op = "place"}
           Ids(op) == UNION {s.ids : s \in {t \in S : t.op = op}}
           place == CHOOSE s \in places : TRUE
           placed == IF places = {} THEN node
                     ELSE [node EXCEPT !.parent = place.parent, !.order = place.order]
<1>1. node \in NodeRows /\ node.parent \in Nodes
  BY DEF Good
<1>2. placed \in NodeRows /\ placed.parent \in Nodes
  <2>1. CASE places = {}
    BY <1>1, <2>1
  <2>2. CASE places # {}
    <3>1. place.parent \in Nodes /\ place.order \in Int
      BY <2>2
    <3> HIDE DEF place
    <3> QED
      BY <1>1, <2>2, <3>1 DEF NodeRows
  <2> QED
    BY <2>1, <2>2
<1>3. Ids("pull") \subseteq Nodes /\ Ids("push") \subseteq Nodes
  OBVIOUS
<1>4. NodeAfter(node, S) = [placed EXCEPT !.ancestors = (@ \ Ids("pull")) \cup Ids("push")]
  BY DEF NodeAfter
<1> HIDE DEF placed, Ids
<1> QED
  BY <1>2, <1>3, <1>4 DEF NodeRows, Good

\* Statements that keep the types do.
LEMMA ApplyType ==
    ASSUME TablesOK, NEW b \in Branches, NEW S, Apply(S), \A s \in S : StatementOK(b, s)
    PROVE  TablesOK' /\ Keeps(b)
<1> DEFINE Here(c, n) == {s \in S : /\ s.op \in {"push", "pull", "place"}
                                    /\ s.branch = c /\ s.id = n}
<1>1. nodes' = [c \in Branches |-> [n \in Nodes |->
                   IF Here(c, n) = {} THEN nodes[c][n] ELSE NodeAfter(nodes[c][n], Here(c, n))]]
  BY DEF Apply, NodesAfter
<1>2. ASSUME NEW c \in Branches, NEW n \in Nodes
      PROVE  /\ Good(n, nodes[c][n]) => Good(n, nodes'[c][n])
             /\ nodes'[c][n] = nodes[c][n] \/ Good(n, nodes'[c][n])
             /\ c # b => nodes'[c][n] = nodes[c][n]
  <2>1. CASE Here(c, n) = {}
    BY <1>1, <2>1
  <2>2. CASE Here(c, n) # {}
    <3>1. c = b /\ n \in Nodes \ {Root} /\ Good(n, nodes[c][n])
      BY <2>2 DEF StatementOK
    <3>2. \A s \in Here(c, n) : /\ s.op \in {"push", "pull"} => s.ids \subseteq Nodes
                                /\ s.op = "place" => s.parent \in Nodes /\ s.order \in Int
      BY DEF StatementOK
    <3>3. nodes'[c][n] = NodeAfter(nodes[c][n], Here(c, n))
      BY <1>1, <2>2
    <3> HIDE DEF Here
    <3>4. Good(n, nodes'[c][n])
      BY <3>1, <3>2, <3>3, NodeAfterType
    <3> QED
      BY <3>1, <3>4
  <2> QED
    BY <2>1, <2>2
<1> HIDE DEF Here
<1>3. nodes' \in [Branches -> [Nodes -> NodeRows \cup {Nobody}]]
  <2>1. \A c \in Branches, n \in Nodes : nodes'[c][n] \in NodeRows \cup {Nobody}
    BY <1>2 DEF TablesOK, Good
  <2> QED
    BY <1>1, <2>1
<1>4. \A row \in rows' : RowOK(row)
  <2>1. \A row \in rows' : row \in rows \/ \E s \in S : s.op = "insert" /\ row = s.row
    BY DEF Apply, RowsAfter
  <2> QED
    BY <2>1 DEF TablesOK, StatementOK
<1>5. \A c \in Branches \ {b} : nodes'[c] = nodes[c]
  BY <1>1, <1>2 DEF TablesOK
<1>6. Original \in Branches
  BY DEF Branches
<1>7. \A c \in Branches, n \in Nodes : nodes'[c][n] = Nobody \/ Good(n, nodes'[c][n])
  BY <1>2 DEF TablesOK
<1>8. \A n \in Nodes : Good(n, nodes'[Original][n])
  BY <1>2, <1>6 DEF TablesOK
<1> QED
  BY <1>2, <1>3, <1>4, <1>5, <1>7, <1>8 DEF TablesOK, Keeps, RowOK, Good

\* Copying brings nodes to a branch and takes none away.
LEMMA CopyType ==
    ASSUME TablesOK, NEW b \in Branches, b # Original, NEW S \in SUBSET Nodes,
           Copy(b, S) \/ CopyWithoutRows(b, S)
    PROVE  /\ TablesOK' /\ Keeps(b)
           /\ \A n \in S : Good(n, nodes'[b][n])
           /\ \A n \in Nodes : nodes[b][n] # Nobody => nodes'[b][n] = nodes[b][n]
           /\ \A n \in S : nodes[b][n] = Nobody => nodes'[b][n] = nodes[Original][n]
<1>1. Original \in Branches
  BY DEF Branches
<1>2. nodes' = [nodes EXCEPT ![b] = [n \in Nodes |->
                   IF n \in Missing(b, S) THEN nodes[Original][n] ELSE nodes[b][n]]]
  BY DEF Copy, CopyWithoutRows
<1>3. \A n \in Nodes :
         /\ n \in Missing(b, S) => nodes'[b][n] = nodes[Original][n] /\ nodes[b][n] = Nobody
         /\ n \notin Missing(b, S) => nodes'[b][n] = nodes[b][n]
         /\ n \in S => n \in Missing(b, S) \/ nodes[b][n] # Nobody
  BY <1>2 DEF TablesOK, Missing, Exists
<1>4. \A c \in Branches \ {b} : nodes'[c] = nodes[c]
  BY <1>2 DEF TablesOK
<1>5. \A n \in Nodes : Good(n, nodes[Original][n])
  BY DEF TablesOK
<1>6. ASSUME NEW c \in Branches, NEW n \in Nodes
      PROVE  /\ nodes'[c][n] \in NodeRows \cup {Nobody}
             /\ nodes'[c][n] = Nobody \/ Good(n, nodes'[c][n])
  BY <1>3, <1>4, <1>5 DEF TablesOK, Good
<1>7. nodes' \in [Branches -> [Nodes -> NodeRows \cup {Nobody}]]
  <2>1. nodes' = [c \in Branches |-> IF c = b THEN [n \in Nodes |->
                   IF n \in Missing(b, S) THEN nodes[Original][n] ELSE nodes[b][n]] ELSE nodes[c]]
    BY <1>2 DEF TablesOK
  <2> QED
    BY <1>6, <2>1 DEF TablesOK
<1>8. \A row \in rows' : RowOK(row)
  <2>1. CASE CopyWithoutRows(b, S)
    BY <2>1 DEF CopyWithoutRows, TablesOK
  <2>2. CASE Copy(b, S)
    <3> DEFINE copied == UNION {AncestorRows(b, n, nodes[Original][n]) : n \in Missing(b, S)}
    <3>1. \A row \in rows' : row \in rows \/ row \in copied
      BY <2>2 DEF Copy, RowsAfter, Insert
    <3>2. ASSUME NEW n \in Missing(b, S), NEW row \in AncestorRows(b, n, nodes[Original][n])
          PROVE  RowOK(row)
      <4>1. Above(b, S) \subseteq Nodes
        BY <1>5 DEF Above, Good, NodeRows
      <4>2. n \in Nodes
        BY <4>1 DEF Missing
      <4>3. Good(n, nodes[Original][n])
        BY <1>5, <4>2
      <4>4. PICK a \in nodes[Original][n].ancestors :
               row = Row(b, a, nodes[Original][n].order, n, nodes[Original][n].parent)
        BY DEF AncestorRows
      <4>5. n # Root
        BY <4>3, <4>4 DEF Good
      <4> QED
        BY <4>2, <4>3, <4>4, <4>5 DEF RowOK, Row, Good, NodeRows
    <3> QED
      BY <3>1, <3>2 DEF TablesOK
  <2> QED
    BY <2>1, <2>2
<1>9. \A n \in S : Good(n, nodes'[b][n])
  BY <1>3, <1>5 DEF TablesOK
<1>10. \A n \in Nodes : Good(n, nodes[b][n]) => Good(n, nodes'[b][n])
  BY <1>3, <1>5
<1>11. TablesOK'
  BY <1>1, <1>4, <1>5, <1>6, <1>7, <1>8 DEF TablesOK, RowOK, Good
<1> QED
  BY <1>3, <1>4, <1>9, <1>10, <1>11 DEF Keeps

\* What a reorder knows: the node it moves, and once it is validated the data
\* of ReorderData.
Asked(d) ==
    /\ d.id \in Nodes \ {Root} /\ Good(d.id, d.node) /\ d.newParent \in Nodes
    /\ {d.upper, d.lower} \subseteq Nodes \cup {Nobody}
    /\ d.given \in Int \cup {Nobody}

Known(d) ==
    /\ d.id \in Nodes \ {Root}
    /\ \A row \in d.descendants : RowOK(row)
    /\ d.oldParent \in Nodes /\ d.newParent \in Nodes
    /\ d.oldAncestors \cup d.newAncestors \cup d.removed \cup d.added \subseteq Nodes
    /\ d.oldOrder \in Int /\ d.newOrder \in Int

\* The nodes it moves are in its branch.
There(b) == \A n \in {data[b].id} \cup DescendantIds(data[b]) : Good(n, nodes[b][n])

BranchOK(b) ==
    /\ mode[b] \in {"idle", "read", "copy"} => step[b] = 0
    /\ mode[b] = "forward" => step[b] \in 1 .. Finish
    /\ mode[b] = "backward" => step[b] \in 0 .. PushNewEditors
    /\ mode[b] = "dead" => step[b] \in Steps
    /\ mode[b] = "read" => Asked(data[b])
    /\ mode[b] \in {"copy", "forward", "backward", "dead"} => Known(data[b])
    /\ mode[b] \in {"read", "copy"} => Good(data[b].id, nodes[b][data[b].id])
    /\ mode[b] \in {"forward", "backward", "dead"} => There(b)

TypeInv ==
    /\ TypeOK /\ TablesOK
    /\ data = [b \in Branches |-> data[b]]
    /\ \A b \in Branches : BranchOK(b)

\* The numbers of the steps.
LEMMA StepNumbers ==
    Finish = 12 /\ PushNewEditors = 11 /\ UpdateBranch = 10 /\ UpdateNodeOrderIndex = 1 /\ Steps = 1 .. 11
BY DEF Finish, PushNewEditors, UpdateBranch, UpdateNodeOrderIndex, Steps

\* A node as a branch shows it is a row.
LEMMA Shown ==
    ASSUME TablesOK, NEW b \in Branches, NEW n \in Nodes
    PROVE  Good(n, BranchedOrOriginal(b, n)) /\ BranchedOrOriginal(b, n) \in NodeRows
BY DEF TablesOK, BranchedOrOriginal, Exists, Good

\* An index is a number.
LEMMA IndexType ==
    ASSUME NEW upper, NEW lower, upper # Nobody => upper.order \in Int, lower # Nobody => lower.order \in Int
    PROVE  BuildNewIndex(upper, lower) \in Int
<1>1. CASE upper = Nobody /\ lower = Nobody
  BY <1>1 DEF BuildNewIndex
<1>2. CASE upper = Nobody /\ lower # Nobody
  BY <1>2 DEF BuildNewIndex
<1>3. CASE upper # Nobody /\ lower = Nobody
  BY <1>3 DEF BuildNewIndex
<1>4. CASE upper # Nobody /\ lower # Nobody
  <2>1. BuildNewIndex(upper, lower) = (upper.order + lower.order) \div 2
    BY <1>4 DEF BuildNewIndex
  <2> QED
    BY <1>4, <2>1
<1> QED
  BY <1>1, <1>2, <1>3, <1>4

\* What is read follows from what was asked.
LEMMA FromParamsType ==
    ASSUME TablesOK, NEW b \in Branches, Asked(data[b])
    PROVE  Known(FromParams(b)) /\ FromParams(b).id = data[b].id
<1> DEFINE d == data[b]
           Sibling(n) == IF n = Nobody THEN Nobody ELSE BranchedOrOriginal(b, n)
           f == FromParams(b)
<1>1. d.node \in NodeRows /\ d.node.parent \in Nodes /\ BranchedOrOriginal(b, d.newParent) \in NodeRows
  BY Shown DEF Asked, Good
<1>2. \A n \in {d.upper, d.lower} : Sibling(n) # Nobody => Sibling(n).order \in Int
  BY Shown DEF Asked, NodeRows
<1>3. BuildNewIndex(Sibling(d.upper), Sibling(d.lower)) \in Int
  <2> HIDE DEF Sibling
  <2> QED
    BY <1>2, IndexType
<1>4. /\ f.id = d.id /\ f.oldParent = d.node.parent /\ f.newParent = d.newParent
      /\ f.oldAncestors = d.node.ancestors
      /\ f.newAncestors = {d.newParent} \cup BranchedOrOriginal(b, d.newParent).ancestors
      /\ f.removed = f.oldAncestors \ f.newAncestors /\ f.added = f.newAncestors \ f.oldAncestors
      /\ f.oldOrder = d.node.order
      /\ f.newOrder = IF d.given # Nobody THEN d.given
                      ELSE BuildNewIndex(Sibling(d.upper), Sibling(d.lower))
      /\ f.descendants \subseteq rows
  <2>1. DescendantRows(b, d.id) \subseteq rows /\ BranchDescendants(b, d.id) \subseteq rows
    BY DEF DescendantRows, BranchDescendants
  <2> QED
    BY <2>1 DEF FromParams
<1> HIDE DEF f, Sibling
<1>5. d.newParent \in Nodes /\ d.id \in Nodes \ {Root} /\ d.given \in Int \cup {Nobody}
  BY DEF Asked
<1>6. Known(f)
  BY <1>1, <1>3, <1>4, <1>5 DEF Known, TablesOK, NodeRows
<1> QED
  BY <1>4, <1>6 DEF f

\* Every statement of a step, and of its undo, keeps the types.
LEMMA StatementsType ==
    ASSUME NEW b \in Branches, Known(data[b]), There(b), NEW k,
           NEW s \in Statements(b, data[b], k) \cup UndoStatements(b, data[b], k)
    PROVE  StatementOK(b, s)
<1> DEFINE d == data[b]
<1>1. /\ \A row \in NodeRowsAt(b, d, d.oldAncestors, d.oldOrder, d.oldParent) : RowOK(row)
      /\ \A row \in NodeRowsAt(b, d, d.newAncestors, d.newOrder, d.newParent) : RowOK(row)
  BY DEF NodeRowsAt, Row, RowOK, Known
<1>2. /\ \A row \in DescendantRowsAt(b, d, d.removed) : RowOK(row)
      /\ \A row \in DescendantRowsAt(b, d, d.added) : RowOK(row)
  BY DEF DescendantRowsAt, Row, RowOK, Known
<1>3. ASSUME NEW row, RowOK(row)
      PROVE  StatementOK(b, Insert(row)) /\ StatementOK(b, Delete(row))
  BY <1>3 DEF StatementOK, Insert, Delete
<1>4. \A n \in {d.id} \cup DescendantIds(d) : n \in Nodes \ {Root} /\ Good(n, nodes[b][n])
  BY DEF Known, DescendantIds, There, RowOK
<1>5. ASSUME NEW n \in {d.id} \cup DescendantIds(d), NEW ids \in {d.removed, d.added}
      PROVE  StatementOK(b, PushAncestors(b, n, ids)) /\ StatementOK(b, PullAncestors(b, n, ids))
  BY <1>4 DEF StatementOK, PushAncestors, PullAncestors, Known
<1>6. /\ StatementOK(b, Place(b, d.id, d.newParent, d.newOrder))
      /\ StatementOK(b, Place(b, d.id, d.oldParent, d.oldOrder))
  BY <1>4 DEF StatementOK, Place, Known
<1>7. CASE s \in Statements(b, d, k)
  <2> DEFINE I(S) == \E row \in S : s = Insert(row)
             D(S) == \E row \in S : s = Delete(row)
  <2>1. \/ s = Place(b, d.id, d.newParent, d.newOrder)
        \/ D(NodeRowsAt(b, d, d.oldAncestors, d.oldOrder, d.oldParent))
        \/ I(NodeRowsAt(b, d, d.newAncestors, d.newOrder, d.newParent))
        \/ \E n \in {d.id} \cup DescendantIds(d) : s = PullAncestors(b, n, d.removed)
        \/ D(DescendantRowsAt(b, d, d.removed))
        \/ \E n \in {d.id} \cup DescendantIds(d) : s = PushAncestors(b, n, d.added)
        \/ I(DescendantRowsAt(b, d, d.added))
    BY <1>7 DEF Statements, Inserts, Deletes
  <2> QED
    BY <1>1, <1>2, <1>3, <1>5, <1>6, <2>1
<1>8. CASE s \in UndoStatements(b, d, k)
  <2> DEFINE I(S) == \E row \in S : s = Insert(row)
             D(S) == \E row \in S : s = Delete(row)
  <2>1. \/ s = Place(b, d.id, d.oldParent, d.oldOrder)
        \/ I(NodeRowsAt(b, d, d.oldAncestors, d.oldOrder, d.oldParent))
        \/ D(NodeRowsAt(b, d, d.newAncestors, d.newOrder, d.newParent))
        \/ \E n \in {d.id} \cup DescendantIds(d) : s = PushAncestors(b, n, d.removed)
        \/ I(DescendantRowsAt(b, d, d.removed))
        \/ \E n \in {d.id} \cup DescendantIds(d) : s = PullAncestors(b, n, d.added)
        \/ D(DescendantRowsAt(b, d, d.added))
    BY <1>8 DEF UndoStatements, Inserts, Deletes
  <2> QED
    BY <1>1, <1>2, <1>3, <1>5, <1>6, <2>1
<1> QED
  BY <1>7, <1>8

\* A branch of which nothing changes but nodes that come stays typed.
LEMMA BranchKeeps ==
    ASSUME NEW c \in Branches, BranchOK(c),
           mode'[c] = mode[c], step'[c] = step[c], data'[c] = data[c],
           \A n \in Nodes : Good(n, nodes[c][n]) => Good(n, nodes'[c][n])
    PROVE  BranchOK(c)'
<1>1. mode[c] = "read" => data[c].id \in Nodes
  BY DEF BranchOK, Asked
<1>2. mode[c] \in {"copy", "forward", "backward", "dead"} => {data[c].id} \cup DescendantIds(data[c]) \subseteq Nodes
  BY DEF BranchOK, Known, DescendantIds, RowOK
<1>3. DescendantIds(data[c])' = DescendantIds(data[c])
  BY DEF DescendantIds
<1>4. There(c) /\ mode[c] \in {"forward", "backward", "dead"} => There(c)'
  BY <1>2, <1>3 DEF There
<1>5. Known(data[c])' = Known(data[c]) /\ Asked(data[c])' = Asked(data[c])
  BY DEF Known, Asked, RowOK, Good
<1> QED
  BY <1>1, <1>2, <1>4, <1>5 DEF BranchOK, Good

\* What the steps have in common: the tables keep their types, the reorder of
\* one branch goes on, the others stay.
LEMMA Assemble ==
    ASSUME TypeInv, NEW b \in Branches, TablesOK', Keeps(b),
           NEW m \in {"idle", "read", "copy", "forward", "backward", "dead"}, NEW k \in 0 .. Finish,
           mode' = [mode EXCEPT ![b] = m], step' = [step EXCEPT ![b] = k],
           data' = [data EXCEPT ![b] = data'[b]],
           moves' \in [Branches -> Nat], faults' \in 0 .. MaxFaults,
           BranchOK(b)'
    PROVE  TypeInv'
<1> USE DEF TypeInv
<1>1. /\ \A c \in Branches \ {b} : mode'[c] = mode[c] /\ step'[c] = step[c] /\ data'[c] = data[c]
      /\ data' = [c \in Branches |-> data'[c]]
  BY DEF TypeOK
<1>2. \A c \in Branches \ {b} : BranchOK(c)'
  BY <1>1, BranchKeeps DEF Keeps
<1>3. TypeOK'
  <2>1. /\ mode' \in [Branches -> {"idle", "read", "copy", "forward", "backward", "dead"}]
        /\ step' \in [Branches -> 0 .. Finish]
    BY DEF TypeOK
  <2>2. \A row \in rows' : /\ row.branch \in Branches
                           /\ {row.node, row.id, row.parent} \subseteq Nodes
                           /\ row.order \in Int
    BY DEF TablesOK, RowOK
  <2>3. nodes' \in [Branches -> [Nodes -> NodeRows \cup {Nobody}]]
    BY DEF TablesOK
  <2> QED
    BY <2>1, <2>2, <2>3 DEF TypeOK
<1> QED
  BY <1>1, <1>2, <1>3

\* The step and its undo, whole or in part.
LEMMA ApplyPart ==
    ASSUME TypeInv, NEW b \in Branches, mode[b] \in {"forward", "backward"}, NEW k,
           NEW S, S \subseteq Statements(b, data[b], k) \/ S \subseteq UndoStatements(b, data[b], k),
           Apply(S)
    PROVE  TablesOK' /\ Keeps(b)
<1>1. Known(data[b]) /\ There(b)
  BY DEF TypeInv, BranchOK
<1>2. \A s \in S : StatementOK(b, s)
  BY <1>1, StatementsType
<1> QED
  BY <1>2, ApplyType DEF TypeInv

\* The reorder goes forward, turns round, dies or is taken up by the log.
LEMMA OnItsWay ==
    ASSUME TypeInv, NEW b \in Branches, TablesOK', Keeps(b),
           mode[b] \in {"forward", "backward", "dead"},
           NEW m \in {"forward", "backward", "dead"}, NEW k \in 0 .. Finish, GoTo(b, m, k),
           m = "forward" => k \in 1 .. Finish,
           m = "backward" => k \in 0 .. PushNewEditors,
           m = "dead" => k \in Steps,
           UNCHANGED <<data, moves>>, faults' \in 0 .. MaxFaults
    PROVE  TypeInv'
<1> USE DEF TypeInv
<1>1. mode' = [mode EXCEPT ![b] = m] /\ step' = [step EXCEPT ![b] = k] /\ mode'[b] = m /\ step'[b] = k
  BY DEF GoTo, TypeOK
<1>2. Known(data[b]) /\ There(b)
  BY DEF BranchOK
<1>3. {data[b].id} \cup DescendantIds(data[b]) \subseteq Nodes
  BY <1>2 DEF Known, DescendantIds, RowOK
<1>4. Known(data[b])' /\ There(b)'
  BY <1>2, <1>3 DEF Known, There, Keeps, RowOK, DescendantIds
<1>5. BranchOK(b)'
  BY <1>1, <1>4 DEF BranchOK
<1>6. data' = [data EXCEPT ![b] = data'[b]] /\ moves' \in [Branches -> Nat]
  BY DEF TypeOK
<1> QED
  BY <1>1, <1>5, <1>6, Assemble

\* The reorder ends.
LEMMA ComesToRest ==
    ASSUME TypeInv, NEW b \in Branches, TablesOK', Keeps(b), GoTo(b, "idle", 0),
           data' = [data EXCEPT ![b] = NoData],
           UNCHANGED moves, faults' \in 0 .. MaxFaults
    PROVE  TypeInv'
<1> USE DEF TypeInv
<1>1. mode' = [mode EXCEPT ![b] = "idle"] /\ step' = [step EXCEPT ![b] = 0] /\ mode'[b] = "idle" /\ step'[b] = 0
  BY DEF GoTo, TypeOK
<1>2. data'[b] = NoData /\ moves' \in [Branches -> Nat] /\ 0 \in 0 .. Finish
  BY StepNumbers DEF TypeOK
<1>3. BranchOK(b)'
  BY <1>1, StepNumbers DEF BranchOK
<1> QED
  BY <1>1, <1>2, <1>3, Assemble

\* What changes no table keeps them.
LEMMA KeepsAll == ASSUME TypeInv, NEW b \in Branches, UNCHANGED <<nodes, rows>> PROVE TablesOK' /\ Keeps(b)
BY DEF TypeInv, TablesOK, Keeps

\* The types hold at first.
LEMMA TypeInit == Init => TypeInv
<1> SUFFICES ASSUME Init PROVE TypeInv
  OBVIOUS
<1> USE DEF Init
<1>1. PICK tree \in Trees, order \in {f \in [Nodes -> Indexes] : f[Root] = 0} :
         nodes = [b \in Branches |-> [n \in Nodes |->
                    IF b = Original
                      THEN [parent |-> tree[n].parent, ancestors |-> tree[n].ancestors,
                            order |-> order[n]]
                      ELSE Nobody]]
  OBVIOUS
<1>2. IsTree(tree) /\ \A n \in Nodes : order[n] \in Int
  BY ReorderAssumption
<1>3. Original \in Branches
  BY DEF Branches
<1>4. ASSUME NEW n \in Nodes
      PROVE  Good(n, nodes[Original][n])
  <2>1. nodes[Original][n] = [parent |-> tree[n].parent, ancestors |-> tree[n].ancestors, order |-> order[n]]
    BY <1>1, <1>3
  <2>2. tree[n] \in [parent : Nodes \cup {Nobody}, ancestors : SUBSET Nodes]
    BY <1>2 DEF IsTree
  <2>3. IF n = Root THEN tree[n].ancestors = {} ELSE tree[n].parent \in Nodes
    BY <1>2 DEF IsTree
  <2>4. tree[n].parent \in Nodes \cup {Nobody} /\ tree[n].ancestors \in SUBSET Nodes /\ order[n] \in Int
    BY <1>2, <2>2
  <2> DEFINE node == [parent |-> tree[n].parent, ancestors |-> tree[n].ancestors, order |-> order[n]]
  <2> HIDE DEF Init
  <2>5. node \in NodeRows /\ node.parent = tree[n].parent /\ node.ancestors = tree[n].ancestors
    BY <2>4 DEF NodeRows
  <2> HIDE DEF node
  <2>6. Good(n, node)
    BY <2>3, <2>5 DEF Good
  <2> QED
    BY <2>1, <2>6 DEF node
<1>5. \A b \in Branches, n \in Nodes : b # Original => nodes[b][n] = Nobody
  BY <1>1
<1>6. nodes \in [Branches -> [Nodes -> NodeRows \cup {Nobody}]]
  <2>1. \A b \in Branches, n \in Nodes : nodes[b][n] \in NodeRows \cup {Nobody}
    BY <1>4, <1>5 DEF Good
  <2> QED
    BY <1>1, <2>1
<1>7. \A row \in rows : RowOK(row)
  <2> SUFFICES ASSUME NEW n \in Nodes, NEW row \in AncestorRows(Original, n, nodes[Original][n])
               PROVE  RowOK(row)
    OBVIOUS
  <2>1. Good(n, nodes[Original][n])
    BY <1>4
  <2>2. PICK a \in nodes[Original][n].ancestors :
           row = Row(Original, a, nodes[Original][n].order, n, nodes[Original][n].parent)
    BY DEF AncestorRows
  <2> QED
    BY <1>3, <2>1, <2>2 DEF RowOK, Row, Good, NodeRows
<1>8. TablesOK
  BY <1>4, <1>5, <1>6, <1>7 DEF TablesOK
<1>9. TypeOK
  <2>1. mode \in [Branches -> {"idle", "read", "copy", "forward", "backward", "dead"}]
    OBVIOUS
  <2>2. step \in [Branches -> 0 .. Finish] /\ faults \in 0 .. MaxFaults
    BY StepNumbers, ReorderAssumption
  <2>3. moves \in [Branches -> Nat]
    BY ReorderAssumption
  <2> QED
    BY <1>6, <1>7, <2>1, <2>2, <2>3 DEF TypeOK, RowOK
<1>10. \A b \in Branches : BranchOK(b)
  BY DEF BranchOK
<1> QED
  BY <1>8, <1>9, <1>10 DEF TypeInv

\* Every step keeps the types: no step of a reorder, whole, in part or undone,
\* writes to a node that is not in its branch.
LEMMA TypeStep == ASSUME TypeInv, [Next]_vars PROVE TypeInv'
<1> USE DEF TypeInv
<1>1. CASE UNCHANGED vars
  <2>1. \A b \in Branches : BranchOK(b)'
    BY <1>1 DEF vars, BranchOK, Asked, Known, There, DescendantIds, Good, RowOK
  <2> QED
    BY <1>1, <2>1 DEF vars, TypeOK, TablesOK
<1>2. ASSUME NEW b \in Branches, FindNode(b)
      PROVE  TypeInv'
  <2>1. PICK n \in Nodes \ {Root}, parent \in Nodes, upper \in Nodes \cup {Nobody}, lower \in Nodes \cup {Nobody},
             given \in GivenIndexes \cup {Nobody} :
           /\ IF b = Original
              THEN UNCHANGED <<nodes, rows>>
              ELSE Copy(b, {n} \cup BranchedOrOriginal(b, n).ancestors)
           /\ data' = [data EXCEPT ![b] =
                         [id |-> n, node |-> BranchedOrOriginal(b, n), newParent |-> parent,
                          upper |-> upper, lower |-> lower, given |-> given]]
    BY <1>2 DEF FindNode
  <2>2. /\ GoTo(b, "read", 0) /\ moves[b] > 0 /\ moves' = [moves EXCEPT ![b] = @ - 1] /\ faults' = faults
    BY <1>2 DEF FindNode
  <2>3. Good(n, BranchedOrOriginal(b, n)) /\ BranchedOrOriginal(b, n) \in NodeRows
    BY Shown
  <2>4. TablesOK' /\ Keeps(b) /\ Good(n, nodes'[b][n])
    <3>1. CASE b = Original
      <4>1. TablesOK' /\ Keeps(b)
        BY <2>1, <3>1, KeepsAll
      <4> QED
        BY <2>1, <3>1, <4>1 DEF TablesOK
    <3>2. CASE b # Original
      <4> DEFINE S == {n} \cup BranchedOrOriginal(b, n).ancestors
      <4>1. S \in SUBSET Nodes /\ n \in S /\ Copy(b, S)
        BY <2>1, <2>3, <3>2 DEF NodeRows
      <4> HIDE DEF S
      <4> QED
        BY <3>2, <4>1, CopyType
    <3> QED
      BY <3>1, <3>2
  <2>5. Asked(data'[b]) /\ data'[b].id = n
    <3>1. given \in Int \cup {Nobody}
      BY ReorderAssumption
    <3>2. data'[b] = [id |-> n, node |-> BranchedOrOriginal(b, n), newParent |-> parent,
                      upper |-> upper, lower |-> lower, given |-> given]
      BY <2>1
    <3> QED
      BY <2>3, <3>1, <3>2 DEF Asked
  <2>6. /\ mode' = [mode EXCEPT ![b] = "read"] /\ step' = [step EXCEPT ![b] = 0] /\ mode'[b] = "read" /\ step'[b] = 0
    BY <2>2 DEF GoTo, TypeOK
  <2>7. BranchOK(b)'
    BY <2>4, <2>5, <2>6, StepNumbers DEF BranchOK, Asked, Good
  <2>8. data' = [data EXCEPT ![b] = data'[b]]
    BY <2>1
  <2>9. moves' \in [Branches -> Nat] /\ faults' \in 0 .. MaxFaults /\ 0 \in 0 .. Finish
    BY <2>2, StepNumbers DEF TypeOK
  <2> QED
    BY <2>4, <2>6, <2>7, <2>8, <2>9, Assemble
<1>3. ASSUME NEW b \in Branches, Refuse(b) \/ Finished(b) \/ RolledBack(b)
      PROVE  TypeInv'
  <2>1. /\ GoTo(b, "idle", 0) /\ data' = [data EXCEPT ![b] = NoData]
        /\ UNCHANGED <<nodes, rows, moves, faults>>
    BY <1>3 DEF Refuse, Finished, RolledBack, Return, tables
  <2>2. faults' \in 0 .. MaxFaults
    BY <2>1 DEF TypeOK
  <2> QED
    BY <2>1, <2>2, KeepsAll, ComesToRest
<1>4. ASSUME NEW b \in Branches, Validate(b)
      PROVE  TypeInv'
  <2>1. /\ mode[b] = "read" /\ GoTo(b, "copy", 0) /\ data' = [data EXCEPT ![b] = FromParams(b)]
        /\ UNCHANGED <<nodes, rows, moves, faults>>
    BY <1>4 DEF Validate, tables
  <2>2. Asked(data[b]) /\ Good(data[b].id, nodes[b][data[b].id])
    BY <2>1 DEF BranchOK
  <2>3. Known(FromParams(b)) /\ FromParams(b).id = data[b].id
    BY <2>2, FromParamsType
  <2>4. data'[b] = FromParams(b)
    BY <2>1
  <2>5. TablesOK' /\ Keeps(b)
    BY <2>1, KeepsAll
  <2>6. /\ mode' = [mode EXCEPT ![b] = "copy"] /\ step' = [step EXCEPT ![b] = 0] /\ mode'[b] = "copy" /\ step'[b] = 0
    BY <2>1 DEF GoTo, TypeOK
  <2>7. Known(data[b])' /\ Good(data[b].id, nodes[b][data[b].id])'
    BY <2>1, <2>2, <2>3, <2>4 DEF Known, RowOK, Good
  <2>8. BranchOK(b)'
    BY <2>6, <2>7, StepNumbers DEF BranchOK
  <2>9. moves' \in [Branches -> Nat] /\ faults' \in 0 .. MaxFaults /\ 0 \in 0 .. Finish
    BY <2>1, StepNumbers DEF TypeOK
  <2> QED
    BY <2>1, <2>4, <2>5, <2>6, <2>8, <2>9, Assemble
<1>5. ASSUME NEW b \in Branches, CreateBranchNodes(b)
      PROVE  TypeInv'
  <2>1. /\ mode[b] = "copy" /\ GoTo(b, "forward", UpdateNodeOrderIndex) /\ UNCHANGED <<data, moves, faults>>
        /\ IF b = Original THEN UNCHANGED <<nodes, rows>> ELSE Copy(b, Touched(data[b]))
    BY <1>5 DEF CreateBranchNodes
  <2>2. Known(data[b]) /\ Good(data[b].id, nodes[b][data[b].id])
    BY <2>1 DEF BranchOK
  <2>3. Touched(data[b]) \in SUBSET Nodes /\ DescendantIds(data[b]) \subseteq Touched(data[b]) /\ data[b].id \in Nodes
    BY <2>2 DEF Touched, Known, DescendantIds, RowOK
  <2>4. /\ TablesOK' /\ Keeps(b)
        /\ \A n \in DescendantIds(data[b]) : Good(n, nodes'[b][n])
    <3>1. CASE b = Original
      <4>1. TablesOK' /\ Keeps(b)
        BY <2>1, <3>1, KeepsAll
      <4> QED
        BY <2>1, <2>3, <3>1, <4>1 DEF TablesOK
    <3>2. CASE b # Original
      BY <2>1, <2>3, <3>2, CopyType
    <3> QED
      BY <3>1, <3>2
  <2>5. Good(data[b].id, nodes'[b][data[b].id])
    BY <2>2, <2>3, <2>4 DEF Keeps
  <2>6. /\ mode' = [mode EXCEPT ![b] = "forward"] /\ step' = [step EXCEPT ![b] = 1]
        /\ mode'[b] = "forward" /\ step'[b] = 1
    BY <2>1, StepNumbers DEF GoTo, TypeOK
  <2>7. Known(data[b])' /\ There(b)'
    BY <2>1, <2>2, <2>4, <2>5 DEF Known, There, RowOK, DescendantIds, Good
  <2>8. BranchOK(b)'
    BY <2>6, <2>7, StepNumbers DEF BranchOK
  <2>9. moves' \in [Branches -> Nat] /\ faults' \in 0 .. MaxFaults /\ 1 \in 0 .. Finish
    BY <2>1, StepNumbers DEF TypeOK
  <2>10. data' = [data EXCEPT ![b] = data'[b]]
    BY <2>1
  <2> QED
    BY <2>4, <2>6, <2>8, <2>9, <2>10, Assemble
<1>6. ASSUME NEW b \in Branches, Execute(b)
      PROVE  TypeInv'
  <2>1. /\ mode[b] = "forward" /\ step[b] \in Steps /\ Apply(Statements(b, data[b], step[b]))
        /\ GoTo(b, "forward", step[b] + 1) /\ UNCHANGED <<data, moves, faults>>
    BY <1>6 DEF Execute
  <2>2. step[b] + 1 \in 0 .. Finish /\ step[b] + 1 \in 1 .. Finish /\ faults' \in 0 .. MaxFaults
    BY <2>1, StepNumbers DEF TypeOK
  <2> QED
    BY <2>1, <2>2, ApplyPart, OnItsWay
<1>7. ASSUME NEW b \in Branches, Undo(b)
      PROVE  TypeInv'
  <2>1. /\ mode[b] = "backward" /\ step[b] \in Steps /\ Apply(UndoStatements(b, data[b], step[b]))
        /\ GoTo(b, "backward", step[b] - 1) /\ UNCHANGED <<data, moves, faults>>
    BY <1>7 DEF Undo
  <2>2. step[b] - 1 \in 0 .. Finish /\ step[b] - 1 \in 0 .. PushNewEditors /\ faults' \in 0 .. MaxFaults
    BY <2>1, StepNumbers DEF TypeOK
  <2> QED
    BY <2>1, <2>2, ApplyPart, OnItsWay
<1>8. ASSUME NEW b \in Branches, Recover(b)
      PROVE  TypeInv'
  <2>1. /\ mode[b] = "dead" /\ GoTo(b, "backward", step[b]) /\ UNCHANGED <<nodes, rows, data, moves, faults>>
    BY <1>8 DEF Recover, tables
  <2>2. step[b] \in 0 .. Finish /\ step[b] \in 0 .. PushNewEditors /\ faults' \in 0 .. MaxFaults
    BY <2>1, StepNumbers DEF TypeOK, BranchOK
  <2> QED
    BY <2>1, <2>2, KeepsAll, OnItsWay
<1>9. ASSUME NEW b \in Branches, FailCreateBranchNodes(b)
      PROVE  TypeInv'
  <2>1. PICK S \in SUBSET Above(b, Touched(data[b])) : CopyWithoutRows(b, S)
    BY <1>9 DEF FailCreateBranchNodes
  <2>2. /\ b # Original /\ GoTo(b, "idle", 0) /\ data' = [data EXCEPT ![b] = NoData] /\ moves' = moves
        /\ mode[b] = "copy" /\ faults < MaxFaults /\ faults' = faults + 1
    BY <1>9 DEF FailCreateBranchNodes, Fault
  <2>3. faults' \in 0 .. MaxFaults
    BY <2>2, ReorderAssumption DEF TypeOK
  <2>4. S \in SUBSET Nodes
    <3>1. Touched(data[b]) \subseteq Nodes
      BY <2>2 DEF BranchOK, Touched, Known, DescendantIds, RowOK
    <3>2. \A n \in Nodes : nodes[Original][n].ancestors \subseteq Nodes
      BY DEF TablesOK, Good, NodeRows
    <3> QED
      BY <3>1, <3>2 DEF Above
  <2> QED
    BY <2>1, <2>2, <2>3, <2>4, CopyType, ComesToRest
<1>10. ASSUME NEW b \in Branches, FailExecute(b)
       PROVE  TypeInv'
  <2>1. PICK S \in SUBSET Statements(b, data[b], step[b]) : Apply(S)
    BY <1>10 DEF FailExecute
  <2>2. PICK m \in {"backward", "dead"} : GoTo(b, m, step[b])
    BY <1>10 DEF FailExecute
  <2>3. /\ mode[b] = "forward" /\ step[b] \in Steps /\ UNCHANGED <<data, moves>>
        /\ faults < MaxFaults /\ faults' = faults + 1
    BY <1>10 DEF FailExecute, Fault
  <2>4. faults' \in 0 .. MaxFaults /\ step[b] \in 0 .. Finish /\ step[b] \in 0 .. PushNewEditors
    BY <2>3, StepNumbers, ReorderAssumption DEF TypeOK
  <2> QED
    BY <2>1, <2>2, <2>3, <2>4, ApplyPart, OnItsWay
<1>11. ASSUME NEW b \in Branches, FailUndo(b)
       PROVE  TypeInv'
  <2>1. PICK S \in SUBSET UndoStatements(b, data[b], step[b]) : Apply(S)
    BY <1>11 DEF FailUndo
  <2>2. /\ mode[b] = "backward" /\ step[b] \in Steps /\ GoTo(b, "dead", step[b]) /\ UNCHANGED <<data, moves>>
        /\ faults < MaxFaults /\ faults' = faults + 1
    BY <1>11 DEF FailUndo, Fault
  <2>3. faults' \in 0 .. MaxFaults /\ step[b] \in 0 .. Finish
    BY <2>2, StepNumbers, ReorderAssumption DEF TypeOK
  <2> QED
    BY <2>1, <2>2, <2>3, ApplyPart, OnItsWay
<1>12. ASSUME NEW b \in Branches, FailFinish(b)
       PROVE  TypeInv'
  <2>1. /\ mode[b] = "forward" /\ GoTo(b, "backward", PushNewEditors) /\ UNCHANGED <<nodes, rows, data, moves>>
        /\ faults < MaxFaults /\ faults' = faults + 1
    BY <1>12 DEF FailFinish, Fault, tables
  <2>2. faults' \in 0 .. MaxFaults /\ PushNewEditors \in 0 .. Finish /\ PushNewEditors \in 0 .. PushNewEditors
    BY <2>1, StepNumbers, ReorderAssumption DEF TypeOK
  <2> QED
    BY <2>1, <2>2, KeepsAll, OnItsWay
<1> QED
  BY <1>1, <1>2, <1>3, <1>4, <1>5, <1>6, <1>7, <1>8, <1>9, <1>10, <1>11, <1>12 DEF Next

\* The invariant of the types.
THEOREM TypeInvariance == Spec => []TypeInv
<1>1. TypeInv /\ [Next]_vars => TypeInv'
  BY TypeStep
<1> QED
  BY <1>1, TypeInit, PTL DEF Spec

\* Both tables keep their types: whatever breaks off, no reorder leaves a row
\* that is none, for a node that is not in the branch or below nothing.
THEOREM Types == Spec => []TypeOK
<1>1. TypeInv => TypeOK
  BY DEF TypeInv
<1> QED
  BY <1>1, TypeInvariance, PTL

-----------------------------------------------------------------------------
(* What a contribution lists as reordered.                                 *)

\* The entry of a node agrees with a parent.
Names(entry, parent) == entry = Nobody \/ entry.newParent = parent

\* While the node of a reorder moves, its entry and its parent follow each
\* other: the parent from the first step, the entry from the tenth.
Moving(b) ==
    LET d == data[b]
        parent == nodes[b][d.id].parent
        entry == reordered[b][d.id] IN
    IF mode[b] = "forward"
    THEN /\ parent = IF step[b] <= UpdateNodeOrderIndex THEN d.oldParent ELSE d.newParent
         /\ Names(entry, IF step[b] <= UpdateBranch THEN d.oldParent ELSE d.newParent)
    ELSE /\ step[b] < UpdateNodeOrderIndex => parent = d.oldParent
         /\ step[b] > UpdateNodeOrderIndex => parent = d.newParent
         /\ step[b] < UpdateBranch => Names(entry, d.oldParent)
         /\ step[b] > UpdateBranch => Names(entry, d.newParent)

ListOK(b) ==
    /\ \A n \in Nodes : reordered[b][n] # Nobody => Good(n, nodes[b][n])
    /\ \A n \in Nodes : mode[b] \in {"idle", "read", "copy"} \/ n # data[b].id =>
          Names(reordered[b][n], nodes[b][n].parent)
    /\ mode[b] = "read" => data[b].node.parent = nodes[b][data[b].id].parent
    /\ mode[b] = "copy" => data[b].oldParent = nodes[b][data[b].id].parent
    /\ mode[b] \in {"forward", "backward", "dead"} => Moving(b)

ListInv ==
    /\ TypeInv
    /\ reordered = [b \in Branches |-> [n \in Nodes |-> reordered[b][n]]]
    /\ \A b \in Contributions : ListOK(b)

\* A branch whose list, rows and reorder stay keeps its list right.
LEMMA ListKeeps ==
    ASSUME NEW c \in Contributions, TypeInv, ListOK(c),
           mode'[c] = mode[c], step'[c] = step[c], data'[c] = data[c],
           nodes'[c] = nodes[c], reordered'[c] = reordered[c]
    PROVE  ListOK(c)'
BY DEF ListOK, Moving, Good, Names

\* Only the first step, and its undo, place a node below another parent.
LEMMA ParentsAfter ==
    ASSUME TypeInv, NEW b \in Branches, NEW k, NEW S, Apply(S),
           S \subseteq Statements(b, data[b], k) \/ S \subseteq UndoStatements(b, data[b], k)
    PROVE  /\ \A n \in Nodes : Good(n, nodes[b][n]) /\ (n # data[b].id \/ k # UpdateNodeOrderIndex) =>
                 nodes'[b][n].parent = nodes[b][n].parent
           /\ Good(data[b].id, nodes[b][data[b].id]) /\ k = UpdateNodeOrderIndex /\ data[b].id \in Nodes =>
                 /\ S = Statements(b, data[b], k) => nodes'[b][data[b].id].parent = data[b].newParent
                 /\ S = UndoStatements(b, data[b], k) => nodes'[b][data[b].id].parent = data[b].oldParent
<1> DEFINE d == data[b]
           Here(n) == {s \in S : /\ s.op \in {"push", "pull", "place"}
                                 /\ s.branch = b /\ s.id = n}
<1>1. \A n \in Nodes : nodes'[b][n] = IF Here(n) = {} THEN nodes[b][n] ELSE NodeAfter(nodes[b][n], Here(n))
  BY DEF Apply, NodesAfter
<1>2. ASSUME NEW node \in NodeRows, NEW T
      PROVE  LET places == {s \in T : s.op = "place"} IN
             NodeAfter(node, T).parent = IF places = {} THEN node.parent
                                         ELSE (CHOOSE s \in places : TRUE).parent
  <2> DEFINE places == {s \in T : s.op = "place"}
             place == CHOOSE s \in places : TRUE
             Ids(op) == UNION {s.ids : s \in {t \in T : t.op = op}}
             placed == IF places = {} THEN node
                       ELSE [node EXCEPT !.parent = place.parent, !.order = place.order]
  <2>1. NodeAfter(node, T) = [placed EXCEPT !.ancestors = (@ \ Ids("pull")) \cup Ids("push")]
    BY DEF NodeAfter
  <2>2. CASE places = {}
    BY <2>1, <2>2 DEF NodeRows
  <2>3. CASE places # {}
    <3>1. placed = [node EXCEPT !.parent = place.parent, !.order = place.order]
      BY <2>3
    <3> HIDE DEF place, placed, Ids, places
    <3>2. [node EXCEPT !.parent = place.parent, !.order = place.order]
          = [parent |-> place.parent, ancestors |-> node.ancestors, order |-> place.order]
      BY PlacedNode
    <3>3. NodeAfter(node, T).parent = place.parent
      BY <2>1, <3>1, <3>2
    <3> QED
      BY <2>3, <3>3 DEF places, place
  <2> QED
    BY <2>2, <2>3
<1>3. \A s \in S : s.op = "place" => k = UpdateNodeOrderIndex /\ s.id = d.id
  BY StepNumbers DEF Statements, UndoStatements, Inserts, Deletes, Insert, Delete, PushAncestors, PullAncestors, Place
<1>4. ASSUME NEW n \in Nodes, Good(n, nodes[b][n]), n # d.id \/ k # UpdateNodeOrderIndex
      PROVE  nodes'[b][n].parent = nodes[b][n].parent
  <2>1. CASE Here(n) = {}
    BY <1>1, <2>1
  <2>2. CASE Here(n) # {}
    <3>1. {s \in Here(n) : s.op = "place"} = {}
      BY <1>3, <1>4
    <3>2. nodes'[b][n] = NodeAfter(nodes[b][n], Here(n)) /\ nodes[b][n] \in NodeRows
      BY <1>1, <1>4, <2>2 DEF Good
    <3> HIDE DEF Here
    <3> QED
      BY <1>2, <3>1, <3>2
  <2> QED
    BY <2>1, <2>2
<1>5. ASSUME Good(d.id, nodes[b][d.id]), d.id \in Nodes, NEW parent, NEW order, S = {Place(b, d.id, parent, order)}
      PROVE  nodes'[b][d.id].parent = parent
  <2> DEFINE place == Place(b, d.id, parent, order)
  <2>1. place.op = "place" /\ place.branch = b /\ place.id = d.id /\ place.parent = parent
    BY DEF Place
  <2> HIDE DEF place
  <2>2. Here(d.id) = {place} /\ {s \in Here(d.id) : s.op = "place"} = {place}
    BY <1>5, <2>1 DEF place
  <2>3. nodes'[b][d.id] = NodeAfter(nodes[b][d.id], {place}) /\ nodes[b][d.id] \in NodeRows
    BY <1>1, <1>5, <2>2 DEF Good
  <2>4. {s \in {place} : s.op = "place"} = {place} /\ (CHOOSE s \in {place} : TRUE) = place
    BY <2>1
  <2> DEFINE T == {place}
             places == {s \in T : s.op = "place"}
  <2>5. NodeAfter(nodes[b][d.id], T).parent = IF places = {} THEN nodes[b][d.id].parent
                                               ELSE (CHOOSE s \in places : TRUE).parent
    <3> HIDE DEF T
    <3> QED
      BY <1>2, <2>3
  <2>6. NodeAfter(nodes[b][d.id], T).parent = place.parent
    BY <2>4, <2>5
  <2> QED
    BY <2>1, <2>3, <2>6
<1>6. /\ Statements(b, d, UpdateNodeOrderIndex) = {Place(b, d.id, d.newParent, d.newOrder)}
      /\ UndoStatements(b, d, UpdateNodeOrderIndex) = {Place(b, d.id, d.oldParent, d.oldOrder)}
  BY DEF Statements, UndoStatements, UpdateNodeOrderIndex, RemoveNodeFromOldAncestors,
         AddNodeToNewAncestors, PullRemovedAncestorsFromNode, PullRemovedAncestorsFromDescendants,
         DeleteNodeDescendantsFromRemovedAncestors, PushAddedAncestorsToNode,
         PushAddedAncestorsToDescendants, InsertNodeDescendantsToAddedAncestors
<1> HIDE DEF Here
<1> QED
  BY <1>4, <1>5, <1>6

\* What the steps have in common: one branch's reorder goes on, the others'
\* lists and nodes stay.
LEMMA ListAssemble ==
    ASSUME ListInv, TypeInv', NEW b \in Branches, NEW m, NEW k, GoTo(b, m, k),
           data' = [data EXCEPT ![b] = data'[b]],
           Keeps(b), reordered' = [reordered EXCEPT ![b] = reordered'[b]],
           reordered'[b] = [n \in Nodes |-> reordered'[b][n]],
           b # Original => ListOK(b)'
    PROVE  ListInv'
<1>1. \A c \in Branches \ {b} :
         /\ mode'[c] = mode[c] /\ step'[c] = step[c] /\ data'[c] = data[c]
         /\ nodes'[c] = nodes[c] /\ reordered'[c] = reordered[c]
  BY DEF GoTo, Keeps, ListInv, TypeInv, TypeOK
<1>2. ASSUME NEW c \in Contributions
      PROVE  ListOK(c)'
  <2>1. c \in Branches /\ c # Original
    BY TreeAssumption DEF Branches
  <2>2. CASE c = b
    BY <2>1, <2>2
  <2>3. CASE c # b
    <3>1. ListOK(c)
      BY DEF ListInv
    <3> QED
      BY <1>1, <2>1, <2>3, <3>1, ListKeeps DEF ListInv
  <2> QED
    BY <2>2, <2>3
<1>3. reordered' = [c \in Branches |-> [n \in Nodes |-> reordered'[c][n]]]
  <2>1. reordered' = [c \in Branches |-> reordered'[c]]
    BY DEF ListInv
  <2>2. \A c \in Branches : reordered'[c] = [n \in Nodes |-> reordered'[c][n]]
    BY <1>1 DEF ListInv
  <2> QED
    BY <2>1, <2>2
<1> QED
  BY <1>2, <1>3 DEF ListInv

\* While a branch is not at its steps, nodes may come: its list stays right.
LEMMA ListAtRest ==
    ASSUME ListInv, NEW b \in Contributions, reordered'[b] = reordered[b],
           \A n \in Nodes : nodes[b][n] # Nobody => nodes'[b][n] = nodes[b][n],
           mode[b] \in {"idle", "read", "copy"}
    PROVE  /\ \A n \in Nodes : reordered'[b][n] # Nobody => Good(n, nodes'[b][n])
           /\ \A n \in Nodes : Names(reordered'[b][n], nodes'[b][n].parent)
BY GoodExists, ZenonT(60) DEF ListInv, ListOK, Names

\* Statements of a step, or of its undo, are executed, and the entry made or not.
Advances(b, S, entry) ==
    /\ mode[b] \in {"forward", "backward"}
    /\ S \subseteq Statements(b, data[b], step[b]) \/ S \subseteq UndoStatements(b, data[b], step[b])
    /\ Apply(S) /\ Keeps(b) /\ data'[b] = data[b]
    /\ reordered' \in {reordered, List(b, step[b], entry)}

\* What they do, and what the entry does.
LEMMA ListApply ==
    ASSUME ListInv, NEW b \in Contributions, NEW S, NEW entry, Advances(b, S, entry)
    PROVE  /\ reordered' = [reordered EXCEPT ![b] = reordered'[b]]
           /\ reordered'[b] = [n \in Nodes |-> reordered'[b][n]]
           /\ \A n \in Nodes : reordered'[b][n] # Nobody => Good(n, nodes'[b][n])
           /\ \A n \in Nodes \ {data[b].id} : Names(reordered'[b][n], nodes'[b][n].parent)
           /\ step[b] # UpdateBranch => reordered'[b][data[b].id] = reordered[b][data[b].id]
           /\ step[b] # UpdateNodeOrderIndex =>
                 nodes'[b][data[b].id].parent = nodes[b][data[b].id].parent
           /\ step[b] = UpdateNodeOrderIndex =>
                 /\ S = Statements(b, data[b], step[b]) => nodes'[b][data[b].id].parent = data[b].newParent
                 /\ S = UndoStatements(b, data[b], step[b]) => nodes'[b][data[b].id].parent = data[b].oldParent
<1> USE DEF ListInv, Advances
<1>1. b \in Branches /\ b # Original /\ ListOK(b)
  BY TreeAssumption DEF Branches
<1>2. data[b].id \in Nodes /\ Good(data[b].id, nodes[b][data[b].id])
  BY <1>1 DEF TypeInv, BranchOK, Known, There
<1>3. \A n \in Nodes : Good(n, nodes[b][n]) /\ (n # data[b].id \/ step[b] # UpdateNodeOrderIndex) =>
         nodes'[b][n].parent = nodes[b][n].parent
  BY <1>1, ParentsAfter
<1>4. \A n \in Nodes : Good(n, nodes[b][n]) => Good(n, nodes'[b][n])
  BY DEF Keeps
<1>5. /\ step[b] # UpdateNodeOrderIndex =>
            nodes'[b][data[b].id].parent = nodes[b][data[b].id].parent
      /\ step[b] = UpdateNodeOrderIndex =>
            /\ S = Statements(b, data[b], step[b]) => nodes'[b][data[b].id].parent = data[b].newParent
            /\ S = UndoStatements(b, data[b], step[b]) => nodes'[b][data[b].id].parent = data[b].oldParent
  <2>1. step[b] # UpdateNodeOrderIndex =>
            nodes'[b][data[b].id].parent = nodes[b][data[b].id].parent
    BY <1>2, <1>3
  <2> DEFINE k == step[b]
  <2> HIDE DEF k
  <2>2. S \subseteq Statements(b, data[b], k) \/ S \subseteq UndoStatements(b, data[b], k)
    BY DEF k
  <2>3. k = UpdateNodeOrderIndex =>
            /\ S = Statements(b, data[b], k) => nodes'[b][data[b].id].parent = data[b].newParent
            /\ S = UndoStatements(b, data[b], k) => nodes'[b][data[b].id].parent = data[b].oldParent
    BY <1>1, <1>2, <2>2, ParentsAfter
  <2> QED
    BY <2>1, <2>3 DEF k
<1>6. CASE reordered' = reordered
  <2>1. \A n \in Nodes : reordered'[b][n] # Nobody => Good(n, nodes'[b][n])
    BY <1>1, <1>4, <1>6 DEF ListOK
  <2>2. \A n \in Nodes \ {data[b].id} : Names(reordered'[b][n], nodes'[b][n].parent)
    BY <1>1, <1>3, <1>6 DEF ListOK, Names
  <2> QED
    BY <1>1, <1>6, <1>5, <2>1, <2>2
<1>7. CASE step[b] = UpdateBranch /\ reordered' = [reordered EXCEPT ![b][data[b].id] = entry]
  <2>1. /\ reordered' = [reordered EXCEPT ![b] = reordered'[b]]
        /\ reordered'[b] = [n \in Nodes |-> reordered'[b][n]]
        /\ \A n \in Nodes \ {data[b].id} : reordered'[b][n] = reordered[b][n]
    BY <1>1, <1>2, <1>7
  <2>2. \A n \in Nodes : reordered'[b][n] # Nobody => Good(n, nodes'[b][n])
    BY <1>1, <1>2, <1>4, <2>1 DEF ListOK
  <2>3. \A n \in Nodes \ {data[b].id} : Names(reordered'[b][n], nodes'[b][n].parent)
    BY <1>1, <1>3, <2>1 DEF ListOK, Names
  <2> QED
    BY <1>7, <1>5, <2>1, <2>2, <2>3
<1> QED
  BY <1>1, <1>6, <1>7 DEF List

\* The entry of a step, and of its undo, names where the node is put.
LEMMA Entries ==
    ASSUME NEW d
    PROVE  /\ Entry(d).newParent = d.newParent
           /\ UndoEntry(d).newParent = d.oldParent
BY DEF Entry, UndoEntry

\* At first nothing is listed.
LEMMA ListInit == Init => ListInv
<1> SUFFICES ASSUME Init PROVE ListInv
  OBVIOUS
<1>1. reordered = [b \in Branches |-> [n \in Nodes |-> Nobody]] /\ mode = [b \in Branches |-> "idle"]
  BY DEF Init
<1>2. \A b \in Contributions : b \in Branches
  BY DEF Branches
<1> QED
  BY <1>1, <1>2, TypeInit DEF ListInv, ListOK, Names

\* Every step keeps the list, provided no write of the list fails unseen.
LEMMA ListStep == ASSUME ~SilentListError, ListInv, [Next]_vars PROVE ListInv'
<1>1. TypeInv /\ TypeInv'
  BY TypeStep DEF ListInv
<1>2. \A b \in Branches : b # Original => b \in Contributions /\ ListOK(b)
  BY DEF Branches, ListInv
<1>3. ASSUME NEW b \in Branches, UNCHANGED reordered
      PROVE  /\ reordered' = [reordered EXCEPT ![b] = reordered'[b]]
             /\ reordered'[b] = [n \in Nodes |-> reordered'[b][n]]
  BY <1>3 DEF ListInv
<1>4. ASSUME NEW b \in Branches, NEW m, NEW k, GoTo(b, m, k)
      PROVE  mode'[b] = m /\ step'[b] = k
  BY <1>1, <1>4 DEF GoTo, TypeInv, TypeOK
<1>5. ASSUME UNCHANGED vars
      PROVE  ListInv'
  <2>1. \A b \in Contributions : ListOK(b)'
    BY <1>1, <1>5, ListKeeps DEF vars, ListInv
  <2> QED
    BY <1>1, <1>5, <2>1 DEF vars, ListInv
<1>6. ASSUME NEW b \in Branches, FindNode(b)
      PROVE  ListInv'
  <2>1. PICK n \in Nodes \ {Root}, parent \in Nodes, upper \in Nodes \cup {Nobody}, lower \in Nodes \cup {Nobody},
             given \in GivenIndexes \cup {Nobody} :
           /\ IF b = Original
              THEN UNCHANGED <<nodes, rows>>
              ELSE Copy(b, {n} \cup BranchedOrOriginal(b, n).ancestors)
           /\ data' = [data EXCEPT ![b] =
                         [id |-> n, node |-> BranchedOrOriginal(b, n), newParent |-> parent,
                          upper |-> upper, lower |-> lower, given |-> given]]
    BY <1>6 DEF FindNode
  <2>2. GoTo(b, "read", 0) /\ mode[b] = "idle" /\ UNCHANGED reordered
    BY <1>6 DEF FindNode
  <2>3. BranchedOrOriginal(b, n) \in NodeRows
    BY <1>1, Shown DEF TypeInv
  <2> DEFINE S == {n} \cup BranchedOrOriginal(b, n).ancestors
  <2>4. S \in SUBSET Nodes /\ n \in S
    BY <2>1, <2>3 DEF NodeRows
  <2>5. data' = [data EXCEPT ![b] = data'[b]]
    BY <2>1
  <2>6. /\ data'[b].id = n /\ data'[b].node = BranchedOrOriginal(b, n)
    BY <1>1, <2>1 DEF TypeInv
  <2> HIDE DEF S
  <2>7. CASE b = Original
    BY <1>1, <1>3, <2>1, <2>2, <2>5, <2>7, KeepsAll, ListAssemble
  <2>8. CASE b # Original
    <3>1. Copy(b, S)
      BY <2>1, <2>8 DEF S
    <3>2. /\ Keeps(b)
          /\ \A x \in Nodes : nodes[b][x] # Nobody => nodes'[b][x] = nodes[b][x]
          /\ nodes[b][n] = Nobody => nodes'[b][n] = nodes[Original][n]
      BY <1>1, <2>4, <2>8, <3>1, CopyType DEF TypeInv
    <3>3. nodes'[b][n] = BranchedOrOriginal(b, n)
      BY <3>2 DEF BranchedOrOriginal, Exists
    <3>4. ListOK(b)'
      BY <1>2, <1>4, <2>2, <2>6, <2>8, <3>2, <3>3, ListAtRest DEF ListOK
    <3> QED
      BY <1>1, <1>3, <2>2, <2>5, <3>2, <3>4, ListAssemble
  <2> QED
    BY <2>7, <2>8
<1>7. ASSUME NEW b \in Branches, Refuse(b) \/ Finished(b) \/ RolledBack(b)
      PROVE  ListInv'
  <2>1. /\ GoTo(b, "idle", 0) /\ data' = [data EXCEPT ![b] = NoData]
        /\ UNCHANGED <<nodes, rows, reordered>>
    BY <1>7 DEF Refuse, Finished, RolledBack, Return, tables
  <2>2. Keeps(b) /\ data' = [data EXCEPT ![b] = data'[b]]
    BY <1>1, <2>1, KeepsAll DEF TypeInv
  <2>3. ASSUME b # Original
        PROVE  ListOK(b)'
    <3>1. ListOK(b)
      BY <1>2, <2>3
    <3>2. \A n \in Nodes : Names(reordered[b][n], nodes[b][n].parent)
      <4>1. CASE mode[b] = "read"
        BY <3>1, <4>1 DEF ListOK
      <4>2. CASE mode[b] = "forward" /\ step[b] = Finish
        <5>1. nodes[b][data[b].id].parent = data[b].newParent /\ Names(reordered[b][data[b].id], data[b].newParent)
          BY <3>1, <4>2, StepNumbers DEF ListOK, Moving
        <5> QED
          BY <3>1, <5>1 DEF ListOK
      <4>3. CASE mode[b] = "backward" /\ step[b] = 0
        <5>1. nodes[b][data[b].id].parent = data[b].oldParent /\ Names(reordered[b][data[b].id], data[b].oldParent)
          BY <3>1, <4>3, StepNumbers DEF ListOK, Moving
        <5> QED
          BY <3>1, <4>3, <5>1 DEF ListOK
      <4> QED
        BY <1>7, <4>1, <4>2, <4>3 DEF Refuse, Finished, RolledBack
    <3>3. mode'[b] = "idle"
      BY <1>4, <2>1
    <3> QED
      BY <2>1, <3>1, <3>2, <3>3 DEF ListOK, Good, Names
  <2> QED
    BY <1>1, <1>3, <2>1, <2>2, <2>3, ListAssemble
<1>8. ASSUME NEW b \in Branches, Validate(b)
      PROVE  ListInv'
  <2>1. /\ mode[b] = "read" /\ GoTo(b, "copy", 0) /\ data' = [data EXCEPT ![b] = FromParams(b)]
        /\ UNCHANGED <<nodes, rows, reordered>>
    BY <1>8 DEF Validate, tables
  <2>2. Keeps(b) /\ data' = [data EXCEPT ![b] = data'[b]] /\ data'[b] = FromParams(b)
    BY <1>1, <2>1, KeepsAll DEF TypeInv
  <2>3. FromParams(b).id = data[b].id /\ FromParams(b).oldParent = data[b].node.parent
    BY DEF FromParams
  <2>4. ASSUME b # Original
        PROVE  ListOK(b)'
    <3>1. ListOK(b)
      BY <1>2, <2>4
    <3>2. mode'[b] = "copy"
      BY <1>4, <2>1
    <3> QED
      BY <2>1, <2>2, <2>3, <3>1, <3>2 DEF ListOK, Good, Names
  <2> QED
    BY <1>1, <1>3, <2>1, <2>2, <2>4, ListAssemble
<1>9. ASSUME NEW b \in Branches, CreateBranchNodes(b)
      PROVE  ListInv'
  <2>1. /\ mode[b] = "copy" /\ GoTo(b, "forward", UpdateNodeOrderIndex) /\ UNCHANGED <<data, reordered>>
        /\ IF b = Original THEN UNCHANGED <<nodes, rows>> ELSE Copy(b, Touched(data[b]))
    BY <1>9 DEF CreateBranchNodes
  <2>2. data' = [data EXCEPT ![b] = data'[b]]
    BY <1>1, <2>1 DEF TypeInv
  <2>3. CASE b = Original
    BY <1>1, <1>3, <2>1, <2>2, <2>3, KeepsAll, ListAssemble
  <2>4. CASE b # Original
    <3>1. Known(data[b]) /\ Good(data[b].id, nodes[b][data[b].id]) /\ data[b].id \in Nodes
      BY <1>1, <2>1 DEF TypeInv, BranchOK, Known
    <3>2. Touched(data[b]) \in SUBSET Nodes
      BY <3>1 DEF Touched, Known, DescendantIds, RowOK
    <3>3. Keeps(b) /\ \A x \in Nodes : nodes[b][x] # Nobody => nodes'[b][x] = nodes[b][x]
      BY <1>1, <2>1, <2>4, <3>2, CopyType DEF TypeInv
    <3>4. nodes'[b][data[b].id] = nodes[b][data[b].id]
      BY <3>1, <3>3, GoodExists
    <3>5. b \in Contributions /\ ListOK(b)
      BY <1>2, <2>4
    <3>6. /\ \A n \in Nodes : reordered'[b][n] # Nobody => Good(n, nodes'[b][n])
          /\ \A n \in Nodes : Names(reordered'[b][n], nodes'[b][n].parent)
      BY <2>1, <3>3, <3>5, ListAtRest
    <3>7. mode'[b] = "forward" /\ step'[b] = UpdateNodeOrderIndex
      BY <1>4, <2>1
    <3>8. nodes'[b][data[b].id].parent = data[b].oldParent
      BY <2>1, <3>4, <3>5 DEF ListOK
    <3>9. Moving(b)'
      BY <2>1, <3>1, <3>6, <3>7, <3>8, StepNumbers DEF Moving
    <3>10. ListOK(b)'
      BY <3>6, <3>7, <3>9 DEF ListOK, Good, Names
    <3> QED
      BY <1>1, <1>3, <2>1, <2>2, <3>3, <3>10, ListAssemble
  <2> QED
    BY <2>3, <2>4
<1>10. ASSUME NEW b \in Branches, Execute(b)
      PROVE  ListInv'
  <2> DEFINE S == Statements(b, data[b], step[b])
  <2>1. /\ mode[b] = "forward" /\ step[b] \in Steps /\ Apply(S)
        /\ GoTo(b, "forward", step[b] + 1) /\ UNCHANGED data
        /\ reordered' = List(b, step[b], Entry(data[b]))
    BY <1>10 DEF Execute, Listed
  <2>2. Keeps(b) /\ data' = [data EXCEPT ![b] = data'[b]] /\ data'[b] = data[b]
    BY <1>1, <2>1, ApplyPart DEF TypeInv
  <2>3. CASE b = Original
    <3>1. UNCHANGED reordered
      BY <2>1, <2>3 DEF List
    <3> QED
      BY <1>1, <1>3, <2>1, <2>2, <2>3, <3>1, ListAssemble
  <2>4. CASE b # Original
    <3>1. b \in Contributions /\ ListOK(b) /\ Moving(b) /\ data[b].id \in Nodes
      BY <1>1, <1>2, <2>1, <2>4 DEF ListOK, TypeInv, BranchOK, Known
    <3> HIDE DEF S
    <3>2. /\ reordered' = [reordered EXCEPT ![b] = reordered'[b]]
          /\ reordered'[b] = [n \in Nodes |-> reordered'[b][n]]
          /\ \A n \in Nodes : reordered'[b][n] # Nobody => Good(n, nodes'[b][n])
          /\ \A n \in Nodes \ {data[b].id} : Names(reordered'[b][n], nodes'[b][n].parent)
          /\ step[b] # UpdateBranch => reordered'[b][data[b].id] = reordered[b][data[b].id]
          /\ step[b] # UpdateNodeOrderIndex =>
                nodes'[b][data[b].id].parent = nodes[b][data[b].id].parent
          /\ step[b] = UpdateNodeOrderIndex => nodes'[b][data[b].id].parent = data[b].newParent
      <4>1. S = Statements(b, data[b], step[b])
        BY DEF S
      <4>2. Advances(b, S, Entry(data[b]))
        BY <2>1, <2>2, <4>1 DEF Advances
      <4> QED
        BY <3>1, <4>1, <4>2, ListApply
    <3>3. step[b] = UpdateBranch => reordered'[b][data[b].id].newParent = data[b].newParent
      BY <2>1, <2>4, <3>1, Entries DEF List, ListInv
    <3>4. mode'[b] = "forward" /\ step'[b] = step[b] + 1 /\ step[b] \in 1 .. 11
      BY <1>4, <2>1, StepNumbers
    <3>5. Moving(b)'
      <4>1. nodes'[b][data[b].id].parent = data[b].newParent
        BY <2>1, <3>1, <3>2, <3>4, StepNumbers DEF Moving
      <4>2. Names(reordered'[b][data[b].id], IF step[b] + 1 <= 10 THEN data[b].oldParent ELSE data[b].newParent)
        <5>1. CASE step[b] = 10
          BY <3>3, <5>1, StepNumbers DEF Names
        <5>2. CASE step[b] # 10
          BY <2>1, <3>1, <3>2, <3>4, <5>2, StepNumbers DEF Moving
        <5> QED
          BY <5>1, <5>2
      <4> QED
        BY <2>2, <3>4, <4>1, <4>2, StepNumbers DEF Moving, Names
    <3>6. ListOK(b)'
      BY <2>2, <3>2, <3>4, <3>5 DEF ListOK, Good, Names
    <3> QED
      BY <1>1, <2>1, <2>2, <3>2, <3>6, ListAssemble
  <2> QED
    BY <2>3, <2>4
<1>11. ASSUME NEW b \in Branches, Undo(b)
      PROVE  ListInv'
  <2> DEFINE S == UndoStatements(b, data[b], step[b])
  <2>1. /\ mode[b] = "backward" /\ step[b] \in Steps /\ Apply(S)
        /\ GoTo(b, "backward", step[b] - 1) /\ UNCHANGED data
        /\ reordered' = List(b, step[b], UndoEntry(data[b]))
    BY <1>11 DEF Undo, Listed
  <2>2. Keeps(b) /\ data' = [data EXCEPT ![b] = data'[b]] /\ data'[b] = data[b]
    BY <1>1, <2>1, ApplyPart DEF TypeInv
  <2>3. CASE b = Original
    <3>1. UNCHANGED reordered
      BY <2>1, <2>3 DEF List
    <3> QED
      BY <1>1, <1>3, <2>1, <2>2, <2>3, <3>1, ListAssemble
  <2>4. CASE b # Original
    <3>1. b \in Contributions /\ ListOK(b) /\ Moving(b) /\ data[b].id \in Nodes
      BY <1>1, <1>2, <2>1, <2>4 DEF ListOK, TypeInv, BranchOK, Known
    <3> HIDE DEF S
    <3>2. /\ reordered' = [reordered EXCEPT ![b] = reordered'[b]]
          /\ reordered'[b] = [n \in Nodes |-> reordered'[b][n]]
          /\ \A n \in Nodes : reordered'[b][n] # Nobody => Good(n, nodes'[b][n])
          /\ \A n \in Nodes \ {data[b].id} : Names(reordered'[b][n], nodes'[b][n].parent)
          /\ step[b] # UpdateBranch => reordered'[b][data[b].id] = reordered[b][data[b].id]
          /\ step[b] # UpdateNodeOrderIndex =>
                nodes'[b][data[b].id].parent = nodes[b][data[b].id].parent
          /\ step[b] = UpdateNodeOrderIndex => nodes'[b][data[b].id].parent = data[b].oldParent
      <4>1. S = UndoStatements(b, data[b], step[b])
        BY DEF S
      <4>2. Advances(b, S, UndoEntry(data[b]))
        BY <2>1, <2>2, <4>1 DEF Advances
      <4> QED
        BY <3>1, <4>1, <4>2, ListApply
    <3>3. step[b] = UpdateBranch => reordered'[b][data[b].id].newParent = data[b].oldParent
      BY <2>1, <2>4, <3>1, Entries DEF List, ListInv
    <3>4. mode'[b] = "backward" /\ step'[b] = step[b] - 1 /\ step[b] \in 1 .. 11
      BY <1>4, <2>1, StepNumbers
    <3>5. Moving(b)'
      <4>1. /\ step[b] - 1 < 1 => nodes'[b][data[b].id].parent = data[b].oldParent
            /\ step[b] - 1 > 1 => nodes'[b][data[b].id].parent = data[b].newParent
        BY <2>1, <3>1, <3>2, <3>4, StepNumbers DEF Moving
      <4>2. step[b] - 1 < 10 => Names(reordered'[b][data[b].id], data[b].oldParent)
        <5>1. CASE step[b] = 10
          BY <3>3, <5>1, StepNumbers DEF Names
        <5>2. CASE step[b] # 10
          BY <2>1, <3>1, <3>2, <3>4, <5>2, StepNumbers DEF Moving
        <5> QED
          BY <5>1, <5>2
      <4>3. ~(step[b] - 1 > 10)
        BY <3>4
      <4> QED
        BY <2>2, <3>4, <4>1, <4>2, <4>3, StepNumbers DEF Moving, Names
    <3>6. ListOK(b)'
      BY <2>2, <3>2, <3>4, <3>5 DEF ListOK, Good, Names
    <3> QED
      BY <1>1, <2>1, <2>2, <3>2, <3>6, ListAssemble
  <2> QED
    BY <2>3, <2>4
<1>12. ASSUME NEW b \in Branches, NEW m \in {"backward", "dead"}, GoTo(b, m, step[b]), UNCHANGED data,
              mode[b] \in {"forward", "backward"}, step[b] \in Steps,
              NEW S, S \subseteq Statements(b, data[b], step[b]) \/ S \subseteq UndoStatements(b, data[b], step[b]),
              Apply(S), NEW entry, reordered' \in {reordered, List(b, step[b], entry)}
       PROVE  ListInv'
  <2>1. Keeps(b) /\ data' = [data EXCEPT ![b] = data'[b]] /\ data'[b] = data[b]
    BY <1>1, <1>12, ApplyPart DEF TypeInv
  <2>2. CASE b = Original
    <3>1. UNCHANGED reordered
      BY <1>12, <2>2 DEF List
    <3> QED
      BY <1>1, <1>3, <1>12, <2>1, <2>2, <3>1, ListAssemble
  <2>3. CASE b # Original
    <3>1. b \in Contributions /\ ListOK(b) /\ Moving(b) /\ data[b].id \in Nodes
      BY <1>1, <1>2, <1>12, <2>3 DEF ListOK, TypeInv, BranchOK, Known
    <3>2. /\ reordered' = [reordered EXCEPT ![b] = reordered'[b]]
          /\ reordered'[b] = [n \in Nodes |-> reordered'[b][n]]
          /\ \A n \in Nodes : reordered'[b][n] # Nobody => Good(n, nodes'[b][n])
          /\ \A n \in Nodes \ {data[b].id} : Names(reordered'[b][n], nodes'[b][n].parent)
          /\ step[b] # UpdateBranch => reordered'[b][data[b].id] = reordered[b][data[b].id]
          /\ step[b] # UpdateNodeOrderIndex =>
                nodes'[b][data[b].id].parent = nodes[b][data[b].id].parent
      <4>1. Advances(b, S, entry)
        BY <1>12, <2>1 DEF Advances
      <4> QED
        BY <3>1, <4>1, ListApply
    <3>3. mode'[b] = m /\ step'[b] = step[b] /\ step[b] \in 1 .. 11
      BY <1>4, <1>12, StepNumbers
    <3>4. Moving(b)'
      <4>1. step[b] > 1 => nodes'[b][data[b].id].parent = data[b].newParent
        BY <1>12, <3>1, <3>2, <3>3, StepNumbers DEF Moving
      <4>2. /\ step[b] < 10 => Names(reordered'[b][data[b].id], data[b].oldParent)
            /\ step[b] > 10 => Names(reordered'[b][data[b].id], data[b].newParent)
        BY <1>12, <3>1, <3>2, <3>3, StepNumbers DEF Moving
      <4>3. ~(step[b] < 1)
        BY <3>3
      <4> QED
        BY <2>1, <3>3, <4>1, <4>2, <4>3, StepNumbers DEF Moving, Names
    <3>5. ListOK(b)'
      BY <2>1, <3>2, <3>3, <3>4 DEF ListOK, Good, Names
    <3> QED
      BY <1>1, <1>12, <2>1, <3>2, <3>5, ListAssemble
  <2> QED
    BY <2>2, <2>3
<1>13. ASSUME NEW b \in Branches, FailExecute(b)
       PROVE  ListInv'
  <2>1. PICK S \in SUBSET Statements(b, data[b], step[b]) : Apply(S)
    BY <1>13 DEF FailExecute
  <2>2. PICK m \in {"backward", "dead"} : GoTo(b, m, step[b])
    BY <1>13 DEF FailExecute
  <2>3. /\ mode[b] = "forward" /\ step[b] \in Steps /\ UNCHANGED data
        /\ reordered' \in {reordered, List(b, step[b], Entry(data[b]))}
    BY <1>13 DEF FailExecute
  <2> QED
    BY <1>12, <2>1, <2>2, <2>3
<1>14. ASSUME NEW b \in Branches, FailUndo(b)
       PROVE  ListInv'
  <2>1. PICK S \in SUBSET UndoStatements(b, data[b], step[b]) : Apply(S)
    BY <1>14 DEF FailUndo
  <2>2. /\ mode[b] = "backward" /\ step[b] \in Steps /\ GoTo(b, "dead", step[b]) /\ UNCHANGED data
        /\ reordered' \in {reordered, List(b, step[b], UndoEntry(data[b]))}
    BY <1>14 DEF FailUndo
  <2> QED
    BY <1>12, <2>1, <2>2
<1>15. ASSUME NEW b \in Branches, Recover(b) \/ FailFinish(b)
       PROVE  ListInv'
  <2>1. /\ UNCHANGED <<nodes, rows, reordered, data>>
        /\ \/ mode[b] = "dead" /\ GoTo(b, "backward", step[b])
           \/ mode[b] = "forward" /\ step[b] = Finish /\ GoTo(b, "backward", PushNewEditors)
    BY <1>15 DEF Recover, FailFinish, tables
  <2>2. Keeps(b) /\ data' = [data EXCEPT ![b] = data'[b]]
    BY <1>1, <2>1, KeepsAll DEF TypeInv
  <2>3. ASSUME b # Original
        PROVE  ListOK(b)'
    <3>1. ListOK(b) /\ Moving(b)
      BY <1>2, <2>1, <2>3 DEF ListOK
    <3>2. mode'[b] = "backward"
      BY <1>4, <2>1
    <3>3. Moving(b)'
      <4>1. CASE mode[b] = "dead" /\ GoTo(b, "backward", step[b])
        <5>1. step'[b] = step[b]
          BY <1>4, <4>1
        <5> QED
          BY <2>1, <3>1, <3>2, <4>1, <5>1 DEF Moving, Names
      <4>2. CASE mode[b] = "forward" /\ step[b] = Finish /\ GoTo(b, "backward", PushNewEditors)
        <5>1. step'[b] = 11
          BY <1>4, <4>2, StepNumbers
        <5>2. nodes[b][data[b].id].parent = data[b].newParent /\ Names(reordered[b][data[b].id], data[b].newParent)
          BY <3>1, <4>2, StepNumbers DEF Moving
        <5> QED
          BY <2>1, <3>2, <5>1, <5>2, StepNumbers DEF Moving, Names
      <4> QED
        BY <2>1, <4>1, <4>2
    <3> QED
      BY <2>1, <3>1, <3>2, <3>3 DEF ListOK, Good, Names
  <2> QED
    BY <1>1, <1>3, <2>1, <2>2, <2>3, ListAssemble
<1>16. ASSUME NEW b \in Branches, FailCreateBranchNodes(b)
       PROVE  ListInv'
  <2>1. PICK S \in SUBSET Above(b, Touched(data[b])) : CopyWithoutRows(b, S)
    BY <1>16 DEF FailCreateBranchNodes
  <2>2. /\ b # Original /\ GoTo(b, "idle", 0) /\ data' = [data EXCEPT ![b] = NoData]
        /\ mode[b] = "copy" /\ UNCHANGED reordered
    BY <1>16 DEF FailCreateBranchNodes
  <2>3. S \in SUBSET Nodes
    <3>1. Touched(data[b]) \subseteq Nodes
      BY <1>1, <2>2 DEF TypeInv, BranchOK, Touched, Known, DescendantIds, RowOK
    <3>2. \A n \in Nodes : nodes[Original][n].ancestors \subseteq Nodes
      BY <1>1 DEF TypeInv, TablesOK, Good, NodeRows
    <3> QED
      BY <3>1, <3>2 DEF Above
  <2>4. Keeps(b) /\ \A x \in Nodes : nodes[b][x] # Nobody => nodes'[b][x] = nodes[b][x]
    BY <1>1, <2>1, <2>2, <2>3, CopyType DEF TypeInv
  <2>5. data' = [data EXCEPT ![b] = data'[b]] /\ mode'[b] = "idle"
    BY <1>1, <1>4, <2>2 DEF TypeInv
  <2>6. ListOK(b)'
    BY <1>2, <2>2, <2>4, <2>5, ListAtRest DEF ListOK
  <2> QED
    BY <1>1, <1>3, <2>2, <2>4, <2>5, <2>6, ListAssemble
<1> QED
  BY <1>5, <1>6, <1>7, <1>8, <1>9, <1>10, <1>11, <1>13, <1>14, <1>15, <1>16 DEF Next

\* Whatever fails, is undone or recovered: where a contribution lists a node as
\* reordered, there the node is, provided Branch::update reports its errors.
THEOREM ListTellsWhere == ~SilentListError => (Spec => []ListFollowsTree)
<1> SUFFICES ASSUME ~SilentListError PROVE Spec => []ListFollowsTree
  OBVIOUS
<1>1. ListInv /\ [Next]_vars => ListInv'
  BY ListStep
<1>2. ListInv => ListFollowsTree
  BY DEF ListInv, ListOK, ListFollowsTree, Names
<1> QED
  BY <1>1, <1>2, ListInit, PTL DEF Spec

-----------------------------------------------------------------------------
(* The original's tree.                                                    *)

\* The nodes T are a tree, and R are the rows they call for.
IsTreeOf(T) ==
    \A n \in Nodes :
        /\ T[n].ancestors \subseteq Nodes
        /\ n \notin T[n].ancestors
        /\ IF n = Root THEN T[n].ancestors = {}
           ELSE /\ T[n].parent \in Nodes
                /\ T[n].ancestors = {T[n].parent} \cup T[T[n].parent].ancestors

RowsOfTree(T, R) == R = UNION {AncestorRows(Original, n, T[n]) : n \in Nodes}

\* The data d of a validated reorder are those of the tree.
Planned(d, T, R) ==
    /\ d.id \in Nodes \ {Root} /\ d.newParent \in Nodes
    /\ d.oldParent = T[d.id].parent /\ d.oldOrder = T[d.id].order
    /\ d.oldAncestors = T[d.id].ancestors
    /\ d.newAncestors = {d.newParent} \cup T[d.newParent].ancestors
    /\ d.removed = d.oldAncestors \ d.newAncestors /\ d.added = d.newAncestors \ d.oldAncestors
    /\ d.descendants = {row \in R : row.node = d.id}
    /\ NotMovedWithinSelf(d)

\* With a reorder at step k, step j is done, or has not been touched; backward
\* and dead at k, step k itself may have been done in part.
Done(k, j) == k > j
Undone(m, k, j) == IF m = "forward" THEN k <= j ELSE k < j

\* A set of ancestors that step i rids of the removed and step j gives the added.
Swap(X, old, d, m, k, i, j) ==
    LET rest == old \ d.removed IN
    /\ rest \subseteq X
    /\ Undone(m, k, j) => X \subseteq old
    /\ ~Undone(m, k, j) => X \subseteq rest \cup d.added
    /\ Undone(m, k, i) => X = old
    /\ Done(k, i) /\ Undone(m, k, j) => X = rest
    /\ Done(k, j) => X = rest \cup d.added

\* The node's own rows, deleted by step 2 and inserted by step 3.
OwnRows(X, d, m, k) ==
    LET old == NodeRowsAt(Original, d, d.oldAncestors, d.oldOrder, d.oldParent)
        new == NodeRowsAt(Original, d, d.newAncestors, d.newOrder, d.newParent) IN
    /\ Undone(m, k, 3) => X \subseteq old
    /\ ~Undone(m, k, 3) => X \subseteq new
    /\ Undone(m, k, 2) => X = old
    /\ Done(k, 2) /\ Undone(m, k, 3) => X = {}
    /\ Done(k, 3) => X = new

\* Where a node has a row, if it has its order and parent of the tree T.
ListedAt(R, T, n) == {a \in Nodes : Row(Original, a, T[n].order, n, T[n].parent) \in R}

HalfwayNodes(N, T, d, m, k) ==
    /\ \A n \in Nodes : n # d.id => N[n].parent = T[n].parent /\ N[n].order = T[n].order
    /\ \A n \in Nodes : n \notin {d.id} \cup DescendantIds(d) => N[n].ancestors = T[n].ancestors
    /\ \A n \in DescendantIds(d) : Swap(N[n].ancestors, T[n].ancestors, d, m, k, 5, 8)
    /\ Swap(N[d.id].ancestors, T[d.id].ancestors, d, m, k, 4, 7)
    /\ Undone(m, k, 1) => N[d.id].parent = d.oldParent /\ N[d.id].order = d.oldOrder
    /\ Done(k, 1) => N[d.id].parent = d.newParent /\ N[d.id].order = d.newOrder

HalfwayRows(R, T, d, m, k) ==
    /\ \A row \in R : row.id # d.id =>
          row = Row(Original, row.node, T[row.id].order, row.id, T[row.id].parent)
    /\ \A n \in Nodes : n \notin {d.id} \cup DescendantIds(d) => ListedAt(R, T, n) = T[n].ancestors
    /\ \A n \in DescendantIds(d) : Swap(ListedAt(R, T, n), T[n].ancestors, d, m, k, 6, 9)
    /\ OwnRows({row \in R : row.id = d.id}, d, m, k)

OriginalRows == RowsOf(Original, rows)

OriginalOK ==
    LET o == Original
        d == data[o]
        m == mode[o] IN
    /\ m \in {"idle", "read", "copy"} => IsTreeOf(nodes[o]) /\ RowsOfTree(nodes[o], OriginalRows)
    /\ m = "read" => d.node = nodes[o][d.id]
    /\ m = "copy" => Planned(d, nodes[o], OriginalRows)
    /\ m \in {"forward", "backward", "dead"} =>
          LET T == before[o].nodes IN
          /\ T \in [Nodes -> NodeRows]
          /\ IsTreeOf(T) /\ RowsOfTree(T, before[o].rows)
          /\ Planned(d, T, before[o].rows)
          /\ HalfwayNodes(nodes[o], T, d, m, step[o])
          /\ HalfwayRows(OriginalRows, T, d, m, step[o])

\* Who is above who is above a node is above it; and of two that are above the
\* same node one is above the other.
LEMMA TreeOrder ==
    ASSUME NEW T, IsTreeOf(T)
    PROVE  \A n \in Nodes :
              /\ \A x \in T[n].ancestors : T[x].ancestors \subseteq T[n].ancestors
              /\ \A x, y \in T[n].ancestors :
                    x = y \/ x \in T[y].ancestors \/ y \in T[x].ancestors
<1> DEFINE Holds(n) == /\ \A x \in T[n].ancestors : T[x].ancestors \subseteq T[n].ancestors
                       /\ \A x, y \in T[n].ancestors :
                             x = y \/ x \in T[y].ancestors \/ y \in T[x].ancestors
           bad == {n \in Nodes : ~Holds(n)}
           sets == {T[n].ancestors : n \in bad}
<1>1. SUFFICES ASSUME bad # {} PROVE FALSE
  OBVIOUS
<1>2. sets # {} /\ sets \subseteq FiniteSubsetsOf(Nodes)
  <2>1. \A n \in Nodes : T[n].ancestors \subseteq Nodes
    BY DEF IsTreeOf
  <2>2. \A S \in SUBSET Nodes : IsFiniteSet(S)
    BY FS_Subset, TreeAssumption
  <2> QED
    BY <1>1, <2>1, <2>2 DEF FiniteSubsetsOf
<1>3. PICK least \in sets : \A S \in sets : <<S, least>> \notin StrictSubsetOrdering(Nodes)
  <2> HIDE DEF sets
  <2> QED
    BY <1>2, FS_StrictSubsetOrderingWellFounded, WFMin, TreeAssumption
<1>4. PICK n \in bad : least = T[n].ancestors
  BY <1>3
<1>5. n # Root /\ n \in Nodes
  BY <1>4 DEF IsTreeOf
<1> DEFINE p == T[n].parent
<1>6. p \in Nodes /\ T[n].ancestors = {p} \cup T[p].ancestors /\ p \notin T[p].ancestors
  BY <1>5 DEF IsTreeOf
<1>7. <<T[p].ancestors, T[n].ancestors>> \in StrictSubsetOrdering(Nodes)
  <2>1. T[p].ancestors \in SUBSET Nodes /\ T[n].ancestors \in SUBSET Nodes
    BY <1>5, <1>6 DEF IsTreeOf
  <2>2. T[p].ancestors \subseteq T[n].ancestors /\ T[p].ancestors # T[n].ancestors
    BY <1>6
  <2> QED
    BY <2>1, <2>2 DEF StrictSubsetOrdering
<1>8. Holds(p)
  BY <1>3, <1>4, <1>6, <1>7
<1>9. Holds(n)
  BY <1>6, <1>8
<1> QED
  BY <1>4, <1>9

\* A row of the tree says whose row it is.
LEMMA RowsTell ==
    ASSUME NEW T, IsTreeOf(T), NEW R, RowsOfTree(T, R)
    PROVE  /\ \A row \in R : /\ row.id \in Nodes /\ row.node \in T[row.id].ancestors
                             /\ row = Row(Original, row.node, T[row.id].order, row.id, T[row.id].parent)
           /\ \A n \in Nodes : \A x \in T[n].ancestors :
                 Row(Original, x, T[n].order, n, T[n].parent) \in R
BY DEF RowsOfTree, AncestorRows, Row

\* What follows from the data of a validated reorder.
LEMMA PlannedFacts ==
    ASSUME NEW T, IsTreeOf(T), NEW R, RowsOfTree(T, R), NEW d, Planned(d, T, R)
    PROVE  /\ DescendantIds(d) = {n \in Nodes : d.id \in T[n].ancestors}
           /\ \A row \in d.descendants :
                 row.order = T[row.id].order /\ row.parent = T[row.id].parent
           /\ d.id \in Nodes /\ d.newParent \in Nodes /\ d.id \notin DescendantIds(d)
           /\ d.newAncestors \subseteq Nodes
           /\ d.removed \subseteq d.oldAncestors /\ d.added \cap d.oldAncestors = {}
           /\ d.newAncestors = (d.oldAncestors \ d.removed) \cup d.added
           /\ \A n \in DescendantIds(d) : d.removed \subseteq T[n].ancestors /\ d.added \cap T[n].ancestors = {}
           /\ d.newAncestors \cap ({d.id} \cup DescendantIds(d)) = {}
           /\ ~ParentChanged(d) => d.removed = {} /\ d.added = {}
<1> USE DEF Planned
<1>1. DescendantIds(d) = {n \in Nodes : d.id \in T[n].ancestors}
  <2>1. ASSUME NEW n \in Nodes, d.id \in T[n].ancestors
        PROVE  n \in DescendantIds(d)
    <3> DEFINE row == Row(Original, d.id, T[n].order, n, T[n].parent)
    <3>1. row \in R
      BY <2>1, RowsTell
    <3>2. row.node = d.id /\ row.id = n
      BY DEF Row
    <3> HIDE DEF row
    <3>3. row \in d.descendants
      BY <3>1, <3>2
    <3> QED
      BY <3>2, <3>3 DEF DescendantIds
  <2>2. ASSUME NEW row \in d.descendants
        PROVE  row.id \in Nodes /\ d.id \in T[row.id].ancestors
    BY RowsTell
  <2> QED
    BY <2>1, <2>2 DEF DescendantIds
<1>2. \A row \in d.descendants : row.order = T[row.id].order /\ row.parent = T[row.id].parent
  BY RowsTell DEF Row
<1>3. d.id \notin DescendantIds(d)
  BY <1>1 DEF IsTreeOf
<1>4. T[d.newParent].ancestors \subseteq Nodes /\ d.newAncestors \subseteq Nodes
  BY DEF IsTreeOf
<1>5. d.newParent \notin {d.id} \cup DescendantIds(d)
  BY DEF NotMovedWithinSelf
<1>6. d.id \notin T[d.newParent].ancestors
  BY <1>1, <1>5
<1>7. \A n \in DescendantIds(d) : n \notin d.newAncestors
  BY <1>1, <1>5, <1>6, TreeOrder
<1>8. ASSUME NEW n \in DescendantIds(d)
      PROVE  d.removed \subseteq T[n].ancestors /\ d.added \cap T[n].ancestors = {}
  <2>1. n \in Nodes /\ d.id \in T[n].ancestors
    BY <1>1
  <2>2. d.oldAncestors \subseteq T[n].ancestors
    BY <2>1, TreeOrder
  <2>3. ASSUME NEW x \in d.added, x \in T[n].ancestors
        PROVE  FALSE
    <3>1. x = d.id \/ x \in T[d.id].ancestors \/ d.id \in T[x].ancestors
      BY <2>1, <2>3, TreeOrder
    <3>2. x \in d.newAncestors /\ x \notin T[d.id].ancestors /\ x \in Nodes
      BY <1>4
    <3>3. x # d.id
      BY <1>5, <1>6, <3>2
    <3>4. x \in DescendantIds(d)
      BY <1>1, <3>1, <3>2, <3>3
    <3> QED
      BY <1>7, <3>2, <3>4
  <2> QED
    BY <2>2, <2>3
<1>9. ASSUME ~ParentChanged(d)
      PROVE  d.removed = {} /\ d.added = {}
  <2>1. d.oldAncestors = {d.newParent} \cup T[d.newParent].ancestors
    BY <1>9 DEF IsTreeOf, ParentChanged
  <2> QED
    BY <2>1
<1> QED
  BY <1>1, <1>2, <1>3, <1>4, <1>5, <1>6, <1>7, <1>8, <1>9

\* What step k may do to a set of ancestors X, and what it does in full.
PartForward(X, Y, d, k, i, j) ==
    /\ k = i => X \ d.removed \subseteq Y /\ Y \subseteq X
    /\ k = j => X \subseteq Y /\ Y \subseteq X \cup d.added
    /\ k \notin {i, j} => Y = X
AllForward(X, Y, d, k, i, j) ==
    /\ k = i => Y = X \ d.removed
    /\ k = j => Y = X \cup d.added

\* And what its undo may do, and does in full.
PartBackward(X, Y, d, k, i, j) ==
    /\ k = i => X \subseteq Y /\ Y \subseteq X \cup d.removed
    /\ k = j => X \ d.added \subseteq Y /\ Y \subseteq X
    /\ k \notin {i, j} => Y = X
AllBackward(X, Y, d, k, i, j) ==
    /\ k = i => Y = X \cup d.removed
    /\ k = j => Y = X \ d.added

\* A step forward, in full or in part, of a set of ancestors.
LEMMA SwapForward ==
    ASSUME NEW d, NEW X, NEW Y, NEW old, NEW i \in 1 .. 11, NEW j \in 1 .. 11, i < j, NEW k \in 1 .. 11,
           d.removed \subseteq old, d.added \cap old = {},
           Swap(X, old, d, "forward", k, i, j), PartForward(X, Y, d, k, i, j)
    PROVE  /\ Swap(Y, old, d, "backward", k, i, j) /\ Swap(Y, old, d, "dead", k, i, j)
           /\ AllForward(X, Y, d, k, i, j) =>
                 Swap(Y, old, d, "forward", k + 1, i, j)
<1>1. CASE k = i
  BY <1>1 DEF Swap, Done, Undone, PartForward, AllForward
<1>2. CASE k = j
  BY <1>2 DEF Swap, Done, Undone, PartForward, AllForward
<1>3. CASE k \notin {i, j}
  BY <1>3 DEF Swap, Done, Undone, PartForward, AllForward
<1> QED
  BY <1>1, <1>2, <1>3

\* An undo of it.
LEMMA SwapBackward ==
    ASSUME NEW d, NEW X, NEW Y, NEW old, NEW i \in 1 .. 11, NEW j \in 1 .. 11, i < j, NEW k \in 1 .. 11,
           d.removed \subseteq old, d.added \cap old = {},
           Swap(X, old, d, "backward", k, i, j), PartBackward(X, Y, d, k, i, j)
    PROVE  /\ Swap(Y, old, d, "dead", k, i, j)
           /\ AllBackward(X, Y, d, k, i, j) =>
                 Swap(Y, old, d, "backward", k - 1, i, j)
<1>1. CASE k = i
  BY <1>1 DEF Swap, Done, Undone, PartBackward, AllBackward
<1>2. CASE k = j
  BY <1>2 DEF Swap, Done, Undone, PartBackward, AllBackward
<1>3. CASE k \notin {i, j}
  BY <1>3 DEF Swap, Done, Undone, PartBackward, AllBackward
<1> QED
  BY <1>1, <1>2, <1>3

\* The node that one statement leaves.
LEMMA OneStatement ==
    ASSUME NEW node \in NodeRows, NEW s
    PROVE  LET after == NodeAfter(node, {s}) IN
           /\ s.op = "pull" => /\ after.parent = node.parent /\ after.order = node.order
                               /\ after.ancestors = node.ancestors \ s.ids
           /\ s.op = "push" => /\ after.parent = node.parent /\ after.order = node.order
                               /\ after.ancestors = node.ancestors \cup s.ids
           /\ s.op = "place" => /\ after.parent = s.parent /\ after.order = s.order
                                /\ after.ancestors = node.ancestors
<1> DEFINE S == {s}
           places == {t \in S : t.op = "place"}
           Ids(op) == UNION {t.ids : t \in {u \in S : u.op = op}}
           place == CHOOSE t \in places : TRUE
           placed == IF places = {} THEN node
                     ELSE [node EXCEPT !.parent = place.parent, !.order = place.order]
<1>1. NodeAfter(node, S) = [placed EXCEPT !.ancestors = (@ \ Ids("pull")) \cup Ids("push")]
  BY DEF NodeAfter
<1>2. \A op : /\ s.op = op => {u \in S : u.op = op} = {s}
              /\ s.op # op => {u \in S : u.op = op} = {}
  OBVIOUS
<1>3. \A op : Ids(op) = IF s.op = op THEN s.ids ELSE {}
  <2>1. \A op : s.op = op => Ids(op) = s.ids
    BY <1>2
  <2>2. \A op : s.op # op => Ids(op) = {}
    BY <1>2
  <2> QED
    BY <2>1, <2>2
<1>4. CASE s.op = "place"
  <2>1. places = {s} /\ place = s
    BY <1>4
  <2>2. placed = [node EXCEPT !.parent = s.parent, !.order = s.order]
    BY <2>1
  <2> HIDE DEF placed, Ids, S
  <2>3. [node EXCEPT !.parent = s.parent, !.order = s.order]
        = [parent |-> s.parent, ancestors |-> node.ancestors, order |-> s.order]
    BY PlacedNode
  <2>4. /\ NodeAfter(node, S).parent = s.parent /\ NodeAfter(node, S).order = s.order
        /\ NodeAfter(node, S).ancestors = node.ancestors
    BY <1>1, <1>3, <1>4, <2>2, <2>3
  <2> QED
    BY <1>4, <2>4 DEF S
<1>5. CASE s.op # "place"
  <2>1. placed = node
    BY <1>2, <1>5
  <2> HIDE DEF placed, Ids, S
  <2>2. /\ NodeAfter(node, S).parent = node.parent /\ NodeAfter(node, S).order = node.order
        /\ NodeAfter(node, S).ancestors = (node.ancestors \ Ids("pull")) \cup Ids("push")
    BY <1>1, <2>1 DEF NodeRows
  <2>3. /\ s.op = "pull" => NodeAfter(node, S).ancestors = node.ancestors \ s.ids
        /\ s.op = "push" => NodeAfter(node, S).ancestors = node.ancestors \cup s.ids
    BY <1>3, <2>2
  <2> QED
    BY <1>5, <2>2, <2>3 DEF S
<1> QED
  BY <1>4, <1>5

\* The statements on one node of the original.
OnNode(S, n) ==
    {s \in S : /\ s.op \in {"push", "pull", "place"}
               /\ s.branch = Original /\ s.id = n}

\* The original's nodes after statements of which each node has one at most.
LEMMA AfterOne ==
    ASSUME TablesOK, NEW S, Apply(S), NEW n \in Nodes
    PROVE  /\ OnNode(S, n) = {} => nodes'[Original][n] = nodes[Original][n]
           /\ \A s : OnNode(S, n) = {s} => nodes'[Original][n] = NodeAfter(nodes[Original][n], {s})
           /\ nodes[Original][n] \in NodeRows
<1>1. Original \in Branches
  BY DEF Branches
<1> QED
  BY <1>1 DEF Apply, NodesAfter, TablesOK, Good, OnNode

\* A row that no statement is about stays, and no row comes.
LEMMA NoRowStatements ==
    ASSUME NEW S, Apply(S), \A s \in S : s.op \notin {"insert", "delete"}
    PROVE  rows' = rows
<1>1. {s \in S : s.op \in {"insert", "delete"}} = {}
  OBVIOUS
<1> QED
  BY <1>1 DEF Apply, RowsAfter

Pulls(M, ids) == {PullAncestors(Original, n, ids) : n \in M}
Pushes(M, ids) == {PushAncestors(Original, n, ids) : n \in M}

\* Pulling ancestors from nodes M of the original, or from some of them.
LEMMA PullsEffect ==
    ASSUME TablesOK, NEW M, NEW ids, NEW S, Apply(S),
           S \subseteq Pulls(M, ids)
    PROVE  /\ rows' = rows
           /\ \A n \in Nodes :
                /\ nodes'[Original][n].parent = nodes[Original][n].parent
                /\ nodes'[Original][n].order = nodes[Original][n].order
                /\ n \notin M => nodes'[Original][n].ancestors = nodes[Original][n].ancestors
                /\ nodes'[Original][n].ancestors = nodes[Original][n].ancestors
                   \/ nodes'[Original][n].ancestors = nodes[Original][n].ancestors \ ids
                /\ n \in M /\ S = Pulls(M, ids) =>
                      nodes'[Original][n].ancestors = nodes[Original][n].ancestors \ ids
<1> DEFINE Pull(n) == PullAncestors(Original, n, ids)
<1>1. \A n : Pull(n).op = "pull" /\ Pull(n).branch = Original /\ Pull(n).id = n /\ Pull(n).ids = ids
  BY DEF PullAncestors
<1> HIDE DEF Pull
<1>2. /\ \A s \in S : \E n \in M : s = Pull(n)
      /\ S = Pulls(M, ids) => \A n \in M : Pull(n) \in S
  BY DEF Pull, Pulls
<1>3. rows' = rows
  BY <1>1, <1>2, NoRowStatements
<1>4. ASSUME NEW n \in Nodes
      PROVE  /\ Pull(n) \notin S => OnNode(S, n) = {}
             /\ Pull(n) \in S => OnNode(S, n) = {Pull(n)}
             /\ n \notin M => Pull(n) \notin S
  BY <1>1, <1>2 DEF OnNode
<1>5. ASSUME NEW n \in Nodes
      PROVE  /\ Pull(n) \notin S => nodes'[Original][n] = nodes[Original][n]
             /\ Pull(n) \in S => nodes'[Original][n] = NodeAfter(nodes[Original][n], {Pull(n)})
             /\ nodes[Original][n] \in NodeRows
  BY <1>4, AfterOne
<1>6. ASSUME NEW n \in Nodes, Pull(n) \in S
      PROVE  /\ nodes'[Original][n].parent = nodes[Original][n].parent
             /\ nodes'[Original][n].order = nodes[Original][n].order
             /\ nodes'[Original][n].ancestors = nodes[Original][n].ancestors \ ids
  <2>1. nodes'[Original][n] = NodeAfter(nodes[Original][n], {Pull(n)}) /\ nodes[Original][n] \in NodeRows
    BY <1>5, <1>6
  <2> QED
    BY <1>1, <2>1, OneStatement
<1> QED
  BY <1>2, <1>3, <1>4, <1>5, <1>6

\* Pushing them.
LEMMA PushesEffect ==
    ASSUME TablesOK, NEW M, NEW ids, NEW S, Apply(S),
           S \subseteq Pushes(M, ids)
    PROVE  /\ rows' = rows
           /\ \A n \in Nodes :
                /\ nodes'[Original][n].parent = nodes[Original][n].parent
                /\ nodes'[Original][n].order = nodes[Original][n].order
                /\ n \notin M => nodes'[Original][n].ancestors = nodes[Original][n].ancestors
                /\ nodes'[Original][n].ancestors = nodes[Original][n].ancestors
                   \/ nodes'[Original][n].ancestors = nodes[Original][n].ancestors \cup ids
                /\ n \in M /\ S = Pushes(M, ids) =>
                      nodes'[Original][n].ancestors = nodes[Original][n].ancestors \cup ids
<1> DEFINE Push(n) == PushAncestors(Original, n, ids)
<1>1. \A n : Push(n).op = "push" /\ Push(n).branch = Original /\ Push(n).id = n /\ Push(n).ids = ids
  BY DEF PushAncestors
<1> HIDE DEF Push
<1>2. /\ \A s \in S : \E n \in M : s = Push(n)
      /\ S = Pushes(M, ids) => \A n \in M : Push(n) \in S
  BY DEF Push, Pushes
<1>3. rows' = rows
  BY <1>1, <1>2, NoRowStatements
<1>4. ASSUME NEW n \in Nodes
      PROVE  /\ Push(n) \notin S => OnNode(S, n) = {}
             /\ Push(n) \in S => OnNode(S, n) = {Push(n)}
             /\ n \notin M => Push(n) \notin S
  BY <1>1, <1>2 DEF OnNode
<1>5. ASSUME NEW n \in Nodes
      PROVE  /\ Push(n) \notin S => nodes'[Original][n] = nodes[Original][n]
             /\ Push(n) \in S => nodes'[Original][n] = NodeAfter(nodes[Original][n], {Push(n)})
             /\ nodes[Original][n] \in NodeRows
  BY <1>4, AfterOne
<1>6. ASSUME NEW n \in Nodes, Push(n) \in S
      PROVE  /\ nodes'[Original][n].parent = nodes[Original][n].parent
             /\ nodes'[Original][n].order = nodes[Original][n].order
             /\ nodes'[Original][n].ancestors = nodes[Original][n].ancestors \cup ids
  <2>1. nodes'[Original][n] = NodeAfter(nodes[Original][n], {Push(n)}) /\ nodes[Original][n] \in NodeRows
    BY <1>5, <1>6
  <2> QED
    BY <1>1, <2>1, OneStatement
<1> QED
  BY <1>2, <1>3, <1>4, <1>5, <1>6

\* Placing a node.
LEMMA PlaceEffect ==
    ASSUME TablesOK, NEW id, NEW parent, NEW order, NEW S, Apply(S),
           S \subseteq {Place(Original, id, parent, order)}
    PROVE  /\ rows' = rows
           /\ \A n \in Nodes :
                /\ n # id => /\ nodes'[Original][n].parent = nodes[Original][n].parent
                             /\ nodes'[Original][n].order = nodes[Original][n].order
                /\ nodes'[Original][n].ancestors = nodes[Original][n].ancestors
                /\ n = id /\ S = {Place(Original, id, parent, order)} =>
                      nodes'[Original][n].parent = parent /\ nodes'[Original][n].order = order
<1> DEFINE place == Place(Original, id, parent, order)
<1>1. /\ place.op = "place" /\ place.branch = Original /\ place.id = id
      /\ place.parent = parent /\ place.order = order
  BY DEF Place
<1>2. S \subseteq {place}
  OBVIOUS
<1> HIDE DEF place
<1>3. rows' = rows
  BY <1>1, <1>2, NoRowStatements
<1>4. ASSUME NEW n \in Nodes
      PROVE  /\ n # id => OnNode(S, n) = {}
             /\ n = id => OnNode(S, n) = {} \/ OnNode(S, n) = {place}
             /\ n = id /\ S = {place} => OnNode(S, n) = {place}
  BY <1>1, <1>2 DEF OnNode
<1>5. ASSUME NEW n \in Nodes
      PROVE  /\ OnNode(S, n) = {} => nodes'[Original][n] = nodes[Original][n]
             /\ OnNode(S, n) = {place} => nodes'[Original][n] = NodeAfter(nodes[Original][n], {place})
             /\ nodes[Original][n] \in NodeRows
  BY AfterOne
<1> QED
  BY <1>1, <1>3, <1>4, <1>5, OneStatement DEF place

\* No statement on rows touches a node.
LEMMA NoNodeStatements ==
    ASSUME TablesOK, NEW S, Apply(S), \A s \in S : s.op \in {"insert", "delete"}
    PROVE  \A n \in Nodes : nodes'[Original][n] = nodes[Original][n]
<1>1. \A n \in Nodes : OnNode(S, n) = {}
  BY DEF OnNode
<1> QED
  BY <1>1, AfterOne

\* Deleting rows X, or some of them.
LEMMA DeletesEffect ==
    ASSUME TablesOK, NEW X, NEW S, Apply(S), S \subseteq Deletes(X)
    PROVE  /\ \A n \in Nodes : nodes'[Original][n] = nodes[Original][n]
           /\ rows' \subseteq rows
           /\ \A row \in rows : (\A x \in X : Key(x) # Key(row)) => row \in rows'
           /\ S = Deletes(X) => \A row \in rows', x \in X : Key(x) # Key(row)
<1> DEFINE onRows == {s \in S : s.op \in {"insert", "delete"}}
<1>1. \A s \in S : s.op = "delete" /\ \E x \in X : s.row = x
  BY DEF Deletes, Delete
<1>2. onRows = S /\ {t \in onRows : t.op = "insert"} = {}
  BY <1>1
<1>3. rows' = {row \in rows : \A s \in S : Key(s.row) # Key(row)}
  BY <1>2 DEF Apply, RowsAfter
<1>4. S = Deletes(X) => \A x \in X : \E s \in S : s.row = x
  <2>1. \A x \in X : Delete(x) \in Deletes(X)
    BY DEF Deletes
  <2>2. \A x : Delete(x).row = x
    BY DEF Delete
  <2> QED
    BY <2>1, <2>2
<1>5. \A n \in Nodes : nodes'[Original][n] = nodes[Original][n]
  BY <1>1, NoNodeStatements
<1> QED
  BY <1>1, <1>3, <1>4, <1>5

\* Inserting them.
LEMMA InsertsEffect ==
    ASSUME TablesOK, NEW X, NEW S, Apply(S), S \subseteq Inserts(X)
    PROVE  /\ \A n \in Nodes : nodes'[Original][n] = nodes[Original][n]
           /\ rows' \subseteq rows \cup X
           /\ \A row \in rows : row \in rows' \/ \E x \in X : Key(x) = Key(row)
           /\ \A row \in rows : (\A x \in X : Key(x) = Key(row) => x = row) => row \in rows'
           /\ S = Inserts(X) => X \subseteq rows'
<1> DEFINE onRows == {s \in S : s.op \in {"insert", "delete"}}
<1>1. \A s \in S : s.op = "insert" /\ s.row \in X
  BY DEF Inserts, Insert
<1>2. onRows = S /\ {t \in onRows : t.op = "insert"} = S
  BY <1>1
<1>3. rows' = {row \in rows : \A s \in S : Key(s.row) # Key(row)} \cup {s.row : s \in S}
  BY <1>2 DEF Apply, RowsAfter
<1>4. S = Inserts(X) => \A x \in X : \E s \in S : s.row = x
  <2>1. \A x \in X : Insert(x) \in Inserts(X)
    BY DEF Inserts
  <2>2. \A x : Insert(x).row = x
    BY DEF Insert
  <2> QED
    BY <2>1, <2>2
<1>5. \A n \in Nodes : nodes'[Original][n] = nodes[Original][n]
  BY <1>1, NoNodeStatements
<1>6. rows' \subseteq rows \cup X
  BY <1>1, <1>3
<1>7. ASSUME NEW row \in rows, row \notin rows'
      PROVE  \E x \in X : Key(x) = Key(row) /\ x \in rows'
  BY <1>1, <1>3, <1>7
<1> QED
  BY <1>3, <1>4, <1>5, <1>6, <1>7

\* The statements of the steps that write to nodes: what they do to the nodes
\* of the original.
LEMMA NodesForward ==
    ASSUME TablesOK, NEW T, IsTreeOf(T), NEW R, RowsOfTree(T, R), NEW d, Planned(d, T, R),
           NEW k \in 1 .. 11, HalfwayNodes(nodes[Original], T, d, "forward", k),
           NEW S, Apply(S), S \subseteq Statements(Original, d, k)
    PROVE  /\ \A m \in {"backward", "dead"} : HalfwayNodes(nodes'[Original], T, d, m, k)
           /\ S = Statements(Original, d, k) =>
                 HalfwayNodes(nodes'[Original], T, d, "forward", k + 1)
<1> DEFINE N == nodes[Original]
           P == nodes'[Original]
           own == {d.id}
           below == DescendantIds(d)
           full == S = Statements(Original, d, k)
<1>1. /\ d.id \in Nodes /\ below \subseteq Nodes /\ d.id \notin below
      /\ ~ParentChanged(d) => d.removed = {} /\ d.added = {}
      /\ d.removed \subseteq d.oldAncestors /\ d.added \cap d.oldAncestors = {}
      /\ \A n \in below : d.removed \subseteq T[n].ancestors /\ d.added \cap T[n].ancestors = {}
      /\ d.oldAncestors = T[d.id].ancestors
  <2>1. d.oldAncestors = T[d.id].ancestors
    BY DEF Planned
  <2>2. below = {n \in Nodes : d.id \in T[n].ancestors}
    BY PlannedFacts
  <2> QED
    BY <2>1, <2>2, PlannedFacts
<1> DEFINE change ==
      /\ \A n \in Nodes : n # d.id \/ k # 1 => P[n].parent = N[n].parent /\ P[n].order = N[n].order
      /\ k = 1 /\ full => P[d.id].parent = d.newParent /\ P[d.id].order = d.newOrder
      /\ \A n \in Nodes \ (own \cup below) : P[n].ancestors = N[n].ancestors
      /\ k = 4 => /\ P[d.id].ancestors \in {N[d.id].ancestors, N[d.id].ancestors \ d.removed}
                  /\ full => P[d.id].ancestors = N[d.id].ancestors \ d.removed
      /\ k = 7 => /\ P[d.id].ancestors \in {N[d.id].ancestors, N[d.id].ancestors \cup d.added}
                  /\ full => P[d.id].ancestors = N[d.id].ancestors \cup d.added
      /\ k \notin {4, 7} => P[d.id].ancestors = N[d.id].ancestors
      /\ \A n \in below :
           /\ k = 5 => /\ P[n].ancestors \in {N[n].ancestors, N[n].ancestors \ d.removed}
                       /\ full => P[n].ancestors = N[n].ancestors \ d.removed
           /\ k = 8 => /\ P[n].ancestors \in {N[n].ancestors, N[n].ancestors \cup d.added}
                       /\ full => P[n].ancestors = N[n].ancestors \cup d.added
           /\ k \notin {5, 8} => P[n].ancestors = N[n].ancestors
<1>2. change
  <2> USE DEF UpdateNodeOrderIndex, RemoveNodeFromOldAncestors, AddNodeToNewAncestors,
              PullRemovedAncestorsFromNode, PullRemovedAncestorsFromDescendants,
              DeleteNodeDescendantsFromRemovedAncestors, PushAddedAncestorsToNode,
              PushAddedAncestorsToDescendants, InsertNodeDescendantsToAddedAncestors
  <2> DEFINE nothing == \A n \in Nodes : P[n] = N[n]
  <2>1. CASE k = 1
    <3>1. Statements(Original, d, k) = {Place(Original, d.id, d.newParent, d.newOrder)}
      BY <2>1 DEF Statements
    <3> QED
      BY <1>1, <2>1, <3>1, PlaceEffect
  <2>2. CASE k \in {2, 6}
    <3>1. \E X : Statements(Original, d, k) \subseteq Deletes(X)
      BY <2>2 DEF Statements
    <3>2. nothing
      BY <3>1, DeletesEffect
    <3> HIDE DEF N, P, own, below, full, nothing
    <3> QED
      BY <1>1, <2>2, <3>2 DEF nothing
  <2>3. CASE k \in {3, 9}
    <3>1. \E X : Statements(Original, d, k) \subseteq Inserts(X)
      BY <2>3 DEF Statements
    <3>2. nothing
      BY <3>1, InsertsEffect
    <3> HIDE DEF N, P, own, below, full, nothing
    <3> QED
      BY <1>1, <2>3, <3>2 DEF nothing
  <2>4. CASE k \in {10, 11} \/ (k \in 4 .. 9 /\ ~ParentChanged(d))
    <3>1. Statements(Original, d, k) = {}
      BY <2>4 DEF Statements
    <3>2. nothing
      BY <3>1, NoNodeStatements
    <3>3. k # 1
      BY <2>4
    <3> HIDE DEF N, P, own, below, full, nothing
    <3> QED
      BY <1>1, <2>4, <3>2, <3>3 DEF nothing
  <2>5. CASE k \in {4, 5} /\ ParentChanged(d)
    <3> DEFINE M == IF k = 4 THEN own ELSE below
    <3>1. Statements(Original, d, k) = Pulls(M, d.removed)
      BY <2>5 DEF Statements, Pulls
    <3>2. M \subseteq Nodes
      BY <1>1
    <3> HIDE DEF M
    <3>3. S \subseteq Pulls(M, d.removed) /\ (full => S = Pulls(M, d.removed))
      BY <3>1
    <3> HIDE DEF full
    <3>4. \A n \in Nodes :
             /\ P[n].parent = N[n].parent /\ P[n].order = N[n].order
             /\ n \notin M => P[n].ancestors = N[n].ancestors
             /\ P[n].ancestors \in {N[n].ancestors, N[n].ancestors \ d.removed}
             /\ n \in M /\ full => P[n].ancestors = N[n].ancestors \ d.removed
      BY <3>3, PullsEffect
    <3> HIDE DEF N, P, own, below
    <3> QED
      BY <1>1, <2>5, <3>4 DEF M, own
  <2>6. CASE k \in {7, 8} /\ ParentChanged(d)
    <3> DEFINE M == IF k = 7 THEN own ELSE below
    <3>1. Statements(Original, d, k) = Pushes(M, d.added)
      BY <2>6 DEF Statements, Pushes
    <3>2. M \subseteq Nodes
      BY <1>1
    <3> HIDE DEF M
    <3>3. S \subseteq Pushes(M, d.added) /\ (full => S = Pushes(M, d.added))
      BY <3>1
    <3> HIDE DEF full
    <3>4. \A n \in Nodes :
             /\ P[n].parent = N[n].parent /\ P[n].order = N[n].order
             /\ n \notin M => P[n].ancestors = N[n].ancestors
             /\ P[n].ancestors \in {N[n].ancestors, N[n].ancestors \cup d.added}
             /\ n \in M /\ full => P[n].ancestors = N[n].ancestors \cup d.added
      BY <3>3, PushesEffect
    <3> HIDE DEF N, P, own, below
    <3> QED
      BY <1>1, <2>6, <3>4 DEF M, own
  <2>7. \/ k = 1 \/ k \in {2, 6} \/ k \in {3, 9}
        \/ k \in {10, 11} \/ (k \in 4 .. 9 /\ ~ParentChanged(d))
        \/ (k \in {4, 5} /\ ParentChanged(d)) \/ (k \in {7, 8} /\ ParentChanged(d))
    OBVIOUS
  <2> HIDE DEF change
  <2> QED
    BY <2>1, <2>2, <2>3, <2>4, <2>5, <2>6, <2>7
<1>3. /\ Swap(N[d.id].ancestors, T[d.id].ancestors, d, "forward", k, 4, 7)
      /\ \A n \in below : Swap(N[n].ancestors, T[n].ancestors, d, "forward", k, 5, 8)
  BY DEF HalfwayNodes
<1> HIDE DEF N, P, full, own, below
<1>4. /\ \A m \in {"backward", "dead"} : Swap(P[d.id].ancestors, T[d.id].ancestors, d, m, k, 4, 7)
      /\ full => Swap(P[d.id].ancestors, T[d.id].ancestors, d, "forward", k + 1, 4, 7)
  <2>1. /\ PartForward(N[d.id].ancestors, P[d.id].ancestors, d, k, 4, 7)
        /\ full => AllForward(N[d.id].ancestors, P[d.id].ancestors, d, k, 4, 7)
    BY <1>1, <1>2 DEF PartForward, AllForward, change
  <2>2. d.removed \subseteq T[d.id].ancestors /\ d.added \cap T[d.id].ancestors = {}
    BY <1>1
  <2>3. 4 \in 1 .. 11 /\ 7 \in 1 .. 11 /\ 4 < 7
    OBVIOUS
  <2> HIDE DEF change
  <2>4. /\ Swap(P[d.id].ancestors, T[d.id].ancestors, d, "backward", k, 4, 7)
        /\ Swap(P[d.id].ancestors, T[d.id].ancestors, d, "dead", k, 4, 7)
        /\ full => Swap(P[d.id].ancestors, T[d.id].ancestors, d, "forward", k + 1, 4, 7)
    BY <1>3, <2>1, <2>2, <2>3, SwapForward
  <2> QED
    BY <2>4
<1>5. ASSUME NEW n \in below
      PROVE  /\ \A m \in {"backward", "dead"} : Swap(P[n].ancestors, T[n].ancestors, d, m, k, 5, 8)
             /\ full => Swap(P[n].ancestors, T[n].ancestors, d, "forward", k + 1, 5, 8)
  <2>1. /\ PartForward(N[n].ancestors, P[n].ancestors, d, k, 5, 8)
        /\ full => AllForward(N[n].ancestors, P[n].ancestors, d, k, 5, 8)
    BY <1>1, <1>2 DEF PartForward, AllForward, change
  <2>2. d.removed \subseteq T[n].ancestors /\ d.added \cap T[n].ancestors = {}
    BY <1>1
  <2>3. 5 \in 1 .. 11 /\ 8 \in 1 .. 11 /\ 5 < 8
    OBVIOUS
  <2> HIDE DEF change
  <2>4. /\ Swap(P[n].ancestors, T[n].ancestors, d, "backward", k, 5, 8)
        /\ Swap(P[n].ancestors, T[n].ancestors, d, "dead", k, 5, 8)
        /\ full => Swap(P[n].ancestors, T[n].ancestors, d, "forward", k + 1, 5, 8)
    BY <1>3, <2>1, <2>2, <2>3, SwapForward
  <2> QED
    BY <2>4
<1>6. /\ \A n \in Nodes : n # d.id \/ k # 1 => P[n].parent = N[n].parent /\ P[n].order = N[n].order
      /\ k = 1 /\ full => P[d.id].parent = d.newParent /\ P[d.id].order = d.newOrder
      /\ \A n \in Nodes \ (own \cup below) : P[n].ancestors = N[n].ancestors
  BY <1>2
<1> HIDE DEF change
<1>7. /\ \A n \in Nodes : n # d.id => P[n].parent = T[n].parent /\ P[n].order = T[n].order
      /\ \A n \in Nodes : n \notin {d.id} \cup DescendantIds(d) => P[n].ancestors = T[n].ancestors
  BY <1>6 DEF HalfwayNodes, N, own, below
<1>8. /\ Undone("forward", k, 1) => N[d.id].parent = d.oldParent /\ N[d.id].order = d.oldOrder
      /\ Done(k, 1) => N[d.id].parent = d.newParent /\ N[d.id].order = d.newOrder
  BY DEF HalfwayNodes, N
<1>9. ASSUME NEW m \in {"backward", "dead"}
      PROVE  /\ Undone(m, k, 1) => P[d.id].parent = d.oldParent /\ P[d.id].order = d.oldOrder
             /\ Done(k, 1) => P[d.id].parent = d.newParent /\ P[d.id].order = d.newOrder
  BY <1>1, <1>6, <1>8 DEF Undone, Done
<1>10. /\ ~Undone("forward", k + 1, 1)
       /\ full => P[d.id].parent = d.newParent /\ P[d.id].order = d.newOrder
  BY <1>1, <1>6, <1>8 DEF Undone, Done
<1> QED
  BY <1>4, <1>5, <1>7, <1>9, <1>10 DEF HalfwayNodes, P, full, below

\* And the statements of their undos.
LEMMA NodesBackward ==
    ASSUME TablesOK, NEW T, IsTreeOf(T), NEW R, RowsOfTree(T, R), NEW d, Planned(d, T, R),
           NEW k \in 1 .. 11, HalfwayNodes(nodes[Original], T, d, "backward", k),
           NEW S, Apply(S), S \subseteq UndoStatements(Original, d, k)
    PROVE  /\ HalfwayNodes(nodes'[Original], T, d, "dead", k)
           /\ S = UndoStatements(Original, d, k) =>
                 HalfwayNodes(nodes'[Original], T, d, "backward", k - 1)
<1> DEFINE N == nodes[Original]
           P == nodes'[Original]
           own == {d.id}
           below == DescendantIds(d)
           full == S = UndoStatements(Original, d, k)
<1>1. /\ d.id \in Nodes /\ below \subseteq Nodes /\ d.id \notin below
      /\ ~ParentChanged(d) => d.removed = {} /\ d.added = {}
      /\ d.removed \subseteq d.oldAncestors /\ d.added \cap d.oldAncestors = {}
      /\ \A n \in below : d.removed \subseteq T[n].ancestors /\ d.added \cap T[n].ancestors = {}
      /\ d.oldAncestors = T[d.id].ancestors
  <2>1. d.oldAncestors = T[d.id].ancestors
    BY DEF Planned
  <2>2. below = {n \in Nodes : d.id \in T[n].ancestors}
    BY PlannedFacts
  <2> QED
    BY <2>1, <2>2, PlannedFacts
<1> DEFINE change ==
      /\ \A n \in Nodes : n # d.id \/ k # 1 => P[n].parent = N[n].parent /\ P[n].order = N[n].order
      /\ k = 1 /\ full => P[d.id].parent = d.oldParent /\ P[d.id].order = d.oldOrder
      /\ \A n \in Nodes \ (own \cup below) : P[n].ancestors = N[n].ancestors
      /\ k = 4 => /\ P[d.id].ancestors \in {N[d.id].ancestors, N[d.id].ancestors \cup d.removed}
                  /\ full => P[d.id].ancestors = N[d.id].ancestors \cup d.removed
      /\ k = 7 => /\ P[d.id].ancestors \in {N[d.id].ancestors, N[d.id].ancestors \ d.added}
                  /\ full => P[d.id].ancestors = N[d.id].ancestors \ d.added
      /\ k \notin {4, 7} => P[d.id].ancestors = N[d.id].ancestors
      /\ \A n \in below :
           /\ k = 5 => /\ P[n].ancestors \in {N[n].ancestors, N[n].ancestors \cup d.removed}
                       /\ full => P[n].ancestors = N[n].ancestors \cup d.removed
           /\ k = 8 => /\ P[n].ancestors \in {N[n].ancestors, N[n].ancestors \ d.added}
                       /\ full => P[n].ancestors = N[n].ancestors \ d.added
           /\ k \notin {5, 8} => P[n].ancestors = N[n].ancestors
<1>2. change
  <2> USE DEF UpdateNodeOrderIndex, RemoveNodeFromOldAncestors, AddNodeToNewAncestors,
              PullRemovedAncestorsFromNode, PullRemovedAncestorsFromDescendants,
              DeleteNodeDescendantsFromRemovedAncestors, PushAddedAncestorsToNode,
              PushAddedAncestorsToDescendants, InsertNodeDescendantsToAddedAncestors
  <2> DEFINE nothing == \A n \in Nodes : P[n] = N[n]
  <2>1. CASE k = 1
    <3>1. UndoStatements(Original, d, k) = {Place(Original, d.id, d.oldParent, d.oldOrder)}
      BY <2>1 DEF UndoStatements
    <3> QED
      BY <1>1, <2>1, <3>1, PlaceEffect
  <2>2. CASE k \in {3, 9}
    <3>1. \E X : UndoStatements(Original, d, k) \subseteq Deletes(X)
      BY <2>2 DEF UndoStatements
    <3>2. nothing
      BY <3>1, DeletesEffect
    <3> HIDE DEF N, P, own, below, full, nothing
    <3> QED
      BY <1>1, <2>2, <3>2 DEF nothing
  <2>3. CASE k \in {2, 6}
    <3>1. \E X : UndoStatements(Original, d, k) \subseteq Inserts(X)
      BY <2>3 DEF UndoStatements
    <3>2. nothing
      BY <3>1, InsertsEffect
    <3> HIDE DEF N, P, own, below, full, nothing
    <3> QED
      BY <1>1, <2>3, <3>2 DEF nothing
  <2>4. CASE k \in {10, 11} \/ (k \in 4 .. 9 /\ ~ParentChanged(d))
    <3>1. UndoStatements(Original, d, k) = {}
      BY <2>4 DEF UndoStatements
    <3>2. nothing
      BY <3>1, NoNodeStatements
    <3>3. k # 1
      BY <2>4
    <3> HIDE DEF N, P, own, below, full, nothing
    <3> QED
      BY <1>1, <2>4, <3>2, <3>3 DEF nothing
  <2>5. CASE k \in {4, 5} /\ ParentChanged(d)
    <3> DEFINE M == IF k = 4 THEN own ELSE below
    <3>1. UndoStatements(Original, d, k) = Pushes(M, d.removed)
      BY <2>5 DEF UndoStatements, Pushes
    <3>2. M \subseteq Nodes
      BY <1>1
    <3> HIDE DEF M
    <3>3. S \subseteq Pushes(M, d.removed) /\ (full => S = Pushes(M, d.removed))
      BY <3>1
    <3> HIDE DEF full
    <3>4. \A n \in Nodes :
             /\ P[n].parent = N[n].parent /\ P[n].order = N[n].order
             /\ n \notin M => P[n].ancestors = N[n].ancestors
             /\ P[n].ancestors \in {N[n].ancestors, N[n].ancestors \cup d.removed}
             /\ n \in M /\ full => P[n].ancestors = N[n].ancestors \cup d.removed
      BY <3>3, PushesEffect
    <3> HIDE DEF N, P, own, below
    <3> QED
      BY <1>1, <2>5, <3>4 DEF M, own
  <2>6. CASE k \in {7, 8} /\ ParentChanged(d)
    <3> DEFINE M == IF k = 7 THEN own ELSE below
    <3>1. UndoStatements(Original, d, k) = Pulls(M, d.added)
      BY <2>6 DEF UndoStatements, Pulls
    <3>2. M \subseteq Nodes
      BY <1>1
    <3> HIDE DEF M
    <3>3. S \subseteq Pulls(M, d.added) /\ (full => S = Pulls(M, d.added))
      BY <3>1
    <3> HIDE DEF full
    <3>4. \A n \in Nodes :
             /\ P[n].parent = N[n].parent /\ P[n].order = N[n].order
             /\ n \notin M => P[n].ancestors = N[n].ancestors
             /\ P[n].ancestors \in {N[n].ancestors, N[n].ancestors \ d.added}
             /\ n \in M /\ full => P[n].ancestors = N[n].ancestors \ d.added
      BY <3>3, PullsEffect
    <3> HIDE DEF N, P, own, below
    <3> QED
      BY <1>1, <2>6, <3>4 DEF M, own
  <2>7. \/ k = 1 \/ k \in {2, 6} \/ k \in {3, 9}
        \/ k \in {10, 11} \/ (k \in 4 .. 9 /\ ~ParentChanged(d))
        \/ (k \in {4, 5} /\ ParentChanged(d)) \/ (k \in {7, 8} /\ ParentChanged(d))
    OBVIOUS
  <2> HIDE DEF change
  <2> QED
    BY <2>1, <2>2, <2>3, <2>4, <2>5, <2>6, <2>7
<1>3. /\ Swap(N[d.id].ancestors, T[d.id].ancestors, d, "backward", k, 4, 7)
      /\ \A n \in below : Swap(N[n].ancestors, T[n].ancestors, d, "backward", k, 5, 8)
  BY DEF HalfwayNodes
<1> HIDE DEF N, P, full, own, below
<1>4. /\ Swap(P[d.id].ancestors, T[d.id].ancestors, d, "dead", k, 4, 7)
      /\ full => Swap(P[d.id].ancestors, T[d.id].ancestors, d, "backward", k - 1, 4, 7)
  <2>1. /\ PartBackward(N[d.id].ancestors, P[d.id].ancestors, d, k, 4, 7)
        /\ full => AllBackward(N[d.id].ancestors, P[d.id].ancestors, d, k, 4, 7)
    BY <1>1, <1>2 DEF PartBackward, AllBackward, change
  <2>2. d.removed \subseteq T[d.id].ancestors /\ d.added \cap T[d.id].ancestors = {}
    BY <1>1
  <2>3. 4 \in 1 .. 11 /\ 7 \in 1 .. 11 /\ 4 < 7
    OBVIOUS
  <2> HIDE DEF change
  <2> QED
    BY <1>3, <2>1, <2>2, <2>3, SwapBackward
<1>5. ASSUME NEW n \in below
      PROVE  /\ Swap(P[n].ancestors, T[n].ancestors, d, "dead", k, 5, 8)
             /\ full => Swap(P[n].ancestors, T[n].ancestors, d, "backward", k - 1, 5, 8)
  <2>1. /\ PartBackward(N[n].ancestors, P[n].ancestors, d, k, 5, 8)
        /\ full => AllBackward(N[n].ancestors, P[n].ancestors, d, k, 5, 8)
    BY <1>1, <1>2 DEF PartBackward, AllBackward, change
  <2>2. d.removed \subseteq T[n].ancestors /\ d.added \cap T[n].ancestors = {}
    BY <1>1
  <2>3. 5 \in 1 .. 11 /\ 8 \in 1 .. 11 /\ 5 < 8
    OBVIOUS
  <2> HIDE DEF change
  <2> QED
    BY <1>3, <2>1, <2>2, <2>3, SwapBackward
<1>6. /\ \A n \in Nodes : n # d.id \/ k # 1 => P[n].parent = N[n].parent /\ P[n].order = N[n].order
      /\ k = 1 /\ full => P[d.id].parent = d.oldParent /\ P[d.id].order = d.oldOrder
      /\ \A n \in Nodes \ (own \cup below) : P[n].ancestors = N[n].ancestors
  BY <1>2
<1> HIDE DEF change
<1>7. /\ \A n \in Nodes : n # d.id => P[n].parent = T[n].parent /\ P[n].order = T[n].order
      /\ \A n \in Nodes : n \notin {d.id} \cup DescendantIds(d) => P[n].ancestors = T[n].ancestors
  BY <1>6 DEF HalfwayNodes, N, own, below
<1>8. /\ Undone("backward", k, 1) => N[d.id].parent = d.oldParent /\ N[d.id].order = d.oldOrder
      /\ Done(k, 1) => N[d.id].parent = d.newParent /\ N[d.id].order = d.newOrder
  BY DEF HalfwayNodes, N
<1>9. /\ Undone("dead", k, 1) => P[d.id].parent = d.oldParent /\ P[d.id].order = d.oldOrder
      /\ Done(k, 1) => P[d.id].parent = d.newParent /\ P[d.id].order = d.newOrder
  BY <1>1, <1>6, <1>8 DEF Undone, Done
<1>10. ASSUME full
       PROVE  /\ Undone("backward", k - 1, 1) => P[d.id].parent = d.oldParent /\ P[d.id].order = d.oldOrder
              /\ Done(k - 1, 1) => P[d.id].parent = d.newParent /\ P[d.id].order = d.newOrder
  BY <1>1, <1>6, <1>8, <1>10 DEF Undone, Done
<1> QED
  BY <1>4, <1>5, <1>7, <1>9, <1>10 DEF HalfwayNodes, P, full, below

\* Deleting rows of nodes M, or some of them, leaves the other nodes' rows.
LEMMA DeletesOthers ==
    ASSUME TablesOK, NEW X, NEW M, \A x \in X : x.id \in M,
           NEW S, Apply(S), S \subseteq Deletes(X)
    PROVE  /\ RowsOf(Original, rows') \subseteq OriginalRows
           /\ \A row \in OriginalRows : (\A x \in X : Key(x) # Key(row)) => row \in RowsOf(Original, rows')
           /\ \A row \in OriginalRows : row.id \notin M => row \in RowsOf(Original, rows')
           /\ S = Deletes(X) => \A row \in RowsOf(Original, rows'), x \in X : Key(x) # Key(row)
<1>1. \A row, x : Key(x) = Key(row) => x.id = row.id
  BY DEF Key
<1>2. /\ rows' \subseteq rows
      /\ \A row \in rows : (\A x \in X : Key(x) # Key(row)) => row \in rows'
      /\ S = Deletes(X) => \A row \in rows', x \in X : Key(x) # Key(row)
  BY DeletesEffect
<1> QED
  BY <1>1, <1>2 DEF RowsOf, OriginalRows

\* Inserting them too.
LEMMA InsertsOthers ==
    ASSUME TablesOK, NEW X, NEW M, \A x \in X : x.id \in M /\ x.branch = Original,
           NEW S, Apply(S), S \subseteq Inserts(X)
    PROVE  /\ RowsOf(Original, rows') \subseteq OriginalRows \cup X
           /\ \A row \in OriginalRows :
                 (\A x \in X : Key(x) = Key(row) => x = row) => row \in RowsOf(Original, rows')
           /\ \A row \in OriginalRows : row.id \notin M => row \in RowsOf(Original, rows')
           /\ S = Inserts(X) => X \subseteq RowsOf(Original, rows')
<1>1. \A row, x : Key(x) = Key(row) => x.id = row.id
  BY DEF Key
<1>2. /\ rows' \subseteq rows \cup X
      /\ \A row \in rows : (\A x \in X : Key(x) = Key(row) => x = row) => row \in rows'
      /\ S = Inserts(X) => X \subseteq rows'
  BY InsertsEffect
<1> QED
  BY <1>1, <1>2 DEF RowsOf, OriginalRows

\* The rows of the descendants at ancestors A.
LEMMA DescendantRowsAre ==
    ASSUME NEW T, IsTreeOf(T), NEW R, RowsOfTree(T, R), NEW d, Planned(d, T, R), NEW A
    PROVE  DescendantRowsAt(Original, d, A) =
              {Row(Original, a, T[n].order, n, T[n].parent) : a \in A, n \in DescendantIds(d)}
<1>1. \A row \in d.descendants : row.order = T[row.id].order /\ row.parent = T[row.id].parent
  BY PlannedFacts
<1>2. \A row \in d.descendants : row.id \in DescendantIds(d)
  BY DEF DescendantIds
<1>3. \A n \in DescendantIds(d) : \E row \in d.descendants : row.id = n
  BY DEF DescendantIds
<1>4. ASSUME NEW x
      PROVE  x \in DescendantRowsAt(Original, d, A) <=>
                x \in {Row(Original, a, T[n].order, n, T[n].parent) : a \in A, n \in DescendantIds(d)}
  <2>1. ASSUME NEW a \in A, NEW row \in d.descendants, x = Row(Original, a, row.order, row.id, row.parent)
        PROVE  x \in {Row(Original, c, T[n].order, n, T[n].parent) : c \in A, n \in DescendantIds(d)}
    BY <1>1, <1>2, <2>1
  <2>2. ASSUME NEW a \in A, NEW n \in DescendantIds(d), x = Row(Original, a, T[n].order, n, T[n].parent)
        PROVE  \E row \in d.descendants : x = Row(Original, a, row.order, row.id, row.parent)
    BY <1>1, <1>3, <2>2
  <2> QED
    BY <2>1, <2>2 DEF DescendantRowsAt
<1> QED
  BY <1>4

\* Deleting them.
LEMMA DescendantDeletes ==
    ASSUME TablesOK, NEW T, IsTreeOf(T), NEW R, RowsOfTree(T, R), NEW d, Planned(d, T, R),
           NEW A \in SUBSET Nodes, NEW S, Apply(S), S \subseteq Deletes(DescendantRowsAt(Original, d, A))
    PROVE  /\ RowsOf(Original, rows') \subseteq OriginalRows
           /\ \A row \in OriginalRows : row.id \notin DescendantIds(d) => row \in RowsOf(Original, rows')
           /\ \A n \in DescendantIds(d) :
                /\ ListedAt(OriginalRows, T, n) \ A \subseteq ListedAt(RowsOf(Original, rows'), T, n)
                /\ ListedAt(RowsOf(Original, rows'), T, n) \subseteq ListedAt(OriginalRows, T, n)
                /\ S = Deletes(DescendantRowsAt(Original, d, A)) =>
                      ListedAt(RowsOf(Original, rows'), T, n) = ListedAt(OriginalRows, T, n) \ A
<1> DEFINE X == DescendantRowsAt(Original, d, A)
           below == DescendantIds(d)
           At(n, a) == Row(Original, a, T[n].order, n, T[n].parent)
           Q == RowsOf(Original, rows')
<1>1. X = {At(n, a) : a \in A, n \in below}
  BY DescendantRowsAre
<1>2. \A n, a : /\ At(n, a).id = n /\ At(n, a).node = a
                /\ Key(At(n, a)) = <<Original, a, T[n].order, n>>
  BY DEF Row, Key
<1> HIDE DEF X, At
<1>3. \A x \in X : x.id \in below
  BY <1>1, <1>2
<1>4. S \subseteq Deletes(X)
  BY DEF X
<1>5. /\ Q \subseteq OriginalRows
      /\ \A row \in OriginalRows : (\A x \in X : Key(x) # Key(row)) => row \in Q
      /\ \A row \in OriginalRows : row.id \notin below => row \in Q
      /\ S = Deletes(X) => \A row \in Q, x \in X : Key(x) # Key(row)
  BY <1>3, <1>4, DeletesOthers
<1> HIDE DEF Q, below
<1>6. ASSUME NEW n \in below, NEW a \in Nodes
      PROVE  /\ At(n, a) \in Q => At(n, a) \in OriginalRows
             /\ At(n, a) \in OriginalRows /\ a \notin A => At(n, a) \in Q
             /\ S = Deletes(X) /\ a \in A => At(n, a) \notin Q
  <2>1. a \notin A => \A x \in X : Key(x) # Key(At(n, a))
    BY <1>1, <1>2
  <2>2. a \in A => At(n, a) \in X
    BY <1>1
  <2> QED
    BY <1>5, <2>1, <2>2
<1>7. /\ \A n : ListedAt(OriginalRows, T, n) = {a \in Nodes : At(n, a) \in OriginalRows}
      /\ \A n : ListedAt(Q, T, n) = {a \in Nodes : At(n, a) \in Q}
  BY DEF ListedAt, At
<1> QED
  BY <1>5, <1>6, <1>7 DEF Q, below, X

\* Inserting them.
LEMMA DescendantInserts ==
    ASSUME TablesOK, NEW T, IsTreeOf(T), NEW R, RowsOfTree(T, R), NEW d, Planned(d, T, R),
           NEW A \in SUBSET Nodes, NEW S, Apply(S), S \subseteq Inserts(DescendantRowsAt(Original, d, A))
    PROVE  /\ \A row \in RowsOf(Original, rows') :
                 row \in OriginalRows \/ row = Row(Original, row.node, T[row.id].order, row.id, T[row.id].parent)
           /\ \A row \in RowsOf(Original, rows') : row.id \notin DescendantIds(d) => row \in OriginalRows
           /\ \A row \in OriginalRows : row.id \notin DescendantIds(d) => row \in RowsOf(Original, rows')
           /\ \A n \in DescendantIds(d) :
                /\ ListedAt(OriginalRows, T, n) \subseteq ListedAt(RowsOf(Original, rows'), T, n)
                /\ ListedAt(RowsOf(Original, rows'), T, n) \subseteq ListedAt(OriginalRows, T, n) \cup A
                /\ S = Inserts(DescendantRowsAt(Original, d, A)) =>
                      ListedAt(RowsOf(Original, rows'), T, n) = ListedAt(OriginalRows, T, n) \cup A
<1> DEFINE X == DescendantRowsAt(Original, d, A)
           below == DescendantIds(d)
           At(n, a) == Row(Original, a, T[n].order, n, T[n].parent)
           Q == RowsOf(Original, rows')
<1>1. X = {At(n, a) : a \in A, n \in below}
  BY DescendantRowsAre
<1>2. \A n, a : /\ At(n, a).id = n /\ At(n, a).node = a /\ At(n, a).branch = Original
                /\ Key(At(n, a)) = <<Original, a, T[n].order, n>>
  BY DEF Row, Key
<1>3. \A x \in X : x = Row(Original, x.node, T[x.id].order, x.id, T[x.id].parent)
  BY <1>1 DEF Row
<1> HIDE DEF X, At
<1>4. \A x \in X : x.id \in below /\ x.branch = Original
  BY <1>1, <1>2
<1>5. S \subseteq Inserts(X)
  BY DEF X
<1>6. /\ Q \subseteq OriginalRows \cup X
      /\ \A row \in OriginalRows : (\A x \in X : Key(x) = Key(row) => x = row) => row \in Q
      /\ \A row \in OriginalRows : row.id \notin below => row \in Q
      /\ S = Inserts(X) => X \subseteq Q
  BY <1>4, <1>5, InsertsOthers
<1> HIDE DEF Q, below
<1>7. ASSUME NEW n \in below, NEW a \in Nodes
      PROVE  /\ At(n, a) \in OriginalRows => At(n, a) \in Q
             /\ At(n, a) \in Q => At(n, a) \in OriginalRows \/ a \in A
             /\ S = Inserts(X) /\ a \in A => At(n, a) \in Q
  <2>1. \A x \in X : Key(x) = Key(At(n, a)) => x = At(n, a)
    BY <1>1, <1>2
  <2>2. At(n, a) \in X => a \in A
    BY <1>1, <1>2
  <2>3. a \in A => At(n, a) \in X
    BY <1>1
  <2> QED
    BY <1>6, <2>1, <2>2, <2>3
<1>8. /\ \A n : ListedAt(OriginalRows, T, n) = {a \in Nodes : At(n, a) \in OriginalRows}
      /\ \A n : ListedAt(Q, T, n) = {a \in Nodes : At(n, a) \in Q}
  BY DEF ListedAt, At
<1>9. \A n \in below :
        /\ ListedAt(OriginalRows, T, n) \subseteq ListedAt(Q, T, n)
        /\ ListedAt(Q, T, n) \subseteq ListedAt(OriginalRows, T, n) \cup A
        /\ S = Inserts(X) => ListedAt(Q, T, n) = ListedAt(OriginalRows, T, n) \cup A
  BY <1>7, <1>8
<1>10. \A row \in Q : row.id \notin below => row \in OriginalRows
  BY <1>4, <1>6
<1>11. \A row \in Q : row \in OriginalRows \/ row = Row(Original, row.node, T[row.id].order, row.id, T[row.id].parent)
  BY <1>3, <1>6
<1> QED
  BY <1>6, <1>9, <1>10, <1>11 DEF Q, below, X

\* The node's own rows X at its place, deleted or inserted.
LEMMA OwnDeletes ==
    ASSUME TablesOK, NEW d, NEW A, NEW order, NEW parent,
           NEW S, Apply(S), S \subseteq Deletes(NodeRowsAt(Original, d, A, order, parent))
    PROVE  LET X == NodeRowsAt(Original, d, A, order, parent)
               Own(R) == {row \in R : row.id = d.id} IN
           /\ RowsOf(Original, rows') \subseteq OriginalRows
           /\ \A row \in OriginalRows : row.id # d.id => row \in RowsOf(Original, rows')
           /\ S = Deletes(X) /\ Own(OriginalRows) \subseteq X => Own(RowsOf(Original, rows')) = {}
<1> DEFINE X == NodeRowsAt(Original, d, A, order, parent)
           M == {d.id}
<1>1. \A x \in X : x.id \in M
  BY DEF NodeRowsAt, Row
<1> HIDE DEF X
<1>2. S \subseteq Deletes(X)
  BY DEF X
<1> HIDE DEF M
<1>3. /\ RowsOf(Original, rows') \subseteq OriginalRows
      /\ \A row \in OriginalRows : row.id \notin M => row \in RowsOf(Original, rows')
      /\ S = Deletes(X) => \A row \in RowsOf(Original, rows'), x \in X : Key(x) # Key(row)
  BY <1>1, <1>2, DeletesOthers
<1> QED
  BY <1>3 DEF X, M

\* Inserting them: none but those of X come.
LEMMA OwnInserts ==
    ASSUME TablesOK, NEW d, NEW A, NEW order, NEW parent,
           NEW S, Apply(S), S \subseteq Inserts(NodeRowsAt(Original, d, A, order, parent))
    PROVE  LET X == NodeRowsAt(Original, d, A, order, parent)
               Own(R) == {row \in R : row.id = d.id} IN
           /\ \A row \in RowsOf(Original, rows') : row.id # d.id => row \in OriginalRows
           /\ \A row \in OriginalRows : row.id # d.id => row \in RowsOf(Original, rows')
           /\ Own(RowsOf(Original, rows')) \subseteq Own(OriginalRows) \cup X
           /\ S = Inserts(X) => X \subseteq Own(RowsOf(Original, rows'))
<1> DEFINE X == NodeRowsAt(Original, d, A, order, parent)
           M == {d.id}
<1>1. \A x \in X : x.id \in M /\ x.branch = Original
  BY DEF NodeRowsAt, Row
<1> HIDE DEF X
<1>2. S \subseteq Inserts(X)
  BY DEF X
<1> HIDE DEF M
<1>3. /\ RowsOf(Original, rows') \subseteq OriginalRows \cup X
      /\ \A row \in OriginalRows : row.id \notin M => row \in RowsOf(Original, rows')
      /\ S = Inserts(X) => X \subseteq RowsOf(Original, rows')
  BY <1>1, <1>2, InsertsOthers
<1> QED
  BY <1>1, <1>3 DEF X, M

\* Rows that are there of other nodes as before are listed where they were.
LEMMA SameListed ==
    ASSUME NEW T, NEW A, NEW B, NEW n,
           \A row : row.id = n => (row \in A <=> row \in B)
    PROVE  ListedAt(A, T, n) = ListedAt(B, T, n)
<1>1. \A a : Row(Original, a, T[n].order, n, T[n].parent).id = n
  BY DEF Row
<1> QED
  BY <1>1 DEF ListedAt

\* What a step may do to the rows P of the original, and what it does in full;
\* Q are the rows after it.
RowsForward(P, Q, T, d, k) ==
    LET Own(R) == {row \in R : row.id = d.id}
        old == NodeRowsAt(Original, d, d.oldAncestors, d.oldOrder, d.oldParent)
        new == NodeRowsAt(Original, d, d.newAncestors, d.newOrder, d.newParent) IN
    /\ \A row \in Q : row.id # d.id =>
          row \in P \/ row = Row(Original, row.node, T[row.id].order, row.id, T[row.id].parent)
    /\ \A row : row.id \notin {d.id} \cup DescendantIds(d) => (row \in P <=> row \in Q)
    /\ \A n \in DescendantIds(d) : PartForward(ListedAt(P, T, n), ListedAt(Q, T, n), d, k, 6, 9)
    /\ k = 2 => Own(Q) \subseteq Own(P)
    /\ k = 3 => Own(Q) \subseteq Own(P) \cup new
    /\ k \notin {2, 3} => Own(Q) = Own(P)

RowsForwardInFull(P, Q, T, d, k) ==
    LET Own(R) == {row \in R : row.id = d.id}
        old == NodeRowsAt(Original, d, d.oldAncestors, d.oldOrder, d.oldParent)
        new == NodeRowsAt(Original, d, d.newAncestors, d.newOrder, d.newParent) IN
    /\ \A n \in DescendantIds(d) : AllForward(ListedAt(P, T, n), ListedAt(Q, T, n), d, k, 6, 9)
    /\ k = 2 /\ Own(P) \subseteq old => Own(Q) = {}
    /\ k = 3 => new \subseteq Own(Q)

RowsBackward(P, Q, T, d, k) ==
    LET Own(R) == {row \in R : row.id = d.id}
        old == NodeRowsAt(Original, d, d.oldAncestors, d.oldOrder, d.oldParent)
        new == NodeRowsAt(Original, d, d.newAncestors, d.newOrder, d.newParent) IN
    /\ \A row \in Q : row.id # d.id =>
          row \in P \/ row = Row(Original, row.node, T[row.id].order, row.id, T[row.id].parent)
    /\ \A row : row.id \notin {d.id} \cup DescendantIds(d) => (row \in P <=> row \in Q)
    /\ \A n \in DescendantIds(d) : PartBackward(ListedAt(P, T, n), ListedAt(Q, T, n), d, k, 6, 9)
    /\ k = 3 => Own(Q) \subseteq Own(P)
    /\ k = 2 => Own(Q) \subseteq Own(P) \cup old
    /\ k \notin {2, 3} => Own(Q) = Own(P)

RowsBackwardInFull(P, Q, T, d, k) ==
    LET Own(R) == {row \in R : row.id = d.id}
        old == NodeRowsAt(Original, d, d.oldAncestors, d.oldOrder, d.oldParent)
        new == NodeRowsAt(Original, d, d.newAncestors, d.newOrder, d.newParent) IN
    /\ \A n \in DescendantIds(d) : AllBackward(ListedAt(P, T, n), ListedAt(Q, T, n), d, k, 6, 9)
    /\ k = 3 /\ Own(P) \subseteq new => Own(Q) = {}
    /\ k = 2 => old \subseteq Own(Q)

\* With that the rows stay on their way.
LEMMA HalfwayForward ==
    ASSUME NEW T, IsTreeOf(T), NEW R, RowsOfTree(T, R), NEW d, Planned(d, T, R),
           NEW k \in 1 .. 11, NEW P, NEW Q, HalfwayRows(P, T, d, "forward", k), RowsForward(P, Q, T, d, k)
    PROVE  /\ HalfwayRows(Q, T, d, "backward", k) /\ HalfwayRows(Q, T, d, "dead", k)
           /\ RowsForwardInFull(P, Q, T, d, k) => HalfwayRows(Q, T, d, "forward", k + 1)
<1> DEFINE full == RowsForwardInFull(P, Q, T, d, k)
           Own(A) == {row \in A : row.id = d.id}
<1>1. \A row \in Q : row.id # d.id =>
         row = Row(Original, row.node, T[row.id].order, row.id, T[row.id].parent)
  BY DEF HalfwayRows, RowsForward
<1>2. \A n \in Nodes : n \notin {d.id} \cup DescendantIds(d) => ListedAt(Q, T, n) = T[n].ancestors
  <2>1. ASSUME NEW n \in Nodes, n \notin {d.id} \cup DescendantIds(d)
        PROVE  ListedAt(Q, T, n) = ListedAt(P, T, n)
    <3>1. \A row : row.id = n => (row \in Q <=> row \in P)
      BY <2>1 DEF RowsForward
    <3> QED
      BY <3>1, SameListed
  <2> QED
    BY <2>1 DEF HalfwayRows
<1>3. ASSUME NEW n \in DescendantIds(d)
      PROVE  /\ Swap(ListedAt(Q, T, n), T[n].ancestors, d, "backward", k, 6, 9)
             /\ Swap(ListedAt(Q, T, n), T[n].ancestors, d, "dead", k, 6, 9)
             /\ full => Swap(ListedAt(Q, T, n), T[n].ancestors, d, "forward", k + 1, 6, 9)
  <2>1. d.removed \subseteq T[n].ancestors /\ d.added \cap T[n].ancestors = {}
    BY PlannedFacts
  <2>2. /\ Swap(ListedAt(P, T, n), T[n].ancestors, d, "forward", k, 6, 9)
        /\ PartForward(ListedAt(P, T, n), ListedAt(Q, T, n), d, k, 6, 9)
        /\ full => AllForward(ListedAt(P, T, n), ListedAt(Q, T, n), d, k, 6, 9)
    BY DEF HalfwayRows, RowsForward, RowsForwardInFull
  <2>3. 6 \in 1 .. 11 /\ 9 \in 1 .. 11 /\ 6 < 9
    OBVIOUS
  <2> HIDE DEF full
  <2> QED
    BY <2>1, <2>2, <2>3, SwapForward
<1>4. /\ OwnRows(Own(Q), d, "backward", k) /\ OwnRows(Own(Q), d, "dead", k)
      /\ full => OwnRows(Own(Q), d, "forward", k + 1)
  <2> DEFINE old == NodeRowsAt(Original, d, d.oldAncestors, d.oldOrder, d.oldParent)
             new == NodeRowsAt(Original, d, d.newAncestors, d.newOrder, d.newParent)
             X == Own(P)
             Y == Own(Q)
  <2>1. /\ k <= 3 => X \subseteq old
        /\ k > 3 => X \subseteq new
        /\ k <= 2 => X = old
        /\ k > 2 /\ k <= 3 => X = {}
        /\ k > 3 => X = new
    BY DEF HalfwayRows, OwnRows, Done, Undone
  <2>2. /\ k = 2 => Y \subseteq X
        /\ k = 3 => Y \subseteq X \cup new
        /\ k \notin {2, 3} => Y = X
    BY DEF RowsForward
  <2>3. full => /\ k = 2 /\ X \subseteq old => Y = {}
                /\ k = 3 => new \subseteq Y
    BY DEF RowsForwardInFull
  <2> HIDE DEF old, new, X, Y, full, Own
  <2>4. k < 2 \/ k = 2 \/ k = 3 \/ k > 3
    OBVIOUS
  <2>5. /\ (k < 3 => Y \subseteq old) /\ (k >= 3 => Y \subseteq new)
        /\ (k < 2 => Y = old) /\ (k > 2 /\ k < 3 => Y = {}) /\ (k > 3 => Y = new)
    BY <2>1, <2>2, <2>4
  <2>6. full => /\ (k < 3 => Y \subseteq old) /\ (k >= 3 => Y \subseteq new)
                /\ (k < 2 => Y = old) /\ (k = 2 => Y = {}) /\ (k >= 3 => Y = new)
    BY <2>1, <2>2, <2>3, <2>4
  <2>7. OwnRows(Y, d, "backward", k) /\ OwnRows(Y, d, "dead", k)
    BY <2>5 DEF OwnRows, Done, Undone, old, new
  <2>8. full => OwnRows(Y, d, "forward", k + 1)
    BY <2>6 DEF OwnRows, Done, Undone, old, new
  <2> QED
    BY <2>7, <2>8 DEF Y
<1> QED
  BY <1>1, <1>2, <1>3, <1>4 DEF HalfwayRows

\* Backward too.
LEMMA HalfwayBackward ==
    ASSUME NEW T, IsTreeOf(T), NEW R, RowsOfTree(T, R), NEW d, Planned(d, T, R),
           NEW k \in 1 .. 11, NEW P, NEW Q, HalfwayRows(P, T, d, "backward", k), RowsBackward(P, Q, T, d, k)
    PROVE  /\ HalfwayRows(Q, T, d, "dead", k)
           /\ RowsBackwardInFull(P, Q, T, d, k) => HalfwayRows(Q, T, d, "backward", k - 1)
<1> DEFINE full == RowsBackwardInFull(P, Q, T, d, k)
           Own(A) == {row \in A : row.id = d.id}
<1>1. \A row \in Q : row.id # d.id =>
         row = Row(Original, row.node, T[row.id].order, row.id, T[row.id].parent)
  BY DEF HalfwayRows, RowsBackward
<1>2. \A n \in Nodes : n \notin {d.id} \cup DescendantIds(d) => ListedAt(Q, T, n) = T[n].ancestors
  <2>1. ASSUME NEW n \in Nodes, n \notin {d.id} \cup DescendantIds(d)
        PROVE  ListedAt(Q, T, n) = ListedAt(P, T, n)
    <3>1. \A row : row.id = n => (row \in Q <=> row \in P)
      BY <2>1 DEF RowsBackward
    <3> QED
      BY <3>1, SameListed
  <2> QED
    BY <2>1 DEF HalfwayRows
<1>3. ASSUME NEW n \in DescendantIds(d)
      PROVE  /\ Swap(ListedAt(Q, T, n), T[n].ancestors, d, "dead", k, 6, 9)
             /\ full => Swap(ListedAt(Q, T, n), T[n].ancestors, d, "backward", k - 1, 6, 9)
  <2>1. d.removed \subseteq T[n].ancestors /\ d.added \cap T[n].ancestors = {}
    BY PlannedFacts
  <2>2. /\ Swap(ListedAt(P, T, n), T[n].ancestors, d, "backward", k, 6, 9)
        /\ PartBackward(ListedAt(P, T, n), ListedAt(Q, T, n), d, k, 6, 9)
        /\ full => AllBackward(ListedAt(P, T, n), ListedAt(Q, T, n), d, k, 6, 9)
    BY DEF HalfwayRows, RowsBackward, RowsBackwardInFull
  <2>3. 6 \in 1 .. 11 /\ 9 \in 1 .. 11 /\ 6 < 9
    OBVIOUS
  <2> HIDE DEF full
  <2> QED
    BY <2>1, <2>2, <2>3, SwapBackward
<1>4. /\ OwnRows(Own(Q), d, "dead", k)
      /\ full => OwnRows(Own(Q), d, "backward", k - 1)
  <2> DEFINE old == NodeRowsAt(Original, d, d.oldAncestors, d.oldOrder, d.oldParent)
             new == NodeRowsAt(Original, d, d.newAncestors, d.newOrder, d.newParent)
             X == Own(P)
             Y == Own(Q)
  <2>1. /\ k < 3 => X \subseteq old
        /\ k >= 3 => X \subseteq new
        /\ k < 2 => X = old
        /\ k > 3 => X = new
    BY DEF HalfwayRows, OwnRows, Done, Undone
  <2>2. /\ k = 3 => Y \subseteq X
        /\ k = 2 => Y \subseteq X \cup old
        /\ k \notin {2, 3} => Y = X
    BY DEF RowsBackward
  <2>3. full => /\ k = 3 /\ X \subseteq new => Y = {}
                /\ k = 2 => old \subseteq Y
    BY DEF RowsBackwardInFull
  <2> HIDE DEF old, new, X, Y, full, Own
  <2>4. k < 2 \/ k = 2 \/ k = 3 \/ k > 3
    OBVIOUS
  <2>5. /\ (k < 3 => Y \subseteq old) /\ (k >= 3 => Y \subseteq new)
        /\ (k < 2 => Y = old) /\ (k > 2 /\ k < 3 => Y = {}) /\ (k > 3 => Y = new)
    BY <2>1, <2>2, <2>4
  <2>6. full => /\ (k <= 3 => Y \subseteq old) /\ (k > 3 => Y \subseteq new)
                /\ (k <= 2 => Y = old) /\ (k = 3 => Y = {}) /\ (k > 3 => Y = new)
    BY <2>1, <2>2, <2>3, <2>4
  <2>7. OwnRows(Y, d, "dead", k)
    BY <2>5 DEF OwnRows, Done, Undone, old, new
  <2>8. full => OwnRows(Y, d, "backward", k - 1)
    BY <2>6 DEF OwnRows, Done, Undone, old, new
  <2> QED
    BY <2>7, <2>8 DEF Y
<1> QED
  BY <1>1, <1>2, <1>3, <1>4 DEF HalfwayRows

\* What the statements of a step do to the original's rows.
LEMMA RowsGoForward ==
    ASSUME TablesOK, NEW T, IsTreeOf(T), NEW R, RowsOfTree(T, R), NEW d, Planned(d, T, R),
           NEW k \in 1 .. 11, NEW S, Apply(S), S \subseteq Statements(Original, d, k)
    PROVE  /\ RowsForward(OriginalRows, RowsOf(Original, rows'), T, d, k)
           /\ S = Statements(Original, d, k) => RowsForwardInFull(OriginalRows, RowsOf(Original, rows'), T, d, k)
<1> DEFINE P == OriginalRows
           Q == RowsOf(Original, rows')
           Own(A) == {row \in A : row.id = d.id}
           below == DescendantIds(d)
           old == NodeRowsAt(Original, d, d.oldAncestors, d.oldOrder, d.oldParent)
           new == NodeRowsAt(Original, d, d.newAncestors, d.newOrder, d.newParent)
           full == S = Statements(Original, d, k)
           others == /\ \A row \in Q : row.id # d.id =>
                           row \in P \/ row = Row(Original, row.node, T[row.id].order, row.id, T[row.id].parent)
                     /\ \A row : row.id \notin {d.id} \cup below => (row \in P <=> row \in Q)
           ofBelow == \A n \in below :
                        /\ PartForward(ListedAt(P, T, n), ListedAt(Q, T, n), d, k, 6, 9)
                        /\ full => AllForward(ListedAt(P, T, n), ListedAt(Q, T, n), d, k, 6, 9)
           own == /\ k = 2 => Own(Q) \subseteq Own(P) /\ (full /\ Own(P) \subseteq old => Own(Q) = {})
                  /\ k = 3 => Own(Q) \subseteq Own(P) \cup new /\ (full => new \subseteq Own(Q))
                  /\ k \notin {2, 3} => Own(Q) = Own(P)
<1>1. /\ d.id \notin below
      /\ ~ParentChanged(d) => d.removed = {} /\ d.added = {}
      /\ d.removed \in SUBSET Nodes /\ d.added \in SUBSET Nodes
  <2>1. d.oldAncestors \subseteq Nodes /\ d.added = d.newAncestors \ d.oldAncestors
    BY DEF Planned, IsTreeOf
  <2> QED
    BY <2>1, PlannedFacts
<1> USE DEF UpdateNodeOrderIndex, RemoveNodeFromOldAncestors, AddNodeToNewAncestors,
            PullRemovedAncestorsFromNode, PullRemovedAncestorsFromDescendants,
            DeleteNodeDescendantsFromRemovedAncestors, PushAddedAncestorsToNode,
            PushAddedAncestorsToDescendants, InsertNodeDescendantsToAddedAncestors
<1>2. CASE k = 2
  <2>1. Statements(Original, d, k) = Deletes(old)
    BY <1>2 DEF Statements
  <2>2. S \subseteq Deletes(old) /\ (full => S = Deletes(old))
    BY <2>1
  <2> HIDE DEF full
  <2>3. /\ Q \subseteq P
        /\ \A row \in P : row.id # d.id => row \in Q
        /\ full /\ Own(P) \subseteq old => Own(Q) = {}
    BY <2>2, OwnDeletes
  <2>4. others /\ own
    BY <1>1, <1>2, <2>3
  <2>5. \A n \in below : ListedAt(P, T, n) = ListedAt(Q, T, n)
    <3> HIDE DEF P, Q
    <3> QED
      BY <1>1, <2>3, SameListed
  <2>6. ofBelow
    BY <1>2, <2>5 DEF PartForward, AllForward
  <2> QED
    BY <1>2, <2>4, <2>6 DEF RowsForward, RowsForwardInFull, full
<1>3. CASE k = 3
  <2>1. Statements(Original, d, k) = Inserts(new)
    BY <1>3 DEF Statements
  <2>2. S \subseteq Inserts(new) /\ (full => S = Inserts(new))
    BY <2>1
  <2> HIDE DEF full
  <2>3. /\ \A row \in Q : row.id # d.id => row \in P
        /\ \A row \in P : row.id # d.id => row \in Q
        /\ Own(Q) \subseteq Own(P) \cup new
        /\ full => new \subseteq Own(Q)
    BY <2>2, OwnInserts
  <2>4. others /\ own
    BY <1>1, <1>3, <2>3
  <2>5. \A n \in below : ListedAt(P, T, n) = ListedAt(Q, T, n)
    <3> HIDE DEF P, Q
    <3> QED
      BY <1>1, <2>3, SameListed
  <2>6. ofBelow
    BY <1>3, <2>5 DEF PartForward, AllForward
  <2> QED
    BY <1>3, <2>4, <2>6 DEF RowsForward, RowsForwardInFull, full
<1>4. CASE k = 6 /\ ParentChanged(d)
  <2> DEFINE X == DescendantRowsAt(Original, d, d.removed)
  <2>1. Statements(Original, d, k) = Deletes(X)
    BY <1>4 DEF Statements
  <2>2. S \subseteq Deletes(X) /\ (full => S = Deletes(X))
    BY <2>1
  <2> HIDE DEF full
  <2>3. /\ Q \subseteq P
        /\ \A row \in P : row.id \notin below => row \in Q
        /\ \A n \in below :
             /\ ListedAt(P, T, n) \ d.removed \subseteq ListedAt(Q, T, n)
             /\ ListedAt(Q, T, n) \subseteq ListedAt(P, T, n)
             /\ full => ListedAt(Q, T, n) = ListedAt(P, T, n) \ d.removed
    BY <1>1, <2>2, DescendantDeletes
  <2>4. others /\ own
    BY <1>1, <1>4, <2>3
  <2>5. ofBelow
    BY <1>4, <2>3 DEF PartForward, AllForward
  <2> QED
    BY <1>4, <2>4, <2>5 DEF RowsForward, RowsForwardInFull, full
<1>5. CASE k = 9 /\ ParentChanged(d)
  <2> DEFINE X == DescendantRowsAt(Original, d, d.added)
  <2>1. Statements(Original, d, k) = Inserts(X)
    BY <1>5 DEF Statements
  <2>2. S \subseteq Inserts(X) /\ (full => S = Inserts(X))
    BY <2>1
  <2> HIDE DEF full
  <2>3. /\ \A row \in Q : row \in P \/ row = Row(Original, row.node, T[row.id].order, row.id, T[row.id].parent)
        /\ \A row \in Q : row.id \notin below => row \in P
        /\ \A row \in P : row.id \notin below => row \in Q
        /\ \A n \in below :
             /\ ListedAt(P, T, n) \subseteq ListedAt(Q, T, n)
             /\ ListedAt(Q, T, n) \subseteq ListedAt(P, T, n) \cup d.added
             /\ full => ListedAt(Q, T, n) = ListedAt(P, T, n) \cup d.added
    BY <1>1, <2>2, DescendantInserts
  <2>4. others /\ own
    BY <1>1, <1>5, <2>3
  <2>5. ofBelow
    BY <1>5, <2>3 DEF PartForward, AllForward
  <2> QED
    BY <1>5, <2>4, <2>5 DEF RowsForward, RowsForwardInFull, full
<1>6. CASE k \in {1, 4, 5, 7, 8, 10, 11} \/ (k \in 4 .. 9 /\ ~ParentChanged(d))
  <2>1. \A s \in Statements(Original, d, k) : s.op \notin {"insert", "delete"}
    <3>1. CASE k \in 4 .. 9 /\ ~ParentChanged(d)
      BY <3>1 DEF Statements
    <3>2. CASE k \in {1, 4, 5, 7, 8, 10, 11} /\ ~(k \in 4 .. 9 /\ ~ParentChanged(d))
      <4>1. CASE k = 1
        BY <4>1 DEF Statements, Place
      <4>2. CASE k \in {4, 5}
        BY <3>2, <4>2 DEF Statements, PullAncestors, PushAncestors
      <4>3. CASE k \in {7, 8}
        BY <3>2, <4>3 DEF Statements, PullAncestors, PushAncestors
      <4>4. CASE k \in {10, 11}
        BY <4>4 DEF Statements
      <4> QED
        BY <3>2, <4>1, <4>2, <4>3, <4>4
    <3> QED
      BY <1>6, <3>1, <3>2
  <2>2. Q = P
    BY <2>1, NoRowStatements DEF OriginalRows
  <2>3. k \notin {2, 3} /\ (k \in {6, 9} => d.removed = {} /\ d.added = {})
    BY <1>1, <1>6
  <2> HIDE DEF P, Q
  <2>4. others /\ own
    BY <2>2, <2>3
  <2>5. ofBelow
    BY <2>2, <2>3 DEF PartForward, AllForward
  <2> QED
    BY <2>3, <2>4, <2>5 DEF RowsForward, RowsForwardInFull, P, Q
<1>7. \/ k = 2 \/ k = 3 \/ (k \in {6, 9} /\ ParentChanged(d))
      \/ k \in {1, 4, 5, 7, 8, 10, 11} \/ (k \in 4 .. 9 /\ ~ParentChanged(d))
  OBVIOUS
<1> QED
  BY <1>2, <1>3, <1>4, <1>5, <1>6, <1>7

\* What the statements of an undo do to them.
LEMMA RowsGoBackward ==
    ASSUME TablesOK, NEW T, IsTreeOf(T), NEW R, RowsOfTree(T, R), NEW d, Planned(d, T, R),
           NEW k \in 1 .. 11, NEW S, Apply(S), S \subseteq UndoStatements(Original, d, k)
    PROVE  /\ RowsBackward(OriginalRows, RowsOf(Original, rows'), T, d, k)
           /\ S = UndoStatements(Original, d, k) => RowsBackwardInFull(OriginalRows, RowsOf(Original, rows'), T, d, k)
<1> DEFINE P == OriginalRows
           Q == RowsOf(Original, rows')
           Own(A) == {row \in A : row.id = d.id}
           below == DescendantIds(d)
           old == NodeRowsAt(Original, d, d.oldAncestors, d.oldOrder, d.oldParent)
           new == NodeRowsAt(Original, d, d.newAncestors, d.newOrder, d.newParent)
           full == S = UndoStatements(Original, d, k)
           others == /\ \A row \in Q : row.id # d.id =>
                           row \in P \/ row = Row(Original, row.node, T[row.id].order, row.id, T[row.id].parent)
                     /\ \A row : row.id \notin {d.id} \cup below => (row \in P <=> row \in Q)
           ofBelow == \A n \in below :
                        /\ PartBackward(ListedAt(P, T, n), ListedAt(Q, T, n), d, k, 6, 9)
                        /\ full => AllBackward(ListedAt(P, T, n), ListedAt(Q, T, n), d, k, 6, 9)
           own == /\ k = 3 => Own(Q) \subseteq Own(P) /\ (full /\ Own(P) \subseteq new => Own(Q) = {})
                  /\ k = 2 => Own(Q) \subseteq Own(P) \cup old /\ (full => old \subseteq Own(Q))
                  /\ k \notin {2, 3} => Own(Q) = Own(P)
<1>1. /\ d.id \notin below
      /\ ~ParentChanged(d) => d.removed = {} /\ d.added = {}
      /\ d.removed \in SUBSET Nodes /\ d.added \in SUBSET Nodes
  <2>1. d.oldAncestors \subseteq Nodes /\ d.added = d.newAncestors \ d.oldAncestors
    BY DEF Planned, IsTreeOf
  <2> QED
    BY <2>1, PlannedFacts
<1> USE DEF UpdateNodeOrderIndex, RemoveNodeFromOldAncestors, AddNodeToNewAncestors,
            PullRemovedAncestorsFromNode, PullRemovedAncestorsFromDescendants,
            DeleteNodeDescendantsFromRemovedAncestors, PushAddedAncestorsToNode,
            PushAddedAncestorsToDescendants, InsertNodeDescendantsToAddedAncestors
<1>2. CASE k = 3
  <2>1. UndoStatements(Original, d, k) = Deletes(new)
    BY <1>2 DEF UndoStatements
  <2>2. S \subseteq Deletes(new) /\ (full => S = Deletes(new))
    BY <2>1
  <2> HIDE DEF full
  <2>3. /\ Q \subseteq P
        /\ \A row \in P : row.id # d.id => row \in Q
        /\ full /\ Own(P) \subseteq new => Own(Q) = {}
    BY <2>2, OwnDeletes
  <2>4. others /\ own
    BY <1>1, <1>2, <2>3
  <2>5. \A n \in below : ListedAt(P, T, n) = ListedAt(Q, T, n)
    <3> HIDE DEF P, Q
    <3> QED
      BY <1>1, <2>3, SameListed
  <2>6. ofBelow
    BY <1>2, <2>5 DEF PartBackward, AllBackward
  <2> QED
    BY <1>2, <2>4, <2>6 DEF RowsBackward, RowsBackwardInFull, full
<1>3. CASE k = 2
  <2>1. UndoStatements(Original, d, k) = Inserts(old)
    BY <1>3 DEF UndoStatements
  <2>2. S \subseteq Inserts(old) /\ (full => S = Inserts(old))
    BY <2>1
  <2> HIDE DEF full
  <2>3. /\ \A row \in Q : row.id # d.id => row \in P
        /\ \A row \in P : row.id # d.id => row \in Q
        /\ Own(Q) \subseteq Own(P) \cup old
        /\ full => old \subseteq Own(Q)
    BY <2>2, OwnInserts
  <2>4. others /\ own
    BY <1>1, <1>3, <2>3
  <2>5. \A n \in below : ListedAt(P, T, n) = ListedAt(Q, T, n)
    <3> HIDE DEF P, Q
    <3> QED
      BY <1>1, <2>3, SameListed
  <2>6. ofBelow
    BY <1>3, <2>5 DEF PartBackward, AllBackward
  <2> QED
    BY <1>3, <2>4, <2>6 DEF RowsBackward, RowsBackwardInFull, full
<1>4. CASE k = 9 /\ ParentChanged(d)
  <2> DEFINE X == DescendantRowsAt(Original, d, d.added)
  <2>1. UndoStatements(Original, d, k) = Deletes(X)
    BY <1>4 DEF UndoStatements
  <2>2. S \subseteq Deletes(X) /\ (full => S = Deletes(X))
    BY <2>1
  <2> HIDE DEF full
  <2>3. /\ Q \subseteq P
        /\ \A row \in P : row.id \notin below => row \in Q
        /\ \A n \in below :
             /\ ListedAt(P, T, n) \ d.added \subseteq ListedAt(Q, T, n)
             /\ ListedAt(Q, T, n) \subseteq ListedAt(P, T, n)
             /\ full => ListedAt(Q, T, n) = ListedAt(P, T, n) \ d.added
    BY <1>1, <2>2, DescendantDeletes
  <2>4. others /\ own
    BY <1>1, <1>4, <2>3
  <2>5. ofBelow
    BY <1>4, <2>3 DEF PartBackward, AllBackward
  <2> QED
    BY <1>4, <2>4, <2>5 DEF RowsBackward, RowsBackwardInFull, full
<1>5. CASE k = 6 /\ ParentChanged(d)
  <2> DEFINE X == DescendantRowsAt(Original, d, d.removed)
  <2>1. UndoStatements(Original, d, k) = Inserts(X)
    BY <1>5 DEF UndoStatements
  <2>2. S \subseteq Inserts(X) /\ (full => S = Inserts(X))
    BY <2>1
  <2> HIDE DEF full
  <2>3. /\ \A row \in Q : row \in P \/ row = Row(Original, row.node, T[row.id].order, row.id, T[row.id].parent)
        /\ \A row \in Q : row.id \notin below => row \in P
        /\ \A row \in P : row.id \notin below => row \in Q
        /\ \A n \in below :
             /\ ListedAt(P, T, n) \subseteq ListedAt(Q, T, n)
             /\ ListedAt(Q, T, n) \subseteq ListedAt(P, T, n) \cup d.removed
             /\ full => ListedAt(Q, T, n) = ListedAt(P, T, n) \cup d.removed
    BY <1>1, <2>2, DescendantInserts
  <2>4. others /\ own
    BY <1>1, <1>5, <2>3
  <2>5. ofBelow
    BY <1>5, <2>3 DEF PartBackward, AllBackward
  <2> QED
    BY <1>5, <2>4, <2>5 DEF RowsBackward, RowsBackwardInFull, full
<1>6. CASE k \in {1, 4, 5, 7, 8, 10, 11} \/ (k \in 4 .. 9 /\ ~ParentChanged(d))
  <2>1. \A s \in UndoStatements(Original, d, k) : s.op \notin {"insert", "delete"}
    <3>1. CASE k \in 4 .. 9 /\ ~ParentChanged(d)
      BY <3>1 DEF UndoStatements
    <3>2. CASE k \in {1, 4, 5, 7, 8, 10, 11} /\ ~(k \in 4 .. 9 /\ ~ParentChanged(d))
      <4>1. CASE k = 1
        BY <4>1 DEF UndoStatements, Place
      <4>2. CASE k \in {4, 5}
        BY <3>2, <4>2 DEF UndoStatements, PullAncestors, PushAncestors
      <4>3. CASE k \in {7, 8}
        BY <3>2, <4>3 DEF UndoStatements, PullAncestors, PushAncestors
      <4>4. CASE k \in {10, 11}
        BY <4>4 DEF UndoStatements
      <4> QED
        BY <3>2, <4>1, <4>2, <4>3, <4>4
    <3> QED
      BY <1>6, <3>1, <3>2
  <2>2. Q = P
    BY <2>1, NoRowStatements DEF OriginalRows
  <2>3. k \notin {2, 3} /\ (k \in {6, 9} => d.removed = {} /\ d.added = {})
    BY <1>1, <1>6
  <2> HIDE DEF P, Q
  <2>4. others /\ own
    BY <2>2, <2>3
  <2>5. ofBelow
    BY <2>2, <2>3 DEF PartBackward, AllBackward
  <2> QED
    BY <2>3, <2>4, <2>5 DEF RowsBackward, RowsBackwardInFull, P, Q
<1>7. \/ k = 2 \/ k = 3 \/ (k \in {6, 9} /\ ParentChanged(d))
      \/ k \in {1, 4, 5, 7, 8, 10, 11} \/ (k \in 4 .. 9 /\ ~ParentChanged(d))
  OBVIOUS
<1> QED
  BY <1>2, <1>3, <1>4, <1>5, <1>6, <1>7

\* The rows P list every node where it is below in N, with its order and its
\* parent; the nodes other than one have those of T.
ListsAll(N, P, T, id) ==
    /\ \A row \in P : row.id \in Nodes /\ row.node \in Nodes
    /\ \A row \in P : row.id # id =>
          row = Row(Original, row.node, T[row.id].order, row.id, T[row.id].parent)
    /\ \A n \in Nodes : n # id => N[n].parent = T[n].parent /\ N[n].order = T[n].order
    /\ \A n \in Nodes : n # id => ListedAt(P, T, n) = N[n].ancestors
    /\ {row \in P : row.id = id} = AncestorRows(Original, id, N[id])

\* Such rows are those of the tree.
LEMMA RowsListed ==
    ASSUME NEW T, NEW N, NEW P, NEW id \in Nodes, ListsAll(N, P, T, id)
    PROVE  RowsOfTree(N, P)
<1> USE DEF ListsAll
<1>1. ASSUME NEW row \in P
      PROVE  \E n \in Nodes : row \in AncestorRows(Original, n, N[n])
  <2>1. CASE row.id = id
    BY <2>1
  <2>2. CASE row.id # id
    <3>1. row.id \in Nodes /\ row.node \in Nodes
      OBVIOUS
    <3>2. row.node \in ListedAt(P, T, row.id)
      BY <2>2, <3>1 DEF ListedAt
    <3>3. row.node \in N[row.id].ancestors
      BY <2>2, <3>1, <3>2
    <3>4. row = Row(Original, row.node, N[row.id].order, row.id, N[row.id].parent)
      BY <2>2, <3>1
    <3> QED
      BY <3>1, <3>3, <3>4 DEF AncestorRows
  <2> QED
    BY <2>1, <2>2
<1>2. ASSUME NEW n \in Nodes, NEW row \in AncestorRows(Original, n, N[n])
      PROVE  row \in P
  <2>1. CASE n = id
    BY <2>1
  <2>2. CASE n # id
    <3>1. PICK a \in N[n].ancestors : row = Row(Original, a, N[n].order, n, N[n].parent)
      BY DEF AncestorRows
    <3>2. a \in ListedAt(P, T, n)
      BY <2>2, <3>1
    <3>3. Row(Original, a, T[n].order, n, T[n].parent) \in P
      BY <3>2 DEF ListedAt
    <3> QED
      BY <2>2, <3>1, <3>3
  <2> QED
    BY <2>1, <2>2
<1> QED
  BY <1>1, <1>2 DEF RowsOfTree

\* Before its first step a reorder has done nothing.
LEMMA AtStart ==
    ASSUME NEW T, IsTreeOf(T), NEW R, RowsOfTree(T, R), NEW d, Planned(d, T, R)
    PROVE  HalfwayNodes(T, T, d, "forward", 1) /\ HalfwayRows(R, T, d, "forward", 1)
<1>1. d.id \in Nodes /\ DescendantIds(d) \subseteq Nodes /\ d.removed \subseteq T[d.id].ancestors
  BY PlannedFacts DEF Planned
<1>2. \A n \in DescendantIds(d) : d.removed \subseteq T[n].ancestors
  BY PlannedFacts
<1>3. ASSUME NEW X, NEW i \in 4 .. 9, NEW j \in 4 .. 9, i < j
      PROVE  Swap(X, X, d, "forward", 1, i, j)
  BY <1>3 DEF Swap, Undone, Done
<1>4. HalfwayNodes(T, T, d, "forward", 1)
  <2>1. Swap(T[d.id].ancestors, T[d.id].ancestors, d, "forward", 1, 4, 7)
    BY <1>3
  <2>2. \A n : Swap(T[n].ancestors, T[n].ancestors, d, "forward", 1, 5, 8)
    BY <1>3
  <2>3. d.oldParent = T[d.id].parent /\ d.oldOrder = T[d.id].order
    BY DEF Planned
  <2> QED
    BY <2>1, <2>2, <2>3 DEF HalfwayNodes, Done
<1>5. \A n \in Nodes : ListedAt(R, T, n) = T[n].ancestors
  <2>1. ASSUME NEW n \in Nodes, NEW a \in T[n].ancestors
        PROVE  a \in ListedAt(R, T, n)
    <3>1. a \in Nodes
      BY DEF IsTreeOf
    <3> QED
      BY <3>1, RowsTell DEF ListedAt
  <2>2. ASSUME NEW n \in Nodes, NEW a \in ListedAt(R, T, n)
        PROVE  a \in T[n].ancestors
    <3> DEFINE row == Row(Original, a, T[n].order, n, T[n].parent)
    <3>1. row \in R
      BY DEF ListedAt
    <3>2. row.id = n /\ row.node = a
      BY DEF Row
    <3> HIDE DEF row
    <3> QED
      BY <3>1, <3>2, RowsTell
  <2> QED
    BY <2>1, <2>2
<1>6. {row \in R : row.id = d.id} = NodeRowsAt(Original, d, d.oldAncestors, d.oldOrder, d.oldParent)
  <2>1. ASSUME NEW row \in R, row.id = d.id
        PROVE  row \in NodeRowsAt(Original, d, d.oldAncestors, d.oldOrder, d.oldParent)
    BY <2>1, RowsTell DEF NodeRowsAt, Planned
  <2>2. ASSUME NEW row \in NodeRowsAt(Original, d, d.oldAncestors, d.oldOrder, d.oldParent)
        PROVE  row \in R /\ row.id = d.id
    <3>1. PICK a \in d.oldAncestors : row = Row(Original, a, d.oldOrder, d.id, d.oldParent)
      BY DEF NodeRowsAt
    <3>2. row \in R
      BY <1>1, <3>1, RowsTell DEF Planned
    <3> QED
      BY <3>1, <3>2 DEF Row
  <2> QED
    BY <2>1, <2>2
<1>7. \A row \in R : row = Row(Original, row.node, T[row.id].order, row.id, T[row.id].parent)
  BY RowsTell
<1>8. \A n \in Nodes : Swap(ListedAt(R, T, n), T[n].ancestors, d, "forward", 1, 6, 9)
  BY <1>3, <1>5
<1>9. OwnRows({row \in R : row.id = d.id}, d, "forward", 1)
  BY <1>6 DEF OwnRows, Undone, Done
<1>10. HalfwayRows(R, T, d, "forward", 1)
  BY <1>1, <1>5, <1>7, <1>8, <1>9 DEF HalfwayRows
<1> QED
  BY <1>4, <1>10

\* After its last step the tables are those of a tree, with the node moved.
LEMMA AtFinish ==
    ASSUME NEW T, IsTreeOf(T), NEW R, RowsOfTree(T, R), NEW d, Planned(d, T, R), NEW N, NEW P,
           \A row \in P : row.id \in Nodes /\ row.node \in Nodes,
           HalfwayNodes(N, T, d, "forward", 12), HalfwayRows(P, T, d, "forward", 12)
    PROVE  IsTreeOf(N) /\ RowsOfTree(N, P)
<1> DEFINE below == DescendantIds(d)
           Moved(X) == (X \ d.removed) \cup d.added
<1>1. /\ below = {n \in Nodes : d.id \in T[n].ancestors}
      /\ d.id \in Nodes \ {Root} /\ d.newParent \in Nodes /\ d.id \notin below
      /\ d.newAncestors \subseteq Nodes
      /\ d.removed \subseteq T[d.id].ancestors /\ d.added \subseteq d.newAncestors
      /\ d.newAncestors = {d.newParent} \cup T[d.newParent].ancestors
      /\ d.newAncestors = Moved(T[d.id].ancestors)
      /\ d.newAncestors \cap ({d.id} \cup below) = {}
  <2>1. d.oldAncestors = T[d.id].ancestors /\ d.id \in Nodes \ {Root} /\ d.added \subseteq d.newAncestors
        /\ d.newAncestors = {d.newParent} \cup T[d.newParent].ancestors
    BY DEF Planned
  <2> QED
    BY <2>1, PlannedFacts
<1>2. \A X, old, i, j : i < j /\ j < 12 /\ Swap(X, old, d, "forward", 12, i, j) => X = Moved(old)
  BY DEF Swap, Done
<1>3. /\ \A n \in Nodes : n # d.id => N[n].parent = T[n].parent /\ N[n].order = T[n].order
      /\ \A n \in Nodes : n \notin {d.id} \cup below => N[n].ancestors = T[n].ancestors
      /\ \A n \in below : N[n].ancestors = Moved(T[n].ancestors)
      /\ N[d.id].ancestors = d.newAncestors
      /\ N[d.id].parent = d.newParent /\ N[d.id].order = d.newOrder
  <2>1. \A n \in below : Swap(N[n].ancestors, T[n].ancestors, d, "forward", 12, 5, 8)
    BY DEF HalfwayNodes
  <2>2. Swap(N[d.id].ancestors, T[d.id].ancestors, d, "forward", 12, 4, 7)
    BY DEF HalfwayNodes
  <2>3. N[d.id].parent = d.newParent /\ N[d.id].order = d.newOrder
    BY DEF HalfwayNodes, Done
  <2>4. /\ \A n \in Nodes : n # d.id => N[n].parent = T[n].parent /\ N[n].order = T[n].order
        /\ \A n \in Nodes : n \notin {d.id} \cup below => N[n].ancestors = T[n].ancestors
    BY DEF HalfwayNodes
  <2>5. \A n \in below : N[n].ancestors = Moved(T[n].ancestors)
    <3> HIDE DEF Moved
    <3> QED
      BY <1>2, <2>1
  <2>6. N[d.id].ancestors = Moved(T[d.id].ancestors)
    <3> HIDE DEF Moved
    <3> QED
      BY <1>2, <2>2
  <2> QED
    BY <1>1, <2>3, <2>4, <2>5, <2>6
<1>4. IsTreeOf(N)
  <2>1. ASSUME NEW n \in Nodes, n \notin {d.id} \cup below
        PROVE  /\ N[n].ancestors \subseteq Nodes
               /\ n \notin N[n].ancestors
               /\ n = Root => N[n].ancestors = {}
               /\ n # Root => /\ N[n].parent \in Nodes
                              /\ N[n].ancestors = {N[n].parent} \cup N[N[n].parent].ancestors
    <3> DEFINE p == T[n].parent
    <3>1. N[n].ancestors = T[n].ancestors /\ N[n].parent = p
      BY <1>3, <2>1
    <3>2. CASE n = Root
      BY <3>1, <3>2 DEF IsTreeOf
    <3>3. CASE n # Root
      <4>1. p \in Nodes /\ T[n].ancestors = {p} \cup T[p].ancestors
        BY <3>3 DEF IsTreeOf
      <4>2. p \notin {d.id} \cup below
        BY <1>1, <2>1, <4>1
      <4>3. N[p].ancestors = T[p].ancestors
        BY <1>3, <4>1, <4>2
      <4> QED
        BY <3>1, <3>3, <4>1, <4>3 DEF IsTreeOf
    <3> QED
      BY <3>2, <3>3
  <2>2. ASSUME NEW n \in below
        PROVE  /\ n \in Nodes \ {Root}
               /\ N[n].ancestors \subseteq Nodes
               /\ n \notin N[n].ancestors
               /\ N[n].parent \in Nodes
               /\ N[n].ancestors = {N[n].parent} \cup N[N[n].parent].ancestors
    <3> DEFINE p == T[n].parent
    <3>1. n \in Nodes \ {Root} /\ d.id \in T[n].ancestors
      BY <1>1 DEF IsTreeOf
    <3>2. p \in Nodes /\ T[n].ancestors = {p} \cup T[p].ancestors
          /\ n \notin T[n].ancestors /\ T[n].ancestors \subseteq Nodes
      BY <3>1 DEF IsTreeOf
    <3>3. N[n].ancestors = Moved(T[n].ancestors) /\ N[n].parent = p
      BY <1>1, <1>3, <3>1
    <3>4. p = d.id \/ p \in below
      BY <1>1, <3>1, <3>2
    <3>5. p \notin d.removed
      <4>1. d.id \notin T[d.id].ancestors
        BY <1>1 DEF IsTreeOf
      <4>2. p \in T[d.id].ancestors => T[p].ancestors \subseteq T[d.id].ancestors
        BY <1>1, TreeOrder
      <4> QED
        BY <1>1, <3>4, <4>1, <4>2
    <3>6. N[p].ancestors = Moved(T[p].ancestors)
      BY <1>1, <1>3, <3>4
    <3>7. N[n].ancestors = {p} \cup N[p].ancestors
      BY <3>2, <3>3, <3>5, <3>6
    <3>8. n \notin N[n].ancestors /\ N[n].ancestors \subseteq Nodes
      BY <1>1, <3>2, <3>3
    <3> QED
      BY <3>1, <3>2, <3>3, <3>7, <3>8
  <2>3. /\ N[d.id].ancestors \subseteq Nodes
        /\ d.id \notin N[d.id].ancestors
        /\ d.id # Root
        /\ N[d.id].parent \in Nodes
        /\ N[d.id].ancestors = {N[d.id].parent} \cup N[N[d.id].parent].ancestors
    <3>1. N[d.newParent].ancestors = T[d.newParent].ancestors
      BY <1>1, <1>3
    <3> QED
      BY <1>1, <1>3, <3>1
  <2>4. ASSUME NEW n \in Nodes
        PROVE  /\ N[n].ancestors \subseteq Nodes
               /\ n \notin N[n].ancestors
               /\ IF n = Root THEN N[n].ancestors = {}
                  ELSE /\ N[n].parent \in Nodes
                       /\ N[n].ancestors = {N[n].parent} \cup N[N[n].parent].ancestors
    <3>1. CASE n \notin {d.id} \cup below
      BY <2>1, <3>1
    <3>2. CASE n \in below
      BY <2>2, <3>2
    <3>3. CASE n = d.id
      BY <2>3, <3>3
    <3> QED
      BY <3>1, <3>2, <3>3
  <2> QED
    BY <2>4 DEF IsTreeOf
<1>5. RowsOfTree(N, P)
  <2>1. \A row \in P : row.id # d.id =>
           row = Row(Original, row.node, T[row.id].order, row.id, T[row.id].parent)
    BY DEF HalfwayRows
  <2>2. ASSUME NEW n \in Nodes, n # d.id
        PROVE  ListedAt(P, T, n) = N[n].ancestors
    <3>1. CASE n \in below
      <4>1. Swap(ListedAt(P, T, n), T[n].ancestors, d, "forward", 12, 6, 9)
        BY <3>1 DEF HalfwayRows
      <4>2. ListedAt(P, T, n) = Moved(T[n].ancestors)
        <5> HIDE DEF Moved
        <5> QED
          BY <1>2, <4>1
      <4> QED
        BY <1>3, <3>1, <4>2
    <3>2. CASE n \notin below
      BY <1>3, <2>2, <3>2 DEF HalfwayRows
    <3> QED
      BY <3>1, <3>2
  <2>3. {row \in P : row.id = d.id} = AncestorRows(Original, d.id, N[d.id])
    <3>1. {row \in P : row.id = d.id} = NodeRowsAt(Original, d, d.newAncestors, d.newOrder, d.newParent)
      BY DEF HalfwayRows, OwnRows, Done
    <3> QED
      BY <1>3, <3>1 DEF NodeRowsAt, AncestorRows
  <2>4. d.id \in Nodes /\ \A n \in Nodes : n # d.id => N[n].parent = T[n].parent /\ N[n].order = T[n].order
    BY <1>1, <1>3
  <2>5. ListsAll(N, P, T, d.id)
    BY <2>1, <2>2, <2>3, <2>4 DEF ListsAll
  <2> QED
    BY <1>1, <2>5, RowsListed
<1> QED
  BY <1>4, <1>5

\* When all is undone they are those of the tree there was.
LEMMA AtBottom ==
    ASSUME NEW T, IsTreeOf(T), NEW R, RowsOfTree(T, R), NEW d, Planned(d, T, R), NEW N, NEW P,
           \A row \in P : row.id \in Nodes /\ row.node \in Nodes,
           HalfwayNodes(N, T, d, "backward", 0), HalfwayRows(P, T, d, "backward", 0)
    PROVE  /\ IsTreeOf(N) /\ RowsOfTree(N, P)
           /\ \A n \in Nodes : /\ N[n].parent = T[n].parent /\ N[n].order = T[n].order
                               /\ N[n].ancestors = T[n].ancestors
<1> DEFINE below == DescendantIds(d)
<1>1. d.id \in Nodes /\ d.oldParent = T[d.id].parent /\ d.oldOrder = T[d.id].order
      /\ d.oldAncestors = T[d.id].ancestors
  BY DEF Planned
<1>2. \A X, old : \A i, j \in 1 .. 9 : Swap(X, old, d, "backward", 0, i, j) => X = old
  BY DEF Swap, Undone
<1>3. \A n \in Nodes : /\ N[n].parent = T[n].parent /\ N[n].order = T[n].order
                       /\ N[n].ancestors = T[n].ancestors
  <2>1. \A n \in below : Swap(N[n].ancestors, T[n].ancestors, d, "backward", 0, 5, 8)
    BY DEF HalfwayNodes
  <2>2. Swap(N[d.id].ancestors, T[d.id].ancestors, d, "backward", 0, 4, 7)
    BY DEF HalfwayNodes
  <2>3. N[d.id].parent = d.oldParent /\ N[d.id].order = d.oldOrder
    BY DEF HalfwayNodes, Undone
  <2>4. /\ \A n \in Nodes : n # d.id => N[n].parent = T[n].parent /\ N[n].order = T[n].order
        /\ \A n \in Nodes : n \notin {d.id} \cup below => N[n].ancestors = T[n].ancestors
    BY DEF HalfwayNodes
  <2>5. (\A n \in below : N[n].ancestors = T[n].ancestors) /\ N[d.id].ancestors = T[d.id].ancestors
    BY <1>2, <2>1, <2>2
  <2> QED
    BY <1>1, <2>3, <2>4, <2>5
<1>4. IsTreeOf(N)
  BY <1>3 DEF IsTreeOf
<1>5. RowsOfTree(N, P)
  <2>1. \A row \in P : row.id # d.id =>
           row = Row(Original, row.node, T[row.id].order, row.id, T[row.id].parent)
    BY DEF HalfwayRows
  <2>2. ASSUME NEW n \in Nodes, n # d.id
        PROVE  ListedAt(P, T, n) = N[n].ancestors
    <3>1. CASE n \in below
      <4>1. Swap(ListedAt(P, T, n), T[n].ancestors, d, "backward", 0, 6, 9)
        BY <3>1 DEF HalfwayRows
      <4> QED
        BY <1>2, <1>3, <4>1
    <3>2. CASE n \notin below
      BY <1>3, <2>2, <3>2 DEF HalfwayRows
    <3> QED
      BY <3>1, <3>2
  <2>3. {row \in P : row.id = d.id} = AncestorRows(Original, d.id, N[d.id])
    <3>1. {row \in P : row.id = d.id} = NodeRowsAt(Original, d, d.oldAncestors, d.oldOrder, d.oldParent)
      BY DEF HalfwayRows, OwnRows, Undone
    <3> QED
      BY <1>1, <1>3, <3>1 DEF NodeRowsAt, AncestorRows
  <2>5. ListsAll(N, P, T, d.id)
    BY <1>1, <1>3, <2>1, <2>2, <2>3 DEF ListsAll
  <2> QED
    BY <1>1, <2>5, RowsListed
<1> QED
  BY <1>3, <1>4, <1>5

\* To die at a step is to turn round at it; to fail at the finish is to turn
\* round at the last step.
LEMMA TurnRound ==
    ASSUME NEW T, NEW d, NEW N, NEW P, NEW k \in 0 .. 12
    PROVE  /\ HalfwayNodes(N, T, d, "dead", k) => HalfwayNodes(N, T, d, "backward", k)
           /\ HalfwayRows(P, T, d, "dead", k) => HalfwayRows(P, T, d, "backward", k)
           /\ HalfwayNodes(N, T, d, "forward", 12) => HalfwayNodes(N, T, d, "backward", 11)
           /\ HalfwayRows(P, T, d, "forward", 12) => HalfwayRows(P, T, d, "backward", 11)
<1>1. \A X, old, i, j : Swap(X, old, d, "dead", k, i, j) => Swap(X, old, d, "backward", k, i, j)
  BY DEF Swap, Undone
<1>2. \A X, old : \A i, j \in 1 .. 9 : Swap(X, old, d, "forward", 12, i, j) => Swap(X, old, d, "backward", 11, i, j)
  BY DEF Swap, Undone, Done
<1>3. \A X : OwnRows(X, d, "dead", k) => OwnRows(X, d, "backward", k)
  BY DEF OwnRows, Undone
<1>4. \A X : OwnRows(X, d, "forward", 12) => OwnRows(X, d, "backward", 11)
  BY DEF OwnRows, Undone, Done
<1>5. HalfwayNodes(N, T, d, "dead", k) => HalfwayNodes(N, T, d, "backward", k)
  BY <1>1 DEF HalfwayNodes, Undone
<1>6. HalfwayRows(P, T, d, "dead", k) => HalfwayRows(P, T, d, "backward", k)
  BY <1>1, <1>3 DEF HalfwayRows
<1>7. HalfwayNodes(N, T, d, "forward", 12) => HalfwayNodes(N, T, d, "backward", 11)
  BY <1>2 DEF HalfwayNodes, Undone, Done
<1>8. HalfwayRows(P, T, d, "forward", 12) => HalfwayRows(P, T, d, "backward", 11)
  BY <1>2, <1>4 DEF HalfwayRows
<1> QED
  BY <1>5, <1>6, <1>7, <1>8

\* The invariant behind the original's tree.
OriginalInv ==
    /\ TypeInv /\ Shape
    /\ before = [b \in Branches |-> before[b]]
    /\ OriginalOK

\* A step that changes nothing of the original keeps it.
LEMMA OriginalKept ==
    ASSUME OriginalOK,
           nodes'[Original] = nodes[Original], OriginalRows' = OriginalRows,
           mode'[Original] = mode[Original], step'[Original] = step[Original],
           data'[Original] = data[Original], before'[Original] = before[Original]
    PROVE  OriginalOK'
BY DEF OriginalOK

\* The rows of the original in the table are rows of nodes.
LEMMA OriginalRowsOK ==
    ASSUME TablesOK
    PROVE  \A row \in OriginalRows : row.id \in Nodes /\ row.node \in Nodes
BY DEF TablesOK, OriginalRows, RowsOf, RowOK

\* The tree to start from is one.
LEMMA OriginalInit == Init => OriginalInv
<1> SUFFICES ASSUME Init PROVE OriginalInv
  OBVIOUS
<1>1. TypeInv /\ Shape /\ Original \in Branches
  BY TypeInit, InitShape DEF Branches
<1>2. before = [b \in Branches |-> before[b]]
  BY DEF Init
<1>3. PICK tree \in Trees, order \in [Nodes -> Indexes] :
         nodes = [b \in Branches |-> [n \in Nodes |->
                    IF b = Original
                      THEN [parent |-> tree[n].parent, ancestors |-> tree[n].ancestors,
                            order |-> order[n]]
                      ELSE Nobody]]
  BY DEF Init
<1>4. IsTree(tree)
  BY ReorderAssumption
<1>5. IsTreeOf(nodes[Original])
  <2>1. \A n \in Nodes : /\ nodes[Original][n].parent = tree[n].parent
                         /\ nodes[Original][n].ancestors = tree[n].ancestors
    BY <1>1, <1>3
  <2>2. \A n \in Nodes : tree[n].ancestors \subseteq Nodes
    BY <1>4 DEF IsTree
  <2> QED
    BY <1>4, <2>1, <2>2, TreeAssumption DEF IsTreeOf, IsTree
<1>6. RowsOfTree(nodes[Original], OriginalRows)
  <2>1. rows = UNION {AncestorRows(Original, n, nodes[Original][n]) : n \in Nodes}
    BY DEF Init
  <2>2. \A row \in rows : row.branch = Original
    BY <2>1 DEF AncestorRows, Row
  <2> QED
    BY <2>1, <2>2 DEF RowsOfTree, OriginalRows, RowsOf
<1>7. mode[Original] = "idle"
  BY <1>1 DEF Init
<1> QED
  BY <1>1, <1>2, <1>5, <1>6, <1>7 DEF OriginalInv, OriginalOK

\* What the original has is what it was.
OriginalSame ==
    /\ mode'[Original] = mode[Original] /\ step'[Original] = step[Original]
    /\ data'[Original] = data[Original] /\ before'[Original] = before[Original]
    /\ nodes'[Original] = nodes[Original] /\ RowsOf(Original, rows') = RowsOf(Original, rows)

\* A step of a contribution's reorder changes nothing of the original.
LEMMA OthersKeepOriginal ==
    ASSUME OriginalInv, NEW b \in Branches, b # Original,
           \/ FindNode(b) \/ Refuse(b) \/ Validate(b) \/ CreateBranchNodes(b)
           \/ Execute(b) \/ Finished(b)
           \/ Undo(b) \/ RolledBack(b) \/ Recover(b)
           \/ FailCreateBranchNodes(b) \/ FailExecute(b) \/ FailUndo(b) \/ FailFinish(b)
    PROVE  OriginalSame /\ OriginalOK'
<1>1. Original \in Branches
  BY DEF Branches
<1>2. /\ mode'[Original] = mode[Original] /\ step'[Original] = step[Original]
      /\ data'[Original] = data[Original] /\ before'[Original] = before[Original]
  <2>1. \A m, k : GoTo(b, m, k) => mode'[Original] = mode[Original] /\ step'[Original] = step[Original]
    BY <1>1 DEF GoTo, OriginalInv, TypeInv, TypeOK
  <2>2. \A x : data' = [data EXCEPT ![b] = x] => data'[Original] = data[Original]
    BY <1>1 DEF OriginalInv, TypeInv
  <2>3. \A x : before' = [before EXCEPT ![b] = x] => before'[Original] = before[Original]
    BY <1>1 DEF OriginalInv
  <2>4. \E m, k : GoTo(b, m, k)
    BY DEF FindNode, Refuse, Validate, CreateBranchNodes, Execute, Finished, Undo, RolledBack, Return,
           Recover, FailCreateBranchNodes, FailExecute, FailUndo, FailFinish
  <2>5. data' = data \/ \E x : data' = [data EXCEPT ![b] = x]
    BY DEF FindNode, Refuse, Validate, CreateBranchNodes, Execute, Finished, Undo, RolledBack, Return,
           Recover, FailCreateBranchNodes, FailExecute, FailUndo, FailFinish
  <2>6. before' = before \/ \E x : before' = [before EXCEPT ![b] = x]
    BY DEF FindNode, Refuse, Validate, CreateBranchNodes, Execute, Finished, Undo, RolledBack, Return,
           Recover, FailCreateBranchNodes, FailExecute, FailUndo, FailFinish
  <2> QED
    BY <2>1, <2>2, <2>3, <2>4, <2>5, <2>6
<1>3. nodes'[Original] = nodes[Original] /\ RowsOf(Original, rows') = RowsOf(Original, rows)
  <2>1. \/ UNCHANGED <<nodes, rows>>
        \/ \E S : Copy(b, S) \/ CopyWithoutRows(b, S)
        \/ \E S : Within(S, b) /\ Apply(S)
    <3>1. CASE FindNode(b) \/ CreateBranchNodes(b) \/ FailCreateBranchNodes(b)
      BY <3>1 DEF FindNode, CreateBranchNodes, FailCreateBranchNodes
    <3>2. CASE Refuse(b) \/ Validate(b) \/ Finished(b) \/ RolledBack(b) \/ Recover(b) \/ FailFinish(b)
      BY <3>2 DEF Refuse, Validate, Finished, RolledBack, Return, Recover, FailFinish, tables
    <3>3. CASE Execute(b) \/ FailExecute(b)
      <4>1. PICK S \in SUBSET Statements(b, data[b], step[b]) : Apply(S)
        BY <3>3 DEF Execute, FailExecute
      <4> QED
        BY <4>1, StatementsWithin DEF Within
    <3>4. CASE Undo(b) \/ FailUndo(b)
      <4>1. PICK S \in SUBSET UndoStatements(b, data[b], step[b]) : Apply(S)
        BY <3>4 DEF Undo, FailUndo
      <4> QED
        BY <4>1, StatementsWithin DEF Within
    <3> QED
      BY <3>1, <3>2, <3>3, <3>4
  <2> QED
    BY <1>1, <2>1, CopyElsewhere, ApplyElsewhere DEF OriginalInv
<1> QED
  BY <1>2, <1>3, OriginalKept DEF OriginalInv, OriginalRows, OriginalSame

\* What is read and validated for the original's own reorder is its tree.
LEMMA OriginalPlans ==
    ASSUME OriginalInv, mode[Original] = "read", NotMovedWithinSelf(FromParams(Original))
    PROVE  Planned(FromParams(Original), nodes[Original], OriginalRows)
<1> DEFINE o == Original
           d == data[o]
           f == FromParams(o)
<1>1. \A n : BranchedOrOriginal(o, n) = nodes[o][n]
  BY DEF BranchedOrOriginal
<1>2. d.node = nodes[o][d.id] /\ Asked(d)
  BY DEF OriginalInv, OriginalOK, TypeInv, BranchOK, Branches
<1>3. /\ f.id = d.id /\ f.newParent = d.newParent
      /\ f.oldParent = d.node.parent /\ f.oldOrder = d.node.order
      /\ f.oldAncestors = d.node.ancestors
      /\ f.newAncestors = {d.newParent} \cup BranchedOrOriginal(o, d.newParent).ancestors
      /\ f.removed = f.oldAncestors \ f.newAncestors /\ f.added = f.newAncestors \ f.oldAncestors
      /\ f.descendants = DescendantRows(o, d.id)
  BY DEF FromParams
<1>4. DescendantRows(o, d.id) = {row \in OriginalRows : row.node = d.id}
  BY DEF DescendantRows, OriginalRows, RowsOf
<1> HIDE DEF f
<1>5. NotMovedWithinSelf(f)
  BY DEF f
<1> QED
  BY <1>1, <1>2, <1>3, <1>4, <1>5, SMTT(30) DEF Planned, Asked, f

\* Every step keeps the original's part of the invariant.
LEMMA OriginalStep == ASSUME OriginalInv, [Next]_vars PROVE OriginalInv'
<1> DEFINE o == Original
           T == before[o].nodes
           R == before[o].rows
           d == data[o]
<1>1. TypeInv' /\ Shape' /\ TypeInv /\ TablesOK /\ BranchOK(o) /\ o \in Branches
  BY TypeStep, NextStep DEF OriginalInv, TypeInv, Branches
<1>2. before' = [b \in Branches |-> before'[b]]
  BY DEF Next, vars, FindNode, Refuse, Validate, CreateBranchNodes, Execute, Finished, Undo, RolledBack,
         Return, Recover, FailCreateBranchNodes, FailExecute, FailUndo, FailFinish, OriginalInv
<1>3. ASSUME NEW m, NEW k, GoTo(o, m, k)
      PROVE  mode'[o] = m /\ step'[o] = k
  BY <1>1, <1>3 DEF GoTo, TypeInv, TypeOK
<1>4. mode[o] \in {"forward", "backward", "dead"} =>
         /\ T \in [Nodes -> NodeRows]
         /\ IsTreeOf(T) /\ RowsOfTree(T, R) /\ Planned(d, T, R)
         /\ HalfwayNodes(nodes[o], T, d, mode[o], step[o])
         /\ HalfwayRows(OriginalRows, T, d, mode[o], step[o])
  BY DEF OriginalInv, OriginalOK
<1>5. mode[o] \in {"idle", "read", "copy"} =>
         IsTreeOf(nodes[o]) /\ RowsOfTree(nodes[o], OriginalRows)
  BY DEF OriginalInv, OriginalOK
<1>6. ASSUME UNCHANGED vars
      PROVE  OriginalOK'
  BY <1>6, OriginalKept DEF vars, OriginalInv, OriginalRows
<1>7. ASSUME FindNode(o)
      PROVE  OriginalOK'
  <2>1. mode[o] = "idle" /\ mode'[o] = "read" /\ UNCHANGED <<nodes, rows>>
    BY <1>3, <1>7 DEF FindNode
  <2>2. PICK n, parent, upper, lower, given :
           data' = [data EXCEPT ![o] = [id |-> n, node |-> BranchedOrOriginal(o, n), newParent |-> parent,
                                        upper |-> upper, lower |-> lower, given |-> given]]
    BY <1>7 DEF FindNode
  <2>3. data'[o].id = n /\ data'[o].node = BranchedOrOriginal(o, n)
    BY <1>1, <2>2 DEF TypeInv
  <2>4. data'[o].node = nodes'[o][data'[o].id]
    BY <2>1, <2>3 DEF BranchedOrOriginal
  <2> QED
    BY <1>5, <2>1, <2>4 DEF OriginalOK, OriginalRows
<1>8. ASSUME Refuse(o)
      PROVE  OriginalOK'
  <2>1. mode[o] = "read" /\ mode'[o] = "idle" /\ UNCHANGED <<nodes, rows>>
    BY <1>3, <1>8 DEF Refuse, tables
  <2> QED
    BY <1>5, <2>1 DEF OriginalOK, OriginalRows
<1>9. ASSUME Validate(o)
      PROVE  OriginalOK'
  <2>1. /\ mode[o] = "read" /\ mode'[o] = "copy" /\ UNCHANGED <<nodes, rows>>
        /\ NotMovedWithinSelf(FromParams(o)) /\ data' = [data EXCEPT ![o] = FromParams(o)]
    BY <1>3, <1>9 DEF Validate, tables
  <2>2. data'[o] = FromParams(o)
    BY <1>1, <2>1 DEF TypeInv
  <2>3. Planned(FromParams(o), nodes[o], OriginalRows)
    BY <2>1, OriginalPlans
  <2> HIDE DEF d
  <2> QED
    BY <1>5, <2>1, <2>2, <2>3 DEF OriginalOK, OriginalRows
<1>10. ASSUME CreateBranchNodes(o)
       PROVE  OriginalOK'
  <2>1. /\ mode[o] = "copy" /\ mode'[o] = "forward" /\ step'[o] = 1
        /\ UNCHANGED <<nodes, rows, data>> /\ before' = [before EXCEPT ![o] = Tables(o)']
    BY <1>3, <1>10, StepNumbers DEF CreateBranchNodes
  <2>2. before'[o].nodes = nodes[o] /\ before'[o].rows = OriginalRows
    BY <1>1, <2>1 DEF OriginalInv, Tables, OriginalRows, RowsOf
  <2>3. Planned(d, nodes[o], OriginalRows)
    BY <2>1 DEF OriginalInv, OriginalOK
  <2>4. HalfwayNodes(nodes[o], nodes[o], d, "forward", 1) /\ HalfwayRows(OriginalRows, nodes[o], d, "forward", 1)
    BY <1>5, <2>1, <2>3, AtStart
  <2>5. nodes[o] \in [Nodes -> NodeRows]
    BY <1>1 DEF TablesOK, Good
  <2> QED
    BY <1>5, <2>1, <2>2, <2>3, <2>4, <2>5 DEF OriginalOK, OriginalRows
<1>11. ASSUME Execute(o)
       PROVE  OriginalOK'
  <2> DEFINE k == step[o]
             S == Statements(o, d, k)
  <2>1. /\ mode[o] = "forward" /\ k \in 1 .. 11 /\ Apply(S)
        /\ mode'[o] = "forward" /\ step'[o] = k + 1 /\ UNCHANGED <<data, before>>
    BY <1>3, <1>11, StepNumbers DEF Execute
  <2>2. HalfwayNodes(nodes'[o], T, d, "forward", k + 1)
    BY <1>1, <1>4, <2>1, NodesForward
  <2>3. /\ RowsForward(OriginalRows, RowsOf(o, rows'), T, d, k)
        /\ RowsForwardInFull(OriginalRows, RowsOf(o, rows'), T, d, k)
    BY <1>1, <1>4, <2>1, RowsGoForward
  <2> HIDE DEF k, S
  <2>4. HalfwayRows(RowsOf(o, rows'), T, d, "forward", k + 1)
    <3>1. HalfwayRows(OriginalRows, T, d, "forward", k)
      BY <1>4, <2>1 DEF k
    <3> QED
      BY <1>4, <2>1, <2>3, <3>1, HalfwayForward
  <2> QED
    BY <1>4, <2>1, <2>2, <2>4 DEF OriginalOK, OriginalRows
<1>12. ASSUME FailExecute(o)
       PROVE  OriginalOK'
  <2> DEFINE k == step[o]
  <2>1. /\ mode[o] = "forward" /\ k \in 1 .. 11
        /\ mode'[o] \in {"backward", "dead"} /\ step'[o] = k /\ UNCHANGED <<data, before>>
    BY <1>3, <1>12, StepNumbers DEF FailExecute
  <2>2. PICK S \in SUBSET Statements(o, d, k) : Apply(S)
    BY <1>12 DEF FailExecute
  <2>3. \A m \in {"backward", "dead"} : HalfwayNodes(nodes'[o], T, d, m, k)
    BY <1>1, <1>4, <2>1, <2>2, NodesForward
  <2>4. RowsForward(OriginalRows, RowsOf(o, rows'), T, d, k)
    BY <1>1, <1>4, <2>1, <2>2, RowsGoForward
  <2> HIDE DEF k
  <2>5. HalfwayRows(RowsOf(o, rows'), T, d, "backward", k) /\ HalfwayRows(RowsOf(o, rows'), T, d, "dead", k)
    <3>1. HalfwayRows(OriginalRows, T, d, "forward", k)
      BY <1>4, <2>1 DEF k
    <3> QED
      BY <1>4, <2>1, <2>4, <3>1, HalfwayForward
  <2> QED
    BY <1>4, <2>1, <2>3, <2>5 DEF OriginalOK, OriginalRows
<1>13. ASSUME Undo(o)
       PROVE  OriginalOK'
  <2> DEFINE k == step[o]
             S == UndoStatements(o, d, k)
  <2>1. /\ mode[o] = "backward" /\ k \in 1 .. 11 /\ Apply(S)
        /\ mode'[o] = "backward" /\ step'[o] = k - 1 /\ UNCHANGED <<data, before>>
    BY <1>3, <1>13, StepNumbers DEF Undo
  <2>2. HalfwayNodes(nodes'[o], T, d, "backward", k - 1)
    BY <1>1, <1>4, <2>1, NodesBackward
  <2>3. /\ RowsBackward(OriginalRows, RowsOf(o, rows'), T, d, k)
        /\ RowsBackwardInFull(OriginalRows, RowsOf(o, rows'), T, d, k)
    BY <1>1, <1>4, <2>1, RowsGoBackward
  <2> HIDE DEF k, S
  <2>4. HalfwayRows(RowsOf(o, rows'), T, d, "backward", k - 1)
    <3>1. HalfwayRows(OriginalRows, T, d, "backward", k)
      BY <1>4, <2>1 DEF k
    <3> QED
      BY <1>4, <2>1, <2>3, <3>1, HalfwayBackward
  <2> QED
    BY <1>4, <2>1, <2>2, <2>4 DEF OriginalOK, OriginalRows
<1>14. ASSUME FailUndo(o)
       PROVE  OriginalOK'
  <2> DEFINE k == step[o]
  <2>1. /\ mode[o] = "backward" /\ k \in 1 .. 11
        /\ mode'[o] = "dead" /\ step'[o] = k /\ UNCHANGED <<data, before>>
    BY <1>3, <1>14, StepNumbers DEF FailUndo
  <2>2. PICK S \in SUBSET UndoStatements(o, d, k) : Apply(S)
    BY <1>14 DEF FailUndo
  <2>3. HalfwayNodes(nodes'[o], T, d, "dead", k)
    BY <1>1, <1>4, <2>1, <2>2, NodesBackward
  <2>4. RowsBackward(OriginalRows, RowsOf(o, rows'), T, d, k)
    BY <1>1, <1>4, <2>1, <2>2, RowsGoBackward
  <2> HIDE DEF k
  <2>5. HalfwayRows(RowsOf(o, rows'), T, d, "dead", k)
    <3>1. HalfwayRows(OriginalRows, T, d, "backward", k)
      BY <1>4, <2>1 DEF k
    <3> QED
      BY <1>4, <2>1, <2>4, <3>1, HalfwayBackward
  <2> QED
    BY <1>4, <2>1, <2>3, <2>5 DEF OriginalOK, OriginalRows
<1>15. ASSUME Finished(o)
       PROVE  OriginalOK'
  <2>1. mode[o] = "forward" /\ step[o] = 12 /\ mode'[o] = "idle" /\ UNCHANGED <<nodes, rows>>
    BY <1>3, <1>15, StepNumbers DEF Finished, Return, tables
  <2>2. IsTreeOf(nodes[o]) /\ RowsOfTree(nodes[o], OriginalRows)
    BY <1>1, <1>4, <2>1, OriginalRowsOK, AtFinish
  <2> QED
    BY <2>1, <2>2 DEF OriginalOK, OriginalRows
<1>16. ASSUME RolledBack(o)
       PROVE  OriginalOK'
  <2>1. mode[o] = "backward" /\ step[o] = 0 /\ mode'[o] = "idle" /\ UNCHANGED <<nodes, rows>>
    BY <1>3, <1>16 DEF RolledBack, Return, tables
  <2>2. IsTreeOf(nodes[o]) /\ RowsOfTree(nodes[o], OriginalRows)
    BY <1>1, <1>4, <2>1, OriginalRowsOK, AtBottom
  <2> QED
    BY <2>1, <2>2 DEF OriginalOK, OriginalRows
<1>17. ASSUME Recover(o)
       PROVE  OriginalOK'
  <2>1. /\ mode[o] = "dead" /\ mode'[o] = "backward" /\ step'[o] = step[o]
        /\ UNCHANGED <<nodes, rows, data, before>>
    BY <1>3, <1>17 DEF Recover, tables
  <2>2. step[o] \in 0 .. 12
    BY <1>1, <2>1, StepNumbers DEF BranchOK
  <2>3. HalfwayNodes(nodes[o], T, d, "backward", step[o]) /\ HalfwayRows(OriginalRows, T, d, "backward", step[o])
    BY <1>4, <2>1, <2>2, TurnRound
  <2> QED
    BY <1>4, <2>1, <2>3 DEF OriginalOK, OriginalRows
<1>18. ASSUME FailFinish(o)
       PROVE  OriginalOK'
  <2>1. /\ mode[o] = "forward" /\ step[o] = 12 /\ mode'[o] = "backward" /\ step'[o] = 11
        /\ UNCHANGED <<nodes, rows, data, before>>
    BY <1>3, <1>18, StepNumbers DEF FailFinish, tables
  <2>2. HalfwayNodes(nodes[o], T, d, "backward", 11) /\ HalfwayRows(OriginalRows, T, d, "backward", 11)
    <3>1. 0 \in 0 .. 12
      OBVIOUS
    <3> QED
      BY <1>4, <2>1, <3>1, TurnRound
  <2> QED
    BY <1>4, <2>1, <2>2 DEF OriginalOK, OriginalRows
<1>19. ASSUME Next
       PROVE  OriginalOK'
  <2>1. PICK b \in Branches :
        \/ FindNode(b) \/ Refuse(b) \/ Validate(b) \/ CreateBranchNodes(b)
        \/ Execute(b) \/ Finished(b)
        \/ Undo(b) \/ RolledBack(b) \/ Recover(b)
        \/ FailCreateBranchNodes(b) \/ FailExecute(b) \/ FailUndo(b) \/ FailFinish(b)
    BY <1>19 DEF Next
  <2>2. CASE b # o
    BY <2>1, <2>2, OthersKeepOriginal
  <2>3. CASE b = o
    <3>1. ~FailCreateBranchNodes(o)
      BY DEF FailCreateBranchNodes
    <3> QED
      BY <1>7, <1>8, <1>9, <1>10, <1>11, <1>12, <1>13, <1>14, <1>15, <1>16, <1>17, <1>18, <2>1, <2>3, <3>1
  <2> QED
    BY <2>2, <2>3
<1> QED
  BY <1>1, <1>2, <1>6, <1>19 DEF OriginalInv

\* Whatever reorders of the original are refused, done, undone half-way or
\* taken up from the log, and whatever the contributions do meanwhile: at rest
\* every node of the original lists the nodes above it, and every node has a
\* row for each node below it, in the order and with the parent it has.
THEOREM OriginalStaysRight == Spec => []OriginalRight
<1>1. OriginalInv /\ [Next]_vars => OriginalInv'
  BY OriginalStep
<1>2. OriginalInv => OriginalRight
  <2> SUFFICES ASSUME OriginalInv, mode[Original] = "idle"
               PROVE  AncestorsRight(Original) /\ RowsRight(Original)
    BY DEF OriginalRight
  <2>1. IsTreeOf(nodes[Original]) /\ RowsOfTree(nodes[Original], OriginalRows)
    BY DEF OriginalInv, OriginalOK
  <2>2. \A n \in Nodes : Exists(Original, n)
    BY GoodExists DEF OriginalInv, TypeInv, TablesOK, Exists
  <2>3. AncestorsRight(Original)
    <3>1. \A n : BranchedOrOriginal(Original, n) = nodes[Original][n]
      BY DEF BranchedOrOriginal
    <3> QED
      BY <2>1, <3>1 DEF AncestorsRight, IsTreeOf
  <2>4. {m \in Nodes : Exists(Original, m)} = Nodes
    BY <2>2
  <2> QED
    BY <2>1, <2>3, <2>4 DEF RowsRight, RowsOfTree, OriginalRows, RowsOf
<1> QED
  BY <1>1, <1>2, OriginalInit, PTL DEF Spec

\* RollbackRestores, of the original.
OriginalRestored ==
    [][mode[Original] = "backward" /\ mode'[Original] = "idle" =>
          /\ Tables(Original)'.nodes = before[Original].nodes
          /\ Tables(Original)'.rows = before[Original].rows]_vars

\* A reorder of the original that is undone, at whatever step it failed, by the
\* request itself or by the recovery task and however often that died on its
\* way, leaves both tables exactly as they were when its steps began.
THEOREM OriginalComesBack == Spec => OriginalRestored
<1> DEFINE o == Original
<1>1. OriginalInv /\ [Next]_vars => OriginalInv'
  BY OriginalStep
<1>2. ASSUME OriginalInv, [Next]_vars, mode[o] = "backward", mode'[o] = "idle"
      PROVE  Tables(o)'.nodes = before[o].nodes /\ Tables(o)'.rows = before[o].rows
  <2> DEFINE T == before[o].nodes
             R == before[o].rows
             d == data[o]
  <2>1. o \in Branches /\ TablesOK /\ nodes[o] \in [Nodes -> NodeRows]
    BY <1>2 DEF Branches, OriginalInv, TypeInv, TablesOK, Good
  <2>2. mode[o] # mode'[o]
    BY <1>2
  <2>3. ASSUME NEW b \in Branches, NEW m, NEW k, GoTo(b, m, k)
        PROVE  b = o /\ m = "idle"
    BY <1>2, <2>1, <2>3 DEF GoTo, OriginalInv, TypeInv, TypeOK
  <2>4. RolledBack(o)
    <3>1. PICK b \in Branches :
        \/ FindNode(b) \/ Refuse(b) \/ Validate(b) \/ CreateBranchNodes(b)
        \/ Execute(b) \/ Finished(b)
        \/ Undo(b) \/ RolledBack(b) \/ Recover(b)
        \/ FailCreateBranchNodes(b) \/ FailExecute(b) \/ FailUndo(b) \/ FailFinish(b)
      BY <1>2, <2>2 DEF Next, vars
    <3>2. ~FindNode(b) /\ ~Validate(b) /\ ~CreateBranchNodes(b) /\ ~Execute(b) /\ ~Undo(b)
          /\ ~Recover(b) /\ ~FailExecute(b) /\ ~FailUndo(b) /\ ~FailFinish(b)
      BY <2>3 DEF FindNode, Validate, CreateBranchNodes, Execute, Undo, Recover,
                  FailExecute, FailUndo, FailFinish
    <3>3. Refuse(b) \/ Finished(b) \/ FailCreateBranchNodes(b) => b = o /\ mode[b] # "backward"
      BY <2>3 DEF Refuse, Finished, Return, FailCreateBranchNodes
    <3>4. RolledBack(b) => b = o
      BY <2>3 DEF RolledBack, Return
    <3> QED
      BY <1>2, <3>1, <3>2, <3>3, <3>4
  <2>5. step[o] = 0 /\ UNCHANGED <<nodes, rows>>
    BY <2>4 DEF RolledBack, Return, tables
  <2>6. /\ T \in [Nodes -> NodeRows]
        /\ IsTreeOf(T) /\ RowsOfTree(T, R) /\ Planned(d, T, R)
        /\ HalfwayNodes(nodes[o], T, d, "backward", 0)
        /\ HalfwayRows(OriginalRows, T, d, "backward", 0)
    BY <1>2, <2>5 DEF OriginalInv, OriginalOK
  <2>7. /\ RowsOfTree(nodes[o], OriginalRows)
        /\ \A n \in Nodes :
             /\ nodes[o][n].parent = T[n].parent /\ nodes[o][n].order = T[n].order
             /\ nodes[o][n].ancestors = T[n].ancestors
    BY <2>1, <2>6, OriginalRowsOK, AtBottom
  <2>8. nodes[o] = T
    <3>1. \A n \in Nodes : nodes[o][n] \in NodeRows /\ T[n] \in NodeRows
      BY <2>1, <2>6
    <3>2. \A n \in Nodes : nodes[o][n] = T[n]
      BY <2>7, <3>1 DEF NodeRows
    <3> QED
      BY <2>1, <2>6, <3>2
  <2>9. OriginalRows = R
    BY <2>6, <2>7, <2>8 DEF RowsOfTree
  <2> QED
    BY <2>5, <2>8, <2>9 DEF Tables, OriginalRows, RowsOf
<1> QED
  BY <1>1, <1>2, OriginalInit, PTL DEF Spec, OriginalRestored

-----------------------------------------------------------------------------
(* Where the node comes to be.                                             *)

\* The place d asks for, below its new parent, is not outside the siblings,
\* unless its index came with the request.
Between(d, N) ==
    /\ d.upper # Nobody =>
         /\ d.upper \in Nodes /\ N[d.upper].parent = d.newParent
         /\ d.given = Nobody => N[d.upper].order <= d.newOrder
    /\ d.lower # Nobody =>
         /\ d.lower \in Nodes /\ N[d.lower].parent = d.newParent
         /\ d.given = Nobody => d.newOrder <= N[d.lower].order

SitedOK ==
    /\ mode[Original] = "copy" => Between(data[Original], nodes[Original])
    /\ mode[Original] = "forward" => Between(data[Original], before[Original].nodes)

\* The middle of two numbers, or the next one, is on the right side of them.
LEMMA IndexBetween ==
    ASSUME NEW upper, NEW lower,
           upper # Nobody => upper.order \in Int, lower # Nobody => lower.order \in Int,
           upper # Nobody /\ lower # Nobody => upper.order <= lower.order
    PROVE  /\ upper # Nobody => upper.order <= BuildNewIndex(upper, lower)
           /\ lower # Nobody => BuildNewIndex(upper, lower) <= lower.order
<1>1. CASE upper = Nobody
  BY <1>1 DEF BuildNewIndex
<1>2. CASE upper # Nobody /\ lower = Nobody
  BY <1>2 DEF BuildNewIndex
<1>3. CASE upper # Nobody /\ lower # Nobody
  <2>1. BuildNewIndex(upper, lower) = (upper.order + lower.order) \div 2
    BY <1>3 DEF BuildNewIndex
  <2> QED
    BY <1>3, <2>1
<1> QED
  BY <1>1, <1>2, <1>3

\* A reorder that is let through asks for such a place.
LEMMA ValidatedSited ==
    ASSUME OriginalInv, mode[Original] = "read", NoConflicts(Original, FromParams(Original))
    PROVE  Between(FromParams(Original), nodes[Original])
<1> DEFINE o == Original
           d == data[o]
           f == FromParams(o)
           Sibling(n) == IF n = Nobody THEN Nobody ELSE nodes[o][n]
<1>1. \A n : BranchedOrOriginal(o, n) = nodes[o][n]
  BY DEF BranchedOrOriginal
<1>2. Asked(d)
  BY DEF OriginalInv, OriginalOK, TypeInv, BranchOK, Branches
<1>3. \A n \in Nodes : nodes[o][n] \in NodeRows /\ nodes[o][n] # Nobody
  BY ReorderAssumption DEF OriginalInv, TypeInv, TablesOK, Good, Branches
<1>4. /\ f.upper = d.upper /\ f.lower = d.lower /\ f.newParent = d.newParent /\ f.given = d.given
      /\ d.given = Nobody => f.newOrder = BuildNewIndex(Sibling(d.upper), Sibling(d.lower))
  BY <1>1 DEF FromParams
<1> HIDE DEF f
<1>5. NoConflicts(o, f)
  BY DEF f
<1>6. {d.upper, d.lower} \subseteq Nodes \cup {Nobody}
  BY <1>2 DEF Asked
<1>7. /\ \A s \in {d.upper, d.lower} \ {Nobody} : nodes[o][s].parent = d.newParent
      /\ d.upper # Nobody /\ d.lower # Nobody => nodes[o][d.upper].order <= nodes[o][d.lower].order
  BY <1>1, <1>4, <1>5 DEF NoConflicts, ParentsAgree
<1>8. \A n \in Nodes \cup {Nobody} :
         /\ Sibling(n) # Nobody <=> n # Nobody
         /\ n # Nobody => n \in Nodes /\ Sibling(n) = nodes[o][n] /\ Sibling(n).order \in Int
  BY <1>3 DEF NodeRows
<1> HIDE DEF Sibling
<1>9. ASSUME d.given = Nobody
      PROVE  /\ d.upper # Nobody => Sibling(d.upper).order <= f.newOrder
             /\ d.lower # Nobody => f.newOrder <= Sibling(d.lower).order
  BY <1>4, <1>6, <1>7, <1>8, <1>9, IndexBetween
<1> QED
  BY <1>4, <1>6, <1>7, <1>8, <1>9 DEF Between, f

LEMMA SitedStep == ASSUME OriginalInv, SitedOK, [Next]_vars PROVE SitedOK'
<1> DEFINE o == Original
<1>1. o \in Branches /\ TypeInv
  BY DEF OriginalInv, Branches
<1>2. ASSUME NEW m, NEW k, GoTo(o, m, k)
      PROVE  mode'[o] = m
  BY <1>1, <1>2 DEF GoTo, TypeInv, TypeOK
<1>3. CASE UNCHANGED vars
  BY <1>3 DEF vars, SitedOK
<1>4. ASSUME NEW b \in Branches, b # o,
             \/ FindNode(b) \/ Refuse(b) \/ Validate(b) \/ CreateBranchNodes(b)
             \/ Execute(b) \/ Finished(b)
             \/ Undo(b) \/ RolledBack(b) \/ Recover(b)
             \/ FailCreateBranchNodes(b) \/ FailExecute(b) \/ FailUndo(b) \/ FailFinish(b)
      PROVE  SitedOK'
  <2>1. OriginalSame
    BY <1>4, OthersKeepOriginal
  <2> QED
    BY <2>1 DEF OriginalSame, SitedOK
<1>5. ASSUME Validate(o)
      PROVE  SitedOK'
  <2>1. /\ mode[o] = "read" /\ mode'[o] = "copy" /\ nodes' = nodes
        /\ NoConflicts(o, FromParams(o)) /\ data' = [data EXCEPT ![o] = FromParams(o)]
    BY <1>2, <1>5 DEF Validate, tables
  <2>2. data'[o] = FromParams(o)
    BY <1>1, <2>1 DEF TypeInv
  <2>3. Between(FromParams(o), nodes[o])
    BY <2>1, ValidatedSited
  <2> QED
    BY <2>1, <2>2, <2>3 DEF SitedOK
<1>6. ASSUME CreateBranchNodes(o)
      PROVE  SitedOK'
  <2>1. /\ mode[o] = "copy" /\ mode'[o] = "forward" /\ nodes' = nodes /\ data' = data
        /\ before' = [before EXCEPT ![o] = Tables(o)']
    BY <1>2, <1>6 DEF CreateBranchNodes
  <2>2. before'[o].nodes = nodes[o]
    BY <1>1, <2>1 DEF OriginalInv, Tables
  <2> QED
    BY <2>1, <2>2 DEF SitedOK
<1>7. ASSUME Execute(o)
      PROVE  SitedOK'
  <2>1. mode[o] = "forward" /\ mode'[o] = "forward" /\ UNCHANGED <<data, before>>
    BY <1>2, <1>7 DEF Execute
  <2> QED
    BY <2>1 DEF SitedOK
<1>8. ASSUME \/ FindNode(o) \/ Refuse(o) \/ Finished(o)
             \/ Undo(o) \/ RolledBack(o) \/ Recover(o)
             \/ FailExecute(o) \/ FailUndo(o) \/ FailFinish(o)
      PROVE  SitedOK'
  <2>1. \E m \in {"read", "idle", "backward", "dead"} : \E k : GoTo(o, m, k)
    BY <1>8 DEF FindNode, Refuse, Finished, Undo, RolledBack, Return, Recover, FailExecute,
                FailUndo, FailFinish
  <2> QED
    BY <1>2, <2>1 DEF SitedOK
<1>9. CASE Next
  <2>1. PICK b \in Branches :
        \/ FindNode(b) \/ Refuse(b) \/ Validate(b) \/ CreateBranchNodes(b)
        \/ Execute(b) \/ Finished(b)
        \/ Undo(b) \/ RolledBack(b) \/ Recover(b)
        \/ FailCreateBranchNodes(b) \/ FailExecute(b) \/ FailUndo(b) \/ FailFinish(b)
    BY <1>9 DEF Next
  <2>2. ~FailCreateBranchNodes(o)
    BY DEF FailCreateBranchNodes
  <2> QED
    BY <1>4, <1>5, <1>6, <1>7, <1>8, <2>1, <2>2
<1> QED
  BY <1>3, <1>9

\* Placed, of the original.
OriginalPlaced ==
    [][mode[Original] = "forward" /\ mode'[Original] = "idle" =>
         LET d == data[Original]
             N == nodes[Original] IN
         /\ N[d.id].parent = d.newParent
         /\ d.upper # Nobody =>
              /\ N[d.upper].parent = d.newParent
              /\ d.given = Nobody => N[d.upper].order <= N[d.id].order
         /\ d.lower # Nobody =>
              /\ N[d.lower].parent = d.newParent
              /\ d.given = Nobody => N[d.id].order <= N[d.lower].order]_vars

\* A reorder of the original that is done has put the node below the parent it
\* was asked for and, unless the request brought its index along, between the
\* siblings it was shown: these have not moved since they were read and compared, whatever contributions do meanwhile
\* (ReorderData::from_params, ReorderValidator::validate_no_conflicts).
THEOREM OriginalPlacesNode == Spec => OriginalPlaced
<1> DEFINE o == Original
           d == data[o]
           N == nodes[o]
<1>1. OriginalInv /\ SitedOK /\ [Next]_vars => (OriginalInv /\ SitedOK)'
  BY OriginalStep, SitedStep
<1>2. Init => SitedOK
  BY DEF Init, SitedOK, Branches
<1>3. ASSUME OriginalInv, SitedOK, [Next]_vars, mode[o] = "forward", mode'[o] = "idle"
      PROVE  /\ N[d.id].parent = d.newParent
             /\ d.upper # Nobody =>
                  /\ N[d.upper].parent = d.newParent
                  /\ d.given = Nobody => N[d.upper].order <= N[d.id].order
             /\ d.lower # Nobody =>
                  /\ N[d.lower].parent = d.newParent
                  /\ d.given = Nobody => N[d.id].order <= N[d.lower].order
  <2>1. o \in Branches
    BY DEF Branches
  <2>2. ASSUME NEW b \in Branches, NEW m, NEW k, GoTo(b, m, k)
        PROVE  b = o /\ m = "idle"
    BY <1>3, <2>1, <2>2 DEF GoTo, OriginalInv, TypeInv, TypeOK
  <2>3. Finished(o)
    <3>1. PICK b \in Branches :
        \/ FindNode(b) \/ Refuse(b) \/ Validate(b) \/ CreateBranchNodes(b)
        \/ Execute(b) \/ Finished(b)
        \/ Undo(b) \/ RolledBack(b) \/ Recover(b)
        \/ FailCreateBranchNodes(b) \/ FailExecute(b) \/ FailUndo(b) \/ FailFinish(b)
      BY <1>3 DEF Next, vars
    <3>2. ~FindNode(b) /\ ~Validate(b) /\ ~CreateBranchNodes(b) /\ ~Execute(b) /\ ~Undo(b)
          /\ ~Recover(b) /\ ~FailExecute(b) /\ ~FailUndo(b) /\ ~FailFinish(b)
      BY <2>2 DEF FindNode, Validate, CreateBranchNodes, Execute, Undo, Recover,
                  FailExecute, FailUndo, FailFinish
    <3>3. Refuse(b) \/ RolledBack(b) \/ FailCreateBranchNodes(b) => b = o /\ mode[b] # "forward"
      BY <2>2 DEF Refuse, RolledBack, Return, FailCreateBranchNodes
    <3>4. Finished(b) => b = o
      BY <2>2 DEF Finished, Return
    <3> QED
      BY <1>3, <3>1, <3>2, <3>3, <3>4
  <2>4. step[o] = 12
    BY <2>3, StepNumbers DEF Finished
  <2>5. HalfwayNodes(N, before[o].nodes, d, "forward", 12)
    BY <1>3, <2>4 DEF OriginalInv, OriginalOK
  <2>6. Between(d, before[o].nodes)
    BY <1>3 DEF SitedOK
  <2>7. /\ N[d.id].parent = d.newParent /\ N[d.id].order = d.newOrder
        /\ \A n \in Nodes : n # d.id =>
               N[n].parent = before[o].nodes[n].parent /\ N[n].order = before[o].nodes[n].order
    BY <2>5, SMTT(30) DEF HalfwayNodes, Done
  <2>8. d.newOrder \in Int
    BY <1>3, <2>1 DEF OriginalInv, TypeInv, BranchOK, Known
  <2> QED
    BY <2>6, <2>7, <2>8 DEF Between
<1> QED
  BY <1>1, <1>2, <1>3, OriginalInit, PTL DEF Spec, OriginalPlaced
=============================================================================
