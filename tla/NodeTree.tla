------------------------------ MODULE NodeTree ------------------------------
(***************************************************************************)
(* The two tables that hold a tree, for its original and its contribution  *)
(* branches: nodes, where every node lists its ancestors (models/node.rs), *)
(* and node_descendants, where every ancestor has a row for each of its    *)
(* descendants, clustered by order index (models/node_descendant.rs).      *)
(*                                                                         *)
(* A branch starts empty.  A node is copied to it, with its ancestors,     *)
(* when it is first touched there; until then the branch shows the         *)
(* original's (models/traits/find_branched.rs).                            *)
(***************************************************************************)
EXTENDS Integers, FiniteSets

CONSTANTS
    Nodes,
    Root,           \* the root node
    Original,       \* the original branch (its id is the root's)
    Contributions,  \* the other branches
    Nobody          \* no node: an absent row, parent or sibling

ASSUME TreeAssumption ==
    /\ IsFiniteSet(Nodes)
    /\ Root \in Nodes
    /\ Original \notin Contributions
    /\ Nobody \notin Nodes

VARIABLES
    nodes,      \* table nodes: branch and id to a row or Nobody
    rows        \* table node_descendants, a set of rows

Branches == {Original} \cup Contributions

Row(b, a, order, n, parent) ==
    [branch |-> b, node |-> a, order |-> order, id |-> n, parent |-> parent]

\* The primary key of node_descendants leaves out the parent.
Key(row) == <<row.branch, row.node, row.order, row.id>>

Exists(b, n) == nodes[b][n] # Nobody

\* find_branched_or_original, and parent() of the NodeParent derive.
BranchedOrOriginal(b, n) == IF Exists(b, n) THEN nodes[b][n] ELSE nodes[Original][n]

\* descendants: the rows of one node in one branch.
DescendantRows(b, n) == {row \in rows : row.branch = b /\ row.node = n}

\* branch_descendants: the branch's rows, and the original's rows of the nodes
\* that have none in the branch.
BranchDescendants(b, n) ==
    LET branched == DescendantRows(b, n)
    IN branched \cup {row \in DescendantRows(Original, n) :
                          \A other \in branched : other.id # row.id}

\* append_to_ancestors: the rows of a node below each of its ancestors.
AncestorRows(b, n, node) == {Row(b, a, node.order, n, node.parent) : a \in node.ancestors}

-----------------------------------------------------------------------------
(* Statements.  A step of an operation is a set of statements that touch    *)
(* different rows; a failed step has carried out some of them.              *)

Insert(row) == [op |-> "insert", row |-> row]
Delete(row) == [op |-> "delete", row |-> row]
PushAncestors(b, n, ids) == [op |-> "push", branch |-> b, id |-> n, ids |-> ids]
PullAncestors(b, n, ids) == [op |-> "pull", branch |-> b, id |-> n, ids |-> ids]
Place(b, n, parent, order) ==
    [op |-> "place", branch |-> b, id |-> n, parent |-> parent, order |-> order]

\* node_descendants after the statements S: an insert replaces the row with
\* its key, a delete goes by the key alone.
RowsAfter(S) ==
    LET onRows == {s \in S : s.op \in {"insert", "delete"}}
    IN {row \in rows : \A s \in onRows : Key(s.row) # Key(row)}
       \cup {s.row : s \in {t \in onRows : t.op = "insert"}}

NodeAfter(node, S) ==
    LET places == {s \in S : s.op = "place"}
        Ids(op) == UNION {s.ids : s \in {t \in S : t.op = op}}
        placed == IF places = {} THEN node
                  ELSE LET s == CHOOSE s \in places : TRUE
                       IN [node EXCEPT !.parent = s.parent, !.order = s.order]
    IN [placed EXCEPT !.ancestors = (@ \ Ids("pull")) \cup Ids("push")]

NodesAfter(S) ==
    [b \in Branches |-> [n \in Nodes |->
        LET here == {s \in S : /\ s.op \in {"push", "pull", "place"}
                               /\ s.branch = b /\ s.id = n}
        IN IF here = {} THEN nodes[b][n] ELSE NodeAfter(nodes[b][n], here)]]

Apply(S) == nodes' = NodesAfter(S) /\ rows' = RowsAfter(S)

\* find_or_insert_branched for the nodes S: those not yet in the branch are
\* copied from the original together with the original's ancestors, each with
\* its rows.
Above(b, S) == UNION {nodes[Original][n].ancestors : n \in {m \in S : ~Exists(b, m)}}
Missing(b, S) == {n \in S \cup Above(b, S) : ~Exists(b, n)}

CopyWithoutRows(b, S) ==
    /\ nodes' = [nodes EXCEPT ![b] = [n \in Nodes |->
                    IF n \in Missing(b, S) THEN nodes[Original][n] ELSE nodes[b][n]]]
    /\ UNCHANGED rows

Copy(b, S) ==
    /\ nodes' = [nodes EXCEPT ![b] = [n \in Nodes |->
                    IF n \in Missing(b, S) THEN nodes[Original][n] ELSE nodes[b][n]]]
    /\ rows' = RowsAfter({Insert(row) : row \in
                    UNION {AncestorRows(b, n, nodes[Original][n]) : n \in Missing(b, S)}})

-----------------------------------------------------------------------------
(* What a tree should look like *)

\* The ancestors of every node of the branch are its parent and the parent's
\* ancestors, and no node is above itself.
AncestorsRight(b) ==
    \A n \in Nodes : Exists(b, n) =>
        LET node == nodes[b][n] IN
        /\ n \notin node.ancestors
        /\ node.ancestors =
             IF n = Root THEN {}
             ELSE {node.parent} \cup BranchedOrOriginal(b, node.parent).ancestors

\* The branch's rows are exactly those the nodes of the branch call for.
RowsRight(b) ==
    {row \in rows : row.branch = b} =
        UNION {AncestorRows(b, n, nodes[b][n]) : n \in {m \in Nodes : Exists(b, m)}}
=============================================================================
