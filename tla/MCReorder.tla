------------------------------ MODULE MCReorder ------------------------------
(***************************************************************************)
(* Reorder for TLC: a root and three nodes, in every shape a tree of four  *)
(* can have.  With its moves and faults used up the system rests.          *)
(***************************************************************************)
EXTENDS Reorder, TLC

CONSTANTS root, a, b, c, main, branch, none

Below == Nodes \ {Root}

\* root over everything; a chain; a fork below a; one node apart.
Star == [n \in Nodes |-> IF n = Root THEN Nobody ELSE Root]
Chain == [Star EXCEPT ![b] = a, ![c] = b]
Fork == [Star EXCEPT ![b] = a, ![c] = a]
Apart == [Star EXCEPT ![b] = a]

\* With who is above each node, from the parent upwards.
Tree(parent) ==
    LET up[i \in 0 .. Cardinality(Nodes), n \in Nodes] ==
          IF i = 0 THEN {} ELSE
          ({parent[n]} \cup (IF parent[n] = Nobody THEN {} ELSE up[i - 1, parent[n]])) \ {Nobody}
    IN [n \in Nodes |-> [parent |-> parent[n], ancestors |-> up[Cardinality(Nodes), n]]]
Shapes == {Tree(Star), Tree(Chain), Tree(Fork), Tree(Apart)}

\* Of three: b below the root or below a.
Pairs == {Tree(Star), Tree([Star EXCEPT ![b] = a])}

ZeroOne == {0, 2}

Budget(original, contribution) ==
    [x \in Branches |-> IF x = Original THEN original ELSE contribution]
OneInEither == {Budget(1, 0), Budget(0, 1)}
OneInBranch == {Budget(0, 1)}
OneEachOrTwo == {Budget(1, 1), Budget(0, 2)}
=============================================================================
