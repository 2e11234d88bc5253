----------------------------- MODULE MCNodeEdits -----------------------------
(***************************************************************************)
(* NodeEdits for TLC: root over a and b, and x below a, which exists or is *)
(* to be created.  Deadlock is not checked: requests come to their end.    *)
(***************************************************************************)
EXTENDS NodeEdits

CONSTANTS root, a, b, x, nobody, r1, r2

Tree ==
    [n \in Nodes |-> CASE n = root -> nobody [] n \in {a, b} -> root [] n = x -> a]

Ask(kind, node) == [kind |-> kind, node |-> node]

\* The deletion of any node, and any creation, renaming or other deletion.
Others == {asked \in Asked : asked.kind = "create" => asked.node = x}
DeletionAndOther == {p \in [Requests -> Asked] : p[r1].kind = "delete" /\ p[r2] \in Others}
=============================================================================
