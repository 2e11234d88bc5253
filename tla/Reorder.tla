------------------------------- MODULE Reorder -------------------------------
(***************************************************************************)
(* Node::reorder (models/node/reorder.rs, reorder/data.rs and              *)
(* reorder/validator.rs): a node, with all that is below it, moves under a *)
(* new parent, in eleven steps that rewrite both tables of NodeTree.  What *)
(* Saga says of logging, failing and undoing is here said of the rows:     *)
(* each step and each undo is the set of statements the code executes.     *)
(*                                                                         *)
(* Every branch has at most one reorder at a time, as ResourceLocker's     *)
(* Exclusion has it; reorders of different branches interleave, those of a *)
(* contribution reading the original's tables while it is reordered.       *)
(***************************************************************************)
EXTENDS NodeTree

CONSTANTS
    Trees,          \* the original trees to start from: parent and ancestors by node
    Indexes,        \* the order indexes to start with
    GivenIndexes,   \* order indexes that a request may bring along
    MoveBudgets,    \* bound: how many reorders each branch may begin, one of these
    MaxFaults,      \* bound: database errors and crashes
    CopyFaults,     \* may the copying of nodes to a branch break off?
    SilentListError \* may Branch::update fail without an error being returned?

NodeRows == [parent : Nodes \cup {Nobody}, ancestors : SUBSET Nodes, order : Int]

\* The root has no parent; who is above any other node is its parent and who
\* is above that.
IsTree(tree) ==
    /\ tree \in [Nodes -> [parent : Nodes \cup {Nobody}, ancestors : SUBSET Nodes]]
    /\ tree[Root] = [parent |-> Nobody, ancestors |-> {}]
    /\ \A n \in Nodes \ {Root} :
          /\ tree[n].parent \in Nodes
          /\ n \notin tree[n].ancestors
          /\ tree[n].ancestors = {tree[n].parent} \cup tree[tree[n].parent].ancestors

ASSUME ReorderAssumption ==
    /\ Nobody \notin NodeRows
    /\ \A tree \in Trees : IsTree(tree)
    /\ Indexes \subseteq Int /\ 0 \in Indexes
    /\ GivenIndexes \subseteq Int
    /\ MoveBudgets \subseteq [Branches -> Nat]
    /\ MaxFaults \in Nat
    /\ CopyFaults \in BOOLEAN
    /\ SilentListError \in BOOLEAN

VARIABLES
    mode,       \* what the reorder of each branch is doing
    step,       \* its reorder_step
    data,       \* its ReorderData
    reordered,  \* reordered_nodes of each branch, by node
    before,     \* history: the branch's tables when the steps began
    moves,      \* reorders that may still begin
    faults

vars == <<nodes, rows, mode, step, data, reordered, before, moves, faults>>
tables == <<nodes, rows, reordered>>

UpdateNodeOrderIndex == 1
RemoveNodeFromOldAncestors == 2
AddNodeToNewAncestors == 3
PullRemovedAncestorsFromNode == 4
PullRemovedAncestorsFromDescendants == 5
DeleteNodeDescendantsFromRemovedAncestors == 6
PushAddedAncestorsToNode == 7
PushAddedAncestorsToDescendants == 8
InsertNodeDescendantsToAddedAncestors == 9
UpdateBranch == 10
PushNewEditors == 11
Finish == 12
Steps == UpdateNodeOrderIndex..PushNewEditors

TypeOK ==
    /\ nodes \in [Branches -> [Nodes -> NodeRows \cup {Nobody}]]
    /\ \A row \in rows :
         /\ row.branch \in Branches
         /\ {row.node, row.id, row.parent} \subseteq Nodes
         /\ row.order \in Int
    /\ mode \in [Branches -> {"idle", "read", "copy", "forward", "backward", "dead"}]
    /\ step \in [Branches -> 0..Finish]
    /\ moves \in [Branches -> Nat]
    /\ faults \in 0..MaxFaults

NoData == [id |-> Nobody]

\* A consistent tree in the original, nothing in the other branches.
Init ==
    /\ \E tree \in Trees, order \in {f \in [Nodes -> Indexes] : f[Root] = 0} :
         nodes = [b \in Branches |-> [n \in Nodes |->
                    IF b = Original
                      THEN [parent |-> tree[n].parent, ancestors |-> tree[n].ancestors,
                            order |-> order[n]]
                      ELSE Nobody]]
    /\ rows = UNION {AncestorRows(Original, n, nodes[Original][n]) : n \in Nodes}
    /\ mode = [b \in Branches |-> "idle"]
    /\ step = [b \in Branches |-> 0]
    /\ data = [b \in Branches |-> NoData]
    /\ reordered = [b \in Branches |-> [n \in Nodes |-> Nobody]]
    /\ before = [b \in Branches |-> NoData]
    /\ moves \in MoveBudgets
    /\ faults = 0

-----------------------------------------------------------------------------
(* ReorderData::from_params and ReorderValidator *)

\* The order index next to the siblings.  Halving on a grid of integers stands
\* for halving doubles: between neighbours there is nothing left to choose.
BuildNewIndex(upper, lower) ==
    CASE upper = Nobody /\ lower = Nobody -> 0
      [] upper = Nobody /\ lower # Nobody -> lower.order - 1
      [] upper # Nobody /\ lower = Nobody -> upper.order + 1
      [] OTHER -> (upper.order + lower.order) \div 2

GoTo(b, m, k) ==
    /\ mode' = [mode EXCEPT ![b] = m]
    /\ step' = [step EXCEPT ![b] = k]

\* find_or_insert_branched for the node, preserve_branch_ancestors.  The root
\* is refused here: it has no parent.
FindNode(b) ==
    /\ mode[b] = "idle"
    /\ moves[b] > 0
    /\ \E n \in Nodes \ {Root}, parent \in Nodes, upper, lower \in Nodes \cup {Nobody},
          given \in GivenIndexes \cup {Nobody} :
         /\ IF b = Original
              THEN UNCHANGED <<nodes, rows>>
              ELSE Copy(b, {n} \cup BranchedOrOriginal(b, n).ancestors)
         /\ data' = [data EXCEPT ![b] =
                       [id |-> n, node |-> BranchedOrOriginal(b, n), newParent |-> parent,
                        upper |-> upper, lower |-> lower, given |-> given]]
    /\ GoTo(b, "read", 0)
    /\ moves' = [moves EXCEPT ![b] = @ - 1]
    /\ UNCHANGED <<reordered, before, faults>>

\* Descendants, new parent and siblings are read, and what follows from them.
FromParams(b) ==
    LET d == data[b]
        Sibling(n) == IF n = Nobody THEN Nobody ELSE BranchedOrOriginal(b, n)
        new == {d.newParent} \cup BranchedOrOriginal(b, d.newParent).ancestors
        old == d.node.ancestors
    IN [id |-> d.id,
        descendants |-> IF b = Original THEN DescendantRows(b, d.id)
                        ELSE BranchDescendants(b, d.id),
        oldParent |-> d.node.parent, newParent |-> d.newParent,
        oldAncestors |-> old, newAncestors |-> new,
        removed |-> old \ new, added |-> new \ old,
        upper |-> d.upper, lower |-> d.lower, given |-> d.given,
        oldOrder |-> d.node.order,
        newOrder |-> IF d.given # Nobody THEN d.given
                     ELSE BuildNewIndex(Sibling(d.upper), Sibling(d.lower))]

DescendantIds(d) == {row.id : row \in d.descendants}
ParentChanged(d) == d.oldParent # d.newParent

NotMovedToSelf(d) == d.newParent # d.id
NotMovedWithinSelf(d) == d.newParent \notin DescendantIds(d) \cup {d.id}

ParentsAgree(b, d) ==
    \A s \in {d.upper, d.lower} \ {Nobody} : BranchedOrOriginal(b, s).parent = d.newParent

NoConflicts(b, d) ==
    /\ ParentsAgree(b, d)
    /\ d.upper # Nobody /\ d.lower # Nobody =>
         BranchedOrOriginal(b, d.upper).order <= BranchedOrOriginal(b, d.lower).order

Tables(b) == [nodes |-> nodes[b], rows |-> {row \in rows : row.branch = b},
              list |-> reordered[b]]

-----------------------------------------------------------------------------
(* From the request to the steps *)

Refuse(b) ==
    /\ mode[b] = "read"
    /\ ~(NotMovedWithinSelf(FromParams(b)) /\ NoConflicts(b, FromParams(b)))
    /\ GoTo(b, "idle", 0)
    /\ data' = [data EXCEPT ![b] = NoData]
    /\ UNCHANGED <<tables, before, moves, faults>>

Validate(b) ==
    /\ mode[b] = "read"
    /\ NotMovedWithinSelf(FromParams(b))
    /\ NoConflicts(b, FromParams(b))
    /\ GoTo(b, "copy", 0)
    /\ data' = [data EXCEPT ![b] = FromParams(b)]
    /\ UNCHANGED <<tables, before, moves, faults>>

Touched(d) == d.oldAncestors \cup d.newAncestors \cup DescendantIds(d)

\* create_branch_nodes, and the log of ReorderStep::Start.
CreateBranchNodes(b) ==
    /\ mode[b] = "copy"
    /\ IF b = Original THEN UNCHANGED <<nodes, rows>> ELSE Copy(b, Touched(data[b]))
    /\ GoTo(b, "forward", UpdateNodeOrderIndex)
    /\ UNCHANGED <<reordered, data, moves, faults>>
    /\ before' = [before EXCEPT ![b] = Tables(b)']

-----------------------------------------------------------------------------
(* The steps and their undos, as sets of statements *)

NodeRowsInOriginal(b, d, ancestors, order, parent) ==
    {Row(Original, a, order, d.id, parent) : a \in ancestors}
NodeRowsAt(b, d, ancestors, order, parent) == {Row(b, a, order, d.id, parent) : a \in ancestors}

DescendantRowsAt(b, d, ancestors) ==
    {Row(b, a, row.order, row.id, row.parent) : a \in ancestors, row \in d.descendants}

Inserts(S) == {Insert(row) : row \in S}
Deletes(S) == {Delete(row) : row \in S}

\* Steps 4 to 9 do nothing unless the parent changes.
Statements(b, d, k) ==
    IF k \in 4..9 /\ ~ParentChanged(d) THEN {} ELSE
    CASE k = UpdateNodeOrderIndex -> {Place(b, d.id, d.newParent, d.newOrder)}
      [] k = RemoveNodeFromOldAncestors ->
           Deletes(NodeRowsAt(b, d, d.oldAncestors, d.oldOrder, d.oldParent))
      [] k = AddNodeToNewAncestors ->
           Inserts(NodeRowsAt(b, d, d.newAncestors, d.newOrder, d.newParent))
      [] k = PullRemovedAncestorsFromNode -> {PullAncestors(b, d.id, d.removed)}
      [] k = PullRemovedAncestorsFromDescendants ->
           {PullAncestors(b, n, d.removed) : n \in DescendantIds(d)}
      [] k = DeleteNodeDescendantsFromRemovedAncestors ->
           Deletes(DescendantRowsAt(b, d, d.removed))
      [] k = PushAddedAncestorsToNode -> {PushAncestors(b, d.id, d.added)}
      [] k = PushAddedAncestorsToDescendants ->
           {PushAncestors(b, n, d.added) : n \in DescendantIds(d)}
      [] k = InsertNodeDescendantsToAddedAncestors -> Inserts(DescendantRowsAt(b, d, d.added))
      [] OTHER -> {}

UndoStatements(b, d, k) ==
    IF k \in 4..9 /\ ~ParentChanged(d) THEN {} ELSE
    CASE k = UpdateNodeOrderIndex -> {Place(b, d.id, d.oldParent, d.oldOrder)}
      [] k = RemoveNodeFromOldAncestors ->
           Inserts(NodeRowsAt(b, d, d.oldAncestors, d.oldOrder, d.oldParent))
      [] k = AddNodeToNewAncestors ->
           Deletes(NodeRowsAt(b, d, d.newAncestors, d.newOrder, d.newParent))
      [] k = PullRemovedAncestorsFromNode -> {PushAncestors(b, d.id, d.removed)}
      [] k = PullRemovedAncestorsFromDescendants ->
           {PushAncestors(b, n, d.removed) : n \in DescendantIds(d)}
      [] k = DeleteNodeDescendantsFromRemovedAncestors ->
           Inserts(DescendantRowsAt(b, d, d.removed))
      [] k = PushAddedAncestorsToNode -> {PullAncestors(b, d.id, d.added)}
      [] k = PushAddedAncestorsToDescendants ->
           {PullAncestors(b, n, d.added) : n \in DescendantIds(d)}
      [] k = InsertNodeDescendantsToAddedAncestors -> Deletes(DescendantRowsAt(b, d, d.added))
      [] OTHER -> {}

\* BranchUpdate::ReorderNode: one entry per node, the last one.  The undo
\* enters the way back, with the siblings of the way there.
Entry(d) ==
    [newParent |-> d.newParent, upper |-> d.upper, lower |-> d.lower,
     oldParent |-> d.oldParent, oldOrder |-> d.oldOrder]
UndoEntryUnswapped(d) == Entry(d)
UndoEntry(d) == [Entry(d) EXCEPT !.newParent = d.oldParent, !.oldParent = d.newParent]

List(b, k, entry) ==
    IF b # Original /\ k = UpdateBranch
      THEN [reordered EXCEPT ![b][data[b].id] = entry]
      ELSE reordered

\* Branch::update logs an error of its write and returns the branch all the
\* same.
Listed(b, k, entry) ==
    reordered' \in {List(b, k, entry)} \cup (IF SilentListError THEN {reordered} ELSE {})

-----------------------------------------------------------------------------
(* execute_reorder and recover *)

Execute(b) ==
    /\ mode[b] = "forward"
    /\ step[b] \in Steps
    /\ Apply(Statements(b, data[b], step[b]))
    /\ Listed(b, step[b], Entry(data[b]))
    /\ GoTo(b, "forward", step[b] + 1)
    /\ UNCHANGED <<data, before, moves, faults>>

Return(b) ==
    /\ GoTo(b, "idle", 0)
    /\ data' = [data EXCEPT ![b] = NoData]
    /\ before' = [before EXCEPT ![b] = NoData]
    /\ UNCHANGED <<tables, moves, faults>>

Finished(b) == mode[b] = "forward" /\ step[b] = Finish /\ Return(b)

UndoBelowStart(b) ==
    /\ mode[b] = "backward"
    /\ step[b] # Finish
    /\ Apply(UndoStatements(b, data[b], step[b]))
    /\ Listed(b, step[b], UndoEntry(data[b]))
    /\ GoTo(b, "backward", step[b] - 1)
    /\ UNCHANGED <<data, before, moves, faults>>

Undo(b) ==
    /\ mode[b] = "backward"
    /\ step[b] \in Steps
    /\ Apply(UndoStatements(b, data[b], step[b]))
    /\ Listed(b, step[b], UndoEntry(data[b]))
    /\ GoTo(b, "backward", step[b] - 1)
    /\ UNCHANGED <<data, before, moves, faults>>

RolledBack(b) == mode[b] = "backward" /\ step[b] = 0 /\ Return(b)

\* recover_from_log, from the step in the log.
Recover(b) ==
    /\ mode[b] = "dead"
    /\ GoTo(b, "backward", step[b])
    /\ UNCHANGED <<tables, data, before, moves, faults>>

-----------------------------------------------------------------------------
(* Errors and crashes *)

Fault == faults < MaxFaults /\ faults' = faults + 1

\* create_branch_nodes breaks off: create_branched_if_not_exist has inserted the
\* node of some ancestor, and not yet its rows.  There is no log; what has been
\* copied stays.
FailCreateBranchNodes(b) ==
    /\ CopyFaults
    /\ Fault
    /\ mode[b] = "copy"
    /\ b # Original
    /\ \E S \in SUBSET Above(b, Touched(data[b])) : CopyWithoutRows(b, S)
    /\ GoTo(b, "idle", 0)
    /\ data' = [data EXCEPT ![b] = NoData]
    /\ UNCHANGED <<reordered, before, moves>>

\* A step fails, or is cut off by a crash, with some of its statements carried
\* out, none or all of them; the error turns the reorder round, the crash
\* leaves it to the log, which shows this step until the next is logged.
FailUnlogged(b) ==
    /\ Fault
    /\ mode[b] = "forward"
    /\ step[b] \in Steps
    /\ \E S \in SUBSET Statements(b, data[b], step[b]) : Apply(S)
    /\ reordered' \in {reordered, List(b, step[b], Entry(data[b]))}
    /\ \E m \in {"backward", "dead"} :
         GoTo(b, m, IF m = "dead" THEN step[b] - 1 ELSE step[b])
    /\ UNCHANGED <<data, before, moves>>

FailExecute(b) ==
    /\ Fault
    /\ mode[b] = "forward"
    /\ step[b] \in Steps
    /\ \E S \in SUBSET Statements(b, data[b], step[b]) : Apply(S)
    /\ reordered' \in {reordered, List(b, step[b], Entry(data[b]))}
    /\ \E m \in {"backward", "dead"} : GoTo(b, m, step[b])
    /\ UNCHANGED <<data, before, moves>>

FailUndo(b) ==
    /\ Fault
    /\ mode[b] = "backward"
    /\ step[b] \in Steps
    /\ \E S \in SUBSET UndoStatements(b, data[b], step[b]) : Apply(S)
    /\ reordered' \in {reordered, List(b, step[b], UndoEntry(data[b]))}
    /\ GoTo(b, "dead", step[b])
    /\ UNCHANGED <<data, before, moves>>

\* delete_recovery_log fails at Finish; the step after that is the last.
FailFinish(b) ==
    /\ Fault
    /\ mode[b] = "forward"
    /\ step[b] = Finish
    /\ GoTo(b, "backward", PushNewEditors)
    /\ UNCHANGED <<tables, data, before, moves>>

Next ==
    \E b \in Branches :
        \/ FindNode(b) \/ Refuse(b) \/ Validate(b) \/ CreateBranchNodes(b)
        \/ Execute(b) \/ Finished(b)
        \/ Undo(b) \/ RolledBack(b) \/ Recover(b)
        \/ FailCreateBranchNodes(b) \/ FailExecute(b) \/ FailUndo(b) \/ FailFinish(b)

Spec == Init /\ [][Next]_vars

-----------------------------------------------------------------------------
(* Properties *)

\* Once a reorder has finished, or has been rolled back by whatever way, the
\* original's tables describe one and the same tree: every node's ancestors,
\* and at every ancestor its descendants with their order and parent.
OriginalRight ==
    mode[Original] = "idle" => AncestorsRight(Original) /\ RowsRight(Original)

\* A reorder that is undone, after an error or from the log, leaves both
\* tables of its branch as they were when its steps began.
RollbackRestores ==
    [][\A b \in Branches :
         mode[b] = "backward" /\ mode'[b] = "idle" =>
            /\ Tables(b)'.nodes = before[b].nodes
            /\ Tables(b)'.rows = before[b].rows]_vars

\* A reorder that is done has put the node where it was asked to: below the
\* new parent and, unless the request brought an index along, not outside its
\* new siblings.
Placed ==
    [][\A b \in Branches : mode[b] = "forward" /\ mode'[b] = "idle" =>
         LET d == data[b] IN
         /\ nodes[b][d.id].parent = d.newParent
         /\ d.upper # Nobody =>
              /\ BranchedOrOriginal(b, d.upper).parent = d.newParent
              /\ d.given = Nobody => BranchedOrOriginal(b, d.upper).order <= nodes[b][d.id].order
         /\ d.lower # Nobody =>
              /\ BranchedOrOriginal(b, d.lower).parent = d.newParent
              /\ d.given = Nobody => nodes[b][d.id].order <= BranchedOrOriginal(b, d.lower).order]_vars

\* A node that a reorder has moved, or has put back, is listed at exactly the
\* ancestors it then has, with the order and parent it has: whatever earlier
\* reorders of its branch, undone ones and broken-off copies left there.  Unless
\* it was copied from an original in the middle of a reorder, when its rows, its
\* parent and its ancestors are not of one tree.
MovedListed ==
    [][\A b \in Branches : mode[b] \in {"forward", "backward"} /\ mode'[b] = "idle" =>
         LET d == data[b]
             listed == {row \in rows : row.branch = b /\ row.id = d.id} IN
         /\ \A row \in before[b].rows : row.id = d.id => row.node \in d.oldAncestors
         /\ ~ParentChanged(d) => d.oldAncestors = d.newAncestors
         => listed = AncestorRows(b, d.id, nodes[b][d.id])]_vars

\* A contribution's reorders never write to the original's tables.
OriginalUntouched ==
    [][Tables(Original)' # Tables(Original) => mode[Original] \in {"forward", "backward"}]_vars

\* Where the branch lists a node as reordered, that is where the node is.
ListFollowsTree ==
    \A b \in Contributions, n \in Nodes :
        mode[b] = "idle" /\ reordered[b][n] # Nobody =>
            nodes[b][n].parent = reordered[b][n].newParent
=============================================================================
