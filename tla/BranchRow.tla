------------------------------ MODULE BranchRow ------------------------------
(***************************************************************************)
(* The row of table branches that lists what a contribution changes        *)
(* (models/branch.rs), the updates of its lists (branch/update.rs), and    *)
(* the conflicts that a merge of it would meet (branch/merge/conflicts.rs).*)
(* A column per kind of object in the code is one field here, since no two *)
(* objects share an id; a map of sets is a set of pairs.                   *)
(***************************************************************************)
EXTENDS Integers, FiniteSets, Sequences

CONSTANTS
    Nodes, Flows, Steps, Ios,   \* objects, by kind
    NodeOf,     \* the node_id of flows, steps and IOs
    FlowOf,     \* the flow_id of steps, and of IOs that have one
    StepOf,     \* the flow_step_id of IOs that have one
    IndexOf,    \* the step_index of steps
    None        \* for an IO without a flow or a step

Objects == Nodes \cup Flows \cup Steps \cup Ios
Moves == [id : Nodes, parent : Nodes, old : Nodes]

ASSUME BranchRowAssumption ==
    /\ NodeOf \in [Flows \cup Steps \cup Ios -> Nodes]
    /\ FlowOf \in [Steps \cup Ios -> Flows \cup {None}]
    /\ StepOf \in [Ios -> Steps \cup {None}]
    /\ None \notin Objects

\* Maps from steps; steps are the keys of the map of created, also those
\* whose sets are empty.
Pairs(S) ==
    [created : SUBSET (Steps \X S), deleted : SUBSET (Steps \X S), steps : SUBSET Steps]
NoPairs == [created |-> {}, deleted |-> {}, steps |-> {}]

RowSet ==
    [created : SUBSET Objects, restored : SUBSET Objects, deleted : SUBSET Objects,
     edited : SUBSET Nodes, title : SUBSET Objects, description : SUBSET Objects,
     kept : SUBSET Steps, reordered : Seq(Moves),
     nodes : Pairs(Nodes), inputs : Pairs(Ios), outputs : Pairs(Ios),
     initial : [created : SUBSET Ios, deleted : SUBSET Ios],
     conflict : SUBSET Objects]

NewRow ==
    [created |-> {}, restored |-> {}, deleted |-> {}, edited |-> {}, title |-> {},
     description |-> {}, kept |-> {}, reordered |-> << >>,
     nodes |-> NoPairs, inputs |-> NoPairs, outputs |-> NoPairs,
     initial |-> [created |-> {}, deleted |-> {}], conflict |-> {}]

-----------------------------------------------------------------------------
(* The arms of Branch::update.  The first group are single statements or   *)
(* batches on one partition, which Scylla carries out whole.               *)

CreateNode(row, n, ancestors) ==
    [row EXCEPT !.created = @ \cup {n}, !.edited = @ \cup ancestors]

DeleteNodes(row, S) ==
    [row EXCEPT !.deleted = @ \cup S, !.restored = @ \ S, !.edited = @ \ S]

DeleteKeepsRestored(row, o) ==
    [row EXCEPT !.deleted = @ \cup {o}, !.created = @ \ {o}]

\* DeleteFlow, DeleteFlowStep and DeleteIo.
Delete(row, o) ==
    [row EXCEPT !.deleted = @ \cup {o}, !.created = @ \ {o}, !.restored = @ \ {o}]

UndoDelete(row, S) == [row EXCEPT !.deleted = @ \ S]

RestoreKeepsDeleted(row, o) == [row EXCEPT !.restored = @ \cup {o}]

Restore(row, o) == [row EXCEPT !.restored = @ \cup {o}, !.deleted = @ \ {o}]

Create(row, o) == [row EXCEPT !.created = @ \cup {o}]
EditNode(row, n) == [row EXCEPT !.edited = @ \cup {n}]
EditTitle(row, o) == [row EXCEPT !.title = @ \cup {o}]
EditDescription(row, o) == [row EXCEPT !.description = @ \cup {o}]
KeepFlowStep(row, s) == [row EXCEPT !.kept = @ \cup {s}]
CreateInitialInput(row, i) == [row EXCEPT !.initial.created = @ \cup {i}]
DeleteInitialInput(row, i) == [row EXCEPT !.initial.deleted = @ \cup {i}]
UndoDeleteInitialInput(row, i) == [row EXCEPT !.initial.deleted = @ \ {i}]

\* The sets of nodes are frozen: a push puts a new set in the place of the
\* one the step had.
Replaced(pairs, s, S) == {pair \in pairs : pair[1] # s} \cup ({s} \X S)
CreateFlowStepNodes(row, s, S) ==
    [row EXCEPT !.nodes.created = Replaced(@, s, S), !.nodes.steps = @ \cup {s}]
DeleteFlowStepNodes(row, s, S) == [row EXCEPT !.nodes.deleted = Replaced(@, s, S)]

(* The second group read a column, change it and write it back.            *)

\* The moves in s of nodes other than n, in their order.
MovesOfOthers(s, n) ==
    LET others == {k \in DOMAIN s : s[k].id # n}
        Place(k) == Cardinality({j \in others : j <= k})
    IN  [p \in 1 .. Cardinality(others) |-> s[CHOOSE k \in others : Place(k) = p]]

ReorderNode(row, move) ==
    [row EXCEPT !.reordered = Append(MovesOfOthers(@, move.id), move)]

\* Create and DeleteFlowStepInputs, and the same for outputs.
Added(pairs, s, S) ==
    [created |-> pairs.created \cup ({s} \X S), deleted |-> pairs.deleted \ ({s} \X S),
     steps |-> pairs.steps \cup {s}]
RemovedKeepsAdded(pairs, s, S) == [pairs EXCEPT !.deleted = @ \cup ({s} \X S)]

Removed(pairs, s, S) ==
    [created |-> pairs.created \ ({s} \X S), deleted |-> pairs.deleted \cup ({s} \X S),
     steps |-> pairs.steps]

CreateFlowStepInputs(row, s, S) == [row EXCEPT !.inputs = Added(@, s, S)]
DeleteFlowStepInputs(row, s, S) == [row EXCEPT !.inputs = Removed(@, s, S)]
CreateFlowStepOutputs(row, s, S) == [row EXCEPT !.outputs = Added(@, s, S)]
DeletedFlowStepOutputs(row, s, S) == [row EXCEPT !.outputs = Removed(@, s, S)]
UndoDeleteOutput(row, s, i) == [row EXCEPT !.outputs.deleted = @ \ {<<s, i>>}]

-----------------------------------------------------------------------------
(* What a merge takes from the branch.  above[n] are the ancestor_ids that *)
(* node n has in the branch.                                               *)

\* filter_out_..._with_deleted_parents
NodesKept(row, S, above) == {n \in S : above[n] \cap row.deleted = {}}
FlowsKept(row, S) == {f \in S : NodeOf[f] \notin row.deleted}
StepsKept(row, S) == {s \in S : {NodeOf[s], FlowOf[s]} \cap row.deleted = {}}
IosKept(row, S) == {i \in S : {NodeOf[i], FlowOf[i], StepOf[i]} \cap row.deleted = {}}

\* Objects of a list that the branch neither created nor deleted.
OriginalRecords(row, S) == S \ (row.created \cup row.deleted)

CreatedNodes(row, above) ==
    NodesKept(row, (row.created \cap Nodes) \ row.deleted, above)
CreatedFlows(row) == FlowsKept(row, row.created \cap Flows)
CreatedSteps(row) == StepsKept(row, row.created \cap Steps)
CreatedIos(row) == IosKept(row, row.created \cap Ios)

RestoredAgain(row, original) == row.restored \cap Nodes

\* What is restored and not back already; of nodes also those below deleted ones.
RestoredNodes(row, original) == (row.restored \cap Nodes) \ original
RestoredFlows(row, original) == FlowsKept(row, row.restored \cap Flows) \ original
RestoredSteps(row, original) == StepsKept(row, row.restored \cap Steps) \ original
RestoredIos(row, original) == IosKept(row, row.restored \cap Ios) \ original

DeletedNodes(row, original) == row.deleted \cap Nodes \cap original
DeletedFlows(row, original) == FlowsKept(row, row.deleted \cap Flows) \cap original
DeletedSteps(row, original) == StepsKept(row, row.deleted \cap Steps) \cap original
DeletedIos(row, original) == IosKept(row, row.deleted \cap Ios) \cap original

ReorderedNodes(row) ==
    {entry \in {row.reordered[k] : k \in DOMAIN row.reordered} :
        entry.id \notin row.created \cup row.deleted}

\* The original's steps of a list, unless the branch deletes them.
OriginalSteps(row, S, original) == StepsKept(row, S \ row.deleted) \cap original
-----------------------------------------------------------------------------
(* Conflicts: objects the branch builds upon that are no longer in the     *)
(* original.                                                               *)

Decided(row) == row.created \cup row.restored \cup row.deleted

DeletedAncestors(row, S, original, above) ==
    (UNION {above[n] : n \in S}) \ (Decided(row) \cup original)

EditedNodes(row) == (row.edited \cup (row.description \cap Nodes)) \ Decided(row)

NodeConflicts(row, original, above) ==
    DeletedAncestors(row, CreatedNodes(row, above) \cup EditedNodes(row), original, above)
        \cup (EditedNodes(row) \ original)

\* The lists of steps and IOs that make their flow an edited one.
EditedFlows(row, original) ==
    ((row.description \cap Flows)
        \cup {FlowOf[s] : s \in CreatedSteps(row) \cup RestoredSteps(row, original)
                                 \cup row.nodes.steps \cup row.inputs.steps}
        \cup {FlowOf[i] : i \in CreatedIos(row) \cup RestoredIos(row, original)})
        \ (Decided(row) \cup {None})

EditedSteps(row, original) ==
    ((row.description \cap Steps)
        \cup row.nodes.steps
        \cup {StepOf[i] : i \in CreatedIos(row)})
        \ (Decided(row) \cup {None})

\* Flows and steps are looked for in the edited nodes only, and not at all
\* when there are none.
Unfound(row, S, original) ==
    IF row.edited = {} THEN {}
    ELSE {o \in S : o \notin original \/ NodeOf[o] \notin row.edited}

FlowConflicts(row, original) == Unfound(row, EditedFlows(row, original), original)
StepConflicts(row, original) == Unfound(row, EditedSteps(row, original), original)

IoConflicts(row, original) == ((row.description \cap Ios) \ Decided(row)) \ original

\* New steps where the original has one with the same index in the same flow.
\* Of two, the query's LIMIT 1 finds one, which counts if the branch keeps it.
IndexConflicts(row, original) ==
    {s \in CreatedSteps(row) \cup RestoredSteps(row, original) :
        /\ FlowOf[s] \notin row.created
        /\ s \notin row.kept
        /\ \E t \in (Steps \cap original) \ row.deleted :
               FlowOf[t] = FlowOf[s] /\ IndexOf[t] = IndexOf[s]}

Conflicts(row, original, above) ==
    NodeConflicts(row, original, above) \cup FlowConflicts(row, original)
        \cup StepConflicts(row, original) \cup IndexConflicts(row, original)
        \cup IoConflicts(row, original)
=============================================================================
