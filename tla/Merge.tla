------------------------------- MODULE Merge -------------------------------
(***************************************************************************)
(* The merge of a contribution (models/branch/merge.rs and the modules     *)
(* below it): the branch is edited, the original is edited by others, and  *)
(* the changes that the branch's row lists are carried over to the         *)
(* original in twenty-two logged steps, which are undone in reverse after  *)
(* an error, and from the log after a crash.  The lists of a step are made *)
(* when the merge starts; a step whose list is empty is passed over.       *)
(***************************************************************************)
EXTENDS Contents, SequencesExt

CONSTANTS
    Original,   \* the original's tables to begin with
    Edits(_, _, _), OtherEdits(_),   \* handlers in the branch and in the original
    MaxEdits, MaxOtherEdits, MaxMerges, MaxFaults

\* No two objects share an id.
ASSUME MergeAssumption ==
    /\ IsFiniteSet(Flows)
    /\ Nodes \cap (Flows \cup Steps \cup Ios) = {}
    /\ Flows \cap (Steps \cup Ios) = {} /\ Steps \cap Ios = {}

MergeSteps ==
    <<"RestoreNodes", "CreateNodes", "DeleteNodes", "UpdateNodesTitles", "ReorderNodes",
      "RestoreFlows", "CreateFlows", "DeleteFlows", "UpdateFlowsTitles",
      "DeleteFlowSteps", "RestoreFlowSteps", "CreateFlowSteps",
      "CreateFlowStepNodes", "DeleteFlowStepNodes",
      "CreateFlowStepInputs", "DeleteFlowStepInputs",
      "RestoreIos", "CreateIos", "DeleteIos", "UpdateIoTitles",
      "UpdateDescriptions", "DeleteDescriptions", "Finish">>

Start == 0
Finish == Len(MergeSteps)
Name(k) == MergeSteps[k]

\* Steps that keep what they read of flow steps, in memory only.
Deltas == {"CreateFlowStepNodes", "DeleteFlowStepNodes",
           "CreateFlowStepInputs", "DeleteFlowStepInputs"}
NodeDeltas == {"CreateFlowStepNodes", "DeleteFlowStepNodes"}
NoDeltas == [name \in Deltas |-> [steps |-> {}, pairs |-> {}]]

VARIABLES
    orig,       \* tables of the original
    row, mine,  \* the branch: its row and its tables
    mode,       \* of the merge: open before it, dead after a crash
    step,       \* the step that is next; the logged one when dead or failed
    was, src,   \* rows of the original and of the branch that BranchMerge::new has loaded
    deltas,     \* added_node_ids_by_flow_step and the like
    fromLog,    \* the merge is the one that was written to the log
    spent       \* work done, for the bounds

vars == <<orig, row, mine, mode, step, was, src, deltas, fromLog, spent>>

Init ==
    /\ orig = Original
    /\ row = NewRow
    /\ mine = Empty
    /\ mode = "open"
    /\ step = Start
    /\ was = Empty
    /\ src = Empty
    /\ deltas = NoDeltas
    /\ fromLog = FALSE
    /\ spent = [edits |-> 0, others |-> 0, merges |-> 0, faults |-> 0]

Spend(what, max) == spent[what] < max /\ spent' = [spent EXCEPT ![what] = @ + 1]

EditBranch ==
    /\ mode = "open"
    /\ Spend("edits", MaxEdits)
    /\ \E both \in Edits(row, mine, orig) : row' = both.row /\ mine' = both.mine
    /\ UNCHANGED <<orig, mode, step, was, src, deltas, fromLog>>

\* While a merge runs, the lock keeps others from the tree.
EditOriginal ==
    /\ mode = "open"
    /\ Spend("others", MaxOtherEdits)
    /\ orig' \in OtherEdits(orig)
    /\ UNCHANGED <<row, mine, mode, step, was, src, deltas, fromLog>>

-----------------------------------------------------------------------------
(* What the steps have to do.                                              *)

Retitled(S) ==
    {x \in OriginalRecords(row, row.title \cap S) \cap src.objs \cap was.objs :
        src.title[x] # was.title[x]}

\* With the title of an IO those of all that share its main_id are written.
Titling(S) == {i \in Ios : Alike(i) \cap S # {}}

Listing(pairs) == {p[1] : p \in pairs}

NodesReadOnce(s) == Of(was.nodes, s)

\* A step is read again if the step before wrote it.
NodesRead(s) == Of(IF s \in row.nodes.steps THEN orig.nodes ELSE was.nodes, s)
InputsRead(s) == Of(IF s \in row.inputs.steps THEN orig.inputs ELSE was.inputs, s)

GainingNodes ==
    {s \in OriginalSteps(row, row.nodes.steps, was.objs) \cap src.objs :
        ~(Of(src.nodes, s) \subseteq Of(was.nodes, s))}
LosingNodes == OriginalSteps(row, Listing(row.nodes.deleted), was.objs)
GainingInputs ==
    {s \in OriginalSteps(row, row.inputs.steps, was.objs) \cap src.objs :
        Of(src.inputs, s) # {}}
LosingInputs == OriginalSteps(row, Listing(row.inputs.deleted), was.objs)

\* Steps that have nothing to lose are not written.
Losing(name, S) ==
    CASE name = "DeleteFlowStepNodes" ->
             {s \in S : Of(row.nodes.deleted, s) \cap NodesRead(s) # {}}
      [] name = "DeleteFlowStepInputs" ->
             {s \in S : \E i \in Of(row.inputs.deleted, s), j \in InputsRead(s) : At[i] = At[j]}
      [] OTHER -> S

NodeSteps == {"RestoreNodes", "CreateNodes", "DeleteNodes", "UpdateNodesTitles", "ReorderNodes"}
NodeItems(name) ==
    CASE name = "RestoreNodes" -> RestoredNodes(row, was.objs) \cap src.objs
      [] name = "CreateNodes" -> CreatedNodes(row, src.above) \cap src.objs
      [] name = "DeleteNodes" -> DeletedNodes(row, was.objs)
      [] name = "UpdateNodesTitles" -> Retitled(Nodes)
      [] name = "ReorderNodes" -> {entry.id : entry \in ReorderedNodes(row)}

\* The titles of flows are compared with those the branch has itself.
FlowSteps == {"RestoreFlows", "CreateFlows", "DeleteFlows", "UpdateFlowsTitles"}
FlowItems(name) ==
    CASE name = "RestoreFlows" -> RestoredFlows(row, was.objs) \cap src.objs
      [] name = "CreateFlows" -> CreatedFlows(row) \cap src.objs
      [] name = "DeleteFlows" -> DeletedFlows(row, was.objs)
      [] name = "UpdateFlowsTitles" -> {}

StepSteps == {"DeleteFlowSteps", "RestoreFlowSteps", "CreateFlowSteps"}
StepItems(name) ==
    CASE name = "DeleteFlowSteps" -> DeletedSteps(row, was.objs)
      [] name = "RestoreFlowSteps" -> RestoredSteps(row, was.objs) \cap src.objs
      [] name = "CreateFlowSteps" -> CreatedSteps(row) \cap src.objs

DeltaItems(name) ==
    CASE name = "CreateFlowStepNodes" -> GainingNodes
      [] name = "DeleteFlowStepNodes" -> LosingNodes
      [] name = "CreateFlowStepInputs" -> GainingInputs
      [] name = "DeleteFlowStepInputs" -> LosingInputs

IoSteps == {"RestoreIos", "CreateIos", "DeleteIos", "UpdateIoTitles"}
IoItems(name) ==
    CASE name = "RestoreIos" -> RestoredIos(row, was.objs) \cap src.objs
      [] name = "CreateIos" -> CreatedIos(row) \cap src.objs
      [] name = "DeleteIos" -> DeletedIos(row, was.objs)
      [] name = "UpdateIoTitles" -> Titling(Retitled(Ios))

\* all_edited_description_ids, all_deleted_object_ids
DescriptionSteps == {"UpdateDescriptions", "DeleteDescriptions"}
Redescribed == {x \in row.description : src.text[x] # {} /\ src.text[x] # was.text[x]}
Undescribed == {x \in row.deleted : src.text[x] # {}}

Items(name) ==
    CASE name \in NodeSteps -> NodeItems(name)
      [] name \in FlowSteps -> FlowItems(name)
      [] name \in StepSteps -> StepItems(name)
      [] name \in Deltas -> DeltaItems(name)
      [] name \in IoSteps -> IoItems(name)
      [] name = "UpdateDescriptions" -> Redescribed
      [] name = "DeleteDescriptions" -> Undescribed

-----------------------------------------------------------------------------
(* What they do for the items S, and what undoes it.                       *)

\* The nodes S are moved one after the other.  A move that is refused is
\* logged, and the merge goes on.
Moved(t, S, back) ==
    LET after[k \in 0 .. Len(row.reordered)] ==
            IF k = 0 THEN t
            ELSE LET entry == row.reordered[k] IN
                 IF entry.id \in S
                 THEN Move(after[k - 1], entry.id, IF back THEN entry.old ELSE entry.parent)
                 ELSE after[k - 1]
    IN  after[Len(row.reordered)]

\* A step kept in spite of a conflict gets the next index, also in the branch.
\* What is in the log still has the old one.
Incremented(S) == [s \in Steps |-> src.index[s] + IF s \in S \cap row.kept THEN 1 ELSE 0]
Numbered(S) == [src EXCEPT !.index = Incremented(S)]
IndexForgotten(s) == src.index[s]

IndexKnown(s) == IF fromLog THEN src.index[s] ELSE Incremented({s})[s]

\* append_nodes, remove_nodes and so on, of what was read
Changed(name, S) ==
    LET read(Read(_)) == UNION {{s} \X Read(s) : s \in S}
        added(P) == {p \in P : p[1] \in S} IN
    CASE name = "CreateFlowStepNodes" -> added(was.nodes \cup src.nodes)
      [] name = "DeleteFlowStepNodes" -> read(NodesRead) \ row.nodes.deleted
      [] name = "CreateFlowStepInputs" -> added(was.inputs \cup src.inputs)
      [] name = "DeleteFlowStepInputs" ->
             read(InputsRead) \ (row.inputs.deleted \ row.inputs.created)

BeforeChange(name, S) ==
    CASE name = "CreateFlowStepNodes" -> {p \in was.nodes : p[1] \in S}
      [] name = "DeleteFlowStepNodes" -> UNION {{s} \X NodesRead(s) : s \in S}
      [] name = "CreateFlowStepInputs" -> {p \in was.inputs : p[1] \in S}
      [] name = "DeleteFlowStepInputs" -> UNION {{s} \X InputsRead(s) : s \in S}

WithTitles(t, S) == [orig EXCEPT !.title = Overriding(@, t.title, S)]

\* The branch's row is written with its title: its parent and its ancestors,
\* under which the node is listed also.  An UPDATE makes the row if it is gone.
NodeTitles(S) ==
    [WithTitles(src, S) EXCEPT
        !.objs = @ \cup S, !.parent = Overriding(@, src.parent, S),
        !.above = [n \in Nodes |-> @[n] \cup IF n \in S THEN src.above[n] ELSE {}]]

\* The titles that t has for the IOs listed; others of their main_id are found
\* in the original.  Of several titles for one main_id the last one stays.
IoTitles(t, listed, S) ==
    LET rows == S \cap (orig.objs \cup listed) IN
    [orig EXCEPT
        !.objs = @ \cup rows, !.loose = @ \cup (rows \ orig.objs),
        !.title = [x \in Titled |->
            IF x \in rows THEN t.title[CHOOSE y \in listed : y \in Alike(x)] ELSE @[x]]]

NodeEffect(name, S) ==
    CASE name \in {"RestoreNodes", "CreateNodes"} -> InsertRows(orig, src, S)
      [] name = "DeleteNodes" -> DeleteNodesOf(orig, S)
      [] name = "UpdateNodesTitles" -> NodeTitles(S)
      [] name = "ReorderNodes" -> Moved(orig, S, FALSE)

\* One after the other, each below those that its node has by then.
InsertFlows(t, u, S) ==
    LET order == SetToSeq(S)
        Before(f) == {order[i] : i \in {j \in DOMAIN order :
                         \E k \in DOMAIN order : j < k /\ order[k] = f}}
        new == InsertRows(t, u, S) IN
    [new EXCEPT !.place = [f \in Flows |->
        IF f \in S
        THEN Cardinality(FlowsOf([t EXCEPT !.objs = @ \cup Before(f)], NodeOf[f]))
        ELSE @[f]]]

FlowEffect(name, S) ==
    CASE name \in {"RestoreFlows", "CreateFlows"} -> InsertFlows(orig, src, S)
      [] name = "DeleteFlows" -> DeleteFlows(orig, S)
      [] name = "UpdateFlowsTitles" -> WithTitles(src, S)

StepEffect(name, S) ==
    CASE name = "DeleteFlowSteps" -> DeleteSteps(orig, was, S)
      [] name = "RestoreFlowSteps" -> InsertRows(orig, src, S)
      [] name = "CreateFlowSteps" -> InsertRows(orig, Numbered(S), S)

\* UpdateInputIdsFlowStep makes a row that is gone.
DeltaEffect(name, S, pairs) ==
    IF name \in NodeDeltas THEN UpdateNodes(orig, S, pairs)
    ELSE [UpdateInputs(orig, S, pairs) EXCEPT
             !.objs = @ \cup S, !.index = Overriding(@, was.index, S)]

IoEffect(name, S) ==
    CASE name \in {"RestoreIos", "CreateIos"} -> InsertIos(orig, src, S)
      [] name = "DeleteIos" -> DeleteIos(orig, was, S)
      [] name = "UpdateIoTitles" -> IoTitles(src, Retitled(Ios), S)

DescriptionEffect(name, S) ==
    IF name = "UpdateDescriptions"
    THEN [orig EXCEPT !.text = [x \in Objects |-> @[x] \cup IF x \in S THEN src.text[x] ELSE {}]]
    ELSE orig

Effect(name, S) ==
    CASE name \in NodeSteps -> NodeEffect(name, S)
      [] name \in FlowSteps -> FlowEffect(name, S)
      [] name \in StepSteps -> StepEffect(name, S)
      [] name \in Deltas -> DeltaEffect(name, S, Changed(name, S))
      [] name \in IoSteps -> IoEffect(name, S)
      [] name \in DescriptionSteps -> DescriptionEffect(name, S)

\* Steps that cannot be read: to change their nodes, and those read again.
Unread(name) ==
    (CASE name = "CreateFlowStepNodes" -> GainingNodes
       [] name = "DeleteFlowStepNodes" ->
              Losing(name, LosingNodes) \cup (LosingNodes \cap row.nodes.steps)
       [] name = "DeleteFlowStepInputs" -> LosingInputs \cap row.inputs.steps) \ orig.objs

\* IOs stop at one whose step is missing; the row of a new one is in by then.
Stuck(name) ==
    CASE name \in {"RestoreIos", "CreateIos"} -> Stepless(orig, src, Items(name)) # {}
      [] name = "DeleteIos" -> Stepless(orig, was, Items(name)) # {}
      [] name \in NodeDeltas \cup {"DeleteFlowStepInputs"} -> Unread(name) # {}
      [] OTHER -> FALSE

EffectOnBranch(name, S) ==
    CASE name = "CreateFlowSteps" -> [mine EXCEPT !.index = Overriding(@, Incremented(S), S)]
      [] name \in {"RestoreFlows", "CreateFlows"} ->
             [mine EXCEPT !.place = Overriding(@, InsertFlows(orig, src, S).place, S)]
      [] name = "DeleteDescriptions" -> [mine EXCEPT !.text = Overriding(@, Empty.text, S)]
      [] OTHER -> mine

\* Nodes are removed with all below them, so those below others of the list
\* are left out.
Topmost(S) == {n \in S : src.above[n] \cap S = {}}
WithTitle(S) == row.title \cap S \cap was.objs
WithTextUnset(S) == {x \in S : was.text[x] = {}}
WithText(S) == {x \in S : was.text[x] # {}}

UndoItems(name) ==
    CASE name \in {"RestoreNodes", "CreateNodes"} -> Topmost(Items(name))
      [] name = "UpdateNodesTitles" -> WithTitle(Nodes)
      [] name = "UpdateIoTitles" -> Titling(WithTitle(Ios))
      [] name \in Deltas -> deltas[name].steps
      [] name = "UpdateDescriptions" -> WithText({x \in row.description : src.text[x] # {}})
      [] name = "DeleteDescriptions" -> WithText(Undescribed)
      [] OTHER -> Items(name)

UndoNodes(name, S) ==
    CASE name \in {"RestoreNodes", "CreateNodes"} -> DeleteNodesOf(orig, S)
      [] name = "DeleteNodes" -> InsertRows(orig, was, S)
      [] name = "UpdateNodesTitles" -> WithTitles(was, S)
      [] name = "ReorderNodes" -> Moved(orig, S, TRUE)

\* The log has the vertical index they had in the branch.
UndoFlows(name, S) ==
    CASE name \in {"RestoreFlows", "CreateFlows"} ->
             DeleteFlows(orig, {f \in S : fromLog => orig.place[f] = src.place[f]})
      [] name = "DeleteFlows" -> InsertFlows(orig, was, S)
      [] name = "UpdateFlowsTitles" -> WithTitles(was, S)

UndoSteps(name, S) ==
    CASE name = "DeleteFlowSteps" -> InsertRows(orig, was, S)
      [] name = "RestoreFlowSteps" -> DeleteSteps(orig, src, S)
      [] name = "CreateFlowSteps" ->
             DeleteSteps(orig, src, {s \in S : orig.index[s] = IndexKnown(s)})

UndoIos(name, S) ==
    CASE name \in {"RestoreIos", "CreateIos"} -> DeleteIos(orig, src, S)
      [] name = "DeleteIos" -> InsertIos(orig, was, S)
      [] name = "UpdateIoTitles" -> IoTitles(was, WithTitle(Ios), S)

UndoEffect(name, S) ==
    CASE name \in NodeSteps -> UndoNodes(name, S)
      [] name \in FlowSteps -> UndoFlows(name, S)
      [] name \in StepSteps -> UndoSteps(name, S)
      [] name \in Deltas -> DeltaEffect(name, S, {p \in deltas[name].pairs : p[1] \in S})
      [] name \in IoSteps -> UndoIos(name, S)
      [] name \in DescriptionSteps -> [orig EXCEPT !.text = Overriding(@, was.text, S)]

UndoStuck(name) ==
    CASE name \in {"RestoreNodes", "CreateNodes", "UpdateNodesTitles"} ->
             ~(UndoItems(name) \subseteq orig.objs)
      [] name \in {"RestoreIos", "CreateIos"} -> Stepless(orig, src, Items(name)) # {}
      [] name = "DeleteIos" -> Stepless(orig, was, Items(name)) # {}
      [] OTHER -> FALSE

-----------------------------------------------------------------------------

Busy(k) ==
    k \in {Start, Finish} \/ Items(Name(k)) # {} \/ UndoItems(Name(k)) # {}
NextStep(k) == CHOOSE next \in k + 1 .. Finish :
                   Busy(next) /\ \A between \in k + 1 .. next - 1 : ~Busy(between)
LastStep(k) == CHOOSE last \in Start .. k - 1 :
                   Busy(last) /\ \A between \in last + 1 .. k - 1 : ~Busy(between)

StartMerge ==
    /\ mode \in {"open", "recovered"}
    /\ Spend("merges", MaxMerges)
    /\ Conflicts(row, orig.objs, mine.above) = {}
    /\ mode' = "run"
    /\ step' = Start + 1
    /\ was' = orig
    /\ src' = mine
    /\ deltas' = NoDeltas
    /\ fromLog' = FALSE
    /\ UNCHANGED <<orig, row, mine>>

\* Items S are carried out; a delta is saved when its update has returned.
Carry(S, saved) ==
    /\ orig' = Effect(Name(step), S)
    /\ mine' = EffectOnBranch(Name(step), S)
    /\ deltas' = IF Name(step) \in Deltas
                 THEN [deltas EXCEPT ![Name(step)] =
                          [steps |-> saved, pairs |-> BeforeChange(Name(step), saved)]]
                 ELSE deltas
    /\ UNCHANGED <<row, was, src, fromLog>>

Execute ==
    /\ mode = "run"
    /\ step # Finish
    /\ ~Stuck(Name(step))
    /\ LET S == Losing(Name(step), Items(Name(step))) IN Carry(S, S)
    /\ step' = NextStep(step)
    /\ UNCHANGED <<mode, spent>>

\* Nodes come with their ancestors first.
Portions(name) ==
    {S \in SUBSET Losing(name, Items(name)) :
        /\ name \in {"RestoreNodes", "CreateNodes"} =>
               \A n \in S : src.above[n] \cap Items(name) \subseteq S
        /\ name \in NodeDeltas => S \subseteq orig.objs}

GetStuck ==
    /\ mode = "run"
    /\ step # Finish
    /\ Stuck(Name(step))
    /\ \E S \in Portions(Name(step)) : Carry(S, S)
    /\ mode' = "undo"
    /\ UNCHANGED <<step, spent>>

\* An error, or the end of the process: any of the items are done.  The last
\* may be done with an error for an answer, or no answer.
FailExecute ==
    /\ mode = "run"
    /\ step # Finish
    /\ Spend("faults", MaxFaults)
    /\ \E S \in Portions(Name(step)) : \E last \in S \cup {None} : Carry(S, S \ {last})
    /\ mode' \in {"undo", "dead"}
    /\ UNCHANGED step

\* An error of a single move is no error of the step.
FailMove ==
    /\ mode = "run"
    /\ Name(step) = "ReorderNodes"
    /\ Spend("faults", MaxFaults)
    /\ \E n \in Items("ReorderNodes") : LET S == Items("ReorderNodes") \ {n} IN Carry(S, S)
    /\ step' = NextStep(step)
    /\ UNCHANGED mode

FinishMerge ==
    /\ mode = "run"
    /\ step = Finish
    /\ mode' = "merged"
    /\ deltas' = NoDeltas
    /\ UNCHANGED <<orig, row, mine, step, was, src, fromLog, spent>>

\* The log is not deleted.
FailFinish ==
    /\ mode = "run"
    /\ step = Finish
    /\ Spend("faults", MaxFaults)
    /\ mode' \in {"undo", "dead"}
    /\ step' = LastStep(step)
    /\ UNCHANGED <<orig, row, mine, was, src, deltas, fromLog>>

CarryBack(S) ==
    /\ orig' = UndoEffect(Name(step), S)
    /\ UNCHANGED <<row, mine, was, src, deltas, fromLog>>

Undo ==
    /\ mode = "undo"
    /\ step # Start
    /\ ~UndoStuck(Name(step))
    /\ CarryBack(UndoItems(Name(step)))
    /\ step' = LastStep(step)
    /\ UNCHANGED <<mode, spent>>

\* The merge is given up with a FatalMergeError.
GetStuckUndoing ==
    /\ mode = "undo"
    /\ step # Start
    /\ UndoStuck(Name(step))
    /\ \E S \in SUBSET (UndoItems(Name(step)) \cap orig.objs) : CarryBack(S)
    /\ mode' = "failed"
    /\ UNCHANGED <<step, spent>>

FailUndo ==
    /\ mode = "undo"
    /\ step # Start
    /\ Spend("faults", MaxFaults)
    /\ \E S \in SUBSET UndoItems(Name(step)) : CarryBack(S)
    /\ mode' \in {"failed", "dead"}
    /\ UNCHANGED step

\* Nor is it one of the undo.
FailMoveBack ==
    /\ mode = "undo"
    /\ step # Start
    /\ Name(step) = "ReorderNodes"
    /\ Spend("faults", MaxFaults)
    /\ \E n \in UndoItems("ReorderNodes") : CarryBack(UndoItems("ReorderNodes") \ {n})
    /\ step' = LastStep(step)
    /\ UNCHANGED mode

RolledBack ==
    /\ mode = "undo"
    /\ step = Start
    /\ mode' = "recovered"
    /\ UNCHANGED <<orig, row, mine, step, was, src, deltas, fromLog, spent>>

\* The recovery task undoes from the logged step on.
Recover ==
    /\ mode \in {"dead", "failed"}
    /\ mode' = "undo"
    /\ deltas' = NoDeltas
    /\ fromLog' = TRUE
    /\ UNCHANGED <<orig, row, mine, step, was, src, spent>>

Next ==
    \/ EditBranch \/ EditOriginal
    \/ StartMerge \/ Execute \/ GetStuck \/ FinishMerge
    \/ Undo \/ GetStuckUndoing \/ RolledBack \/ Recover
    \/ FailExecute \/ FailMove \/ FailFinish \/ FailUndo \/ FailMoveBack

Spec == Init /\ [][Next]_vars

-----------------------------------------------------------------------------
(* Properties.                                                             *)

Insertions ==
    UNION {Items(name) : name \in
        {"RestoreNodes", "CreateNodes", "RestoreFlows", "CreateFlows", "RestoreFlowSteps",
         "CreateFlowSteps", "RestoreIos", "CreateIos"}}
Deletions ==
    UNION {Items(name) : name \in {"DeleteNodes", "DeleteFlows", "DeleteFlowSteps", "DeleteIos"}}

\* What the original does not have, or has of the branch only: a merge recovered
\* from the log has left it there (a step kept, under its new index).
Own == row.created \cup (row.restored \ was.objs)

\* Nodes that may come to lie below nodes of the branch's own: these, those
\* below, and those that the branch has moved to or from there, or lists there
\* with their title.
Holds(S) ==
    /\ Own \cap Nodes \subseteq S
    /\ \A n \in Nodes : was.above[n] \cap S # {} => n \in S
    /\ \A entry \in ReorderedNodes(row) : {entry.parent, entry.old} \cap S # {} => entry.id \in S
    /\ \A n \in row.title \cap Nodes : src.above[n] \cap S # {} => n \in S
Astray ==
    LET holding == {S \in SUBSET Nodes : Holds(S)} IN {n \in Nodes : \A S \in holding : n \in S}

\* The branch's own nodes are removed again with all that is below them then.
Undoing == mode \in {"undo", "dead", "failed", "recovered"}
Taken == Deletions \cup Own \cup IF Undoing THEN Astray ELSE {}

\* What goes with the objects of S.
Along(S) ==
    Inside(was, S \cup Below(was, S \cap Nodes)) \cup StepsIn(was, S \cap Flows)
Outputs(s) == Of(was.outputs, s) \cup Of(src.outputs, s)

\* Of steps whose nodes change, the outputs at other nodes go.
Unlisted ==
    UNION {{i \in Outputs(s) : <<s, At[i]>> \notin was.nodes \ row.nodes.deleted} :
               s \in GainingNodes \cup LosingNodes}
Doomed ==
    LET along == Along(Taken) IN along \cup Unlisted \cup UNION {Outputs(s) : s \in along \cap Steps}
Left == was.objs \ Doomed

Modes == {"open", "run", "undo", "dead", "failed", "recovered", "merged"}

TypeOK ==
    /\ {orig, mine, was, src} \subseteq Tables
    /\ row \in RowSet
    /\ mode \in Modes
    /\ step \in Start .. Finish
    /\ deltas \in [Deltas -> [steps : SUBSET Steps, pairs : SUBSET (Steps \X (Nodes \cup Ios))]]
    /\ fromLog \in BOOLEAN

\* However a merge goes, in the middle of it, after errors and crashes in steps
\* and in undos: what the branch does not delete is there, and has its title,
\* its text and its nodes, or those of the branch if that changed them, the
\* title of an IO being that of all with its main_id; and nothing comes but what
\* the branch has created or restored.  The one exception are nodes that the
\* branch has moved below its own, or lists there with their titles: if they are
\* not moved back, which is no error of the undo, they are deleted with them.
Untouched ==
    LET left == Left IN
    mode # "open" =>
        /\ left \subseteq orig.objs
        /\ orig.objs \subseteq was.objs \cup Insertions
        /\ \A x \in Titled \cap left :
               \/ orig.title[x] = was.title[x]
               \/ \E y \in row.title \cap Alike(x) : orig.title[x] \in {was.title[y], src.title[y]}
        /\ \A x \in left :
               /\ was.text[x] \subseteq orig.text[x]
               /\ orig.text[x] \subseteq
                      was.text[x] \cup IF x \in row.description THEN src.text[x] ELSE {}
        /\ \A s \in Steps \cap left :
               /\ Of(was.nodes, s) \ Of(orig.nodes, s) \subseteq Of(row.nodes.deleted, s)
               /\ Of(orig.nodes, s) \ Of(was.nodes, s) \subseteq Of(src.nodes, s)

\* Types, and what a merge never touches.
MergeInv == TypeOK /\ Untouched

\* The inputs of a step that the branch takes no nodes from.
InputsMerged(s) ==
    Of(orig.inputs, s) \ row.deleted =
        ((Of(was.inputs, s) \cup Of(src.inputs, s))
            \ (Of(row.inputs.deleted, s) \ Of(row.inputs.created, s))) \ row.deleted

\* p is not below n, whichever of its nodes are where they were and whichever
\* where the branch has them.  A node keeps its last move only, so a move that an
\* earlier one had made room for may be refused when they are merged.
NeverBelow(p, n) ==
    \E S \in SUBSET (Nodes \ {n}) :
        p \in S /\ \A m \in S : {was.parent[m], src.parent[m]} \cap Nodes \subseteq S

\* After a merge without error the original is what the branch was: all that
\* the branch created or restored is there, unless below a deleted node; of what
\* it deleted there are main IOs only; titles, texts, and the nodes and inputs
\* of steps are those of the branch, with what others have added; and nodes are
\* where the branch has moved them, unless a move has failed or could be refused,
\* which is passed over.  A main IO that lost its step has lost its text with it
\* (Io::after_delete).
MergedRight ==
    LET shown == Seen(src, was)
        gone == Inside(shown, Below(shown, DeletedNodes(row, was.objs))) IN
    mode = "merged" =>
        /\ Insertions \ gone \subseteq orig.objs
        /\ row.deleted \cap orig.objs \subseteq orig.loose
        /\ \A x \in Retitled(Nodes \cup Ios) \cap orig.objs :
               \E y \in Retitled(Nodes \cup Ios) \cap Alike(x) : orig.title[x] = src.title[y]
        /\ \A x \in (row.description \cap orig.objs) \ (orig.loose \cup (Doomed \cap was.objs)) :
               orig.text[x] = was.text[x] \cup src.text[x]
        /\ \A s \in OriginalSteps(row, row.nodes.steps, was.objs) \cap orig.objs :
               Of(orig.nodes, s) =
                   (Of(was.nodes, s) \cup Of(src.nodes, s)) \ Of(row.nodes.deleted, s)
        /\ \A s \in OriginalSteps(row, row.inputs.steps, was.objs) \cap orig.objs :
               Of(row.nodes.deleted, s) = {} => InputsMerged(s)
        /\ \A entry \in ReorderedNodes(row) :
               /\ {entry.id, entry.parent} \subseteq orig.objs
               /\ spent.faults = 0
               /\ NeverBelow(entry.parent, entry.id)
               => orig.parent[entry.id] = entry.parent

\* What the branch has at or below the nodes it has moved.  An undo moves these
\* back first, and so takes what is new there away from below the new nodes it
\* removes: it does not remove what was below others of the list (remove_nodes).
MovedBack == Below(src, {entry.id : entry \in ReorderedNodes(row)})

\* After a merge that was undone by the process that ran it, nothing the branch
\* created or restored is left but main IOs without a step.  A node that the
\* branch has moved is back, unless moving it back has failed; of several moves
\* nothing is said, since they are undone in the order they were made
\* (undo_reorder_nodes), nor of one from where the original has no longer had the
\* node, nor of a node with a new title: with it the branch's parent is written
\* (UpdateTitleNode), and the undo does not take that back.
Undone ==
    mode = "recovered" /\ ~fromLog =>
        /\ orig.objs \ was.objs \subseteq orig.loose \cup MovedBack
        /\ /\ Cardinality(ReorderedNodes(row)) <= 1
           /\ \A entry \in ReorderedNodes(row) :
                  entry.id \in Left => entry.old = was.parent[entry.id]
           /\ spent.faults <= 1
           => \A n \in (Nodes \cap Left) \ row.title : orig.parent[n] = was.parent[n]

\* The nodes of s when the branch has given it its own, and taken from it those
\* it lists.
NodesMerged(s) ==
    (Of(was.nodes, s) \cup IF s \in GainingNodes THEN Of(src.nodes, s) ELSE {})
        \ IF s \in LosingNodes THEN Of(row.nodes.deleted, s) ELSE {}

\* A merge changes the data of what it leaves all or not at all: at its end
\* titles, texts and nodes are those of the branch where that has changed them
\* and what they were elsewhere; and when an error in any step was undone by the
\* process that ran the merge, they are what they were.  (A text that was empty
\* may stay; of IOs with one main_id the title of one that the branch lists is
\* put back for all; and the step whose update failed after it was written keeps
\* the branch's nodes.)
AllOrNothing ==
    /\ mode = "merged" =>
           /\ \A x \in Titled \cap Left :
                  LET new == Retitled(Nodes \cup Ios) \cap Alike(x) IN
                  IF new = {} THEN orig.title[x] = was.title[x]
                  ELSE \E y \in new : orig.title[x] = src.title[y]
           /\ \A x \in Left :
                  orig.text[x] = was.text[x] \cup IF x \in row.description THEN src.text[x] ELSE {}
           /\ \A s \in Steps \cap Left : Of(orig.nodes, s) = NodesMerged(s)
    /\ mode = "recovered" /\ ~fromLog =>
           /\ \A x \in Titled \cap Left :
                  \E y \in {x} \cup (WithTitle(Ios) \cap Alike(x)) : orig.title[x] = was.title[y]
           /\ \A x \in Left : was.text[x] # {} => orig.text[x] = was.text[x]
           /\ \E lost \in Steps \cup {None} : \A s \in (Steps \cap Left) \ {lost} :
                  Of(orig.nodes, s) = Of(was.nodes, s)

\* The description that is deleted with a node is there again when the merge is
\* undone.
DeletedDataRecovered ==
    mode = "recovered" /\ ~fromLog =>
        \A n \in DeletedNodes(row, was.objs) : orig.text[n] = was.text[n]
=============================================================================
