----------------------------- MODULE MCBranchChanges ------------------------
(***************************************************************************)
(* BranchChanges for TLC: node n2 below n1, flow f1 of n1 with step s1 and *)
(* its IO i1, and flow f2, which the branch is to create.  Each call is    *)
(* the sequence of updates that its handler and callbacks make.            *)
(***************************************************************************)
EXTENDS BranchChanges, TLC

CONSTANTS n1, n2, f1, f2, s1, i1, none, r1, r2

NodeOfAll == [o \in {f1, f2, s1, i1} |-> n1]
FlowOfAll == [o \in {s1, i1} |-> f1]
StepOfAll == [o \in {i1} |-> s1]
IndexOfAll == [o \in {s1} |-> 1]
AncestorsOf == [n \in {n1, n2} |-> IF n = n2 THEN {n1} ELSE {}]

EditNodeOf(o) == [arm |-> "EditNode", id |-> NodeOf[o]]
With(arm, o) == [arm |-> arm, id |-> o]
All(arm, S) == [arm |-> arm, ids |-> S]
In(arm, S) == [arm |-> arm, step |-> s1, ids |-> S]

NodeCalls ==
    {<<With("CreateNode", n2)>>, <<All("DeleteNodes", {n1, n2})>>,
     <<All("DeleteNodes", {n2})>>, <<All("UndoDeleteNodes", {n1})>>,
     <<With("Restore", n2)>>, <<With("EditTitle", n1)>>, <<With("EditDescription", n2)>>,
     <<[arm |-> "ReorderNode", move |-> [id |-> n2, parent |-> n1, old |-> n1]]>>}

FlowCalls ==
    {<<EditNodeOf(f2), With("Create", f2)>>, <<EditNodeOf(f2), With("Delete", f2)>>,
     <<All("UndoDelete", {f2})>>, <<With("Restore", f2)>>}

StepCalls ==
    {<<EditNodeOf(s1), With("Delete", s1)>>, <<With("Restore", s1)>>,
     <<With("KeepFlowStep", s1)>>,
     <<EditNodeOf(s1), In("CreateFlowStepNodes", {n2}), In("DeleteFlowStepNodes", {})>>,
     <<EditNodeOf(s1), In("CreateFlowStepInputs", {i1}), In("DeleteFlowStepInputs", {})>>,
     <<EditNodeOf(s1), In("CreateFlowStepInputs", {}), In("DeleteFlowStepInputs", {i1})>>}

IoCalls ==
    {<<EditNodeOf(i1), With("Delete", i1),
       EditNodeOf(s1), In("CreateFlowStepOutputs", {}), In("DeletedFlowStepOutputs", {i1})>>,
     <<EditNodeOf(s1), In("CreateFlowStepOutputs", {i1}), In("DeletedFlowStepOutputs", {})>>,
     <<All("UndoDeleteIo", {i1}), [arm |-> "UndoDeleteOutput", step |-> s1, id |-> i1]>>,
     <<With("DeleteInitialInput", i1)>>, <<With("CreateInitialInput", i1)>>,
     <<All("UndoDeleteIo", {i1}), With("UndoDeleteInitialInput", i1)>>}

Interchangeable == Permutations(Requests)

AllCalls == NodeCalls \cup FlowCalls \cup StepCalls \cup IoCalls
=============================================================================
