---------------------------- MODULE BranchChanges ----------------------------
(***************************************************************************)
(* Requests that update the change lists of one branch at the same time    *)
(* (Branch::update in models/branch/update.rs, the handlers of             *)
(* api/branch_api.rs and the callbacks of the objects).  Nothing keeps     *)
(* them apart.  An update writes, then reads the whole row; if it has to   *)
(* look for conflicts it writes the whole row back, over what others have  *)
(* pushed meanwhile.                                                       *)
(***************************************************************************)
EXTENDS BranchRow

CONSTANTS
    Requests,
    Ancestors,      \* ancestor_ids of the nodes
    NewObjects,     \* what the branch may create
    Deletable,      \* what others may delete in the original
    Calls,          \* what a request may ask for: sequences of updates
    MaxCalls,       \* bound: requests served
    MaxFaults       \* bound: database errors

VARIABLES
    row,        \* the branch
    original,   \* the objects of the original
    queue,      \* the updates each request still has to make, the current first
    mode,       \* where it is in the current one
    copy,       \* the row it has read and still needs
    fate,       \* history: what was last decided about each object
    overtaken,  \* history: objects decided on while another held a copy to write back
    calls, faults

vars == <<row, original, queue, mode, copy, fate, overtaken, calls, faults>>

\* Updates are records whose arm names the variant of BranchUpdate.
Pulling == {"DeleteNodes", "Delete"}
Undoing == {"UndoDeleteNodes", "UndoDelete", "UndoDeleteIo"}
Creating == {"CreateNode", "Create"}
Deciding == Pulling \cup Undoing \cup Creating \cup {"Restore"}

Updates ==
    [arm : {"CreateNode", "EditNode"}, id : Nodes]
    \cup [arm : {"DeleteNodes", "UndoDeleteNodes"}, ids : SUBSET Nodes]
    \cup [arm : {"Create", "Delete"}, id : Objects \ Nodes]
    \cup [arm : {"UndoDelete", "UndoDeleteIo"}, ids : SUBSET (Objects \ Nodes)]
    \cup [arm : {"Restore", "EditTitle", "EditDescription"}, id : Objects]
    \cup [arm : {"KeepFlowStep"}, id : Steps]
    \cup [arm : {"CreateInitialInput", "DeleteInitialInput", "UndoDeleteInitialInput"}, id : Ios]
    \cup [arm : {"ReorderNode"}, move : Moves]
    \cup [arm : {"CreateFlowStepNodes", "DeleteFlowStepNodes"}, step : Steps, ids : SUBSET Nodes]
    \cup [arm : {"CreateFlowStepInputs", "DeleteFlowStepInputs", "CreateFlowStepOutputs",
                 "DeletedFlowStepOutputs"}, step : Steps, ids : SUBSET Ios]
    \cup [arm : {"UndoDeleteOutput"}, step : Steps, id : Ios]

\* A call makes an update at least, and creates an object once at most.
ASSUME BranchChangesAssumption ==
    /\ Ancestors \in [Nodes -> SUBSET Nodes]
    /\ NewObjects \subseteq Objects /\ Deletable \subseteq Objects
    /\ MaxCalls \in Nat /\ MaxFaults \in Nat
    /\ Calls \subseteq Seq(Updates) \ {<< >>}
    /\ \A call \in Calls : \A j, k \in DOMAIN call :
           /\ call[j].arm \in Creating /\ call[k].arm \in Creating
           /\ call[j].id = call[k].id
           => j = k

Init ==
    /\ row = NewRow
    /\ original = Objects \ NewObjects
    /\ queue = [r \in Requests |-> << >>]
    /\ mode = [r \in Requests |-> "idle"]
    /\ copy = [r \in Requests |-> NewRow]
    /\ fate = [o \in Objects |-> "none"]
    /\ overtaken = {}
    /\ calls = 0
    /\ faults = 0

-----------------------------------------------------------------------------
(* What the updates do.                                                    *)

\* Those that read a column first, and that column.
Column(u) ==
    CASE u.arm = "ReorderNode" -> "reordered"
      [] u.arm \in {"CreateFlowStepInputs", "DeleteFlowStepInputs"} -> "inputs"
      [] u.arm \in {"CreateFlowStepOutputs", "DeletedFlowStepOutputs",
                    "UndoDeleteOutput"} -> "outputs"
      [] OTHER -> "none"

\* check_conflicts = true.  Of flows, the deletion does not check.
Checks(u) ==
    \/ u.arm \in {"DeleteNodes", "UndoDeleteNodes", "UndoDelete", "Restore",
                  "ReorderNode", "KeepFlowStep"}
    \/ u.arm = "Delete" /\ u.id \notin Flows

Updated(b, u) ==
    CASE u.arm = "CreateNode" -> CreateNode(b, u.id, Ancestors[u.id])
      [] u.arm = "DeleteNodes" -> DeleteNodes(b, u.ids)
      [] u.arm \in {"UndoDeleteNodes", "UndoDelete", "UndoDeleteIo"} -> UndoDelete(b, u.ids)
      [] u.arm = "Create" -> Create(b, u.id)
      [] u.arm = "Delete" -> Delete(b, u.id)
      [] u.arm = "Restore" -> Restore(b, u.id)
      [] u.arm = "EditNode" -> EditNode(b, u.id)
      [] u.arm = "EditTitle" -> EditTitle(b, u.id)
      [] u.arm = "EditDescription" -> EditDescription(b, u.id)
      [] u.arm = "KeepFlowStep" -> KeepFlowStep(b, u.id)
      [] u.arm = "CreateInitialInput" -> CreateInitialInput(b, u.id)
      [] u.arm = "DeleteInitialInput" -> DeleteInitialInput(b, u.id)
      [] u.arm = "UndoDeleteInitialInput" -> UndoDeleteInitialInput(b, u.id)
      [] u.arm = "ReorderNode" -> ReorderNode(b, u.move)
      [] u.arm = "CreateFlowStepNodes" -> CreateFlowStepNodes(b, u.step, u.ids)
      [] u.arm = "DeleteFlowStepNodes" -> DeleteFlowStepNodes(b, u.step, u.ids)
      [] u.arm = "CreateFlowStepInputs" -> CreateFlowStepInputs(b, u.step, u.ids)
      [] u.arm = "DeleteFlowStepInputs" -> DeleteFlowStepInputs(b, u.step, u.ids)
      [] u.arm = "CreateFlowStepOutputs" -> CreateFlowStepOutputs(b, u.step, u.ids)
      [] u.arm = "DeletedFlowStepOutputs" -> DeletedFlowStepOutputs(b, u.step, u.ids)
      [] u.arm = "UndoDeleteOutput" -> UndoDeleteOutput(b, u.step, u.id)

Update(r) == Head(queue[r])
Elements(q) == {q[k] : k \in DOMAIN q}
SubjectsOf(u) ==
    IF u.arm \notin Deciding THEN {}
    ELSE IF u.arm \in {"DeleteNodes"} \cup Undoing THEN u.ids ELSE {u.id}

\* What an update decides about an object.
FateOf(u, before) ==
    CASE u.arm \in Pulling -> "deleted"
      [] u.arm = "Restore" -> "restored"
      [] u.arm \in Creating -> "created"
      [] OTHER -> IF before = "deleted" THEN "undone" ELSE before

\* The call of a request is over, or goes on to its next update.
Done(r) ==
    /\ queue' = [queue EXCEPT ![r] = Tail(@)]
    /\ mode' = [mode EXCEPT ![r] = IF Len(queue[r]) = 1 THEN "idle" ELSE "update"]
    /\ copy' = [copy EXCEPT ![r] = NewRow]

-----------------------------------------------------------------------------

\* A created object has an id of its own, which nobody knows before.
Known(o) == o \notin NewObjects \/ fate[o] # "none"
BeingCreated ==
    {u.id : u \in {v \in UNION {Elements(queue[q]) : q \in Requests} : v.arm \in Creating}}

Arrive(r) ==
    /\ mode[r] = "idle"
    /\ calls < MaxCalls
    /\ \E call \in Calls :
          /\ \A u \in Elements(call) :
                IF u.arm \in Creating THEN ~Known(u.id) /\ u.id \notin BeingCreated
                ELSE \A o \in SubjectsOf(u) : Known(o)
          /\ queue' = [queue EXCEPT ![r] = call]
    /\ mode' = [mode EXCEPT ![r] = "update"]
    /\ calls' = calls + 1
    /\ UNCHANGED <<row, original, copy, fate, overtaken, faults>>

Read(r) ==
    /\ mode[r] = "update"
    /\ Column(Update(r)) # "none"
    /\ copy' = [copy EXCEPT ![r] = row]
    /\ mode' = [mode EXCEPT ![r] = "write"]
    /\ UNCHANGED <<row, original, queue, fate, overtaken, calls, faults>>

\* Those that read write one column, from the copy.
Write(r) ==
    LET u == Update(r)  S == SubjectsOf(u)  c == Column(u) IN
    /\ mode[r] \in {"update", "write"}
    /\ mode[r] = IF c = "none" THEN "update" ELSE "write"
    /\ row' = IF c = "none" THEN Updated(row, u)
              ELSE [row EXCEPT ![c] = Updated(copy[r], u)[c]]
    /\ fate' = [o \in Objects |-> IF o \in S THEN FateOf(u, fate[o]) ELSE fate[o]]
    /\ overtaken' = IF \E q \in Requests \ {r} : mode[q] = "check"
                    THEN overtaken \cup S ELSE overtaken
    /\ mode' = [mode EXCEPT ![r] = "reread"]
    /\ copy' = [copy EXCEPT ![r] = NewRow]
    /\ UNCHANGED <<original, queue, calls, faults>>

\* An error of the write is logged, and the request goes on.
FailWrite(r) ==
    /\ mode[r] \in {"update", "write"}
    /\ mode[r] = IF Column(Update(r)) = "none" THEN "update" ELSE "write"
    /\ faults < MaxFaults
    /\ faults' = faults + 1
    /\ mode' = [mode EXCEPT ![r] = "reread"]
    /\ copy' = [copy EXCEPT ![r] = NewRow]
    /\ UNCHANGED <<row, original, queue, fate, overtaken, calls>>

\* find_by_id of the whole row
Reread(r) ==
    /\ mode[r] = "reread"
    /\ IF Checks(Update(r))
       THEN /\ copy' = [copy EXCEPT ![r] = row]
            /\ mode' = [mode EXCEPT ![r] = "check"]
            /\ UNCHANGED queue
       ELSE Done(r)
    /\ UNCHANGED <<row, original, fate, overtaken, calls, faults>>

\* check_conflicts writes the whole row, whether there are conflicts or not.
WriteBack(r) ==
    /\ mode[r] = "check"
    /\ row' = [copy[r] EXCEPT !.conflict = Conflicts(copy[r], original, Ancestors)]
    /\ Done(r)
    /\ UNCHANGED <<original, fate, overtaken, calls, faults>>

\* An error of the check goes no further than the answer.
FailWriteBack(r) ==
    /\ mode[r] = "check"
    /\ faults < MaxFaults
    /\ faults' = faults + 1
    /\ Done(r)
    /\ UNCHANGED <<row, original, fate, overtaken, calls>>

\* Somebody deletes an object of the original.
DeleteOriginal(o) ==
    /\ original' = original \ {o}
    /\ original' # original
    /\ UNCHANGED <<row, queue, mode, copy, fate, overtaken, calls, faults>>

Next ==
    \/ \E r \in Requests :
        \/ Arrive(r) \/ Read(r) \/ Write(r) \/ FailWrite(r)
        \/ Reread(r) \/ WriteBack(r) \/ FailWriteBack(r)
    \/ \E o \in Deletable : DeleteOriginal(o)

Spec == Init /\ [][Next]_vars

-----------------------------------------------------------------------------

TypeOK ==
    /\ row \in RowSet
    /\ original \subseteq Objects
    /\ copy \in [Requests -> RowSet]
    /\ mode \in [Requests -> {"idle", "update", "write", "reread", "check"}]
    /\ fate \in [Objects -> {"none", "created", "deleted", "restored", "undone"}]
    /\ overtaken \subseteq Objects
    /\ calls \in 0..MaxCalls /\ faults \in 0..MaxFaults

\* Nothing is both deleted and restored, no flow, step or IO both deleted and
\* created, no input or output both added to a step and removed from it: a
\* merge would do the one and then the other (merge.rs:208-240).
Exclusive(b) ==
    /\ b.deleted \cap b.restored = {}
    /\ b.deleted \cap b.created \subseteq Nodes
    /\ b.inputs.created \cap b.inputs.deleted = {}
    /\ b.outputs.created \cap b.outputs.deleted = {}

\* A node is moved once at most.
MovedOnce(b) ==
    \A j, k \in DOMAIN b.reordered : b.reordered[j].id = b.reordered[k].id => j = k

\* The row is free of contradictions, whatever order the statements of the
\* requests take effect in, and so is every copy that will be written back.
Consistent ==
    /\ Exclusive(row) /\ MovedOnce(row)
    /\ \A r \in Requests : Exclusive(copy[r]) /\ MovedOnce(copy[r])

ChangesInv == TypeOK /\ Consistent

\* What was decided about an object last is what a merge will do to it, but
\* for objects decided on while another request held a copy of the row that
\* it was to write back (branch/update.rs:559-570).
FateListed ==
    \A o \in Objects \ overtaken :
        /\ o \in row.deleted <=> fate[o] = "deleted"
        /\ o \in row.restored <=> fate[o] = "restored"
        /\ fate[o] = "created" => o \in row.created
=============================================================================
