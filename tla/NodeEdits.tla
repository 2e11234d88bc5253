------------------------------ MODULE NodeEdits ------------------------------
(***************************************************************************)
(* Creation, renaming and deletion of nodes in an original tree            *)
(* (models/node.rs, node/create.rs, node/update_title.rs, node/delete.rs). *)
(* They take the action keys of ResourceLocker, which keep reorders and    *)
(* merges out and not each other: all interleave, call by call, and the    *)
(* place of a node in the tree does not change meanwhile.                  *)
(*                                                                         *)
(* NodeDelete archives and deletes a subtree in sixteen logged steps, each *)
(* with its undo.  Creation and renaming have neither log nor undo.        *)
(***************************************************************************)
EXTENDS Integers, FiniteSets, Sequences

CONSTANTS
    Nodes,
    Root,
    Nobody,         \* the parent of the root
    Parent,         \* the parent of every node, also of those to be created
    Requests,       \* requests served at the same time
    Plans,          \* what they may ask for: set of [Requests -> request]
    Racing,         \* may a deletion meet other work in its subtree?
    MaxFaults       \* bound: database errors and crashes

VARIABLES
    live,       \* the rows of each table, by the node they belong to
    archived,   \* the archive tables
    title,      \* the title in table nodes
    rows,       \* table node_descendants
    request,    \* what each request asks for
    mode, step, \* where it is
    data,       \* what it has read: the NodeDelete of a deletion
    broken,     \* history: nodes whose creation or renaming broke off
    faults

vars == <<live, archived, title, rows, request, mode, step, data, broken, faults>>
stores == <<live, archived, title, rows>>

\* The tables in the order in which they are archived and deleted.
Archives == <<"nodes", "workflows", "flows", "flow_steps", "ios", "descriptions">>
Tables == {Archives[k] : k \in 1..6}

DeleteNodes == 7
DeleteDescendants == 8
DeleteLikes == 14          \* from here on there is no way back, and none
DeleteElasticData == 16    \* is needed: "not critical for delete/merge"
Finish == 17
ArchiveSteps == 1..6
Steps == 1..DeleteElasticData

\* The table a step is about.
TableOf(k) ==
    CASE k \in ArchiveSteps -> Archives[k]
      [] k = DeleteNodes -> "nodes"
      [] OTHER -> Archives[k - 7]

\* The nodes above a node, which is what its ancestor_ids hold.
Above ==
    LET up[i \in 0..Cardinality(Nodes)] ==
          IF i = 0 THEN [n \in Nodes |-> {Parent[n]} \ {Nobody}]
          ELSE [n \in Nodes |->
                  up[i - 1][n] \cup ({Parent[m] : m \in up[i - 1][n]} \ {Nobody})]
    IN up[Cardinality(Nodes)]
Ancestors(n) == Above[n]
Subtree(n) == {n} \cup {m \in Nodes : n \in Ancestors(m)}

Row(a, n, t) == [node |-> a, id |-> n, title |-> t]
RowSet == [node : Nodes, id : Nodes, title : {"old", "new"}]
RowsOf(n, t) == {Row(a, n, t) : a \in Ancestors(n)}
SameKey(row, other) == row.node = other.node /\ row.id = other.id
Without(S) == {row \in rows : \A other \in S : ~SameKey(row, other)}

Asked == [kind : {"create", "title", "delete"}, node : Nodes]

\* The nodes are a tree.
IsTree ==
    /\ IsFiniteSet(Nodes) /\ Root \in Nodes /\ Nobody \notin Nodes
    /\ Parent \in [Nodes -> Nodes \cup {Nobody}]
    /\ Above \in [Nodes -> SUBSET Nodes]
    /\ Ancestors(Root) = {}
    /\ \A n \in Nodes : n \notin Ancestors(n) /\ (n # Root => Root \in Ancestors(n))
    /\ \A n \in Nodes \ {Root} :
         Parent[n] \in Nodes /\ Ancestors(n) = {Parent[n]} \cup Ancestors(Parent[n])

Creates(plan, n) == \E r \in Requests : plan[r] = [kind |-> "create", node |-> n]

\* A new node has an id of its own (Uuid::new_v4), and what exists is a tree.
IsPlan(plan) ==
    /\ plan \in [Requests -> Asked]
    /\ \A r, q \in Requests :
         r # q /\ plan[r].kind = "create" /\ plan[q].kind = "create" => plan[r].node # plan[q].node
    /\ \A n \in Nodes : \A a \in Ancestors(n) : Creates(plan, a) => Creates(plan, n)

ASSUME NodeEditsAssumption ==
    /\ IsTree
    /\ \A plan \in Plans : IsPlan(plan)
    /\ Racing \in BOOLEAN
    /\ MaxFaults \in Nat

TypeOK ==
    /\ live \in [Tables -> SUBSET Nodes]
    /\ archived \in [Tables -> SUBSET Nodes]
    /\ title \in [Nodes -> {"old", "new"}]
    /\ rows \subseteq RowSet
    /\ request \in [Requests -> Asked]
    /\ mode \in [Requests -> {"idle", "done",
                              "workflow", "append", "insert",
                              "rename_rows", "rename_node",
                              "ids", "nodes", "rows", "content",
                              "forward", "backward", "dead", "self"}]
    /\ step \in [Requests -> 0..Finish]
    /\ data \in [Requests -> [ids : SUBSET Nodes, rows : SUBSET RowSet,
                              titles : [Nodes -> {"old", "new"}],
                              found : [Tables -> SUBSET Nodes]]]
    /\ broken \subseteq Nodes
    /\ faults \in 0..MaxFaults

\* The nodes that some request is to create do not exist yet.
Init ==
    /\ request \in Plans
    /\ LET existing == Nodes \ {request[r].node : r \in
                                  {q \in Requests : request[q].kind = "create"}}
       IN /\ live = [t \in Tables |-> existing]
          /\ rows = UNION {RowsOf(n, "old") : n \in existing}
    /\ archived = [t \in Tables |-> {}]
    /\ title = [n \in Nodes |-> "old"]
    /\ mode = [r \in Requests |-> "idle"]
    /\ step = [r \in Requests |-> 0]
    /\ data = [r \in Requests |->
                 [ids |-> {}, rows |-> {}, titles |-> title, found |-> [t \in Tables |-> {}]]]
    /\ broken = {}
    /\ faults = 0

-----------------------------------------------------------------------------
(* Helpers *)

Busy(r) == mode[r] \notin {"idle", "done"}

\* The nodes a request reads or writes.
Reach(r) ==
    CASE request[r].kind = "delete" -> Subtree(request[r].node)
      [] request[r].kind = "create" -> {request[r].node, Parent[request[r].node]}
      [] OTHER -> {request[r].node}

\* The two never get in each other's way: neither deletes what the other is
\* about, and they do not rename one node.
Apart(r, q) ==
    "delete" \in {request[r].kind, request[q].kind} \/ request[r] = request[q]
        => Reach(r) \cap Reach(q) = {}

GoTo(r, m) == mode' = [mode EXCEPT ![r] = m]
At(r, m, k) == GoTo(r, m) /\ step' = [step EXCEPT ![r] = k]

\* The first call of each kind of request.
First(kind) ==
    CASE kind = "create" -> "workflow"
      [] kind = "title" -> "rename_rows"
      [] kind = "delete" -> "ids"

\* What must exist: the parent of a node to be created, else the node.
Needed(r) ==
    IF request[r].kind = "create" THEN Parent[request[r].node] ELSE request[r].node

Arrive(r) ==
    /\ mode[r] = "idle"
    /\ Racing \/ \A q \in Requests : Busy(q) => Apart(r, q)
    /\ GoTo(r, IF Needed(r) \in live["nodes"] THEN First(request[r].kind) ELSE "done")
    /\ UNCHANGED <<stores, request, step, data, broken, faults>>

-----------------------------------------------------------------------------
(* Node::before_insert and the insert: workflow, rows, node *)

InsertFirst(m) ==
    CASE m = "workflow" -> "insert"
      [] m = "insert" -> "append"
      [] m = "append" -> "done"

NextPart(m) ==
    CASE m = "workflow" -> "append"
      [] m = "append" -> "insert"
      [] m = "insert" -> "done"

CreatePart(r) ==
    LET n == request[r].node IN
    CASE mode[r] = "workflow" ->
           /\ live' = [live EXCEPT !["workflows"] = @ \cup {n}]
           /\ UNCHANGED <<title, rows>>
      [] mode[r] = "append" ->
           /\ rows' = Without(RowsOf(n, "old")) \cup RowsOf(n, "old")
           /\ UNCHANGED <<live, title>>
      [] mode[r] = "insert" ->
           /\ live' = [live EXCEPT !["nodes"] = @ \cup {n}]
           /\ title' = [title EXCEPT ![n] = "old"]
           /\ UNCHANGED rows

Create(r) ==
    /\ mode[r] \in {"workflow", "append", "insert"}
    /\ CreatePart(r)
    /\ GoTo(r, NextPart(mode[r]))
    /\ UNCHANGED <<archived, request, step, data, broken, faults>>

-----------------------------------------------------------------------------
(* UpdateTitleNode: the rows at all ancestors, then the node; both are      *)
(* upserts.                                                                 *)

RenameRows(r) ==
    LET new == RowsOf(request[r].node, "new") IN
    /\ mode[r] = "rename_rows"
    /\ rows' = Without(new) \cup new
    /\ GoTo(r, "rename_node")
    /\ UNCHANGED <<live, archived, title, request, step, data, broken, faults>>

SetTitle(n) ==
    /\ live' = [live EXCEPT !["nodes"] = @ \cup {n}]
    /\ title' = [title EXCEPT ![n] = "new"]

RenameNode(r) ==
    /\ mode[r] = "rename_node"
    /\ SetTitle(request[r].node)
    /\ GoTo(r, "done")
    /\ UNCHANGED <<archived, rows, request, step, data, broken, faults>>

-----------------------------------------------------------------------------
(* NodeDelete::new: what is to be deleted is read table after table *)

FindIds(r) ==
    LET n == request[r].node IN
    /\ mode[r] = "ids"
    /\ data' = [data EXCEPT ![r].ids = {n} \cup {row.id : row \in {s \in rows : s.node = n}}]
    /\ GoTo(r, "nodes")
    /\ UNCHANGED <<stores, request, step, broken, faults>>

FindNodes(r) ==
    /\ mode[r] = "nodes"
    /\ data' = [data EXCEPT ![r].titles = title,
                            ![r].found["nodes"] = data[r].ids \cap live["nodes"]]
    /\ GoTo(r, "rows")
    /\ UNCHANGED <<stores, request, step, broken, faults>>

\* deleted_descendants: at the ancestors only the rows of what is deleted.
RowsBelowOnly(n, ids) == {row \in rows : row.node \in ids}
RowsToDelete(n, ids) == {row \in rows : row.node \in ids \cup Ancestors(n) /\ row.id \in ids}

FindRows(r) ==
    /\ mode[r] = "rows"
    /\ data' = [data EXCEPT ![r].rows = RowsToDelete(request[r].node, data[r].ids)]
    /\ GoTo(r, "content")
    /\ UNCHANGED <<stores, request, step, broken, faults>>

\* Descriptions are looked up for the nodes that were found, the rest by id.
Found(d, t) ==
    CASE t = "nodes" -> d.found[t]
      [] t = "descriptions" -> d.found["nodes"] \cap live[t]
      [] OTHER -> d.ids \cap live[t]

\* With this the deletion starts, and its log is created.
FindContent(r) ==
    /\ mode[r] = "content"
    /\ data' = [data EXCEPT ![r].found = [t \in Tables |-> Found(data[r], t)]]
    /\ At(r, "forward", 1)
    /\ UNCHANGED <<stores, request, broken, faults>>

-----------------------------------------------------------------------------
(* The steps and their undos, for the items T of the step *)

Items(d, k) ==
    CASE k = DeleteDescendants -> d.rows
      [] k >= DeleteLikes -> {}
      [] OTHER -> d.found[TableOf(k)]

Carry(d, k, T) ==
    IF k = DeleteDescendants
      THEN rows' = Without(T) /\ UNCHANGED <<live, archived, title>>
    ELSE IF k >= DeleteLikes
      THEN UNCHANGED stores
    ELSE IF k \in ArchiveSteps
      THEN archived' = [archived EXCEPT ![TableOf(k)] = @ \cup T] /\ UNCHANGED <<live, title, rows>>
      ELSE live' = [live EXCEPT ![TableOf(k)] = @ \ T] /\ UNCHANGED <<archived, title, rows>>

CarryBack(d, k, T) ==
    CASE k = DeleteDescendants ->
           rows' = Without(T) \cup T /\ UNCHANGED <<live, archived, title>>
      [] k \in ArchiveSteps ->
           /\ archived' = [archived EXCEPT ![TableOf(k)] = @ \ T]
           /\ UNCHANGED <<live, title, rows>>
      [] k >= DeleteLikes -> UNCHANGED stores
      [] OTHER ->
           /\ live' = [live EXCEPT ![TableOf(k)] = @ \cup T]
           /\ title' = [n \in Nodes |-> IF k = DeleteNodes /\ n \in T THEN d.titles[n] ELSE title[n]]
           /\ UNCHANGED <<archived, rows>>

Execute(r) ==
    /\ mode[r] = "forward"
    /\ step[r] \in Steps
    /\ Carry(data[r], step[r], Items(data[r], step[r]))
    /\ At(r, "forward", step[r] + 1)
    /\ UNCHANGED <<request, data, broken, faults>>

\* Finish deletes the log; then comes the delete statement of delete_cb itself.
Finished(r) ==
    /\ mode[r] = "forward"
    /\ step[r] = Finish
    /\ At(r, "self", 0)
    /\ UNCHANGED <<stores, request, data, broken, faults>>

DeleteSelf(r) ==
    /\ mode[r] = "self"
    /\ live' = [live EXCEPT !["nodes"] = @ \ {request[r].node}]
    /\ GoTo(r, "done")
    /\ UNCHANGED <<archived, title, rows, request, step, data, broken, faults>>

UndoBelowStart(r) ==
    /\ mode[r] = "backward"
    /\ IF step[r] \in Steps
         THEN CarryBack(data[r], step[r], Items(data[r], step[r]))
         ELSE UNCHANGED stores
    /\ At(r, "backward", step[r] - 1)
    /\ UNCHANGED <<request, data, broken, faults>>

Undo(r) ==
    /\ mode[r] = "backward"
    /\ step[r] \in Steps
    /\ CarryBack(data[r], step[r], Items(data[r], step[r]))
    /\ At(r, "backward", step[r] - 1)
    /\ UNCHANGED <<request, data, broken, faults>>

RolledBack(r) ==
    /\ mode[r] = "backward"
    /\ step[r] = 0
    /\ GoTo(r, "done")
    /\ UNCHANGED <<stores, request, step, data, broken, faults>>

\* recover_from_log, from the logged step.
Recover(r) ==
    /\ mode[r] = "dead"
    /\ GoTo(r, "backward")
    /\ UNCHANGED <<stores, request, step, data, broken, faults>>

-----------------------------------------------------------------------------
(* Errors and crashes *)

Fault == faults < MaxFaults /\ faults' = faults + 1

\* The creation stops at one of its calls, which may have taken effect; the
\* rows at the ancestors are one logged batch.
FailCreate(r) ==
    /\ Fault
    /\ mode[r] \in {"workflow", "append", "insert"}
    /\ UNCHANGED <<live, title, rows>> \/ CreatePart(r)
    /\ GoTo(r, "done")
    /\ broken' = broken \cup {request[r].node}
    /\ UNCHANGED <<archived, request, step, data>>

\* An error with the rows is logged and the node renamed all the same; after a
\* crash it is not.
FailRenameRows(r) ==
    /\ Fault
    /\ mode[r] = "rename_rows"
    /\ \E new \in SUBSET RowsOf(request[r].node, "new") : rows' = Without(new) \cup new
    /\ \E m \in {"rename_node", "done"} : GoTo(r, m)
    /\ broken' = broken \cup {request[r].node}
    /\ UNCHANGED <<live, archived, title, request, step, data>>

FailRenameNode(r) ==
    /\ Fault
    /\ mode[r] = "rename_node"
    /\ UNCHANGED <<live, title>> \/ SetTitle(request[r].node)
    /\ GoTo(r, "done")
    /\ broken' = broken \cup {request[r].node}
    /\ UNCHANGED <<archived, rows, request, step, data>>

\* While it is only reading, a deletion leaves nothing behind; nor after its
\* last step.
FailFind(r) ==
    /\ Fault
    /\ mode[r] \in {"ids", "nodes", "rows", "content", "self"}
    /\ GoTo(r, "done")
    /\ UNCHANGED <<stores, request, step, data, broken>>

\* A step fails or is cut off with part of its statements carried out; the
\* error turns the deletion round, the crash leaves it to the log.
FailUnlogged(r) ==
    /\ Fault
    /\ mode[r] = "forward"
    /\ step[r] \in Steps
    /\ \E T \in SUBSET Items(data[r], step[r]) : Carry(data[r], step[r], T)
    /\ At(r, "dead", step[r] - 1)
    /\ UNCHANGED <<request, data, broken>>

FailExecute(r) ==
    /\ Fault
    /\ mode[r] = "forward"
    /\ step[r] \in Steps
    /\ \E T \in SUBSET Items(data[r], step[r]) : Carry(data[r], step[r], T)
    /\ \E m \in {"backward", "dead"} : GoTo(r, m)
    /\ UNCHANGED <<request, step, data, broken>>

FailUndo(r) ==
    /\ Fault
    /\ mode[r] = "backward"
    /\ step[r] \in Steps
    /\ \E T \in SUBSET Items(data[r], step[r]) : CarryBack(data[r], step[r], T)
    /\ GoTo(r, "dead")
    /\ UNCHANGED <<request, step, data, broken>>

\* The log cannot be deleted at Finish: the whole deletion is undone.
FailFinish(r) ==
    /\ Fault
    /\ mode[r] = "forward"
    /\ step[r] = Finish
    /\ At(r, "backward", DeleteElasticData)
    /\ UNCHANGED <<stores, request, data, broken>>

-----------------------------------------------------------------------------
Serve(r) ==
    \/ Arrive(r)
    \/ Create(r)
    \/ RenameRows(r) \/ RenameNode(r)
    \/ FindIds(r) \/ FindNodes(r) \/ FindRows(r) \/ FindContent(r)
    \/ Execute(r) \/ Finished(r) \/ DeleteSelf(r)
    \/ Undo(r) \/ RolledBack(r) \/ Recover(r)

Fail(r) ==
    \/ FailCreate(r)
    \/ FailRenameRows(r) \/ FailRenameNode(r)
    \/ FailFind(r) \/ FailExecute(r) \/ FailUndo(r) \/ FailFinish(r)

Next == \E r \in Requests : Serve(r) \/ Fail(r)

Spec == Init /\ [][Next]_vars

-----------------------------------------------------------------------------
(* Properties *)

\* At all times, in the middle of any operation and after any failure, a node
\* that exists is listed at each of its ancestors: the tree view can reach it
\* and a later deletion of an ancestor will find it.  (The order of
\* before_insert and insert, and of steps 7 and 8 and their undos.)
Listed ==
    \A n \in live["nodes"] : \A a \in Ancestors(n) :
        \E row \in rows : row.node = a /\ row.id = n

\* No step of any operation, no failure and no crash takes a row out of its
\* table and its archive both: what has ever been there is in one of the two
\* (steps 1 to 6 before 7 to 13, and the undos the other way).
NothingLost ==
    [][\A t \in Tables :
         live[t] \cup archived[t] \subseteq (live[t] \cup archived[t])']_vars

\* A deletion that has been undone has put back every row it took, with the
\* title it had, and has nothing in the archives (NodeDelete::recover).
UndoRestores ==
    [][\A r \in Requests :
         mode[r] = "backward" /\ mode'[r] = "done" =>
            LET d == data[r] IN
            /\ \A t \in Tables :
                 d.found[t] \subseteq live[t] /\ d.found[t] \cap archived[t] = {}
            /\ \A n \in d.found["nodes"] : title[n] = d.titles[n]
            /\ d.rows \subseteq rows]_vars

\* When nobody is at work, the rows at the ancestors are those the nodes call
\* for, with their titles, and nothing is left of nodes that are gone, but for
\* the nodes whose creation or renaming broke off.
Agree ==
    (\A r \in Requests : ~Busy(r)) =>
        LET whole == live["nodes"] \ broken IN
        /\ {row \in rows : row.id \notin broken} = UNION {RowsOf(n, title[n]) : n \in whole}
        /\ \A t \in Tables : live[t] \ broken \subseteq whole

-----------------------------------------------------------------------------
(* The inductive invariant *)

Node(r) == request[r].node
Below(r) == Subtree(Node(r))
Has(R, a, n) == \E row \in R : row.node = a /\ row.id = n
Reading(r) == mode[r] \in {"ids", "nodes", "rows", "content"}
Stepping(r) == mode[r] \in {"forward", "backward", "dead"}

\* Deletions meet no other work in their subtrees.
KeptApart == \A r, q \in Requests : r # q /\ Busy(r) /\ Busy(q) => Apart(r, q)

\* Rows lie above what they list.
RowsSound == \A row \in rows : row.node \in Ancestors(row.id)

\* A request is where its kind can be.
ModeFits(r) ==
    /\ mode[r] \in {"workflow", "append", "insert"} => request[r].kind = "create"
    /\ mode[r] \in {"rename_rows", "rename_node"} => request[r].kind = "title"
    /\ Reading(r) \/ Stepping(r) \/ mode[r] = "self" => request[r].kind = "delete"
    /\ mode[r] = "forward" => step[r] \in 1..Finish
    /\ mode[r] = "backward" => step[r] \in 0..DeleteElasticData
    /\ mode[r] = "dead" => step[r] \in Steps

\* A creation has written its rows before the node; a renaming finds its node.
WriteSound(r) ==
    /\ mode[r] = "insert" => \A a \in Ancestors(Node(r)) : Has(rows, a, Node(r))
    /\ mode[r] \in {"rename_rows", "rename_node"} => Node(r) \in live["nodes"]

\* A deletion reads what is below its node, and misses no node.
ReadSound(r) ==
    LET d == data[r] IN
    /\ Reading(r) => Node(r) \in live["nodes"]
    /\ mode[r] \in {"nodes", "rows", "content"} =>
         d.ids \subseteq Below(r) /\ live["nodes"] \cap Below(r) \subseteq d.ids
    /\ mode[r] \in {"rows", "content"} => d.found["nodes"] = live["nodes"] \cap Below(r)
    /\ mode[r] = "content" =>
         \A row \in d.rows : row.node \in Ancestors(row.id) /\ row.id \in Below(r)
    /\ mode[r] = "self" => Node(r) \in archived["nodes"]

DeleteSteps == {DeleteNodes} \cup 9..13

\* At each step of a deletion or its undo: what is below it is archived, what
\* is above it is not deleted yet or back again, and the rows follow the nodes.
StepSound(r) ==
    LET d == data[r]
        ahead(k) == step[r] < k \/ (step[r] = k /\ mode[r] = "forward")
    IN  Stepping(r) =>
          /\ Node(r) \in d.found["nodes"]
          /\ live["nodes"] \cap Below(r) \subseteq d.found["nodes"]
          /\ \A t \in Tables : d.found[t] \subseteq Below(r)
          /\ \A row \in d.rows : row.node \in Ancestors(row.id) /\ row.id \in Below(r)
          /\ \A k \in ArchiveSteps :
               k < step[r] => d.found[TableOf(k)] \subseteq archived[TableOf(k)]
          /\ \A k \in DeleteSteps :
               ahead(k) => d.found[TableOf(k)] \subseteq live[TableOf(k)]
          /\ \A n \in d.found["nodes"] : \A a \in Ancestors(n) :
               /\ Has(rows, a, n) \/ Has(d.rows, a, n)
               /\ step[r] <= DeleteNodes \/ ahead(DeleteDescendants) => Has(rows, a, n)
          /\ step[r] >= DeleteDescendants => live["nodes"] \cap Below(r) = {}

RequestsSound ==
    \A r \in Requests : ModeFits(r) /\ WriteSound(r) /\ ReadSound(r) /\ StepSound(r)

\* The invariant as a whole (NodeDelete::new, delete and recover).
EditsInv ==
    /\ TypeOK
    /\ KeptApart
    /\ RowsSound
    /\ RequestsSound
    /\ Listed
=============================================================================
