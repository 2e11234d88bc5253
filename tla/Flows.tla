------------------------------- MODULE Flows -------------------------------
(***************************************************************************)
(* The handlers of flows, flow steps and IOs in the original, call by call *)
(* (flow_api.rs, flow_step_api.rs, input_output_api.rs and the callbacks   *)
(* of the models).  Nothing but the creation and deletion of steps takes a *)
(* lock, and every handler writes back what it has read some calls before. *)
(* Contents has the same handlers as single steps; AsOne compares.         *)
(***************************************************************************)
EXTENDS Contents, SequencesExt

CONSTANTS
    Clients,
    Original,       \* the tables to begin with
    Asked(_),       \* requests that make sense, given the tables
    FirstNodes,     \* the node_ids that steps are created with
    MaxAsks, MaxFaults,
    Racing          \* requests for the same objects may run at once

\* Ids are uuids, a table has rows of finitely many, a step is in a flow, and no
\* two steps to begin with are in one place.
ASSUME FlowsAssumption ==
    /\ IsFiniteSet(Objects)
    /\ Nodes \cap (Flows \cup Steps \cup Ios) = {}
    /\ Flows \cap (Steps \cup Ios) = {} /\ Steps \cap Ios = {}
    /\ None \notin Clients
    /\ \A s \in Steps : FlowOf[s] \in Flows
    /\ IndexOf \in [Steps -> Nat]
    /\ FirstNodes \subseteq Steps \X Nodes
    /\ Original \in Tables
    /\ \A s, u \in Steps \cap Original.objs :
         FlowOf[s] = FlowOf[u] /\ IndexOf[s] = IndexOf[u] => s = u

\* To begin with, steps list the IOs that they have, IOs know who takes them,
\* and the initial inputs are the IOs without a step.
ASSUME OriginalAssumption ==
    LET ios == Ios \cap Original.objs IN
    /\ \A x \in Original.outputs \cup Original.inputs : x[1] \in Original.objs
    /\ Original.outputs = {<<StepOf[i], i>> : i \in Attached(Original, ios)}
    /\ \A x \in Original.inputs :
         x[2] \in ios /\ (NodeOf[x[1]] = NodeOf[x[2]] => x \in Original.inputted)
    /\ Original.initial = {i \in ios : StepOf[i] = None}

VARIABLES
    t,          \* the tables
    lock,       \* of flows: the client whose key is set
    ask,        \* of clients: what they have asked for
    todo,       \* of clients: the database calls left
    began,      \* of clients: the tables at the start
    alone,      \* of clients: no other request has run since
    broken,     \* requests that were broken off and not repeated since
    shared,     \* flows whose key two requests found free at once
    gone,       \* objects whose rows were deleted, and not inserted since
    spent

vars == <<t, lock, ask, todo, began, alone, broken, shared, gone, spent>>

Request(kind, on, with) == [kind |-> kind, on |-> on, with |-> with]
Nothing == Request("none", None, {})

\* The requests that there are.
RequestSet ==
    [kind : {"CreateFlow", "DeleteFlow"}, on : Flows, with : {{}}]
        \cup [kind : {"CreateStep", "DeleteStep"}, on : Steps, with : {{}}]
        \cup [kind : {"UpdateNodes"}, on : Steps, with : SUBSET Nodes]
        \cup [kind : {"UpdateInputs"}, on : Steps, with : SUBSET Ios]
        \cup [kind : {"CreateIo", "DeleteIo", "PurgeIo"}, on : Ios, with : {{}}]

Call(op, on, with) == [op |-> op, on |-> on, with |-> with]
ForEach(S, calls(_)) == FlattenSeq([k \in 1 .. Cardinality(S) |-> calls(SetToSeq(S)[k])])

Init ==
    /\ t = Original
    /\ lock = [f \in Flows |-> None]
    /\ ask = [p \in Clients |-> Nothing]
    /\ todo = [p \in Clients |-> << >>]
    /\ began = [p \in Clients |-> Empty]
    /\ alone = [p \in Clients |-> FALSE]
    /\ broken = {}
    /\ shared = {}
    /\ gone = {}
    /\ spent = [asks |-> 0, faults |-> 0]

-----------------------------------------------------------------------------
(* The calls of a request.                                                 *)

Program(r) ==
    CASE r.kind = "CreateFlow" -> <<Call("CountFlows", r.on, {})>>
      [] r.kind = "DeleteFlow" -> <<Call("ReadSteps", r.on, {}), Call("DropFlow", r.on, {})>>
      [] r.kind = "CreateStep" ->
             <<Call("FindFree", r.on, {}), Call("SetKey", r.on, {}), Call("FindIndex", r.on, {}),
               Call("Unlock", r.on, {})>>
      [] r.kind = "DeleteStep" ->
             <<Call("FindFree", r.on, {}), Call("SetKey", r.on, {}), Call("ReadStep", r.on, {}),
               Call("DropStep", r.on, {}), Call("Unlock", r.on, {})>>
      [] r.kind = "UpdateNodes" -> <<Call("ReadForNodes", r.on, r.with)>>
      [] r.kind = "UpdateInputs" -> <<Call("ReadInputs", r.on, r.with)>>
      [] r.kind = "CreateIo" ->
             <<Call("InsertIo", r.on, {}),
               IF StepOf[r.on] = None THEN Call("PushInitial", r.on, {})
               ELSE Call("ReadToPush", r.on, {})>>
      [] r.kind \in {"DeleteIo", "PurgeIo"} -> <<Call("ReadIo", r.on, {r.kind})>>

\* What a step's row holds, as it is read now.
Row(s) == {"nodes"} \X Of(t.nodes, s) \cup {"inputs"} \X Of(t.inputs, s)
              \cup {"outputs"} \X Of(t.outputs, s)
Column(row, name) == {cell[2] : cell \in {x \in row : x[1] = name}}

\* Without pull_from_flow_steps_inputs.
RemovalKeepsInputs(i, kind) ==
    <<Call("DropIo", i, {})>>
        \o IF kind # "PurgeIo" /\ i \in Attached(t, Mains)
           THEN <<Call("KeepMain", i, Of({<<p[2], p[1]>> : p \in t.inputted}, i))>> ELSE << >>

\* The main row is kept only for an IO that had a step when it was read.
Removal(i, kind) ==
    LET users == Of({<<p[2], p[1]>> : p \in t.inputted}, i) IN
    <<Call("ReadUsers", i, users), Call("DropIo", i, {})>>
        \o IF kind # "PurgeIo" /\ i \in Attached(t, Mains) THEN <<Call("KeepMain", i, users)>> ELSE << >>

DropOutputs(s) == ForEach(Of(t.outputs, s), LAMBDA i : <<Call("DropIo", i, {})>>)

\* Nodes may be given as null, which counts as no nodes.
LostOutputsUnlessNull(s, N) == IF N = {} THEN {} ELSE {i \in Of(t.outputs, s) : At[i] \notin N}
LostOutputs(s, N) == {i \in Of(t.outputs, s) : At[i] \notin N}

\* The steps that pull_from_flow_steps_inputs loads.
UsersAsListed(i, users) == {s \in users : NodeOf[s] = NodeOf[i]}
UsersFound(i, users) == {s \in users \cap t.objs : NodeOf[s] = NodeOf[i]}

\* The calls that a read leads to, with what it has read.
Further(c) ==
    CASE c.op = "CountFlows" ->
             <<Call("InsertFlow", c.on, 1 .. Cardinality(FlowsOf(t, NodeOf[c.on])))>>
      [] c.op = "ReadSteps" ->
             ForEach(StepsIn(t, {c.on}), LAMBDA s : DropOutputs(s) \o <<Call("DropStep", s, {})>>)
      [] c.op = "FindIndex" ->
             IF \E s \in Steps \cap t.objs : FlowOf[s] = FlowOf[c.on] /\ IndexOf[s] = IndexOf[c.on]
             THEN << >> ELSE <<Call("InsertStep", c.on, {})>>
      [] c.op = "ReadStep" -> DropOutputs(c.on)
      [] c.op = "ReadForNodes" ->
             <<Call("FindOutputs", c.on, LostOutputs(c.on, c.with)),
               Call("WriteNodes", c.on,
                    {x \in Row(c.on) : x[1] # "nodes" /\ At[x[2]] \in c.with}
                        \cup {"nodes"} \X c.with)>>
      [] c.op = "FindOutputs" -> ForEach(c.with \cap t.objs, LAMBDA i : Removal(i, "DeleteIo"))
      [] c.op = "ReadInputs" ->
             LET now == Of(t.inputs, c.on) IN
             <<Call("FindIos", c.on, {"added"} \X (c.with \ now) \cup {"removed"} \X (now \ c.with)),
               Call("WriteInputs", c.on, c.with)>>
      [] c.op = "FindIos" ->
             <<Call("WriteUsers", c.on, {x \in c.with : x[1] = "removed" \/ x[2] \in t.objs})>>
      [] c.op = "ReadToPush" ->
             <<Call("WriteOutputs", StepOf[c.on], Of(t.outputs, StepOf[c.on]) \cup {c.on})>>
      [] c.op = "ReadToPull" ->
             <<Call("WriteOutputs", StepOf[c.on], Of(t.outputs, StepOf[c.on]) \ {c.on})>>
      [] c.op = "ReadIo" ->
             (IF StepOf[c.on] = None THEN <<Call("PullInitial", c.on, {})>>
              ELSE IF c.on \in t.loose THEN << >> ELSE <<Call("ReadToPull", c.on, {})>>)
                 \o Removal(c.on, CHOOSE kind \in c.with : TRUE)
      [] c.op = "ReadUsers" ->
             ForEach(UsersFound(c.on, c.with),
                     LAMBDA s : <<Call("WriteRow", s, Row(s) \ {<<"inputs", c.on>>})>>)
      [] OTHER -> << >>

-----------------------------------------------------------------------------
(* What the calls write.  An UPDATE inserts the row that it does not find; *)
(* the index is part of a step's key.                                      *)

Upserted(u, S) ==
    [u EXCEPT !.objs = @ \cup S, !.index = Overriding(@, IndexOf, S),
              !.loose = @ \cup ((S \cap Ios) \ u.objs)]

WithRow(u, s, row) ==
    [Upserted(u, {s}) EXCEPT
        !.nodes = StepPairs(@, {s} \X Column(row, "nodes"), {s}),
        !.inputs = StepPairs(@, {s} \X Column(row, "inputs"), {s}),
        !.outputs = StepPairs(@, {s} \X Column(row, "outputs"), {s})]

WithUsers(u, s, changes) ==
    [Upserted(u, Column(changes, "added")) EXCEPT
        !.inputted = (@ \cup {s} \X Column(changes, "added")) \ ({s} \X Column(changes, "removed"))]

\* create_flow_step inserts the row as it is sent, its index and nodes with it.
\* Here a new step comes without IOs: those that are sent would be inserted as
\* well, and not told of it.
NewSteps == [Empty EXCEPT !.index = IndexOf, !.nodes = FirstNodes]

Result(c) ==
    CASE c.op = "InsertFlow" -> [InsertRows(t, Empty, {c.on}) EXCEPT !.place[c.on] = Cardinality(c.with)]
      [] c.op = "InsertStep" -> InsertRows(t, NewSteps, {c.on})
      [] c.op = "InsertIo" -> InsertRows(t, Empty, {c.on})
      [] c.op \in {"DropFlow", "DropStep", "DropIo"} -> DeleteRows(t, {c.on})
      [] c.op = "KeepMain" ->
             [InsertRows(t, [Empty EXCEPT !.inputted = c.with \X {c.on}], {c.on}) EXCEPT
                 !.loose = @ \cup {c.on}]
      [] c.op = "WriteNodes" \/ c.op = "WriteRow" -> WithRow(t, c.on, c.with)
      [] c.op = "WriteInputs" ->
             [Upserted(t, {c.on}) EXCEPT !.inputs = StepPairs(@, {c.on} \X c.with, {c.on})]
      [] c.op = "WriteOutputs" ->
             [Upserted(t, {c.on}) EXCEPT !.outputs = StepPairs(@, {c.on} \X c.with, {c.on})]
      [] c.op = "WriteUsers" -> WithUsers(t, c.on, c.with)
      [] c.op = "PushInitial" -> [t EXCEPT !.initial = @ \cup {c.on}]
      [] c.op = "PullInitial" -> [t EXCEPT !.initial = @ \ {c.on}]
      [] OTHER -> t

-----------------------------------------------------------------------------

Idle(p) == ask[p] = Nothing
Active == {p \in Clients : ~Idle(p)}

\* The objects that a request reads or writes.
UsersOf(u, S) == {x[1] : x \in {y \in u.inputted \cup u.inputs : y[2] \in S}}
Touched(r, u) ==
    {r.on} \cup r.with \cup
        CASE r.kind = "DeleteFlow" ->
                 {s \in Steps : FlowOf[s] = r.on}
                     \cup UNION {Of(u.outputs, s) : s \in StepsIn(u, {r.on})}
          [] r.kind = "DeleteStep" -> Of(u.outputs, r.on)
          [] r.kind = "UpdateNodes" -> Of(u.outputs, r.on) \cup UsersOf(u, Of(u.outputs, r.on))
          [] r.kind = "UpdateInputs" -> Of(u.inputs, r.on)
          [] r.kind \in {"CreateIo", "DeleteIo", "PurgeIo"} -> {StepOf[r.on]} \cup UsersOf(u, {r.on})
          [] OTHER -> {}

Apart(r) == Racing \/ \A p \in Active : Touched(r, t) \cap Touched(ask[p], began[p]) \subseteq {None}

\* What is created has an id of its own.
Creations == {"CreateFlow", "CreateStep", "CreateIo"}
Repeatable == {r \in broken : r.kind \notin Creations}

Ask(p) ==
    /\ Idle(p)
    /\ spent.asks < MaxAsks
    /\ spent' = [spent EXCEPT !.asks = @ + 1]
    /\ \E r \in Asked(t) \cup Repeatable :
           /\ Apart(r)
           /\ r.kind \in Creations => r.on \notin gone
           /\ ask' = [ask EXCEPT ![p] = r]
           /\ todo' = [todo EXCEPT ![p] = Program(r)]
    /\ began' = [began EXCEPT ![p] = t]
    /\ alone' = [q \in Clients |-> q = p /\ Active = {}]
    /\ UNCHANGED <<t, lock, broken, shared, gone>>

Leave(p) ==
    /\ ask' = [ask EXCEPT ![p] = Nothing]
    /\ began' = [began EXCEPT ![p] = Empty]

\* A request that was broken off is mended by its repetition or by a deletion.
Mended(r, done) ==
    \/ r = done
    \/ r.on = done.on /\ done.kind \in {"DeleteFlow", "DeleteStep", "DeleteIo", "PurgeIo"}

\* The rest of the calls; without any, the handler replies.
Continue(p, calls) ==
    /\ todo' = [todo EXCEPT ![p] = calls]
    /\ IF calls = << >> THEN Leave(p) /\ broken' = {r \in broken : ~Mended(r, ask[p])}
       ELSE UNCHANGED <<ask, began, broken>>

Forgotten(c) ==
    CASE c.op \in {"DropFlow", "DropStep", "DropIo"} -> gone \cup {c.on}
      [] c.op \in {"InsertFlow", "InsertStep", "InsertIo", "KeepMain"} -> gone \ {c.on}
      [] OTHER -> gone

\* Reads by primary key fail when there is no such row.
Absent(c) ==
    \/ c.op \in {"ReadStep", "ReadForNodes", "ReadInputs", "ReadIo"} /\ c.on \notin t.objs
    \/ c.op \in {"ReadToPush", "ReadToPull"} /\ StepOf[c.on] \notin t.objs

LockOps == {"FindFree", "SetKey", "Unlock"}

Serve(p) ==
    LET c == Head(todo[p]) IN
    /\ todo[p] # << >>
    /\ c.op \notin LockOps
    /\ ~Absent(c)
    /\ t' = Result(c)
    /\ gone' = Forgotten(c)
    /\ Continue(p, Further(c) \o Tail(todo[p]))
    /\ UNCHANGED <<lock, alone, shared, spent>>

Locking(p, op, f) == todo[p] # << >> /\ Head(todo[p]).op = op /\ FlowOf[Head(todo[p]).on] = f

FindUnchecked(p) ==
    \E f \in Flows :
        /\ Locking(p, "FindFree", f)
        /\ shared' = IF \E q \in Clients : Locking(q, "SetKey", f) THEN shared \cup {f} ELSE shared
        /\ Continue(p, Tail(todo[p]))
        /\ UNCHANGED <<t, lock, alone, gone, spent>>

\* EXISTS and SET are two calls, and another may be between them.
FindFree(p) ==
    \E f \in Flows :
        /\ Locking(p, "FindFree", f)
        /\ lock[f] = None
        /\ shared' = IF \E q \in Clients : Locking(q, "SetKey", f) THEN shared \cup {f} ELSE shared
        /\ Continue(p, Tail(todo[p]))
        /\ UNCHANGED <<t, lock, alone, gone, spent>>

\* The reply of SET NX is not looked at.
SetKey(p) ==
    \E f \in Flows :
        /\ Locking(p, "SetKey", f)
        /\ lock' = IF lock[f] = None THEN [lock EXCEPT ![f] = p] ELSE lock
        /\ Continue(p, Tail(todo[p]))
        /\ UNCHANGED <<t, alone, shared, gone, spent>>

\* The key is set: the handler replies that the resource is locked.
Refuse(p) ==
    /\ \E f \in Flows : Locking(p, "FindFree", f) /\ lock[f] # None
    /\ todo' = [todo EXCEPT ![p] = << >>]
    /\ alone' = [alone EXCEPT ![p] = FALSE]
    /\ Leave(p)
    /\ UNCHANGED <<t, lock, broken, shared, gone, spent>>

\* DEL, whoever has set the key.
Unlock(p) ==
    \E f \in Flows :
        /\ Locking(p, "Unlock", f)
        /\ lock' = [lock EXCEPT ![f] = None]
        /\ Continue(p, Tail(todo[p]))
        /\ UNCHANGED <<t, alone, shared, gone, spent>>

\* create_flow_step unlocks after an error, delete_flow_step does not.
Break(p) ==
    /\ todo' = [todo EXCEPT ![p] = << >>]
    /\ alone' = [alone EXCEPT ![p] = FALSE]
    /\ broken' = broken \cup {ask[p]}
    /\ lock' = IF ask[p].kind = "CreateStep"
               THEN [lock EXCEPT ![FlowOf[ask[p].on]] = None]
               ELSE lock
    /\ Leave(p)
    /\ UNCHANGED shared

BreakUnfound(p) ==
    /\ todo[p] # << >>
    /\ Absent(Head(todo[p]))
    /\ Break(p)
    /\ UNCHANGED <<t, gone, spent>>

\* An error, whether or not the call was carried out.
Fail(p) ==
    LET c == Head(todo[p]) IN
    /\ todo[p] # << >>
    /\ c.op \notin LockOps
    /\ spent.faults < MaxFaults
    /\ spent' = [spent EXCEPT !.faults = @ + 1]
    /\ \/ t' = t /\ gone' = gone
       \/ t' = Result(c) /\ gone' = Forgotten(c)
    /\ Break(p)

\* Ten seconds are enough for a request that is at work.
LockExpires(f) ==
    /\ lock[f] # None
    /\ \A p \in Active : lock[f] # p
    /\ lock' = [lock EXCEPT ![f] = None]
    /\ UNCHANGED <<t, ask, todo, began, alone, broken, shared, gone, spent>>

Next ==
    \/ \E p \in Clients :
           \/ Ask(p) \/ Serve(p) \/ FindFree(p) \/ SetKey(p) \/ Refuse(p) \/ Unlock(p)
           \/ BreakUnfound(p) \/ Fail(p)
    \/ \E f \in Flows : LockExpires(f)

Spec == Init /\ [][Next]_vars

-----------------------------------------------------------------------------
(* Properties.                                                             *)

Ops ==
    LockOps \cup
    {"CountFlows", "InsertFlow", "ReadSteps", "DropFlow", "FindIndex", "InsertStep", "ReadStep",
     "DropStep", "ReadForNodes", "FindOutputs", "WriteNodes", "ReadInputs", "FindIos",
     "WriteUsers", "WriteInputs", "InsertIo", "PushInitial", "ReadToPush", "ReadToPull",
     "WriteOutputs", "ReadIo", "PullInitial", "ReadUsers", "WriteRow", "DropIo", "KeepMain"}

TypeOK ==
    /\ t \in Tables
    /\ lock \in [Flows -> Clients \cup {None}] /\ shared \subseteq Flows
    /\ ask \in [Clients -> RequestSet \cup {Nothing}]
    /\ \A p \in Clients : {todo[p][k].op : k \in DOMAIN todo[p]} \subseteq Ops
    /\ \A p \in Clients : began[p] \in Tables

\* What requests at work or broken off may have left in between.
Unsettled ==
    (UNION {Touched(ask[p], began[p]) \cup Touched(ask[p], t) : p \in Active})
        \cup UNION {Touched(r, t) : r \in broken}

\* Outside of requests at work, and of those broken off and not repeated yet,
\* a step lists as outputs the IOs that are there and belong to it, an IO that
\* a step of its node takes as an input knows of it, and a workflow's initial
\* inputs are the IOs without a step.
Wired ==
    LET settled == t.objs \ Unsettled IN
    /\ \A s \in Steps \cap settled :
           Of(t.outputs, s) \ Unsettled = {i \in Attached(t, t.objs \cap Ios) : StepOf[i] = s} \ Unsettled
    /\ \A x \in t.inputs :
           x[1] \in settled /\ x[2] \in settled /\ NodeOf[x[1]] = NodeOf[x[2]] => x \in t.inputted
    /\ t.initial \cap settled = {i \in Ios \cap settled : StepOf[i] = None}

\* Types, and what the rows say of each other.
FlowsInv == TypeOK /\ Wired

\* No flow has two steps at one index, whatever requests run at once, unless
\* two of them have found its key free before either of them set it.
IndexOwn ==
    \A s, u \in Steps \cap t.objs :
        FlowOf[s] = FlowOf[u] /\ IndexOf[s] = IndexOf[u] => s = u \/ FlowOf[s] \in shared

\* What a request does as a whole.
Whole(r, u) ==
    CASE r.kind = "CreateFlow" -> InsertFlow(u, Empty, r.on)
      [] r.kind = "DeleteFlow" -> DeleteFlows(u, {r.on})
      [] r.kind = "CreateStep" ->
             IF \E s \in Steps \cap u.objs : FlowOf[s] = FlowOf[r.on] /\ IndexOf[s] = IndexOf[r.on]
             THEN u ELSE InsertRows(u, NewSteps, {r.on})
      [] r.kind = "DeleteStep" -> DeleteSteps(u, u, {r.on})
      [] r.kind = "UpdateNodes" -> UpdateNodes(u, {r.on}, {r.on} \X r.with)
      [] r.kind = "UpdateInputs" -> UpdateInputs(u, {r.on}, {r.on} \X r.with)
      [] r.kind = "CreateIo" -> InsertIos(u, Empty, {r.on})
      [] r.kind = "DeleteIo" -> DeleteIos(u, u, {r.on})
      [] r.kind = "PurgeIo" -> DeleteRows(DeleteIos(u, u, {r.on}), {r.on})

\* A request that runs alone and to its end does what Contents says of it.
AsOne ==
    [][\A p \in Clients :
           ~Idle(p) /\ ask'[p] = Nothing /\ alone'[p] => t' = Whole(ask[p], began[p])]_vars

\* What was deleted does not come back by an UPDATE of something read before
\* or of something that other rows still refer to.
DeletedStays == gone \cap t.objs = {}
=============================================================================
