------------------------------ MODULE Contents ------------------------------
(***************************************************************************)
(* What the tables of nodes, workflows, flows, flow_steps, IOs and         *)
(* descriptions hold for one branch_id, and what the handlers and their    *)
(* callbacks do to it: in the original, and in a branch, where they also   *)
(* update the branch's lists.  A step's map of inputs by node is a set of  *)
(* pairs, At[i] being the node under which steps list IO i.                *)
(***************************************************************************)
EXTENDS BranchRow

CONSTANTS
    At,         \* flow_step_node_id of IOs
    MainOf,     \* main_id of IOs
    Titles, NoTitle,
    Texts       \* updates a description is made of

ASSUME ContentsAssumption == At \in [Ios -> Nodes] /\ MainOf \in [Ios -> Ios]

\* A main IO, and those made after it, which share its title.
Mains == {i \in Ios : MainOf[i] = i}
Alike(x) == IF x \in Ios THEN {i \in Ios : MainOf[i] = MainOf[x]} ELSE {x}

Titled == Nodes \cup Flows \cup Ios

Tables ==
    [objs : SUBSET Objects,
     parent : [Nodes -> Nodes \cup {None}], above : [Nodes -> SUBSET Nodes],
     title : [Titled -> Titles \cup {NoTitle}],
     index : [Steps -> Nat], place : [Flows -> Nat],   \* step_index, vertical_index
     nodes : SUBSET (Steps \X Nodes),
     inputs : SUBSET (Steps \X Ios), outputs : SUBSET (Steps \X Ios),
     inputted : SUBSET (Steps \X Ios),  \* inputted_by_flow_steps of IOs
     loose : SUBSET Ios,                \* IOs that have lost their step
     initial : SUBSET Ios,              \* initial_input_ids of workflows
     text : [Objects -> SUBSET Texts]]

Empty ==
    [objs |-> {}, parent |-> [n \in Nodes |-> None], above |-> [n \in Nodes |-> {}],
     title |-> [x \in Titled |-> NoTitle], index |-> [s \in Steps |-> 0],
     place |-> [f \in Flows |-> 0],
     nodes |-> {}, inputs |-> {}, outputs |-> {}, inputted |-> {}, loose |-> {},
     initial |-> {}, text |-> [x \in Objects |-> {}]]

Of(pairs, s) == {pair[2] : pair \in {p \in pairs : p[1] = s}}
\* f with the values that g has for S
Overriding(f, g, S) == [x \in DOMAIN f |-> IF x \in S THEN g[x] ELSE f[x]]
StepPairs(P, Q, S) == {p \in P : p[1] \notin S} \cup {p \in Q : p[1] \in S}
IoPairs(P, Q, S) == {p \in P : p[2] \notin S} \cup {p \in Q : p[2] \in S}

\* The rows of S, all columns, as they are in table u.
InsertRows(t, u, S) ==
    [t EXCEPT !.objs = @ \cup S,
              !.parent = Overriding(@, u.parent, S), !.above = Overriding(@, u.above, S),
              !.title = Overriding(@, u.title, S), !.index = Overriding(@, u.index, S),
              !.place = Overriding(@, u.place, S),
              !.nodes = StepPairs(@, u.nodes, S), !.inputs = StepPairs(@, u.inputs, S),
              !.outputs = StepPairs(@, u.outputs, S),
              !.inputted = IoPairs(@, u.inputted, S),
              !.loose = (@ \ S) \cup (u.loose \cap S)]

\* With their descriptions.
DeleteRows(t, S) ==
    [InsertRows(t, Empty, S) EXCEPT !.objs = @ \ S, !.text = Overriding(@, Empty.text, S)]

-----------------------------------------------------------------------------
(* Handlers in the original.  u is where the values of the rows come from. *)

Below(t, S) == {n \in Nodes \cap t.objs : n \in S \/ t.above[n] \cap S # {}}
Inside(t, S) == S \cup {x \in t.objs \ Nodes : NodeOf[x] \in S}

DeleteNodesOf(t, S) ==
    LET D == Inside(t, Below(t, S)) IN [DeleteRows(t, D) EXCEPT !.initial = @ \ D]

Move(t, n, p) ==
    IF {n, p} \subseteq t.objs /\ n # p /\ n \notin t.above[p]
    THEN LET lost == t.above[n]  new == t.above[p] \cup {p} IN
         [t EXCEPT !.parent[n] = p,
                   !.above = [x \in Nodes |->
                       IF x = n \/ n \in @[x] THEN (@[x] \ lost) \cup new ELSE @[x]]]
    ELSE t

Attached(t, S) == {i \in S : StepOf[i] # None} \ t.loose

\* IOs that lack the step they push themselves to, or pull themselves from.
Stepless(t, u, S) == {i \in Attached(u, S) : StepOf[i] \notin t.objs}

InsertIos(t, u, S) ==
    LET pushed == Attached(u, S) \ Stepless(t, u, S) IN
    [InsertRows(t, u, S) EXCEPT
        !.outputs = @ \cup {<<StepOf[i], i>> : i \in pushed},
        !.initial = @ \cup {i \in S : StepOf[i] = None}]

\* The steps of its node that an IO knows to take it lose it as an input.
Uninput(t, u, S) ==
    [t EXCEPT !.inputs = {p \in @ : ~(/\ p[2] \in S /\ p \in u.inputted
                                      /\ NodeOf[p[1]] = NodeOf[p[2]])}]

\* A main IO of a step stays, without the step.
Unattach(t, u, S) ==
    LET kept == Attached(u, S) \cap Mains IN
    [InsertRows(DeleteRows(t, S), u, kept) EXCEPT !.loose = @ \cup kept]

DeleteIos(t, u, S) ==
    LET D == S \ Stepless(t, u, S)
        pulled == [t EXCEPT !.outputs = {p \in @ : p[2] \notin Attached(u, D) \/ p[1] # StepOf[p[2]]},
                            !.initial = @ \ S] IN
    Unattach(Uninput(pulled, u, D), u, D)

DeleteStepsKeepsIos(t, u, S) == DeleteRows(t, S)

\* delete_outputs knows nothing of its IOs but their ids, so other steps keep
\* them as inputs.
DeleteSteps(t, u, S) == DeleteRows(t, S \cup UNION {Of(u.outputs, s) : s \in S})

\* A flow is put below those that its node has.
FlowsOf(t, n) == {f \in Flows \cap t.objs : NodeOf[f] = n}
InsertFlow(t, u, f) ==
    [InsertRows(t, u, {f}) EXCEPT !.place[f] = Cardinality(FlowsOf(t, NodeOf[f]))]

StepsIn(t, S) == {s \in Steps \cap t.objs : FlowOf[s] \in S}
DeleteFlows(t, S) == DeleteRows(DeleteSteps(t, t, StepsIn(t, S)), S)

\* UpdateNodeIdsFlowStep: of the nodes a step loses, outputs are deleted and
\* inputs left out.
UpdateNodes(t, S, pairs) ==
    LET gone(p) == p[1] \in S /\ <<p[1], At[p[2]]>> \notin pairs
        ios == {p[2] : p \in {q \in t.outputs : gone(q)}} \cap t.objs
        u == Unattach(Uninput(t, t, ios), t, ios) IN
    [u EXCEPT !.nodes = StepPairs(@, pairs, S),
              !.outputs = {p \in @ : ~gone(p)},
              !.inputs = {p \in StepPairs(@, t.inputs, S) : ~gone(p)}]

\* UpdateInputIdsFlowStep, with update_ios
UpdateInputs(t, S, pairs) ==
    [t EXCEPT !.inputs = StepPairs(@, pairs, S),
              !.inputted = {p \in @ : p[1] \in S /\ p \in t.inputs => p \in pairs}
                  \cup {p \in pairs \ t.inputs : p[1] \in S /\ p[2] \in t.objs}]

Describe(t, x, text) == [t EXCEPT !.text[x] = @ \cup {text}]

SetTitle(t, x, title) ==
    LET S == {x} \cup (Alike(x) \cap t.objs) IN
    [t EXCEPT !.title = [y \in Titled |-> IF y \in S THEN title ELSE @[y]]]

-----------------------------------------------------------------------------
(* Handlers in a branch: b is its row, t its tables, o the original's.     *)

Both(b, t) == [row |-> b, mine |-> t]

Seen(t, o) == InsertRows(o, t, t.objs)
Copied(t, o, S) == InsertRows(t, o, (S \cap o.objs) \ t.objs)

\* What is copied along with an object.
NodesWith(t, o, S) == S \cup UNION {Seen(t, o).above[n] : n \in S}
Parents(x) ==
    CASE x \in Nodes \cup Ios -> {x}
      [] x \in Flows -> {x, NodeOf[x]}
      [] x \in Steps -> {x, NodeOf[x], FlowOf[x]}
Preserved(t, o, x) == Copied(t, o, Parents(x) \cup NodesWith(t, o, Parents(x) \cap Nodes))

\* save_original_data_to_branch
IosOf(t, s) == Of(t.outputs, s) \cup Of(t.inputs, s)
SavedStep(t, o, s) ==
    LET nodes == {At[i] : i \in IosOf(o, s)} IN
    Copied(Preserved(t, o, s), o, IosOf(o, s) \cup NodesWith(t, o, nodes))

\* create_branched_if_original_exists, after the branch's row is deleted
Recreated(t, o, x) == InsertRows(DeleteRows(t, {x}), o, {x} \cap o.objs)

CreateNodeIn(b, t, o, n, p) ==
    LET above == Seen(t, o).above[p] \cup {p}
        new == [Empty EXCEPT !.parent[n] = p, !.above[n] = above] IN
    Both(CreateNode(b, n, above), InsertRows(Copied(t, o, above), new, {n}))

DeleteNodeIn(b, t, o, n) ==
    LET D == Below(Seen(t, o), {n})
        u == Copied(t, o, NodesWith(t, o, D)) IN
    Both(DeleteNodes(b, D),
         InsertRows(IF n \in b.created \/ n \notin o.objs THEN DeleteNodesOf(u, {n}) ELSE u,
                    o, {n} \cap o.objs))

MoveIn(b, t, o, n, p) ==
    LET v == Seen(t, o)
        u == Copied(t, o, Below(v, {n}) \cup NodesWith(t, o, {n, p})) IN
    Both(ReorderNode(b, [id |-> n, parent |-> p, old |-> v.parent[n]]), Move(u, n, p))

RenameIn(b, t, o, x, title) ==
    Both(EditTitle(IF x \in Nodes THEN b ELSE EditNode(b, NodeOf[x]), x),
         SetTitle(Copied(IF x \in Nodes THEN t ELSE Preserved(t, o, x), o, Alike(x)), x, title))

DescribeIn(b, t, o, x, text) ==
    Both(IF t.text[x] = {} THEN EditDescription(b, x) ELSE b,
         Describe(IF t.text[x] = {} THEN Preserved(t, o, x) ELSE t, x, text))

CreateIn(b, t, o, x) ==
    LET new == [Empty EXCEPT !.index = IndexOf,
                             !.place = [f \in Flows |-> Cardinality(FlowsOf(Seen(t, o), NodeOf[f]))]] IN
    Both(Create(EditNode(b, NodeOf[x]), x), InsertRows(Preserved(t, o, x), new, {x}))

DeleteFlowIn(b, t, o, f) ==
    Both(Delete(EditNode(b, NodeOf[f]), f), Recreated(Preserved(t, o, f), o, f))

DeleteStepIn(b, t, o, s) ==
    Both(Delete(EditNode(b, NodeOf[s]), s), Recreated(SavedStep(t, Seen(t, o), s), o, s))

\* ios_diff is with the original if that has the step; what the branch has is
\* then put together from both.
Current(t, o, s) == IF s \in o.objs THEN o ELSE t
NodesIn(b, t, o, s, S) ==
    LET now == Of(Current(t, o, s).nodes, s)
        new == IF s \in o.objs THEN S \cup now ELSE S IN
    Both(DeleteFlowStepNodes(CreateFlowStepNodes(EditNode(b, NodeOf[s]), s, S \ now), s, now \ S),
         [SavedStep(t, o, s) EXCEPT !.nodes = StepPairs(@, {s} \X new, {s})])

InputsIn(b, t, o, s, S) ==
    LET now == Of(Current(t, o, s).inputs, s)
        new == IF s \in o.objs THEN S \cup now ELSE S IN
    Both(DeleteFlowStepInputs(CreateFlowStepInputs(EditNode(b, NodeOf[s]), s, S \ now), s, now \ S),
         UpdateInputs(SavedStep(t, o, s), {s}, {s} \X new))

OutputsIn(b, t, o, s, S) ==
    LET now == Of(Current(t, o, s).outputs, s)
        new == IF s \in o.objs THEN S \cup now ELSE S IN
    Both(DeletedFlowStepOutputs(CreateFlowStepOutputs(EditNode(b, NodeOf[s]), s, S \ now), s, now \ S),
         [SavedStep(t, o, s) EXCEPT !.outputs = StepPairs(@, {s} \X new, {s})])

\* It takes its title from the main IO, which is copied to the branch.
CreateIoIn(b, t, o, i) ==
    LET s == StepOf[i]
        v == Preserved(Copied(t, o, {MainOf[i]}), o, NodeOf[i])
        new == [Empty EXCEPT !.title[i] = v.title[MainOf[i]]]
        u == InsertRows(IF s = None THEN v ELSE Preserved(v, o, s), new, {i})
        c == Create(EditNode(b, NodeOf[i]), i) IN
    IF s = None THEN Both(CreateInitialInput(c, i), [u EXCEPT !.initial = @ \cup {i}])
    ELSE OutputsIn(c, u, o, s, Of(u.outputs, s) \cup {i})

DeleteIoIn(b, t, o, i) ==
    LET s == StepOf[i]
        v == Copied(Copied(t, o, {i}), o, IF s = None THEN {} ELSE {s, FlowOf[s]})
        r == IF s = None THEN Both(DeleteInitialInput(b, i), [v EXCEPT !.initial = @ \ {i}])
             ELSE IF i \in v.loose THEN Both(b, v)
             ELSE OutputsIn(b, v, o, s, Of(v.outputs, s) \ {i})
        u == Uninput(r.mine, v, {i})
        kept == Attached(v, {i}) \cap Mains IN
    Both(Delete(EditNode(r.row, NodeOf[i]), i),
         [InsertRows(Recreated(u, o, i), v, kept) EXCEPT !.loose = @ \cup kept])
=============================================================================
