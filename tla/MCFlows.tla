----------------------------- MODULE MCFlows --------------------------------
(***************************************************************************)
(* Flows for TLC: flow f1 with the step s1, whose index s2 and s3 would    *)
(* have too, and s4; flow f2; the outputs i1 of s1, a main IO that s4      *)
(* takes, and i2 of s4; and the initial input i3.                          *)
(***************************************************************************)
EXTENDS Flows, TLC

CONSTANTS n1, n2, f1, f2, s1, s2, s3, s4, i1, i2, i3, none, c1, c2

AllNodes == {n1, n2}
AllFlows == {f1, f2}
AllSteps == {s1, s2, s3, s4}
AllIos == {i1, i2, i3}
NodeOfAll == [o \in AllFlows \cup AllSteps \cup AllIos |-> n1]
FlowOfAll == [o \in AllSteps \cup AllIos |-> IF o = i3 THEN none ELSE f1]
StepOfAll == (i1 :> s1) @@ (i2 :> s4) @@ (i3 :> none)
IndexOfAll == (s1 :> 1) @@ (s2 :> 1) @@ (s3 :> 1) @@ (s4 :> 2)
MainOfAll == [i \in AllIos |-> i1]
AtAll == (i1 :> n1) @@ (i2 :> n2) @@ (i3 :> n1)

OriginalTables ==
    [Empty EXCEPT !.objs = {n1, n2, f1, s1, s4, i1},
                  !.parent = (n1 :> none) @@ (n2 :> n1), !.above = (n1 :> {}) @@ (n2 :> {n1}),
                  !.index = IndexOfAll,
                  !.nodes = {<<s1, n1>>, <<s1, n2>>, <<s4, n2>>},
                  !.outputs = {<<s1, i1>>}, !.inputs = {<<s4, i1>>}, !.inputted = {<<s4, i1>>}]

FirstNodesOfAll == {<<s2, n1>>, <<s2, n2>>}

Requests(o) ==
    {Request("CreateFlow", x, {}) : x \in {f2} \ o.objs}
    \cup {Request("DeleteFlow", x, {}) : x \in {f1} \cap o.objs}
    \cup {Request("CreateStep", x, {}) : x \in IF f1 \in o.objs THEN {s2, s3} \ o.objs ELSE {}}
    \cup {Request("DeleteStep", x, {}) : x \in {s1, s4} \cap o.objs}
    \cup {Request("UpdateNodes", x, N) : x \in {s1} \cap o.objs, N \in {{}, {n2}}}
    \cup {Request("UpdateInputs", x, S) : x \in {s4} \cap o.objs, S \in {{}, {i3} \cap o.objs, {i1, i3} \cap o.objs}}
    \cup {Request("CreateIo", x, {}) :
             x \in {y \in {i1, i2, i3} \ o.objs : StepOf[y] = none \/ StepOf[y] \in o.objs}}
    \cup {Request("DeleteIo", x, {}) : x \in {i1, i2, i3} \cap o.objs}
    \cup {Request("PurgeIo", x, {}) : x \in {i1} \cap o.objs}
=============================================================================
