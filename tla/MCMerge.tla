----------------------------- MODULE MCMerge --------------------------------
(***************************************************************************)
(* Merge for TLC: nodes n1, n2 below n1, n3 below n2, and n4 that the      *)
(* branch creates; flow f1 of n1, f2 of n2, which the branch creates, and  *)
(* f3 of n2, which others create; step s1 of f1 with the output i1 and the *)
(* input i2, an initial input; step s2, which is new and has the index of  *)
(* s3, which others create; and IO i3, a new output of s1.  IO i1 is the   *)
(* main one of all.                                                        *)
(***************************************************************************)
EXTENDS Merge, TLC

CONSTANTS n1, n2, n3, n4, f1, f2, f3, s1, s2, s3, i1, i2, i3, none, oldTitle, newTitle, thirdTitle

AllNodes == {n1, n2, n3, n4}
AllFlows == {f1, f2, f3}
AllSteps == {s1, s2, s3}
AllIos == {i1, i2, i3}
NodeOfAll == [o \in AllFlows \cup AllSteps \cup AllIos |-> IF o \in {f2, f3} THEN n2 ELSE n1]
FlowOfAll == [o \in AllSteps \cup AllIos |-> IF o = i2 THEN none ELSE f1]
StepOfAll == (i1 :> s1) @@ (i2 :> none) @@ (i3 :> s1)
IndexOfAll == (s1 :> 2) @@ (s2 :> 1) @@ (s3 :> 1)
MainOfAll == [i \in AllIos |-> i1]
AtAll == (i1 :> n2) @@ (i2 :> n3) @@ (i3 :> n3)

OriginalTables ==
    [Empty EXCEPT
        !.objs = {n1, n2, n3, f1, s1, i1, i2},
        !.parent = (n1 :> none) @@ (n2 :> n1) @@ (n3 :> n2) @@ (n4 :> none),
        !.above = (n1 :> {}) @@ (n2 :> {n1}) @@ (n3 :> {n1, n2}) @@ (n4 :> {}),
        !.title = [x \in Titled |-> IF x \in {n4, f2, f3, i3} THEN NoTitle ELSE oldTitle],
        !.index = IndexOfAll,
        !.nodes = {<<s1, n2>>, <<s1, n3>>},
        !.outputs = {<<s1, i1>>}, !.inputs = {<<s1, i2>>}, !.inputted = {<<s1, i2>>}, !.initial = {i2},
        !.text = [x \in Objects |-> IF x \in {n2, f1} THEN {"first"} ELSE {}]]

BranchEdits(r, m, o) ==
    LET shown == (m.objs \cup o.objs) \ r.deleted
        unused == {n4, f2, s2, i3} \ (m.objs \cup Decided(r))
        steps == IF {n1, f1} \subseteq shown THEN {s1, s2} \cap shown ELSE {} IN
    {CreateNodeIn(r, m, o, n4, p) : p \in IF n4 \in unused THEN {n2, n3} \cap shown ELSE {}}
    \cup {DeleteNodeIn(r, m, o, x) : x \in {n2, n3, n4} \cap shown}
    \cup {MoveIn(r, m, o, both[1], both[2]) :
            both \in {e \in {<<n2, n3>>, <<n3, n1>>, <<n3, n4>>} :
                         {e[1], e[2]} \subseteq shown /\ e[1] \notin Seen(m, o).above[e[2]]}}
    \cup {RenameIn(r, m, o, x, newTitle) : x \in {n3, i1} \cap shown}
    \cup {DescribeIn(r, m, o, x, "second") : x \in {n2, f1, i1, n4} \cap shown}
    \cup {CreateIn(r, m, o, x) : x \in IF {n1, f1} \subseteq shown THEN {f2, s2} \cap unused ELSE {}}
    \cup {DeleteFlowIn(r, m, o, x) : x \in {f1} \cap shown}
    \cup {DeleteStepIn(r, m, o, x) : x \in steps}
    \cup {NodesIn(r, m, o, x, {n2, n4}) : x \in {s1} \cap steps}
    \cup {InputsIn(r, m, o, x, {i1}) : x \in {s1} \cap steps}
    \cup {CreateIoIn(r, m, o, x) : x \in IF s1 \in steps THEN {i3} \cap unused ELSE {}}
    \cup {DeleteIoIn(r, m, o, x) : x \in {i1, i2} \cap shown}
    \cup {Both(KeepFlowStep(r, x), m) : x \in {s2} \cap m.objs}
    \cup {Both(Restore(r, x), m) : x \in {n3, f1, s1, i1} \cap m.objs}

OthersEdits(o) ==
    {DeleteNodesOf(o, {x}) : x \in {n3} \cap o.objs}
    \cup {DeleteSteps(o, o, {x}) : x \in {s1} \cap o.objs}
    \cup {InsertRows(o, [Empty EXCEPT !.index = IndexOf], {x}) : x \in {s3} \ o.objs}
    \cup {InsertFlow(o, Empty, x) : x \in IF n2 \in o.objs THEN {f3} \ o.objs ELSE {}}
    \cup {Move(o, x, n1) : x \in {n3} \cap o.objs}
    \cup {SetTitle(o, x, thirdTitle) : x \in {i1} \cap o.objs}
    \cup {Describe(o, x, "third") : x \in {n2} \cap o.objs}

=============================================================================
