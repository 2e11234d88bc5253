------------------------- MODULE BranchChangesProofs -------------------------
(***************************************************************************)
(* Proved of BranchChanges: however many requests update the lists of a    *)
(* branch, in whatever order their statements take effect and whichever of *)
(* them fail, the row and every copy of it that will be written back are   *)
(* free of contradictions; and the lists say what was decided last.        *)
(***************************************************************************)
EXTENDS BranchChanges, FunctionTheorems, FiniteSetTheorems, TLAPS

-----------------------------------------------------------------------------
(* The operators on the row.                                               *)

\* The moves of other nodes keep their order, so that none comes twice that
\* did not before (ReorderNode of Branch::update).
LEMMA OthersMoves ==
    ASSUME NEW s \in Seq(Moves), NEW n
    PROVE  LET rest == MovesOfOthers(s, n) IN
           /\ rest \in Seq(Moves)
           /\ \A p \in DOMAIN rest : rest[p].id # n
           /\ (\A j, k \in DOMAIN s : s[j].id = s[k].id => j = k)
                  => \A p, q \in DOMAIN rest : rest[p].id = rest[q].id => p = q
<1> DEFINE others == {k \in DOMAIN s : s[k].id # n}
           upTo(k) == {j \in others : j <= k}
           count == Cardinality(others)
           place == [k \in others |-> Cardinality(upTo(k))]
           from(p) == CHOOSE k \in others : Cardinality(upTo(k)) = p
           rest == [p \in 1 .. count |-> s[from(p)]]
<1>1. MovesOfOthers(s, n) = rest
  BY DEF MovesOfOthers
<1>2. DOMAIN s = 1 .. Len(s) /\ Len(s) \in Nat /\ \A k \in DOMAIN s : s[k] \in Moves
  OBVIOUS
<1>3. others \subseteq Nat /\ IsFiniteSet(others) /\ count \in Nat
  <2>1. IsFiniteSet(1 .. Len(s))
    BY <1>2, FS_Interval
  <2>2. others \in SUBSET (1 .. Len(s))
    BY <1>2
  <2>3. IsFiniteSet(others)
    BY <2>1, <2>2, FS_Subset
  <2> QED
    BY <2>2, <2>3, FS_CardinalityType
<1> HIDE DEF others
<1>4. \A k \in others : IsFiniteSet(upTo(k)) /\ Cardinality(upTo(k)) \in 1 .. count
  <2> TAKE k \in others
  <2>1. upTo(k) \in SUBSET others /\ k \in upTo(k)
    BY <1>3
  <2>2. IsFiniteSet(upTo(k)) /\ Cardinality(upTo(k)) <= count
    BY <1>3, <2>1, FS_Subset
  <2>3. Cardinality(upTo(k)) \in Nat /\ Cardinality(upTo(k)) # 0
    <3>1. Cardinality(upTo(k)) = 0 <=> upTo(k) = {}
      BY <2>2, FS_EmptySet
    <3> QED
      BY <2>1, <2>2, <3>1, FS_CardinalityType
  <2> QED
    BY <1>3, <2>2, <2>3
<1>5. \A j, k \in others : Cardinality(upTo(j)) = Cardinality(upTo(k)) => j = k
  <2>1. ASSUME NEW j \in others, NEW k \in others, j < k
        PROVE  Cardinality(upTo(j)) # Cardinality(upTo(k))
    <3>1. /\ \A i \in upTo(j) : i \in upTo(k)
          /\ k \in upTo(k) /\ k \notin upTo(j)
      <4>1. j \in Nat /\ k \in Nat /\ \A i \in others : i \in Nat
        BY <1>3
      <4> QED
        BY <2>1, <4>1
    <3>2. Cardinality(upTo(k)) = Cardinality(upTo(j)) => upTo(k) = upTo(j)
      BY <1>4, <2>1, <3>1, FS_Subset
    <3> QED
      BY <3>1, <3>2
  <2> QED
    BY <1>3, <2>1
<1>6. \A p \in 1 .. count : \E k \in others : Cardinality(upTo(k)) = p
  <2>1. place \in [others -> 1 .. count]
    BY <1>4
  <2>0. \A k \in others : place[k] = Cardinality(upTo(k))
    OBVIOUS
  <2> HIDE DEF place, upTo
  <2>2. place \in Injection(others, 1 .. count)
    BY <1>5, <2>0, <2>1, Fun_IsInj
  <2>3. IsFiniteSet(1 .. count) /\ Cardinality(1 .. count) = count
    BY <1>3, FS_Interval
  <2>4. place \in Surjection(others, 1 .. count)
    BY <2>2, <2>3, FS_Injection
  <2>5. \A p \in 1 .. count : \E k \in others : place[k] = p
    BY <2>4, Fun_SurjectionProperties
  <2> QED
    BY <2>0, <2>5
<1>7. \A p \in 1 .. count : from(p) \in others /\ Cardinality(upTo(from(p))) = p
  BY <1>6
<1> HIDE DEF upTo, from
<1>8. \A p \in 1 .. count : from(p) \in DOMAIN s /\ s[from(p)].id # n
  BY <1>7 DEF others
<1>9. DOMAIN rest = 1 .. count /\ rest \in Seq(Moves)
  BY <1>2, <1>3, <1>8
<1>10. \A p \in DOMAIN rest : rest[p].id # n
  BY <1>8
<1>11. ASSUME \A j, k \in DOMAIN s : s[j].id = s[k].id => j = k,
              NEW p \in 1 .. count, NEW q \in 1 .. count, rest[p].id = rest[q].id
       PROVE  p = q
  <2>1. from(p) = from(q)
    BY <1>8, <1>11
  <2> QED
    BY <1>7, <2>1
<1> QED
  BY <1>1, <1>9, <1>10, <1>11

\* Which update an arm stands for, and the ids that come with it.
LEMMA Arms ==
    ASSUME NEW u \in Updates
    PROVE  /\ u.arm \in Deciding \cup
                 {"EditNode", "EditTitle", "EditDescription", "KeepFlowStep",
                  "CreateInitialInput", "DeleteInitialInput", "UndoDeleteInitialInput",
                  "ReorderNode", "CreateFlowStepNodes", "DeleteFlowStepNodes",
                  "CreateFlowStepInputs", "DeleteFlowStepInputs", "CreateFlowStepOutputs",
                  "DeletedFlowStepOutputs", "UndoDeleteOutput"}
           /\ u.arm \in {"CreateNode", "EditNode"} => u.id \in Nodes
           /\ u.arm \in {"DeleteNodes", "UndoDeleteNodes"} => u.ids \subseteq Nodes
           /\ u.arm \in {"Create", "Delete"} => u.id \in Objects \ Nodes
           /\ u.arm \in {"UndoDelete", "UndoDeleteIo"} => u.ids \subseteq Objects \ Nodes
           /\ u.arm \in {"Restore", "EditTitle", "EditDescription"} => u.id \in Objects
           /\ u.arm = "KeepFlowStep" => u.id \in Steps
           /\ u.arm \in {"CreateInitialInput", "DeleteInitialInput",
                          "UndoDeleteInitialInput"} => u.id \in Ios
           /\ u.arm = "ReorderNode" => u.move \in Moves
           /\ u.arm \in {"CreateFlowStepNodes", "DeleteFlowStepNodes"}
                 => u.step \in Steps /\ u.ids \subseteq Nodes
           /\ u.arm \in {"CreateFlowStepInputs", "DeleteFlowStepInputs",
                          "CreateFlowStepOutputs", "DeletedFlowStepOutputs"}
                 => u.step \in Steps /\ u.ids \subseteq Ios
           /\ u.arm = "UndoDeleteOutput" => u.step \in Steps /\ u.id \in Ios
  BY DEF Updates, Deciding, Pulling, Undoing, Creating

\* An update makes a row of a row.
LEMMA UpdatedType ==
    ASSUME NEW b \in RowSet, NEW u \in Updates
    PROVE  Updated(b, u) \in RowSet
<1>1. CASE u.arm = "CreateNode"
  <2>1. u.id \in Nodes /\ Ancestors[u.id] \subseteq Nodes
    BY <1>1, Arms, BranchChangesAssumption
  <2>2. Updated(b, u) = CreateNode(b, u.id, Ancestors[u.id])
    BY <1>1 DEF Updated
  <2>3. b.created \cup {u.id} \subseteq Objects /\ b.edited \cup Ancestors[u.id] \subseteq Nodes
    BY <2>1 DEF RowSet, Objects
  <2> QED
    BY <2>2, <2>3 DEF CreateNode, RowSet
<1>2. CASE u.arm = "DeleteNodes"
  <2>1. Updated(b, u) = DeleteNodes(b, u.ids)
    BY <1>2 DEF Updated
  <2>2. /\ b.deleted \cup u.ids \subseteq Objects
        /\ b.restored \ u.ids \subseteq Objects /\ b.edited \ u.ids \subseteq Nodes
    BY <1>2, Arms DEF RowSet, Objects
  <2> QED
    BY <2>1, <2>2, ZenonT(60) DEF DeleteNodes, RowSet
<1>3. CASE u.arm \in Undoing
  <2>1. Updated(b, u) = UndoDelete(b, u.ids)
    BY <1>3 DEF Updated, Undoing
  <2> QED
    BY <2>1 DEF UndoDelete, RowSet
<1>4. CASE u.arm = "Create"
  BY <1>4, Arms DEF Updated, Create, RowSet, Objects
<1>5. CASE u.arm = "Delete"
  <2>1. Updated(b, u) = Delete(b, u.id)
    BY <1>5 DEF Updated
  <2>2. /\ b.deleted \cup {u.id} \subseteq Objects
        /\ b.created \ {u.id} \subseteq Objects /\ b.restored \ {u.id} \subseteq Objects
    BY <1>5, Arms DEF RowSet, Objects
  <2> QED
    BY <2>1, <2>2, ZenonT(60) DEF Delete, RowSet
<1>6. CASE u.arm = "Restore"
  <2>1. Updated(b, u) = Restore(b, u.id)
    BY <1>6 DEF Updated
  <2>2. b.restored \cup {u.id} \subseteq Objects /\ b.deleted \ {u.id} \subseteq Objects
    BY <1>6, Arms DEF RowSet
  <2> QED
    BY <2>1, <2>2 DEF Restore, RowSet
<1>7. CASE u.arm \in {"EditNode", "EditTitle", "EditDescription", "KeepFlowStep"}
  <2>1. CASE u.arm = "EditNode"
    BY <2>1, Arms DEF Updated, EditNode, RowSet
  <2>2. CASE u.arm = "EditTitle"
    BY <2>2, Arms DEF Updated, EditTitle, RowSet
  <2>3. CASE u.arm = "EditDescription"
    BY <2>3, Arms DEF Updated, EditDescription, RowSet
  <2>4. CASE u.arm = "KeepFlowStep"
    BY <2>4, Arms DEF Updated, KeepFlowStep, RowSet
  <2> QED
    BY <1>7, <2>1, <2>2, <2>3, <2>4
<1>8. CASE u.arm \in {"CreateInitialInput", "DeleteInitialInput", "UndoDeleteInitialInput"}
  <2>1. \E x \in [created : SUBSET Ios, deleted : SUBSET Ios] :
           Updated(b, u) = [b EXCEPT !.initial = x]
    <3>1. /\ [b.initial EXCEPT !.created = @ \cup {u.id}] \in [created : SUBSET Ios, deleted : SUBSET Ios]
          /\ [b.initial EXCEPT !.deleted = @ \cup {u.id}] \in [created : SUBSET Ios, deleted : SUBSET Ios]
          /\ [b.initial EXCEPT !.deleted = @ \ {u.id}] \in [created : SUBSET Ios, deleted : SUBSET Ios]
      BY <1>8, Arms DEF RowSet
    <3>2. \/ Updated(b, u) = [b EXCEPT !.initial = [b.initial EXCEPT !.created = @ \cup {u.id}]]
          \/ Updated(b, u) = [b EXCEPT !.initial = [b.initial EXCEPT !.deleted = @ \cup {u.id}]]
          \/ Updated(b, u) = [b EXCEPT !.initial = [b.initial EXCEPT !.deleted = @ \ {u.id}]]
      BY <1>8 DEF Updated, CreateInitialInput, DeleteInitialInput, UndoDeleteInitialInput
    <3> QED
      BY <3>1, <3>2
  <2> QED
    BY <2>1 DEF RowSet
<1>9. CASE u.arm = "ReorderNode"
  <2>1. Updated(b, u) = ReorderNode(b, u.move)
    BY <1>9 DEF Updated
  <2>2. MovesOfOthers(b.reordered, u.move.id) \in Seq(Moves)
    BY OthersMoves DEF RowSet
  <2>3. Append(MovesOfOthers(b.reordered, u.move.id), u.move) \in Seq(Moves)
    BY <1>9, Arms, <2>2
  <2> QED
    BY <2>1, <2>3 DEF ReorderNode, RowSet
<1>10. CASE u.arm \in {"CreateFlowStepNodes", "DeleteFlowStepNodes"}
  <2>1. b.nodes \in Pairs(Nodes)
    BY DEF RowSet
  <2>2. \/ Updated(b, u) = CreateFlowStepNodes(b, u.step, u.ids)
        \/ Updated(b, u) = DeleteFlowStepNodes(b, u.step, u.ids)
    BY <1>10 DEF Updated
  <2>3. \A p \in SUBSET (Steps \X Nodes) : Replaced(p, u.step, u.ids) \subseteq Steps \X Nodes
    BY <1>10, Arms DEF Replaced
  <2>4. /\ [b.nodes EXCEPT !.created = Replaced(@, u.step, u.ids), !.steps = @ \cup {u.step}]
              \in Pairs(Nodes)
        /\ [b.nodes EXCEPT !.deleted = Replaced(@, u.step, u.ids)] \in Pairs(Nodes)
    BY <1>10, Arms, <2>1, <2>3 DEF Pairs
  <2>5. /\ CreateFlowStepNodes(b, u.step, u.ids) =
              [b EXCEPT !.nodes = [b.nodes EXCEPT !.created = Replaced(@, u.step, u.ids),
                                                  !.steps = @ \cup {u.step}]]
        /\ DeleteFlowStepNodes(b, u.step, u.ids) =
              [b EXCEPT !.nodes = [b.nodes EXCEPT !.deleted = Replaced(@, u.step, u.ids)]]
    BY <2>1 DEF CreateFlowStepNodes, DeleteFlowStepNodes, RowSet, Pairs
  <2>6. \E pairs \in Pairs(Nodes) : Updated(b, u) = [b EXCEPT !.nodes = pairs]
    BY <2>2, <2>4, <2>5
  <2> QED
    BY <2>6 DEF RowSet
<1>11. CASE u.arm \in {"CreateFlowStepInputs", "DeleteFlowStepInputs",
                       "CreateFlowStepOutputs", "DeletedFlowStepOutputs"}
  <2>1. ASSUME NEW pairs \in Pairs(Ios)
        PROVE  /\ Added(pairs, u.step, u.ids) \in Pairs(Ios)
               /\ Removed(pairs, u.step, u.ids) \in Pairs(Ios)
    <3>1. {u.step} \X u.ids \subseteq Steps \X Ios
      BY <1>11, Arms
    <3> QED
      BY <1>11, Arms, <3>1 DEF Added, Removed, Pairs
  <2>2. \E pairs \in Pairs(Ios) :
           \/ Updated(b, u) = [b EXCEPT !.inputs = pairs]
           \/ Updated(b, u) = [b EXCEPT !.outputs = pairs]
    <3>1. b.inputs \in Pairs(Ios) /\ b.outputs \in Pairs(Ios)
      BY DEF RowSet
    <3> QED
      BY <1>11, <2>1, <3>1
         DEF Updated, CreateFlowStepInputs, DeleteFlowStepInputs, CreateFlowStepOutputs,
             DeletedFlowStepOutputs
  <2> QED
    BY <2>2 DEF RowSet
<1>12. CASE u.arm = "UndoDeleteOutput"
  <2>1. Updated(b, u) = UndoDeleteOutput(b, u.step, u.id)
    BY <1>12 DEF Updated
  <2>2. [b.outputs EXCEPT !.deleted = @ \ {<<u.step, u.id>>}] \in Pairs(Ios)
    BY DEF RowSet, Pairs
  <2>3. Updated(b, u) = [b EXCEPT !.outputs = [b.outputs EXCEPT !.deleted = @ \ {<<u.step, u.id>>}]]
    BY <2>1 DEF UndoDeleteOutput
  <2> QED
    BY <2>2, <2>3 DEF RowSet
<1> QED
  BY <1>1, <1>2, <1>3, <1>4, <1>5, <1>6, <1>7, <1>8, <1>9, <1>10, <1>11, <1>12, Arms
     DEF Deciding, Pulling, Creating

\* What an update decides shows in three lists; no other update touches them.
LEMMA UpdatedLists ==
    ASSUME NEW b \in RowSet, NEW u \in Updates
    PROVE  LET c == Updated(b, u)  S == SubjectsOf(u) IN
           /\ u.arm \in Pulling => /\ c.deleted = b.deleted \cup S
                                   /\ c.restored = b.restored \ S
                                   /\ c.created \subseteq b.created
                                   /\ S \cap c.created \subseteq Nodes
                                   /\ b.created \ S \subseteq c.created
           /\ u.arm \in Undoing => /\ c.deleted = b.deleted \ S
                                   /\ c.restored = b.restored /\ c.created = b.created
           /\ u.arm \in Creating => /\ c.created = b.created \cup S /\ S = {u.id}
                                    /\ c.restored = b.restored /\ c.deleted = b.deleted
           /\ u.arm = "Restore" => /\ c.restored = b.restored \cup S
                                   /\ c.deleted = b.deleted \ S /\ c.created = b.created
           /\ u.arm \notin Deciding => /\ c.deleted = b.deleted /\ S = {}
                                       /\ c.restored = b.restored /\ c.created = b.created
<1> DEFINE c == Updated(b, u)
           S == SubjectsOf(u)
<1>1. ASSUME u.arm \in Pulling
      PROVE  /\ c.deleted = b.deleted \cup S /\ c.restored = b.restored \ S
             /\ c.created \subseteq b.created /\ S \cap c.created \subseteq Nodes
             /\ b.created \ S \subseteq c.created
  <2>1. CASE u.arm = "DeleteNodes"
    <3>1. c = DeleteNodes(b, u.ids) /\ S = u.ids /\ S \subseteq Nodes
      BY <2>1, Arms DEF Updated, SubjectsOf, Deciding, Pulling, Undoing
    <3> QED
      BY <3>1 DEF DeleteNodes, RowSet
  <2>2. CASE u.arm = "Delete"
    <3>1. c = Delete(b, u.id) /\ S = {u.id}
      BY <2>2 DEF Updated, SubjectsOf, Deciding, Pulling, Undoing
    <3> QED
      BY <3>1 DEF Delete, RowSet
  <2> QED
    BY <1>1, <2>1, <2>2 DEF Pulling
<1>2. ASSUME u.arm \in Undoing
      PROVE  c.deleted = b.deleted \ S /\ c.restored = b.restored /\ c.created = b.created
  <2>1. c = UndoDelete(b, u.ids) /\ S = u.ids
    BY <1>2 DEF Updated, SubjectsOf, Deciding, Undoing
  <2> QED
    BY <2>1 DEF UndoDelete, RowSet
<1>3. ASSUME u.arm \in Creating
      PROVE  /\ c.created = b.created \cup S /\ S = {u.id}
             /\ c.restored = b.restored /\ c.deleted = b.deleted
  <2>1. S = {u.id}
    BY <1>3 DEF SubjectsOf, Deciding, Undoing, Creating
  <2>2. CASE u.arm = "CreateNode"
    BY <2>1, <2>2 DEF Updated, CreateNode, RowSet
  <2>3. CASE u.arm = "Create"
    BY <2>1, <2>3 DEF Updated, Create, RowSet
  <2> QED
    BY <1>3, <2>1, <2>2, <2>3 DEF Creating
<1>4. ASSUME u.arm = "Restore"
      PROVE  /\ c.restored = b.restored \cup S
             /\ c.deleted = b.deleted \ S /\ c.created = b.created
  <2>1. c = Restore(b, u.id) /\ S = {u.id}
    BY <1>4 DEF Updated, SubjectsOf, Deciding, Undoing
  <2> QED
    BY <2>1 DEF Restore, RowSet
<1>5. ASSUME u.arm \notin Deciding
      PROVE  /\ c.deleted = b.deleted /\ S = {}
             /\ c.restored = b.restored /\ c.created = b.created
  <2>1. S = {}
    BY <1>5 DEF SubjectsOf
  <2>2. c.deleted = b.deleted /\ c.restored = b.restored /\ c.created = b.created
    <3>1. CASE u.arm \in {"EditNode", "EditTitle", "EditDescription", "KeepFlowStep"}
      BY <3>1 DEF Updated, EditNode, EditTitle, EditDescription, KeepFlowStep, RowSet
    <3>2. CASE u.arm \in {"CreateInitialInput", "DeleteInitialInput", "UndoDeleteInitialInput"}
      BY <3>2 DEF Updated, CreateInitialInput, DeleteInitialInput, UndoDeleteInitialInput, RowSet
    <3>3. CASE u.arm = "ReorderNode"
      BY <3>3 DEF Updated, ReorderNode, RowSet
    <3>4. CASE u.arm \in {"CreateFlowStepNodes", "DeleteFlowStepNodes"}
      BY <3>4 DEF Updated, CreateFlowStepNodes, DeleteFlowStepNodes, RowSet
    <3>5. CASE u.arm \in {"CreateFlowStepInputs", "DeleteFlowStepInputs",
                          "CreateFlowStepOutputs", "DeletedFlowStepOutputs"}
      BY <3>5 DEF Updated, CreateFlowStepInputs, DeleteFlowStepInputs, CreateFlowStepOutputs,
                  DeletedFlowStepOutputs, RowSet
    <3>6. CASE u.arm = "UndoDeleteOutput"
      BY <3>6 DEF Updated, UndoDeleteOutput, RowSet
    <3> QED
      BY <1>5, Arms, <3>1, <3>2, <3>3, <3>4, <3>5, <3>6
  <2> QED
    BY <2>1, <2>2
<1> QED
  BY <1>1, <1>2, <1>3, <1>4, <1>5

\* What a step is given and loses, apart.
StepListsApart(b) ==
    /\ b.inputs.created \cap b.inputs.deleted = {}
    /\ b.outputs.created \cap b.outputs.deleted = {}

\* No update puts an input or output on both lists of a step, or moves a node
\* twice.
LEMMA UpdatedApart ==
    ASSUME NEW b \in RowSet, NEW u \in Updates
    PROVE  /\ StepListsApart(b) => StepListsApart(Updated(b, u))
           /\ MovedOnce(b) => MovedOnce(Updated(b, u))
<1> DEFINE c == Updated(b, u)
<1>1. CASE u.arm \in {"CreateFlowStepInputs", "DeleteFlowStepInputs",
                      "CreateFlowStepOutputs", "DeletedFlowStepOutputs"}
  <2>1. c.reordered = b.reordered
    BY <1>1 DEF Updated, CreateFlowStepInputs, DeleteFlowStepInputs, CreateFlowStepOutputs,
                DeletedFlowStepOutputs, RowSet
  <2>2. \A pairs : pairs.created \cap pairs.deleted = {} =>
           /\ Added(pairs, u.step, u.ids).created \cap Added(pairs, u.step, u.ids).deleted = {}
           /\ Removed(pairs, u.step, u.ids).created \cap Removed(pairs, u.step, u.ids).deleted = {}
    BY DEF Added, Removed
  <2>3. \/ /\ c.inputs \in {Added(b.inputs, u.step, u.ids), Removed(b.inputs, u.step, u.ids)}
           /\ c.outputs = b.outputs
        \/ /\ c.outputs \in {Added(b.outputs, u.step, u.ids), Removed(b.outputs, u.step, u.ids)}
           /\ c.inputs = b.inputs
    BY <1>1 DEF Updated, CreateFlowStepInputs, DeleteFlowStepInputs, CreateFlowStepOutputs,
                DeletedFlowStepOutputs, RowSet
  <2> QED
    BY <2>1, <2>2, <2>3 DEF StepListsApart, MovedOnce
<1>2. CASE u.arm = "UndoDeleteOutput"
  <2>1. /\ c.reordered = b.reordered /\ c.inputs = b.inputs
        /\ c.outputs.created = b.outputs.created
        /\ c.outputs.deleted \subseteq b.outputs.deleted
    BY <1>2 DEF Updated, UndoDeleteOutput, RowSet, Pairs
  <2> QED
    BY <2>1 DEF StepListsApart, MovedOnce
<1>3. CASE u.arm = "ReorderNode"
  <2> DEFINE rest == MovesOfOthers(b.reordered, u.move.id)
  <2>1. c.inputs = b.inputs /\ c.outputs = b.outputs /\ c.reordered = Append(rest, u.move)
    BY <1>3 DEF Updated, ReorderNode, RowSet
  <2>2. ASSUME MovedOnce(b)
        PROVE  MovedOnce(c)
    <3>1. /\ rest \in Seq(Moves)
          /\ \A p \in DOMAIN rest : rest[p].id # u.move.id
          /\ \A p, q \in DOMAIN rest : rest[p].id = rest[q].id => p = q
      BY <2>2, OthersMoves DEF RowSet, MovedOnce
    <3> HIDE DEF rest
    <3>2. /\ DOMAIN Append(rest, u.move) = 1 .. Len(rest) + 1
          /\ DOMAIN rest = 1 .. Len(rest) /\ Len(rest) \in Nat
          /\ Append(rest, u.move)[Len(rest) + 1] = u.move
          /\ \A p \in DOMAIN rest : Append(rest, u.move)[p] = rest[p]
      BY <1>3, <3>1, Arms
    <3>3. \A p, q \in DOMAIN Append(rest, u.move) :
             Append(rest, u.move)[p].id = Append(rest, u.move)[q].id => p = q
      BY <3>1, <3>2
    <3> QED
      BY <2>1, <3>3 DEF MovedOnce
  <2> QED
    BY <2>1, <2>2 DEF StepListsApart
<1>4. CASE u.arm \in {"CreateFlowStepNodes", "DeleteFlowStepNodes"}
  <2>1. c.reordered = b.reordered /\ c.inputs = b.inputs /\ c.outputs = b.outputs
    BY <1>4 DEF Updated, CreateFlowStepNodes, DeleteFlowStepNodes, RowSet
  <2> QED
    BY <2>1 DEF StepListsApart, MovedOnce
<1>5. CASE u.arm \in {"CreateInitialInput", "DeleteInitialInput", "UndoDeleteInitialInput"}
  <2>1. c.reordered = b.reordered /\ c.inputs = b.inputs /\ c.outputs = b.outputs
    BY <1>5 DEF Updated, CreateInitialInput, DeleteInitialInput, UndoDeleteInitialInput, RowSet
  <2> QED
    BY <2>1 DEF StepListsApart, MovedOnce
<1>6. CASE u.arm \in {"EditNode", "EditTitle", "EditDescription", "KeepFlowStep"}
  <2>1. c.reordered = b.reordered /\ c.inputs = b.inputs /\ c.outputs = b.outputs
    BY <1>6 DEF Updated, EditNode, EditTitle, EditDescription, KeepFlowStep, RowSet
  <2> QED
    BY <2>1 DEF StepListsApart, MovedOnce
<1>7. CASE u.arm \in Deciding
  <2>1. c.reordered = b.reordered /\ c.inputs = b.inputs /\ c.outputs = b.outputs
    <3>1. CASE u.arm = "CreateNode"
      BY <3>1 DEF Updated, CreateNode, RowSet
    <3>2. CASE u.arm = "DeleteNodes"
      BY <3>2 DEF Updated, DeleteNodes, RowSet
    <3>3. CASE u.arm \in Undoing
      BY <3>3 DEF Updated, Undoing, UndoDelete, RowSet
    <3>4. CASE u.arm = "Create"
      BY <3>4 DEF Updated, Create, RowSet
    <3>5. CASE u.arm = "Delete"
      BY <3>5 DEF Updated, Delete, RowSet
    <3>6. CASE u.arm = "Restore"
      BY <3>6 DEF Updated, Restore, RowSet
    <3> QED
      BY <1>7, <3>1, <3>2, <3>3, <3>4, <3>5, <3>6 DEF Deciding, Pulling, Creating
  <2> QED
    BY <2>1 DEF StepListsApart, MovedOnce
<1> QED
  BY Arms, <1>1, <1>2, <1>3, <1>4, <1>5, <1>6, <1>7

-----------------------------------------------------------------------------
(* The invariant.                                                          *)

Written(r) == mode[r] \in {"reread", "check"}

\* A request is idle when it has no update left; it holds a copy of a column
\* for an update that writes one.
Queued ==
    /\ queue \in [Requests -> Seq(Updates)]
    /\ \A r \in Requests : mode[r] = "idle" <=> queue[r] = << >>
    /\ \A r \in Requests : mode[r] = "write" => Column(Update(r)) # "none"

\* What is to be created is unknown until then, and nobody else creates it;
\* what is decided about otherwise is known.
Fresh ==
    /\ \A r \in Requests : \A k \in DOMAIN queue[r] :
          /\ queue[r][k].arm \in Creating =>
                /\ queue[r][k].id \in NewObjects
                /\ ~(k = 1 /\ Written(r)) => fate[queue[r][k].id] = "none"
          /\ queue[r][k].arm \notin Creating =>
                \A o \in SubjectsOf(queue[r][k]) : Known(o)
    /\ \A r, q \in Requests : \A j \in DOMAIN queue[r], k \in DOMAIN queue[q] :
          /\ queue[r][j].arm \in Creating /\ queue[q][k].arm \in Creating
          /\ queue[r][j].id = queue[q][k].id
          => r = q /\ j = k

\* What nobody knows is on no list.
Unlisted(b) == \A o \in Objects : ~Known(o) => o \notin b.deleted \cup b.restored

\* The lists of b say what was decided last.
Tells(b) ==
    \A o \in Objects \ overtaken :
        /\ o \in b.deleted <=> fate[o] = "deleted"
        /\ o \in b.restored <=> fate[o] = "restored"
        /\ fate[o] = "created" => o \in b.created

IInv ==
    /\ TypeOK /\ Queued /\ Fresh
    /\ Unlisted(row) /\ Exclusive(row) /\ MovedOnce(row) /\ Tells(row)
    /\ \A r \in Requests :
          /\ Unlisted(copy[r]) /\ Exclusive(copy[r]) /\ MovedOnce(copy[r])
          /\ mode[r] = "check" => Tells(copy[r])

-----------------------------------------------------------------------------
(* Facts that several steps need.                                          *)

\* A new branch's row lists nothing.
LEMMA NewRowFacts ==
    NewRow \in RowSet /\ Unlisted(NewRow) /\ Exclusive(NewRow) /\ MovedOnce(NewRow)
<1>1. NewRow \in RowSet
  BY DEF NewRow, NoPairs, RowSet, Pairs
<1> QED
  BY <1>1 DEF NewRow, NoPairs, Unlisted, Exclusive, MovedOnce

\* What a check finds are objects.
LEMMA ConflictsType ==
    ASSUME NEW b \in RowSet, NEW S \in SUBSET Objects
    PROVE  Conflicts(b, S, Ancestors) \subseteq Objects
<1>1. NodeConflicts(b, S, Ancestors) \subseteq Objects
  <2>1. CreatedNodes(b, Ancestors) \cup EditedNodes(b) \subseteq Nodes
    BY DEF RowSet, CreatedNodes, NodesKept, EditedNodes
  <2>2. DeletedAncestors(b, CreatedNodes(b, Ancestors) \cup EditedNodes(b), S, Ancestors)
           \subseteq Nodes
    BY <2>1, BranchChangesAssumption DEF DeletedAncestors
  <2> QED
    BY <2>1, <2>2 DEF NodeConflicts, Objects
<1>2. CreatedSteps(b) \cup RestoredSteps(b, S) \subseteq Steps
  BY DEF CreatedSteps, RestoredSteps, StepsKept
<1>3. CreatedIos(b) \cup RestoredIos(b, S) \subseteq Ios
  BY DEF CreatedIos, RestoredIos, IosKept
<1>4. b.nodes.steps \subseteq Steps /\ b.inputs.steps \subseteq Steps
  BY DEF RowSet, Pairs
<1>5. FlowConflicts(b, S) \subseteq Objects
  <2>1. \A o \in Steps \cup Ios : FlowOf[o] \in Flows \cup {None}
    BY BranchRowAssumption
  <2>2. EditedFlows(b, S) \subseteq Flows
    BY <1>2, <1>3, <1>4, <2>1 DEF EditedFlows
  <2> QED
    BY <2>2 DEF FlowConflicts, Unfound, Objects
<1>6. StepConflicts(b, S) \subseteq Objects
  <2>1. \A o \in Ios : StepOf[o] \in Steps \cup {None}
    BY BranchRowAssumption
  <2>2. EditedSteps(b, S) \subseteq Steps
    BY <1>3, <1>4, <2>1 DEF EditedSteps
  <2> QED
    BY <2>2 DEF StepConflicts, Unfound, Objects
<1>7. IndexConflicts(b, S) \subseteq Objects
  BY <1>2 DEF IndexConflicts, Objects
<1>8. IoConflicts(b, S) \subseteq Objects
  BY DEF IoConflicts, Objects
<1> QED
  BY <1>1, <1>5, <1>6, <1>7, <1>8 DEF Conflicts

\* A request has nothing left when its queue is empty.
LEMMA NoneLeft ==
    ASSUME NEW S, NEW s \in Seq(S)
    PROVE  s = << >> <=> Len(s) = 0
  OBVIOUS

\* A request that is not idle has a current update.
LEMMA Current ==
    ASSUME Queued, NEW r \in Requests, mode[r] # "idle"
    PROVE  /\ queue[r] \in Seq(Updates) /\ queue[r] # << >>
           /\ 1 \in DOMAIN queue[r] /\ Update(r) = queue[r][1] /\ Update(r) \in Updates
  BY DEF Queued, Update

\* What an update decides about are objects, and those that create decide
\* about one.
LEMMA Subjects ==
    ASSUME NEW u \in Updates
    PROVE  SubjectsOf(u) \subseteq Objects /\ (u.arm \in Creating => SubjectsOf(u) = {u.id})
<1>1. u.arm \in Creating => SubjectsOf(u) = {u.id} /\ u.id \in Objects
  BY Arms DEF SubjectsOf, Creating, Deciding, Undoing, Objects
<1>2. u.arm \in {"DeleteNodes"} \cup Undoing => SubjectsOf(u) = u.ids /\ u.ids \subseteq Objects
  BY Arms DEF SubjectsOf, Undoing, Deciding, Pulling, Objects
<1>3. u.arm \in {"Delete", "Restore"} => SubjectsOf(u) = {u.id} /\ u.id \in Objects
  BY Arms DEF SubjectsOf, Undoing, Deciding, Pulling, Objects
<1>4. u.arm \notin Deciding => SubjectsOf(u) = {}
  BY DEF SubjectsOf
<1> QED
  BY <1>1, <1>2, <1>3, <1>4 DEF Deciding, Pulling

\* The end of an update leaves what is queued as it should be.
LEMMA DoneKeeps ==
    ASSUME IInv, NEW r \in Requests, Written(r), Done(r), UNCHANGED <<fate, overtaken>>
    PROVE  /\ Queued' /\ Fresh'
           /\ copy' \in [Requests -> RowSet]
           /\ mode' \in [Requests -> {"idle", "update", "write", "reread", "check"}]
           /\ \A q \in Requests :
                 /\ Unlisted(copy[q])' /\ Exclusive(copy[q])' /\ MovedOnce(copy[q])'
                 /\ mode'[q] = "check" => Tells(copy[q])'
<1> USE DEF IInv, TypeOK
<1>1. /\ queue[r] \in Seq(Updates) /\ queue[r] # << >>
      /\ queue \in [Requests -> Seq(Updates)]
  BY Current DEF Written, Queued
<1>2. /\ Tail(queue[r]) \in Seq(Updates)
      /\ Len(queue[r]) = 1 <=> Tail(queue[r]) = << >>
      /\ \A k \in DOMAIN Tail(queue[r]) :
            k \in Nat \ {0} /\ k + 1 \in DOMAIN queue[r] /\ Tail(queue[r])[k] = queue[r][k + 1]
  <2> DEFINE t == Tail(queue[r])
  <2>1. t \in Seq(Updates) /\ Len(t) = Len(queue[r]) - 1 /\ Len(queue[r]) \in Nat \ {0}
    BY <1>1
  <2>2. \A k \in 1 .. Len(t) : t[k] = queue[r][k + 1]
    BY <1>1
  <2>3. DOMAIN t = 1 .. Len(t) /\ DOMAIN queue[r] = 1 .. Len(queue[r])
    BY <1>1, <2>1
  <2> HIDE DEF t
  <2>4. t = << >> <=> Len(t) = 0
    BY <2>1, NoneLeft
  <2>5. \A k \in DOMAIN t : k \in Nat \ {0} /\ k + 1 \in DOMAIN queue[r]
    BY <2>1, <2>3
  <2>6. Len(queue[r]) = 1 <=> t = << >>
    BY <2>1, <2>4
  <2>7. \A k \in DOMAIN t : t[k] = queue[r][k + 1]
    BY <2>2, <2>3
  <2> QED
    BY <2>1, <2>5, <2>6, <2>7 DEF t
<1>3. /\ queue' \in [Requests -> Seq(Updates)] /\ queue'[r] = Tail(queue[r])
      /\ \A q \in Requests \ {r} : queue'[q] = queue[q]
  BY <1>1, <1>2 DEF Done
<1>4. /\ mode' \in [Requests -> {"idle", "update", "write", "reread", "check"}]
      /\ mode'[r] = IF Len(queue[r]) = 1 THEN "idle" ELSE "update"
      /\ \A q \in Requests \ {r} : mode'[q] = mode[q]
  BY DEF Done
<1>5. /\ copy' \in [Requests -> RowSet] /\ copy'[r] = NewRow
      /\ \A q \in Requests \ {r} : copy'[q] = copy[q]
  BY NewRowFacts DEF Done
<1>6. Queued'
  BY <1>2, <1>3, <1>4 DEF Queued, Update
<1>7. Fresh'
  <2>1. \A q \in Requests : \A k \in DOMAIN queue'[q] : \E j \in DOMAIN queue[q] :
           /\ queue'[q][k] = queue[q][j]
           /\ j = IF q = r THEN k + 1 ELSE k
           /\ ~(j = 1 /\ Written(q)) <=> ~(k = 1 /\ Written(q)')
    <3> TAKE q \in Requests
    <3> TAKE k \in DOMAIN queue'[q]
    <3>1. CASE q = r
      <4>1. k + 1 \in DOMAIN queue[r] /\ queue'[r][k] = queue[r][k + 1] /\ k + 1 # 1
        BY <1>2, <1>3, <3>1, SMTT(30)
      <4>2. ~Written(r)'
        BY <1>4 DEF Written
      <4> QED
        BY <3>1, <4>1, <4>2
    <3>2. CASE q # r
      BY <1>3, <1>4, <3>2 DEF Written
    <3> QED
      BY <3>1, <3>2
  <2>2. \A q \in Requests : \A k \in DOMAIN queue'[q] : k \in Int
    BY <1>3
  <2>3. ASSUME NEW q \in Requests, NEW k \in DOMAIN queue'[q]
        PROVE  /\ queue'[q][k].arm \in Creating =>
                     /\ queue'[q][k].id \in NewObjects
                     /\ ~(k = 1 /\ Written(q)') => fate'[queue'[q][k].id] = "none"
               /\ queue'[q][k].arm \notin Creating =>
                     \A o \in SubjectsOf(queue'[q][k]) : Known(o)'
    BY <2>1, <2>3 DEF Fresh, Known
  <2>4. ASSUME NEW p \in Requests, NEW q \in Requests,
               NEW j \in DOMAIN queue'[p], NEW k \in DOMAIN queue'[q],
               queue'[p][j].arm \in Creating, queue'[q][k].arm \in Creating,
               queue'[p][j].id = queue'[q][k].id
        PROVE  p = q /\ j = k
    <3>1. PICK i \in DOMAIN queue[p] :
             queue'[p][j] = queue[p][i] /\ i = IF p = r THEN j + 1 ELSE j
      BY <2>1
    <3>2. PICK l \in DOMAIN queue[q] :
             queue'[q][k] = queue[q][l] /\ l = IF q = r THEN k + 1 ELSE k
      BY <2>1
    <3>3. p = q /\ i = l
      BY <2>4, <3>1, <3>2 DEF Fresh
    <3> QED
      BY <2>2, <3>1, <3>2, <3>3
  <2> QED
    BY <2>3, <2>4 DEF Fresh
<1>8. ASSUME NEW q \in Requests
      PROVE  /\ Unlisted(copy[q])' /\ Exclusive(copy[q])' /\ MovedOnce(copy[q])'
             /\ mode'[q] = "check" => Tells(copy[q])'
  <2>1. CASE q = r
    BY <1>4, <1>5, <2>1, NewRowFacts DEF Unlisted, Known, Exclusive, MovedOnce
  <2>2. CASE q # r
    BY <1>4, <1>5, <2>2 DEF Unlisted, Known, Exclusive, MovedOnce, Tells
  <2> QED
    BY <2>1, <2>2
<1> QED
  BY <1>4, <1>5, <1>6, <1>7, <1>8

-----------------------------------------------------------------------------
(* The steps.                                                              *)

\* It holds of a new branch.
LEMMA InitHolds == Init => IInv
<1> SUFFICES ASSUME Init PROVE IInv
  OBVIOUS
<1> USE DEF Init
<1>1. TypeOK
  BY NewRowFacts, BranchChangesAssumption DEF TypeOK
<1>2. Queued
  BY DEF Queued
<1>3. Fresh
  BY DEF Fresh
<1>4. Tells(row)
  BY DEF Tells, NewRow
<1> QED
  BY <1>1, <1>2, <1>3, <1>4, NewRowFacts DEF IInv

\* A call comes with its updates.
LEMMA ArriveStep ==
    ASSUME IInv, NEW r \in Requests, Arrive(r)
    PROVE  IInv'
<1> USE DEF IInv, TypeOK
<1>1. PICK call \in Calls :
         /\ \A u \in Elements(call) :
               IF u.arm \in Creating THEN ~Known(u.id) /\ u.id \notin BeingCreated
               ELSE \A o \in SubjectsOf(u) : Known(o)
         /\ queue' = [queue EXCEPT ![r] = call]
  BY DEF Arrive
<1>2. call \in Seq(Updates) /\ call # << >>
  BY BranchChangesAssumption
<1>3. \A k \in DOMAIN call : call[k] \in Elements(call) /\ call[k] \in Updates
  BY <1>2 DEF Elements
<1>4. /\ mode[r] = "idle" /\ mode' = [mode EXCEPT ![r] = "update"]
      /\ calls' = calls + 1 /\ calls < MaxCalls
      /\ UNCHANGED <<row, original, copy, fate, overtaken, faults>>
  BY DEF Arrive
<1>5. TypeOK'
  BY <1>4, BranchChangesAssumption
<1>6. Queued'
  <2>1. queue' \in [Requests -> Seq(Updates)]
    BY <1>1, <1>2 DEF Queued
  <2>2. ASSUME NEW q \in Requests
        PROVE  /\ mode'[q] = "idle" <=> queue'[q] = << >>
               /\ mode'[q] = "write" => Column(Update(q)') # "none"
    BY <1>1, <1>2, <1>4 DEF Queued, Update
  <2> QED
    BY <2>1, <2>2 DEF Queued, Update
<1>7. Fresh'
  <2>1. /\ queue'[r] = call /\ ~Written(r)'
        /\ \A q \in Requests \ {r} : queue'[q] = queue[q] /\ (Written(q)' <=> Written(q))
    BY <1>1, <1>4 DEF Queued, Written
  <2>2. \A q \in Requests : \A k \in DOMAIN queue[q] :
           queue[q][k].arm \in Creating => queue[q][k].id \in BeingCreated
    <3> TAKE q \in Requests
    <3> TAKE k \in DOMAIN queue[q]
    <3>1. queue[q][k] \in UNION {Elements(queue[p]) : p \in Requests}
      BY DEF Elements
    <3> HAVE queue[q][k].arm \in Creating
    <3> QED
      BY <3>1 DEF BeingCreated
  <2>3. ASSUME NEW q \in Requests, NEW k \in DOMAIN queue'[q]
        PROVE  /\ queue'[q][k].arm \in Creating =>
                     /\ queue'[q][k].id \in NewObjects
                     /\ ~(k = 1 /\ Written(q)') => fate'[queue'[q][k].id] = "none"
               /\ queue'[q][k].arm \notin Creating =>
                     \A o \in SubjectsOf(queue'[q][k]) : Known(o)'
    <3>1. CASE q = r
      BY <1>1, <1>3, <1>4, <2>1, <2>3, <3>1 DEF Known
    <3>2. CASE q # r
      BY <1>4, <2>1, <2>3, <3>2 DEF Fresh, Known
    <3> QED
      BY <3>1, <3>2
  <2>4. ASSUME NEW p \in Requests, NEW q \in Requests,
               NEW j \in DOMAIN queue'[p], NEW k \in DOMAIN queue'[q],
               queue'[p][j].arm \in Creating, queue'[q][k].arm \in Creating,
               queue'[p][j].id = queue'[q][k].id
        PROVE  p = q /\ j = k
    <3>1. CASE p = r /\ q = r
      BY <2>1, <2>4, <3>1, BranchChangesAssumption
    <3>2. CASE p = r /\ q # r
      BY <1>1, <1>3, <2>1, <2>2, <2>4, <3>2
    <3>3. CASE p # r /\ q = r
      BY <1>1, <1>3, <2>1, <2>2, <2>4, <3>3
    <3>4. CASE p # r /\ q # r
      BY <2>1, <2>4, <3>4 DEF Fresh
    <3> QED
      BY <3>1, <3>2, <3>3, <3>4
  <2> QED
    BY <2>3, <2>4 DEF Fresh
<1>8. /\ Unlisted(row)' /\ Exclusive(row)' /\ MovedOnce(row)' /\ Tells(row)'
      /\ \A q \in Requests :
            /\ Unlisted(copy[q])' /\ Exclusive(copy[q])' /\ MovedOnce(copy[q])'
            /\ mode'[q] = "check" => Tells(copy[q])'
  BY <1>4 DEF Unlisted, Known, Exclusive, MovedOnce, Tells
<1> QED
  BY <1>5, <1>6, <1>7, <1>8

\* A column is read to be written whole.
LEMMA ReadStep ==
    ASSUME IInv, NEW r \in Requests, Read(r)
    PROVE  IInv'
<1> USE DEF IInv, TypeOK
<1>1. /\ mode[r] = "update" /\ mode' = [mode EXCEPT ![r] = "write"]
      /\ copy' = [copy EXCEPT ![r] = row] /\ Column(Update(r)) # "none"
      /\ UNCHANGED <<row, original, queue, fate, overtaken, calls, faults>>
  BY DEF Read
<1>2. TypeOK'
  BY <1>1
<1>3. Queued'
  BY <1>1 DEF Queued, Update
<1>4. Fresh'
  BY <1>1 DEF Fresh, Known, Written
<1>5. Unlisted(row)' /\ Exclusive(row)' /\ MovedOnce(row)' /\ Tells(row)'
  BY <1>1 DEF Unlisted, Known, Exclusive, MovedOnce, Tells
<1>6. ASSUME NEW q \in Requests
      PROVE  /\ Unlisted(copy[q])' /\ Exclusive(copy[q])' /\ MovedOnce(copy[q])'
             /\ mode'[q] = "check" => Tells(copy[q])'
  <2>1. copy'[q] = (IF q = r THEN row ELSE copy[q])
        /\ mode'[q] = (IF q = r THEN "write" ELSE mode[q])
    BY <1>1
  <2> QED
    BY <1>1, <2>1 DEF Unlisted, Known, Exclusive, MovedOnce, Tells
<1> QED
  BY <1>2, <1>3, <1>4, <1>5, <1>6

\* After a write, done or failed, the queues are as they were.
LEMMA WriteKeeps ==
    ASSUME IInv, NEW r \in Requests, mode[r] \in {"update", "write"},
           mode' = [mode EXCEPT ![r] = "reread"], copy' = [copy EXCEPT ![r] = NewRow],
           UNCHANGED queue
    PROVE  /\ Queued'
           /\ copy' \in [Requests -> RowSet]
           /\ mode' \in [Requests -> {"idle", "update", "write", "reread", "check"}]
           /\ Written(r)'
           /\ \A q \in Requests \ {r} : Written(q)' <=> Written(q)
           /\ \A q \in Requests :
                 copy'[q] = NewRow \/ (q # r /\ copy'[q] = copy[q] /\ mode'[q] = mode[q])
           /\ mode'[r] = "reread"
<1> USE DEF IInv, TypeOK
<1>1. Queued'
  BY Current DEF Queued, Update
<1>2. copy' \in [Requests -> RowSet] /\ \A q \in Requests : copy'[q] = IF q = r THEN NewRow ELSE copy[q]
  BY NewRowFacts
<1>3. /\ mode' \in [Requests -> {"idle", "update", "write", "reread", "check"}]
      /\ \A q \in Requests : mode'[q] = IF q = r THEN "reread" ELSE mode[q]
  OBVIOUS
<1>4. Written(r)' /\ \A q \in Requests \ {r} : Written(q)' <=> Written(q)
  BY <1>3 DEF Written
<1>5. \A q \in Requests :
         copy'[q] = NewRow \/ (q # r /\ copy'[q] = copy[q] /\ mode'[q] = mode[q])
  BY <1>2, <1>3
<1> QED
  BY <1>1, <1>2, <1>3, <1>4, <1>5

\* An update's write fails, and the request goes on.
LEMMA FailWriteStep ==
    ASSUME IInv, NEW r \in Requests, FailWrite(r)
    PROVE  IInv'
<1> USE DEF IInv, TypeOK
<1>1. /\ mode[r] \in {"update", "write"}
      /\ mode' = [mode EXCEPT ![r] = "reread"] /\ copy' = [copy EXCEPT ![r] = NewRow]
      /\ faults' = faults + 1 /\ faults < MaxFaults
      /\ UNCHANGED <<row, original, queue, fate, overtaken, calls>>
  BY DEF FailWrite
<1>2. /\ copy' \in [Requests -> RowSet]
      /\ mode' \in [Requests -> {"idle", "update", "write", "reread", "check"}]
      /\ Queued'
  BY <1>1, WriteKeeps
<1>6. TypeOK'
  BY <1>1, <1>2, BranchChangesAssumption
<1>3. Fresh'
  <2>1. \A q \in Requests : Written(q) => Written(q)'
    BY <1>1, WriteKeeps
  <2> QED
    BY <1>1, <2>1 DEF Fresh, Known
<1>4. Unlisted(row)' /\ Exclusive(row)' /\ MovedOnce(row)' /\ Tells(row)'
  BY <1>1 DEF Unlisted, Known, Exclusive, MovedOnce, Tells
<1>5. ASSUME NEW q \in Requests
      PROVE  /\ Unlisted(copy[q])' /\ Exclusive(copy[q])' /\ MovedOnce(copy[q])'
             /\ mode'[q] = "check" => Tells(copy[q])'
  <2>1. \/ q = r /\ copy'[q] = NewRow /\ mode'[q] = "reread"
        \/ q # r /\ copy'[q] = copy[q] /\ mode'[q] = mode[q]
    BY <1>1
  <2> QED
    BY <1>1, <2>1, NewRowFacts DEF Unlisted, Known, Exclusive, MovedOnce, Tells
<1> QED
  BY <1>2, <1>3, <1>4, <1>5, <1>6

\* What a request decides is known from then on, and what it creates was not.
LEMMA Decides ==
    ASSUME IInv, NEW r \in Requests, Write(r)
    PROVE  LET u == Update(r)  S == SubjectsOf(u) IN
           /\ fate' \in [Objects -> {"none", "created", "deleted", "restored", "undone"}]
           /\ \A o \in Objects \ S : fate'[o] = fate[o]
           /\ \A o \in S : o \in Objects /\ fate'[o] = FateOf(u, fate[o]) /\ Known(o)'
           /\ \A o \in Objects : Known(o) => Known(o)'
           /\ u.arm \in Creating => u.id \in NewObjects /\ fate[u.id] = "none"
           /\ u.arm \notin Creating => \A o \in S : Known(o)
<1> USE DEF IInv, TypeOK
<1> DEFINE u == Update(r)
           S == SubjectsOf(u)
<1>1. mode[r] \in {"update", "write"} /\ u = queue[r][1] /\ 1 \in DOMAIN queue[r] /\ u \in Updates
  BY Current DEF Write
<1>2. S \subseteq Objects
  BY <1>1, Subjects
<1>3. fate' = [o \in Objects |-> IF o \in S THEN FateOf(u, fate[o]) ELSE fate[o]]
  BY DEF Write
<1>4. /\ u.arm \in Creating => u.id \in NewObjects /\ fate[u.id] = "none"
      /\ u.arm \notin Creating => \A o \in S : Known(o)
  BY <1>1 DEF Fresh, Written
<1> HIDE DEF u, S
<1>5. ASSUME NEW before \in {"none", "created", "deleted", "restored", "undone"}
      PROVE  /\ u.arm \in Pulling => FateOf(u, before) = "deleted"
             /\ u.arm = "Restore" => FateOf(u, before) = "restored"
             /\ u.arm \in Creating => FateOf(u, before) = "created"
             /\ u.arm \notin Pulling \cup Creating \cup {"Restore"} =>
                   FateOf(u, before) = IF before = "deleted" THEN "undone" ELSE before
  BY DEF FateOf, Pulling, Creating
<1>6. \A o \in Objects : fate'[o] \in {"none", "created", "deleted", "restored", "undone"}
  BY <1>3, <1>5
<1>7. \A o \in Objects : fate[o] # "none" => fate'[o] # "none"
  BY <1>3, <1>5
<1>8. u.arm \in Creating => \A o \in S : fate'[o] # "none"
  BY <1>2, <1>3, <1>5
<1>9. \A o \in Objects : Known(o) => Known(o)'
  BY <1>7 DEF Known
<1>10. \A o \in S : Known(o)'
  BY <1>2, <1>4, <1>8, <1>9 DEF Known
<1>11. fate' \in [Objects -> {"none", "created", "deleted", "restored", "undone"}]
  BY <1>3, <1>6
<1> QED
  BY <1>2, <1>3, <1>4, <1>9, <1>10, <1>11 DEF u, S

\* The row after a write has the lists that the update makes of it.
LEMMA Writes ==
    ASSUME IInv, NEW r \in Requests, Write(r)
    PROVE  LET u == Update(r) IN
           /\ row' \in RowSet /\ StepListsApart(row') /\ MovedOnce(row')
           /\ row'.deleted = Updated(row, u).deleted
           /\ row'.restored = Updated(row, u).restored
           /\ row'.created = Updated(row, u).created
<1> USE DEF IInv, TypeOK
<1> DEFINE u == Update(r)
           w == Updated(copy[r], u)
<1>1. mode[r] \in {"update", "write"} /\ u \in Updates
  BY Current DEF Write
<1>2. /\ row \in RowSet /\ StepListsApart(row) /\ MovedOnce(row)
      /\ copy[r] \in RowSet /\ StepListsApart(copy[r]) /\ MovedOnce(copy[r])
  BY DEF StepListsApart, Exclusive
<1>3. CASE Column(u) = "none"
  <2>1. row' = Updated(row, u)
    BY <1>3 DEF Write
  <2> QED
    BY <1>1, <1>2, <2>1, UpdatedType, UpdatedApart
<1>4. CASE Column(u) # "none"
  <2>1. row' = [row EXCEPT ![Column(u)] = w[Column(u)]]
    BY <1>4 DEF Write
  <2>2. Column(u) \in {"reordered", "inputs", "outputs"}
    BY <1>4 DEF Column
  <2>3. w \in RowSet /\ StepListsApart(w) /\ MovedOnce(w)
    BY <1>1, <1>2, UpdatedType, UpdatedApart
  <2>4. u.arm \notin Deciding
    BY <1>4 DEF Column, Deciding, Pulling, Undoing, Creating
  <2>5. /\ Updated(row, u).deleted = row.deleted /\ Updated(row, u).restored = row.restored
        /\ Updated(row, u).created = row.created
    BY <1>1, <1>2, <2>4, UpdatedLists
  <2> HIDE DEF u, w
  <2>6. CASE Column(u) = "reordered"
    <3>1. row' = [row EXCEPT !.reordered = w.reordered]
      BY <2>1, <2>6
    <3> QED
      BY <1>2, <2>3, <2>5, <3>1 DEF RowSet, StepListsApart, MovedOnce, u
  <2>7. CASE Column(u) = "inputs"
    <3>1. row' = [row EXCEPT !.inputs = w.inputs]
      BY <2>1, <2>7
    <3> QED
      BY <1>2, <2>3, <2>5, <3>1 DEF RowSet, StepListsApart, MovedOnce, u
  <2>8. CASE Column(u) = "outputs"
    <3>1. row' = [row EXCEPT !.outputs = w.outputs]
      BY <2>1, <2>8
    <3> QED
      BY <1>2, <2>3, <2>5, <3>1 DEF RowSet, StepListsApart, MovedOnce, u
  <2> QED
    BY <2>2, <2>6, <2>7, <2>8
<1> QED
  BY <1>3, <1>4

\* An update is written: the statement on the sets, or the column as it was
\* read with its change.
LEMMA WriteStep ==
    ASSUME IInv, NEW r \in Requests, Write(r)
    PROVE  IInv'
<1> USE DEF IInv, TypeOK
<1> DEFINE u == Update(r)
           S == SubjectsOf(u)
<1>1. /\ mode[r] \in {"update", "write"}
      /\ mode' = [mode EXCEPT ![r] = "reread"] /\ copy' = [copy EXCEPT ![r] = NewRow]
      /\ overtaken' = IF \E q \in Requests \ {r} : mode[q] = "check"
                      THEN overtaken \cup S ELSE overtaken
      /\ UNCHANGED <<original, queue, calls, faults>>
  BY DEF Write
<1>2. u \in Updates /\ u = queue[r][1] /\ 1 \in DOMAIN queue[r]
  BY <1>1, Current
<1>3. S \subseteq Objects /\ (u.arm \in Creating => S = {u.id})
  BY <1>2, Subjects
<1>4. /\ Queued'
      /\ copy' \in [Requests -> RowSet]
      /\ mode' \in [Requests -> {"idle", "update", "write", "reread", "check"}]
      /\ Written(r)'
      /\ \A q \in Requests \ {r} : Written(q)' <=> Written(q)
      /\ mode'[r] = "reread"
      /\ \A q \in Requests :
            copy'[q] = NewRow \/ (q # r /\ copy'[q] = copy[q] /\ mode'[q] = mode[q])
  BY <1>1, WriteKeeps
<1>5. /\ fate' \in [Objects -> {"none", "created", "deleted", "restored", "undone"}]
      /\ \A o \in Objects \ S : fate'[o] = fate[o]
      /\ \A o \in S : o \in Objects /\ fate'[o] = FateOf(u, fate[o]) /\ Known(o)'
      /\ \A o \in Objects : Known(o) => Known(o)'
      /\ u.arm \in Creating => u.id \in NewObjects /\ fate[u.id] = "none"
      /\ u.arm \notin Creating => \A o \in S : Known(o)
  BY Decides
<1>6. /\ row' \in RowSet /\ StepListsApart(row') /\ MovedOnce(row')
      /\ row'.deleted = Updated(row, u).deleted
      /\ row'.restored = Updated(row, u).restored
      /\ row'.created = Updated(row, u).created
  BY Writes
<1>7. /\ u.arm \in Pulling => /\ row'.deleted = row.deleted \cup S
                              /\ row'.restored = row.restored \ S
                              /\ row'.created \subseteq row.created
                              /\ S \cap row'.created \subseteq Nodes
                              /\ row.created \ S \subseteq row'.created
      /\ u.arm \in Undoing => /\ row'.deleted = row.deleted \ S
                              /\ row'.restored = row.restored /\ row'.created = row.created
      /\ u.arm \in Creating => /\ row'.created = row.created \cup S
                               /\ row'.restored = row.restored /\ row'.deleted = row.deleted
      /\ u.arm = "Restore" => /\ row'.restored = row.restored \cup S
                              /\ row'.deleted = row.deleted \ S /\ row'.created = row.created
      /\ u.arm \notin Deciding => /\ row'.deleted = row.deleted /\ S = {}
                                  /\ row'.restored = row.restored /\ row'.created = row.created
  BY <1>2, <1>6, UpdatedLists
<1>8. u.arm = "Create" => u.id \notin Nodes
  BY <1>2, Arms
<1> HIDE DEF u, S
<1>9. TypeOK'
  BY <1>1, <1>3, <1>4, <1>5, <1>6
<1>10. Fresh'
  <2>1. ASSUME NEW q \in Requests, NEW k \in DOMAIN queue[q], queue[q][k].arm \in Creating
        PROVE  /\ queue[q][k].id \in NewObjects
               /\ ~(k = 1 /\ Written(q)') => fate'[queue[q][k].id] = "none"
    <3>1. queue[q][k].id \in NewObjects /\ queue[q][k].id \in Objects
      BY <2>1, BranchChangesAssumption DEF Fresh
    <3>2. ASSUME ~(k = 1 /\ Written(q)')
          PROVE  fate'[queue[q][k].id] = "none"
      <4>1. ~(q = r /\ k = 1)
        BY <1>4, <3>2
      <4>2. ~(k = 1 /\ Written(q))
        BY <1>1, <1>4, <3>2 DEF Written
      <4>3. fate[queue[q][k].id] = "none" /\ ~Known(queue[q][k].id)
        BY <2>1, <3>1, <4>2 DEF Fresh, Known
      <4>4. queue[q][k].id \notin S
        <5>1. CASE u.arm \in Creating
          BY <1>2, <1>3, <2>1, <4>1, <5>1 DEF Fresh
        <5>2. CASE u.arm \notin Creating
          BY <1>5, <4>3, <5>2
        <5> QED
          BY <5>1, <5>2
      <4> QED
        BY <1>5, <3>1, <4>3, <4>4
    <3> QED
      BY <3>1, <3>2
  <2>2. ASSUME NEW q \in Requests, NEW k \in DOMAIN queue[q], queue[q][k].arm \notin Creating
        PROVE  \A o \in SubjectsOf(queue[q][k]) : Known(o)'
    <3>1. queue[q][k] \in Updates
      BY DEF Queued
    <3>2. SubjectsOf(queue[q][k]) \subseteq Objects
      BY <3>1, Subjects
    <3> QED
      BY <1>5, <2>2, <3>2 DEF Fresh
  <2> QED
    BY <1>1, <2>1, <2>2 DEF Fresh
<1>11. Unlisted(row)'
  <2> SUFFICES ASSUME NEW o \in Objects, ~Known(o)'
               PROVE  o \notin row'.deleted \cup row'.restored
    BY DEF Unlisted
  <2>1. o \notin S /\ ~Known(o)
    BY <1>5
  <2>2. o \notin row.deleted \cup row.restored
    BY <2>1 DEF Unlisted
  <2> QED
    BY <1>7, <2>1, <2>2 DEF Deciding
<1>12. Exclusive(row)'
  <2>1. /\ row.deleted \cap row.restored = {} /\ row.deleted \cap row.created \subseteq Nodes
    BY DEF Exclusive
  <2>2. u.arm \in Creating => u.id \notin row.deleted
    BY <1>3, <1>5 DEF Unlisted, Known
  <2>3. row'.deleted \cap row'.restored = {} /\ row'.deleted \cap row'.created \subseteq Nodes
    <3>1. CASE u.arm \in Pulling
      BY <1>7, <2>1, <3>1
    <3>2. CASE u.arm \in Undoing
      BY <1>7, <2>1, <3>2
    <3>3. CASE u.arm \in Creating
      BY <1>3, <1>7, <2>1, <2>2, <3>3
    <3>4. CASE u.arm = "Restore"
      BY <1>7, <2>1, <3>4
    <3>5. CASE u.arm \notin Deciding
      BY <1>7, <2>1, <3>5
    <3> QED
      BY <3>1, <3>2, <3>3, <3>4, <3>5 DEF Deciding
  <2> QED
    BY <1>6, <2>3 DEF Exclusive, StepListsApart
<1>13. Tells(row)'
  <2> SUFFICES ASSUME NEW o \in Objects \ overtaken'
               PROVE  /\ o \in row'.deleted <=> fate'[o] = "deleted"
                      /\ o \in row'.restored <=> fate'[o] = "restored"
                      /\ fate'[o] = "created" => o \in row'.created
    BY DEF Tells
  <2>1. /\ o \in row.deleted <=> fate[o] = "deleted"
        /\ o \in row.restored <=> fate[o] = "restored"
        /\ fate[o] = "created" => o \in row.created
    BY <1>1 DEF Tells
  <2>2. CASE o \notin S
    BY <1>5, <1>7, <2>1, <2>2 DEF Deciding
  <2>3. CASE o \in S
    <3>1. fate'[o] = FateOf(u, fate[o])
      BY <1>5, <2>3
    <3>2. CASE u.arm \in Pulling
      <4>1. fate'[o] = "deleted"
        BY <3>1, <3>2 DEF FateOf, Pulling, Creating
      <4>2. row'.deleted = row.deleted \cup S /\ row'.restored = row.restored \ S
        BY <1>7, <3>2
      <4> QED
        BY <2>3, <4>1, <4>2
    <3>3. CASE u.arm \in Undoing
      <4>1. fate'[o] = IF fate[o] = "deleted" THEN "undone" ELSE fate[o]
        BY <3>1, <3>3 DEF FateOf, Pulling, Creating, Undoing
      <4>2. /\ row'.deleted = row.deleted \ S /\ row'.restored = row.restored
            /\ row'.created = row.created
        BY <1>7, <3>3
      <4> QED
        BY <2>1, <2>3, <4>1, <4>2
    <3>4. CASE u.arm \in Creating
      <4>1. o = u.id /\ o \notin row.deleted \cup row.restored
        BY <1>3, <1>5, <2>3, <3>4 DEF Unlisted, Known
      <4>2. fate'[o] = "created"
        BY <3>1, <3>4 DEF FateOf, Pulling, Creating
      <4> QED
        BY <1>7, <2>3, <3>4, <4>1, <4>2
    <3>5. CASE u.arm = "Restore"
      <4>1. fate'[o] = "restored"
        BY <3>1, <3>5 DEF FateOf, Pulling, Creating
      <4> QED
        BY <1>7, <2>3, <3>5, <4>1
    <3>6. u.arm \in Deciding
      BY <1>7, <2>3
    <3> QED
      BY <3>2, <3>3, <3>4, <3>5, <3>6 DEF Deciding
  <2> QED
    BY <2>2, <2>3
<1>14. ASSUME NEW q \in Requests
       PROVE  /\ Unlisted(copy[q])' /\ Exclusive(copy[q])' /\ MovedOnce(copy[q])'
              /\ mode'[q] = "check" => Tells(copy[q])'
  <2>1. CASE q = r
    <3>1. copy'[q] = NewRow /\ mode'[q] = "reread"
      BY <1>1, <1>4, <2>1
    <3> QED
      BY <3>1, NewRowFacts DEF Unlisted, Exclusive, MovedOnce, NewRow
  <2>2. CASE q # r
    <3>1. copy'[q] = copy[q] /\ mode'[q] = mode[q]
      BY <1>1, <2>2
    <3>2. Unlisted(copy[q])' /\ Exclusive(copy[q])' /\ MovedOnce(copy[q])'
      BY <1>5, <3>1 DEF Unlisted, Exclusive, MovedOnce
    <3>3. ASSUME mode[q] = "check"
          PROVE  Tells(copy[q])'
      <4>1. overtaken' = overtaken \cup S
        BY <1>1, <2>2, <3>3
      <4> QED
        BY <1>5, <3>1, <3>3, <4>1 DEF Tells
    <3> QED
      BY <3>1, <3>2, <3>3
  <2> QED
    BY <2>1, <2>2
<1> QED
  BY <1>4, <1>6, <1>9, <1>10, <1>11, <1>12, <1>13, <1>14

\* The row is read again and checked for conflicts.
LEMMA RereadStep ==
    ASSUME IInv, NEW r \in Requests, Reread(r)
    PROVE  IInv'
<1> USE DEF IInv, TypeOK
<1>1. mode[r] = "reread" /\ UNCHANGED <<row, original, fate, overtaken, calls, faults>>
  BY DEF Reread
<1>2. Unlisted(row)' /\ Exclusive(row)' /\ MovedOnce(row)' /\ Tells(row)'
  BY <1>1 DEF Unlisted, Known, Exclusive, MovedOnce, Tells
<1>3. CASE Checks(Update(r))
  <2>1. /\ copy' = [copy EXCEPT ![r] = row] /\ mode' = [mode EXCEPT ![r] = "check"]
        /\ UNCHANGED queue
    BY <1>3 DEF Reread
  <2>2. TypeOK'
    BY <1>1, <2>1
  <2>3. Queued'
    BY <1>1, <2>1 DEF Queued, Update
  <2>4. Fresh'
    BY <1>1, <2>1 DEF Fresh, Known, Written
  <2>5. ASSUME NEW q \in Requests
        PROVE  /\ Unlisted(copy[q])' /\ Exclusive(copy[q])' /\ MovedOnce(copy[q])'
               /\ mode'[q] = "check" => Tells(copy[q])'
    <3>1. \/ q = r /\ copy'[q] = row
          \/ q # r /\ copy'[q] = copy[q] /\ mode'[q] = mode[q]
      BY <2>1
    <3> QED
      BY <1>1, <3>1 DEF Unlisted, Known, Exclusive, MovedOnce, Tells
  <2> QED
    BY <1>2, <2>2, <2>3, <2>4, <2>5
<1>4. CASE ~Checks(Update(r))
  <2>1. Done(r)
    BY <1>4 DEF Reread
  <2>2. Written(r)
    BY <1>1 DEF Written
  <2> QED
    BY <1>1, <1>2, <2>1, <2>2, DoneKeeps
<1> QED
  BY <1>3, <1>4

\* The lists go back as they were read, with what the check has found.
LEMMA WriteBackStep ==
    ASSUME IInv, NEW r \in Requests, WriteBack(r)
    PROVE  IInv'
<1> USE DEF IInv, TypeOK
<1>1. /\ mode[r] = "check" /\ Done(r)
      /\ row' = [copy[r] EXCEPT !.conflict = Conflicts(copy[r], original, Ancestors)]
      /\ UNCHANGED <<original, fate, overtaken, calls, faults>>
  BY DEF WriteBack
<1>2. row' \in RowSet
  <2>1. Conflicts(copy[r], original, Ancestors) \subseteq Objects
    BY ConflictsType
  <2>2. copy[r] \in RowSet
    OBVIOUS
  <2> QED
    BY <1>1, <2>1, <2>2 DEF RowSet
<1>3. /\ row'.deleted = copy[r].deleted /\ row'.restored = copy[r].restored
      /\ row'.created = copy[r].created /\ row'.reordered = copy[r].reordered
      /\ row'.inputs = copy[r].inputs /\ row'.outputs = copy[r].outputs
  <2>1. copy[r] \in RowSet
    OBVIOUS
  <2> QED
    BY <1>1, <2>1 DEF RowSet
<1>4. Unlisted(row)' /\ Exclusive(row)' /\ MovedOnce(row)' /\ Tells(row)'
  BY <1>1, <1>3 DEF Unlisted, Known, Exclusive, MovedOnce, Tells
<1>5. Written(r)
  BY <1>1 DEF Written
<1> QED
  BY <1>1, <1>2, <1>4, <1>5, DoneKeeps

\* They do not.
LEMMA FailWriteBackStep ==
    ASSUME IInv, NEW r \in Requests, FailWriteBack(r)
    PROVE  IInv'
<1> USE DEF IInv, TypeOK
<1>1. /\ mode[r] = "check" /\ Done(r) /\ faults < MaxFaults /\ faults' = faults + 1
      /\ UNCHANGED <<row, original, fate, overtaken, calls>>
  BY DEF FailWriteBack
<1>2. Unlisted(row)' /\ Exclusive(row)' /\ MovedOnce(row)' /\ Tells(row)'
  BY <1>1 DEF Unlisted, Known, Exclusive, MovedOnce, Tells
<1>3. Written(r)
  BY <1>1 DEF Written
<1> QED
  BY <1>1, <1>2, <1>3, DoneKeeps, BranchChangesAssumption

\* A node of the original is deleted, or nothing happens.
LEMMA OthersStep ==
    ASSUME IInv, \/ \E o \in Deletable : DeleteOriginal(o)
                 \/ UNCHANGED vars
    PROVE  IInv'
<1> USE DEF IInv, TypeOK
<1>1. /\ original' \subseteq Objects
      /\ UNCHANGED <<row, queue, mode, copy, fate, overtaken, calls, faults>>
  BY DEF DeleteOriginal, vars
<1>2. TypeOK'
  BY <1>1
<1>3. Queued' /\ Fresh'
  BY <1>1 DEF Queued, Update, Fresh, Known, Written
<1> QED
  BY <1>1, <1>2, <1>3 DEF Unlisted, Known, Exclusive, MovedOnce, Tells

-----------------------------------------------------------------------------
(* The theorems.                                                           *)

\* No step of any request breaks it.
LEMMA InductiveStep == IInv /\ [Next]_vars => IInv'
<1> SUFFICES ASSUME IInv, [Next]_vars
             PROVE  IInv'
  OBVIOUS
<1>1. ASSUME NEW r \in Requests,
             \/ Arrive(r) \/ Read(r) \/ Write(r) \/ FailWrite(r)
             \/ Reread(r) \/ WriteBack(r) \/ FailWriteBack(r)
      PROVE  IInv'
  BY <1>1, ArriveStep, ReadStep, WriteStep, FailWriteStep, RereadStep, WriteBackStep,
     FailWriteBackStep
<1> QED
  BY <1>1, OthersStep DEF Next

\* Whatever runs at once and fails, the invariant holds.
THEOREM Invariance == Spec => []IInv
  BY InitHolds, InductiveStep, PTL DEF Spec

\* However many requests update the branch at once and whatever fails, neither
\* the row nor a copy that will be written back says two things of an object,
\* a step or a move (Branch::update and Branch::check_conflicts).
THEOREM FreeOfContradictions == Spec => []ChangesInv
<1>1. IInv => ChangesInv
  BY DEF IInv, ChangesInv, Consistent
<1> QED
  BY <1>1, Invariance, PTL

\* What was decided last about an object is on the branch's lists, unless it
\* was decided while another request held a row to write back.
THEOREM DecisionsListed == Spec => []FateListed
<1>1. IInv => FateListed
  BY DEF IInv, Tells, FateListed
<1> QED
  BY <1>1, Invariance, PTL
=============================================================================
