---------------------------- MODULE FlowsProofs ----------------------------
(***************************************************************************)
(* Theorems about Flows, for any objects, clients, requests and failures,  *)
(* while requests that run at once touch different rows (~Racing): what    *)
(* was deleted stays deleted, no two steps of a flow are in one place, and *)
(* outside of what requests touch, what belongs together is listed and     *)
(* known where it should be.                                               *)
(***************************************************************************)
EXTENDS Flows, FiniteSetTheorems, SequenceTheorems, WellFoundedInduction, TLAPS

\* Clients ask for requests that there are.
Proper == \A u : Asked(u) \subseteq RequestSet

\* What clients ask for makes sense: what is created has a new id, and a step is
\* given inputs that are there.
Sensible ==
    \A u \in Tables : \A r \in Asked(u) :
        /\ r.kind \in Creations => r.on \notin u.objs
        /\ r.kind = "UpdateInputs" => r.with \subseteq u.objs

-----------------------------------------------------------------------------
(* The inductive invariant.                                                *)

LockKinds == {"CreateStep", "DeleteStep"}
IoKinds == {"CreateIo", "DeleteIo", "PurgeIo"}

OpsOf(kind) ==
    CASE kind = "CreateFlow" -> {"CountFlows", "InsertFlow"}
      [] kind = "DeleteFlow" -> {"ReadSteps", "DropIo", "DropStep", "DropFlow"}
      [] kind = "CreateStep" -> {"FindFree", "SetKey", "FindIndex", "InsertStep", "Unlock"}
      [] kind = "DeleteStep" -> {"FindFree", "SetKey", "ReadStep", "DropIo", "DropStep", "Unlock"}
      [] kind = "UpdateNodes" ->
             {"ReadForNodes", "FindOutputs", "ReadUsers", "WriteRow", "DropIo", "KeepMain", "WriteNodes"}
      [] kind = "UpdateInputs" -> {"ReadInputs", "FindIos", "WriteUsers", "WriteInputs"}
      [] kind = "CreateIo" -> {"InsertIo", "PushInitial", "ReadToPush", "WriteOutputs"}
      [] kind \in {"DeleteIo", "PurgeIo"} ->
             {"ReadIo", "PullInitial", "ReadToPull", "WriteOutputs", "ReadUsers", "WriteRow", "DropIo",
              "KeepMain"}
      [] OTHER -> {}

\* Calls on the object of their request.
OwnOps ==
    LockOps \cup
    {"CountFlows", "InsertFlow", "ReadSteps", "DropFlow", "FindIndex", "InsertStep", "ReadStep",
     "ReadForNodes", "FindOutputs", "WriteNodes", "ReadInputs", "FindIos", "WriteUsers", "WriteInputs",
     "InsertIo", "PushInitial", "ReadToPush", "ReadIo", "PullInitial", "ReadToPull"}

Cells == {"nodes", "inputs", "outputs", "added", "removed"} \X Objects
CallSet ==
    [op : Ops, on : Objects \cup {None},
     with : SUBSET (Nat \cup Objects \cup Cells \cup {"DeleteIo", "PurgeIo"})]

IsRow(row) ==
    /\ Column(row, "nodes") \subseteq Nodes
    /\ Column(row, "inputs") \subseteq Ios
    /\ Column(row, "outputs") \subseteq Ios

\* A call that request r may have left, which found the tables as b and has
\* them as u now: on what it acts, what it has read, and that there is the row
\* that an UPDATE of it relies on.
Fits(r, b, u, c) ==
    /\ c.op \in OpsOf(r.kind)
    /\ c.op \in OwnOps => c.on = r.on
    /\ c.op = "InsertFlow" => Cardinality(c.with) \in Nat
    /\ c.op = "DropStep" => c.on \in Steps \cap Touched(r, b)
    /\ c.op \in {"DropIo", "KeepMain", "ReadUsers"} => c.on \in Ios \cap Touched(r, b)
    /\ c.op \in {"KeepMain", "ReadUsers"} => c.with \subseteq Steps \cap Touched(r, b)
    /\ c.op = "FindOutputs" => c.with \subseteq Of(b.outputs, r.on)
    /\ c.op \in {"ReadForNodes", "ReadInputs", "WriteInputs"} => c.with = r.with
    /\ c.op = "ReadIo" => c.with = {r.kind}
    /\ c.op \in {"FindIos", "WriteUsers"} =>
         Column(c.with, "added") \subseteq r.with /\ Column(c.with, "removed") \subseteq Ios
    /\ c.op = "WriteUsers" => Column(c.with, "added") \subseteq u.objs
    /\ c.op \in {"WriteNodes", "WriteInputs", "WriteRow", "WriteOutputs"} =>
         c.on \in Steps \cap Touched(r, b) \cap u.objs
    /\ c.op = "WriteOutputs" => c.with \subseteq Ios
    /\ c.op \in {"WriteNodes", "WriteRow"} =>
         /\ IsRow(c.with)
         /\ c.on = r.on => Column(c.with, "outputs") \subseteq Of(b.outputs, r.on)

Fitting(r, b, u) == {c \in CallSet : Fits(r, b, u, c)}

\* Between the calls of a request nothing is added to what it is to read.
Frame(r, b, u) ==
    /\ r.kind = "DeleteFlow" => \A s \in StepsIn(u, {r.on}) : Of(u.outputs, s) \subseteq Touched(r, b)
    /\ r.kind \in {"DeleteStep", "UpdateNodes"} => Of(u.outputs, r.on) \subseteq Of(b.outputs, r.on)
    /\ r.kind = "UpdateNodes" =>
         \A x \in u.inputted : x[2] \in Of(b.outputs, r.on) => x[1] \in Touched(r, b)
    /\ r.kind \in {"DeleteIo", "PurgeIo"} => \A x \in u.inputted : x[2] = r.on => x[1] \in Touched(r, b)

\* A step is created or deleted from the first call for its lock to the last.
Release(r) == Call("Unlock", r.on, {})
Plain == {c \in CallSet : c.op \notin LockOps}
InTurn(r, calls) ==
    \/ calls = Program(r) \/ calls = Tail(Program(r))
    \/ \E rest \in Seq(Plain) : calls = Append(rest, Release(r))

\* Request r, which found the tables as b and has them as u now, has these
\* calls left.
Has(r, b, u, calls) ==
    /\ r \in RequestSet /\ b \in Tables /\ u \in Tables
    /\ calls \in Seq(Fitting(r, b, u)) /\ calls # << >>
    /\ Frame(r, b, u)
    /\ r.kind \in LockKinds => InTurn(r, calls)

AtWork == \A p \in Active : Has(ask[p], began[p], t, todo[p])

AtRest == \A p \in Clients : Idle(p) => todo[p] = << >> /\ began[p] = Empty

\* Requests at work touch different objects.
Disjoint ==
    \A p, q \in Active : p # q => Touched(ask[p], began[p]) \cap Touched(ask[q], began[q]) \subseteq {None}

Setting(p, f) == Locking(p, "SetKey", f)
Holding(p, f) ==
    /\ p \in Active /\ ask[p].kind \in LockKinds /\ FlowOf[ask[p].on] = f
    /\ Head(todo[p]).op \notin {"FindFree", "SetKey"}

\* Unless two found it free, the key of a flow is that of the one who works.
KeyOwned ==
    \A f \in Flows \ shared, p \in Clients :
        /\ Holding(p, f) => lock[f] = p
        /\ Setting(p, f) => lock[f] = None /\ \A q \in Clients : Setting(q, f) => q = p

\* The place of step s is free in tables v, or its flow is among S.
FreeIn(v, S, s) ==
    \A u \in Steps \cap v.objs :
        FlowOf[u] = FlowOf[s] /\ IndexOf[u] = IndexOf[s] => FlowOf[s] \in S
PlaceFree(s) == FreeIn(t, shared, s)
PlacesFree == \A p \in Active : Head(todo[p]).op = "InsertStep" => PlaceFree(ask[p].on)

\* A step is inserted at most once, right after its place was found free.
InOrder(r, calls) ==
    LET Left(op) == <<Call(op, r.on, {}), Release(r)>> IN
    r.kind = "CreateStep" =>
        calls \in {Program(r), Tail(Program(r)), Left("FindIndex"), Left("InsertStep"), <<Release(r)>>}
Orderly == \A p \in Active : InOrder(ask[p], todo[p])

TypesInv ==
    /\ t \in Tables
    /\ lock \in [Flows -> Clients \cup {None}] /\ shared \subseteq Flows
    /\ ask \in [Clients -> RequestSet \cup {Nothing}]
    /\ todo \in [Clients -> Seq(CallSet)]
    /\ began \in [Clients -> Tables]
    /\ broken \subseteq RequestSet

WorkInv == TypesInv /\ AtRest /\ AtWork /\ Disjoint /\ DeletedStays
StepInv == KeyOwned /\ Orderly /\ PlacesFree /\ IndexOwn

-----------------------------------------------------------------------------
(* The inductive invariant, continued: what the rows say of each other.    *)

\* What request r may leave in between: IO i unlisted, the IO of x listed though it
\* is gone or has lost its step, a step of which outputs are gone, and an input
\* that does not know of the step that takes it.
Removes(r, i) == r.kind \in IoKinds /\ r.on = i
Cuts(r, x) == r.kind = "UpdateNodes" /\ r.on = x[1] /\ At[x[2]] \notin r.with
Clears(r, s) == <<r.kind, r.on>> \in {<<"DeleteStep", s>>, <<"DeleteFlow", FlowOf[s]>>}
Untakes(r, x) == r.kind = "UpdateInputs" /\ r.on = x[1] /\ x[2] \notin r.with

\* Steps list their own IOs, and none takes an IO that has not been created.
Own(v, g, P) ==
    /\ \A x \in v.outputs : x[1] \in v.objs /\ StepOf[x[2]] = x[1]
    /\ \A x \in v.inputs : x[1] \in v.objs /\ x[2] \in v.objs \cup g
    /\ \A r \in P : r.kind = "UpdateInputs" => r.with \subseteq v.objs \cup g
    /\ \A i \in v.initial : StepOf[i] = None

\* What is listed is there, unless one of P is deleting it.
ListedThere(v, P) ==
    \A x \in v.outputs :
        \/ x[2] \in v.objs \ v.loose
        \/ \E r \in P : Cuts(r, x) \/ (x[2] \notin v.objs /\ Clears(r, x[1]))

\* An IO of a step is listed by it, unless one of P creates or deletes it.
ThereListed(v, g, P) ==
    \A i \in Ios \cap v.objs : StepOf[i] # None /\ i \notin v.loose =>
        <<StepOf[i], i>> \in v.outputs \/ StepOf[i] \in g \/ \E r \in P : Removes(r, i)

Initials(v, P) ==
    \A i \in Ios : StepOf[i] = None =>
        (i \in v.initial <=> i \in v.objs) \/ \E r \in P : Removes(r, i)

\* x[2] knows that x[1] takes it, or x[1] is about to take it no more.
Knows(v, P, x) == x \in v.inputted \/ \E r \in P : Untakes(r, x)
SameNode(x) == NodeOf[x[1]] = NodeOf[x[2]]
TakenKnown(v, P) == \A x \in v.inputs : x[2] \in v.objs /\ SameNode(x) => Knows(v, P, x)

Wires(v, g, P) ==
    Own(v, g, P) /\ ListedThere(v, P) /\ ThereListed(v, g, P) /\ Initials(v, P) /\ TakenKnown(v, P)

\* How far a request has come.  The calls of a creation, one after the other.
Creating(r, v, g, calls) ==
    LET s == StepOf[r.on] IN
    \/ calls = Program(r) /\ r.on \notin v.objs \cup g
    \/ /\ r.on \in v.objs \ v.loose
       /\ \/ calls = Tail(Program(r))
          \/ s # None /\ calls = <<Call("WriteOutputs", s, Of(v.outputs, s) \cup {r.on})>>
          \/ calls = << >> /\ IF s = None THEN r.on \in v.initial ELSE <<s, r.on>> \in v.outputs

Changes(now, new) == {"added"} \X (new \ now) \cup {"removed"} \X (now \ new)
Found(v, changes) == {x \in changes : x[1] = "removed" \/ x[2] \in v.objs}
Taking(r, v, P, calls) ==
    LET now == Of(v.inputs, r.on)  write == Call("WriteInputs", r.on, r.with) IN
    \/ calls = Program(r)
    \/ calls = <<Call("FindIos", r.on, Changes(now, r.with)), write>>
    \/ calls = <<Call("WriteUsers", r.on, Found(v, Changes(now, r.with))), write>>
    \/ calls = <<write>> /\ \A i \in r.with \cap v.objs : SameNode(<<r.on, i>>) => Knows(v, P, <<r.on, i>>)
    \/ calls = << >> /\ now = r.with

\* Steps are not left out.
DroppingStep(r, v, calls) ==
    /\ r.on \in v.objs => Call("DropStep", r.on, {}) \in Range(calls)
    /\ \A c \in Range(calls) : c.op = "DropIo" => StepOf[c.on] = r.on
DroppingFlow(r, v, calls) ==
    /\ \/ Call("ReadSteps", r.on, {}) \in Range(calls)
       \/ \A s \in StepsIn(v, {r.on}) : Call("DropStep", s, {}) \in Range(calls)
    /\ \A c \in Range(calls) : c.op = "DropIo" => StepOf[c.on] # None /\ FlowOf[StepOf[c.on]] = r.on

\* Rows of those who take a removed IO are written back before anything else,
\* what pulls an IO comes first and the row of nodes last.
PullOps == {"PullInitial", "ReadToPull", "WriteOutputs"}
InLine(calls) ==
    \E m \in 0 .. Len(calls) : \A k \in 1 .. Len(calls) :
        /\ calls[k].op = "WriteRow" <=> k <= m
        /\ calls[k].op \in PullOps \cup {"ReadIo", "FindOutputs"} => k = 1
        /\ calls[k].op = "WriteNodes" => k = Len(calls)

\* A row that is to be written back is as it was, but for inputs; an IO that
\* is kept knows who takes it.
Removing(v, P, calls) ==
    /\ InLine(calls)
    /\ \A c \in Range(calls) : c.op = "WriteRow" =>
         /\ Column(c.with, "outputs") = Of(v.outputs, c.on)
         /\ Column(c.with, "inputs") \subseteq Of(v.inputs, c.on)
         /\ \A d \in Range(calls) : d.op = "WriteRow" /\ d.on = c.on => d = c
    /\ \A c \in Range(calls) : c.op = "KeepMain" =>
         /\ StepOf[c.on] # None
         /\ \A x \in v.inputs : x[2] = c.on /\ SameNode(x) => x[1] \in c.with \/ \E r \in P : Untakes(r, x)

Cutting(r, v, calls) ==
    LET Lost(i) == StepOf[i] = r.on /\ At[i] \notin r.with
        Kept(S) == {i \in S : At[i] \in r.with} IN
    /\ \A c \in Range(calls) :
         /\ c.op # "ReadForNodes"
         /\ c.op \in {"ReadUsers", "DropIo", "KeepMain"} => Lost(c.on)
         /\ c.op = "FindOutputs" => \A i \in c.with : Lost(i)
         /\ c.op = "WriteRow" /\ c.on = r.on => Kept(Of(v.inputs, r.on)) \subseteq Column(c.with, "inputs")
         /\ c.op = "WriteNodes" =>
              /\ Column(c.with, "outputs") = Kept(Of(v.outputs, r.on))
              /\ Column(c.with, "inputs") \subseteq Kept(Of(v.inputs, r.on))
    /\ \A i \in Of(v.outputs, r.on) : At[i] \notin r.with =>
         /\ \E c \in Range(calls) : c.op = "WriteNodes"
         /\ \/ i \notin v.objs \ v.loose
            \/ Call("DropIo", i, {}) \in Range(calls)
            \/ \E c \in Range(calls) : c.op = "FindOutputs" /\ i \in c.with

Pulling(r, v, calls) ==
    LET s == StepOf[r.on]  x == <<s, r.on>>
        pulled == \A c \in Range(calls) : c.op \notin PullOps IN
    /\ \A c \in Range(calls) :
         /\ c.op # "ReadIo"
         /\ c.op \in {"ReadUsers", "DropIo", "KeepMain"} => c.on = r.on
         /\ c.op = "PullInitial" => s = None
         /\ c.op \in {"ReadToPull", "WriteOutputs"} => s # None
         /\ c.op = "WriteOutputs" => c.on = s /\ c.with = Of(v.outputs, s) \ {r.on}
         /\ c.op = "WriteRow" => pulled
    /\ pulled /\ s = None => r.on \notin v.initial
    /\ pulled /\ x \in v.outputs =>
         r.on \notin v.objs \ v.loose /\ \A c \in Range(calls) : c.op # "KeepMain"
    /\ \/ Call("DropIo", r.on, {}) \in Range(calls)
       \/ r.on \notin v.objs
       \/ r.on \in v.loose /\ s # None

Progress(r, v, g, P, calls) ==
    /\ r.kind = "CreateStep" => r.on \notin v.objs \cup g \/ calls \in {<< >>, <<Call("Unlock", r.on, {})>>}
    /\ r.kind = "CreateIo" => Creating(r, v, g, calls)
    /\ r.kind = "UpdateInputs" => Taking(r, v, P, calls)
    /\ r.kind = "DeleteStep" => DroppingStep(r, v, calls)
    /\ r.kind = "DeleteFlow" => DroppingFlow(r, v, calls)
    /\ r.kind \in {"UpdateNodes", "DeleteIo", "PurgeIo"} =>
         calls = Program(r) \/ Removing(v, P, calls)
    /\ r.kind = "UpdateNodes" => calls = Program(r) \/ Cutting(r, v, calls)
    /\ r.kind \in {"DeleteIo", "PurgeIo"} => calls = Program(r) \/ Pulling(r, v, calls)

\* The requests that may have left something.
Pending == broken \cup {ask[p] : p \in {q \in Active : Head(todo[q]).op # "FindFree"}}

WireInv ==
    /\ Wires(t, gone, Pending)
    /\ \A p \in Active : Progress(ask[p], t, gone, Pending, todo[p])

-----------------------------------------------------------------------------
(* Sequences.                                                              *)

\* A set of numbers up to n has a least one.
LEMMA Least ==
    ASSUME NEW n \in Nat, NEW S \in SUBSET (1 .. n), S # {}
    PROVE  \E m \in S : \A k \in S : m <= k
<1> DEFINE sets == {1 .. k : k \in S}
<1>1. sets # {} /\ sets \subseteq FiniteSubsetsOf(1 .. n)
  <2>1. \A k \in S : (1 .. k) \subseteq 1 .. n /\ IsFiniteSet(1 .. k)
    BY FS_Interval
  <2> QED
    BY <2>1 DEF FiniteSubsetsOf
<1>2. PICK least \in sets : \A T \in sets : <<T, least>> \notin StrictSubsetOrdering(1 .. n)
  <2> HIDE DEF sets
  <2> QED
    BY <1>1, FS_StrictSubsetOrderingWellFounded, WFMin
<1>3. PICK m \in S : least = 1 .. m
  BY <1>2
<1>4. ASSUME NEW k \in S, k < m
      PROVE  FALSE
  <2>1. (1 .. k) \subseteq 1 .. m /\ m \in 1 .. m /\ m \notin 1 .. k
    BY <1>4
  <2>2. 1 .. k \in SUBSET (1 .. n) /\ 1 .. m \in SUBSET (1 .. n)
    OBVIOUS
  <2>3. <<1 .. k, 1 .. m>> \in StrictSubsetOrdering(1 .. n)
    BY <2>1, <2>2 DEF StrictSubsetOrdering
  <2> QED
    BY <1>2, <1>3, <2>3
<1> QED
  BY <1>4

\* f puts the first m sequences together, one after the other.
Flattens(seqs, m, f) ==
    f = [i \in 1 .. m |-> IF i = 1 THEN seqs[i] ELSE f[i - 1] \o seqs[i]]

\* The definition of FlattenSeq with a name for its function.
LEMMA FlattenSeqIs ==
    ASSUME NEW seqs, Len(seqs) # 0
    PROVE  FlattenSeq(seqs) = (CHOOSE f : Flattens(seqs, Len(seqs), f))[Len(seqs)]
BY DEF FlattenSeq, Flattens

\* It is the last value of the one such function.
LEMMA FlattenSeqSteps ==
    ASSUME NEW A, NEW n \in Nat, n # 0, NEW seqs \in [1 .. n -> Seq(A)]
    PROVE  \E f \in [1 .. n -> Seq(A)] : Flattens(seqs, n, f) /\ FlattenSeq(seqs) = f[n]
<1>0. Len(seqs) = n
  OBVIOUS
<1> DEFINE Some(m) == \E f : Flattens(seqs, m, f) /\ f \in [1 .. m -> Seq(A)]
           bad == {m \in 1 .. n : ~Some(m)}
<1>1. ASSUME bad # {} PROVE FALSE
  <2>1. PICK m \in bad : \A k \in bad : m <= k
    <3>1. bad \in SUBSET (1 .. n)
      OBVIOUS
    <3> HIDE DEF bad
    <3> QED
      BY <1>1, <3>1, Least
  <2>2. CASE m = 1
    <3> DEFINE f == [i \in 1 .. 1 |-> seqs[i]]
    <3>1. f \in [1 .. m -> Seq(A)] /\ Flattens(seqs, m, f)
      BY <2>2 DEF Flattens
    <3> QED
      BY <2>1, <3>1
  <2>3. CASE m # 1
    <3>1. m - 1 \in 1 .. n /\ m - 1 < m
      BY <2>1, <2>3
    <3>2. PICK g : Flattens(seqs, m - 1, g) /\ g \in [1 .. (m - 1) -> Seq(A)]
      BY <2>1, <3>1, SMTT(30)
    <3> DEFINE f == [i \in 1 .. m |-> IF i = m THEN g[m - 1] \o seqs[m] ELSE g[i]]
    <3>3. g[m - 1] \o seqs[m] \in Seq(A)
      BY <2>1, <3>1, <3>2
    <3>4. f \in [1 .. m -> Seq(A)]
      BY <2>1, <3>2, <3>3
    <3>5. ASSUME NEW i \in 1 .. m
          PROVE  f[i] = IF i = 1 THEN seqs[i] ELSE f[i - 1] \o seqs[i]
      <4>1. CASE i = m
        <5>1. f[m] = g[m - 1] \o seqs[m] /\ f[m - 1] = g[m - 1]
          BY <2>1, <2>3, <3>1, SMTT(30)
        <5> QED
          BY <2>3, <4>1, <5>1
      <4>2. CASE i # m
        <5>1. i \in 1 .. (m - 1) /\ (i # 1 => i - 1 \in 1 .. (m - 1) /\ i - 1 # m /\ i - 1 \in 1 .. m)
          BY <2>1, <4>2
        <5>2. g[i] = IF i = 1 THEN seqs[i] ELSE g[i - 1] \o seqs[i]
          BY <3>2, <5>1 DEF Flattens
        <5> QED
          BY <4>2, <5>1, <5>2
      <4> QED
        BY <4>1, <4>2
    <3>6. f = [i \in 1 .. m |-> IF i = 1 THEN seqs[i] ELSE f[i - 1] \o seqs[i]]
      <4>1. f = [i \in 1 .. m |-> f[i]]
        OBVIOUS
      <4> HIDE DEF f
      <4> QED
        BY <3>5, <4>1
    <3>7. Flattens(seqs, m, f)
      BY <3>6 DEF Flattens
    <3> HIDE DEF f
    <3> QED
      BY <2>1, <3>4, <3>7
  <2> QED
    BY <2>2, <2>3
<1>2. PICK g : Flattens(seqs, n, g) /\ g \in [1 .. n -> Seq(A)]
  BY <1>1
<1> DEFINE f == CHOOSE h : Flattens(seqs, n, h)
<1>3. Flattens(seqs, n, f)
  BY <1>2
<1> HIDE DEF f
<1>4. \A h : Flattens(seqs, n, h) => h = g
  <2> SUFFICES ASSUME NEW h, Flattens(seqs, n, h) PROVE h = g
    OBVIOUS
  <2> DEFINE differ == {i \in 1 .. n : h[i] # g[i]}
  <2>1. ASSUME differ # {} PROVE FALSE
    <3>1. PICK i \in differ : \A k \in differ : i <= k
      <4>1. differ \in SUBSET (1 .. n)
        OBVIOUS
      <4> HIDE DEF differ
      <4> QED
        BY <2>1, <4>1, Least
    <3>2. h[i] = IF i = 1 THEN seqs[i] ELSE h[i - 1] \o seqs[i]
      BY <3>1 DEF Flattens
    <3>3. g[i] = IF i = 1 THEN seqs[i] ELSE g[i - 1] \o seqs[i]
      BY <1>2, <3>1 DEF Flattens
    <3>4. i # 1 => h[i - 1] = g[i - 1]
      <4>1. i # 1 => i - 1 \in 1 .. n /\ ~(i <= i - 1)
        BY <3>1
      <4> QED
        BY <3>1, <4>1
    <3> QED
      BY <3>1, <3>2, <3>3, <3>4
  <2>2. h = [i \in 1 .. n |-> h[i]]
    BY DEF Flattens
  <2>3. g = [i \in 1 .. n |-> g[i]]
    BY <1>2
  <2>4. \A i \in 1 .. n : h[i] = g[i]
    BY <2>1
  <2> QED
    BY <2>2, <2>3, <2>4
<1>5. f \in [1 .. n -> Seq(A)]
  BY <1>2, <1>3, <1>4
<1> QED
  BY <1>0, <1>3, <1>5, FlattenSeqIs DEF f

\* Sequences of calls, one after the other, are a sequence of calls.
LEMMA FlattenSeqType ==
    ASSUME NEW A, NEW n \in Nat, NEW seqs \in [1 .. n -> Seq(A)]
    PROVE  FlattenSeq(seqs) \in Seq(A)
<1>1. CASE n = 0
  <2>1. Len(seqs) = 0 /\ seqs = << >>
    BY <1>1
  <2> QED
    BY <2>1 DEF FlattenSeq
<1>2. CASE n # 0
  <2>1. PICK f \in [1 .. n -> Seq(A)] : FlattenSeq(seqs) = f[n]
    BY <1>2, FlattenSeqSteps
  <2>2. n \in 1 .. n
    BY <1>2
  <2> QED
    BY <2>1, <2>2
<1> QED
  BY <1>1, <1>2

\* Calls that fit do so in a larger set of calls.
LEMMA SeqLarger ==
    ASSUME NEW A, NEW B, A \subseteq B, NEW s \in Seq(A)
    PROVE  s \in Seq(B)
OBVIOUS

\* What sequences put together hold.
LEMMA RangeJoined ==
    ASSUME NEW A, NEW x \in Seq(A), NEW y \in Seq(A)
    PROVE  Range(x \o y) = Range(x) \cup Range(y)
<1>1. /\ DOMAIN (x \o y) = 1 .. (Len(x) + Len(y)) /\ DOMAIN x = 1 .. Len(x) /\ DOMAIN y = 1 .. Len(y)
      /\ \A k \in 1 .. Len(x) : (x \o y)[k] = x[k]
      /\ \A k \in 1 .. Len(y) : (x \o y)[k + Len(x)] = y[k]
      /\ Len(x) \in Nat /\ Len(y) \in Nat
  OBVIOUS
<1>2. \A k \in 1 .. (Len(x) + Len(y)) : k \in 1 .. Len(x) \/ \E j \in 1 .. Len(y) : k = j + Len(x)
  <2>1. \A k \in 1 .. (Len(x) + Len(y)) :
          k \in 1 .. Len(x) \/ (k - Len(x) \in 1 .. Len(y) /\ k = (k - Len(x)) + Len(x))
    BY <1>1
  <2> QED
    BY <2>1
<1>3. Range(x \o y) \subseteq Range(x) \cup Range(y)
  BY <1>1, <1>2, SMTT(30) DEF Range
<1>4. Range(x) \subseteq Range(x \o y)
  BY <1>1 DEF Range
<1>5. Range(y) \subseteq Range(x \o y)
  <2>1. \A k \in 1 .. Len(y) : k + Len(x) \in 1 .. (Len(x) + Len(y))
    BY <1>1
  <2> QED
    BY <1>1, <2>1 DEF Range
<1> QED
  BY <1>3, <1>4, <1>5

\* A sequence holds its first element and what the rest holds.
LEMMA RangeFirst ==
    ASSUME NEW A, NEW s \in Seq(A), s # << >>
    PROVE  Range(s) = {Head(s)} \cup Range(Tail(s)) /\ Range(s) \subseteq A
<1>1. s = <<Head(s)>> \o Tail(s) /\ <<Head(s)>> \in Seq(A) /\ Tail(s) \in Seq(A)
  OBVIOUS
<1>2. Range(<<Head(s)>>) = {Head(s)}
  BY DEF Range
<1>3. Range(s) = Range(<<Head(s)>>) \cup Range(Tail(s))
  BY <1>1, RangeJoined, ZenonT(60)
<1>4. Range(s) \subseteq A
  BY DEF Range
<1> QED
  BY <1>2, <1>3, <1>4

\* What they hold is what the sequence holds.
LEMMA FlattenSeqHolds ==
    ASSUME NEW B, NEW n \in Nat, NEW seqs \in [1 .. n -> Seq(B)]
    PROVE  Range(FlattenSeq(seqs)) = UNION {Range(seqs[k]) : k \in 1 .. n}
<1> DEFINE A == UNION {Range(seqs[k]) : k \in 1 .. n}
<1>1. \A s \in Seq(A) : Range(s) \subseteq A
  <2> HIDE DEF A
  <2> QED
    BY DEF Range
<1>0. seqs \in [1 .. n -> Seq(A)]
  <2>1. ASSUME NEW k \in 1 .. n PROVE seqs[k] \in Seq(A)
    <3>1. seqs[k] \in Seq(Range(seqs[k])) /\ Range(seqs[k]) \subseteq A
      BY DEF Range
    <3> HIDE DEF A
    <3> QED
      BY <3>1, SeqLarger
  <2> HIDE DEF A
  <2> QED
    BY <2>1
<1>2. Range(FlattenSeq(seqs)) \subseteq A
  <2> HIDE DEF A
  <2> QED
    BY <1>0, <1>1, FlattenSeqType
<1>3. CASE n = 0
  <2>1. A = {}
    BY <1>3
  <2> QED
    BY <1>2, <2>1
<1>4. CASE n # 0
  <2> HIDE DEF A
  <2>1. seqs \in [1 .. n -> Seq(A)]
    BY <1>0
  <2>2. PICK f \in [1 .. n -> Seq(A)] : Flattens(seqs, n, f) /\ FlattenSeq(seqs) = f[n]
    BY <1>4, <2>1, FlattenSeqSteps
  <2> DEFINE bad == {m \in 1 .. n : ~(\A k \in 1 .. m : Range(seqs[k]) \subseteq Range(f[m]))}
  <2>3. ASSUME bad # {} PROVE FALSE
    <3>1. PICK m \in bad : \A k \in bad : m <= k
      <4>1. bad \in SUBSET (1 .. n)
        OBVIOUS
      <4> HIDE DEF bad
      <4> QED
        BY <2>3, <4>1, Least
    <3>2. f[m] = IF m = 1 THEN seqs[m] ELSE f[m - 1] \o seqs[m]
      BY <2>2, <3>1 DEF Flattens
    <3>3. CASE m = 1
      <4>1. \A k \in 1 .. m : k = m
        BY <3>3
      <4> QED
        BY <3>1, <3>2, <3>3, <4>1
    <3>4. CASE m # 1
      <4>1. m - 1 \in 1 .. n /\ m - 1 \notin bad
        BY <3>1, <3>4
      <4>2. f[m - 1] \in Seq(A) /\ seqs[m] \in Seq(A)
        BY <2>1, <3>1, <4>1
      <4>3. \A x, y \in Seq(A) : Range(x) \subseteq Range(x \o y) /\ Range(y) \subseteq Range(x \o y)
        BY RangeJoined
      <4>4. Range(f[m - 1]) \subseteq Range(f[m]) /\ Range(seqs[m]) \subseteq Range(f[m])
        BY <3>2, <3>4, <4>2, <4>3
      <4>5. \A k \in 1 .. m : k = m \/ k \in 1 .. (m - 1)
        BY <3>1
      <4>6. \A k \in 1 .. (m - 1) : Range(seqs[k]) \subseteq Range(f[m - 1])
        BY <4>1
      <4> QED
        BY <3>1, <4>4, <4>5, <4>6
    <3> QED
      BY <3>3, <3>4
  <2>4. n \in 1 .. n
    BY <1>4
  <2>5. \A k \in 1 .. n : Range(seqs[k]) \subseteq Range(f[n])
    BY <2>3, <2>4
  <2>6. A \subseteq Range(FlattenSeq(seqs))
    BY <2>2, <2>5 DEF A
  <2> QED
    BY <1>2, <2>6 DEF A
<1> QED
  BY <1>3, <1>4

\* The elements of a finite set in some order.
LEMMA SetToSeqType ==
    ASSUME NEW S, IsFiniteSet(S)
    PROVE  Cardinality(S) \in Nat /\ SetToSeq(S) \in [1 .. Cardinality(S) -> S]
<1>1. Cardinality(S) \in Nat /\ ExistsBijection(1 .. Cardinality(S), S)
  BY FS_CardinalityType
<1>2. PICK f \in [1 .. Cardinality(S) -> S] : IsInjective(f)
  BY <1>1 DEF ExistsBijection, Bijection, Injection, IsInjective
<1> QED
  BY <1>1, <1>2 DEF SetToSeq

\* All of them.
LEMMA SetToSeqAll ==
    ASSUME NEW S, IsFiniteSet(S)
    PROVE  \A x \in S : \E k \in 1 .. Cardinality(S) : SetToSeq(S)[k] = x
<1> DEFINE n == Cardinality(S)
           D == 1 .. n
<1>1. n \in Nat /\ ExistsBijection(D, S)
  BY FS_CardinalityType
<1>2. PICK g \in [D -> S] : IsInjective(g)
  BY <1>1 DEF ExistsBijection, Bijection, Injection, IsInjective
<1> DEFINE f == SetToSeq(S)
<1>3. f \in [D -> S] /\ IsInjective(f)
  BY <1>2 DEF SetToSeq
<1> DEFINE T == {f[k] : k \in D}
<1>4. f \in Bijection(D, T)
  <2> HIDE DEF f
  <2> QED
    BY <1>3 DEF Bijection, Injection, Surjection, IsInjective
<1>5. IsFiniteSet(T) /\ Cardinality(T) = Cardinality(D)
  <2>1. IsFiniteSet(D)
    BY <1>1, FS_Interval
  <2> HIDE DEF f, T, D
  <2> QED
    BY <1>4, <2>1, FS_Bijection DEF ExistsBijection
<1>6. Cardinality(D) = n
  BY <1>1, FS_Interval
<1>7. T \subseteq S
  BY <1>3
<1>8. T = S
  <2> HIDE DEF T, f, n, D
  <2> QED
    BY <1>5, <1>6, <1>7, FS_Subset DEF n
<1> QED
  BY <1>8

\* For each of S its calls.
LEMMA ForEachHolds ==
    ASSUME NEW S, IsFiniteSet(S), NEW B, NEW F \in [S -> Seq(B)],
           NEW seqs, seqs = [k \in 1 .. Cardinality(S) |-> F[SetToSeq(S)[k]]]
    PROVE  FlattenSeq(seqs) \in Seq(B) /\ Range(FlattenSeq(seqs)) = UNION {Range(F[x]) : x \in S}
<1> DEFINE n == Cardinality(S)
           q == [k \in 1 .. n |-> F[SetToSeq(S)[k]]]
<1>1. n \in Nat /\ SetToSeq(S) \in [1 .. n -> S]
  BY SetToSeqType
<1>2. \A x \in S : \E k \in 1 .. n : SetToSeq(S)[k] = x
  BY SetToSeqAll
<1>3. q \in [1 .. n -> Seq(B)]
  BY <1>1
<1>4. FlattenSeq(q) \in Seq(B) /\ Range(FlattenSeq(q)) = UNION {Range(q[k]) : k \in 1 .. n}
  <2> HIDE DEF q, n
  <2> QED
    BY <1>1, <1>3, FlattenSeqType, FlattenSeqHolds
<1>5. UNION {Range(q[k]) : k \in 1 .. n} = UNION {Range(F[x]) : x \in S}
  <2>1. \A k \in 1 .. n : SetToSeq(S)[k] \in S /\ q[k] = F[SetToSeq(S)[k]]
    BY <1>1
  <2> HIDE DEF q, n
  <2>2. \A k \in 1 .. n : \E x \in S : q[k] = F[x]
    BY <2>1
  <2>3. \A x \in S : \E k \in 1 .. n : q[k] = F[x]
    BY <1>2, <2>1
  <2> QED
    BY <2>2, <2>3
<1>6. seqs = q
  OBVIOUS
<1> HIDE DEF q, n
<1> QED
  BY <1>4, <1>5, <1>6

\* The objects are finitely many.
LEMMA FiniteObjects ==
    ASSUME NEW S \in SUBSET Objects
    PROVE  IsFiniteSet(S)
BY FS_Subset, FlowsAssumption

\* The rest of a sequence of calls, and what is put before it.
LEMMA SeqRest ==
    ASSUME NEW A, NEW s \in Seq(A), s # << >>, NEW x \in Seq(A)
    PROVE  Head(s) \in A /\ Tail(s) \in Seq(A) /\ x \o Tail(s) \in Seq(A)
OBVIOUS

-----------------------------------------------------------------------------
(* The calls of a request.                                                 *)

\* The kinds of requests with what they are on and with.
LEMMA Kinds ==
    ASSUME NEW r \in RequestSet
    PROVE  /\ r.on \in Objects /\ r.on # None /\ r.with \subseteq Objects
           /\ r.on \in Touched(r, t) /\ r # Nothing
           /\ \/ r.kind \in {"CreateFlow", "DeleteFlow"} /\ r.on \in Flows /\ r.with = {}
              \/ r.kind \in {"CreateStep", "DeleteStep"} /\ r.on \in Steps /\ r.with = {}
              \/ r.kind = "UpdateNodes" /\ r.on \in Steps /\ r.with \subseteq Nodes
              \/ r.kind = "UpdateInputs" /\ r.on \in Steps /\ r.with \subseteq Ios
              \/ r.kind \in {"CreateIo", "DeleteIo", "PurgeIo"} /\ r.on \in Ios /\ r.with = {}
<1>1. r.kind # "none"
  BY DEF RequestSet
<1>2. r # Nothing
  BY <1>1 DEF Nothing, Request
<1>3. r.on \in Objects /\ r.with \subseteq Objects
  BY DEF RequestSet, Objects
<1>4. r.on # None
  BY <1>3, BranchRowAssumption
<1>5. r.on \in Touched(r, t)
  BY DEF Touched
<1> QED
  BY <1>2, <1>3, <1>4, <1>5 DEF RequestSet

\* What a request touches.
LEMMA Touches ==
    ASSUME NEW r \in RequestSet, NEW b \in Tables
    PROVE  /\ r.on \in Touched(r, b) /\ r.with \subseteq Touched(r, b)
           /\ r.kind = "DeleteFlow" =>
                /\ \A s \in Steps : FlowOf[s] = r.on => s \in Touched(r, b)
                /\ \A s \in StepsIn(b, {r.on}) : Of(b.outputs, s) \subseteq Touched(r, b)
           /\ r.kind \in {"DeleteStep", "UpdateNodes"} => Of(b.outputs, r.on) \subseteq Touched(r, b)
           /\ r.kind = "UpdateNodes" =>
                \A x \in b.inputted : x[2] \in Of(b.outputs, r.on) => x[1] \in Touched(r, b)
           /\ r.kind \in IoKinds =>
                /\ StepOf[r.on] \in Touched(r, b)
                /\ \A x \in b.inputted : x[2] = r.on => x[1] \in Touched(r, b)
<1>1. r.on \in Touched(r, b) /\ r.with \subseteq Touched(r, b)
  BY DEF Touched
<1>2. ASSUME r.kind = "DeleteFlow"
      PROVE  /\ \A s \in Steps : FlowOf[s] = r.on => s \in Touched(r, b)
             /\ \A s \in StepsIn(b, {r.on}) : Of(b.outputs, s) \subseteq Touched(r, b)
  BY <1>2 DEF Touched
<1>3. ASSUME r.kind = "DeleteStep" PROVE Of(b.outputs, r.on) \subseteq Touched(r, b)
  BY <1>3 DEF Touched
<1>4. ASSUME r.kind = "UpdateNodes"
      PROVE  /\ Of(b.outputs, r.on) \subseteq Touched(r, b)
             /\ \A x \in b.inputted : x[2] \in Of(b.outputs, r.on) => x[1] \in Touched(r, b)
  <2>1. Of(b.outputs, r.on) \cup UsersOf(b, Of(b.outputs, r.on)) \subseteq Touched(r, b)
    BY <1>4 DEF Touched
  <2> QED
    BY <2>1 DEF UsersOf
<1>5. ASSUME r.kind \in IoKinds
      PROVE  /\ StepOf[r.on] \in Touched(r, b)
             /\ \A x \in b.inputted : x[2] = r.on => x[1] \in Touched(r, b)
  <2>1. {StepOf[r.on]} \cup UsersOf(b, {r.on}) \subseteq Touched(r, b)
    BY <1>5 DEF Touched, IoKinds
  <2> QED
    BY <2>1 DEF UsersOf
<1> QED
  BY <1>1, <1>2, <1>3, <1>4, <1>5

\* Calls on the object of their request that carry nothing.
BareOps ==
    LockOps \cup
    {"CountFlows", "ReadSteps", "DropFlow", "FindIndex", "InsertStep", "ReadStep", "InsertIo",
     "PushInitial", "ReadToPush", "PullInitial", "ReadToPull"}

\* They fit whenever they come.
LEMMA BareFits ==
    ASSUME NEW r \in RequestSet, NEW b, NEW u, NEW op \in BareOps \cap OpsOf(r.kind)
    PROVE  Call(op, r.on, {}) \in Fitting(r, b, u)
<1> DEFINE c == Call(op, r.on, {})
<1>1. c.op = op /\ c.on = r.on /\ c.with = {}
  BY DEF Call
<1>2. c \in CallSet
  BY Kinds DEF Call, CallSet, BareOps, Ops
<1>3. op \notin {"InsertFlow", "DropStep", "DropIo", "KeepMain", "ReadUsers", "FindOutputs", "ReadForNodes",
                 "ReadInputs", "WriteInputs", "ReadIo", "FindIos", "WriteUsers", "WriteNodes",
                 "WriteRow", "WriteOutputs"}
  BY DEF BareOps, LockOps
<1> HIDE DEF c
<1>4. Fits(r, b, u, c)
  BY <1>1, <1>3 DEF Fits
<1> QED
  BY <1>2, <1>4 DEF Fitting, c

\* Sequences of calls one by one.
LEMMA OneByOne ==
    ASSUME NEW A
    PROVE  /\ << >> \in Seq(A)
           /\ \A x \in A : <<x>> \in Seq(A)
           /\ \A x, y \in A : <<x, y>> \in Seq(A)
           /\ \A x, y, z \in A : <<x, y, z>> \in Seq(A)
           /\ \A x, y, z, v \in A : <<x, y, z, v>> \in Seq(A)
           /\ \A x, y, z, v, w \in A : <<x, y, z, v, w>> \in Seq(A)
OBVIOUS

\* The calls that a request begins with fit.
LEMMA ProgramFits ==
    ASSUME NEW r \in RequestSet, NEW b \in Tables
    PROVE  /\ Program(r) \in Seq(Fitting(r, b, b)) /\ Program(r) # << >>
           /\ Frame(r, b, b)
<1>1. Frame(r, b, b)
  BY Touches, Kinds DEF Frame, IoKinds
<1> DEFINE A == Fitting(r, b, b)
<1>a. \A op \in BareOps \cap OpsOf(r.kind) : Call(op, r.on, {}) \in A
  BY BareFits
<1>b. \A x \in A : <<x>> \in Seq(A) /\ <<x>> # << >>
  BY OneByOne
<1> HIDE DEF A
<1> SUFFICES Program(r) \in Seq(A) /\ Program(r) # << >>
  BY <1>1 DEF A
<1>2. CASE r.kind = "CreateFlow"
  <2>1. Program(r) = <<Call("CountFlows", r.on, {})>>
    BY <1>2 DEF Program
  <2>2. Call("CountFlows", r.on, {}) \in A
    BY <1>2, <1>a DEF OpsOf, BareOps
  <2> QED
    BY <1>b, <2>1, <2>2
<1>3. CASE r.kind = "DeleteFlow"
  <2>1. Program(r) = <<Call("ReadSteps", r.on, {}), Call("DropFlow", r.on, {})>>
    BY <1>3 DEF Program
  <2>2. Call("ReadSteps", r.on, {}) \in A /\ Call("DropFlow", r.on, {}) \in A
    BY <1>3, <1>a DEF OpsOf, BareOps
  <2> QED
    BY <2>1, <2>2, OneByOne
<1>4. CASE r.kind = "CreateStep"
  <2>1. Program(r) = <<Call("FindFree", r.on, {}), Call("SetKey", r.on, {}), Call("FindIndex", r.on, {}),
                       Call("Unlock", r.on, {})>>
    BY <1>4 DEF Program
  <2>2. /\ Call("FindFree", r.on, {}) \in A /\ Call("SetKey", r.on, {}) \in A
        /\ Call("FindIndex", r.on, {}) \in A /\ Call("Unlock", r.on, {}) \in A
    BY <1>4, <1>a DEF OpsOf, BareOps, LockOps
  <2> QED
    BY <2>1, <2>2, OneByOne
<1>5. CASE r.kind = "DeleteStep"
  <2>1. Program(r) = <<Call("FindFree", r.on, {}), Call("SetKey", r.on, {}), Call("ReadStep", r.on, {}),
                       Call("DropStep", r.on, {}), Call("Unlock", r.on, {})>>
    BY <1>5 DEF Program
  <2>2. /\ Call("FindFree", r.on, {}) \in A /\ Call("SetKey", r.on, {}) \in A
        /\ Call("ReadStep", r.on, {}) \in A /\ Call("Unlock", r.on, {}) \in A
    BY <1>5, <1>a DEF OpsOf, BareOps, LockOps
  <2>3. Call("DropStep", r.on, {}) \in A
    <3> DEFINE c == Call("DropStep", r.on, {})
    <3>1. c.op = "DropStep" /\ c.on = r.on /\ c \in CallSet
      BY Kinds DEF Call, CallSet, Ops
    <3>2. c.on \in Steps \cap Touched(r, b) /\ c.op \in OpsOf(r.kind)
      BY <1>5, <3>1, Kinds, Touches DEF OpsOf
    <3> HIDE DEF c
    <3>3. Fits(r, b, b, c)
      BY <3>1, <3>2 DEF Fits, OwnOps, LockOps
    <3> QED
      BY <3>1, <3>3 DEF Fitting, A, c
  <2> QED
    BY <2>1, <2>2, <2>3, OneByOne
<1>6. CASE r.kind \in {"UpdateNodes", "UpdateInputs"}
  <2> DEFINE c == Call(IF r.kind = "UpdateNodes" THEN "ReadForNodes" ELSE "ReadInputs", r.on, r.with)
  <2>1. Program(r) = <<c>>
    BY <1>6 DEF Program
  <2>2. /\ c.op \in {"ReadForNodes", "ReadInputs"} /\ c.on = r.on /\ c.with = r.with
        /\ c.op \in OpsOf(r.kind)
    BY <1>6 DEF Call, OpsOf
  <2>3. c \in CallSet
    BY Kinds DEF Call, CallSet, Ops
  <2> HIDE DEF c
  <2>4. Fits(r, b, b, c)
    BY <2>2 DEF Fits
  <2>5. c \in A
    BY <2>3, <2>4 DEF Fitting, A
  <2> QED
    BY <1>b, <2>1, <2>5
<1>7. CASE r.kind = "CreateIo"
  <2>1. \/ Program(r) = <<Call("InsertIo", r.on, {}), Call("PushInitial", r.on, {})>>
        \/ Program(r) = <<Call("InsertIo", r.on, {}), Call("ReadToPush", r.on, {})>>
    BY <1>7 DEF Program
  <2>2. /\ Call("InsertIo", r.on, {}) \in A /\ Call("PushInitial", r.on, {}) \in A
        /\ Call("ReadToPush", r.on, {}) \in A
    BY <1>7, <1>a DEF OpsOf, BareOps
  <2>3. \A x, y \in A : <<x, y>> \in Seq(A) /\ <<x, y>> # << >>
    BY OneByOne
  <2> QED
    BY <2>1, <2>2, <2>3
<1>8. CASE r.kind \in {"DeleteIo", "PurgeIo"}
  <2> DEFINE c == Call("ReadIo", r.on, {r.kind})
  <2>1. Program(r) = <<c>>
    BY <1>8 DEF Program
  <2>2. c.op = "ReadIo" /\ c.on = r.on /\ c.with = {r.kind} /\ c.op \in OpsOf(r.kind)
    BY <1>8 DEF Call, OpsOf
  <2>3. c \in CallSet
    BY <1>8, Kinds DEF Call, CallSet, Ops
  <2> HIDE DEF c
  <2>4. Fits(r, b, b, c)
    BY <2>2 DEF Fits
  <2>5. c \in A
    BY <2>3, <2>4 DEF Fitting, A
  <2> QED
    BY <1>b, <2>1, <2>5
<1> QED
  BY <1>2, <1>3, <1>4, <1>5, <1>6, <1>7, <1>8, Kinds

\* The calls that delete the outputs of a step are among those that do so one
\* by one.
LEMMA DropOutputsFits ==
    ASSUME t \in Tables, NEW A, NEW s,
           \A i \in Of(t.outputs, s) : Call("DropIo", i, {}) \in A
    PROVE  DropOutputs(s) \in Seq(A)
<1> DEFINE S == Of(t.outputs, s)
           seqs == [k \in 1 .. Cardinality(S) |-> <<Call("DropIo", SetToSeq(S)[k], {})>>]
<1>1. DropOutputs(s) = FlattenSeq(seqs)
  BY DEF DropOutputs, ForEach
<1>2. IsFiniteSet(S)
  <2>1. S \subseteq Objects
    BY DEF Of, Tables, Objects
  <2> QED
    BY <2>1, FiniteObjects
<1>3. Cardinality(S) \in Nat /\ SetToSeq(S) \in [1 .. Cardinality(S) -> S]
  BY <1>2, SetToSeqType
<1>4. \A k \in 1 .. Cardinality(S) : <<Call("DropIo", SetToSeq(S)[k], {})>> \in Seq(A)
  BY <1>3, OneByOne
<1>5. seqs \in [1 .. Cardinality(S) -> Seq(A)]
  BY <1>4
<1> HIDE DEF seqs, S
<1> QED
  BY <1>1, <1>3, <1>5, FlattenSeqType

\* What a table lists are steps and IOs, and what flows have are their steps.
LEMMA TablesList ==
    ASSUME NEW u \in Tables
    PROVE  /\ u.objs \subseteq Objects
           /\ \A s : Of(u.nodes, s) \subseteq Nodes /\ Of(u.inputs, s) \subseteq Ios
                     /\ Of(u.outputs, s) \subseteq Ios
           /\ \A x \in u.inputted : x[1] \in Steps /\ x[2] \in Ios
           /\ \A S : StepsIn(u, S) = {s \in Steps \cap u.objs : FlowOf[s] \in S}
BY DEF Tables, Of, StepsIn

\* The calls that remove an IO fit, if those who take it are touched as well.
LEMMA RemovalFits ==
    ASSUME NEW r \in RequestSet, NEW b \in Tables, t \in Tables, NEW kind,
           r.kind \in {"UpdateNodes", "DeleteIo", "PurgeIo"},
           NEW i \in Ios \cap Touched(r, b),
           \A x \in t.inputted : x[2] = i => x[1] \in Touched(r, b)
    PROVE  Removal(i, kind) \in Seq(Fitting(r, b, t) \cap Plain)
<1> DEFINE users == Of({<<p[2], p[1]>> : p \in t.inputted}, i)
           A == Fitting(r, b, t) \cap Plain
           first == Call("ReadUsers", i, users)
           second == Call("DropIo", i, {})
           third == Call("KeepMain", i, users)
<1>1. Removal(i, kind) \in {<<first, second>> \o <<third>>, <<first, second>> \o << >>}
  BY DEF Removal
<1>2. users \subseteq Steps \cap Touched(r, b)
  BY TablesList DEF Of
<1>3. i \in Objects /\ users \subseteq Objects /\ i # None
  BY <1>2, BranchRowAssumption DEF Objects
<1> HIDE DEF users
<1>4. first \in A /\ second \in A /\ third \in A
  <2>1. /\ {first, second, third} \subseteq CallSet
        /\ first.op = "ReadUsers" /\ second.op = "DropIo" /\ third.op = "KeepMain"
        /\ \A c \in {first, second, third} : c.on = i
        /\ first.with = users /\ third.with = users
    BY <1>3 DEF Call, CallSet, Ops
  <2>2. {"ReadUsers", "DropIo", "KeepMain"} \subseteq OpsOf(r.kind)
    BY DEF OpsOf
  <2> HIDE DEF first, second, third
  <2>3. Fits(r, b, t, first)
    BY <1>2, <2>1, <2>2 DEF Fits, OwnOps, LockOps
  <2>4. Fits(r, b, t, second)
    BY <1>2, <2>1, <2>2 DEF Fits, OwnOps, LockOps
  <2>5. Fits(r, b, t, third)
    BY <1>2, <2>1, <2>2 DEF Fits, OwnOps, LockOps
  <2> QED
    BY <2>1, <2>3, <2>4, <2>5 DEF Fitting, Plain, LockOps
<1> HIDE DEF first, second, third, A
<1>5. <<first, second>> \in Seq(A) /\ <<third>> \in Seq(A) /\ << >> \in Seq(A)
  BY <1>4, OneByOne
<1>6. \A x, y \in Seq(A) : x \o y \in Seq(A)
  OBVIOUS
<1> QED
  BY <1>1, <1>5, <1>6 DEF A

\* A deletion of a step or of an IO of the request fits.
LEMMA DropFits ==
    ASSUME NEW r \in RequestSet, NEW b, NEW u, NEW op \in {"DropStep", "DropIo"} \cap OpsOf(r.kind),
           NEW x \in (IF op = "DropStep" THEN Steps ELSE Ios) \cap Touched(r, b)
    PROVE  Call(op, x, {}) \in Fitting(r, b, u) \cap Plain
<1> DEFINE c == Call(op, x, {})
<1>1. c.op = op /\ c.on = x /\ c \in CallSet
  BY DEF Call, CallSet, Ops, Objects
<1> HIDE DEF c
<1>2. Fits(r, b, u, c)
  BY <1>1 DEF Fits, OwnOps, LockOps
<1> QED
  BY <1>1, <1>2 DEF Fitting, Plain, LockOps, c

\* What a read of a step's row shows.
LEMMA RowShows ==
    ASSUME t \in Tables, NEW s, NEW row, row \subseteq Row(s)
    PROVE  /\ row \subseteq Cells /\ IsRow(row)
           /\ Column(row, "outputs") \subseteq Of(t.outputs, s)
<1>1. /\ Of(t.nodes, s) \subseteq Nodes /\ Of(t.inputs, s) \subseteq Ios
      /\ Of(t.outputs, s) \subseteq Ios
  BY TablesList
<1>2. \A x \in row : \/ x[1] = "nodes" /\ x[2] \in Of(t.nodes, s)
                     \/ x[1] = "inputs" /\ x[2] \in Of(t.inputs, s)
                     \/ x[1] = "outputs" /\ x[2] \in Of(t.outputs, s)
  BY DEF Row
<1>3. row \subseteq Cells
  <2>1. Row(s) \subseteq Cells
    BY <1>1 DEF Row, Cells, Objects
  <2> QED
    BY <2>1
<1>4. /\ Column(row, "nodes") \subseteq Of(t.nodes, s)
      /\ Column(row, "inputs") \subseteq Of(t.inputs, s)
      /\ Column(row, "outputs") \subseteq Of(t.outputs, s)
  BY <1>2 DEF Column
<1> QED
  BY <1>1, <1>3, <1>4 DEF IsRow

\* A request to which the calls that a read leads to belong, at that read.
Reads(r, b, c) ==
    /\ r \in RequestSet /\ b \in Tables /\ t \in Tables
    /\ c \in Fitting(r, b, t) /\ Frame(r, b, t) /\ ~Absent(c)
Leads(r, b, c) == Further(c) \in Seq(Fitting(r, b, t) \cap Plain)

\* Whose call it is.
LEMMA WhoReads ==
    ASSUME NEW r, NEW b, NEW c, Reads(r, b, c)
    PROVE  /\ c.op \in {"CountFlows", "InsertFlow"} => r.kind = "CreateFlow"
           /\ c.op = "ReadSteps" => r.kind = "DeleteFlow"
           /\ c.op \in {"FindIndex", "InsertStep"} => r.kind = "CreateStep"
           /\ c.op = "ReadStep" => r.kind = "DeleteStep"
           /\ c.op \in {"ReadForNodes", "FindOutputs", "WriteNodes"} => r.kind = "UpdateNodes"
           /\ c.op \in {"ReadInputs", "FindIos", "WriteUsers", "WriteInputs"} => r.kind = "UpdateInputs"
           /\ c.op \in {"InsertIo", "ReadToPush"} => r.kind = "CreateIo"
           /\ c.op \in {"ReadIo", "ReadToPull"} => r.kind \in {"DeleteIo", "PurgeIo"}
           /\ c.op \in {"ReadUsers", "WriteRow", "KeepMain"} => r.kind \in {"UpdateNodes", "DeleteIo", "PurgeIo"}
<1>1. c.op \in OpsOf(r.kind)
  BY DEF Reads, Fitting, Fits
<1>2. \/ r.kind \in {"CreateFlow", "DeleteFlow", "CreateStep", "DeleteStep"}
      \/ r.kind \in {"UpdateNodes", "UpdateInputs", "CreateIo", "DeleteIo", "PurgeIo"}
  BY Kinds DEF Reads
<1> QED
  BY <1>1, <1>2 DEF OpsOf

\* The new flow is put below as many as were counted.
LEMMA AfterCount ==
    ASSUME NEW r, NEW b, NEW c, Reads(r, b, c), c.op = "CountFlows"
    PROVE  Leads(r, b, c)
<1> DEFINE n == Cardinality(FlowsOf(t, NodeOf[c.on]))
           d == Call("InsertFlow", c.on, 1 .. n)
<1>1. Further(c) = <<d>>
  BY DEF Further
<1>2. n \in Nat
  <2>1. FlowsOf(t, NodeOf[c.on]) \subseteq Objects
    BY DEF FlowsOf, Objects
  <2> QED
    BY <2>1, FiniteObjects, FS_CardinalityType
<1>3. c.on = r.on /\ r.kind = "CreateFlow" /\ r \in RequestSet
  BY WhoReads DEF Reads, Fitting, Fits, OwnOps
<1>4. r.on \in Objects
  BY <1>3, Kinds
<1> HIDE DEF n
<1>5. 1 .. n \subseteq Nat /\ Cardinality(1 .. n) \in Nat
  BY <1>2, FS_Interval, FS_CardinalityType
<1>6. d.op = "InsertFlow" /\ d.on = r.on /\ d \in CallSet /\ Cardinality(d.with) \in Nat
  BY <1>3, <1>4, <1>5 DEF Call, CallSet, Ops
<1> HIDE DEF d
<1>7. Fits(r, b, t, d)
  BY <1>3, <1>6 DEF Fits, OpsOf
<1>8. d \in Fitting(r, b, t) \cap Plain
  BY <1>6, <1>7 DEF Fitting, Plain, LockOps
<1> QED
  BY <1>1, <1>8, OneByOne DEF Leads

\* A flow's steps are deleted with their outputs.
LEMMA AfterSteps ==
    ASSUME NEW r, NEW b, NEW c, Reads(r, b, c), c.op = "ReadSteps"
    PROVE  Leads(r, b, c)
<1> DEFINE S == StepsIn(t, {c.on})
           A == Fitting(r, b, t) \cap Plain
           X(s) == DropOutputs(s) \o <<Call("DropStep", s, {})>>
           seqs == [k \in 1 .. Cardinality(S) |-> X(SetToSeq(S)[k])]
<1>1. Further(c) = FlattenSeq(seqs)
  BY DEF Further, ForEach
<1>2. S \subseteq Objects /\ S \subseteq Steps /\ \A s \in S : FlowOf[s] = c.on
  BY DEF StepsIn, Objects
<1>3. Cardinality(S) \in Nat /\ SetToSeq(S) \in [1 .. Cardinality(S) -> S]
  BY <1>2, SetToSeqType, FiniteObjects
<1>4. /\ c.on = r.on /\ r.kind = "DeleteFlow" /\ r \in RequestSet /\ b \in Tables /\ t \in Tables
      /\ Frame(r, b, t)
  BY WhoReads DEF Reads, Fitting, Fits, OwnOps
<1>5. ASSUME NEW s \in S PROVE X(s) \in Seq(A)
  <2>1. s \in Steps \cap Touched(r, b)
    BY <1>2, <1>4, Touches
  <2>2. Of(t.outputs, s) \subseteq Ios \cap Touched(r, b)
    BY <1>4, TablesList DEF Frame
  <2>3. {"DropStep", "DropIo"} \subseteq OpsOf(r.kind)
    BY <1>4 DEF OpsOf
  <2>4. Call("DropStep", s, {}) \in A
    BY <1>4, <2>1, <2>3, DropFits
  <2>5. \A i \in Of(t.outputs, s) : Call("DropIo", i, {}) \in A
    BY <1>4, <2>2, <2>3, DropFits
  <2> HIDE DEF A, S
  <2>6. DropOutputs(s) \in Seq(A)
    BY <1>4, <2>5, DropOutputsFits
  <2>7. <<Call("DropStep", s, {})>> \in Seq(A)
    BY <2>4, OneByOne
  <2> QED
    BY <2>6, <2>7
<1> HIDE DEF A, X, S
<1>6. seqs \in [1 .. Cardinality(S) -> Seq(A)]
  BY <1>3, <1>5
<1> HIDE DEF seqs
<1>7. FlattenSeq(seqs) \in Seq(A)
  BY <1>3, <1>6, FlattenSeqType
<1> QED
  BY <1>1, <1>7 DEF Leads, A

\* A step is inserted unless its index is taken.
LEMMA AfterIndex ==
    ASSUME NEW r, NEW b, NEW c, Reads(r, b, c), c.op = "FindIndex"
    PROVE  Leads(r, b, c)
<1>1. c.on = r.on /\ r.kind = "CreateStep" /\ r \in RequestSet
  BY WhoReads DEF Reads, Fitting, Fits, OwnOps
<1>2. Further(c) \in {<< >>, <<Call("InsertStep", c.on, {})>>}
  BY DEF Further
<1>3. Call("InsertStep", c.on, {}) \in Fitting(r, b, t)
  BY <1>1, BareFits DEF OpsOf, BareOps
<1>4. Call("InsertStep", c.on, {}).op = "InsertStep"
  BY DEF Call
<1>5. Call("InsertStep", c.on, {}) \in Fitting(r, b, t) \cap Plain
  BY <1>3, <1>4 DEF Fitting, Plain, LockOps
<1> QED
  BY <1>2, <1>5, OneByOne DEF Leads

\* A step's outputs go before it does.
LEMMA AfterStep ==
    ASSUME NEW r, NEW b, NEW c, Reads(r, b, c), c.op = "ReadStep"
    PROVE  Leads(r, b, c)
<1>1. /\ c.on = r.on /\ r.kind = "DeleteStep" /\ r \in RequestSet /\ b \in Tables /\ t \in Tables
      /\ Frame(r, b, t)
  BY WhoReads DEF Reads, Fitting, Fits, OwnOps
<1>2. Further(c) = DropOutputs(c.on)
  BY DEF Further
<1>3. Of(t.outputs, c.on) \subseteq Ios \cap Touched(r, b)
  <2>1. Of(t.outputs, r.on) \subseteq Of(b.outputs, r.on)
    BY <1>1 DEF Frame
  <2> QED
    BY <1>1, <2>1, Touches, TablesList
<1>4. "DropIo" \in OpsOf(r.kind)
  BY <1>1 DEF OpsOf
<1>5. \A i \in Of(t.outputs, c.on) : Call("DropIo", i, {}) \in Fitting(r, b, t) \cap Plain
  BY <1>1, <1>3, <1>4, DropFits
<1> QED
  BY <1>1, <1>2, <1>5, DropOutputsFits DEF Leads

\* Outputs at the nodes that go are looked for, then the step's row is written.
LEMMA AfterNodes ==
    ASSUME NEW r, NEW b, NEW c, Reads(r, b, c), c.op = "ReadForNodes"
    PROVE  Leads(r, b, c)
<1> DEFINE row == {x \in Row(c.on) : x[1] # "nodes" /\ At[x[2]] \in c.with} \cup {"nodes"} \X c.with
           d == Call("FindOutputs", c.on, LostOutputs(c.on, c.with))
           e == Call("WriteNodes", c.on, row)
<1>1. /\ c.on = r.on /\ c.with = r.with /\ r.kind = "UpdateNodes" /\ r \in RequestSet
      /\ b \in Tables /\ t \in Tables /\ Frame(r, b, t) /\ c.on \in t.objs
  BY WhoReads DEF Reads, Fitting, Fits, OwnOps, Absent
<1>2. Further(c) = <<d, e>>
  BY DEF Further
<1>3. r.on \in Steps /\ r.on \in Objects /\ r.with \subseteq Nodes /\ r.on \in Touched(r, b)
  BY <1>1, Kinds, Touches
<1>4. LostOutputs(c.on, c.with) \subseteq Of(b.outputs, r.on) /\ LostOutputs(c.on, c.with) \subseteq Ios
  BY <1>1, TablesList DEF Frame, LostOutputs
<1>5. row \subseteq Cells /\ IsRow(row) /\ Column(row, "outputs") \subseteq Of(b.outputs, r.on)
  <2> DEFINE kept == {x \in Row(c.on) : x[1] # "nodes" /\ At[x[2]] \in c.with}
  <2>1. kept \subseteq Row(c.on)
    OBVIOUS
  <2> HIDE DEF kept
  <2>2. kept \subseteq Cells /\ IsRow(kept) /\ Column(kept, "outputs") \subseteq Of(t.outputs, c.on)
    BY <1>1, <2>1, RowShows
  <2>3. row = kept \cup {"nodes"} \X c.with
    BY DEF kept
  <2>4. \A x \in {"nodes"} \X c.with : x[1] = "nodes" /\ x[2] \in Nodes
    BY <1>1, <1>3
  <2>5. Column(row, "outputs") = Column(kept, "outputs") /\ Column(row, "inputs") = Column(kept, "inputs")
    BY <2>3, <2>4 DEF Column
  <2>6. Column(row, "nodes") \subseteq Nodes
    BY <2>2, <2>3, <2>4 DEF Column, IsRow
  <2>7. {"nodes"} \X c.with \subseteq Cells
    BY <1>1, <1>3 DEF Cells, Objects
  <2>8. Of(t.outputs, c.on) \subseteq Of(b.outputs, r.on)
    BY <1>1 DEF Frame
  <2> QED
    BY <2>2, <2>3, <2>5, <2>6, <2>7, <2>8 DEF IsRow
<1> HIDE DEF row
<1>6. /\ d.op = "FindOutputs" /\ d.on = r.on /\ d.with \subseteq Of(b.outputs, r.on) /\ d \in CallSet
      /\ e.op = "WriteNodes" /\ e.on = r.on /\ e.with = row /\ e \in CallSet
  BY <1>1, <1>3, <1>4, <1>5 DEF Call, CallSet, Ops, Objects
<1> HIDE DEF d, e
<1>7. Fits(r, b, t, d)
  BY <1>1, <1>6 DEF Fits, OpsOf
<1>8. Fits(r, b, t, e)
  BY <1>1, <1>3, <1>5, <1>6 DEF Fits, OpsOf
<1>9. d \in Fitting(r, b, t) \cap Plain /\ e \in Fitting(r, b, t) \cap Plain
  BY <1>6, <1>7, <1>8 DEF Fitting, Plain, LockOps
<1> QED
  BY <1>2, <1>9, OneByOne DEF Leads

\* The outputs that are found are removed.
LEMMA AfterOutputs ==
    ASSUME NEW r, NEW b, NEW c, Reads(r, b, c), c.op = "FindOutputs"
    PROVE  Leads(r, b, c)
<1> DEFINE S == c.with \cap t.objs
           A == Fitting(r, b, t) \cap Plain
           seqs == [k \in 1 .. Cardinality(S) |-> Removal(SetToSeq(S)[k], "DeleteIo")]
<1>1. Further(c) = FlattenSeq(seqs)
  BY DEF Further, ForEach
<1>2. /\ c.on = r.on /\ r.kind = "UpdateNodes" /\ r \in RequestSet /\ b \in Tables /\ t \in Tables
      /\ Frame(r, b, t) /\ c.with \subseteq Of(b.outputs, r.on)
  BY WhoReads DEF Reads, Fitting, Fits, OwnOps
<1>3. S \subseteq Objects
  BY <1>2, TablesList
<1>4. Cardinality(S) \in Nat /\ SetToSeq(S) \in [1 .. Cardinality(S) -> S]
  BY <1>3, SetToSeqType, FiniteObjects
<1>5. ASSUME NEW i \in S PROVE Removal(i, "DeleteIo") \in Seq(A)
  <2>1. i \in Ios \cap Touched(r, b)
    BY <1>2, TablesList, Touches
  <2>2. \A x \in t.inputted : x[2] = i => x[1] \in Touched(r, b)
    BY <1>2 DEF Frame
  <2> QED
    BY <1>2, <2>1, <2>2, RemovalFits
<1> HIDE DEF A, S
<1>6. seqs \in [1 .. Cardinality(S) -> Seq(A)]
  BY <1>4, <1>5
<1> HIDE DEF seqs
<1>7. FlattenSeq(seqs) \in Seq(A)
  BY <1>4, <1>6, FlattenSeqType
<1> QED
  BY <1>1, <1>7 DEF Leads, A

\* The IOs that are added or removed are looked for, then the step's row is
\* written.
LEMMA AfterInputs ==
    ASSUME NEW r, NEW b, NEW c, Reads(r, b, c), c.op = "ReadInputs"
    PROVE  Leads(r, b, c)
<1> DEFINE now == Of(t.inputs, c.on)
           changes == {"added"} \X (c.with \ now) \cup {"removed"} \X (now \ c.with)
           d == Call("FindIos", c.on, changes)
           e == Call("WriteInputs", c.on, c.with)
<1>1. /\ c.on = r.on /\ c.with = r.with /\ r.kind = "UpdateInputs" /\ r \in RequestSet
      /\ b \in Tables /\ t \in Tables /\ c.on \in t.objs
  BY WhoReads DEF Reads, Fitting, Fits, OwnOps, Absent
<1>2. Further(c) = <<d, e>>
  BY DEF Further
<1>3. /\ r.on \in Steps /\ r.on \in Objects /\ r.with \subseteq Ios /\ r.on \in Touched(r, b)
      /\ now \subseteq Ios
  BY <1>1, Kinds, Touches, TablesList
<1> HIDE DEF now
<1>4. \A x \in changes : \/ x[1] = "added" /\ x[2] \in r.with
                         \/ x[1] = "removed" /\ x[2] \in now
  BY <1>1
<1>5. changes \subseteq Cells
  BY <1>1, <1>3 DEF Cells, Objects
<1> HIDE DEF changes
<1>6. Column(changes, "added") \subseteq r.with /\ Column(changes, "removed") \subseteq Ios
  BY <1>3, <1>4 DEF Column
<1>7. /\ d.op = "FindIos" /\ d.on = r.on /\ d.with = changes /\ d \in CallSet
      /\ e.op = "WriteInputs" /\ e.on = r.on /\ e.with = r.with /\ e \in CallSet
  BY <1>1, <1>3, <1>5 DEF Call, CallSet, Ops, Objects
<1> HIDE DEF d, e
<1>8. Fits(r, b, t, d)
  BY <1>1, <1>6, <1>7 DEF Fits, OpsOf
<1>9. Fits(r, b, t, e)
  BY <1>1, <1>3, <1>7 DEF Fits, OpsOf
<1>10. d \in Fitting(r, b, t) \cap Plain /\ e \in Fitting(r, b, t) \cap Plain
  BY <1>7, <1>8, <1>9 DEF Fitting, Plain, LockOps
<1> QED
  BY <1>2, <1>10, OneByOne DEF Leads

\* Of the IOs that are added those that are found are written.
LEMMA AfterIos ==
    ASSUME NEW r, NEW b, NEW c, Reads(r, b, c), c.op = "FindIos"
    PROVE  Leads(r, b, c)
<1> DEFINE changes == {x \in c.with : x[1] = "removed" \/ x[2] \in t.objs}
           d == Call("WriteUsers", c.on, changes)
<1>1. /\ c.on = r.on /\ r.kind = "UpdateInputs" /\ r \in RequestSet /\ c \in CallSet
      /\ Column(c.with, "added") \subseteq r.with /\ Column(c.with, "removed") \subseteq Ios
  BY WhoReads DEF Reads, Fitting, Fits, OwnOps
<1>2. Further(c) = <<d>>
  BY DEF Further
<1>3. /\ Column(changes, "added") \subseteq Column(c.with, "added") \cap t.objs
      /\ Column(changes, "removed") \subseteq Column(c.with, "removed")
  BY DEF Column
<1>4. changes \in SUBSET (Nat \cup Objects \cup Cells \cup {"DeleteIo", "PurgeIo"})
  BY <1>1 DEF CallSet
<1> HIDE DEF changes
<1>5. d.op = "WriteUsers" /\ d.on = r.on /\ d.with = changes /\ d \in CallSet
  BY <1>1, <1>4, Kinds DEF Call, CallSet, Ops
<1> HIDE DEF d
<1>6. Fits(r, b, t, d)
  BY <1>1, <1>3, <1>5 DEF Fits, OpsOf
<1>7. d \in Fitting(r, b, t) \cap Plain
  BY <1>5, <1>6 DEF Fitting, Plain, LockOps
<1> QED
  BY <1>2, <1>7, OneByOne DEF Leads

\* The IO is put among the outputs of its step, or taken from them.
LEMMA AfterPushOrPull ==
    ASSUME NEW r, NEW b, NEW c, Reads(r, b, c), c.op \in {"ReadToPush", "ReadToPull"}
    PROVE  Leads(r, b, c)
<1>1. /\ c.on = r.on /\ r.kind \in IoKinds /\ r \in RequestSet /\ b \in Tables /\ t \in Tables
      /\ StepOf[c.on] \in t.objs
  BY WhoReads DEF Reads, Fitting, Fits, OwnOps, Absent, IoKinds
<1>2. PICK S \in SUBSET Ios : Further(c) = <<Call("WriteOutputs", StepOf[c.on], S)>>
  <2>1. r.on \in Ios
    BY <1>1, Kinds DEF IoKinds
  <2>2. /\ Of(t.outputs, StepOf[c.on]) \cup {c.on} \in SUBSET Ios
        /\ Of(t.outputs, StepOf[c.on]) \ {c.on} \in SUBSET Ios
    BY <1>1, <2>1, TablesList
  <2> QED
    BY <2>2 DEF Further
<1> DEFINE d == Call("WriteOutputs", StepOf[c.on], S)
<1>3. StepOf[r.on] \in Steps \cap Touched(r, b)
  <2>1. r.on \in Ios
    BY <1>1, Kinds DEF IoKinds
  <2>2. StepOf[r.on] \in Touched(r, b)
    BY <1>1, Touches
  <2>3. StepOf[r.on] \in Objects
    BY <1>1, TablesList
  <2> QED
    BY <2>1, <2>2, <2>3, BranchRowAssumption
<1>4. d.op = "WriteOutputs" /\ d.on = StepOf[r.on] /\ d.with = S /\ d \in CallSet
  BY <1>1, <1>3 DEF Call, CallSet, Ops, Objects
<1> HIDE DEF d
<1>5. "WriteOutputs" \in OpsOf(r.kind)
  BY <1>1 DEF OpsOf, IoKinds
<1>6. Fits(r, b, t, d)
  BY <1>1, <1>3, <1>4, <1>5 DEF Fits, OwnOps, LockOps
<1>7. d \in Fitting(r, b, t) \cap Plain
  BY <1>4, <1>6 DEF Fitting, Plain, LockOps
<1> QED
  BY <1>2, <1>7, OneByOne DEF Leads, d

\* An IO leaves its step or the workflow, the steps that take it, and its table.
LEMMA AfterIo ==
    ASSUME NEW r, NEW b, NEW c, Reads(r, b, c), c.op = "ReadIo"
    PROVE  Leads(r, b, c)
<1> DEFINE A == Fitting(r, b, t) \cap Plain
           kind == CHOOSE k \in c.with : TRUE
           first == Call("PullInitial", c.on, {})
           second == Call("ReadToPull", c.on, {})
<1>1. /\ c.on = r.on /\ r.kind \in {"DeleteIo", "PurgeIo"} /\ r \in RequestSet /\ b \in Tables
      /\ t \in Tables /\ Frame(r, b, t)
  BY WhoReads DEF Reads, Fitting, Fits, OwnOps
<1>2. \E x \in {<<first>>, << >>, <<second>>} : Further(c) = x \o Removal(c.on, kind)
  BY DEF Further
<1>3. first \in A /\ second \in A
  <2>1. {"PullInitial", "ReadToPull"} \subseteq BareOps \cap OpsOf(r.kind)
    BY <1>1 DEF BareOps, OpsOf
  <2>2. first \in Fitting(r, b, t) /\ second \in Fitting(r, b, t)
    BY <1>1, <2>1, BareFits
  <2>3. first.op = "PullInitial" /\ second.op = "ReadToPull"
    BY DEF Call
  <2> QED
    BY <2>2, <2>3 DEF Fitting, Plain, LockOps
<1>4. Removal(c.on, kind) \in Seq(A)
  <2>1. c.on \in Ios \cap Touched(r, b)
    BY <1>1, Kinds, Touches
  <2>2. \A x \in t.inputted : x[2] = c.on => x[1] \in Touched(r, b)
    BY <1>1 DEF Frame
  <2> HIDE DEF kind
  <2> QED
    BY <1>1, <2>1, <2>2, RemovalFits
<1> HIDE DEF A, kind, first, second
<1>5. \A x \in {<<first>>, << >>, <<second>>} : x \in Seq(A)
  BY <1>3, OneByOne
<1>6. \A x, y \in Seq(A) : x \o y \in Seq(A)
  OBVIOUS
<1> QED
  BY <1>2, <1>4, <1>5, <1>6 DEF Leads, A

\* The rows of the steps that take an IO are written without it.
LEMMA AfterUsers ==
    ASSUME NEW r, NEW b, NEW c, Reads(r, b, c), c.op = "ReadUsers"
    PROVE  Leads(r, b, c)
<1> DEFINE S == UsersFound(c.on, c.with)
           A == Fitting(r, b, t) \cap Plain
           X(s) == <<Call("WriteRow", s, Row(s) \ {<<"inputs", c.on>>})>>
           seqs == [k \in 1 .. Cardinality(S) |-> X(SetToSeq(S)[k])]
<1>1. Further(c) = FlattenSeq(seqs)
  BY DEF Further, ForEach
<1>2. /\ r.kind \in {"UpdateNodes", "DeleteIo", "PurgeIo"} /\ r \in RequestSet /\ b \in Tables
      /\ t \in Tables /\ Frame(r, b, t) /\ c.with \subseteq Steps \cap Touched(r, b)
  BY WhoReads DEF Reads, Fitting, Fits
<1>3. S \subseteq Steps \cap Touched(r, b) \cap t.objs
  BY <1>2 DEF UsersFound
<1>4. S \subseteq Objects
  BY <1>3 DEF Objects
<1>5. Cardinality(S) \in Nat /\ SetToSeq(S) \in [1 .. Cardinality(S) -> S]
  BY <1>4, SetToSeqType, FiniteObjects
<1>6. ASSUME NEW s \in S PROVE X(s) \in Seq(A)
  <2> DEFINE row == Row(s) \ {<<"inputs", c.on>>}
             d == Call("WriteRow", s, row)
  <2>1. row \subseteq Cells /\ IsRow(row) /\ Column(row, "outputs") \subseteq Of(t.outputs, s)
    <3>1. row \subseteq Row(s)
      OBVIOUS
    <3> HIDE DEF row
    <3> QED
      BY <1>2, <3>1, RowShows
  <2> HIDE DEF row
  <2>2. s = r.on => Column(row, "outputs") \subseteq Of(b.outputs, r.on)
    <3>1. ASSUME s = r.on PROVE r.kind = "UpdateNodes"
      <4>1. r.kind \in {"DeleteIo", "PurgeIo"} => r.on \in Ios
        BY <1>2, Kinds
      <4>2. s \in Steps /\ s \notin Ios
        BY <1>3, FlowsAssumption
      <4> QED
        BY <1>2, <3>1, <4>1, <4>2
    <3> QED
      BY <1>2, <2>1, <3>1 DEF Frame
  <2>3. d.op = "WriteRow" /\ d.on = s /\ d.with = row /\ d \in CallSet
    BY <1>3, <2>1 DEF Call, CallSet, Ops, Objects
  <2> HIDE DEF d
  <2>4. "WriteRow" \in OpsOf(r.kind)
    BY <1>2 DEF OpsOf
  <2>5. Fits(r, b, t, d)
    BY <1>3, <2>1, <2>2, <2>3, <2>4 DEF Fits, OwnOps, LockOps
  <2>6. d \in A
    BY <2>3, <2>5 DEF Fitting, Plain, LockOps
  <2> HIDE DEF A
  <2>7. <<d>> \in Seq(A)
    BY <2>6, OneByOne
  <2> QED
    BY <2>7 DEF d, row
<1> HIDE DEF A, X, S
<1>7. seqs \in [1 .. Cardinality(S) -> Seq(A)]
  BY <1>5, <1>6
<1> HIDE DEF seqs
<1>8. FlattenSeq(seqs) \in Seq(A)
  BY <1>5, <1>7, FlattenSeqType
<1> QED
  BY <1>1, <1>8 DEF Leads, A

\* The calls that a read leads to fit, and none of them is for the lock.
LEMMA FurtherFits ==
    ASSUME NEW r, NEW b, NEW c, Reads(r, b, c)
    PROVE  Leads(r, b, c)
<1>1. CASE c.op \in {"CountFlows", "ReadSteps", "FindIndex", "ReadStep", "ReadForNodes", "FindOutputs",
                     "ReadInputs", "FindIos", "ReadToPush", "ReadToPull", "ReadIo", "ReadUsers"}
  BY <1>1, AfterCount, AfterSteps, AfterIndex, AfterStep, AfterNodes, AfterOutputs, AfterInputs,
     AfterIos, AfterPushOrPull, AfterIo, AfterUsers
<1>2. CASE c.op \notin {"CountFlows", "ReadSteps", "FindIndex", "ReadStep", "ReadForNodes",
                        "FindOutputs", "ReadInputs", "FindIos", "ReadToPush", "ReadToPull", "ReadIo",
                        "ReadUsers"}
  <2>1. Further(c) = << >>
    BY <1>2 DEF Further
  <2> QED
    BY <2>1, OneByOne DEF Leads
<1> QED
  BY <1>1, <1>2

-----------------------------------------------------------------------------
(* What a call writes.                                                     *)

Columns ==
    {"objs", "parent", "above", "title", "index", "place", "nodes", "inputs", "outputs", "inputted",
     "loose", "initial", "text"}
HasColumns(u) == DOMAIN u = Columns /\ u = [x \in DOMAIN u |-> u[x]]

\* Tables are the records that have their columns, of their types.
LEMMA TablesAre ==
    ASSUME NEW u
    PROVE  u \in Tables <=>
             /\ HasColumns(u)
             /\ u.objs \subseteq Objects
             /\ u.parent \in [Nodes -> Nodes \cup {None}] /\ u.above \in [Nodes -> SUBSET Nodes]
             /\ u.title \in [Titled -> Titles \cup {NoTitle}]
             /\ u.index \in [Steps -> Nat] /\ u.place \in [Flows -> Nat]
             /\ u.nodes \subseteq Steps \X Nodes
             /\ u.inputs \subseteq Steps \X Ios /\ u.outputs \subseteq Steps \X Ios
             /\ u.inputted \subseteq Steps \X Ios
             /\ u.loose \subseteq Ios /\ u.initial \subseteq Ios
             /\ u.text \in [Objects -> SUBSET Texts]
<1>1. ASSUME HasColumns(u)
      PROVE  u = [objs |-> u.objs, parent |-> u.parent, above |-> u.above, title |-> u.title,
                  index |-> u.index, place |-> u.place, nodes |-> u.nodes, inputs |-> u.inputs,
                  outputs |-> u.outputs, inputted |-> u.inputted, loose |-> u.loose,
                  initial |-> u.initial, text |-> u.text]
  BY <1>1 DEF HasColumns, Columns
<1>2. u \in Tables => HasColumns(u)
  BY DEF Tables, HasColumns, Columns
<1> QED
  BY <1>1, <1>2 DEF Tables

\* Rows inserted are tables again, and what they add.
Inserted(u, w, S) ==
    LET v == InsertRows(u, w, S) IN
    /\ v \in Tables
    /\ v.objs = u.objs \cup S
    /\ v.inputs = StepPairs(u.inputs, w.inputs, S) /\ v.outputs = StepPairs(u.outputs, w.outputs, S)
    /\ v.inputted = IoPairs(u.inputted, w.inputted, S)
    /\ v.loose = (u.loose \ S) \cup (w.loose \cap S) /\ v.initial = u.initial

\* It is what InsertRows does.
LEMMA Inserting ==
    ASSUME NEW u \in Tables, NEW w \in Tables, NEW S, S \subseteq Objects
    PROVE  Inserted(u, w, S)
<1> DEFINE v == InsertRows(u, w, S)
<1>1. \A A, B : \A f \in [A -> B], g \in [A -> B] : Overriding(f, g, S) \in [A -> B]
  BY DEF Overriding
<1>2. /\ Overriding(u.parent, w.parent, S) \in [Nodes -> Nodes \cup {None}]
      /\ Overriding(u.above, w.above, S) \in [Nodes -> SUBSET Nodes]
      /\ Overriding(u.title, w.title, S) \in [Titled -> Titles \cup {NoTitle}]
      /\ Overriding(u.index, w.index, S) \in [Steps -> Nat]
      /\ Overriding(u.place, w.place, S) \in [Flows -> Nat]
  BY <1>1 DEF Tables
<1>3. /\ StepPairs(u.nodes, w.nodes, S) \subseteq Steps \X Nodes
      /\ StepPairs(u.inputs, w.inputs, S) \subseteq Steps \X Ios
      /\ StepPairs(u.outputs, w.outputs, S) \subseteq Steps \X Ios
      /\ IoPairs(u.inputted, w.inputted, S) \subseteq Steps \X Ios
      /\ (u.loose \ S) \cup (w.loose \cap S) \subseteq Ios
  BY DEF Tables, StepPairs, IoPairs
<1>4. HasColumns(u)
  BY TablesAre
<1>5. /\ HasColumns(v)
      /\ v.objs = u.objs \cup S
      /\ v.parent = Overriding(u.parent, w.parent, S) /\ v.above = Overriding(u.above, w.above, S)
      /\ v.title = Overriding(u.title, w.title, S) /\ v.index = Overriding(u.index, w.index, S)
      /\ v.place = Overriding(u.place, w.place, S)
      /\ v.nodes = StepPairs(u.nodes, w.nodes, S) /\ v.inputs = StepPairs(u.inputs, w.inputs, S)
      /\ v.outputs = StepPairs(u.outputs, w.outputs, S)
      /\ v.inputted = IoPairs(u.inputted, w.inputted, S)
      /\ v.loose = (u.loose \ S) \cup (w.loose \cap S)
      /\ v.initial = u.initial /\ v.text = u.text
  BY <1>4, ZenonT(40) DEF InsertRows, HasColumns, Columns
<1>6. u.objs \cup S \subseteq Objects /\ u.initial \subseteq Ios /\ u.text \in [Objects -> SUBSET Texts]
  BY TablesAre
<1> HIDE DEF v
<1>7. v \in Tables
  BY <1>2, <1>3, <1>5, <1>6, TablesAre
<1> QED
  BY <1>5, <1>7 DEF v, Inserted

\* The empty tables are tables, and so are those with what new steps have.
LEMMA EmptyTables ==
    /\ Empty \in Tables /\ NewSteps \in Tables
    /\ Empty.outputs = {} /\ Empty.inputted = {} /\ Empty.inputs = {} /\ Empty.loose = {}
    /\ NewSteps.outputs = {} /\ NewSteps.inputted = {} /\ NewSteps.inputs = {} /\ NewSteps.loose = {}
BY FlowsAssumption DEF NewSteps, Empty, Tables

\* Rows deleted.
LEMMA Deleting ==
    ASSUME NEW u \in Tables, NEW S \in SUBSET Objects
    PROVE  LET v == DeleteRows(u, S) IN
           /\ v \in Tables
           /\ v.objs = u.objs \ S
           /\ v.outputs \subseteq u.outputs /\ v.inputted \subseteq u.inputted
           /\ v.inputs = StepPairs(u.inputs, {}, S) /\ v.outputs = StepPairs(u.outputs, {}, S)
           /\ v.inputted = IoPairs(u.inputted, {}, S)
           /\ v.loose = u.loose \ S /\ v.initial = u.initial
<1> DEFINE w == InsertRows(u, Empty, S)
           v == DeleteRows(u, S)
<1>1. /\ w \in Tables /\ w.objs = u.objs \cup S
      /\ w.outputs = StepPairs(u.outputs, {}, S) /\ w.inputted = IoPairs(u.inputted, {}, S)
      /\ w.inputs = StepPairs(u.inputs, {}, S) /\ w.loose = u.loose \ S /\ w.initial = u.initial
  <2>1. /\ Empty \in Tables /\ Empty.outputs = {} /\ Empty.inputted = {} /\ Empty.inputs = {}
        /\ Empty.loose = {}
    BY EmptyTables
  <2>2. Inserted(u, Empty, S)
    BY <2>1, Inserting
  <2> QED
    BY <2>1, <2>2 DEF Inserted
<1>2. w.outputs \subseteq u.outputs /\ w.inputted \subseteq u.inputted
  BY <1>1 DEF StepPairs, IoPairs
<1>3. v = [w EXCEPT !.objs = @ \ S, !.text = Overriding(@, Empty.text, S)]
  BY DEF DeleteRows
<1>4. Overriding(w.text, Empty.text, S) \in [Objects -> SUBSET Texts]
  BY <1>1, EmptyTables, TablesAre DEF Overriding
<1> HIDE DEF w, v
<1>5. HasColumns(w)
  BY <1>1, TablesAre
<1>6. /\ HasColumns(v) /\ v.objs = w.objs \ S /\ v.text = Overriding(w.text, Empty.text, S)
      /\ v.parent = w.parent /\ v.above = w.above /\ v.title = w.title /\ v.index = w.index
      /\ v.place = w.place /\ v.nodes = w.nodes /\ v.inputs = w.inputs /\ v.outputs = w.outputs
      /\ v.inputted = w.inputted /\ v.loose = w.loose /\ v.initial = w.initial
  BY <1>3, <1>5 DEF HasColumns, Columns
<1>7. v.objs = u.objs \ S /\ v.objs \subseteq Objects
  BY <1>1, <1>6, TablesAre
<1>8. v \in Tables
  BY <1>1, <1>4, <1>6, <1>7, TablesAre
<1> QED
  BY <1>1, <1>2, <1>6, <1>7, <1>8 DEF v

\* An UPDATE of rows that are there inserts none.
LEMMA Upserting ==
    ASSUME NEW u \in Tables, NEW S, S \subseteq u.objs
    PROVE  LET v == Upserted(u, S) IN
           /\ v \in Tables /\ v.objs = u.objs
           /\ v.outputs = u.outputs /\ v.inputted = u.inputted
           /\ v.inputs = u.inputs /\ v.loose = u.loose /\ v.initial = u.initial
<1> DEFINE v == Upserted(u, S)
<1>1. HasColumns(u)
  BY TablesAre
<1>2. /\ HasColumns(v) /\ v.objs = u.objs \cup S /\ v.index = Overriding(u.index, IndexOf, S)
      /\ v.loose = u.loose \cup ((S \cap Ios) \ u.objs)
      /\ v.parent = u.parent /\ v.above = u.above /\ v.title = u.title /\ v.text = u.text
      /\ v.place = u.place /\ v.nodes = u.nodes /\ v.inputs = u.inputs /\ v.outputs = u.outputs
      /\ v.inputted = u.inputted /\ v.initial = u.initial
  BY <1>1 DEF Upserted, HasColumns, Columns
<1> HIDE DEF v
<1>3. v.objs = u.objs /\ v.loose = u.loose
  BY <1>2
<1>4. v.index \in [Steps -> Nat]
  BY <1>2, TablesAre, FlowsAssumption DEF Overriding
<1>5. v \in Tables
  BY <1>2, <1>3, <1>4, TablesAre
<1> QED
  BY <1>2, <1>3, <1>5 DEF v

\* v is tables with the rows of u, and what steps and IOs list is this.
Lists(v, u, outs, users) == v \in Tables /\ v.objs = u.objs /\ v.outputs = outs /\ v.inputted = users

\* A column of a table changed.
LEMMA Changing ==
    ASSUME NEW u \in Tables, NEW P
    PROVE  /\ P \subseteq Steps \X Ios =>
                /\ Lists([u EXCEPT !.outputs = P], u, P, u.inputted)
                /\ Lists([u EXCEPT !.inputs = P], u, u.outputs, u.inputted)
                /\ Lists([u EXCEPT !.inputted = P], u, u.outputs, P)
           /\ P \subseteq Steps \X Nodes => Lists([u EXCEPT !.nodes = P], u, u.outputs, u.inputted)
           /\ P \subseteq Ios =>
                /\ Lists([u EXCEPT !.initial = P], u, u.outputs, u.inputted)
                /\ Lists([u EXCEPT !.loose = P], u, u.outputs, u.inputted)
           /\ P \in [Flows -> Nat] => Lists([u EXCEPT !.place = P], u, u.outputs, u.inputted)
<1>1. P \subseteq Steps \X Ios =>
         /\ Lists([u EXCEPT !.outputs = P], u, P, u.inputted)
         /\ Lists([u EXCEPT !.inputs = P], u, u.outputs, u.inputted)
         /\ Lists([u EXCEPT !.inputted = P], u, u.outputs, P)
  BY DEF Tables, Lists
<1>2. P \subseteq Steps \X Nodes => Lists([u EXCEPT !.nodes = P], u, u.outputs, u.inputted)
  BY DEF Tables, Lists
<1>3. P \subseteq Ios =>
         /\ Lists([u EXCEPT !.initial = P], u, u.outputs, u.inputted)
         /\ Lists([u EXCEPT !.loose = P], u, u.outputs, u.inputted)
  BY DEF Tables, Lists
<1>4. P \in [Flows -> Nat] => Lists([u EXCEPT !.place = P], u, u.outputs, u.inputted)
  BY DEF Tables, Lists
<1> QED
  BY <1>1, <1>2, <1>3, <1>4

Drops == {"DropFlow", "DropStep", "DropIo"}
Inserts == {"InsertFlow", "InsertStep", "InsertIo", "KeepMain"}

\* What call c of request r does to the rows that there are, and what it adds
\* to what steps and IOs list.
Effect(r, b, c) ==
    LET v == Result(c) IN
    /\ v \in Tables
    /\ c.op \in Drops => v.objs = t.objs \ {c.on}
    /\ c.op \in Inserts => v.objs = t.objs \cup {c.on}
    /\ c.op \notin Drops \cup Inserts => v.objs = t.objs
    /\ \A x \in v.outputs \ t.outputs : x[1] \in Touched(r, b) \cap Steps
    /\ \A x \in v.inputted \ t.inputted : x[2] \in Touched(r, b) \cap Ios
    /\ Frame(r, b, v)

\* A request at work and one of its calls.
Works(r, b, c) ==
    r \in RequestSet /\ b \in Tables /\ t \in Tables /\ c \in Fitting(r, b, t) /\ Frame(r, b, t)

\* Whose call it is that writes.
LEMMA WhoWrites ==
    ASSUME NEW r, NEW b, NEW c, Works(r, b, c)
    PROVE  /\ c.op = "InsertFlow" => r.kind = "CreateFlow"
           /\ c.op = "InsertStep" => r.kind = "CreateStep"
           /\ c.op = "DropFlow" => r.kind = "DeleteFlow"
           /\ c.op = "DropStep" => r.kind \in {"DeleteFlow", "DeleteStep"}
           /\ c.op = "WriteNodes" => r.kind = "UpdateNodes"
           /\ c.op \in {"WriteUsers", "WriteInputs"} => r.kind = "UpdateInputs"
           /\ c.op = "InsertIo" => r.kind = "CreateIo"
           /\ c.op \in {"WriteOutputs", "PushInitial", "PullInitial"} => r.kind \in IoKinds
           /\ c.op \in {"WriteRow", "KeepMain"} => r.kind \in {"UpdateNodes", "DeleteIo", "PurgeIo"}
<1>1. c.op \in OpsOf(r.kind)
  BY DEF Works, Fitting, Fits
<1>2. \/ r.kind \in {"CreateFlow", "DeleteFlow", "CreateStep", "DeleteStep"}
      \/ r.kind \in {"UpdateNodes", "UpdateInputs", "CreateIo", "DeleteIo", "PurgeIo"}
  BY Kinds DEF Works
<1> QED
  BY <1>1, <1>2 DEF OpsOf, IoKinds

\* Whose row it is that a call is about.
LEMMA OwnRow ==
    ASSUME NEW r, NEW b, NEW c, Works(r, b, c)
    PROVE  /\ r \in RequestSet /\ (c.op \in OwnOps => c.on = r.on)
           /\ (c.op = "KeepMain" => c.on \in Ios)
BY DEF Works, Fitting, Fits

\* What a request is to read stays so if nothing is added.
LEMMA FrameShrinks ==
    ASSUME NEW r \in RequestSet, NEW b \in Tables, NEW u \in Tables, NEW v \in Tables, Frame(r, b, u),
           v.objs \cap Steps \subseteq u.objs, v.outputs \subseteq u.outputs,
           v.inputted \subseteq u.inputted
    PROVE  Frame(r, b, v)
<1>1. \A s : Of(v.outputs, s) \subseteq Of(u.outputs, s)
  BY DEF Of
<1>2. StepsIn(v, {r.on}) \subseteq StepsIn(u, {r.on})
  BY DEF StepsIn
<1> QED
  BY <1>1, <1>2 DEF Frame

\* Rows deleted.
LEMMA EffectDrop ==
    ASSUME NEW r, NEW b, NEW c, Works(r, b, c), c.op \in Drops
    PROVE  Effect(r, b, c)
<1>1. Result(c) = DeleteRows(t, {c.on})
  BY DEF Result, Drops
<1>2. c.on \in Objects
  <2>1. c.op = "DropFlow" => c.on = r.on
    BY DEF Works, Fitting, Fits, OwnOps
  <2>2. c.op \in {"DropStep", "DropIo"} => c.on \in Steps \cup Ios
    BY DEF Works, Fitting, Fits
  <2>3. r.on \in Objects
    BY Kinds DEF Works
  <2> QED
    BY <2>1, <2>2, <2>3 DEF Drops, Objects
<1> DEFINE v == DeleteRows(t, {c.on})
<1>3. /\ v \in Tables /\ v.objs = t.objs \ {c.on}
      /\ v.outputs \subseteq t.outputs /\ v.inputted \subseteq t.inputted
  BY <1>2, Deleting DEF Works
<1> HIDE DEF v
<1>4. Frame(r, b, v)
  BY <1>3, FrameShrinks DEF Works
<1>5. Result(c) = v
  BY <1>1 DEF v
<1> QED
  BY <1>3, <1>4, <1>5 DEF Effect, Drops, Inserts

\* A row inserted that lists nothing.
LEMMA EffectInsert ==
    ASSUME NEW r, NEW b, NEW c, Works(r, b, c), c.op \in {"InsertFlow", "InsertStep", "InsertIo"}
    PROVE  Effect(r, b, c)
<1>1. /\ c.on = r.on /\ c.on \in Objects /\ r \in RequestSet /\ b \in Tables /\ t \in Tables
      /\ Frame(r, b, t)
  BY Kinds DEF Works, Fitting, Fits, OwnOps
<1>2. PICK w \in Tables : /\ w.outputs = {} /\ w.inputted = {}
                          /\ w = IF c.op = "InsertStep" THEN NewSteps ELSE Empty
  BY EmptyTables
<1> DEFINE u == InsertRows(t, w, {c.on})
<1>3. /\ u \in Tables /\ u.objs = t.objs \cup {c.on}
      /\ u.outputs = StepPairs(t.outputs, {}, {c.on}) /\ u.inputted = IoPairs(t.inputted, {}, {c.on})
  <2>1. {c.on} \in SUBSET Objects
    BY <1>1
  <2>2. Inserted(t, w, {c.on})
    BY <1>1, <1>2, <2>1, Inserting
  <2> QED
    BY <1>2, <2>2 DEF Inserted
<1>4. u.outputs \subseteq t.outputs /\ u.inputted \subseteq t.inputted
  BY <1>3 DEF StepPairs, IoPairs
<1> DEFINE v == Result(c)
<1>5. v \in Tables /\ v.objs = u.objs /\ v.outputs = u.outputs /\ v.inputted = u.inputted
  <2>1. CASE c.op # "InsertFlow"
    <3>1. v = u
      BY <1>2, <2>1 DEF Result
    <3> QED
      BY <1>3, <3>1
  <2>2. CASE c.op = "InsertFlow"
    <3>1. v = [u EXCEPT !.place[c.on] = Cardinality(c.with)]
      BY <1>2, <2>2 DEF Result
    <3> DEFINE P == [u.place EXCEPT ![c.on] = Cardinality(c.with)]
    <3>2. v = [u EXCEPT !.place = P]
      BY <3>1
    <3>3. Cardinality(c.with) \in Nat
      BY <2>2 DEF Works, Fitting, Fits
    <3>4. P \in [Flows -> Nat]
      BY <1>3, <3>3 DEF Tables
    <3> HIDE DEF P, u
    <3>5. Lists([u EXCEPT !.place = P], u, u.outputs, u.inputted)
      BY <1>3, <3>4, Changing
    <3> HIDE DEF v
    <3> QED
      BY <3>2, <3>5 DEF Lists
  <2> QED
    BY <2>1, <2>2
<1> HIDE DEF u, v
<1>6. Frame(r, b, v)
  <2>1. CASE c.op = "InsertStep"
    <3>1. r.kind = "CreateStep"
      BY <2>1, WhoWrites
    <3> QED
      BY <3>1 DEF Frame
  <2>2. CASE c.op # "InsertStep"
    <3>1. c.on \notin Steps
      <4>1. r.kind \in {"CreateFlow", "CreateIo"}
        BY <2>2, WhoWrites
      <4> QED
        BY <1>1, <4>1, Kinds, FlowsAssumption
    <3>2. v.objs \cap Steps \subseteq t.objs
      BY <1>3, <1>5, <3>1
    <3> QED
      BY <1>1, <1>4, <1>5, <3>2, FrameShrinks
  <2> QED
    BY <2>1, <2>2
<1> QED
  BY <1>3, <1>4, <1>5, <1>6 DEF Effect, Drops, Inserts, v

\* A main IO inserted again, with the steps that take it.
LEMMA EffectKeep ==
    ASSUME NEW r, NEW b, NEW c, Works(r, b, c), c.op = "KeepMain"
    PROVE  Effect(r, b, c)
<1>1. /\ c.on \in Ios \cap Touched(r, b) /\ c.with \subseteq Steps \cap Touched(r, b)
      /\ r \in RequestSet /\ b \in Tables /\ t \in Tables /\ Frame(r, b, t)
      /\ r.kind \in {"UpdateNodes", "DeleteIo", "PurgeIo"}
  BY WhoWrites DEF Works, Fitting, Fits
<1> DEFINE w == [Empty EXCEPT !.inputted = c.with \X {c.on}]
           u == InsertRows(t, w, {c.on})
           v == [u EXCEPT !.loose = @ \cup {c.on}]
<1>2. w \in Tables /\ w.outputs = {} /\ w.inputted = c.with \X {c.on}
  <2>1. Empty \in Tables /\ Empty.outputs = {}
    BY EmptyTables
  <2> DEFINE P == c.with \X {c.on}
  <2>2. P \subseteq Steps \X Ios
    BY <1>1
  <2> HIDE DEF P
  <2>3. Lists([Empty EXCEPT !.inputted = P], Empty, Empty.outputs, P)
    BY <2>1, <2>2, Changing
  <2> QED
    BY <2>1, <2>3 DEF Lists, P
<1> HIDE DEF w
<1>3. Inserted(t, w, {c.on})
  <2>1. {c.on} \subseteq Objects
    BY <1>1 DEF Objects
  <2> QED
    BY <1>1, <1>2, <2>1, Inserting
<1>4. /\ u \in Tables /\ u.objs = t.objs \cup {c.on} /\ u.outputs = StepPairs(t.outputs, {}, {c.on})
      /\ u.inputted = IoPairs(t.inputted, c.with \X {c.on}, {c.on})
  BY <1>2, <1>3 DEF Inserted
<1> HIDE DEF u
<1>5. v \in Tables /\ v.objs = u.objs /\ v.outputs = u.outputs /\ v.inputted = u.inputted
  <2> DEFINE P == u.loose \cup {c.on}
  <2>1. P \subseteq Ios
    BY <1>1, <1>4, TablesAre
  <2> HIDE DEF P
  <2>2. Lists([u EXCEPT !.loose = P], u, u.outputs, u.inputted)
    BY <1>4, <2>1, Changing
  <2> QED
    BY <2>2 DEF Lists, P
<1>6. Result(c) = v
  BY DEF Result, u, w
<1> HIDE DEF v
<1>7. v.outputs \subseteq t.outputs
  BY <1>4, <1>5 DEF StepPairs
<1>8. \A x \in v.inputted \ t.inputted : x[1] \in c.with /\ x[2] = c.on
  BY <1>4, <1>5 DEF IoPairs
<1>9. Frame(r, b, v)
  <2>1. Of(v.outputs, r.on) \subseteq Of(t.outputs, r.on)
    BY <1>7 DEF Of
  <2>2. \A x \in v.inputted : x \in t.inputted \/ x[1] \in Touched(r, b)
    BY <1>1, <1>8
  <2> QED
    BY <1>1, <2>1, <2>2 DEF Frame
<1> QED
  BY <1>1, <1>4, <1>5, <1>6, <1>7, <1>8, <1>9 DEF Effect, Drops, Inserts

\* A whole row of a step written.
LEMMA EffectRow ==
    ASSUME NEW r, NEW b, NEW c, Works(r, b, c), c.op \in {"WriteNodes", "WriteRow"}
    PROVE  Effect(r, b, c)
<1>1. /\ c.on \in Steps \cap Touched(r, b) \cap t.objs /\ IsRow(c.with)
      /\ c.on = r.on => Column(c.with, "outputs") \subseteq Of(b.outputs, r.on)
      /\ r \in RequestSet /\ b \in Tables /\ t \in Tables /\ Frame(r, b, t)
      /\ r.kind \in {"UpdateNodes", "DeleteIo", "PurgeIo"}
  BY WhoWrites DEF Works, Fitting, Fits
<1> DEFINE s == c.on
           u == Upserted(t, {s})
           N == StepPairs(u.nodes, {s} \X Column(c.with, "nodes"), {s})
           I == StepPairs(u.inputs, {s} \X Column(c.with, "inputs"), {s})
           O == StepPairs(u.outputs, {s} \X Column(c.with, "outputs"), {s})
           x == [u EXCEPT !.nodes = N]
           y == [x EXCEPT !.inputs = I]
           v == [y EXCEPT !.outputs = O]
<1>2. u \in Tables /\ u.objs = t.objs /\ u.outputs = t.outputs /\ u.inputted = t.inputted
  <2>1. {s} \subseteq t.objs
    BY <1>1
  <2> QED
    BY <1>1, <2>1, Upserting
<1>3. N \subseteq Steps \X Nodes /\ I \subseteq Steps \X Ios /\ O \subseteq Steps \X Ios
  <2>1. u.nodes \subseteq Steps \X Nodes /\ u.inputs \subseteq Steps \X Ios /\ u.outputs \subseteq Steps \X Ios
    BY <1>2, TablesAre
  <2>2. /\ {s} \X Column(c.with, "nodes") \subseteq Steps \X Nodes
        /\ {s} \X Column(c.with, "inputs") \subseteq Steps \X Ios
        /\ {s} \X Column(c.with, "outputs") \subseteq Steps \X Ios
    BY <1>1 DEF IsRow
  <2> QED
    BY <2>1, <2>2 DEF StepPairs
<1>4. Result(c) = v
  BY DEF Result, WithRow
<1>5. /\ O = StepPairs(t.outputs, {s} \X Column(c.with, "outputs"), {s})
  BY <1>2
<1> HIDE DEF N, I, O, u
<1>6. x \in Tables /\ x.objs = t.objs /\ x.outputs = t.outputs /\ x.inputted = t.inputted
  <2>1. Lists([u EXCEPT !.nodes = N], u, u.outputs, u.inputted)
    BY <1>2, <1>3, Changing
  <2> QED
    BY <1>2, <2>1 DEF Lists
<1> HIDE DEF x
<1>7. y \in Tables /\ y.objs = t.objs /\ y.outputs = t.outputs /\ y.inputted = t.inputted
  <2>1. Lists([x EXCEPT !.inputs = I], x, x.outputs, x.inputted)
    BY <1>3, <1>6, Changing
  <2> QED
    BY <1>6, <2>1 DEF Lists
<1> HIDE DEF y
<1>8. v \in Tables /\ v.objs = t.objs /\ v.outputs = O /\ v.inputted = t.inputted
  <2>1. Lists([y EXCEPT !.outputs = O], y, O, y.inputted)
    BY <1>3, <1>7, Changing
  <2> QED
    BY <1>7, <2>1 DEF Lists
<1> HIDE DEF v
<1>9. \A z \in O : (z \in t.outputs /\ z[1] # s) \/ (z[1] = s /\ z[2] \in Column(c.with, "outputs"))
  BY <1>5 DEF StepPairs
<1>10. Frame(r, b, v)
  <2>1. Of(t.outputs, r.on) \subseteq Of(b.outputs, r.on)
        => Of(v.outputs, r.on) \subseteq Of(b.outputs, r.on)
    BY <1>1, <1>8, <1>9 DEF Of
  <2> QED
    BY <1>1, <1>8, <2>1 DEF Frame
<1> QED
  BY <1>1, <1>4, <1>8, <1>9, <1>10 DEF Effect, Drops, Inserts

\* The inputs or outputs of a step written.
LEMMA EffectList ==
    ASSUME NEW r, NEW b, NEW c, Works(r, b, c), c.op \in {"WriteInputs", "WriteOutputs"}
    PROVE  Effect(r, b, c)
<1>1. /\ c.on \in Steps \cap Touched(r, b) \cap t.objs
      /\ c.op = "WriteInputs" => r.kind = "UpdateInputs" /\ c.with = r.with
      /\ c.op = "WriteOutputs" => r.kind \in IoKinds /\ c.with \subseteq Ios
      /\ r \in RequestSet /\ b \in Tables /\ t \in Tables /\ Frame(r, b, t)
  BY WhoWrites DEF Works, Fitting, Fits
<1>2. c.with \subseteq Ios
  BY <1>1, Kinds
<1> DEFINE s == c.on
           u == Upserted(t, {s})
           I == StepPairs(u.inputs, {s} \X c.with, {s})
           O == StepPairs(u.outputs, {s} \X c.with, {s})
           v == IF c.op = "WriteInputs" THEN [u EXCEPT !.inputs = I] ELSE [u EXCEPT !.outputs = O]
<1>3. u \in Tables /\ u.objs = t.objs /\ u.outputs = t.outputs /\ u.inputted = t.inputted
  <2>1. {s} \subseteq t.objs
    BY <1>1
  <2> QED
    BY <1>1, <2>1, Upserting
<1>4. I \subseteq Steps \X Ios /\ O \subseteq Steps \X Ios
  <2>1. u.inputs \subseteq Steps \X Ios /\ u.outputs \subseteq Steps \X Ios
    BY <1>3, TablesAre
  <2> QED
    BY <1>1, <1>2, <2>1 DEF StepPairs
<1>5. Result(c) = v
  BY DEF Result
<1>6. O = StepPairs(t.outputs, {s} \X c.with, {s})
  BY <1>3
<1> HIDE DEF I, O, u
<1>7. /\ v \in Tables /\ v.objs = t.objs /\ v.inputted = t.inputted
      /\ v.outputs = IF c.op = "WriteInputs" THEN t.outputs ELSE O
  <2>1. Lists([u EXCEPT !.inputs = I], u, u.outputs, u.inputted)
    BY <1>3, <1>4, Changing
  <2>2. Lists([u EXCEPT !.outputs = O], u, O, u.inputted)
    BY <1>3, <1>4, Changing
  <2>3. CASE c.op = "WriteInputs"
    <3>1. v = [u EXCEPT !.inputs = I]
      BY <2>3
    <3> HIDE DEF v
    <3> QED
      BY <1>3, <2>1, <2>3, <3>1 DEF Lists
  <2>4. CASE c.op # "WriteInputs"
    <3>1. v = [u EXCEPT !.outputs = O]
      BY <2>4
    <3> HIDE DEF v
    <3> QED
      BY <1>3, <2>2, <2>4, <3>1 DEF Lists
  <2> QED
    BY <2>3, <2>4
<1> HIDE DEF v
<1>8. \A z \in v.outputs \ t.outputs : z[1] = s
  BY <1>6, <1>7 DEF StepPairs
<1>9. Frame(r, b, v)
  BY <1>1, <1>7 DEF Frame, IoKinds
<1> QED
  BY <1>1, <1>5, <1>7, <1>8, <1>9 DEF Effect, Drops, Inserts

\* The steps that take the IOs written.
LEMMA EffectUsers ==
    ASSUME NEW r, NEW b, NEW c, Works(r, b, c), c.op = "WriteUsers"
    PROVE  Effect(r, b, c)
<1>1. /\ c.on = r.on /\ r.kind = "UpdateInputs"
      /\ Column(c.with, "added") \subseteq r.with \cap t.objs
      /\ r \in RequestSet /\ b \in Tables /\ t \in Tables /\ Frame(r, b, t)
  BY WhoWrites DEF Works, Fitting, Fits, OwnOps
<1>2. r.on \in Steps /\ r.with \subseteq Ios /\ r.with \subseteq Touched(r, b)
  BY <1>1, Kinds, Touches
<1> DEFINE s == c.on
           added == Column(c.with, "added")
           u == Upserted(t, added)
           P == (u.inputted \cup {s} \X added) \ ({s} \X Column(c.with, "removed"))
           v == [u EXCEPT !.inputted = P]
<1>3. u \in Tables /\ u.objs = t.objs /\ u.outputs = t.outputs /\ u.inputted = t.inputted
  <2>1. added \subseteq t.objs
    BY <1>1
  <2> HIDE DEF added
  <2> QED
    BY <1>1, <2>1, Upserting
<1>4. P \subseteq Steps \X Ios
  <2>1. u.inputted \subseteq Steps \X Ios
    BY <1>3, TablesAre
  <2>2. {s} \X added \subseteq Steps \X Ios
    BY <1>1, <1>2
  <2> QED
    BY <2>1, <2>2
<1>5. Result(c) = v
  BY DEF Result, WithUsers
<1>6. P \subseteq t.inputted \cup {s} \X added
  BY <1>3
<1> HIDE DEF P, u
<1>7. v \in Tables /\ v.objs = t.objs /\ v.outputs = t.outputs /\ v.inputted = P
  <2>1. Lists([u EXCEPT !.inputted = P], u, u.outputs, P)
    BY <1>3, <1>4, Changing
  <2> QED
    BY <1>3, <2>1 DEF Lists
<1> HIDE DEF v
<1>8. \A z \in v.inputted \ t.inputted : z[2] \in Touched(r, b) \cap Ios
  BY <1>1, <1>2, <1>6, <1>7
<1>9. Frame(r, b, v)
  BY <1>1 DEF Frame
<1> QED
  BY <1>5, <1>7, <1>8, <1>9 DEF Effect, Drops, Inserts

\* The initial inputs of the workflow written.
LEMMA EffectInitial ==
    ASSUME NEW r, NEW b, NEW c, Works(r, b, c), c.op \in {"PushInitial", "PullInitial"}
    PROVE  Effect(r, b, c)
<1>1. /\ r \in RequestSet /\ r.kind \in IoKinds /\ c.on = r.on /\ b \in Tables /\ t \in Tables
      /\ Frame(r, b, t)
  BY WhoWrites DEF Works, Fitting, Fits, OwnOps
<1>2. c.on \in Ios
  BY <1>1, Kinds DEF IoKinds
<1>3. PICK P \in {t.initial \cup {c.on}, t.initial \ {c.on}} : Result(c) = [t EXCEPT !.initial = P]
  BY DEF Result
<1>4. P \subseteq Ios
  BY <1>1, <1>2, <1>3, TablesAre
<1> DEFINE v == [t EXCEPT !.initial = P]
<1>5. v \in Tables /\ v.objs = t.objs /\ v.outputs = t.outputs /\ v.inputted = t.inputted
  <2>1. Lists(v, t, t.outputs, t.inputted)
    BY <1>1, <1>4, Changing
  <2> QED
    BY <2>1 DEF Lists
<1>6. Result(c) = v
  BY <1>3
<1> HIDE DEF v
<1>7. Frame(r, b, v)
  BY <1>1, <1>5, FrameShrinks
<1> QED
  BY <1>5, <1>6, <1>7 DEF Effect, Drops, Inserts

\* What a call does to the tables.
LEMMA CallEffect ==
    ASSUME NEW r, NEW b, NEW c, Works(r, b, c)
    PROVE  Effect(r, b, c)
<1> DEFINE writing == Drops \cup Inserts \cup {"WriteNodes", "WriteRow", "WriteInputs", "WriteOutputs",
                                               "WriteUsers", "PushInitial", "PullInitial"}
<1>1. CASE c.op \in writing
  BY <1>1, EffectDrop, EffectInsert, EffectKeep, EffectRow, EffectList, EffectUsers, EffectInitial
     DEF Inserts
<1>2. CASE c.op \notin writing
  <2>1. Result(c) = t
    BY <1>2 DEF Result, Drops, Inserts
  <2> QED
    BY <1>2, <2>1 DEF Effect, Works
<1> QED
  BY <1>1, <1>2

-----------------------------------------------------------------------------
(* What a call leaves as it is.                                            *)

\* Rows come and go among the objects of the request only.
LEMMA RowsTouched ==
    ASSUME NEW r, NEW b, NEW c, Works(r, b, c), NEW v, v = Result(c)
    PROVE  /\ \A x \in t.objs \ v.objs : c.op \in Drops /\ x = c.on
           /\ \A x \in (t.objs \ v.objs) \cup (v.objs \ t.objs) : x \in Touched(r, b) /\ x # None
<1>1. Effect(r, b, c)
  BY CallEffect
<1>2. /\ c.op \in Drops => v.objs = t.objs \ {c.on}
      /\ c.op \in Inserts => v.objs = t.objs \cup {c.on}
      /\ c.op \notin Drops \cup Inserts => v.objs = t.objs
  BY <1>1 DEF Effect
<1>3. c.op \in Drops \cup Inserts => c.on \in Touched(r, b)
  <2>1. c.op \in {"DropFlow", "InsertFlow", "InsertStep", "InsertIo"} => c.on = r.on
    BY DEF Works, Fitting, Fits, OwnOps
  <2>2. c.op \in {"DropStep", "DropIo", "KeepMain"} => c.on \in Touched(r, b)
    BY DEF Works, Fitting, Fits
  <2>3. r.on \in Touched(r, b)
    BY Touches DEF Works
  <2> QED
    BY <2>1, <2>2, <2>3 DEF Drops, Inserts
<1>4. t.objs \subseteq Objects /\ v.objs \subseteq Objects
  BY <1>1, TablesAre DEF Works, Effect
<1>5. None \notin Objects
  BY BranchRowAssumption
<1>6. Drops \cap Inserts = {}
  BY DEF Drops, Inserts
<1> QED
  BY <1>2, <1>3, <1>4, <1>5, <1>6

\* A call fits as long as there are the rows that it relies on.
LEMMA FitsStill ==
    ASSUME NEW r, NEW b, NEW u, NEW v, NEW d \in Fitting(r, b, u),
           d.op = "WriteUsers" => Column(d.with, "added") \subseteq v.objs,
           d.op \in {"WriteNodes", "WriteInputs", "WriteRow", "WriteOutputs"} => d.on \in v.objs
    PROVE  d \in Fitting(r, b, v)
BY DEF Fitting, Fits

\* What is left of a request fits after one of its calls.
LEMMA OwnFits ==
    ASSUME NEW r, NEW b, NEW c, Works(r, b, c), NEW v, v = Result(c), NEW d \in Fitting(r, b, t)
    PROVE  d \in Fitting(r, b, v)
<1>1. \A x \in t.objs \ v.objs : c.op \in Drops /\ x = c.on
  BY RowsTouched
<1>2. Works(r, b, d)
  BY DEF Works
<1>3. ASSUME d.op = "WriteUsers"
      PROVE  Column(d.with, "added") \subseteq v.objs
  <2>1. r.kind = "UpdateInputs"
    BY <1>2, <1>3, WhoWrites
  <2>2. c.op \notin Drops
    BY <2>1 DEF Works, Fitting, Fits, OpsOf, Drops
  <2>3. Column(d.with, "added") \subseteq t.objs
    BY <1>3 DEF Fitting, Fits
  <2> QED
    BY <1>1, <2>2, <2>3
<1>4. ASSUME d.op \in {"WriteNodes", "WriteInputs", "WriteRow", "WriteOutputs"}
      PROVE  d.on \in v.objs
  <2>1. r.kind \notin {"DeleteFlow", "DeleteStep"}
    BY <1>2, <1>4, WhoWrites DEF IoKinds
  <2>2. c.op \notin {"DropFlow", "DropStep"}
    BY <2>1, WhoWrites
  <2>3. c.op \in Drops => c.on \in Ios
    BY <2>2 DEF Works, Fitting, Fits, Drops
  <2>4. d.on \in Steps \cap t.objs
    BY <1>4 DEF Fitting, Fits
  <2> QED
    BY <1>1, <2>3, <2>4, FlowsAssumption
<1> QED
  BY <1>3, <1>4, FitsStill

\* What is left of a request that touches other objects fits, and nothing is
\* added to what it is to read.
LEMMA OthersFit ==
    ASSUME NEW r, NEW b, NEW c, Works(r, b, c), NEW v, v = Result(c),
           NEW q \in RequestSet, NEW e \in Tables, Frame(q, e, t),
           Touched(r, b) \cap Touched(q, e) \subseteq {None}
    PROVE  /\ \A d \in Fitting(q, e, t) : d \in Fitting(q, e, v)
           /\ Frame(q, e, v)
<1>1. /\ \A x \in t.objs \ v.objs : x \notin Touched(q, e)
      /\ \A x \in v.objs \ t.objs : x \notin Touched(q, e)
  BY RowsTouched
<1>2. q.on \in Touched(q, e) /\ q.with \subseteq Touched(q, e)
  BY Touches
<1>3. ASSUME NEW d \in Fitting(q, e, t)
      PROVE  d \in Fitting(q, e, v)
  <2>1. d.op = "WriteUsers" => Column(d.with, "added") \subseteq v.objs
    <3>1. d.op = "WriteUsers" => Column(d.with, "added") \subseteq q.with \cap t.objs
      BY DEF Fitting, Fits
    <3> QED
      BY <1>1, <1>2, <3>1
  <2>2. d.op \in {"WriteNodes", "WriteInputs", "WriteRow", "WriteOutputs"} => d.on \in v.objs
    <3>1. d.op \in {"WriteNodes", "WriteInputs", "WriteRow", "WriteOutputs"} =>
            d.on \in Touched(q, e) \cap t.objs
      BY DEF Fitting, Fits
    <3> QED
      BY <1>1, <3>1
  <2> QED
    BY <2>1, <2>2, FitsStill
<1>4. Frame(q, e, v)
  <2>1. Effect(r, b, c)
    BY CallEffect
  <2>2. /\ \A x \in v.outputs \ t.outputs : x[1] \in Touched(r, b) \cap Steps
        /\ \A x \in v.inputted \ t.inputted : x[2] \in Touched(r, b) \cap Ios
    BY <2>1 DEF Effect
  <2>3. None \notin Steps \cup Ios
    BY BranchRowAssumption DEF Objects
  <2>4. \A s \in Touched(q, e) : Of(v.outputs, s) \subseteq Of(t.outputs, s)
    BY <2>2, <2>3 DEF Of
  <2>5. \A x \in v.inputted : x[2] \in Touched(q, e) => x \in t.inputted
    BY <2>2, <2>3
  <2>6. ASSUME q.kind = "DeleteFlow", NEW s \in StepsIn(v, {q.on})
        PROVE  Of(v.outputs, s) \subseteq Touched(q, e)
    <3>1. s \in Steps \cap v.objs /\ FlowOf[s] = q.on
      BY DEF StepsIn
    <3>2. s \in Touched(q, e)
      BY <2>6, <3>1, Touches
    <3>3. s \in StepsIn(t, {q.on})
      BY <1>1, <3>1, <3>2 DEF StepsIn
    <3> QED
      BY <2>4, <2>6, <3>2, <3>3 DEF Frame
  <2>7. q.kind \in {"DeleteStep", "UpdateNodes"} => Of(v.outputs, q.on) \subseteq Of(e.outputs, q.on)
    BY <1>2, <2>4 DEF Frame
  <2>8. q.kind = "UpdateNodes" =>
          \A x \in v.inputted : x[2] \in Of(e.outputs, q.on) => x[1] \in Touched(q, e)
    <3>1. q.kind = "UpdateNodes" => Of(e.outputs, q.on) \subseteq Touched(q, e)
      BY Touches
    <3> QED
      BY <2>5, <3>1 DEF Frame
  <2>9. q.kind \in {"DeleteIo", "PurgeIo"} =>
          \A x \in v.inputted : x[2] = q.on => x[1] \in Touched(q, e)
    BY <1>2, <2>5 DEF Frame
  <2> QED
    BY <2>6, <2>7, <2>8, <2>9 DEF Frame
<1> QED
  BY <1>3, <1>4

-----------------------------------------------------------------------------
(* The calls that are left.                                                *)

\* The next call of a request at work is one of its calls.
LEMMA NextCall ==
    ASSUME NEW r, NEW b, NEW calls, Has(r, b, t, calls)
    PROVE  /\ Works(r, b, Head(calls))
           /\ Tail(calls) \in Seq(Fitting(r, b, t))
<1>1. /\ r \in RequestSet /\ b \in Tables /\ t \in Tables
      /\ calls \in Seq(Fitting(r, b, t)) /\ calls # << >> /\ Frame(r, b, t)
  BY DEF Has
<1>2. Head(calls) \in Fitting(r, b, t) /\ Tail(calls) \in Seq(Fitting(r, b, t))
  BY <1>1, SeqRest
<1> QED
  BY <1>1, <1>2 DEF Works

\* Once the key is set, the calls up to its release are not about it.
LEMMA Bracketed ==
    ASSUME NEW r, NEW b, NEW calls, Has(r, b, t, calls), r.kind \in LockKinds,
           Head(calls).op \notin {"FindFree", "SetKey"}
    PROVE  \E rest \in Seq(Plain) : calls = Append(rest, Release(r))
<1>1. InTurn(r, calls)
  BY DEF Has
<1>2. Head(Program(r)).op = "FindFree" /\ Head(Tail(Program(r))).op = "SetKey"
  BY DEF Program, LockKinds, Call
<1> QED
  BY <1>1, <1>2 DEF InTurn

\* Part of a bracketed sequence.
LEMMA Bracket ==
    ASSUME NEW r, NEW rest \in Seq(Plain), NEW x \in Seq(Plain)
    PROVE  LET calls == Append(rest, Release(r)) IN
           /\ rest = << >> => Head(calls) = Release(r) /\ Tail(calls) = << >>
           /\ rest # << >> =>
                /\ Head(calls) = Head(rest) /\ Head(rest) \in Plain
                /\ x \o Tail(calls) = Append(x \o Tail(rest), Release(r))
                /\ x \o Tail(rest) \in Seq(Plain)
<1> DEFINE e == Release(r)
<1> HIDE DEF e
<1>1. rest = << >> => Head(Append(rest, e)) = e /\ Tail(Append(rest, e)) = << >>
  OBVIOUS
<1>2. rest # << >> =>
        /\ Head(Append(rest, e)) = Head(rest) /\ Head(rest) \in Plain
        /\ Tail(rest) \in Seq(Plain) /\ Tail(Append(rest, e)) = Append(Tail(rest), e)
  OBVIOUS
<1>3. \A y \in Seq(Plain) : x \o Append(y, e) = Append(x \o y, e) /\ x \o y \in Seq(Plain)
  OBVIOUS
<1> QED
  BY <1>1, <1>2, <1>3 DEF e

\* A request that has served a call has what is left, and what the call has
\* led to.
LEMMA GoesOn ==
    ASSUME NEW r, NEW b, NEW calls, Has(r, b, t, calls), NEW c, c = Head(calls),
           c.op \notin LockOps, ~Absent(c),
           NEW left, left = Further(c) \o Tail(calls), left # << >>, NEW v, v = Result(c)
    PROVE  Has(r, b, v, left) /\ Head(left).op \notin {"FindFree", "SetKey"}
<1>1. /\ Works(r, b, c) /\ Tail(calls) \in Seq(Fitting(r, b, t))
      /\ r \in RequestSet /\ b \in Tables
  BY NextCall DEF Has
<1>2. v \in Tables /\ Frame(r, b, v)
  BY <1>1, CallEffect DEF Effect
<1>3. Further(c) \in Seq(Fitting(r, b, t) \cap Plain)
  <2>1. Reads(r, b, c)
    BY <1>1 DEF Reads, Works
  <2> QED
    BY <2>1, FurtherFits DEF Leads
<1> DEFINE x == Further(c)
           A == Fitting(r, b, t)
           B == Fitting(r, b, v)
<1>4. A \subseteq B
  BY <1>1, OwnFits
<1>5. left \in Seq(B)
  <2> HIDE DEF A, B, x
  <2>1. x \in Seq(A) /\ Tail(calls) \in Seq(A)
    BY <1>1, <1>3, SeqLarger DEF A, x
  <2>2. x \o Tail(calls) \in Seq(A)
    BY <2>1
  <2> QED
    BY <1>4, <2>2, SeqLarger DEF x
<1>6. ASSUME r.kind \in LockKinds
      PROVE  InTurn(r, left) /\ Head(left).op \notin {"FindFree", "SetKey"}
  <2>1. PICK rest \in Seq(Plain) : calls = Append(rest, Release(r))
    BY <1>6, Bracketed DEF LockOps
  <2>2. x \in Seq(Plain)
    <3> HIDE DEF x
    <3> QED
      BY <1>3, SeqLarger DEF x
  <2> HIDE DEF x
  <2>3. rest # << >>
    <3>1. rest = << >> => c = Release(r)
      BY <2>1, <2>2, Bracket
    <3> QED
      BY <3>1 DEF Release, Call, LockOps
  <2>4. x \o Tail(calls) = Append(x \o Tail(rest), Release(r)) /\ x \o Tail(rest) \in Seq(Plain)
    BY <2>1, <2>2, <2>3, Bracket
  <2> DEFINE y == x \o Tail(rest)
  <2>5. left = Append(y, Release(r)) /\ y \in Seq(Plain)
    BY <2>4 DEF x
  <2> HIDE DEF y
  <2>6. Head(left) \in Plain \/ Head(left) = Release(r)
    <3> DEFINE e == Release(r)
    <3> HIDE DEF e
    <3>1. Head(Append(y, e)) \in Plain \/ Head(Append(y, e)) = e
      BY <2>5
    <3> QED
      BY <2>5, <3>1 DEF e
  <2>7. InTurn(r, left)
    BY <2>5 DEF InTurn
  <2>8. Head(left).op \notin {"FindFree", "SetKey"}
    <3>1. \A z \in Plain : z.op \notin {"FindFree", "SetKey"}
      BY DEF Plain, LockOps
    <3>2. Release(r).op = "Unlock"
      BY DEF Release, Call
    <3> QED
      BY <2>6, <3>1, <3>2
  <2> QED
    BY <2>7, <2>8
<1>7. ASSUME r.kind \notin LockKinds
      PROVE  Head(left).op \notin {"FindFree", "SetKey"}
  <2> HIDE DEF B
  <2>1. Head(left) \in B
    BY <1>5, OneByOne, SeqRest
  <2>2. Head(left).op \in OpsOf(r.kind)
    BY <2>1 DEF B, Fitting, Fits
  <2> QED
    BY <1>7, <2>2 DEF OpsOf, LockKinds
<1> QED
  BY <1>1, <1>2, <1>5, <1>6, <1>7 DEF Has

\* A request that touches other objects has what it had.
LEMMA Undisturbed ==
    ASSUME NEW r, NEW b, NEW c, Works(r, b, c), NEW v, v = Result(c),
           NEW q, NEW e, NEW calls, Has(q, e, t, calls), Touched(r, b) \cap Touched(q, e) \subseteq {None}
    PROVE  Has(q, e, v, calls)
<1>1. v \in Tables
  BY CallEffect DEF Effect
<1>2. /\ q \in RequestSet /\ e \in Tables /\ Frame(q, e, t) /\ calls \in Seq(Fitting(q, e, t))
      /\ calls # << >> /\ q.kind \in LockKinds => InTurn(q, calls)
  BY DEF Has
<1>3. Fitting(q, e, t) \subseteq Fitting(q, e, v) /\ Frame(q, e, v)
  BY <1>2, OthersFit
<1>4. calls \in Seq(Fitting(q, e, v))
  BY <1>2, <1>3, SeqLarger
<1> QED
  BY <1>1, <1>2, <1>3, <1>4 DEF Has

\* Call c for a lock is that of the step of the request, in its place.
InPlace(r, b, u, calls, c) ==
    /\ r.kind \in LockKinds /\ c.on = r.on
    /\ c.op = "FindFree" => calls = Program(r) /\ Has(r, b, u, Tail(calls))
    /\ c.op = "SetKey" => calls = Tail(Program(r)) /\ Has(r, b, u, Tail(calls))
    /\ c.op = "Unlock" => Tail(calls) = << >>

\* Work with a lock begins with the calls for it.
LEMMA LockPrograms ==
    ASSUME NEW r, r.kind \in LockKinds
    PROVE  /\ Head(Tail(Program(r))).op = "SetKey"
           /\ Head(Tail(Tail(Program(r)))).op \in {"FindIndex", "ReadStep"}
<1>1. CASE r.kind = "CreateStep"
  <2>1. Program(r) = <<Call("FindFree", r.on, {}), Call("SetKey", r.on, {}), Call("FindIndex", r.on, {}),
                       Call("Unlock", r.on, {})>>
    BY <1>1 DEF Program
  <2> QED
    BY <2>1 DEF Call
<1>2. CASE r.kind = "DeleteStep"
  <2>1. Program(r) = <<Call("FindFree", r.on, {}), Call("SetKey", r.on, {}), Call("ReadStep", r.on, {}),
                       Call("DropStep", r.on, {}), Call("Unlock", r.on, {})>>
    BY <1>2 DEF Program
  <2> QED
    BY <2>1 DEF Call
<1> QED
  BY <1>1, <1>2 DEF LockKinds

\* That is where they are.
LEMMA LockCall ==
    ASSUME NEW r, NEW b, NEW calls, Has(r, b, t, calls), NEW c, c = Head(calls), c.op \in LockOps
    PROVE  InPlace(r, b, t, calls, c)
<1>1. Works(r, b, c) /\ Tail(calls) \in Seq(Fitting(r, b, t)) /\ r \in RequestSet
  BY NextCall DEF Has
<1>2. c.op \in OpsOf(r.kind) /\ c.on = r.on
  BY <1>1 DEF Works, Fitting, Fits, OwnOps
<1>3. r.kind \in LockKinds
  <2>1. \/ r.kind \in {"CreateFlow", "DeleteFlow", "CreateStep", "DeleteStep"}
        \/ r.kind \in {"UpdateNodes", "UpdateInputs", "CreateIo", "DeleteIo", "PurgeIo"}
    BY <1>1, Kinds
  <2> QED
    BY <1>2, <2>1 DEF OpsOf, LockOps, LockKinds
<1>4. InTurn(r, calls)
  BY <1>3 DEF Has
<1> DEFINE P == Program(r)
<1>5. /\ Head(P).op = "FindFree" /\ Head(Tail(P)).op = "SetKey"
      /\ Tail(P) # << >> /\ Tail(Tail(P)) # << >>
  <2> DEFINE X(op) == Call(op, r.on, {})
  <2>1. CASE r.kind = "CreateStep"
    <3>1. P = <<X("FindFree"), X("SetKey"), X("FindIndex"), X("Unlock")>>
      BY <2>1 DEF Program
    <3>2. X("FindFree").op = "FindFree" /\ X("SetKey").op = "SetKey"
      BY DEF Call
    <3> HIDE DEF P, X
    <3> QED
      BY <3>1, <3>2
  <2>2. CASE r.kind = "DeleteStep"
    <3>1. P = <<X("FindFree"), X("SetKey"), X("ReadStep"), X("DropStep"), X("Unlock")>>
      BY <2>2 DEF Program
    <3>2. X("FindFree").op = "FindFree" /\ X("SetKey").op = "SetKey"
      BY DEF Call
    <3> HIDE DEF P, X
    <3> QED
      BY <3>1, <3>2
  <2> QED
    BY <1>3, <2>1, <2>2 DEF LockKinds
<1>6. InTurn(r, Tail(Tail(P)))
  <2>1. CASE r.kind = "CreateStep"
    <3> DEFINE d == Call("FindIndex", r.on, {})
    <3>1. Tail(Tail(P)) = Append(<<d>>, Release(r))
      BY <2>1 DEF Program, Release
    <3>2. d \in Plain
      BY <1>1, Kinds DEF Plain, CallSet, Call, LockOps, Ops
    <3>3. <<d>> \in Seq(Plain)
      BY <3>2, OneByOne
    <3> QED
      BY <3>1, <3>3 DEF InTurn
  <2>2. CASE r.kind = "DeleteStep"
    <3> DEFINE d == Call("ReadStep", r.on, {})
               e == Call("DropStep", r.on, {})
    <3>1. Tail(Tail(P)) = Append(<<d, e>>, Release(r))
      BY <2>2 DEF Program, Release
    <3>2. d \in Plain /\ e \in Plain
      BY <1>1, Kinds DEF Plain, CallSet, Call, LockOps, Ops
    <3>3. <<d, e>> \in Seq(Plain)
      BY <3>2, OneByOne
    <3> QED
      BY <3>1, <3>3 DEF InTurn
  <2> QED
    BY <1>3, <2>1, <2>2 DEF LockKinds
<1>7. ASSUME NEW rest \in Seq(Plain), calls = Append(rest, Release(r))
      PROVE  c.op = "Unlock" /\ Tail(calls) = << >>
  <2>1. rest = << >>
    <3>1. rest # << >> => c \in Plain
      BY <1>7, Bracket
    <3> QED
      BY <3>1 DEF Plain
  <2> QED
    BY <1>7, <2>1, Bracket DEF Release, Call
<1> HIDE DEF P
<1>8. CASE calls = P
  <2>1. c.op = "FindFree" /\ InTurn(r, Tail(calls)) /\ Tail(calls) # << >>
    BY <1>5, <1>8 DEF InTurn, P
  <2> QED
    BY <1>1, <1>2, <1>3, <1>8, <2>1 DEF Has, P, InPlace
<1>9. CASE calls = Tail(P)
  <2>1. c.op = "SetKey" /\ InTurn(r, Tail(calls)) /\ Tail(calls) # << >>
    BY <1>5, <1>6, <1>9
  <2> QED
    BY <1>1, <1>2, <1>3, <1>9, <2>1 DEF Has, P, InPlace
<1> QED
  BY <1>2, <1>3, <1>4, <1>7, <1>8, <1>9 DEF InTurn, P, InPlace

-----------------------------------------------------------------------------
(* Every step keeps what is known of the requests at work.                 *)

\* A client that has calls left is at work.
LEMMA Working ==
    ASSUME WorkInv, NEW p \in Clients, todo[p] # << >>
    PROVE  p \in Active /\ Has(ask[p], began[p], t, todo[p])
BY DEF WorkInv, AtRest, AtWork, Active

\* A client has these calls left after the step, or has left.
Turn(p, calls) ==
    /\ todo' = [todo EXCEPT ![p] = calls]
    /\ calls = << >> => Leave(p)
    /\ calls # << >> => ask' = ask /\ began' = began /\ Has(ask[p], began[p], t', calls)

\* The tables are as they were, or as the next call of the client leaves them.
Written(p) ==
    LET c == Head(todo[p]) IN
    \/ t' = t /\ gone' = gone
    \/ t' = Result(c) /\ gone' = Forgotten(c)

\* The columns that the requests have nothing to do with keep their types.
OtherTypes ==
    /\ lock \in [Flows -> Clients \cup {None}] /\ shared \subseteq Flows
    /\ broken \subseteq RequestSet

\* Deleted objects are recorded as the rows go and come.
LEMMA GoneWritten ==
    ASSUME WorkInv, NEW p \in Clients, todo[p] # << >>, Written(p)
    PROVE  DeletedStays' /\ t' \in Tables
<1> DEFINE c == Head(todo[p])
           r == ask[p]
           b == began[p]
<1>1. Has(r, b, t, todo[p])
  BY Working
<1>2. Works(r, b, c)
  BY <1>1, NextCall
<1>3. gone \cap t.objs = {} /\ t \in Tables
  BY DEF WorkInv, DeletedStays, TypesInv
<1>4. CASE t' = t /\ gone' = gone
  BY <1>3, <1>4 DEF DeletedStays
<1>5. CASE t' = Result(c) /\ gone' = Forgotten(c)
  <2> DEFINE v == Result(c)
  <2>1. Effect(r, b, c)
    BY <1>2, CallEffect
  <2>2. /\ c.op \in Drops => v.objs = t.objs \ {c.on}
        /\ c.op \in Inserts => v.objs = t.objs \cup {c.on}
        /\ c.op \notin Drops \cup Inserts => v.objs = t.objs
        /\ v \in Tables
    BY <2>1 DEF Effect
  <2>3. /\ c.op \in Drops => Forgotten(c) = gone \cup {c.on}
        /\ c.op \in Inserts => Forgotten(c) = gone \ {c.on}
        /\ c.op \notin Drops \cup Inserts => Forgotten(c) = gone
    BY DEF Forgotten, Drops, Inserts
  <2> HIDE DEF v, c
  <2>4. Forgotten(c) \cap v.objs = {}
    BY <1>3, <2>2, <2>3
  <2>5. t' = v /\ gone' = Forgotten(c)
    BY <1>5 DEF v, c
  <2> QED
    BY <2>2, <2>4, <2>5 DEF DeletedStays
<1> QED
  BY <1>4, <1>5 DEF Written

\* A client takes its turn.
LEMMA WorkTurns ==
    ASSUME WorkInv, NEW p \in Clients, todo[p] # << >>, NEW calls, Turn(p, calls), Written(p),
           OtherTypes'
    PROVE  WorkInv'
<1> DEFINE c == Head(todo[p])
           r == ask[p]
           b == began[p]
<1>1. p \in Active /\ Has(r, b, t, todo[p])
  BY Working
<1>2. Works(r, b, c)
  BY <1>1, NextCall
<1>3. /\ ask \in [Clients -> RequestSet \cup {Nothing}] /\ todo \in [Clients -> Seq(CallSet)]
      /\ began \in [Clients -> Tables]
  BY DEF WorkInv, TypesInv
<1>4. /\ \A q \in Clients : q # p => ask'[q] = ask[q] /\ began'[q] = began[q] /\ todo'[q] = todo[q]
      /\ todo'[p] = calls
      /\ calls # << >> => ask'[p] = ask[p] /\ began'[p] = began[p]
      /\ calls = << >> => ask'[p] = Nothing /\ began'[p] = Empty
  BY <1>3 DEF Turn, Leave
<1>5. \A q \in Active' : q \in Active /\ ask'[q] = ask[q] /\ began'[q] = began[q]
  BY <1>4 DEF Active, Idle
<1>6. DeletedStays' /\ t' \in Tables
  BY GoneWritten
<1>7. TypesInv'
  <2>1. ask' \in [Clients -> RequestSet \cup {Nothing}] /\ began' \in [Clients -> Tables]
    BY <1>3, EmptyTables DEF Turn, Leave
  <2>2. calls \in Seq(CallSet)
    <3>1. calls # << >> => calls \in Seq(Fitting(r, b, t'))
      BY DEF Turn, Has
    <3>2. Fitting(r, b, t') \subseteq CallSet
      BY DEF Fitting
    <3>3. calls # << >> => calls \in Seq(CallSet)
      BY <3>1, <3>2, SeqLarger
    <3> QED
      BY <3>3, OneByOne
  <2>3. todo' \in [Clients -> Seq(CallSet)]
    BY <1>3, <2>2 DEF Turn
  <2> QED
    BY <1>6, <2>1, <2>3 DEF TypesInv, OtherTypes
<1>8. AtRest'
  <2>1. ASSUME NEW q \in Clients, ask'[q] = Nothing
        PROVE  todo'[q] = << >> /\ began'[q] = Empty
    <3>1. CASE q # p
      BY <1>4, <2>1, <3>1 DEF WorkInv, AtRest, Idle
    <3>2. CASE q = p
      <4>1. r # Nothing
        BY <1>1 DEF Active, Idle
      <4> QED
        BY <1>4, <2>1, <3>2, <4>1
    <3> QED
      BY <3>1, <3>2
  <2> QED
    BY <2>1 DEF AtRest, Idle
<1>9. Disjoint'
  BY <1>5 DEF WorkInv, Disjoint
<1>10. ASSUME NEW q \in Active'
       PROVE  Has(ask'[q], began'[q], t', todo'[q])
  <2>1. CASE q = p
    <3>1. calls # << >>
      BY <1>4, <2>1 DEF Active, Idle
    <3> QED
      BY <1>4, <2>1, <3>1 DEF Turn
  <2>2. CASE q # p
    <3>1. /\ Has(ask[q], began[q], t, todo[q])
          /\ ask'[q] = ask[q] /\ began'[q] = began[q] /\ todo'[q] = todo[q]
      BY <1>4, <1>5, <2>2 DEF WorkInv, AtWork, Active
    <3>2. CASE t' = t
      BY <3>1, <3>2
    <3>3. CASE t' = Result(c)
      <4>1. Touched(r, b) \cap Touched(ask[q], began[q]) \subseteq {None}
        BY <1>1, <1>5, <2>2 DEF WorkInv, Disjoint
      <4>2. Has(ask[q], began[q], Result(c), todo[q])
        BY <1>2, <3>1, <4>1, Undisturbed
      <4> QED
        BY <3>1, <3>3, <4>2
    <3> QED
      BY <3>2, <3>3 DEF Written
  <2> QED
    BY <2>1, <2>2
<1>11. AtWork'
  BY <1>10 DEF AtWork
<1> QED
  BY <1>6, <1>7, <1>8, <1>9, <1>11 DEF WorkInv

\* A client asks for what it may, and nobody else's rows are touched by it.
LEMMA WorkAsk ==
    ASSUME WorkInv, ~Racing, Proper, NEW p \in Clients, Ask(p)
    PROVE  WorkInv'
<1>1. PICK r \in Asked(t) \cup Repeatable :
        /\ Apart(r) /\ ask' = [ask EXCEPT ![p] = r] /\ todo' = [todo EXCEPT ![p] = Program(r)]
  BY DEF Ask
<1>2. /\ began' = [began EXCEPT ![p] = t] /\ p \notin Active
      /\ t' = t /\ lock' = lock /\ broken' = broken /\ shared' = shared /\ gone' = gone
  BY DEF Ask, Active
<1>3. /\ ask \in [Clients -> RequestSet \cup {Nothing}] /\ todo \in [Clients -> Seq(CallSet)]
      /\ began \in [Clients -> Tables] /\ t \in Tables /\ broken \subseteq RequestSet
  BY DEF WorkInv, TypesInv
<1>4. r \in RequestSet /\ r # Nothing
  <2>1. Asked(t) \subseteq RequestSet
    BY DEF Proper
  <2>2. r \in RequestSet
    BY <1>3, <2>1 DEF Repeatable
  <2> QED
    BY <2>2, Kinds
<1>5. /\ \A q \in Clients : q # p => ask'[q] = ask[q] /\ began'[q] = began[q] /\ todo'[q] = todo[q]
      /\ ask'[p] = r /\ began'[p] = t /\ todo'[p] = Program(r)
  BY <1>1, <1>2, <1>3
<1>6. Program(r) \in Seq(Fitting(r, t, t)) /\ Program(r) # << >> /\ Frame(r, t, t)
  BY <1>3, <1>4, ProgramFits
<1>7. Has(r, t, t, Program(r))
  BY <1>3, <1>4, <1>6 DEF Has, InTurn
<1>8. \A q \in Clients : q # p => (q \in Active' <=> q \in Active)
  BY <1>5 DEF Active, Idle
<1>9. TypesInv'
  <2>1. Program(r) \in Seq(CallSet)
    <3>1. Fitting(r, t, t) \subseteq CallSet
      BY DEF Fitting
    <3> QED
      BY <1>6, <3>1, SeqLarger
  <2> QED
    BY <1>1, <1>2, <1>3, <1>4, <2>1 DEF WorkInv, TypesInv
<1>10. AtRest'
  <2>1. ASSUME NEW q \in Clients, ask'[q] = Nothing
        PROVE  todo'[q] = << >> /\ began'[q] = Empty
    BY <1>4, <1>5, <2>1 DEF WorkInv, AtRest, Idle
  <2> QED
    BY <2>1 DEF AtRest, Idle
<1>11. AtWork'
  <2>1. ASSUME NEW q \in Active'
        PROVE  Has(ask'[q], began'[q], t', todo'[q])
    <3>1. CASE q = p
      BY <1>2, <1>5, <1>7, <3>1
    <3>2. CASE q # p
      <4>1. q \in Clients
        BY DEF Active
      <4> QED
        BY <1>2, <1>5, <1>8, <3>2, <4>1 DEF WorkInv, AtWork
    <3> QED
      BY <3>1, <3>2
  <2> QED
    BY <2>1 DEF AtWork
<1>12. Disjoint'
  <2>1. \A q \in Active : Touched(r, t) \cap Touched(ask[q], began[q]) \subseteq {None}
    BY <1>1 DEF Apart
  <2>2. \A q \in Active' : q \in Clients
    BY DEF Active
  <2> QED
    BY <1>5, <1>8, <2>1, <2>2 DEF WorkInv, Disjoint
<1>13. DeletedStays'
  BY <1>2 DEF WorkInv, DeletedStays
<1> QED
  BY <1>9, <1>10, <1>11, <1>12, <1>13 DEF WorkInv

\* A client whose last call was served, or was not, leaves.
LEMMA WorkLeaves ==
    ASSUME WorkInv, NEW p \in Clients, todo[p] # << >>, todo' = [todo EXCEPT ![p] = << >>],
           Leave(p), Written(p), OtherTypes'
    PROVE  WorkInv'
<1> DEFINE calls == << >>
<1>1. Turn(p, calls)
  BY DEF Turn
<1> HIDE DEF calls
<1> QED
  BY <1>1, WorkTurns

\* A client goes on with the calls that are left to it.
LEMMA WorkContinues ==
    ASSUME WorkInv, NEW p \in Clients, todo[p] # << >>, NEW calls, Continue(p, calls), Written(p),
           calls # << >> => Has(ask[p], began[p], t', calls),
           lock' \in [Flows -> Clients \cup {None}], shared' \subseteq Flows
    PROVE  WorkInv'
<1>1. Turn(p, calls)
  BY DEF Turn, Continue
<1>2. broken' \subseteq RequestSet
  BY DEF Continue, WorkInv, TypesInv
<1> QED
  BY <1>1, <1>2, WorkTurns DEF OtherTypes

\* Every other step.
LEMMA WorkStep ==
    ASSUME WorkInv, ~Racing, Proper, [Next]_vars
    PROVE  WorkInv'
<1>0. /\ lock \in [Flows -> Clients \cup {None}] /\ shared \subseteq Flows
      /\ ask \in [Clients -> RequestSet \cup {Nothing}] /\ broken \subseteq RequestSet
  BY DEF WorkInv, TypesInv
<1>1. CASE UNCHANGED vars
  BY <1>1 DEF vars, WorkInv, TypesInv, AtRest, AtWork, Disjoint, DeletedStays, Active, Idle
<1>2. ASSUME NEW p \in Clients, Ask(p)
      PROVE  WorkInv'
  BY <1>2, WorkAsk
<1>3. ASSUME NEW p \in Clients, Serve(p)
      PROVE  WorkInv'
  <2> DEFINE c == Head(todo[p])
             left == Further(c) \o Tail(todo[p])
  <2>1. /\ todo[p] # << >> /\ c.op \notin LockOps /\ ~Absent(c) /\ t' = Result(c)
        /\ Continue(p, left) /\ lock' = lock /\ shared' = shared /\ Written(p)
    BY <1>3 DEF Serve, Written
  <2>2. Has(ask[p], began[p], t, todo[p])
    BY <2>1, Working
  <2> HIDE DEF c, left
  <2>3. left # << >> => Has(ask[p], began[p], t', left)
    BY <2>1, <2>2, GoesOn DEF c, left
  <2> QED
    BY <1>0, <2>1, <2>3, WorkContinues
<1>4. ASSUME NEW p \in Clients, FindFree(p) \/ SetKey(p) \/ Unlock(p)
      PROVE  WorkInv'
  <2> DEFINE c == Head(todo[p])
             left == Tail(todo[p])
  <2>1. PICK f \in Flows : \E op \in LockOps : Locking(p, op, f)
    BY <1>4 DEF FindFree, SetKey, Unlock, LockOps
  <2>2. todo[p] # << >> /\ c.op \in LockOps
    BY <2>1 DEF Locking
  <2>3. Continue(p, left) /\ t' = t /\ gone' = gone
    BY <1>4 DEF FindFree, SetKey, Unlock
  <2>4. shared' \subseteq Flows
    BY <1>0, <1>4 DEF FindFree, SetKey, Unlock
  <2>5. lock' \in [Flows -> Clients \cup {None}]
    BY <1>0, <1>4 DEF FindFree, SetKey, Unlock
  <2>6. Has(ask[p], began[p], t, todo[p])
    BY <2>2, Working
  <2> HIDE DEF c, left
  <2>7. left # << >> => Has(ask[p], began[p], t, left)
    <3>1. InPlace(ask[p], began[p], t, todo[p], c)
      BY <2>2, <2>6, LockCall DEF c
    <3> QED
      BY <2>2, <3>1 DEF LockOps, InPlace, left
  <2>8. Written(p)
    BY <2>3 DEF Written
  <2> QED
    BY <2>2, <2>3, <2>4, <2>5, <2>7, <2>8, WorkContinues
<1>5. ASSUME NEW p \in Clients, Refuse(p) \/ BreakUnfound(p) \/ Fail(p)
      PROVE  WorkInv'
  <2>1. todo[p] # << >> /\ todo' = [todo EXCEPT ![p] = << >>] /\ Leave(p)
    BY <1>5 DEF Refuse, BreakUnfound, Fail, Break, Locking
  <2>2. Written(p)
    BY <1>5 DEF Refuse, BreakUnfound, Fail, Written
  <2>3. shared' = shared /\ broken' \subseteq broken \cup {ask[p]}
    BY <1>5 DEF Refuse, BreakUnfound, Fail, Break
  <2>4. ask[p] \in RequestSet
    BY <2>1, Working DEF Has
  <2>5. lock' \in [Flows -> Clients \cup {None}]
    <3>1. lock' = lock \/ \E f : lock' = [lock EXCEPT ![f] = None]
      BY <1>5 DEF Refuse, BreakUnfound, Fail, Break
    <3> QED
      BY <1>0, <3>1
  <2> QED
    BY <1>0, <2>1, <2>2, <2>3, <2>4, <2>5, WorkLeaves DEF OtherTypes
<1>6. ASSUME NEW f \in Flows, LockExpires(f)
      PROVE  WorkInv'
  <2>1. /\ lock' = [lock EXCEPT ![f] = None]
        /\ UNCHANGED <<t, ask, todo, began, alone, broken, shared, gone, spent>>
    BY <1>6 DEF LockExpires
  <2>2. lock' \in [Flows -> Clients \cup {None}]
    BY <1>0, <2>1
  <2> QED
    BY <2>1, <2>2 DEF WorkInv, TypesInv, AtRest, AtWork, Disjoint, DeletedStays, Active, Idle
<1> QED
  BY <1>1, <1>2, <1>3, <1>4, <1>5, <1>6 DEF Next

\* The invariant holds to begin with.
LEMMA WorkInit ==
    ASSUME Init
    PROVE  WorkInv
<1>1. Original \in Tables /\ Empty \in Tables
  BY FlowsAssumption, EmptyTables
<1>2. << >> \in Seq(CallSet)
  BY OneByOne
<1>3. TypesInv
  BY <1>1, <1>2 DEF Init, TypesInv
<1>4. Active = {} /\ AtRest
  BY DEF Init, Active, Idle, AtRest
<1> QED
  BY <1>3, <1>4 DEF Init, WorkInv, AtWork, Disjoint, DeletedStays

-----------------------------------------------------------------------------
(* Every step keeps the places of steps apart.                             *)

\* Who has or sets a key, and what he is about to insert, was so before.
LEMMA KeysAsBefore ==
    ASSUME KeyOwned, lock' = lock, shared \subseteq shared',
           \A f \in Flows, p \in Clients :
             (Holding(p, f)' => Holding(p, f)) /\ (Setting(p, f)' => Setting(p, f))
    PROVE  KeyOwned'
BY DEF KeyOwned

\* A request that is to set a key is that of a step of the flow.
LEMMA SetsOrHolds ==
    ASSUME WorkInv, NEW p \in Clients, NEW f \in Flows
    PROVE  /\ Setting(p, f) =>
                /\ p \in Active /\ ask[p].kind \in LockKinds /\ FlowOf[ask[p].on] = f
                /\ todo[p] = Tail(Program(ask[p]))
           /\ ~(Setting(p, f) /\ Holding(p, f))
<1>1. ASSUME Setting(p, f)
      PROVE  /\ p \in Active /\ ask[p].kind \in LockKinds /\ FlowOf[ask[p].on] = f
             /\ todo[p] = Tail(Program(ask[p]))
  <2> DEFINE c == Head(todo[p])
  <2>1. todo[p] # << >> /\ c.op = "SetKey" /\ FlowOf[c.on] = f
    BY <1>1 DEF Setting, Locking
  <2>2. p \in Active /\ Has(ask[p], began[p], t, todo[p])
    BY <2>1, Working
  <2>3. InPlace(ask[p], began[p], t, todo[p], c)
    <3>1. c.op \in LockOps
      BY <2>1 DEF LockOps
    <3> QED
      BY <2>2, <3>1, LockCall
  <2> HIDE DEF c
  <2> QED
    BY <2>1, <2>2, <2>3 DEF InPlace
<1>2. ~(Setting(p, f) /\ Holding(p, f))
  BY DEF Setting, Holding, Locking
<1> QED
  BY <1>1, <1>2

\* No request begins with setting a key or inserting a step.
LEMMA Begins ==
    ASSUME NEW r \in RequestSet
    PROVE  Head(Program(r)).op \notin {"SetKey", "InsertStep"}
<1>1. CASE r.kind \in {"CreateFlow", "DeleteFlow", "CreateStep", "DeleteStep"}
  BY <1>1 DEF Program, Call
<1>2. CASE r.kind = "UpdateNodes"
  BY <1>2 DEF Program, Call
<1>3. CASE r.kind = "UpdateInputs"
  BY <1>3 DEF Program, Call
<1>4. CASE r.kind = "CreateIo"
  BY <1>4 DEF Program, Call
<1>5. CASE r.kind \in {"DeleteIo", "PurgeIo"}
  BY <1>5 DEF Program, Call
<1> QED
  BY <1>1, <1>2, <1>3, <1>4, <1>5, Kinds

\* The keys of flows change hands with the steps of the requests.
LEMMA KeyAsk ==
    ASSUME WorkInv, KeyOwned, Proper, NEW p \in Clients, Ask(p)
    PROVE  KeyOwned'
<1>1. PICK r \in Asked(t) \cup Repeatable :
        ask' = [ask EXCEPT ![p] = r] /\ todo' = [todo EXCEPT ![p] = Program(r)]
  BY DEF Ask
<1>2. ask \in [Clients -> RequestSet \cup {Nothing}] /\ todo \in [Clients -> Seq(CallSet)]
  BY DEF WorkInv, TypesInv
<1>3. /\ \A q \in Clients : q # p => ask'[q] = ask[q] /\ todo'[q] = todo[q]
      /\ ask'[p] = r /\ todo'[p] = Program(r)
  BY <1>1, <1>2
<1>4. ASSUME NEW f \in Flows, NEW q \in Clients
      PROVE  (Holding(q, f)' => Holding(q, f)) /\ (Setting(q, f)' => Setting(q, f))
  <2>1. CASE q # p
    BY <1>3, <2>1 DEF Holding, Setting, Locking, Active, Idle
  <2>2. CASE q = p
    <3>1. r.kind \in LockKinds => Head(Program(r)).op = "FindFree"
      BY DEF Program, LockKinds, Call
    <3>2. ~Setting(p, f)'
      <4>1. r \in RequestSet
        BY <1>1 DEF Proper, WorkInv, TypesInv, Repeatable
      <4> QED
        BY <1>3, <4>1, Begins DEF Setting, Locking
    <3>3. ~Holding(p, f)'
      BY <1>3, <3>1 DEF Holding
    <3> QED
      BY <2>2, <3>2, <3>3
  <2> QED
    BY <2>1, <2>2
<1>5. lock' = lock /\ shared' = shared
  BY DEF Ask
<1> QED
  BY <1>4, <1>5, KeysAsBefore

\* A turn of one client changes nothing about the keys that the others have.
LEMMA OthersKeys ==
    ASSUME WorkInv, NEW p \in Clients, NEW calls, todo' = [todo EXCEPT ![p] = calls],
           ask' = ask \/ Leave(p),
           NEW q \in Clients, q # p, NEW f
    PROVE  /\ Holding(q, f)' <=> Holding(q, f)
           /\ Setting(q, f)' <=> Setting(q, f)
<1>1. ask'[q] = ask[q] /\ todo'[q] = todo[q]
  BY DEF WorkInv, TypesInv, Leave
<1> QED
  BY <1>1 DEF Holding, Setting, Locking, Active, Idle

\* A client that has left has no key, and is to set none.
LEMMA LeftKeys ==
    ASSUME WorkInv, NEW p \in Clients, todo' = [todo EXCEPT ![p] = << >>], Leave(p), NEW f
    PROVE  ~Holding(p, f)' /\ ~Setting(p, f)'
<1>1. ask'[p] = Nothing /\ todo'[p] = << >>
  BY DEF WorkInv, TypesInv, Leave
<1> QED
  BY <1>1 DEF Holding, Setting, Locking, Active, Idle

\* A call that is not for the lock.
LEMMA KeyServe ==
    ASSUME WorkInv, KeyOwned, NEW p \in Clients, Serve(p)
    PROVE  KeyOwned'
<1> DEFINE c == Head(todo[p])
           left == Further(c) \o Tail(todo[p])
<1>1. /\ todo[p] # << >> /\ c.op \notin LockOps /\ ~Absent(c) /\ t' = Result(c)
      /\ Continue(p, left) /\ lock' = lock /\ shared' = shared
  BY DEF Serve
<1>2. p \in Active /\ Has(ask[p], began[p], t, todo[p])
  BY <1>1, Working
<1> HIDE DEF c, left
<1>3. left # << >> => Head(left).op \notin {"FindFree", "SetKey"}
  BY <1>1, <1>2, GoesOn DEF c, left
<1>4. /\ todo' = [todo EXCEPT ![p] = left]
      /\ left = << >> => Leave(p)
      /\ left # << >> => ask' = ask
  BY <1>1 DEF Continue
<1>5. todo'[p] = left
  BY <1>4 DEF WorkInv, TypesInv
<1>6. ASSUME NEW f \in Flows, NEW q \in Clients
      PROVE  (Holding(q, f)' => Holding(q, f)) /\ (Setting(q, f)' => Setting(q, f))
  <2>1. CASE q # p
    BY <1>4, <2>1, OthersKeys
  <2>2. CASE q = p /\ left = << >>
    BY <1>4, <2>2, LeftKeys
  <2>3. CASE q = p /\ left # << >>
    <3>1. ~Setting(p, f)'
      BY <1>3, <1>5, <2>3 DEF Setting, Locking
    <3>2. Holding(p, f)' => Holding(p, f)
      BY <1>1, <1>2, <1>4, <2>3 DEF Holding, c, LockOps
    <3> QED
      BY <2>3, <3>1, <3>2
  <2> QED
    BY <2>1, <2>2, <2>3
<1> QED
  BY <1>1, <1>6, KeysAsBefore

\* A key found free.
LEMMA KeyFind ==
    ASSUME WorkInv, KeyOwned, NEW p \in Clients, FindFree(p)
    PROVE  KeyOwned'
<1> DEFINE c == Head(todo[p])
           left == Tail(todo[p])
<1>1. PICK g \in Flows :
        /\ todo[p] # << >> /\ c.op = "FindFree" /\ FlowOf[c.on] = g /\ lock[g] = None
        /\ shared' = IF \E q \in Clients : Setting(q, g) THEN shared \cup {g} ELSE shared
        /\ Continue(p, left) /\ lock' = lock
  BY DEF FindFree, Locking, Setting
<1>2. p \in Active /\ Has(ask[p], began[p], t, todo[p])
  BY <1>1, Working
<1>3. InPlace(ask[p], began[p], t, todo[p], c)
  BY <1>1, <1>2, LockCall DEF LockOps
<1> HIDE DEF c, left
<1>4. Has(ask[p], began[p], t, left) /\ c.on = ask[p].on /\ left = Tail(Program(ask[p]))
  BY <1>1, <1>3 DEF InPlace, left
<1>5. left # << >> /\ ask' = ask /\ todo' = [todo EXCEPT ![p] = left]
  BY <1>1, <1>4 DEF Continue, Has
<1>6. todo'[p] = left
  BY <1>5 DEF WorkInv, TypesInv
<1>7. Head(left).op = "SetKey"
  <2>1. ask[p].kind \in LockKinds
    BY <1>3 DEF InPlace
  <2> QED
    BY <1>4, <2>1, LockPrograms
<1>8. ASSUME NEW f \in Flows \ shared', NEW q \in Clients
      PROVE  /\ Holding(q, f)' => lock[f] = q
             /\ Setting(q, f)' => lock[f] = None /\ \A z \in Clients : Setting(z, f)' => z = q
  <2>1. f \in Flows \ shared
    BY <1>1
  <2>2. \A z \in Clients : z # p => (Holding(z, f)' <=> Holding(z, f)) /\ (Setting(z, f)' <=> Setting(z, f))
    BY <1>5, OthersKeys
  <2>3. ~Holding(p, f)'
    BY <1>6, <1>7 DEF Holding
  <2>4. Setting(p, f)' => f = g
    <3>1. Has(ask[p], began[p], t, left) /\ Head(left).op \in LockOps
      BY <1>4, <1>7 DEF LockOps
    <3>2. Head(left).on = ask[p].on
      <4>1. InPlace(ask[p], began[p], t, left, Head(left))
        BY <3>1, LockCall
      <4> QED
        BY <4>1 DEF InPlace
    <3> QED
      BY <1>1, <1>4, <1>6, <3>2 DEF Setting, Locking
  <2>5. f = g => \A z \in Clients : ~Setting(z, f)
    BY <1>1
  <2> QED
    BY <1>1, <2>1, <2>2, <2>3, <2>4, <2>5 DEF KeyOwned
<1> QED
  BY <1>1, <1>8 DEF KeyOwned

\* A key set.
LEMMA KeySet ==
    ASSUME WorkInv, KeyOwned, NEW p \in Clients, SetKey(p)
    PROVE  KeyOwned'
<1> DEFINE c == Head(todo[p])
           left == Tail(todo[p])
<1>1. PICK g \in Flows :
        /\ todo[p] # << >> /\ c.op = "SetKey" /\ FlowOf[c.on] = g
        /\ lock' = IF lock[g] = None THEN [lock EXCEPT ![g] = p] ELSE lock
        /\ Continue(p, left) /\ shared' = shared
  BY DEF SetKey, Locking
<1>2. Setting(p, g)
  BY <1>1 DEF Setting, Locking
<1>3. /\ p \in Active /\ ask[p].kind \in LockKinds /\ FlowOf[ask[p].on] = g
      /\ todo[p] = Tail(Program(ask[p])) /\ Has(ask[p], began[p], t, todo[p])
  BY <1>1, <1>2, SetsOrHolds, Working
<1>4. InPlace(ask[p], began[p], t, todo[p], c)
  BY <1>1, <1>3, LockCall DEF LockOps
<1> HIDE DEF c, left
<1>5. left # << >> /\ left = Tail(Tail(Program(ask[p])))
  BY <1>1, <1>3, <1>4 DEF InPlace, Has, left
<1>6. ask' = ask /\ todo' = [todo EXCEPT ![p] = left]
  BY <1>1, <1>5 DEF Continue
<1>7. todo'[p] = left /\ lock \in [Flows -> Clients \cup {None}]
  BY <1>6 DEF WorkInv, TypesInv
<1>8. Head(left).op # "SetKey"
  <2>1. Head(left).op \in {"FindIndex", "ReadStep"}
    BY <1>3, <1>5, LockPrograms
  <2> QED
    BY <2>1
<1>9. ASSUME NEW f \in Flows \ shared, NEW q \in Clients
      PROVE  /\ Holding(q, f)' => lock'[f] = q
             /\ Setting(q, f)' => lock'[f] = None /\ \A z \in Clients : Setting(z, f)' => z = q
  <2>1. \A z \in Clients : z # p => (Holding(z, f)' <=> Holding(z, f)) /\ (Setting(z, f)' <=> Setting(z, f))
    BY <1>6, OthersKeys
  <2>2. ~Setting(p, f)'
    BY <1>7, <1>8 DEF Setting, Locking
  <2>3. CASE f = g
    <3>1. lock[f] = None /\ \A z \in Clients : Setting(z, f) => z = p
      BY <1>2, <2>3 DEF KeyOwned
    <3>2. \A z \in Clients : ~Holding(z, f)
      BY <3>1, FlowsAssumption DEF KeyOwned
    <3>3. lock'[f] = p
      BY <1>1, <1>7, <2>3, <3>1
    <3> QED
      BY <2>1, <2>2, <3>1, <3>2, <3>3
  <2>4. CASE f # g
    <3>1. lock'[f] = lock[f]
      BY <1>1, <1>7, <2>4
    <3>2. ~Holding(p, f)'
      BY <1>3, <1>6, <2>4 DEF Holding
    <3> QED
      BY <2>1, <2>2, <3>1, <3>2 DEF KeyOwned
  <2> QED
    BY <2>3, <2>4
<1> QED
  BY <1>1, <1>9 DEF KeyOwned

\* A client that leaves the key as it is.
LEMMA KeyLeft ==
    ASSUME WorkInv, KeyOwned, NEW p \in Clients, todo' = [todo EXCEPT ![p] = << >>], Leave(p),
           lock' = lock, shared' = shared
    PROVE  KeyOwned'
<1>1. ASSUME NEW f \in Flows, NEW q \in Clients
      PROVE  (Holding(q, f)' => Holding(q, f)) /\ (Setting(q, f)' => Setting(q, f))
  <2>1. CASE q # p
    BY <2>1, OthersKeys
  <2>2. CASE q = p
    BY <2>2, LeftKeys
  <2> QED
    BY <2>1, <2>2
<1> QED
  BY <1>1, KeysAsBefore

\* A client that leaves and takes away the key that it has.
LEMMA KeyFreed ==
    ASSUME WorkInv, KeyOwned, NEW p \in Clients, todo' = [todo EXCEPT ![p] = << >>], Leave(p),
           NEW g \in Flows, Holding(p, g), lock' = [lock EXCEPT ![g] = None], shared' = shared
    PROVE  KeyOwned'
<1>1. \A f : f # g => lock'[f] = lock[f]
  OBVIOUS
<1>2. ASSUME NEW f \in Flows \ shared, NEW q \in Clients
      PROVE  /\ Holding(q, f)' => lock'[f] = q
             /\ Setting(q, f)' => lock'[f] = None /\ \A z \in Clients : Setting(z, f)' => z = q
  <2>1. \A z \in Clients : z # p => (Holding(z, f)' <=> Holding(z, f)) /\ (Setting(z, f)' <=> Setting(z, f))
    BY OthersKeys
  <2>2. ~Holding(p, f)' /\ ~Setting(p, f)'
    BY LeftKeys
  <2>3. CASE f = g
    <3>1. lock[f] = p
      BY <2>3 DEF KeyOwned
    <3>2. \A z \in Clients : z # p => ~Holding(z, f) /\ ~Setting(z, f)
      BY <3>1, FlowsAssumption DEF KeyOwned
    <3> QED
      BY <2>1, <2>2, <3>2
  <2>4. CASE f # g
    BY <1>1, <2>1, <2>2, <2>4 DEF KeyOwned
  <2> QED
    BY <2>3, <2>4
<1> QED
  BY <1>2 DEF KeyOwned

\* A key deleted at the end.
LEMMA KeyUnlock ==
    ASSUME WorkInv, KeyOwned, NEW p \in Clients, Unlock(p)
    PROVE  KeyOwned'
<1> DEFINE c == Head(todo[p])
           left == Tail(todo[p])
<1>1. PICK g \in Flows :
        /\ todo[p] # << >> /\ c.op = "Unlock" /\ FlowOf[c.on] = g
        /\ lock' = [lock EXCEPT ![g] = None] /\ Continue(p, left) /\ shared' = shared
  BY DEF Unlock, Locking
<1>2. p \in Active /\ Has(ask[p], began[p], t, todo[p])
  BY <1>1, Working
<1>3. InPlace(ask[p], began[p], t, todo[p], c)
  BY <1>1, <1>2, LockCall DEF LockOps
<1>4. left = << >> /\ ask[p].kind \in LockKinds /\ c.on = ask[p].on
  BY <1>1, <1>3 DEF InPlace
<1>5. Holding(p, g)
  BY <1>1, <1>2, <1>4 DEF Holding
<1> HIDE DEF left
<1>6. todo' = [todo EXCEPT ![p] = << >>] /\ Leave(p)
  BY <1>1, <1>4 DEF Continue
<1> QED
  BY <1>1, <1>5, <1>6, KeyFreed

\* A request broken off.
LEMMA KeyBreak ==
    ASSUME WorkInv, KeyOwned, NEW p \in Clients, todo[p] # << >>, Head(todo[p]).op \notin LockOps, Break(p)
    PROVE  KeyOwned'
<1>1. /\ todo' = [todo EXCEPT ![p] = << >>] /\ Leave(p) /\ shared' = shared
      /\ lock' = IF ask[p].kind = "CreateStep" THEN [lock EXCEPT ![FlowOf[ask[p].on]] = None] ELSE lock
  BY DEF Break
<1>2. CASE ask[p].kind # "CreateStep"
  BY <1>1, <1>2, KeyLeft
<1>3. CASE ask[p].kind = "CreateStep"
  <2>1. p \in Active /\ ask[p] \in RequestSet
    BY Working DEF Has
  <2>2. ask[p].on \in Steps
    BY <1>3, <2>1, Kinds
  <2> DEFINE g == FlowOf[ask[p].on]
  <2>3. g \in Flows
    BY <2>2, FlowsAssumption
  <2>4. Holding(p, g)
    BY <1>3, <2>1 DEF Holding, LockKinds, LockOps
  <2>5. lock' = [lock EXCEPT ![g] = None]
    BY <1>1, <1>3
  <2> HIDE DEF g
  <2> QED
    BY <1>1, <2>3, <2>4, <2>5, KeyFreed
<1> QED
  BY <1>2, <1>3

\* A key whose client is gone expires.
LEMMA KeyExpires ==
    ASSUME WorkInv, KeyOwned, NEW g \in Flows, LockExpires(g)
    PROVE  KeyOwned'
<1>1. /\ lock[g] # None /\ \A p \in Active : lock[g] # p
      /\ lock' = [lock EXCEPT ![g] = None] /\ ask' = ask /\ todo' = todo /\ shared' = shared
  BY DEF LockExpires
<1>2. ASSUME NEW f \in Flows \ shared, NEW q \in Clients
      PROVE  /\ Holding(q, f)' => lock'[f] = q
             /\ Setting(q, f)' => lock'[f] = None /\ \A z \in Clients : Setting(z, f)' => z = q
  <2>1. \A z \in Clients : (Holding(z, f)' <=> Holding(z, f)) /\ (Setting(z, f)' <=> Setting(z, f))
    BY <1>1 DEF Holding, Setting, Locking, Active, Idle
  <2>2. CASE f = g
    <3>1. ~Holding(q, f)
      <4>1. Holding(q, f) => q \in Active
        BY DEF Holding
      <4> QED
        BY <1>1, <2>2, <4>1 DEF KeyOwned
    <3>2. ~Setting(q, f)
      BY <1>1, <2>2 DEF KeyOwned
    <3> QED
      BY <2>1, <3>1, <3>2
  <2>3. CASE f # g
    <3>1. lock'[f] = lock[f]
      BY <1>1, <2>3
    <3> QED
      BY <2>1, <3>1 DEF KeyOwned
  <2> QED
    BY <2>2, <2>3
<1> QED
  BY <1>1, <1>2 DEF KeyOwned

\* Who has the key of a flow.
LEMMA KeyStep ==
    ASSUME WorkInv, KeyOwned, Proper, [Next]_vars
    PROVE  KeyOwned'
<1>1. CASE UNCHANGED vars
  BY <1>1 DEF vars, KeyOwned, Holding, Setting, Locking, Active, Idle
<1>2. ASSUME NEW p \in Clients, Ask(p) \/ Serve(p) \/ FindFree(p) \/ SetKey(p) \/ Unlock(p)
      PROVE  KeyOwned'
  BY <1>2, KeyAsk, KeyServe, KeyFind, KeySet, KeyUnlock
<1>3. ASSUME NEW p \in Clients, Refuse(p)
      PROVE  KeyOwned'
  BY <1>3, KeyLeft DEF Refuse
<1>4. ASSUME NEW p \in Clients, BreakUnfound(p) \/ Fail(p)
      PROVE  KeyOwned'
  <2>1. todo[p] # << >> /\ Break(p)
    BY <1>4 DEF BreakUnfound, Fail
  <2>2. Head(todo[p]).op \notin LockOps
    BY <1>4 DEF BreakUnfound, Fail, Absent, LockOps
  <2> QED
    BY <2>1, <2>2, KeyBreak
<1>5. ASSUME NEW f \in Flows, LockExpires(f)
      PROVE  KeyOwned'
  BY <1>5, KeyExpires
<1> QED
  BY <1>1, <1>2, <1>3, <1>4, <1>5 DEF Next

\* A creation of a step goes on in its order.
LEMMA OrderTurns ==
    ASSUME WorkInv, Orderly, NEW p \in Clients, NEW calls, todo' = [todo EXCEPT ![p] = calls],
           calls = << >> => Leave(p),
           calls # << >> => ask' = ask /\ (ask[p].kind = "CreateStep" => InOrder(ask[p], calls))
    PROVE  Orderly'
<1>1. ASSUME NEW q \in Active'
      PROVE  InOrder(ask'[q], todo'[q])
  <2>1. q \in Clients /\ ask'[q] # Nothing
    BY DEF Active, Idle
  <2>2. CASE q # p
    <3>1. ask'[q] = ask[q] /\ todo'[q] = todo[q]
      BY <2>1, <2>2 DEF WorkInv, TypesInv, Leave
    <3> QED
      BY <2>1, <3>1 DEF Orderly, Active, Idle
  <2>3. CASE q = p
    <3>1. calls # << >>
      BY <2>1, <2>3 DEF Leave, WorkInv, TypesInv
    <3>2. todo'[q] = calls /\ ask'[q] = ask[p]
      BY <2>3, <3>1 DEF WorkInv, TypesInv
    <3>3. ask[p].kind # "CreateStep" => InOrder(ask[p], calls)
      BY DEF InOrder
    <3> QED
      BY <3>1, <3>2, <3>3
  <2> QED
    BY <2>2, <2>3
<1> QED
  BY <1>1 DEF Orderly

\* The calls of a creation of a step, in their order.
LEMMA CreationIs ==
    ASSUME NEW r, r.kind = "CreateStep"
    PROVE  /\ Head(Program(r)).op = "FindFree" /\ Head(Tail(Program(r))).op = "SetKey"
           /\ Tail(Tail(Program(r))) = <<Call("FindIndex", r.on, {}), Release(r)>>
<1> DEFINE X(op) == Call(op, r.on, {})
<1>1. Program(r) = <<X("FindFree"), X("SetKey"), X("FindIndex"), Release(r)>>
  BY DEF Program, Release
<1>2. X("FindFree").op = "FindFree" /\ X("SetKey").op = "SetKey"
  BY DEF Call
<1> HIDE DEF X
<1>3. Tail(Tail(Program(r))) = <<X("FindIndex"), Release(r)>>
  BY <1>1
<1> QED
  BY <1>1, <1>2, <1>3 DEF X

\* Two calls.
LEMMA PairOfCalls ==
    ASSUME NEW x, NEW e
    PROVE  /\ Head(<<x, e>>) = x /\ Tail(<<x, e>>) = <<e>> /\ <<x>> # << >>
           /\ << >> \o <<e>> = <<e>> /\ <<x>> \o <<e>> = <<x, e>>
<1> DEFINE A == {x, e}
<1>1. << >> \in Seq(A) /\ <<x>> \in Seq(A) /\ <<e>> \in Seq(A) /\ <<x, e>> \in Seq(A)
  OBVIOUS
<1>2. Head(<<x, e>>) = x /\ <<x>> # << >>
  OBVIOUS
<1>3. Tail(<<x, e>>) = <<e>>
  OBVIOUS
<1>4. << >> \o <<e>> = <<e>>
  BY <1>1, ConcatEmptySeq
<1>5. <<x>> \o <<e>> = <<x, e>>
  <2> DEFINE s == <<x>> \o <<e>>
             z == <<x, e>>
  <2>1. Len(s) = 2 /\ s[1] = x /\ s[2] = e /\ s \in Seq(A)
    BY <1>1
  <2>2. Len(z) = 2 /\ z[1] = x /\ z[2] = e /\ z \in Seq(A)
    BY <1>1
  <2> HIDE DEF s, z, A
  <2>3. \A i \in 1 .. Len(s) : s[i] = z[i]
    BY <2>1, <2>2
  <2>4. s = z
    BY <2>1, <2>2, <2>3, SeqEqual
  <2> QED
    BY <2>4 DEF s, z
<1> QED
  BY <1>2, <1>3, <1>4, <1>5

\* After call c of the creation of a step these are left.
Creates(r, c, left) ==
    /\ c.on = r.on
    /\ \/ /\ left = <<Call("InsertStep", r.on, {}), Release(r)>>
          /\ c.op = "FindIndex" /\ Further(c) # << >>
       \/ left = <<Release(r)>>

\* So serving it leaves them.
LEMMA OrderServe ==
    ASSUME WorkInv, Orderly, NEW p \in Clients, todo[p] # << >>, NEW r, r = ask[p], r.kind = "CreateStep",
           NEW c, c = Head(todo[p]), c.op \notin LockOps, NEW left, left = Further(c) \o Tail(todo[p])
    PROVE  Creates(r, c, left)
<1>1. p \in Active
  BY Working
<1>2. InOrder(r, todo[p])
  BY <1>1 DEF Orderly
<1> DEFINE Left(op) == <<Call(op, r.on, {}), Release(r)>>
           s == Call("InsertStep", r.on, {})
<1>3. todo[p] \in {Left("FindIndex"), Left("InsertStep")}
  <2>1. todo[p] # Program(r) /\ todo[p] # Tail(Program(r))
    BY CreationIs DEF LockOps
  <2>2. todo[p] # <<Release(r)>>
    <3>1. Release(r).op \in LockOps
      BY DEF Release, Call, LockOps
    <3>2. Head(<<Release(r)>>) = Release(r)
      OBVIOUS
    <3> QED
      BY <3>1, <3>2
  <2> HIDE DEF Left
  <2> QED
    BY <1>2, <2>1, <2>2 DEF InOrder, Left
<1>4. c \in {Call("FindIndex", r.on, {}), s} /\ Tail(todo[p]) = <<Release(r)>>
  <2>1. PICK x \in {Call("FindIndex", r.on, {}), s} : todo[p] = <<x, Release(r)>>
    BY <1>3
  <2>2. c = x /\ Tail(todo[p]) = <<Release(r)>>
    BY <2>1, PairOfCalls
  <2> QED
    BY <2>1, <2>2
<1>5. c.on = r.on /\ c.op \in {"FindIndex", "InsertStep"}
  BY <1>4 DEF Call
<1>6. Further(c) = << >> \/ (Further(c) = <<s>> /\ c.op = "FindIndex")
  BY <1>5 DEF Further
<1> DEFINE e == Release(r)
<1> HIDE DEF s, e
<1>7. << >> \o <<e>> = <<e>> /\ <<s>> \o <<e>> = <<s, e>> /\ <<s>> # << >>
  BY PairOfCalls
<1> QED
  BY <1>4, <1>5, <1>6, <1>7 DEF s, e, Creates

\* Creations of steps are in order.
LEMMA OrderStep ==
    ASSUME WorkInv, Orderly, [Next]_vars
    PROVE  Orderly'
<1>1. CASE UNCHANGED vars
  BY <1>1 DEF vars, Orderly, Active, Idle
<1>2. ASSUME NEW p \in Clients, Ask(p)
      PROVE  Orderly'
  <2>1. PICK r : ask' = [ask EXCEPT ![p] = r] /\ todo' = [todo EXCEPT ![p] = Program(r)]
    BY <1>2 DEF Ask
  <2>2. /\ \A q \in Clients : q # p => ask'[q] = ask[q] /\ todo'[q] = todo[q]
        /\ ask'[p] = r /\ todo'[p] = Program(r)
    BY <2>1 DEF WorkInv, TypesInv
  <2>3. InOrder(r, Program(r))
    BY DEF InOrder
  <2> QED
    BY <2>2, <2>3 DEF Orderly, Active, Idle
<1>3. ASSUME NEW p \in Clients, Serve(p)
      PROVE  Orderly'
  <2> DEFINE c == Head(todo[p])
             left == Further(c) \o Tail(todo[p])
             r == ask[p]
  <2>1. todo[p] # << >> /\ c.op \notin LockOps /\ Continue(p, left)
    BY <1>3 DEF Serve
  <2>2. r.kind = "CreateStep" =>
          left \in {<<Call("InsertStep", r.on, {}), Release(r)>>, <<Release(r)>>}
    <3>1. r.kind = "CreateStep" => Creates(r, c, left)
      BY <2>1, OrderServe
    <3> QED
      BY <3>1 DEF Creates
  <2> HIDE DEF left
  <2>3. r.kind = "CreateStep" => InOrder(r, left)
    BY <2>2 DEF InOrder
  <2> QED
    BY <2>1, <2>3, OrderTurns DEF Continue
<1>4. ASSUME NEW p \in Clients, FindFree(p) \/ SetKey(p) \/ Unlock(p)
      PROVE  Orderly'
  <2> DEFINE c == Head(todo[p])
             left == Tail(todo[p])
             r == ask[p]
  <2>1. todo[p] # << >> /\ c.op \in LockOps /\ Continue(p, left)
    BY <1>4 DEF FindFree, SetKey, Unlock, Locking, LockOps
  <2>2. InPlace(r, began[p], t, todo[p], c)
    BY <2>1, Working, LockCall
  <2>3. /\ c.op = "FindFree" => left = Tail(Program(r))
        /\ c.op = "SetKey" => left = Tail(Tail(Program(r)))
        /\ c.op = "Unlock" => left = << >>
    BY <2>2 DEF InPlace
  <2> HIDE DEF left, c
  <2>4. left # << >> /\ r.kind = "CreateStep" => InOrder(r, left)
    BY <2>1, <2>3, CreationIs DEF InOrder, LockOps
  <2>5. /\ todo' = [todo EXCEPT ![p] = left]
        /\ left = << >> => Leave(p)
        /\ left # << >> => ask' = ask /\ (ask[p].kind = "CreateStep" => InOrder(ask[p], left))
    BY <2>1, <2>4 DEF Continue
  <2> QED
    BY <2>5, OrderTurns
<1>5. ASSUME NEW p \in Clients, Refuse(p) \/ BreakUnfound(p) \/ Fail(p)
      PROVE  Orderly'
  <2> DEFINE left == << >>
  <2>1. todo' = [todo EXCEPT ![p] = left] /\ Leave(p) /\ left = << >>
    BY <1>5 DEF Refuse, BreakUnfound, Fail, Break
  <2> HIDE DEF left
  <2> QED
    BY <2>1, OrderTurns
<1>6. ASSUME NEW f \in Flows, LockExpires(f)
      PROVE  Orderly'
  BY <1>6 DEF LockExpires, Orderly, Active, Idle
<1> QED
  BY <1>1, <1>2, <1>3, <1>4, <1>5, <1>6 DEF Next

\* A client that inserts a step has the key of its flow.
LEMMA Inserter ==
    ASSUME WorkInv, Orderly, NEW p \in Active, Head(todo[p]).op = "InsertStep"
    PROVE  /\ ask[p].kind = "CreateStep" /\ ask[p].on \in Steps /\ Head(todo[p]).on = ask[p].on
           /\ FlowOf[ask[p].on] \in Flows /\ Holding(p, FlowOf[ask[p].on])
<1>1. Has(ask[p], began[p], t, todo[p])
  BY DEF WorkInv, AtWork
<1>2. Works(ask[p], began[p], Head(todo[p])) /\ ask[p] \in RequestSet
  BY <1>1, NextCall DEF Has
<1>3. ask[p].kind = "CreateStep" /\ Head(todo[p]).on = ask[p].on
  BY <1>2, WhoWrites DEF Works, Fitting, Fits, OwnOps
<1>4. ask[p].on \in Steps
  BY <1>2, <1>3, Kinds
<1>5. FlowOf[ask[p].on] \in Flows
  BY <1>4, FlowsAssumption
<1>6. Holding(p, FlowOf[ask[p].on])
  BY <1>3 DEF Holding, LockKinds
<1> QED
  BY <1>3, <1>4, <1>5, <1>6

\* Steps come by insertion only.
LEMMA StepsCome ==
    ASSUME WorkInv, Orderly, NEW p \in Clients, todo[p] # << >>, Written(p),
           NEW s \in Steps \cap t'.objs, s \notin t.objs
    PROVE  Head(todo[p]).op = "InsertStep" /\ s = ask[p].on
<1> DEFINE c == Head(todo[p])
           r == ask[p]
           b == began[p]
<1>1. p \in Active /\ Works(r, b, c)
  BY Working, NextCall
<1>2. t' = Result(c)
  BY DEF Written
<1>3. c.op \in Inserts /\ s = c.on
  <2>1. Effect(r, b, c)
    BY <1>1, CallEffect
  <2> QED
    BY <1>2, <2>1 DEF Effect
<1>4. c.op = "InsertFlow" => c.on \in Flows
  <2>1. c.op = "InsertFlow" => r.kind = "CreateFlow" /\ c.on = r.on
    BY <1>1, WhoWrites, OwnRow DEF OwnOps
  <2> QED
    BY <1>1, <2>1, Kinds, OwnRow
<1>5. c.op \in {"InsertIo", "KeepMain"} => c.on \in Ios
  <2>1. c.op = "InsertIo" => r.kind = "CreateIo" /\ c.on = r.on
    BY <1>1, WhoWrites, OwnRow DEF OwnOps
  <2> QED
    BY <1>1, <2>1, Kinds, OwnRow
<1>6. c.op = "InsertStep"
  BY <1>3, <1>4, <1>5, FlowsAssumption DEF Inserts
<1> QED
  BY <1>1, <1>3, <1>6, Inserter

\* After the turn of a client the steps of each flow are apart.
LEMMA PlaceTurns ==
    ASSUME WorkInv, StepInv, NEW p \in Clients, todo[p] # << >>, NEW calls,
           todo' = [todo EXCEPT ![p] = calls],
           calls = << >> => Leave(p),
           calls # << >> => ask' = ask,
           calls # << >> /\ Head(calls).op = "InsertStep" => t' = t /\ PlaceFree(ask[p].on),
           Written(p), shared \subseteq shared'
    PROVE  PlacesFree' /\ IndexOwn'
<1>1. p \in Active
  BY Working
<1>2. \A s \in Steps \cap t'.objs : s \notin t.objs => Head(todo[p]).op = "InsertStep" /\ s = ask[p].on
  BY StepsCome DEF StepInv
<1>3. ASSUME Head(todo[p]).op = "InsertStep"
      PROVE  PlaceFree(ask[p].on)
  BY <1>1, <1>3 DEF StepInv, PlacesFree
<1>4. IndexOwn'
  <2>1. ASSUME NEW s \in Steps \cap t'.objs, NEW u \in Steps \cap t'.objs,
               FlowOf[s] = FlowOf[u], IndexOf[s] = IndexOf[u], s # u
        PROVE  FlowOf[s] \in shared
    <3>1. CASE s \in t.objs /\ u \in t.objs
      BY <2>1, <3>1 DEF StepInv, IndexOwn
    <3>2. CASE s \notin t.objs
      <4>1. PlaceFree(s) /\ u \in t.objs
        BY <1>2, <1>3, <2>1, <3>2
      <4> QED
        BY <2>1, <4>1 DEF PlaceFree, FreeIn
    <3>3. CASE u \notin t.objs
      <4>1. PlaceFree(u) /\ s \in t.objs
        BY <1>2, <1>3, <2>1, <3>3
      <4> QED
        BY <2>1, <4>1 DEF PlaceFree, FreeIn
    <3> QED
      BY <3>1, <3>2, <3>3
  <2> QED
    BY <2>1 DEF IndexOwn
<1>5. ASSUME NEW q \in Active', Head(todo'[q]).op = "InsertStep"
      PROVE  FreeIn(t', shared', ask'[q].on)
  <2>1. q \in Clients /\ ask'[q] # Nothing
    BY DEF Active, Idle
  <2>2. CASE q = p
    <3>1. calls # << >>
      BY <2>1, <2>2 DEF Leave, WorkInv, TypesInv
    <3>2. todo'[q] = calls /\ ask'[q] = ask[p]
      BY <2>2, <3>1 DEF WorkInv, TypesInv
    <3>3. t' = t /\ PlaceFree(ask[p].on)
      BY <1>5, <3>1, <3>2
    <3> QED
      BY <3>2, <3>3 DEF PlaceFree, FreeIn
  <2>3. CASE q # p
    <3> DEFINE o == ask[q].on
               f == FlowOf[o]
    <3>1. ask'[q] = ask[q] /\ todo'[q] = todo[q] /\ q \in Active
      <4>1. ask'[q] = ask[q] /\ todo'[q] = todo[q]
        BY <2>1, <2>3 DEF WorkInv, TypesInv, Leave
      <4> QED
        BY <2>1, <4>1 DEF Active, Idle
    <3>2. PlaceFree(o)
      BY <1>5, <3>1 DEF StepInv, PlacesFree
    <3>3. f \in Flows /\ Holding(q, f)
      BY <1>5, <3>1, Inserter DEF StepInv
    <3>4. ASSUME NEW u \in Steps \cap t'.objs, FlowOf[u] = f, IndexOf[u] = IndexOf[o]
          PROVE  f \in shared
      <4>1. CASE u \in t.objs
        BY <3>2, <3>4, <4>1 DEF PlaceFree, FreeIn
      <4>2. CASE u \notin t.objs
        <5>1. Head(todo[p]).op = "InsertStep" /\ u = ask[p].on
          BY <1>2, <4>2
        <5>2. Holding(p, f)
          BY <1>1, <3>4, <5>1, Inserter DEF StepInv
        <5>3. f \notin shared => lock[f] = p /\ lock[f] = q
          BY <2>1, <3>3, <5>2 DEF StepInv, KeyOwned
        <5> QED
          BY <2>3, <5>3
      <4> QED
        BY <4>1, <4>2
    <3> QED
      BY <3>1, <3>4 DEF PlaceFree, FreeIn
  <2> QED
    BY <2>2, <2>3
<1> QED
  BY <1>4, <1>5 DEF PlacesFree, PlaceFree

\* A place is found free.
LEMMA PlaceServe ==
    ASSUME WorkInv, StepInv, NEW p \in Clients, Serve(p)
    PROVE  PlacesFree' /\ IndexOwn'
<1> DEFINE c == Head(todo[p])
           left == Further(c) \o Tail(todo[p])
           r == ask[p]
           b == began[p]
<1>1. /\ todo[p] # << >> /\ c.op \notin LockOps /\ ~Absent(c) /\ t' = Result(c)
      /\ Continue(p, left) /\ shared' = shared /\ Written(p)
  BY DEF Serve, Written
<1>2. p \in Active /\ Has(r, b, t, todo[p])
  BY <1>1, Working
<1>3. r.kind = "CreateStep" => Creates(r, c, left)
  BY <1>1, OrderServe DEF StepInv
<1>4. left # << >> => Has(r, b, t', left)
  <2> HIDE DEF c, left
  <2> QED
    BY <1>1, <1>2, GoesOn DEF c, left
<1> HIDE DEF c, left
<1>5. ASSUME left # << >>, Head(left).op = "InsertStep"
      PROVE  t' = t /\ PlaceFree(r.on)
  <2>1. r.kind = "CreateStep"
    <3>1. left \in Seq(Fitting(r, b, t')) /\ r \in RequestSet
      BY <1>4, <1>5 DEF Has
    <3>2. Head(left) \in Fitting(r, b, t')
      BY <1>5, <3>1, OneByOne, SeqRest
    <3>3. "InsertStep" \in OpsOf(r.kind)
      BY <1>5, <3>2 DEF Fitting, Fits
    <3>4. \/ r.kind \in {"CreateFlow", "DeleteFlow", "CreateStep", "DeleteStep"}
          \/ r.kind \in {"UpdateNodes", "UpdateInputs", "CreateIo", "DeleteIo", "PurgeIo"}
      BY <3>1, Kinds
    <3> QED
      BY <3>3, <3>4 DEF OpsOf
  <2>2. c.on = r.on /\ c.op = "FindIndex" /\ Further(c) # << >>
    <3>1. left # <<Release(r)>>
      <4>1. Release(r).op = "Unlock" /\ Head(<<Release(r)>>) = Release(r)
        BY DEF Release, Call
      <4> QED
        BY <1>5, <4>1
    <3> QED
      BY <1>3, <2>1, <3>1 DEF Creates
  <2>3. Result(c) = t
    BY <2>2 DEF Result
  <2>4. ~\E s \in Steps \cap t.objs : FlowOf[s] = FlowOf[c.on] /\ IndexOf[s] = IndexOf[c.on]
    BY <2>2 DEF Further
  <2> QED
    BY <1>1, <2>2, <2>3, <2>4 DEF PlaceFree, FreeIn
<1>6. /\ todo' = [todo EXCEPT ![p] = left]
      /\ left = << >> => Leave(p)
      /\ left # << >> => ask' = ask
  BY <1>1 DEF Continue
<1> QED
  BY <1>1, <1>5, <1>6, PlaceTurns

\* Steps in one place.
LEMMA PlaceStep ==
    ASSUME WorkInv, StepInv, Proper, [Next]_vars
    PROVE  PlacesFree' /\ IndexOwn'
<1>1. CASE UNCHANGED vars
  BY <1>1 DEF vars, StepInv, PlacesFree, PlaceFree, FreeIn, IndexOwn, Active, Idle
<1>2. ASSUME NEW p \in Clients, Ask(p)
      PROVE  PlacesFree' /\ IndexOwn'
  <2>1. PICK r \in Asked(t) \cup Repeatable :
          ask' = [ask EXCEPT ![p] = r] /\ todo' = [todo EXCEPT ![p] = Program(r)]
    BY <1>2 DEF Ask
  <2>2. /\ \A q \in Clients : q # p => ask'[q] = ask[q] /\ todo'[q] = todo[q]
        /\ ask'[p] = r /\ todo'[p] = Program(r)
        /\ t' = t /\ shared' = shared
    BY <1>2, <2>1 DEF Ask, WorkInv, TypesInv
  <2>3. r \in RequestSet
    BY DEF Proper, WorkInv, TypesInv, Repeatable
  <2>4. \A q \in Active' : q # p => q \in Active /\ ask'[q] = ask[q] /\ todo'[q] = todo[q]
    BY <2>2 DEF Active, Idle
  <2>5. Head(Program(r)).op # "InsertStep"
    BY <2>3, Begins
  <2>6. PlacesFree'
    BY <2>2, <2>4, <2>5 DEF StepInv, PlacesFree, PlaceFree, FreeIn
  <2> QED
    BY <2>2, <2>6 DEF StepInv, IndexOwn
<1>3. ASSUME NEW p \in Clients, Serve(p)
      PROVE  PlacesFree' /\ IndexOwn'
  BY <1>3, PlaceServe
<1>4. ASSUME NEW p \in Clients, FindFree(p) \/ SetKey(p) \/ Unlock(p)
      PROVE  PlacesFree' /\ IndexOwn'
  <2> DEFINE c == Head(todo[p])
             left == Tail(todo[p])
             r == ask[p]
  <2>1. /\ todo[p] # << >> /\ c.op \in LockOps /\ Continue(p, left)
        /\ t' = t /\ gone' = gone /\ shared \subseteq shared'
    BY <1>4 DEF FindFree, SetKey, Unlock, Locking, LockOps
  <2>2. p \in Active /\ Has(r, began[p], t, todo[p])
    BY <2>1, Working
  <2>3. InPlace(r, began[p], t, todo[p], c)
    BY <2>1, <2>2, LockCall
  <2>4. left # << >> => Head(left).op # "InsertStep"
    <3>1. /\ c.op = "FindFree" => left = Tail(Program(r))
          /\ c.op = "SetKey" => left = Tail(Tail(Program(r)))
          /\ c.op = "Unlock" => left = << >>
          /\ r.kind \in LockKinds
      BY <2>3 DEF InPlace
    <3>2. Head(Tail(Program(r))).op = "SetKey"
      BY <3>1 DEF Program, LockKinds, Call
    <3>3. Head(Tail(Tail(Program(r)))).op \in {"FindIndex", "ReadStep"}
      BY <3>1 DEF Program, LockKinds, Call
    <3> HIDE DEF left, c
    <3> QED
      BY <2>1, <3>1, <3>2, <3>3 DEF LockOps
  <2> HIDE DEF left
  <2>5. /\ todo' = [todo EXCEPT ![p] = left]
        /\ left = << >> => Leave(p)
        /\ left # << >> => ask' = ask
    BY <2>1 DEF Continue
  <2>6. Written(p)
    BY <2>1 DEF Written
  <2> QED
    BY <2>1, <2>4, <2>5, <2>6, PlaceTurns
<1>5. ASSUME NEW p \in Clients, Refuse(p) \/ BreakUnfound(p) \/ Fail(p)
      PROVE  PlacesFree' /\ IndexOwn'
  <2> DEFINE left == << >>
  <2>1. todo[p] # << >> /\ todo' = [todo EXCEPT ![p] = left] /\ Leave(p) /\ shared' = shared /\ left = << >>
    BY <1>5 DEF Refuse, BreakUnfound, Fail, Break, Locking
  <2>2. Written(p)
    BY <1>5 DEF Refuse, BreakUnfound, Fail, Written
  <2> HIDE DEF left
  <2> QED
    BY <2>1, <2>2, PlaceTurns
<1>6. ASSUME NEW f \in Flows, LockExpires(f)
      PROVE  PlacesFree' /\ IndexOwn'
  BY <1>6 DEF LockExpires, StepInv, PlacesFree, PlaceFree, FreeIn, IndexOwn, Active, Idle
<1> QED
  BY <1>1, <1>2, <1>3, <1>4, <1>5, <1>6 DEF Next

\* The steps are apart to begin with.
LEMMA StepInit ==
    ASSUME Init
    PROVE  StepInv
<1>1. Active = {} /\ \A p \in Clients : todo[p] = << >>
  BY DEF Init, Active, Idle
<1>2. KeyOwned
  BY <1>1 DEF KeyOwned, Holding, Setting, Locking
<1>3. IndexOwn
  BY FlowsAssumption DEF Init, IndexOwn
<1> QED
  BY <1>1, <1>2, <1>3 DEF StepInv, Orderly, PlacesFree

\* Both invariants hold throughout.
LEMMA Invariants ==
    ASSUME ~Racing, Proper
    PROVE  Spec => [](WorkInv /\ StepInv)
<1>1. Init => WorkInv /\ StepInv
  BY WorkInit, StepInit
<1>2. WorkInv /\ StepInv /\ [Next]_vars => (WorkInv /\ StepInv)'
  <2> SUFFICES ASSUME WorkInv, StepInv, [Next]_vars
               PROVE  WorkInv' /\ StepInv'
    OBVIOUS
  <2>1. WorkInv'
    BY WorkStep
  <2>2. KeyOwned' /\ Orderly' /\ PlacesFree' /\ IndexOwn'
    BY KeyStep, OrderStep, PlaceStep DEF StepInv
  <2> QED
    BY <2>1, <2>2 DEF StepInv
<1> QED
  BY <1>1, <1>2, PTL DEF Spec

-----------------------------------------------------------------------------
(* What the columns are after a call.                                      *)

\* The columns of v that say what belongs together.
Shows(v, objs, loose, outs, ins, users, initial) ==
    /\ v.objs = objs /\ v.loose = loose /\ v.outputs = outs /\ v.inputs = ins
    /\ v.inputted = users /\ v.initial = initial

\* A column of a table changed, and the others as they were.
LEMMA ColumnShows ==
    ASSUME NEW u \in Tables, NEW P
    PROVE  /\ Shows([u EXCEPT !.outputs = P], u.objs, u.loose, P, u.inputs, u.inputted, u.initial)
           /\ Shows([u EXCEPT !.inputs = P], u.objs, u.loose, u.outputs, P, u.inputted, u.initial)
           /\ Shows([u EXCEPT !.inputted = P], u.objs, u.loose, u.outputs, u.inputs, P, u.initial)
           /\ Shows([u EXCEPT !.initial = P], u.objs, u.loose, u.outputs, u.inputs, u.inputted, P)
           /\ Shows([u EXCEPT !.loose = P], u.objs, P, u.outputs, u.inputs, u.inputted, u.initial)
           /\ Shows([u EXCEPT !.nodes = P], u.objs, u.loose, u.outputs, u.inputs, u.inputted, u.initial)
           /\ Shows([u EXCEPT !.place = P], u.objs, u.loose, u.outputs, u.inputs, u.inputted, u.initial)
BY DEF Tables, Shows

\* Pairs of the others, and what s has now.
Instead(P, s, S) == {x \in P : x[1] # s} \cup {s} \X S
Without(P, o) == {x \in P : x[1] # o}
Unknown(P, i) == {x \in P : x[2] # i}

\* They are what the operators of Contents give for one row.
LEMMA PairsOfOne ==
    ASSUME NEW P, NEW s, NEW S
    PROVE  /\ StepPairs(P, {}, {s}) = Without(P, s) /\ IoPairs(P, {}, {s}) = Unknown(P, s)
           /\ StepPairs(P, {s} \X S, {s}) = Instead(P, s, S)
           /\ IoPairs(P, S \X {s}, {s}) = Unknown(P, s) \cup S \X {s}
BY DEF StepPairs, IoPairs, Without, Unknown, Instead

\* What call c makes of the columns.
Shown(c, v) ==
    LET o == c.on IN
    /\ c.op \in Drops =>
         Shows(v, t.objs \ {o}, t.loose \ {o}, Without(t.outputs, o), Without(t.inputs, o),
               Unknown(t.inputted, o), t.initial)
    /\ c.op \in {"InsertFlow", "InsertStep", "InsertIo"} =>
         Shows(v, t.objs \cup {o}, t.loose \ {o}, Without(t.outputs, o), Without(t.inputs, o),
               Unknown(t.inputted, o), t.initial)
    /\ c.op = "KeepMain" =>
         Shows(v, t.objs \cup {o}, t.loose \cup {o}, Without(t.outputs, o), Without(t.inputs, o),
               Unknown(t.inputted, o) \cup c.with \X {o}, t.initial)
    /\ c.op \in {"WriteNodes", "WriteRow"} =>
         Shows(v, t.objs, t.loose, Instead(t.outputs, o, Column(c.with, "outputs")),
               Instead(t.inputs, o, Column(c.with, "inputs")), t.inputted, t.initial)
    /\ c.op = "WriteInputs" =>
         Shows(v, t.objs, t.loose, t.outputs, Instead(t.inputs, o, c.with), t.inputted, t.initial)
    /\ c.op = "WriteOutputs" =>
         Shows(v, t.objs, t.loose, Instead(t.outputs, o, c.with), t.inputs, t.inputted, t.initial)
    /\ c.op = "WriteUsers" =>
         Shows(v, t.objs, t.loose, t.outputs, t.inputs,
               (t.inputted \cup {o} \X Column(c.with, "added")) \ ({o} \X Column(c.with, "removed")),
               t.initial)
    /\ c.op = "PushInitial" =>
         Shows(v, t.objs, t.loose, t.outputs, t.inputs, t.inputted, t.initial \cup {o})
    /\ c.op = "PullInitial" =>
         Shows(v, t.objs, t.loose, t.outputs, t.inputs, t.inputted, t.initial \ {o})

\* Rows deleted or inserted.
LEMMA ShownRows ==
    ASSUME NEW r, NEW b, NEW c, Works(r, b, c),
           c.op \in Drops \cup {"InsertFlow", "InsertStep", "InsertIo"}
    PROVE  Shown(c, Result(c))
<1>1. /\ c.on \in Objects /\ t \in Tables /\ {c.on} \in SUBSET Objects
  <2>1. c.op \in {"DropFlow", "InsertFlow", "InsertStep", "InsertIo"} => c.on = r.on
    BY DEF Works, Fitting, Fits, OwnOps
  <2>2. c.op \in {"DropStep", "DropIo"} => c.on \in Steps \cup Ios
    BY DEF Works, Fitting, Fits
  <2>3. r.on \in Objects
    BY Kinds DEF Works
  <2> QED
    BY <2>1, <2>2, <2>3 DEF Drops, Objects, Works
<1> DEFINE o == c.on
           v == Result(c)
<1>2. CASE c.op \in Drops
  <2>1. Result(c) = DeleteRows(t, {o})
    BY <1>2 DEF Result, Drops
  <2>2. LET w == DeleteRows(t, {o}) IN
          Shows(w, t.objs \ {o}, t.loose \ {o}, StepPairs(t.outputs, {}, {o}),
                StepPairs(t.inputs, {}, {o}), IoPairs(t.inputted, {}, {o}), t.initial)
    <3> HIDE DEF o
    <3> QED
      BY <1>1, Deleting DEF Shows, o
  <2>3. c.op \notin {"InsertFlow", "InsertStep", "InsertIo", "KeepMain", "WriteNodes", "WriteRow",
                     "WriteInputs", "WriteOutputs", "WriteUsers", "PushInitial", "PullInitial"}
    BY <1>2 DEF Drops
  <2> QED
    BY <2>1, <2>2, <2>3, PairsOfOne DEF Shown
<1>3. CASE c.op \in {"InsertFlow", "InsertStep", "InsertIo"}
  <2>1. PICK w \in Tables :
          /\ w.outputs = {} /\ w.inputted = {} /\ w.inputs = {} /\ w.loose = {}
          /\ w = IF c.op = "InsertStep" THEN NewSteps ELSE Empty
    BY EmptyTables
  <2> DEFINE u == InsertRows(t, w, {o})
  <2>2. Inserted(t, w, {o})
    BY <1>1, <2>1, Inserting
  <2>3. u \in Tables /\ Shows(u, t.objs \cup {o}, t.loose \ {o}, Without(t.outputs, o), Without(t.inputs, o),
                              Unknown(t.inputted, o), t.initial)
    <3>1. /\ u \in Tables
          /\ Shows(u, t.objs \cup {o}, (t.loose \ {o}) \cup ({} \cap {o}), StepPairs(t.outputs, {}, {o}),
                   StepPairs(t.inputs, {}, {o}), IoPairs(t.inputted, {}, {o}), t.initial)
      BY <2>1, <2>2 DEF Inserted, Shows
    <3>2. (t.loose \ {o}) \cup ({} \cap {o}) = t.loose \ {o}
      OBVIOUS
    <3> HIDE DEF u
    <3> QED
      BY <3>1, <3>2, PairsOfOne
  <2>4. v = u \/ \E P : v = [u EXCEPT !.place = P]
    <3>1. c.op = "InsertFlow" => v = [u EXCEPT !.place = [u.place EXCEPT ![o] = Cardinality(c.with)]]
      BY <2>1 DEF Result
    <3>2. c.op # "InsertFlow" => v = u
      BY <1>3, <2>1 DEF Result
    <3> QED
      BY <3>1, <3>2
  <2> HIDE DEF u, v
  <2>5. Shows(v, u.objs, u.loose, u.outputs, u.inputs, u.inputted, u.initial)
    <3>1. CASE v = u
      BY <3>1 DEF Shows
    <3>2. ASSUME NEW P, v = [u EXCEPT !.place = P]
          PROVE  Shows(v, u.objs, u.loose, u.outputs, u.inputs, u.inputted, u.initial)
      BY <2>3, <3>2, ColumnShows
    <3> QED
      BY <2>4, <3>1, <3>2
  <2>6. Shows(v, t.objs \cup {o}, t.loose \ {o}, Without(t.outputs, o), Without(t.inputs, o),
              Unknown(t.inputted, o), t.initial)
    BY <2>3, <2>5 DEF Shows
  <2>7. c.op \notin Drops
    BY <1>3 DEF Drops
  <2> QED
    BY <1>3, <2>6, <2>7 DEF Shown, v
<1> QED
  BY <1>2, <1>3

\* A main IO inserted again.
LEMMA ShownKeep ==
    ASSUME NEW r, NEW b, NEW c, Works(r, b, c), c.op = "KeepMain"
    PROVE  Shown(c, Result(c))
<1> DEFINE o == c.on
           P == c.with \X {o}
           w == [Empty EXCEPT !.inputted = P]
           u == InsertRows(t, w, {o})
           L == u.loose \cup {o}
           v == [u EXCEPT !.loose = L]
<1>1. o \in Ios /\ c.with \subseteq Steps /\ t \in Tables /\ {o} \subseteq Objects
  BY DEF Works, Fitting, Fits, Objects
<1>2. w \in Tables /\ Shows(w, {}, {}, {}, {}, P, Empty.initial)
  <2>1. /\ Empty \in Tables /\ Empty.outputs = {} /\ Empty.inputs = {} /\ Empty.loose = {}
        /\ Empty.objs = {}
    BY EmptyTables DEF Empty
  <2>2. P \subseteq Steps \X Ios
    BY <1>1
  <2> HIDE DEF P
  <2>3. w \in Tables
    BY <2>1, <2>2, Changing DEF Lists
  <2>4. Shows(w, {}, {}, {}, {}, P, Empty.initial)
    BY <2>1, ColumnShows DEF Shows
  <2> QED
    BY <2>3, <2>4
<1> HIDE DEF w
<1>3. Inserted(t, w, {o})
  BY <1>1, <1>2, Inserting
<1>4. u \in Tables /\ Shows(u, t.objs \cup {o}, t.loose \ {o}, Without(t.outputs, o), Without(t.inputs, o),
                            Unknown(t.inputted, o) \cup c.with \X {o}, t.initial)
  <2>1. /\ u \in Tables
        /\ Shows(u, t.objs \cup {o}, (t.loose \ {o}) \cup ({} \cap {o}), StepPairs(t.outputs, {}, {o}),
                 StepPairs(t.inputs, {}, {o}), IoPairs(t.inputted, P, {o}), t.initial)
    <3>1. w.outputs = {} /\ w.inputs = {} /\ w.loose = {} /\ w.inputted = P
      BY <1>2 DEF Shows
    <3> HIDE DEF P, o
    <3> QED
      BY <1>3, <3>1 DEF Inserted, Shows
  <2>2. (t.loose \ {o}) \cup ({} \cap {o}) = t.loose \ {o}
    OBVIOUS
  <2>3. IoPairs(t.inputted, P, {o}) = Unknown(t.inputted, o) \cup c.with \X {o}
    BY DEF IoPairs, Unknown
  <2> HIDE DEF u, P
  <2> QED
    BY <2>1, <2>2, <2>3, PairsOfOne
<1> HIDE DEF u
<1>5. Shows(v, u.objs, L, u.outputs, u.inputs, u.inputted, u.initial)
  BY <1>4, ColumnShows
<1>6. Result(c) = v
  BY DEF Result, u, w
<1>7. L = t.loose \cup {o}
  BY <1>4 DEF Shows
<1> HIDE DEF v, L
<1>8. Shows(v, t.objs \cup {o}, t.loose \cup {o}, Without(t.outputs, o), Without(t.inputs, o),
            Unknown(t.inputted, o) \cup c.with \X {o}, t.initial)
  BY <1>4, <1>5, <1>7 DEF Shows
<1> QED
  BY <1>6, <1>8 DEF Shown, Drops

\* Rows, inputs or outputs of a step that is there written.
LEMMA ShownStep ==
    ASSUME NEW r, NEW b, NEW c, Works(r, b, c),
           c.op \in {"WriteNodes", "WriteRow", "WriteInputs", "WriteOutputs"}
    PROVE  Shown(c, Result(c))
<1> DEFINE o == c.on
           u == Upserted(t, {o})
           w == Result(c)
<1>1. u \in Tables /\ Shows(u, t.objs, t.loose, t.outputs, t.inputs, t.inputted, t.initial)
  <2>1. {o} \subseteq t.objs /\ t \in Tables
    BY DEF Works, Fitting, Fits
  <2> QED
    BY <2>1, Upserting DEF Shows
<1>2. c.op \notin Drops
  BY DEF Drops
<1>3. CASE c.op \in {"WriteNodes", "WriteRow"}
  <2> DEFINE N == StepPairs(u.nodes, {o} \X Column(c.with, "nodes"), {o})
             I == StepPairs(u.inputs, {o} \X Column(c.with, "inputs"), {o})
             O == StepPairs(u.outputs, {o} \X Column(c.with, "outputs"), {o})
             x == [u EXCEPT !.nodes = N]
             y == [x EXCEPT !.inputs = I]
             v == [y EXCEPT !.outputs = O]
  <2>1. w = v
    BY <1>3 DEF Result, WithRow
  <2>2. N \subseteq Steps \X Nodes /\ I \subseteq Steps \X Ios
    <3>1. u.nodes \subseteq Steps \X Nodes /\ u.inputs \subseteq Steps \X Ios
      BY <1>1, TablesAre
    <3>2. o \in Steps /\ Column(c.with, "nodes") \subseteq Nodes /\ Column(c.with, "inputs") \subseteq Ios
      BY <1>3 DEF Works, Fitting, Fits, IsRow
    <3> QED
      BY <3>1, <3>2 DEF StepPairs
  <2>3. /\ I = Instead(t.inputs, o, Column(c.with, "inputs"))
        /\ O = Instead(t.outputs, o, Column(c.with, "outputs"))
    <3>1. u.inputs = t.inputs /\ u.outputs = t.outputs
      BY <1>1 DEF Shows
    <3> HIDE DEF u
    <3> QED
      BY <3>1 DEF StepPairs, Instead
  <2> HIDE DEF u, N, I, O
  <2>4. x \in Tables /\ Shows(x, t.objs, t.loose, t.outputs, t.inputs, t.inputted, t.initial)
    <3>1. x \in Tables
      BY <1>1, <2>2, Changing DEF Lists
    <3>2. Shows(x, u.objs, u.loose, u.outputs, u.inputs, u.inputted, u.initial)
      BY <1>1, ColumnShows
    <3> QED
      BY <1>1, <3>1, <3>2 DEF Shows
  <2> HIDE DEF x
  <2>5. y \in Tables /\ Shows(y, t.objs, t.loose, t.outputs, I, t.inputted, t.initial)
    <3>1. y \in Tables
      BY <2>2, <2>4, Changing DEF Lists
    <3>2. Shows(y, x.objs, x.loose, x.outputs, I, x.inputted, x.initial)
      BY <2>4, ColumnShows
    <3> QED
      BY <2>4, <3>1, <3>2 DEF Shows
  <2> HIDE DEF y
  <2>6. Shows(v, t.objs, t.loose, O, I, t.inputted, t.initial)
    BY <2>5, ColumnShows DEF Shows
  <2> HIDE DEF v
  <2> QED
    BY <1>2, <1>3, <2>1, <2>3, <2>6 DEF Shown
<1>4. CASE c.op \in {"WriteInputs", "WriteOutputs"}
  <2> DEFINE I == StepPairs(u.inputs, {o} \X c.with, {o})
             O == StepPairs(u.outputs, {o} \X c.with, {o})
  <2>1. /\ c.op = "WriteInputs" => w = [u EXCEPT !.inputs = I]
        /\ c.op = "WriteOutputs" => w = [u EXCEPT !.outputs = O]
    BY DEF Result
  <2>2. I = Instead(t.inputs, o, c.with) /\ O = Instead(t.outputs, o, c.with)
    <3>1. u.inputs = t.inputs /\ u.outputs = t.outputs
      BY <1>1 DEF Shows
    <3> HIDE DEF u
    <3> QED
      BY <3>1 DEF StepPairs, Instead
  <2> HIDE DEF u, I, O
  <2>3. /\ Shows([u EXCEPT !.inputs = I], t.objs, t.loose, t.outputs, I, t.inputted, t.initial)
        /\ Shows([u EXCEPT !.outputs = O], t.objs, t.loose, O, t.inputs, t.inputted, t.initial)
    BY <1>1, ColumnShows DEF Shows
  <2> HIDE DEF w
  <2>4. /\ c.op = "WriteInputs" => Shows(w, t.objs, t.loose, t.outputs, I, t.inputted, t.initial)
        /\ c.op = "WriteOutputs" => Shows(w, t.objs, t.loose, O, t.inputs, t.inputted, t.initial)
    BY <2>1, <2>3
  <2> QED
    BY <1>2, <1>4, <2>2, <2>4 DEF Shown, w
<1> QED
  BY <1>3, <1>4

\* The steps that take IOs, or the initial inputs, written.
LEMMA ShownIos ==
    ASSUME NEW r, NEW b, NEW c, Works(r, b, c), c.op \in {"WriteUsers", "PushInitial", "PullInitial"}
    PROVE  Shown(c, Result(c))
<1> DEFINE w == Result(c)
<1>0. t \in Tables /\ c.op \notin Drops
  BY DEF Works, Drops
<1>1. CASE c.op = "WriteUsers"
  <2> DEFINE s == c.on
             added == Column(c.with, "added")
             u == Upserted(t, added)
             P == (u.inputted \cup {s} \X added) \ ({s} \X Column(c.with, "removed"))
  <2>1. w = [u EXCEPT !.inputted = P]
    BY <1>1 DEF Result, WithUsers
  <2>2. added \subseteq t.objs
    BY <1>1 DEF Works, Fitting, Fits
  <2>3. u \in Tables /\ Shows(u, t.objs, t.loose, t.outputs, t.inputs, t.inputted, t.initial)
    <3> HIDE DEF added
    <3> QED
      BY <1>0, <2>2, Upserting DEF Shows
  <2>4. P = (t.inputted \cup {s} \X added) \ ({s} \X Column(c.with, "removed"))
    BY <2>3 DEF Shows
  <2> HIDE DEF u, P, w
  <2>5. Shows(w, t.objs, t.loose, t.outputs, t.inputs, P, t.initial)
    BY <2>1, <2>3, ColumnShows DEF Shows
  <2> QED
    BY <1>1, <1>0, <2>4, <2>5 DEF Shown, w
<1>2. CASE c.op \in {"PushInitial", "PullInitial"}
  <2>1. /\ c.op = "PushInitial" => w = [t EXCEPT !.initial = t.initial \cup {c.on}]
        /\ c.op = "PullInitial" => w = [t EXCEPT !.initial = t.initial \ {c.on}]
    BY DEF Result
  <2>2. \A P : Shows([t EXCEPT !.initial = P], t.objs, t.loose, t.outputs, t.inputs, t.inputted, P)
    BY <1>0, ColumnShows
  <2> HIDE DEF w
  <2>3. /\ c.op = "PushInitial" =>
             Shows(w, t.objs, t.loose, t.outputs, t.inputs, t.inputted, t.initial \cup {c.on})
        /\ c.op = "PullInitial" =>
             Shows(w, t.objs, t.loose, t.outputs, t.inputs, t.inputted, t.initial \ {c.on})
    BY <2>1, <2>2
  <2> QED
    BY <1>0, <1>2, <2>3 DEF Shown, w
<1> QED
  BY <1>1, <1>2

\* Calls that only read.
ReadOps ==
    {"CountFlows", "ReadSteps", "FindIndex", "ReadStep", "ReadForNodes", "FindOutputs", "ReadInputs",
     "FindIos", "ReadToPush", "ReadToPull", "ReadIo", "ReadUsers"}

\* What a call makes of the columns, and that a read leaves the tables.
LEMMA CallShown ==
    ASSUME NEW r, NEW b, NEW c, Works(r, b, c)
    PROVE  Shown(c, Result(c)) /\ (c.op \in ReadOps => Result(c) = t)
<1>1. c.op \in ReadOps => Result(c) = t
  BY DEF Result, ReadOps
<1> DEFINE writing ==
             Drops \cup {"InsertFlow", "InsertStep", "InsertIo"}
               \cup {"KeepMain", "WriteNodes", "WriteRow", "WriteInputs", "WriteOutputs"}
               \cup {"WriteUsers", "PushInitial", "PullInitial"}
<1>2. CASE c.op \in writing
  BY <1>1, <1>2, ShownRows, ShownKeep, ShownStep, ShownIos
<1>3. CASE c.op \notin writing
  BY <1>1, <1>3 DEF Shown
<1> QED
  BY <1>2, <1>3

-----------------------------------------------------------------------------
(* What belongs together still does after a call.                          *)

\* Steps list IOs, and IOs are not steps.
LEMMA PairsTyped ==
    ASSUME NEW u \in Tables
    PROVE  /\ \A x \in u.outputs \cup u.inputs \cup u.inputted :
                x[1] \in Steps /\ x[2] \in Ios /\ x = <<x[1], x[2]>> /\ x[1] \notin Ios /\ x[2] \notin Steps
           /\ u.loose \subseteq Ios /\ u.initial \subseteq Ios
<1>1. u.outputs \cup u.inputs \cup u.inputted \subseteq Steps \X Ios
  BY TablesAre
<1>2. \A x \in Steps \X Ios : x[1] \in Steps /\ x[2] \in Ios /\ x = <<x[1], x[2]>>
  OBVIOUS
<1>3. Steps \cap Ios = {}
  BY FlowsAssumption
<1> QED
  BY <1>1, <1>2, <1>3, TablesAre

\* A flow or a step deleted: its outputs and inputs go with it.
LEMMA WiresDropRow ==
    ASSUME NEW r, NEW b, NEW c, Works(r, b, c), c.op \in {"DropFlow", "DropStep"},
           NEW P, Wires(t, gone, P)
    PROVE  Wires(Result(c), Forgotten(c), P)
<1> DEFINE o == c.on
           v == Result(c)
           g == Forgotten(c)
<1>1. Shows(v, t.objs \ {o}, t.loose \ {o}, Without(t.outputs, o), Without(t.inputs, o),
            Unknown(t.inputted, o), t.initial)
  BY CallShown DEF Shown, Drops
<1>2. o \notin Ios /\ t \in Tables
  <2>1. c.op = "DropFlow" => r.kind = "DeleteFlow" /\ o = r.on
    BY WhoWrites DEF Works, Fitting, Fits, OwnOps
  <2>2. c.op = "DropStep" => o \in Steps
    BY DEF Works, Fitting, Fits
  <2> QED
    BY <2>1, <2>2, Kinds, FlowsAssumption DEF Works
<1>3. g = gone \cup {o}
  BY DEF Forgotten
<1> HIDE DEF o, v, g
<1>4. /\ \A x \in t.outputs \cup t.inputs \cup t.inputted : x[2] # o
      /\ v.inputted = t.inputted
  <2>1. \A x \in t.outputs \cup t.inputs \cup t.inputted : x[2] # o
    BY <1>2, PairsTyped
  <2> QED
    BY <1>1, <2>1 DEF Shows, Unknown
<1>5. Own(v, g, P)
  BY <1>1, <1>3, <1>4 DEF Wires, Own, Shows, Without
<1>6. ListedThere(v, P)
  BY <1>1, <1>4 DEF Wires, ListedThere, Shows, Without
<1>7. ThereListed(v, g, P)
  BY <1>1, <1>2, <1>3 DEF Wires, ThereListed, Shows, Without
<1>8. Initials(v, P)
  BY <1>1, <1>2 DEF Wires, Initials, Shows
<1>9. TakenKnown(v, P)
  BY <1>1, <1>4 DEF Wires, TakenKnown, Knows, Shows, Without
<1> QED
  BY <1>5, <1>6, <1>7, <1>8, <1>9 DEF Wires, v, g

\* What the request of a call that drops IO i has to do with it.
DropsWell(r, i) ==
    /\ \A x \in t.outputs : x[2] = i =>
         Cuts(r, x) \/ Clears(r, x[1]) \/ i \notin t.objs \ t.loose
    /\ StepOf[i] = None => Removes(r, i)

\* An IO deleted: whoever lists it is about not to, and who takes it may.
LEMMA WiresDropIo ==
    ASSUME NEW r, NEW b, NEW c, Works(r, b, c), c.op = "DropIo",
           NEW P, Wires(t, gone, P), r \in P, DropsWell(r, c.on)
    PROVE  Wires(Result(c), Forgotten(c), P)
<1> DEFINE i == c.on
           v == Result(c)
           g == Forgotten(c)
<1>1. Shows(v, t.objs \ {i}, t.loose \ {i}, Without(t.outputs, i), Without(t.inputs, i),
            Unknown(t.inputted, i), t.initial)
  BY CallShown DEF Shown, Drops
<1>2. i \in Ios /\ t \in Tables
  BY DEF Works, Fitting, Fits
<1>3. g = gone \cup {i}
  BY DEF Forgotten
<1>d. DropsWell(r, i)
  OBVIOUS
<1> HIDE DEF i, v, g
<1>4. v.outputs = t.outputs /\ v.inputs = t.inputs
  <2>1. \A x \in t.outputs \cup t.inputs : x[1] # i
    BY <1>2, PairsTyped
  <2> QED
    BY <1>1, <2>1 DEF Shows, Without
<1>5. Own(v, g, P)
  <2>1. \A x \in t.outputs \cup t.inputs : x[1] # i
    BY <1>2, PairsTyped
  <2> QED
    BY <1>1, <1>3, <1>4, <2>1 DEF Wires, Own, Shows
<1>6. ListedThere(v, P)
  <2> SUFFICES ASSUME NEW x \in t.outputs
               PROVE  \/ x[2] \in v.objs \ v.loose
                      \/ \E q \in P : Cuts(q, x) \/ (x[2] \notin v.objs /\ Clears(q, x[1]))
    BY <1>4 DEF ListedThere
  <2>1. \/ x[2] \in t.objs \ t.loose
        \/ \E q \in P : Cuts(q, x) \/ (x[2] \notin t.objs /\ Clears(q, x[1]))
    BY DEF Wires, ListedThere
  <2>2. CASE x[2] # i
    BY <1>1, <2>1, <2>2 DEF Shows
  <2>3. CASE x[2] = i
    <3>1. x[2] \notin v.objs
      BY <1>1, <2>3 DEF Shows
    <3>2. Cuts(r, x) \/ Clears(r, x[1]) \/ x[2] \notin t.objs \ t.loose
      BY <1>d, <2>3 DEF DropsWell
    <3> QED
      BY <2>1, <3>1, <3>2
  <2> QED
    BY <2>2, <2>3
<1>7. ThereListed(v, g, P)
  BY <1>1, <1>3, <1>4 DEF Wires, ThereListed, Shows
<1>8. Initials(v, P)
  <2>1. StepOf[i] = None => Removes(r, i)
    BY <1>d DEF DropsWell
  <2> QED
    BY <1>1, <2>1 DEF Wires, Initials, Shows
<1>9. TakenKnown(v, P)
  BY <1>1, <1>4 DEF Wires, TakenKnown, Knows, Shows, Unknown
<1> QED
  BY <1>5, <1>6, <1>7, <1>8, <1>9 DEF Wires, v, g

\* A main IO kept: no step lists it any more, and it knows who takes it.
KeepsWell(r, P, c) ==
    /\ StepOf[c.on] # None
    /\ \A x \in t.outputs : x[2] = c.on => Cuts(r, x)
    /\ \A x \in t.inputs : x[2] = c.on /\ SameNode(x) => x[1] \in c.with \/ \E q \in P : Untakes(q, x)

\* What belongs together still does.
LEMMA WiresKeep ==
    ASSUME NEW r, NEW b, NEW c, Works(r, b, c), c.op = "KeepMain",
           NEW P, Wires(t, gone, P), r \in P, KeepsWell(r, P, c)
    PROVE  Wires(Result(c), Forgotten(c), P)
<1> DEFINE i == c.on
           v == Result(c)
           g == Forgotten(c)
           S == c.with
<1>1. Shows(v, t.objs \cup {i}, t.loose \cup {i}, Without(t.outputs, i), Without(t.inputs, i),
            Unknown(t.inputted, i) \cup S \X {i}, t.initial)
  BY CallShown DEF Shown, Drops
<1>2. i \in Ios /\ t \in Tables
  BY DEF Works, Fitting, Fits
<1>3. g = gone \ {i}
  BY DEF Forgotten
<1>d. /\ StepOf[i] # None
      /\ \A x \in t.outputs : x[2] = i => Cuts(r, x)
      /\ \A x \in t.inputs : x[2] = i /\ SameNode(x) => x[1] \in S \/ \E q \in P : Untakes(q, x)
  BY DEF KeepsWell
<1> HIDE DEF i, v, g, S
<1>4. v.outputs = t.outputs /\ v.inputs = t.inputs
  <2>1. \A x \in t.outputs \cup t.inputs : x[1] # i
    BY <1>2, PairsTyped
  <2> QED
    BY <1>1, <2>1 DEF Shows, Without
<1>5. Own(v, g, P)
  BY <1>1, <1>3, <1>4 DEF Wires, Own, Shows
<1>6. ListedThere(v, P)
  <2> SUFFICES ASSUME NEW x \in t.outputs
               PROVE  \/ x[2] \in v.objs \ v.loose
                      \/ \E q \in P : Cuts(q, x) \/ (x[2] \notin v.objs /\ Clears(q, x[1]))
    BY <1>4 DEF ListedThere
  <2>1. \/ x[2] \in t.objs \ t.loose
        \/ \E q \in P : Cuts(q, x) \/ (x[2] \notin t.objs /\ Clears(q, x[1]))
    BY DEF Wires, ListedThere
  <2>2. CASE x[2] # i
    BY <1>1, <2>1, <2>2 DEF Shows
  <2>3. CASE x[2] = i
    BY <1>d, <2>3
  <2> QED
    BY <2>2, <2>3
<1>7. ThereListed(v, g, P)
  <2>1. \A s : s # i /\ s \in gone => s \in g
    BY <1>3
  <2>2. \A j \in Ios : StepOf[j] # None => StepOf[j] # i
    BY <1>2, FlowsAssumption, BranchRowAssumption
  <2> QED
    BY <1>1, <1>4, <2>1, <2>2 DEF Wires, ThereListed, Shows
<1>8. Initials(v, P)
  BY <1>1, <1>d DEF Wires, Initials, Shows
<1>9. TakenKnown(v, P)
  <2> SUFFICES ASSUME NEW x \in t.inputs, x[2] \in v.objs, SameNode(x)
               PROVE  Knows(v, P, x)
    BY <1>4 DEF TakenKnown
  <2>1. CASE x[2] # i
    BY <1>1, <2>1 DEF Wires, TakenKnown, Knows, Shows, Unknown
  <2>2. CASE x[2] = i
    <3>1. x = <<x[1], i>>
      BY <1>2, <2>2, PairsTyped
    <3> QED
      BY <1>1, <1>d, <2>2, <3>1 DEF Knows, Shows
  <2> QED
    BY <2>1, <2>2
<1> QED
  BY <1>5, <1>6, <1>7, <1>8, <1>9 DEF Wires, v, g

\* A flow, a step or an IO inserted: there was nothing of it.
InsertsWell(r, c) ==
    /\ c.op = "InsertStep" => c.on \notin t.objs \cup gone
    /\ c.op = "InsertIo" => c.on \notin t.objs \cup gone /\ Removes(r, c.on)

\* Nothing else has to do with it yet.
LEMMA WiresInsert ==
    ASSUME NEW r, NEW b, NEW c, Works(r, b, c), c.op \in {"InsertFlow", "InsertStep", "InsertIo"},
           NEW P, Wires(t, gone, P), r \in P, InsertsWell(r, c)
    PROVE  Wires(Result(c), Forgotten(c), P)
<1> DEFINE o == c.on
           v == Result(c)
           g == Forgotten(c)
<1>1. Shows(v, t.objs \cup {o}, t.loose \ {o}, Without(t.outputs, o), Without(t.inputs, o),
            Unknown(t.inputted, o), t.initial)
  BY CallShown DEF Shown
<1>2. /\ t \in Tables
      /\ c.op = "InsertFlow" => o \in Flows
      /\ c.op = "InsertStep" => o \in Steps /\ o \notin t.objs \cup gone
      /\ c.op = "InsertIo" => o \in Ios /\ o \notin t.objs \cup gone /\ Removes(r, o)
  <2>1. o = r.on /\ r \in RequestSet /\ t \in Tables
    BY DEF Works, Fitting, Fits, OwnOps
  <2>2. /\ c.op = "InsertFlow" => r.kind = "CreateFlow"
        /\ c.op = "InsertStep" => r.kind = "CreateStep"
        /\ c.op = "InsertIo" => r.kind = "CreateIo"
    BY WhoWrites
  <2> QED
    BY <2>1, <2>2, Kinds DEF InsertsWell
<1>3. g = gone \ {o}
  BY DEF Forgotten
<1>4. /\ Flows \cap (Steps \cup Ios) = {} /\ Steps \cap Ios = {}
      /\ \A i \in Ios : StepOf[i] \in Steps \cup {None} /\ None \notin Steps
  BY FlowsAssumption, BranchRowAssumption DEF Objects
<1>5. c.op \in {"InsertFlow", "InsertStep", "InsertIo"}
  OBVIOUS
<1> DEFINE op == c.op
<1> HIDE DEF o, v, g
<1>6. v.outputs = t.outputs /\ v.inputs = t.inputs
  <2>1. \A x \in t.outputs \cup t.inputs : x[1] \in Steps /\ x[1] \in t.objs
    BY <1>2, PairsTyped DEF Wires, Own
  <2>2. \A x \in t.outputs \cup t.inputs : x[1] # o
    BY <1>2, <1>4, <1>5, <2>1
  <2> QED
    BY <1>1, <2>2 DEF Shows, Without
<1>7. Own(v, g, P)
  BY <1>1, <1>3, <1>6 DEF Wires, Own, Shows
<1>8. ListedThere(v, P)
  <2> SUFFICES ASSUME NEW x \in t.outputs
               PROVE  \/ x[2] \in v.objs \ v.loose
                      \/ \E q \in P : Cuts(q, x) \/ (x[2] \notin v.objs /\ Clears(q, x[1]))
    BY <1>6 DEF ListedThere
  <2>1. \/ x[2] \in t.objs \ t.loose
        \/ \E q \in P : Cuts(q, x) \/ (x[2] \notin t.objs /\ Clears(q, x[1]))
    BY DEF Wires, ListedThere
  <2> QED
    BY <1>1, <2>1 DEF Shows
<1>9. ThereListed(v, g, P)
  <2> SUFFICES ASSUME NEW i \in Ios \cap v.objs, StepOf[i] # None, i \notin v.loose
               PROVE  <<StepOf[i], i>> \in t.outputs \/ StepOf[i] \in g \/ \E q \in P : Removes(q, i)
    BY <1>6 DEF ThereListed
  <2>1. CASE i = o
    BY <1>2, <1>4, <1>5, <2>1
  <2>2. CASE i # o
    <3>1. i \in t.objs /\ i \notin t.loose
      BY <1>1, <2>2 DEF Shows
    <3>2. <<StepOf[i], i>> \in t.outputs \/ StepOf[i] \in gone \/ \E q \in P : Removes(q, i)
      BY <3>1 DEF Wires, ThereListed
    <3>3. StepOf[i] \in gone => StepOf[i] # o
      BY <1>2, <1>4, <1>5
    <3> QED
      BY <1>3, <3>2, <3>3
  <2> QED
    BY <2>1, <2>2
<1>10. Initials(v, P)
  <2> SUFFICES ASSUME NEW i \in Ios, StepOf[i] = None
               PROVE  (i \in v.initial <=> i \in v.objs) \/ \E q \in P : Removes(q, i)
    BY DEF Initials
  <2>1. (i \in t.initial <=> i \in t.objs) \/ \E q \in P : Removes(q, i)
    BY DEF Wires, Initials
  <2>2. i = o => Removes(r, i)
    BY <1>2, <1>4, <1>5
  <2> QED
    BY <1>1, <2>1, <2>2 DEF Shows
<1>11. TakenKnown(v, P)
  <2> SUFFICES ASSUME NEW x \in t.inputs, x[2] \in v.objs, SameNode(x)
               PROVE  Knows(v, P, x)
    BY <1>6 DEF TakenKnown
  <2>1. x[2] \in Ios /\ x[2] \in t.objs \cup gone
    BY <1>2, PairsTyped DEF Wires, Own
  <2>2. x[2] # o
    BY <1>2, <1>4, <1>5, <2>1
  <2>3. Knows(t, P, x)
    BY <1>1, <2>2 DEF Wires, TakenKnown, Shows
  <2> QED
    BY <1>1, <2>2, <2>3 DEF Knows, Shows, Unknown
<1> QED
  BY <1>7, <1>8, <1>9, <1>10, <1>11 DEF Wires, v, g

\* The rows of v are those of t.
SameRows(v) == v.objs = t.objs /\ v.loose = t.loose

\* Steps list less than before; r takes out what is not there any more, or is
\* about to be.
LEMMA WiresLess ==
    ASSUME NEW P, Wires(t, gone, P), NEW v, SameRows(v), v.inputted = t.inputted, v.initial = t.initial,
           v.inputs \subseteq t.inputs, v.outputs \subseteq t.outputs,
           \A x \in t.outputs \ v.outputs :
             x[2] \notin t.objs \ t.loose \/ \E q \in P : Removes(q, x[2])
    PROVE  Wires(v, gone, P)
<1>1. Own(v, gone, P)
  BY DEF Wires, Own, SameRows
<1>2. ListedThere(v, P)
  BY DEF Wires, ListedThere, SameRows
<1>3. ThereListed(v, gone, P)
  <2> SUFFICES ASSUME NEW i \in Ios \cap v.objs, StepOf[i] # None, i \notin v.loose
               PROVE  <<StepOf[i], i>> \in v.outputs \/ StepOf[i] \in gone \/ \E q \in P : Removes(q, i)
    BY DEF ThereListed
  <2>1. i \in t.objs /\ i \notin t.loose
    BY DEF SameRows
  <2>2. <<StepOf[i], i>> \in t.outputs \/ StepOf[i] \in gone \/ \E q \in P : Removes(q, i)
    BY <2>1 DEF Wires, ThereListed
  <2> DEFINE x == <<StepOf[i], i>>
  <2>3. x[2] = i
    OBVIOUS
  <2> HIDE DEF x
  <2>4. x \in t.outputs => x \in v.outputs \/ \E q \in P : Removes(q, i)
    BY <2>1, <2>3
  <2> QED
    BY <2>2, <2>4 DEF x
<1>4. Initials(v, P)
  BY DEF Wires, Initials, SameRows
<1>5. TakenKnown(v, P)
  BY DEF Wires, TakenKnown, Knows, SameRows
<1> QED
  BY <1>1, <1>2, <1>3, <1>4, <1>5 DEF Wires

\* A row of a step written with no more than it had.
RowsWell(c) ==
    /\ Column(c.with, "inputs") \subseteq Of(t.inputs, c.on)
    /\ Column(c.with, "outputs") \subseteq Of(t.outputs, c.on)
    /\ \A i \in Of(t.outputs, c.on) \ Column(c.with, "outputs") : i \notin t.objs \ t.loose

\* What the row does not list any more is not there.
LEMMA WiresRow ==
    ASSUME NEW r, NEW b, NEW c, Works(r, b, c), c.op \in {"WriteNodes", "WriteRow"},
           NEW P, Wires(t, gone, P), RowsWell(c)
    PROVE  Wires(Result(c), Forgotten(c), P)
<1> DEFINE o == c.on
           v == Result(c)
           ins == Column(c.with, "inputs")
           outs == Column(c.with, "outputs")
<1>1. Shows(v, t.objs, t.loose, Instead(t.outputs, o, outs), Instead(t.inputs, o, ins), t.inputted,
            t.initial)
  BY CallShown DEF Shown
<1>2. /\ ins \subseteq Of(t.inputs, o) /\ outs \subseteq Of(t.outputs, o)
      /\ \A i \in Of(t.outputs, o) \ outs : i \notin t.objs \ t.loose
  BY DEF RowsWell
<1>3. Forgotten(c) = gone /\ t \in Tables
  BY DEF Forgotten, Works
<1> HIDE DEF o, v, ins, outs
<1>4. v.inputs \subseteq t.inputs /\ v.outputs \subseteq t.outputs
  <2>1. \A i \in ins : <<o, i>> \in t.inputs
    BY <1>2, <1>3, PairsTyped DEF Of
  <2>2. \A i \in outs : <<o, i>> \in t.outputs
    BY <1>2, <1>3, PairsTyped DEF Of
  <2> QED
    BY <1>1, <2>1, <2>2 DEF Shows, Instead
<1>5. ASSUME NEW x \in t.outputs, x \notin v.outputs
      PROVE  x[2] \notin t.objs \ t.loose
  <2>1. x = <<x[1], x[2]>>
    BY <1>3, PairsTyped
  <2>2. x[1] = o /\ x[2] \notin outs
    BY <1>1, <1>5, <2>1 DEF Shows, Instead
  <2>3. x[2] \in Of(t.outputs, o)
    BY <2>2 DEF Of
  <2> QED
    BY <1>2, <2>2, <2>3
<1>6. Wires(v, gone, P)
  BY <1>1, <1>4, <1>5, WiresLess DEF Shows, SameRows
<1> QED
  BY <1>3, <1>6 DEF v

\* The outputs of a step written, with the IO of the request or without.
OutputsWell(r, c) ==
    \/ /\ c.with = Of(t.outputs, c.on) \cup {r.on}
       /\ StepOf[r.on] = c.on /\ r.on \in t.objs \ t.loose
    \/ c.with = Of(t.outputs, c.on) \ {r.on} /\ Removes(r, r.on)

\* Nothing else is listed than before, but for that IO.
LEMMA WiresOutputs ==
    ASSUME NEW r, NEW b, NEW c, Works(r, b, c), c.op = "WriteOutputs",
           NEW P, Wires(t, gone, P), r \in P, OutputsWell(r, c)
    PROVE  Wires(Result(c), Forgotten(c), P)
<1> DEFINE s == c.on
           v == Result(c)
           i == r.on
           S == c.with
<1>1. Shows(v, t.objs, t.loose, Instead(t.outputs, s, S), t.inputs, t.inputted, t.initial)
  BY CallShown DEF Shown
<1>2. \/ S = Of(t.outputs, s) \cup {i} /\ StepOf[i] = s /\ i \in t.objs \ t.loose
      \/ S = Of(t.outputs, s) \ {i} /\ Removes(r, i)
  BY DEF OutputsWell
<1>3. Forgotten(c) = gone /\ t \in Tables /\ s \in t.objs
  BY DEF Forgotten, Works, Fitting, Fits
<1> HIDE DEF s, v, i, S
<1>4. \A j : <<s, j>> \in t.outputs <=> j \in Of(t.outputs, s)
  BY <1>3, PairsTyped DEF Of
<1>5. \A x \in t.outputs : x = <<x[1], x[2]>>
  BY <1>3, PairsTyped
<1>6. CASE S = Of(t.outputs, s) \cup {i} /\ StepOf[i] = s /\ i \in t.objs \ t.loose
  <2>1. v.outputs = t.outputs \cup {<<s, i>>}
    <3>1. \A x \in t.outputs : x[1] = s => x[2] \in S
      BY <1>6 DEF Of
    <3>2. \A j \in S : j = i \/ <<s, j>> \in t.outputs
      BY <1>4, <1>6
    <3>3. i \in S
      BY <1>6
    <3> QED
      BY <1>1, <1>5, <3>1, <3>2, <3>3 DEF Shows, Instead
  <2>2. Own(v, gone, P)
    BY <1>1, <1>3, <1>6, <2>1 DEF Wires, Own, Shows
  <2>3. ListedThere(v, P)
    BY <1>1, <1>6, <2>1 DEF Wires, ListedThere, Shows
  <2>4. ThereListed(v, gone, P)
    BY <1>1, <2>1 DEF Wires, ThereListed, Shows
  <2>5. Initials(v, P)
    BY <1>1 DEF Wires, Initials, Shows
  <2>6. TakenKnown(v, P)
    BY <1>1 DEF Wires, TakenKnown, Knows, Shows
  <2> QED
    BY <1>3, <2>2, <2>3, <2>4, <2>5, <2>6 DEF Wires, v
<1>7. CASE S = Of(t.outputs, s) \ {i} /\ Removes(r, i)
  <2>1. v.outputs \subseteq t.outputs
    BY <1>1, <1>4, <1>7 DEF Shows, Instead
  <2>2. ASSUME NEW x \in t.outputs, x \notin v.outputs
        PROVE  x[2] = i
    <3>1. x[1] = s /\ x[2] \notin S
      BY <1>1, <1>5, <2>2 DEF Shows, Instead
    <3>2. x[2] \in Of(t.outputs, s)
      BY <3>1 DEF Of
    <3> QED
      BY <1>7, <3>1, <3>2
  <2>3. Wires(v, gone, P)
    <3>1. \A x \in t.outputs \ v.outputs : Removes(r, x[2])
      BY <1>7, <2>2
    <3> QED
      BY <1>1, <2>1, <3>1, WiresLess DEF Shows, SameRows
  <2> QED
    BY <1>3, <2>3 DEF v
<1> QED
  BY <1>2, <1>6, <1>7

\* The inputs of a step written: all of them know of it.
InputsWell(r, P, c) ==
    /\ c.with \subseteq Ios /\ c.with = r.with /\ r.kind = "UpdateInputs"
    /\ \A i \in c.with \cap t.objs : SameNode(<<c.on, i>>) => Knows(t, P, <<c.on, i>>)

\* What the step takes now knows of it.
LEMMA WiresInputs ==
    ASSUME NEW r, NEW b, NEW c, Works(r, b, c), c.op = "WriteInputs",
           NEW P, Wires(t, gone, P), r \in P, InputsWell(r, P, c)
    PROVE  Wires(Result(c), Forgotten(c), P)
<1> DEFINE s == c.on
           v == Result(c)
           S == c.with
<1>1. Shows(v, t.objs, t.loose, t.outputs, Instead(t.inputs, s, S), t.inputted, t.initial)
  BY CallShown DEF Shown
<1>2. \A i \in S \cap t.objs : SameNode(<<s, i>>) => Knows(t, P, <<s, i>>)
  BY DEF InputsWell
<1>3. Forgotten(c) = gone /\ t \in Tables /\ s \in t.objs
  BY DEF Forgotten, Works, Fitting, Fits
<1>4. S \subseteq t.objs \cup gone
  BY DEF InputsWell, Wires, Own
<1> HIDE DEF s, v, S
<1>5. \A x \in v.inputs : x \in t.inputs \/ (x[1] = s /\ x[2] \in S /\ x = <<s, x[2]>>)
  BY <1>1 DEF Shows, Instead
<1>6. Own(v, gone, P)
  BY <1>1, <1>3, <1>4, <1>5 DEF Wires, Own, Shows
<1>7. ListedThere(v, P)
  BY <1>1 DEF Wires, ListedThere, Shows
<1>8. ThereListed(v, gone, P)
  BY <1>1 DEF Wires, ThereListed, Shows
<1>9. Initials(v, P)
  BY <1>1 DEF Wires, Initials, Shows
<1>10. TakenKnown(v, P)
  <2> SUFFICES ASSUME NEW x \in v.inputs, x[2] \in v.objs, SameNode(x)
               PROVE  Knows(v, P, x)
    BY DEF TakenKnown
  <2>1. x[2] \in t.objs
    BY <1>1 DEF Shows
  <2>2. CASE x \in t.inputs
    BY <1>1, <2>1, <2>2 DEF Wires, TakenKnown, Knows, Shows
  <2>3. CASE x \notin t.inputs
    <3>1. x = <<s, x[2]>> /\ x[2] \in S
      BY <1>5, <2>3
    <3>2. Knows(t, P, x)
      BY <1>2, <2>1, <3>1
    <3> QED
      BY <1>1, <3>2 DEF Knows, Shows
  <2> QED
    BY <2>2, <2>3
<1> QED
  BY <1>3, <1>6, <1>7, <1>8, <1>9, <1>10 DEF Wires, v

\* The IOs that a step is to take no more forget it.
UsersWell(r, c) == \A i \in Column(c.with, "removed") : Untakes(r, <<c.on, i>>)

\* The others know of the step.
LEMMA WiresUsers ==
    ASSUME NEW r, NEW b, NEW c, Works(r, b, c), c.op = "WriteUsers",
           NEW P, Wires(t, gone, P), r \in P, UsersWell(r, c)
    PROVE  Wires(Result(c), Forgotten(c), P)
<1> DEFINE s == c.on
           v == Result(c)
           added == Column(c.with, "added")
           removed == Column(c.with, "removed")
<1>1. Shows(v, t.objs, t.loose, t.outputs, t.inputs,
            (t.inputted \cup {s} \X added) \ ({s} \X removed), t.initial)
  BY CallShown DEF Shown
<1>2. \A i \in removed : Untakes(r, <<s, i>>)
  BY DEF UsersWell
<1>3. Forgotten(c) = gone
  BY DEF Forgotten
<1> HIDE DEF s, v, added, removed
<1>4. /\ Own(v, gone, P) /\ ListedThere(v, P) /\ ThereListed(v, gone, P) /\ Initials(v, P)
  BY <1>1 DEF Wires, Own, ListedThere, ThereListed, Initials, Shows
<1>5. TakenKnown(v, P)
  <2> SUFFICES ASSUME NEW x \in t.inputs, x[2] \in t.objs, SameNode(x)
               PROVE  Knows(v, P, x)
    BY <1>1 DEF TakenKnown, Shows
  <2>1. Knows(t, P, x)
    BY DEF Wires, TakenKnown
  <2>2. CASE x \in {s} \X removed
    <3>1. Untakes(r, x)
      BY <1>2, <2>2
    <3> QED
      BY <3>1 DEF Knows
  <2>3. CASE x \notin {s} \X removed
    BY <1>1, <2>1, <2>3 DEF Knows, Shows
  <2> QED
    BY <2>2, <2>3
<1> QED
  BY <1>3, <1>4, <1>5 DEF Wires, v

\* The initial inputs written.
LEMMA WiresInitial ==
    ASSUME NEW r, NEW b, NEW c, Works(r, b, c), c.op \in {"PushInitial", "PullInitial"},
           NEW P, Wires(t, gone, P), r \in P, StepOf[c.on] = None, Removes(r, c.on)
    PROVE  Wires(Result(c), Forgotten(c), P)
<1> DEFINE i == c.on
           v == Result(c)
<1>1. \E S : /\ S \subseteq t.initial \cup {i} /\ t.initial \subseteq S \cup {i}
             /\ Shows(v, t.objs, t.loose, t.outputs, t.inputs, t.inputted, S)
  <2>1. CASE c.op = "PushInitial"
    <3>1. Shows(v, t.objs, t.loose, t.outputs, t.inputs, t.inputted, t.initial \cup {i})
      BY <2>1, CallShown DEF Shown
    <3> HIDE DEF v, i
    <3> QED
      BY <3>1
  <2>2. CASE c.op = "PullInitial"
    <3>1. Shows(v, t.objs, t.loose, t.outputs, t.inputs, t.inputted, t.initial \ {i})
      BY <2>2, CallShown DEF Shown
    <3> HIDE DEF v, i
    <3> QED
      BY <3>1
  <2> QED
    BY <2>1, <2>2
<1>2. Forgotten(c) = gone
  BY DEF Forgotten
<1>3. StepOf[i] = None /\ Removes(r, i)
  OBVIOUS
<1> HIDE DEF i, v
<1>4. /\ v.initial \subseteq t.initial \cup {i} /\ t.initial \subseteq v.initial \cup {i}
      /\ SameRows(v) /\ v.outputs = t.outputs /\ v.inputs = t.inputs /\ v.inputted = t.inputted
  BY <1>1 DEF Shows, SameRows
<1>5. Own(v, gone, P)
  BY <1>3, <1>4 DEF Wires, Own, SameRows
<1>6. ListedThere(v, P) /\ ThereListed(v, gone, P) /\ TakenKnown(v, P)
  BY <1>4 DEF Wires, ListedThere, ThereListed, TakenKnown, Knows, SameRows
<1>7. Initials(v, P)
  BY <1>3, <1>4 DEF Wires, Initials, SameRows
<1> QED
  BY <1>2, <1>5, <1>6, <1>7 DEF Wires, v

-----------------------------------------------------------------------------
(* The order of what is left.                                              *)

EarlyOps == PullOps \cup {"ReadIo", "FindOutputs"}

\* What is in line still is after the first call.
LEMMA InLineRest ==
    ASSUME NEW A, NEW calls \in Seq(A), calls # << >>, InLine(calls)
    PROVE  /\ InLine(Tail(calls))
           /\ Head(calls).op # "WriteRow" => \A d \in Range(calls) : d.op # "WriteRow"
           /\ \A d \in Range(Tail(calls)) : d.op \notin EarlyOps
           /\ Head(calls).op = "WriteNodes" => Tail(calls) = << >>
<1> DEFINE n == Len(calls)
           rest == Tail(calls)
<1>1. PICK m \in 0 .. n : \A k \in 1 .. n :
        /\ calls[k].op = "WriteRow" <=> k <= m
        /\ calls[k].op \in EarlyOps => k = 1
        /\ calls[k].op = "WriteNodes" => k = n
  BY DEF InLine, EarlyOps
<1>2. /\ n \in Nat /\ n >= 1 /\ Head(calls) = calls[1] /\ 1 \in 1 .. n
      /\ rest \in Seq(A) /\ Len(rest) = n - 1 /\ \A k \in 1 .. (n - 1) : rest[k] = calls[k + 1]
      /\ DOMAIN calls = 1 .. n /\ DOMAIN rest = 1 .. (n - 1)
  OBVIOUS
<1>0. n = 1 => rest = << >>
  BY <1>2
<1> HIDE DEF n, rest
<1>3. InLine(rest)
  <2> DEFINE j == IF m = 0 THEN 0 ELSE m - 1
  <2>1. j \in 0 .. (n - 1)
    BY <1>2
  <2>2. ASSUME NEW k \in 1 .. (n - 1)
        PROVE  /\ rest[k].op = "WriteRow" <=> k <= j
               /\ rest[k].op \in EarlyOps => k = 1
               /\ rest[k].op = "WriteNodes" => k = n - 1
    <3>1. k + 1 \in 1 .. n /\ k + 1 # 1 /\ (k + 1 <= m <=> k <= j) /\ (k + 1 = n <=> k = n - 1)
      BY <1>2
    <3>2. rest[k] = calls[k + 1]
      BY <1>2
    <3> HIDE DEF j
    <3> QED
      BY <1>1, <3>1, <3>2
  <2> HIDE DEF j
  <2>3. Len(rest) = n - 1
    BY <1>2
  <2> QED
    BY <2>1, <2>2, <2>3 DEF InLine, EarlyOps
<1>4. ASSUME Head(calls).op # "WriteRow"
      PROVE  \A d \in Range(calls) : d.op # "WriteRow"
  <2>1. m = 0
    BY <1>1, <1>2, <1>4
  <2>2. \A k \in 1 .. n : calls[k].op # "WriteRow"
    BY <1>1, <2>1
  <2> QED
    BY <1>2, <2>2 DEF Range
<1>5. \A d \in Range(rest) : d.op \notin EarlyOps
  <2>1. \A k \in 1 .. (n - 1) : k + 1 \in 1 .. n /\ k + 1 # 1
    BY <1>2
  <2>2. \A k \in 1 .. (n - 1) : rest[k].op \notin EarlyOps
    BY <1>1, <1>2, <2>1
  <2> QED
    BY <1>2, <2>2 DEF Range
<1>6. Head(calls).op = "WriteNodes" => rest = << >>
  BY <1>0, <1>1, <1>2
<1> QED
  BY <1>3, <1>4, <1>5, <1>6 DEF rest

\* Calls that a call leads to, in line before the rest.
LEMMA InLineMore ==
    ASSUME NEW A, NEW calls \in Seq(A), calls # << >>, InLine(calls),
           Head(calls).op # "WriteRow", NEW x \in Seq(A),
           \A d \in Range(x) : d.op # "WriteNodes",
           \/ \A d \in Range(x) : d.op = "WriteRow"
           \/ /\ \A d \in Range(x) : d.op # "WriteRow"
              /\ \A k \in 1 .. Len(x) : x[k].op \in EarlyOps => k = 1
    PROVE  InLine(x \o Tail(calls))
<1> DEFINE n == Len(calls)
           l == Len(x)
           rest == Tail(calls)
           s == x \o rest
<1>1. PICK m \in 0 .. n : \A k \in 1 .. n :
        /\ calls[k].op = "WriteRow" <=> k <= m
        /\ calls[k].op \in EarlyOps => k = 1
        /\ calls[k].op = "WriteNodes" => k = n
  BY DEF InLine, EarlyOps
<1>2. /\ n \in Nat /\ n >= 1 /\ Head(calls) = calls[1] /\ 1 \in 1 .. n
      /\ rest \in Seq(A) /\ Len(rest) = n - 1 /\ \A k \in 1 .. (n - 1) : rest[k] = calls[k + 1]
  OBVIOUS
<1>3. l \in Nat /\ DOMAIN x = 1 .. l
  OBVIOUS
<1> HIDE DEF n, l, rest
<1>4. /\ Len(s) = l + (n - 1)
      /\ \A k \in 1 .. l : s[k] = x[k]
      /\ \A k \in 1 .. (n - 1) : s[l + k] = rest[k]
  <2> DEFINE e == Len(rest)
  <2>1. e = n - 1 /\ rest \in Seq(A)
    BY <1>2
  <2>2. /\ Len(s) = l + e
        /\ \A k \in 1 .. l : s[k] = x[k]
        /\ \A k \in 1 .. e : s[l + k] = rest[k]
    BY <2>1, <1>3 DEF l
  <2> HIDE DEF s, e
  <2> QED
    BY <2>1, <2>2
<1> HIDE DEF s
<1>5. ~(1 <= m)
  BY <1>1, <1>2
<1>6. \A k \in 1 .. l : x[k] \in Range(x)
  BY <1>3 DEF Range
<1> DEFINE all == \A d \in Range(x) : d.op = "WriteRow"
           j == IF all THEN l ELSE 0
<1>7. ASSUME NEW k \in 1 .. Len(s)
      PROVE  /\ s[k].op = "WriteRow" <=> k <= j
             /\ s[k].op \in EarlyOps => k = 1
             /\ s[k].op = "WriteNodes" => k = Len(s)
  <2>1. CASE k \in 1 .. l
    <3>1. s[k] = x[k] /\ x[k] \in Range(x)
      BY <1>4, <1>6, <2>1
    <3>2. all => k <= j /\ x[k].op = "WriteRow" /\ x[k].op \notin EarlyOps
      BY <2>1, <3>1 DEF EarlyOps, PullOps
    <3>3. ~all => ~(k <= j) /\ x[k].op # "WriteRow" /\ (x[k].op \in EarlyOps => k = 1)
      <4>1. ~(k <= 0)
        BY <2>1
      <4>2. ~all => j = 0
        OBVIOUS
      <4>3. ~all => x[k].op # "WriteRow" /\ (x[k].op \in EarlyOps => k = 1)
        <5>1. ~all => /\ \A d \in Range(x) : d.op # "WriteRow"
                      /\ \A h \in 1 .. l : x[h].op \in EarlyOps => h = 1
          BY DEF l
        <5> HIDE DEF all
        <5> QED
          BY <2>1, <3>1, <5>1
      <4> HIDE DEF all, j
      <4> QED
        BY <4>1, <4>2, <4>3
    <3>4. x[k].op # "WriteNodes"
      BY <3>1
    <3> HIDE DEF all, j
    <3> QED
      BY <3>1, <3>2, <3>3, <3>4
  <2>2. CASE k \notin 1 .. l
    <3> DEFINE i == k - l
    <3>1. /\ i \in 1 .. (n - 1) /\ k = l + i /\ i + 1 \in 1 .. n /\ i + 1 # 1 /\ ~(i + 1 <= m)
          /\ (i + 1 = n => k = Len(s))
      BY <1>2, <1>3, <1>4, <1>5, <2>2
    <3>2. ~(k <= j)
      <4>1. ~(k <= l) /\ ~(k <= 0)
        BY <1>2, <1>3, <1>4, <2>2
      <4> QED
        BY <4>1
    <3> HIDE DEF i, j, all
    <3>3. s[k] = calls[i + 1]
      BY <1>2, <1>4, <3>1
    <3>4. /\ calls[i + 1].op # "WriteRow" /\ calls[i + 1].op \notin EarlyOps
          /\ calls[i + 1].op = "WriteNodes" => i + 1 = n
      BY <1>1, <3>1
    <3> QED
      BY <3>1, <3>2, <3>3, <3>4
  <2> QED
    BY <2>1, <2>2
<1>8. j \in 0 .. Len(s)
  BY <1>2, <1>3, <1>4
<1> HIDE DEF j, all
<1>9. InLine(s)
  BY <1>7, <1>8 DEF InLine, EarlyOps
<1> QED
  BY <1>9 DEF s, rest

-----------------------------------------------------------------------------
(* What belongs together still does when a request serves its next call.   *)

\* Request r, one of P, is at its next call.
AtCall(r, b, P, calls) ==
    /\ Has(r, b, t, calls) /\ InOrder(r, calls) /\ Progress(r, t, gone, P, calls)
    /\ r \in P /\ Wires(t, gone, P) /\ gone \cap t.objs = {}

\* Its next call, and the ones that are left then.
LEMMA CallAt ==
    ASSUME NEW r, NEW b, NEW P, NEW calls, AtCall(r, b, P, calls), NEW c, c = Head(calls)
    PROVE  /\ Works(r, b, c) /\ r \in RequestSet /\ b \in Tables /\ t \in Tables /\ r.on # None
           /\ c.op \in OpsOf(r.kind) /\ (c.op \in OwnOps => c.on = r.on)
           /\ calls # << >> /\ calls \in Seq(Fitting(r, b, t)) /\ Tail(calls) \in Seq(Fitting(r, b, t))
           /\ Range(calls) = {c} \cup Range(Tail(calls))
           /\ Range(calls) \subseteq Fitting(r, b, t)
<1>1. /\ r \in RequestSet /\ b \in Tables /\ t \in Tables
      /\ calls \in Seq(Fitting(r, b, t)) /\ calls # << >> /\ Has(r, b, t, calls)
  BY DEF AtCall, Has
<1>2. Works(r, b, c) /\ Tail(calls) \in Seq(Fitting(r, b, t))
  BY <1>1, NextCall
<1>3. Range(calls) = {c} \cup Range(Tail(calls)) /\ Range(calls) \subseteq Fitting(r, b, t)
  BY <1>1, RangeFirst
<1>4. c.op \in OpsOf(r.kind) /\ (c.op \in OwnOps => c.on = r.on)
  BY <1>2 DEF Works, Fitting, Fits
<1> QED
  BY <1>1, <1>2, <1>3, <1>4, Kinds

\* A call that only reads leaves all as it is.
LEMMA WiresRead ==
    ASSUME NEW r, NEW b, NEW c, Works(r, b, c), c.op \in ReadOps
    PROVE  Result(c) = t /\ Forgotten(c) = gone
<1>1. Forgotten(c) = gone
  BY DEF Forgotten, ReadOps
<1> QED
  BY <1>1, CallShown

\* Calls of flows and steps.
LEMMA WiresOfSteps ==
    ASSUME NEW r, NEW b, NEW P, NEW calls, AtCall(r, b, P, calls), NEW c, c = Head(calls),
           r.kind \in {"CreateFlow", "DeleteFlow", "CreateStep", "DeleteStep"}, c.op \notin LockOps
    PROVE  Wires(Result(c), Forgotten(c), P)
<1>1. /\ Works(r, b, c) /\ c.op \in OpsOf(r.kind) /\ (c.op \in OwnOps => c.on = r.on) /\ t \in Tables
      /\ c \in Range(calls) /\ r.on # None
  BY CallAt
<1>2. Wires(t, gone, P) /\ r \in P
  BY DEF AtCall
<1>3. CASE c.op \in ReadOps
  BY <1>1, <1>2, <1>3, WiresRead
<1>4. CASE c.op \in {"DropFlow", "DropStep"}
  BY <1>1, <1>2, <1>4, WiresDropRow
<1>5. CASE c.op \in {"InsertFlow", "InsertStep"}
  <2>1. c.op = "InsertStep" => c.on \notin t.objs \cup gone
    <3> SUFFICES ASSUME c.op = "InsertStep" PROVE c.on \notin t.objs \cup gone
      OBVIOUS
    <3>1. r.kind = "CreateStep" /\ c.on = r.on
      BY <1>1, WhoWrites DEF OwnOps
    <3>2. r.on \notin t.objs \cup gone \/ calls \in {<< >>, <<Call("Unlock", r.on, {})>>}
      BY <3>1 DEF AtCall, Progress
    <3>3. calls # << >> /\ Head(<<Call("Unlock", r.on, {})>>).op = "Unlock"
      BY CallAt DEF Call
    <3> QED
      BY <3>1, <3>2, <3>3
  <2>2. InsertsWell(r, c)
    BY <1>5, <2>1 DEF InsertsWell
  <2> QED
    BY <1>1, <1>2, <1>5, <2>2, WiresInsert
<1>6. CASE c.op = "DropIo"
  <2>1. StepOf[c.on] # None /\ Clears(r, StepOf[c.on])
    <3>1. CASE r.kind = "DeleteStep"
      <4>1. StepOf[c.on] = r.on
        BY <1>1, <1>6, <3>1 DEF AtCall, Progress, DroppingStep
      <4> QED
        BY <1>1, <3>1, <4>1 DEF Clears
    <3>2. CASE r.kind = "DeleteFlow"
      BY <1>1, <1>6, <3>2 DEF AtCall, Progress, DroppingFlow, Clears
    <3> QED
      BY <1>1, <1>6, <3>1, <3>2 DEF OpsOf
  <2>2. \A x \in t.outputs : StepOf[x[2]] = x[1]
    BY <1>2 DEF Wires, Own
  <2>3. DropsWell(r, c.on)
    BY <2>1, <2>2 DEF DropsWell
  <2> QED
    BY <1>1, <1>2, <1>6, <2>3, WiresDropIo
<1> QED
  BY <1>1, <1>3, <1>4, <1>5, <1>6 DEF OpsOf, ReadOps, LockOps

\* Calls that remove IOs: in general.
LEMMA RemovingWell ==
    ASSUME NEW r, NEW b, NEW P, NEW calls, AtCall(r, b, P, calls), NEW c, c = Head(calls),
           r.kind \in {"UpdateNodes", "DeleteIo", "PurgeIo"}, Removing(t, P, calls)
    PROVE  /\ InLine(calls)
           /\ c.op = "WriteRow" => RowsWell(c)
           /\ c.op = "KeepMain" =>
                /\ StepOf[c.on] # None
                /\ \A x \in t.inputs : x[2] = c.on /\ SameNode(x) => x[1] \in c.with \/ \E q \in P : Untakes(q, x)
<1>1. c \in Range(calls)
  BY CallAt
<1> QED
  BY <1>1 DEF Removing, RowsWell

\* Calls of an update of a step's nodes.
LEMMA WiresOfNodes ==
    ASSUME NEW r, NEW b, NEW P, NEW calls, AtCall(r, b, P, calls), NEW c, c = Head(calls),
           r.kind = "UpdateNodes"
    PROVE  Wires(Result(c), Forgotten(c), P)
<1>1. /\ Works(r, b, c) /\ c.op \in OpsOf(r.kind) /\ (c.op \in OwnOps => c.on = r.on) /\ t \in Tables
      /\ c \in Range(calls) /\ r.on # None /\ Range(calls) = {c} \cup Range(Tail(calls))
      /\ calls \in Seq(Fitting(r, b, t)) /\ calls # << >>
  BY CallAt
<1>2. Wires(t, gone, P) /\ r \in P
  BY DEF AtCall
<1>3. CASE c.op \in ReadOps
  BY <1>1, <1>2, <1>3, WiresRead
<1>4. CASE c.op \notin ReadOps
  <2>1. calls # Program(r)
    <3>1. Program(r) = <<Call("ReadForNodes", r.on, r.with)>>
      BY DEF Program
    <3>2. Head(Program(r)).op = "ReadForNodes"
      BY <3>1 DEF Call
    <3> QED
      BY <1>4, <3>2 DEF ReadOps
  <2>2. Removing(t, P, calls) /\ Cutting(r, t, calls)
    BY <2>1 DEF AtCall, Progress
  <2>3. /\ InLine(calls)
        /\ c.op = "WriteRow" => RowsWell(c)
        /\ c.op = "KeepMain" =>
             /\ StepOf[c.on] # None
             /\ \A x \in t.inputs : x[2] = c.on /\ SameNode(x) => x[1] \in c.with \/ \E q \in P : Untakes(q, x)
    BY <2>2, RemovingWell
  <2>4. c.op \in {"DropIo", "KeepMain"} => StepOf[c.on] = r.on /\ At[c.on] \notin r.with
    BY <1>1, <2>2 DEF Cutting
  <2>5. \A x \in t.outputs : StepOf[x[2]] = x[1]
    BY <1>2 DEF Wires, Own
  <2>6. c.op \in {"DropIo", "KeepMain"} => \A x \in t.outputs : x[2] = c.on => Cuts(r, x)
    BY <2>4, <2>5 DEF Cuts
  <2>7. CASE c.op = "WriteRow"
    BY <1>1, <1>2, <2>3, <2>7, WiresRow
  <2>8. CASE c.op = "DropIo"
    <3>1. DropsWell(r, c.on)
      BY <1>1, <2>4, <2>6, <2>8 DEF DropsWell
    <3> QED
      BY <1>1, <1>2, <2>8, <3>1, WiresDropIo
  <2>9. CASE c.op = "KeepMain"
    <3>1. KeepsWell(r, P, c)
      BY <2>3, <2>6, <2>9 DEF KeepsWell
    <3> QED
      BY <1>1, <1>2, <2>9, <3>1, WiresKeep
  <2>10. CASE c.op = "WriteNodes"
    <3>1. Tail(calls) = << >>
      BY <1>1, <2>3, <2>10, InLineRest
    <3>2. Range(calls) = {c}
      BY <1>1, <3>1 DEF Range
    <3>3. c.on = r.on
      BY <1>1, <2>10 DEF OwnOps
    <3>4. /\ Column(c.with, "outputs") = {i \in Of(t.outputs, r.on) : At[i] \in r.with}
          /\ Column(c.with, "inputs") \subseteq Of(t.inputs, r.on)
      BY <1>1, <2>2, <2>10 DEF Cutting
    <3>5. \A i \in Of(t.outputs, r.on) : At[i] \notin r.with => i \notin t.objs \ t.loose
      <4>1. Call("DropIo", c.on, {}).op = "DropIo"
        BY DEF Call
      <4>2. \A i : Call("DropIo", i, {}) # c
        BY <2>10 DEF Call
      <4> QED
        BY <2>2, <2>10, <3>2, <4>2 DEF Cutting
    <3>6. RowsWell(c)
      BY <3>3, <3>4, <3>5 DEF RowsWell
    <3> QED
      BY <1>1, <1>2, <2>10, <3>6, WiresRow
  <2> QED
    BY <1>1, <1>4, <2>7, <2>8, <2>9, <2>10 DEF OpsOf, ReadOps
<1> QED
  BY <1>3, <1>4

\* Calls of an update of a step's inputs.
LEMMA WiresOfInputs ==
    ASSUME NEW r, NEW b, NEW P, NEW calls, AtCall(r, b, P, calls), NEW c, c = Head(calls),
           r.kind = "UpdateInputs"
    PROVE  Wires(Result(c), Forgotten(c), P)
<1>1. /\ Works(r, b, c) /\ c.op \in OpsOf(r.kind) /\ (c.op \in OwnOps => c.on = r.on) /\ t \in Tables
      /\ calls # << >> /\ r.with \subseteq Ios
  BY CallAt, Kinds
<1>2. Wires(t, gone, P) /\ r \in P
  BY DEF AtCall
<1> DEFINE now == Of(t.inputs, r.on)
           write == Call("WriteInputs", r.on, r.with)
           found == Found(t, Changes(now, r.with))
<1>3. /\ Head(Program(r)).op = "ReadInputs"
      /\ Head(<<Call("FindIos", r.on, Changes(now, r.with)), write>>).op = "FindIos"
      /\ Head(<<Call("WriteUsers", r.on, found), write>>) = Call("WriteUsers", r.on, found)
      /\ Head(<<write>>) = write
      /\ Call("WriteUsers", r.on, found).op = "WriteUsers" /\ write.op = "WriteInputs"
      /\ Call("WriteUsers", r.on, found).with = found /\ write.with = r.with
  BY DEF Program, Call
<1>4. Taking(r, t, P, calls)
  BY DEF AtCall, Progress
<1>5. /\ c.op = "WriteUsers" => c.with = found
      /\ c.op = "WriteInputs" =>
           \A i \in r.with \cap t.objs : SameNode(<<r.on, i>>) => Knows(t, P, <<r.on, i>>)
  <2> HIDE DEF found, now
  <2>1. /\ \/ calls = Program(r)
           \/ calls = <<Call("FindIos", r.on, Changes(now, r.with)), write>>
           \/ calls = <<Call("WriteUsers", r.on, found), write>>
           \/ calls = <<write>>
        /\ calls = <<write>> =>
             \/ \A i \in r.with \cap t.objs : SameNode(<<r.on, i>>) => Knows(t, P, <<r.on, i>>)
             \/ write = Call("WriteUsers", r.on, found)
             \/ calls \in {Program(r), <<Call("FindIos", r.on, Changes(now, r.with)), write>>,
                           <<Call("WriteUsers", r.on, found), write>>}
    BY <1>1, <1>4 DEF Taking, found, now
  <2> HIDE DEF write
  <2> QED
    BY <1>3, <2>1
<1>6. CASE c.op \in ReadOps
  BY <1>1, <1>2, <1>6, WiresRead
<1>7. CASE c.op = "WriteUsers"
  <2>1. Column(found, "removed") \subseteq now \ r.with
    BY DEF Found, Changes, Column
  <2>2. c.on = r.on
    BY <1>1, <1>7 DEF OwnOps
  <2>3. \A i \in now \ r.with : Untakes(r, <<r.on, i>>)
    BY DEF Untakes
  <2> HIDE DEF found, now
  <2>4. UsersWell(r, c)
    BY <1>5, <1>7, <2>1, <2>2, <2>3 DEF UsersWell
  <2> QED
    BY <1>1, <1>2, <1>7, <2>4, WiresUsers
<1>8. CASE c.op = "WriteInputs"
  <2>1. c.on = r.on /\ c.with = r.with
    BY <1>1, <1>8 DEF OwnOps, Works, Fitting, Fits
  <2>2. InputsWell(r, P, c)
    BY <1>1, <1>5, <1>8, <2>1 DEF InputsWell
  <2> QED
    BY <1>1, <1>2, <1>8, <2>2, WiresInputs
<1> QED
  BY <1>1, <1>6, <1>7, <1>8 DEF OpsOf, ReadOps

\* Calls of a creation of an IO.
LEMMA WiresOfCreation ==
    ASSUME NEW r, NEW b, NEW P, NEW calls, AtCall(r, b, P, calls), NEW c, c = Head(calls),
           r.kind = "CreateIo"
    PROVE  Wires(Result(c), Forgotten(c), P)
<1>1. /\ Works(r, b, c) /\ c.op \in OpsOf(r.kind) /\ (c.op \in OwnOps => c.on = r.on) /\ t \in Tables
      /\ calls # << >>
  BY CallAt
<1>2. Wires(t, gone, P) /\ r \in P /\ Removes(r, r.on)
  BY DEF AtCall, Removes, IoKinds
<1> DEFINE s == StepOf[r.on]
           write == Call("WriteOutputs", s, Of(t.outputs, s) \cup {r.on})
<1>3. /\ Head(Program(r)).op = "InsertIo"
      /\ Head(Tail(Program(r))).op = "PushInitial" => s = None
      /\ Head(Tail(Program(r))).op \in {"PushInitial", "ReadToPush"}
      /\ Head(<<write>>) = write
      /\ write.op = "WriteOutputs" /\ write.on = s /\ write.with = Of(t.outputs, s) \cup {r.on}
  <2>1. Program(r) = <<Call("InsertIo", r.on, {}),
                       IF s = None THEN Call("PushInitial", r.on, {}) ELSE Call("ReadToPush", r.on, {})>>
    BY DEF Program
  <2> QED
    BY <2>1, PairOfCalls DEF Call
<1>4. Creating(r, t, gone, calls)
  BY DEF AtCall, Progress
<1>5. /\ c.op = "InsertIo" => r.on \notin t.objs \cup gone
      /\ c.op = "PushInitial" => s = None
      /\ c.op = "WriteOutputs" =>
           r.on \in t.objs \ t.loose /\ c.on = s /\ c.with = Of(t.outputs, s) \cup {r.on}
  <2>1. \/ calls = Program(r) /\ r.on \notin t.objs \cup gone
        \/ r.on \in t.objs \ t.loose /\ (calls = Tail(Program(r)) \/ calls = <<write>>)
    BY <1>1, <1>4 DEF Creating
  <2> HIDE DEF write, s
  <2> QED
    BY <1>3, <2>1
<1> HIDE DEF s
<1>6. CASE c.op \in ReadOps
  BY <1>1, <1>2, <1>6, WiresRead
<1>7. CASE c.op = "InsertIo"
  <2>1. InsertsWell(r, c)
    BY <1>1, <1>2, <1>5, <1>7 DEF InsertsWell, OwnOps
  <2> QED
    BY <1>1, <1>2, <1>7, <2>1, WiresInsert
<1>8. CASE c.op = "PushInitial"
  <2>1. c.on = r.on
    BY <1>1, <1>8 DEF OwnOps
  <2> QED
    BY <1>1, <1>2, <1>5, <1>8, <2>1, WiresInitial DEF s
<1>9. CASE c.op = "WriteOutputs"
  <2>1. OutputsWell(r, c)
    BY <1>5, <1>9 DEF OutputsWell, s
  <2> QED
    BY <1>1, <1>2, <1>9, <2>1, WiresOutputs
<1> QED
  BY <1>1, <1>6, <1>7, <1>8, <1>9 DEF OpsOf, ReadOps

\* Calls of a deletion of an IO.
LEMMA WiresOfRemoval ==
    ASSUME NEW r, NEW b, NEW P, NEW calls, AtCall(r, b, P, calls), NEW c, c = Head(calls),
           r.kind \in {"DeleteIo", "PurgeIo"}
    PROVE  Wires(Result(c), Forgotten(c), P)
<1>1. /\ Works(r, b, c) /\ c.op \in OpsOf(r.kind) /\ (c.op \in OwnOps => c.on = r.on) /\ t \in Tables
      /\ c \in Range(calls) /\ r.on # None /\ Range(calls) = {c} \cup Range(Tail(calls))
      /\ calls \in Seq(Fitting(r, b, t)) /\ calls # << >>
  BY CallAt
<1>2. Wires(t, gone, P) /\ r \in P /\ Removes(r, r.on)
  BY DEF AtCall, Removes, IoKinds
<1>3. CASE c.op \in ReadOps
  BY <1>1, <1>2, <1>3, WiresRead
<1>4. CASE c.op \notin ReadOps
  <2>1. calls # Program(r)
    <3>1. Program(r) = <<Call("ReadIo", r.on, {r.kind})>>
      BY DEF Program
    <3>2. Head(Program(r)).op = "ReadIo"
      BY <3>1 DEF Call
    <3> QED
      BY <1>4, <3>2 DEF ReadOps
  <2>2. Removing(t, P, calls) /\ Pulling(r, t, calls)
    BY <2>1 DEF AtCall, Progress
  <2>3. /\ InLine(calls)
        /\ c.op = "WriteRow" => RowsWell(c)
        /\ c.op = "KeepMain" =>
             /\ StepOf[c.on] # None
             /\ \A x \in t.inputs : x[2] = c.on /\ SameNode(x) => x[1] \in c.with \/ \E q \in P : Untakes(q, x)
    BY <2>2, RemovingWell
  <2>4. \A x \in t.outputs : x[2] = r.on => x = <<StepOf[r.on], r.on>>
    BY <1>1, <1>2, PairsTyped DEF Wires, Own
  <2>5. CASE c.op = "WriteRow"
    BY <1>1, <1>2, <2>3, <2>5, WiresRow
  <2>6. CASE c.op = "PullInitial"
    <3>1. c.on = r.on
      BY <1>1, <2>6 DEF OwnOps
    <3>2. StepOf[r.on] = None
      BY <1>1, <2>2, <2>6 DEF Pulling
    <3> QED
      BY <1>1, <1>2, <2>6, <3>1, <3>2, WiresInitial
  <2>7. CASE c.op = "WriteOutputs"
    <3>1. c.on = StepOf[r.on] /\ c.with = Of(t.outputs, StepOf[r.on]) \ {r.on}
      BY <1>1, <2>2, <2>7 DEF Pulling
    <3>2. OutputsWell(r, c)
      BY <1>2, <3>1 DEF OutputsWell
    <3> QED
      BY <1>1, <1>2, <2>7, <3>2, WiresOutputs
  <2>8. CASE c.op \in {"DropIo", "KeepMain"}
    <3>1. c.on = r.on
      BY <1>1, <2>2, <2>8 DEF Pulling
    <3>2. \A d \in Range(calls) : d.op \notin PullOps
      BY <1>1, <2>3, <2>8, InLineRest DEF EarlyOps, PullOps
    <3>3. \A x \in t.outputs : x[2] = r.on => r.on \notin t.objs \ t.loose /\ c.op # "KeepMain"
      BY <1>1, <2>2, <2>4, <3>2 DEF Pulling
    <3>4. CASE c.op = "DropIo"
      <4>1. DropsWell(r, c.on)
        BY <1>2, <3>1, <3>3 DEF DropsWell
      <4> QED
        BY <1>1, <1>2, <3>4, <4>1, WiresDropIo
    <3>5. CASE c.op = "KeepMain"
      <4>1. KeepsWell(r, P, c)
        BY <2>3, <3>1, <3>3, <3>5 DEF KeepsWell
      <4> QED
        BY <1>1, <1>2, <3>5, <4>1, WiresKeep
    <3> QED
      BY <2>8, <3>4, <3>5
  <2> QED
    BY <1>1, <1>4, <2>5, <2>6, <2>7, <2>8 DEF OpsOf, ReadOps
<1> QED
  BY <1>3, <1>4

\* Whatever request it is.
LEMMA WiresCall ==
    ASSUME NEW r, NEW b, NEW P, NEW calls, AtCall(r, b, P, calls), NEW c, c = Head(calls),
           c.op \notin LockOps
    PROVE  Wires(Result(c), Forgotten(c), P)
<1>1. r \in RequestSet
  BY CallAt
<1> QED
  BY <1>1, Kinds, WiresOfSteps, WiresOfNodes, WiresOfInputs, WiresOfCreation, WiresOfRemoval

-----------------------------------------------------------------------------
(* How far a request has come when it has served its next call.            *)

Serves(r, b, P, calls, c) ==
    AtCall(r, b, P, calls) /\ c = Head(calls) /\ c.op \notin LockOps /\ ~Absent(c)

\* What is left then.
Onward(c, calls) == Further(c) \o Tail(calls)

\* What is left are the calls that a read leads to, and the rest.
LEMMA ServesOn ==
    ASSUME NEW r, NEW b, NEW P, NEW calls, NEW c, Serves(r, b, P, calls, c)
    PROVE  /\ Further(c) \in Seq(Fitting(r, b, t) \cap Plain) /\ Further(c) \in Seq(Fitting(r, b, t))
           /\ Tail(calls) \in Seq(Fitting(r, b, t)) /\ Onward(c, calls) \in Seq(Fitting(r, b, t))
           /\ c.op \in ReadOps => Result(c) = t /\ Forgotten(c) = gone
           /\ c.op \notin ReadOps => Further(c) = << >> /\ Onward(c, calls) = Tail(calls)
           /\ Result(c) \in Tables
<1> DEFINE A == Fitting(r, b, t)
<1>1. /\ Works(r, b, c) /\ Tail(calls) \in Seq(A)
  BY CallAt DEF Serves
<1>2. Reads(r, b, c)
  BY <1>1 DEF Reads, Works, Serves
<1>3. Further(c) \in Seq(A \cap Plain)
  BY <1>2, FurtherFits DEF Leads
<1>4. c.op \notin ReadOps => Further(c) = << >>
  BY DEF Further, ReadOps
<1>5. c.op \in ReadOps => Result(c) = t /\ Forgotten(c) = gone
  BY <1>1, WiresRead
<1>6. Result(c) \in Tables
  BY <1>1, CallEffect DEF Effect
<1> HIDE DEF A
<1>7. Further(c) \in Seq(A)
  BY <1>3, SeqLarger
<1>8. Onward(c, calls) \in Seq(A)
  BY <1>1, <1>7 DEF Onward
<1>9. c.op \notin ReadOps => Onward(c, calls) = Tail(calls)
  BY <1>1, <1>4 DEF Onward
<1> QED
  BY <1>1, <1>3, <1>4, <1>5, <1>6, <1>7, <1>8, <1>9 DEF A

\* They are the calls of both.
LEMMA LeftHolds ==
    ASSUME NEW r, NEW b, NEW P, NEW calls, NEW c, Serves(r, b, P, calls, c)
    PROVE  Range(Onward(c, calls)) = Range(Further(c)) \cup Range(Tail(calls))
<1> DEFINE x == Further(c)
           y == Tail(calls)
           A == Fitting(r, b, t)
<1>1. x \in Seq(A) /\ y \in Seq(A) /\ Onward(c, calls) = x \o y
  BY ServesOn DEF Onward
<1> HIDE DEF x, y, A
<1>2. Range(x \o y) = Range(x) \cup Range(y)
  BY <1>1, RangeJoined
<1> QED
  BY <1>1, <1>2 DEF x, y

\* The deletions of a step's outputs.
LEMMA DropOutputsHolds ==
    ASSUME t \in Tables, NEW s
    PROVE  Range(DropOutputs(s)) = {Call("DropIo", i, {}) : i \in Of(t.outputs, s)}
<1> DEFINE S == Of(t.outputs, s)
           B == {Call("DropIo", i, {}) : i \in S}
           F == [i \in S |-> <<Call("DropIo", i, {})>>]
           seqs == [k \in 1 .. Cardinality(S) |-> <<Call("DropIo", SetToSeq(S)[k], {})>>]
<1>1. DropOutputs(s) = FlattenSeq(seqs)
  BY DEF DropOutputs, ForEach
<1>2. IsFiniteSet(S)
  <2>1. S \subseteq Objects
    BY DEF Of, Tables, Objects
  <2> QED
    BY <2>1, FiniteObjects
<1>3. Cardinality(S) \in Nat /\ SetToSeq(S) \in [1 .. Cardinality(S) -> S]
  BY <1>2, SetToSeqType
<1>4. F \in [S -> Seq(B)] /\ \A i \in S : Range(F[i]) = {Call("DropIo", i, {})}
  <2>1. \A i \in S : <<Call("DropIo", i, {})>> \in Seq(B)
    BY OneByOne
  <2>2. \A x : Range(<<x>>) = {x}
    BY DEF Range
  <2> QED
    BY <2>1, <2>2
<1>5. seqs = [k \in 1 .. Cardinality(S) |-> F[SetToSeq(S)[k]]]
  BY <1>3
<1> HIDE DEF seqs, F, S, B
<1>6. Range(FlattenSeq(seqs)) = UNION {Range(F[i]) : i \in S}
  BY <1>2, <1>4, <1>5, ForEachHolds
<1> QED
  BY <1>1, <1>4, <1>6 DEF S

\* The deletions of steps with their outputs.
LEMMA DropStepsHolds ==
    ASSUME t \in Tables, NEW c, c.op = "ReadSteps"
    PROVE  Range(Further(c)) =
             {Call("DropStep", s, {}) : s \in StepsIn(t, {c.on})}
               \cup UNION {{Call("DropIo", i, {}) : i \in Of(t.outputs, s)} : s \in StepsIn(t, {c.on})}
<1> DEFINE S == StepsIn(t, {c.on})
           D(s) == {Call("DropIo", i, {}) : i \in Of(t.outputs, s)}
           B == {Call("DropStep", s, {}) : s \in S} \cup UNION {D(s) : s \in S}
           X(s) == DropOutputs(s) \o <<Call("DropStep", s, {})>>
           F == [s \in S |-> X(s)]
           seqs == [k \in 1 .. Cardinality(S) |-> X(SetToSeq(S)[k])]
<1>1. Further(c) = FlattenSeq(seqs)
  BY DEF Further, ForEach
<1>2. IsFiniteSet(S)
  <2>1. S \subseteq Objects
    BY DEF StepsIn, Objects
  <2> QED
    BY <2>1, FiniteObjects
<1>3. Cardinality(S) \in Nat /\ SetToSeq(S) \in [1 .. Cardinality(S) -> S]
  BY <1>2, SetToSeqType
<1>4. ASSUME NEW s \in S
      PROVE  X(s) \in Seq(B) /\ Range(X(s)) = D(s) \cup {Call("DropStep", s, {})}
  <2>1. \A i \in Of(t.outputs, s) : Call("DropIo", i, {}) \in B
    OBVIOUS
  <2>2. Call("DropStep", s, {}) \in B
    OBVIOUS
  <2>3. Range(DropOutputs(s)) = D(s)
    BY DropOutputsHolds
  <2> HIDE DEF B, D, S
  <2>4. DropOutputs(s) \in Seq(B)
    BY <2>1, DropOutputsFits
  <2>5. <<Call("DropStep", s, {})>> \in Seq(B) /\ Range(<<Call("DropStep", s, {})>>) = {Call("DropStep", s, {})}
    BY <2>2, OneByOne DEF Range
  <2> DEFINE x == DropOutputs(s)
             y == <<Call("DropStep", s, {})>>
  <2> HIDE DEF x, y
  <2>6. x \in Seq(B) /\ y \in Seq(B)
    BY <2>4, <2>5 DEF x, y
  <2>7. x \o y \in Seq(B) /\ Range(x \o y) = Range(x) \cup Range(y)
    BY <2>6, RangeJoined
  <2> QED
    BY <2>3, <2>5, <2>7 DEF x, y
<1> HIDE DEF X, B
<1>5. F \in [S -> Seq(B)] /\ \A s \in S : Range(F[s]) = D(s) \cup {Call("DropStep", s, {})}
  BY <1>4
<1>6. seqs = [k \in 1 .. Cardinality(S) |-> F[SetToSeq(S)[k]]]
  BY <1>3
<1> HIDE DEF seqs, F, S, D
<1>7. Range(FlattenSeq(seqs)) = UNION {Range(F[s]) : s \in S}
  BY <1>2, <1>5, <1>6, ForEachHolds
<1>8. Range(FlattenSeq(seqs)) = {Call("DropStep", s, {}) : s \in S} \cup UNION {D(s) : s \in S}
  BY <1>5, <1>7
<1> QED
  BY <1>1, <1>8 DEF S, D

\* A creation of a step.
LEMMA ProgressCreateStep ==
    ASSUME NEW r, NEW b, NEW P, NEW calls, NEW c, Serves(r, b, P, calls, c), r.kind = "CreateStep",
           NEW left, left = Onward(c, calls), Creates(r, c, left)
    PROVE  Progress(r, Result(c), Forgotten(c), P, left)
<1>1. left = <<Release(r)>> \/ c.op = "FindIndex"
  BY DEF Creates
<1>2. ASSUME c.op = "FindIndex" PROVE r.on \notin Result(c).objs \cup Forgotten(c)
  <2>1. Result(c) = t /\ Forgotten(c) = gone
    BY <1>2, ServesOn DEF ReadOps
  <2>2. r.on \notin t.objs \cup gone \/ calls \in {<< >>, <<Call("Unlock", r.on, {})>>}
    BY DEF Serves, AtCall, Progress
  <2>3. calls # << >> /\ Head(<<Call("Unlock", r.on, {})>>).op = "Unlock" /\ c = Head(calls)
    BY CallAt DEF Call, Serves
  <2> QED
    BY <1>2, <2>1, <2>2, <2>3
<1> QED
  BY <1>1, <1>2 DEF Progress, Release

\* A deletion of a step.
LEMMA ProgressDeleteStep ==
    ASSUME NEW r, NEW b, NEW P, NEW calls, NEW c, Serves(r, b, P, calls, c), r.kind = "DeleteStep",
           NEW left, left = Onward(c, calls)
    PROVE  Progress(r, Result(c), Forgotten(c), P, left)
<1> DEFINE v == Result(c)
<1>1. /\ Works(r, b, c) /\ c.op \in {"ReadStep", "DropIo", "DropStep"} /\ r.on \in Steps
      /\ Range(calls) = {c} \cup Range(Tail(calls)) /\ t \in Tables /\ r.with = {}
      /\ r \in RequestSet /\ (c.op = "ReadStep" => c.on = r.on)
  BY CallAt, Kinds DEF Serves, OpsOf, LockOps, OwnOps
<1>2. DroppingStep(r, t, calls)
  BY DEF Serves, AtCall, Progress
<1>3. /\ Range(left) = Range(Further(c)) \cup Range(Tail(calls))
      /\ c.op # "ReadStep" => Range(Further(c)) = {}
      /\ c.op = "ReadStep" => Range(Further(c)) = {Call("DropIo", i, {}) : i \in Of(t.outputs, r.on)}
  <2>1. c.op = "ReadStep" => Further(c) = DropOutputs(r.on)
    BY <1>1 DEF Further
  <2>2. Range(<< >>) = {}
    BY DEF Range
  <2>3. Range(left) = Range(Further(c)) \cup Range(Tail(calls))
    BY LeftHolds
  <2>5. c.op \notin ReadOps => Further(c) = << >>
    BY ServesOn
  <2>4. Range(DropOutputs(r.on)) = {Call("DropIo", i, {}) : i \in Of(t.outputs, r.on)}
    BY <1>1, DropOutputsHolds
  <2> QED
    BY <1>1, <2>1, <2>2, <2>3, <2>4, <2>5 DEF ReadOps
<1>4. r.on \in v.objs => Call("DropStep", r.on, {}) \in Range(left)
  <2> SUFFICES ASSUME r.on \in v.objs PROVE Call("DropStep", r.on, {}) \in Range(left)
    OBVIOUS
  <2>1. v.objs = t.objs \/ (v.objs = t.objs \ {c.on})
    BY <1>1, CallEffect DEF Effect, Drops, Inserts
  <2>2. c # Call("DropStep", r.on, {})
    <3>1. ASSUME c = Call("DropStep", r.on, {}) PROVE FALSE
      <4>1. c.op = "DropStep" /\ c.on = r.on
        BY <3>1 DEF Call
      <4>2. v.objs = t.objs \ {r.on}
        BY <1>1, <4>1, CallEffect DEF Effect, Drops
      <4> QED
        BY <4>2
    <3> QED
      BY <3>1
  <2> QED
    BY <1>1, <1>2, <1>3, <2>1, <2>2 DEF DroppingStep
<1>5. \A d \in Range(left) : d.op = "DropIo" => StepOf[d.on] = r.on
  <2>1. \A i \in Of(t.outputs, r.on) : StepOf[i] = r.on /\ Call("DropIo", i, {}).on = i
    BY DEF Of, Call, Serves, AtCall, Wires, Own
  <2> QED
    BY <1>1, <1>2, <1>3, <2>1 DEF DroppingStep
<1> QED
  BY <1>4, <1>5 DEF Progress, DroppingStep

\* A deletion of a flow.
LEMMA ProgressDeleteFlow ==
    ASSUME NEW r, NEW b, NEW P, NEW calls, NEW c, Serves(r, b, P, calls, c), r.kind = "DeleteFlow",
           NEW left, left = Onward(c, calls)
    PROVE  Progress(r, Result(c), Forgotten(c), P, left)
<1> DEFINE v == Result(c)
           D(s) == {Call("DropIo", i, {}) : i \in Of(t.outputs, s)}
           S == StepsIn(t, {r.on})
<1>1. /\ Works(r, b, c) /\ c.op \in {"ReadSteps", "DropIo", "DropStep", "DropFlow"}
      /\ Range(calls) = {c} \cup Range(Tail(calls)) /\ t \in Tables
      /\ c.op = "ReadSteps" => c.on = r.on
  BY CallAt DEF Serves, OpsOf, LockOps, OwnOps
<1>2. DroppingFlow(r, t, calls)
  BY DEF Serves, AtCall, Progress
<1>3. /\ Range(left) = Range(Further(c)) \cup Range(Tail(calls))
      /\ c.op # "ReadSteps" => Range(Further(c)) = {}
      /\ c.op = "ReadSteps" =>
           Range(Further(c)) = {Call("DropStep", s, {}) : s \in S} \cup UNION {D(s) : s \in S}
  <2>1. Range(<< >>) = {}
    BY DEF Range
  <2>2. Range(left) = Range(Further(c)) \cup Range(Tail(calls))
    BY LeftHolds
  <2>4. c.op \notin ReadOps => Further(c) = << >>
    BY ServesOn
  <2>3. c.op = "ReadSteps" => Range(Further(c)) = {Call("DropStep", s, {}) : s \in S} \cup UNION {D(s) : s \in S}
    BY <1>1, DropStepsHolds
  <2> HIDE DEF S, D
  <2> QED
    BY <1>1, <2>1, <2>2, <2>3, <2>4 DEF ReadOps
<1>4. v.objs \subseteq t.objs /\ (c.op = "DropStep" => c.on \notin v.objs)
  <2>1. c.op = "ReadSteps" => v.objs = t.objs
    BY <1>1, CallEffect DEF Effect, Drops, Inserts
  <2>2. c.op # "ReadSteps" => v.objs = t.objs \ {c.on}
    BY <1>1, CallEffect DEF Effect, Drops, Inserts
  <2> QED
    BY <2>1, <2>2
<1>5. StepsIn(v, {r.on}) \subseteq S /\ \A s \in StepsIn(v, {r.on}) : s \in v.objs
  BY <1>4 DEF StepsIn
<1>6. \/ Call("ReadSteps", r.on, {}) \in Range(left)
      \/ \A s \in StepsIn(v, {r.on}) : Call("DropStep", s, {}) \in Range(left)
  <2>1. CASE c.op = "ReadSteps"
    BY <1>3, <1>5, <2>1
  <2>2. CASE c.op # "ReadSteps"
    <3>1. Range(calls) = {c} \cup Range(left)
      BY <1>1, <1>3, <2>2
    <3>2. Call("ReadSteps", r.on, {}) # c
      BY <2>2 DEF Call
    <3>3. \A s \in StepsIn(v, {r.on}) : Call("DropStep", s, {}) # c
      <4>1. \A s : Call("DropStep", s, {}).op = "DropStep" /\ Call("DropStep", s, {}).on = s
        BY DEF Call
      <4> QED
        BY <1>4, <1>5, <4>1
    <3> HIDE DEF S
    <3> QED
      BY <1>2, <1>5, <3>1, <3>2, <3>3 DEF DroppingFlow, S
  <2> QED
    BY <2>1, <2>2
<1>7. \A d \in Range(left) : d.op = "DropIo" => StepOf[d.on] # None /\ FlowOf[StepOf[d.on]] = r.on
  <2>1. \A s \in S : \A d \in D(s) : d.op = "DropIo" => StepOf[d.on] = s
    BY DEF Of, Call, Serves, AtCall, Wires, Own
  <2>2. \A s \in S : FlowOf[s] = r.on /\ s # None
    BY BranchRowAssumption DEF StepsIn, Objects
  <2>3. \A s : Call("DropStep", s, {}).op = "DropStep"
    BY DEF Call
  <2> HIDE DEF S, D
  <2>4. \A d \in Range(Further(c)) : d.op = "DropIo" => StepOf[d.on] # None /\ FlowOf[StepOf[d.on]] = r.on
    BY <1>3, <2>1, <2>2, <2>3
  <2> QED
    BY <1>1, <1>2, <1>3, <2>4 DEF DroppingFlow
<1> QED
  BY <1>6, <1>7 DEF Progress, DroppingFlow

\* A call, and a call and another.
LEMMA OneCall ==
    ASSUME NEW x, NEW e
    PROVE  /\ Head(<<x>>) = x /\ Tail(<<x>>) = << >> /\ << >> \o << >> = << >> /\ <<x>> \o << >> = <<x>>
           /\ <<x, e>> \o << >> = <<x, e>> /\ << >> \o <<x>> = <<x>>
OBVIOUS

\* A pair is listed.
LEMMA Listed ==
    ASSUME NEW Q, NEW a, NEW i, <<a, i>> \in Q
    PROVE  i \in Of(Q, a) /\ i \in Column(Q, a)
BY DEF Of, Column

\* An update of a step's inputs.
LEMMA ProgressInputs ==
    ASSUME NEW r, NEW b, NEW P, NEW calls, NEW c, Serves(r, b, P, calls, c), r.kind = "UpdateInputs",
           NEW left, left = Onward(c, calls)
    PROVE  Progress(r, Result(c), Forgotten(c), P, left)
<1> DEFINE v == Result(c)
           s == r.on
           new == r.with
           now == Of(t.inputs, s)
           found == Found(t, Changes(now, new))
           write == Call("WriteInputs", s, new)
           finding == Call("FindIos", s, Changes(now, new))
           users == Call("WriteUsers", s, found)
<1>1. /\ Works(r, b, c) /\ c.op \in {"ReadInputs", "FindIos", "WriteUsers", "WriteInputs"}
      /\ c.on = s /\ t \in Tables /\ calls # << >> /\ c = Head(calls)
      /\ c.op \in {"ReadInputs", "WriteInputs"} => c.with = new
  <2>1. Works(r, b, c) /\ c.op \in OpsOf(r.kind) /\ (c.op \in OwnOps => c.on = s) /\ t \in Tables /\ calls # << >>
    BY CallAt DEF Serves
  <2>2. c.op \in {"ReadInputs", "WriteInputs"} => c.with = new
    BY <2>1 DEF Works, Fitting, Fits
  <2> QED
    BY <2>1, <2>2 DEF Serves, OpsOf, OwnOps
<1>2. /\ \/ calls = Program(r)
         \/ calls = <<finding, write>>
         \/ calls = <<users, write>>
         \/ calls = <<write>>
  BY <1>1 DEF Serves, AtCall, Progress, Taking
<1>3. /\ Program(r) = <<Call("ReadInputs", s, new)>>
      /\ finding.op = "FindIos" /\ users.op = "WriteUsers" /\ write.op = "WriteInputs"
      /\ finding.with = Changes(now, new) /\ users.with = found
  BY DEF Program, Call
<1>4. Call("ReadInputs", s, new).op = "ReadInputs"
  BY DEF Call
<1>5. /\ c.op = "ReadInputs" => v = t /\ left = <<finding, write>>
      /\ c.op = "FindIos" => v = t /\ left = <<users, write>>
      /\ c.op = "WriteUsers" => c.with = found /\ left = <<write>>
      /\ c.op = "WriteInputs" => left = << >>
  <2>1. /\ c.op = "ReadInputs" => calls = <<Call("ReadInputs", s, new)>>
        /\ c.op = "FindIos" => calls = <<finding, write>> /\ c.with = Changes(now, new)
        /\ c.op = "WriteUsers" => calls = <<users, write>> /\ c.with = found
        /\ c.op = "WriteInputs" => calls = <<write>>
    <3> DEFINE reading == Call("ReadInputs", s, new)
    <3>1. reading.op = "ReadInputs" /\ Program(r) = <<reading>>
      BY <1>3, <1>4
    <3> HIDE DEF reading, finding, users, write
    <3> QED
      BY <1>1, <1>2, <1>3, <3>1 DEF reading
  <2>2. c.op = "ReadInputs" => Further(c) = <<finding, write>>
    BY <1>1 DEF Further, Changes
  <2>3. c.op = "FindIos" /\ c.with = Changes(now, new) => Further(c) = <<users>>
    BY <1>1 DEF Further, Found
  <2>4. c.op \in {"WriteUsers", "WriteInputs"} => Further(c) = << >>
    BY DEF Further
  <2>5. c.op \in {"ReadInputs", "FindIos"} => v = t
    BY ServesOn DEF ReadOps
  <2>6. left = Further(c) \o Tail(calls)
    BY DEF Onward
  <2> HIDE DEF v, finding, users, write, found, now
  <2>7. CASE c.op = "ReadInputs"
    <3>1. left = <<finding, write>> \o << >>
      BY <2>1, <2>2, <2>6, <2>7, OneCall
    <3> QED
      BY <2>5, <2>7, <3>1, OneCall
  <2>8. CASE c.op = "FindIos"
    <3>0. calls = <<finding, write>> /\ Further(c) = <<users>>
      BY <2>1, <2>3, <2>8
    <3>3. Tail(<<finding, write>>) = <<write>>
      BY PairOfCalls
    <3>1. Tail(calls) = <<write>> /\ Further(c) = <<users>>
      BY <3>0, <3>3
    <3>2. left = <<users>> \o <<write>>
      BY <2>6, <3>1
    <3> QED
      BY <2>5, <2>8, <3>2, PairOfCalls
  <2>9. CASE c.op = "WriteUsers"
    <3>0. calls = <<users, write>> /\ Further(c) = << >>
      BY <2>1, <2>4, <2>9
    <3>3. Tail(<<users, write>>) = <<write>>
      BY PairOfCalls
    <3>1. Tail(calls) = <<write>> /\ Further(c) = << >>
      BY <3>0, <3>3
    <3>2. left = << >> \o <<write>>
      BY <2>6, <3>1
    <3> QED
      BY <2>1, <2>9, <3>2, PairOfCalls
  <2>10. CASE c.op = "WriteInputs"
    <3>1. Tail(calls) = << >> /\ Further(c) = << >>
      BY <2>1, <2>4, <2>10, OneCall
    <3> QED
      BY <2>6, <2>10, <3>1, OneCall
  <2> QED
    BY <1>1, <2>7, <2>8, <2>9, <2>10
<1>6. CASE c.op = "ReadInputs"
  BY <1>5, <1>6 DEF Progress, Taking
<1>7. CASE c.op = "FindIos"
  BY <1>5, <1>7 DEF Progress, Taking
<1>8. CASE c.op = "WriteUsers"
  <2> DEFINE added == Column(c.with, "added")
             removed == Column(c.with, "removed")
  <2>1. Shows(v, t.objs, t.loose, t.outputs, t.inputs,
              (t.inputted \cup {s} \X added) \ ({s} \X removed), t.initial)
    BY <1>1, <1>8, CallShown DEF Shown
  <2>2. removed \subseteq now \ new /\ (new \ now) \cap t.objs \subseteq added
    <3>1. c.with = found
      BY <1>5, <1>8
    <3>2. \A i \in (new \ now) \cap t.objs : <<"added", i>> \in found
      BY DEF Found, Changes
    <3>3. \A x \in found : x[1] = "removed" => x[2] \in now \ new
      BY DEF Found, Changes
    <3> HIDE DEF found, now
    <3>4. removed \subseteq now \ new
      BY <3>1, <3>3 DEF Column
    <3>5. \A i \in (new \ now) \cap t.objs : i \in Column(found, "added")
      BY <3>2, Listed
    <3> QED
      BY <3>1, <3>4, <3>5
  <2> HIDE DEF added, removed
  <2>3. \A i \in new \cap v.objs : SameNode(<<s, i>>) => Knows(v, P, <<s, i>>)
    <3> SUFFICES ASSUME NEW i \in new, i \in t.objs, SameNode(<<s, i>>)
                 PROVE  Knows(v, P, <<s, i>>)
      BY <2>1 DEF Shows
    <3>1. CASE i \in now
      <4>1. <<s, i>> \in t.inputs
        BY <1>1, <3>1, PairsTyped DEF Of
      <4>2. Knows(t, P, <<s, i>>)
        BY <4>1 DEF Serves, AtCall, Wires, TakenKnown
      <4> QED
        BY <2>1, <2>2, <4>2 DEF Knows, Shows
    <3>2. CASE i \notin now
      BY <2>1, <2>2, <3>2 DEF Knows, Shows
    <3> QED
      BY <3>1, <3>2
  <2>4. Of(v.inputs, s) = now
    BY <2>1 DEF Shows
  <2>5. left = <<write>>
    BY <1>5, <1>8
  <2>6. Taking(r, v, P, left)
    BY <2>3, <2>5 DEF Taking
  <2> QED
    BY <2>6 DEF Progress
<1>9. CASE c.op = "WriteInputs"
  <2>1. Shows(v, t.objs, t.loose, t.outputs, Instead(t.inputs, s, new), t.inputted, t.initial)
    BY <1>1, <1>9, CallShown DEF Shown
  <2>2. Of(v.inputs, s) = new
    <3>1. v.inputs = Instead(t.inputs, s, new)
      BY <2>1 DEF Shows
    <3> HIDE DEF v, s, new
    <3>2. \A i \in new : <<s, i>> \in v.inputs
      BY <3>1 DEF Instead
    <3>3. \A x \in v.inputs : x[1] = s => x[2] \in new
      BY <3>1 DEF Instead
    <3>4. \A i \in new : i \in Of(v.inputs, s)
      BY <3>2, Listed
    <3>5. \A i \in Of(v.inputs, s) : i \in new
      BY <3>3 DEF Of
    <3> QED
      BY <3>4, <3>5
  <2>3. left = << >>
    BY <1>5, <1>9
  <2>4. Taking(r, v, P, left)
    BY <2>2, <2>3 DEF Taking
  <2> QED
    BY <2>4 DEF Progress
<1> QED
  BY <1>1, <1>6, <1>7, <1>8, <1>9

\* A creation of an IO.
LEMMA ProgressCreateIo ==
    ASSUME NEW r, NEW b, NEW P, NEW calls, NEW c, Serves(r, b, P, calls, c), r.kind = "CreateIo",
           NEW left, left = Onward(c, calls)
    PROVE  Progress(r, Result(c), Forgotten(c), P, left)
<1> DEFINE v == Result(c)
           i == r.on
           s == StepOf[i]
           first == Call("InsertIo", i, {})
           second == IF s = None THEN Call("PushInitial", i, {}) ELSE Call("ReadToPush", i, {})
           write == Call("WriteOutputs", s, Of(t.outputs, s) \cup {i})
<1>1. /\ Works(r, b, c) /\ c.op \in {"InsertIo", "PushInitial", "ReadToPush", "WriteOutputs"}
      /\ c.op # "WriteOutputs" => c.on = i
      /\ t \in Tables /\ calls # << >> /\ c = Head(calls)
  BY CallAt DEF Serves, OpsOf, LockOps, OwnOps
<1>2. Program(r) = <<first, second>>
  BY DEF Program
<1>3. /\ \/ calls = <<first, second>>
         \/ calls = <<second>>
         \/ calls = <<write>> /\ s # None
      /\ calls # <<first, second>> => i \in t.objs \ t.loose
  BY <1>1, <1>2, PairOfCalls DEF Serves, AtCall, Progress, Creating
<1>4. /\ first.op = "InsertIo" /\ second.op \in {"PushInitial", "ReadToPush"} /\ write.op = "WriteOutputs"
      /\ (second.op = "PushInitial" <=> s = None) /\ write.on = s /\ write.with = Of(t.outputs, s) \cup {i}
  BY DEF Call
<1>5. /\ c.op = "InsertIo" => left = <<second>>
      /\ c.op = "PushInitial" => s = None /\ left = << >> /\ i \in t.objs \ t.loose
      /\ c.op = "ReadToPush" => v = t /\ s # None /\ left = <<write>> /\ i \in t.objs \ t.loose
      /\ c.op = "WriteOutputs" =>
           /\ s # None /\ left = << >> /\ i \in t.objs \ t.loose
           /\ c.on = s /\ c.with = Of(t.outputs, s) \cup {i}
  <2>1. c.op = "ReadToPush" => Further(c) = <<write>>
    BY <1>1 DEF Further
  <2>2. c.op \in {"InsertIo", "PushInitial", "WriteOutputs"} => Further(c) = << >>
    BY DEF Further
  <2>3. c.op = "ReadToPush" => v = t
    BY ServesOn DEF ReadOps
  <2>4. left = Further(c) \o Tail(calls)
    BY DEF Onward
  <2>5. Head(<<first, second>>) = first /\ Tail(<<first, second>>) = <<second>>
    BY PairOfCalls
  <2>6. Head(<<second>>) = second /\ Head(<<write>>) = write /\ Tail(<<second>>) = << >> /\ Tail(<<write>>) = << >>
    BY OneCall
  <2> HIDE DEF v, first, second, write, s
  <2>7. /\ c.op = "InsertIo" => calls = <<first, second>>
        /\ c.op \in {"PushInitial", "ReadToPush"} =>
             calls = <<second>> /\ i \in t.objs \ t.loose /\ (c.op = "PushInitial" <=> s = None)
        /\ c.op = "WriteOutputs" => calls = <<write>> /\ s # None /\ i \in t.objs \ t.loose
    BY <1>1, <1>3, <1>4, <2>5, <2>6
  <2>8. CASE c.op = "InsertIo"
    BY <2>2, <2>4, <2>5, <2>7, <2>8, OneCall
  <2>9. CASE c.op \in {"PushInitial", "WriteOutputs"}
    BY <1>1, <1>4, <2>2, <2>4, <2>6, <2>7, <2>9, OneCall
  <2>10. CASE c.op = "ReadToPush"
    BY <2>1, <2>3, <2>4, <2>6, <2>7, <2>10, OneCall
  <2> QED
    BY <1>1, <2>8, <2>9, <2>10
<1>6. Tail(Program(r)) = <<second>>
  BY <1>2, PairOfCalls
<1>7. CASE c.op = "InsertIo"
  <2>1. i \in v.objs \ v.loose
    BY <1>1, <1>7, CallShown DEF Shown, Shows
  <2> HIDE DEF v, i, second
  <2>2. Creating(r, v, Forgotten(c), left)
    BY <1>5, <1>6, <1>7, <2>1 DEF Creating, i
  <2> QED
    BY <2>2 DEF Progress, v
<1>8. CASE c.op = "PushInitial"
  <2>1. i \in v.objs \ v.loose /\ i \in v.initial
    BY <1>1, <1>5, <1>8, CallShown DEF Shown, Shows
  <2>2. Creating(r, v, Forgotten(c), left)
    BY <1>5, <1>8, <2>1 DEF Creating
  <2> QED
    BY <2>2 DEF Progress
<1>9. CASE c.op = "ReadToPush"
  <2>1. Creating(r, v, Forgotten(c), left)
    BY <1>5, <1>9 DEF Creating
  <2> QED
    BY <2>1 DEF Progress
<1>10. CASE c.op = "WriteOutputs"
  <2>1. Shows(v, t.objs, t.loose, Instead(t.outputs, s, c.with), t.inputs, t.inputted, t.initial)
    BY <1>1, <1>5, <1>10, CallShown DEF Shown
  <2>2. i \in v.objs \ v.loose /\ <<s, i>> \in v.outputs
    BY <1>5, <1>10, <2>1 DEF Shows, Instead
  <2>3. Creating(r, v, Forgotten(c), left)
    BY <1>5, <1>10, <2>2 DEF Creating
  <2> QED
    BY <2>3 DEF Progress
<1> QED
  BY <1>1, <1>7, <1>8, <1>9, <1>10

-----------------------------------------------------------------------------
(* What the calls that remove IOs lead to.                                 *)

\* The calls of short sequences.
LEMMA FewCalls ==
    ASSUME NEW x, NEW y
    PROVE  Range(<< >>) = {} /\ Range(<<x>>) = {x} /\ Range(<<x, y>>) = {x, y}
<1>1. Range(<< >>) = {} /\ Range(<<x>>) = {x}
  BY DEF Range
<1>2. Range(<<x, y>>) = {x, y}
  <2>1. DOMAIN <<x, y>> = 1 .. 2 /\ <<x, y>>[1] = x /\ <<x, y>>[2] = y /\ 1 .. 2 = {1, 2}
    OBVIOUS
  <2> DEFINE s == <<x, y>>
  <2> HIDE DEF s
  <2>2. Range(s) = {s[1], s[2]}
    BY <2>1 DEF Range, s
  <2> QED
    BY <2>1, <2>2 DEF s
<1> QED
  BY <1>1, <1>2

\* Who takes an IO, as it knows.
UsersNow(i) == Of({<<p[2], p[1]>> : p \in t.inputted}, i)

\* They are all that the column has of it.
LEMMA UsersKnown ==
    ASSUME NEW x \in t.inputted
    PROVE  x[1] \in UsersNow(x[2])
<1>1. <<x[2], x[1]>> \in {<<p[2], p[1]>> : p \in t.inputted}
  OBVIOUS
<1> QED
  BY <1>1, Listed DEF UsersNow

\* The calls of an IO's removal.
Asking(i) == Call("ReadUsers", i, UsersNow(i))
Dropping(i) == Call("DropIo", i, {})
Keeping(i) == Call("KeepMain", i, UsersNow(i))

\* A removal has the first two of them, and the third for a main IO.
LEMMA RemovalHolds ==
    ASSUME NEW i, NEW kind, NEW B, {Asking(i), Dropping(i), Keeping(i)} \subseteq B
    PROVE  /\ Removal(i, kind) \in Seq(B)
           /\ \/ Range(Removal(i, kind)) = {Asking(i), Dropping(i)}
              \/ Range(Removal(i, kind)) = {Asking(i), Dropping(i), Keeping(i)} /\ StepOf[i] # None /\ i \notin t.loose
<1> DEFINE x == Asking(i)
           y == Dropping(i)
           z == Keeping(i)
<1>1. \/ Removal(i, kind) = <<x, y>> \o << >>
      \/ Removal(i, kind) = <<x, y>> \o <<z>> /\ StepOf[i] # None /\ i \notin t.loose
  BY DEF Removal, Attached, Asking, Dropping, Keeping, UsersNow
<1> HIDE DEF x, y, z
<1>2. x \in B /\ y \in B /\ z \in B
  BY DEF x, y, z
<1>3. <<x, y>> \in Seq(B) /\ <<z>> \in Seq(B) /\ << >> \in Seq(B)
  BY <1>2, OneByOne
<1>4. Range(<<x, y>>) = {x, y}
  BY FewCalls
<1>5. Range(<<z>>) = {z} /\ Range(<< >>) = {}
  BY FewCalls
<1> DEFINE first == <<x, y>>
           last == <<z>>
           none == << >>
<1> HIDE DEF first, last, none
<1>6. first \in Seq(B) /\ last \in Seq(B) /\ none \in Seq(B)
  BY <1>3 DEF first, last, none
<1>7. first \o last \in Seq(B) /\ first \o none \in Seq(B)
  BY <1>6
<1>8. Range(first \o last) = Range(first) \cup Range(last)
  BY <1>6, RangeJoined
<1>9. Range(first \o none) = Range(first) \cup Range(none)
  BY <1>6, RangeJoined
<1>10. Range(first) = {x, y} /\ Range(last) = {z} /\ Range(none) = {}
  BY <1>4, <1>5 DEF first, last, none
<1>11. Range(first \o last) = {x, y, z} /\ Range(first \o none) = {x, y}
  BY <1>8, <1>9, <1>10
<1>12. \/ Removal(i, kind) = first \o none
       \/ Removal(i, kind) = first \o last /\ StepOf[i] # None /\ i \notin t.loose
  BY <1>1 DEF first, last, none
<1> QED
  BY <1>7, <1>11, <1>12 DEF x, y, z

\* What they are on.
LEMMA RemovalCalls ==
    ASSUME NEW i
    PROVE  /\ Asking(i).op = "ReadUsers" /\ Asking(i).on = i
           /\ Dropping(i).op = "DropIo" /\ Dropping(i).on = i
           /\ Keeping(i).op = "KeepMain" /\ Keeping(i).on = i /\ Keeping(i).with = UsersNow(i)
BY DEF Asking, Dropping, Keeping, Call

\* The outputs that are there are removed one by one.
LEMMA FindOutputsHolds ==
    ASSUME t \in Tables, NEW c, c.op = "FindOutputs"
    PROVE  Range(Further(c)) = UNION {Range(Removal(i, "DeleteIo")) : i \in c.with \cap t.objs}
<1> DEFINE S == c.with \cap t.objs
           B == UNION {{Asking(i), Dropping(i), Keeping(i)} : i \in S}
           X(i) == Removal(i, "DeleteIo")
           F == [i \in S |-> X(i)]
           seqs == [k \in 1 .. Cardinality(S) |-> X(SetToSeq(S)[k])]
<1>1. Further(c) = FlattenSeq(seqs)
  BY DEF Further, ForEach
<1>2. IsFiniteSet(S)
  <2>1. S \subseteq Objects
    BY TablesList
  <2> QED
    BY <2>1, FiniteObjects
<1>3. Cardinality(S) \in Nat /\ SetToSeq(S) \in [1 .. Cardinality(S) -> S]
  BY <1>2, SetToSeqType
<1>4. \A i \in S : {Asking(i), Dropping(i), Keeping(i)} \subseteq B
  OBVIOUS
<1> HIDE DEF B
<1>5. \A i \in S : X(i) \in Seq(B)
  BY <1>4, RemovalHolds
<1> HIDE DEF X, S
<1>6. F \in [S -> Seq(B)]
  BY <1>5
<1>7. seqs = [k \in 1 .. Cardinality(S) |-> F[SetToSeq(S)[k]]]
  BY <1>3
<1>8. \A i \in S : F[i] = X(i)
  OBVIOUS
<1> HIDE DEF seqs, F
<1>9. Range(FlattenSeq(seqs)) = UNION {Range(F[i]) : i \in S}
  BY <1>2, <1>6, <1>7, ForEachHolds
<1>10. Range(FlattenSeq(seqs)) = UNION {Range(X(i)) : i \in S}
  BY <1>8, <1>9
<1> QED
  BY <1>1, <1>10 DEF X, S

\* Rows of steps to be written back without an input.
RowWithout(s, i) == Call("WriteRow", s, Row(s) \ {<<"inputs", i>>})

\* There is one for each step that is found.
LEMMA ReadUsersHolds ==
    ASSUME t \in Tables, NEW c, c.op = "ReadUsers"
    PROVE  Range(Further(c)) = {RowWithout(s, c.on) : s \in UsersFound(c.on, c.with)}
<1> DEFINE S == UsersFound(c.on, c.with)
           B == {RowWithout(s, c.on) : s \in S}
           X(s) == <<RowWithout(s, c.on)>>
           F == [s \in S |-> X(s)]
           seqs == [k \in 1 .. Cardinality(S) |-> X(SetToSeq(S)[k])]
<1>1. Further(c) = FlattenSeq(seqs)
  BY DEF Further, ForEach, RowWithout
<1>2. IsFiniteSet(S)
  <2>1. S \subseteq Objects
    BY TablesList DEF UsersFound
  <2> QED
    BY <2>1, FiniteObjects
<1>3. Cardinality(S) \in Nat /\ SetToSeq(S) \in [1 .. Cardinality(S) -> S]
  BY <1>2, SetToSeqType
<1>4. \A s \in S : X(s) \in Seq(B) /\ Range(X(s)) = {RowWithout(s, c.on)}
  <2>1. \A s \in S : RowWithout(s, c.on) \in B
    OBVIOUS
  <2> HIDE DEF B, S
  <2> QED
    BY <2>1, OneByOne, FewCalls
<1> HIDE DEF X, B, S
<1>5. F \in [S -> Seq(B)] /\ \A s \in S : Range(F[s]) = {RowWithout(s, c.on)}
  BY <1>4
<1>6. seqs = [k \in 1 .. Cardinality(S) |-> F[SetToSeq(S)[k]]]
  BY <1>3
<1> HIDE DEF seqs, F
<1>7. Range(FlattenSeq(seqs)) = UNION {Range(F[s]) : s \in S}
  BY <1>2, <1>5, <1>6, ForEachHolds
<1>8. Range(FlattenSeq(seqs)) = {RowWithout(s, c.on) : s \in S}
  BY <1>5, <1>7
<1> QED
  BY <1>1, <1>8 DEF S

\* Such a row has the outputs of its step, and no inputs that it has not.
LEMMA RowWithoutHolds ==
    ASSUME NEW s, NEW i, NEW row, row = RowWithout(s, i)
    PROVE  /\ row.op = "WriteRow" /\ row.on = s
           /\ Column(row.with, "outputs") = Of(t.outputs, s)
           /\ \A j : j \in Column(row.with, "inputs") <=> j \in Of(t.inputs, s) /\ j # i
<1> DEFINE cells == row.with
<1>1. row.op = "WriteRow" /\ row.on = s /\ cells = Row(s) \ {<<"inputs", i>>}
  BY DEF RowWithout, Call
<1>2. /\ \A j : <<"outputs", j>> \in cells <=> j \in Of(t.outputs, s)
      /\ \A j : <<"inputs", j>> \in cells <=> j \in Of(t.inputs, s) /\ j # i
      /\ \A x \in cells : x = <<x[1], x[2]>>
  BY <1>1 DEF Row
<1> HIDE DEF cells
<1>3. \A a, j : j \in Column(cells, a) <=> <<a, j>> \in cells
  <2>1. \A a, j : <<a, j>> \in cells => j \in Column(cells, a)
    BY Listed
  <2>2. \A a, j : j \in Column(cells, a) => \E x \in cells : x[1] = a /\ x[2] = j
    BY DEF Column
  <2> SUFFICES ASSUME NEW a, NEW j, j \in Column(cells, a) PROVE <<a, j>> \in cells
    BY <2>1
  <2>3. PICK x \in cells : x[1] = a /\ x[2] = j
    BY <2>2
  <2>4. x = <<a, j>>
    BY <1>2, <2>3
  <2> QED
    BY <2>4
<1> QED
  BY <1>1, <1>2, <1>3 DEF cells

-----------------------------------------------------------------------------
(* How far a request that removes IOs has come.                            *)

Removals == {"UpdateNodes", "DeleteIo", "PurgeIo"}

\* So it is from the start.
LEMMA AlwaysRemoving ==
    ASSUME NEW r, NEW b, NEW P, NEW calls, AtCall(r, b, P, calls), r.kind \in Removals
    PROVE  /\ Removing(t, P, calls)
           /\ r.kind = "UpdateNodes" => Program(r) = <<Call("ReadForNodes", r.on, r.with)>>
           /\ r.kind # "UpdateNodes" => Program(r) = <<Call("ReadIo", r.on, {r.kind})>>
<1>1. /\ r.kind = "UpdateNodes" => Program(r) = <<Call("ReadForNodes", r.on, r.with)>>
      /\ r.kind # "UpdateNodes" => Program(r) = <<Call("ReadIo", r.on, {r.kind})>>
  BY DEF Program, Removals
<1>2. ASSUME calls = Program(r) PROVE Removing(t, P, calls)
  <2>1. PICK x : calls = <<x>> /\ x.op \in {"ReadForNodes", "ReadIo"}
    BY <1>1, <1>2 DEF Call, Removals
  <2>2. Len(calls) = 1 /\ \A k \in 1 .. Len(calls) : k = 1 /\ calls[k] = x
    BY <2>1
  <2>3. InLine(calls)
    <3>1. 0 \in 0 .. Len(calls)
      BY <2>2
    <3>2. ASSUME NEW k \in 1 .. Len(calls)
          PROVE  /\ calls[k].op = "WriteRow" <=> k <= 0
                 /\ calls[k].op \in EarlyOps => k = 1
                 /\ calls[k].op = "WriteNodes" => k = Len(calls)
      <4>1. calls[k] = x /\ k = 1 /\ ~(k <= 0)
        BY <2>2
      <4> QED
        BY <2>1, <4>1
    <3> QED
      BY <3>1, <3>2 DEF InLine, EarlyOps
  <2>4. Range(calls) = {x}
    BY <2>1, FewCalls
  <2> QED
    BY <2>1, <2>3, <2>4 DEF Removing
<1>3. calls = Program(r) \/ Removing(t, P, calls)
  BY DEF AtCall, Progress, Removals
<1> QED
  BY <1>1, <1>2, <1>3

\* The first call of such a request.
LEMMA FirstReads ==
    ASSUME NEW r, NEW b, NEW P, NEW calls, NEW c, Serves(r, b, P, calls, c), r.kind \in Removals
    PROVE  /\ c.op \in {"ReadForNodes", "ReadIo"} <=> calls = Program(r)
           /\ c.op \in {"ReadForNodes", "ReadIo"} =>
                /\ Tail(calls) = << >> /\ Range(calls) = {c} /\ c.on = r.on
                /\ c.op = "ReadForNodes" => c.with = r.with /\ r.kind = "UpdateNodes"
                /\ c.op = "ReadIo" => r.kind # "UpdateNodes"
<1>1. /\ Works(r, b, c) /\ c.op \in OpsOf(r.kind) /\ (c.op \in OwnOps => c.on = r.on)
      /\ calls # << >> /\ c \in Range(calls) /\ c = Head(calls)
  BY CallAt DEF Serves
<1>2. /\ r.kind = "UpdateNodes" => Program(r) = <<Call("ReadForNodes", r.on, r.with)>>
      /\ r.kind # "UpdateNodes" => Program(r) = <<Call("ReadIo", r.on, {r.kind})>>
  BY AlwaysRemoving DEF Serves
<1>3. ASSUME calls = Program(r) PROVE c.op \in {"ReadForNodes", "ReadIo"} /\ Tail(calls) = << >> /\ Range(calls) = {c}
  <2>1. PICK x : calls = <<x>> /\ x.op \in {"ReadForNodes", "ReadIo"}
    BY <1>2, <1>3 DEF Call
  <2> QED
    BY <1>1, <2>1, OneCall, FewCalls
<1>4. ASSUME c.op \in {"ReadForNodes", "ReadIo"} PROVE calls = Program(r)
  <2>1. CASE r.kind = "UpdateNodes"
    <3>1. c.op = "ReadForNodes"
      BY <1>1, <1>4, <2>1 DEF OpsOf
    <3>2. calls = Program(r) \/ Cutting(r, t, calls)
      BY <2>1 DEF Serves, AtCall, Progress
    <3> QED
      BY <1>1, <3>1, <3>2 DEF Cutting
  <2>2. CASE r.kind \in {"DeleteIo", "PurgeIo"}
    <3>1. c.op = "ReadIo"
      BY <1>1, <1>4, <2>2 DEF OpsOf
    <3>2. calls = Program(r) \/ Pulling(r, t, calls)
      BY <2>2 DEF Serves, AtCall, Progress
    <3> QED
      BY <1>1, <3>1, <3>2 DEF Pulling
  <2> QED
    BY <2>1, <2>2 DEF Removals
<1>5. c.op \in {"ReadForNodes", "ReadIo"} =>
        /\ c.on = r.on
        /\ c.op = "ReadForNodes" => c.with = r.with /\ r.kind = "UpdateNodes"
        /\ c.op = "ReadIo" => r.kind # "UpdateNodes"
  <2>1. c.op = "ReadForNodes" => c.with = r.with /\ r.kind = "UpdateNodes"
    BY <1>1 DEF Works, Fitting, Fits, OpsOf, Removals
  <2>2. c.op = "ReadIo" => r.kind # "UpdateNodes"
    BY <1>1 DEF OpsOf
  <2> QED
    BY <1>1, <2>1, <2>2 DEF OwnOps
<1> QED
  BY <1>3, <1>4, <1>5

\* A deletion of an IO starts with the list that has it.
LEMMA ReadIoHolds ==
    ASSUME NEW r, NEW b, NEW P, NEW calls, NEW c, Serves(r, b, P, calls, c), c.op = "ReadIo"
    PROVE  LET i == c.on
               pull == Call("PullInitial", i, {})
               read == Call("ReadToPull", i, {})
               rest == Removal(i, CHOOSE kind \in c.with : TRUE) IN
           /\ \/ StepOf[i] = None /\ Further(c) = <<pull>> \o rest
                   /\ Range(Further(c)) = {pull} \cup Range(rest)
              \/ StepOf[i] # None /\ i \in t.loose /\ Further(c) = << >> \o rest
                   /\ Range(Further(c)) = Range(rest)
              \/ StepOf[i] # None /\ i \notin t.loose /\ Further(c) = <<read>> \o rest
                   /\ Range(Further(c)) = {read} \cup Range(rest)
           /\ pull.op = "PullInitial" /\ read.op = "ReadToPull"
           /\ rest \in Seq({pull, read, Asking(i), Dropping(i), Keeping(i)})
<1> DEFINE i == c.on
           kind == CHOOSE k \in c.with : TRUE
           pull == Call("PullInitial", i, {})
           read == Call("ReadToPull", i, {})
           rest == Removal(i, kind)
           B == {pull, read, Asking(i), Dropping(i), Keeping(i)}
<1>1. Further(c) = (IF StepOf[i] = None THEN <<pull>> ELSE IF i \in t.loose THEN << >> ELSE <<read>>) \o rest
  BY DEF Further
<1>2. pull.op = "PullInitial" /\ read.op = "ReadToPull"
  BY DEF Call
<1>3. pull \in B /\ read \in B /\ {Asking(i), Dropping(i), Keeping(i)} \subseteq B
  OBVIOUS
<1> HIDE DEF kind, B, pull, read
<1>4. rest \in Seq(B)
  BY <1>3, RemovalHolds
<1> DEFINE x == <<pull>>
           y == <<read>>
           z == << >>
<1>5. x \in Seq(B) /\ y \in Seq(B) /\ z \in Seq(B)
  BY <1>3, OneByOne
<1>6. Range(x) = {pull} /\ Range(y) = {read} /\ Range(z) = {}
  BY FewCalls
<1> HIDE DEF x, y, z, rest
<1>7. Range(x \o rest) = Range(x) \cup Range(rest)
  BY <1>4, <1>5, RangeJoined
<1>8. Range(y \o rest) = Range(y) \cup Range(rest)
  BY <1>4, <1>5, RangeJoined
<1>9. Range(z \o rest) = Range(z) \cup Range(rest)
  BY <1>4, <1>5, RangeJoined
<1>10. /\ StepOf[i] = None => Further(c) = x \o rest
       /\ StepOf[i] # None /\ i \in t.loose => Further(c) = z \o rest
       /\ StepOf[i] # None /\ i \notin t.loose => Further(c) = y \o rest
  BY <1>1 DEF x, y, z
<1>11. \/ StepOf[i] = None /\ Further(c) = x \o rest /\ Range(Further(c)) = {pull} \cup Range(rest)
       \/ StepOf[i] # None /\ i \in t.loose /\ Further(c) = z \o rest /\ Range(Further(c)) = Range(rest)
       \/ StepOf[i] # None /\ i \notin t.loose /\ Further(c) = y \o rest
            /\ Range(Further(c)) = {read} \cup Range(rest)
  BY <1>6, <1>7, <1>8, <1>9, <1>10
<1> QED
  BY <1>2, <1>4, <1>11 DEF x, y, z, rest, kind, pull, read, B

\* Of a call and those of a removal only the first may be an early one.
LEMMA LateCalls ==
    ASSUME NEW B, NEW rest \in Seq(B), \A d \in Range(rest) : d.op \notin EarlyOps, NEW x \in B
    PROVE  /\ \A k \in 1 .. Len(<<x>> \o rest) : (<<x>> \o rest)[k].op \in EarlyOps => k = 1
           /\ \A k \in 1 .. Len(<< >> \o rest) : (<< >> \o rest)[k].op \in EarlyOps => k = 1
<1> DEFINE n == Len(rest)
           s == <<x>> \o rest
<1>1. \A k \in 1 .. n : rest[k].op \notin EarlyOps
  <2>1. \A k \in 1 .. n : rest[k] \in Range(rest)
    BY DEF Range
  <2> QED
    BY <2>1
<1>2. n \in Nat /\ Len(s) = 1 + n /\ \A k \in 1 .. n : s[1 + k] = rest[k]
  OBVIOUS
<1>3. << >> \o rest = rest
  OBVIOUS
<1> HIDE DEF n, s
<1>4. ASSUME NEW k \in 1 .. Len(s), s[k].op \in EarlyOps PROVE k = 1
  <2>1. CASE k # 1
    <3>1. k - 1 \in 1 .. n /\ k = 1 + (k - 1)
      BY <1>2, <2>1
    <3>2. s[k] = rest[k - 1]
      BY <1>2, <3>1
    <3> QED
      BY <1>1, <1>4, <3>1, <3>2
  <2> QED
    BY <2>1
<1>5. \A k \in 1 .. Len(<< >> \o rest) : (<< >> \o rest)[k].op \in EarlyOps => k = 1
  BY <1>1, <1>3 DEF n
<1> QED
  BY <1>4, <1>5 DEF s

\* The calls that a request leads to which removes IOs.
LEMMA FurtherOps ==
    ASSUME NEW r, NEW b, NEW P, NEW calls, NEW c, Serves(r, b, P, calls, c), r.kind \in Removals
    PROVE  /\ c.op = "ReadUsers" => \A d \in Range(Further(c)) : d.op = "WriteRow"
           /\ c.op \in {"FindOutputs", "ReadIo"} =>
                \A d \in Range(Further(c)) :
                  /\ d.op \in {"ReadUsers", "DropIo", "KeepMain"}
                                \cup (IF c.op = "ReadIo" THEN {"PullInitial", "ReadToPull"} ELSE {})
                  /\ d.op = "KeepMain" => StepOf[d.on] # None /\ d = Keeping(d.on) /\ d.on \in t.objs
           /\ c.op = "ReadToPull" =>
                Further(c) = <<Call("WriteOutputs", StepOf[c.on], Of(t.outputs, StepOf[c.on]) \ {c.on})>>
<1>1. t \in Tables
  BY CallAt DEF Serves
<1>2. c.op = "ReadUsers" => \A d \in Range(Further(c)) : d.op = "WriteRow"
  <2> SUFFICES ASSUME c.op = "ReadUsers", NEW d \in Range(Further(c)) PROVE d.op = "WriteRow"
    OBVIOUS
  <2>1. PICK s : d = RowWithout(s, c.on)
    BY <1>1, ReadUsersHolds
  <2> QED
    BY <2>1, RowWithoutHolds
<1>3. \A i, kind : \A d \in Range(Removal(i, kind)) :
        /\ d.op \in {"ReadUsers", "DropIo", "KeepMain"} /\ d.on = i
        /\ d.op = "KeepMain" => StepOf[i] # None /\ d = Keeping(i)
  <2> SUFFICES ASSUME NEW i, NEW kind, NEW d \in Range(Removal(i, kind))
               PROVE  /\ d.op \in {"ReadUsers", "DropIo", "KeepMain"} /\ d.on = i
                      /\ d.op = "KeepMain" => StepOf[i] # None /\ d = Keeping(i)
    OBVIOUS
  <2> DEFINE B == {Asking(i), Dropping(i), Keeping(i)}
  <2>1. B \subseteq B
    OBVIOUS
  <2> HIDE DEF B
  <2>2. \/ Range(Removal(i, kind)) = {Asking(i), Dropping(i)}
        \/ Range(Removal(i, kind)) = {Asking(i), Dropping(i), Keeping(i)} /\ StepOf[i] # None
    BY <2>1, RemovalHolds DEF B
  <2>3. d \in {Asking(i), Dropping(i)} \/ (d = Keeping(i) /\ StepOf[i] # None)
    BY <2>2
  <2> QED
    BY <2>3, RemovalCalls
<1>4. c.op = "FindOutputs" =>
        \A d \in Range(Further(c)) :
          /\ d.op \in {"ReadUsers", "DropIo", "KeepMain"}
          /\ d.op = "KeepMain" => StepOf[d.on] # None /\ d = Keeping(d.on) /\ d.on \in t.objs
  <2> SUFFICES ASSUME c.op = "FindOutputs", NEW d \in Range(Further(c))
               PROVE  /\ d.op \in {"ReadUsers", "DropIo", "KeepMain"}
                      /\ d.op = "KeepMain" => StepOf[d.on] # None /\ d = Keeping(d.on) /\ d.on \in t.objs
    OBVIOUS
  <2>1. Range(Further(c)) = UNION {Range(Removal(i, "DeleteIo")) : i \in c.with \cap t.objs}
    BY <1>1, FindOutputsHolds
  <2>2. PICK i \in c.with \cap t.objs : d \in Range(Removal(i, "DeleteIo"))
    BY <2>1
  <2>3. /\ d.op \in {"ReadUsers", "DropIo", "KeepMain"} /\ d.on = i
        /\ d.op = "KeepMain" => StepOf[i] # None /\ d = Keeping(i)
    BY <1>3, <2>2
  <2> QED
    BY <2>2, <2>3
<1>5. c.op = "ReadIo" =>
        \A d \in Range(Further(c)) :
          /\ d.op \in {"ReadUsers", "DropIo", "KeepMain", "PullInitial", "ReadToPull"}
          /\ d.op = "KeepMain" => StepOf[d.on] # None /\ d = Keeping(d.on) /\ d.on \in t.objs
  <2> SUFFICES ASSUME c.op = "ReadIo", NEW d \in Range(Further(c))
               PROVE  /\ d.op \in {"ReadUsers", "DropIo", "KeepMain", "PullInitial", "ReadToPull"}
                      /\ d.op = "KeepMain" => StepOf[d.on] # None /\ d = Keeping(d.on) /\ d.on \in t.objs
    OBVIOUS
  <2> DEFINE kind == CHOOSE k \in c.with : TRUE
             pull == Call("PullInitial", c.on, {})
             read == Call("ReadToPull", c.on, {})
             rest == Removal(c.on, kind)
  <2>1. /\ Range(Further(c)) \in {{pull} \cup Range(rest), Range(rest), {read} \cup Range(rest)}
        /\ pull.op = "PullInitial" /\ read.op = "ReadToPull"
    BY ReadIoHolds
  <2>2. c.on \in t.objs
    BY DEF Serves, Absent
  <2>3. d \in Range(rest) =>
          /\ d.op \in {"ReadUsers", "DropIo", "KeepMain"} /\ d.on = c.on
          /\ d.op = "KeepMain" => StepOf[c.on] # None /\ d = Keeping(c.on)
    BY <1>3
  <2> HIDE DEF pull, read, rest
  <2> QED
    BY <2>1, <2>2, <2>3
<1>6. c.op = "ReadToPull" =>
        Further(c) = <<Call("WriteOutputs", StepOf[c.on], Of(t.outputs, StepOf[c.on]) \ {c.on})>>
  BY DEF Further
<1> QED
  BY <1>2, <1>4, <1>5, <1>6

\* What is left is in line.
LEMMA InLineOn ==
    ASSUME NEW r, NEW b, NEW P, NEW calls, NEW c, Serves(r, b, P, calls, c), r.kind \in Removals
    PROVE  InLine(Onward(c, calls))
<1> DEFINE A == Fitting(r, b, t)
<1>1. /\ calls \in Seq(A) /\ calls # << >> /\ c = Head(calls) /\ t \in Tables
      /\ c.op \in OpsOf(r.kind)
  BY CallAt DEF Serves
<1>2. Removing(t, P, calls) /\ InLine(calls)
  BY AlwaysRemoving, ZenonT(60) DEF Serves, Removing
<1>3. /\ Further(c) \in Seq(A) /\ Tail(calls) \in Seq(A) /\ Onward(c, calls) = Further(c) \o Tail(calls)
      /\ c.op \notin ReadOps => Onward(c, calls) = Tail(calls)
  BY ServesOn DEF Onward
<1>4. \A k \in 1 .. Len(Further(c)) : Further(c)[k] \in Range(Further(c))
  BY <1>3 DEF Range
<1> HIDE DEF A
<1>5. CASE c.op \notin ReadOps
  BY <1>1, <1>2, <1>3, <1>5, InLineRest
<1>6. CASE c.op = "ReadUsers"
  <2>1. \A d \in Range(Further(c)) : d.op = "WriteRow"
    BY <1>6, FurtherOps
  <2>2. \A d \in Range(Further(c)) : d.op # "WriteNodes"
    BY <2>1
  <2> QED
    BY <1>1, <1>2, <1>3, <1>6, <2>1, <2>2, InLineMore
<1>7. CASE c.op = "FindOutputs"
  <2>1. \A d \in Range(Further(c)) : d.op \in {"ReadUsers", "DropIo", "KeepMain"}
    BY <1>7, FurtherOps
  <2>2. \A d \in Range(Further(c)) : d.op # "WriteNodes" /\ d.op # "WriteRow" /\ d.op \notin EarlyOps
    BY <2>1 DEF EarlyOps, PullOps
  <2>3. \A k \in 1 .. Len(Further(c)) : Further(c)[k].op \in EarlyOps => k = 1
    BY <1>4, <2>2
  <2> QED
    BY <1>1, <1>2, <1>3, <1>7, <2>2, <2>3, InLineMore
<1>8. CASE c.op = "ReadToPull"
  <2>1. PICK x : Further(c) = <<x>> /\ x.op = "WriteOutputs"
    BY <1>8, FurtherOps DEF Call
  <2>2. \A d \in Range(Further(c)) : d.op # "WriteNodes" /\ d.op # "WriteRow"
    <3>1. Range(<<x>>) = {x}
      BY FewCalls
    <3> QED
      BY <2>1, <3>1
  <2>3. \A k \in 1 .. Len(Further(c)) : Further(c)[k].op \in EarlyOps => k = 1
    <3>1. Len(Further(c)) = 1
      BY <2>1
    <3> QED
      BY <3>1
  <2> QED
    BY <1>1, <1>2, <1>3, <1>8, <2>2, <2>3, InLineMore
<1>9. CASE c.op = "ReadIo"
  <2>1. \A d \in Range(Further(c)) : d.op \in {"ReadUsers", "DropIo", "KeepMain", "PullInitial", "ReadToPull"}
    BY <1>9, FurtherOps
  <2>2. \A d \in Range(Further(c)) : d.op # "WriteNodes" /\ d.op # "WriteRow"
    BY <2>1
  <2>3. \A k \in 1 .. Len(Further(c)) : Further(c)[k].op \in EarlyOps => k = 1
    <3> DEFINE i == c.on
               pull == Call("PullInitial", i, {})
               read == Call("ReadToPull", i, {})
               rest == Removal(i, CHOOSE kind \in c.with : TRUE)
               B == {pull, read, Asking(i), Dropping(i), Keeping(i)}
    <3>1. /\ Further(c) \in {<<pull>> \o rest, << >> \o rest, <<read>> \o rest}
          /\ rest \in Seq(B)
      BY <1>9, ReadIoHolds
    <3>2. \A d \in Range(rest) : d.op \notin EarlyOps
      <4> DEFINE K == {Asking(i), Dropping(i), Keeping(i)}
      <4>1. K \subseteq K
        OBVIOUS
      <4> HIDE DEF K
      <4>2. Range(rest) \subseteq {Asking(i), Dropping(i), Keeping(i)}
        <5>1. \/ Range(rest) = {Asking(i), Dropping(i)}
              \/ Range(rest) = {Asking(i), Dropping(i), Keeping(i)}
          BY <4>1, RemovalHolds DEF K
        <5> QED
          BY <5>1
      <4> HIDE DEF rest
      <4>3. \A d \in Range(rest) : d.op \in {"ReadUsers", "DropIo", "KeepMain"}
        BY <4>2, RemovalCalls
      <4> QED
        BY <4>3 DEF EarlyOps, PullOps
    <3>3. pull \in B /\ read \in B
      OBVIOUS
    <3> HIDE DEF rest, pull, read, B
    <3>4. \A k \in 1 .. Len(<<pull>> \o rest) : (<<pull>> \o rest)[k].op \in EarlyOps => k = 1
      BY <3>1, <3>2, <3>3, LateCalls
    <3>5. \A k \in 1 .. Len(<<read>> \o rest) : (<<read>> \o rest)[k].op \in EarlyOps => k = 1
      BY <3>1, <3>2, <3>3, LateCalls
    <3>6. \A k \in 1 .. Len(<< >> \o rest) : (<< >> \o rest)[k].op \in EarlyOps => k = 1
      BY <3>1, <3>2, <3>3, LateCalls
    <3>7. CASE Further(c) = <<pull>> \o rest
      BY <3>4, <3>7
    <3>8. CASE Further(c) = <<read>> \o rest
      BY <3>5, <3>8
    <3>9. CASE Further(c) = << >> \o rest
      BY <3>6, <3>9
    <3> QED
      BY <3>1, <3>7, <3>8, <3>9
  <2> QED
    BY <1>1, <1>2, <1>3, <1>9, <2>2, <2>3, InLineMore
<1>10. CASE c.op = "ReadForNodes"
  <2>1. Tail(calls) = << >>
    BY <1>10, FirstReads
  <2>2. \E x, y : Further(c) = <<x, y>> /\ x.op = "FindOutputs" /\ y.op = "WriteNodes"
    <3> DEFINE x == Call("FindOutputs", c.on, LostOutputs(c.on, c.with))
               y == Call("WriteNodes", c.on,
                         {z \in Row(c.on) : z[1] # "nodes" /\ At[z[2]] \in c.with} \cup {"nodes"} \X c.with)
    <3>1. Further(c) = <<x, y>>
      BY <1>10 DEF Further
    <3>2. x.op = "FindOutputs" /\ y.op = "WriteNodes"
      BY DEF Call
    <3> QED
      BY <3>1, <3>2
  <2>3. PICK x, y : Onward(c, calls) = <<x, y>> /\ x.op = "FindOutputs" /\ y.op = "WriteNodes"
    BY <1>3, <2>1, <2>2, OneCall
  <2> DEFINE s == Onward(c, calls)
  <2>4. Len(s) = 2 /\ s[1] = x /\ s[2] = y
    BY <2>3
  <2> HIDE DEF s
  <2>5. ASSUME NEW k \in 1 .. Len(s)
        PROVE  /\ s[k].op = "WriteRow" <=> k <= 0
               /\ s[k].op \in EarlyOps => k = 1
               /\ s[k].op = "WriteNodes" => k = Len(s)
    <3>1. k = 1 \/ k = 2
      BY <2>4
    <3>2. ~(k <= 0) /\ "WriteNodes" \notin EarlyOps
      BY <2>4 DEF EarlyOps, PullOps
    <3> QED
      BY <2>3, <2>4, <3>1, <3>2
  <2>6. 0 \in 0 .. Len(s)
    BY <2>4
  <2>7. InLine(s)
    BY <2>5, <2>6 DEF InLine, EarlyOps
  <2> QED
    BY <2>7 DEF s
<1> QED
  BY <1>1, <1>5, <1>6, <1>7, <1>8, <1>9, <1>10 DEF OpsOf, Removals, ReadOps

\* What such a call does to what steps list.
LEMMA RemovalColumns ==
    ASSUME NEW r, NEW b, NEW P, NEW calls, NEW c, Serves(r, b, P, calls, c), r.kind \in Removals,
           NEW v, v = Result(c)
    PROVE  /\ c.op \notin {"WriteRow", "WriteNodes", "WriteOutputs"} =>
                v.outputs = t.outputs /\ v.inputs = t.inputs
           /\ c.op = "WriteRow" =>
                /\ v.outputs = t.outputs /\ v.inputs = Instead(t.inputs, c.on, Column(c.with, "inputs"))
                /\ Column(c.with, "inputs") \subseteq Of(t.inputs, c.on)
           /\ c.op = "WriteOutputs" => v.inputs = t.inputs
           /\ c.op = "WriteNodes" => Onward(c, calls) = << >>
           /\ c.op # "WriteNodes" => v.inputs \subseteq t.inputs
<1>1. /\ Works(r, b, c) /\ c.op \in OpsOf(r.kind) /\ c \in Range(calls) /\ calls # << >>
      /\ calls \in Seq(Fitting(r, b, t)) /\ t \in Tables /\ c = Head(calls)
  BY CallAt DEF Serves
<1>2. Removing(t, P, calls) /\ InLine(calls)
  BY AlwaysRemoving, ZenonT(60) DEF Serves, Removing
<1>3. CASE c.op \in ReadOps
  <2>1. v = t
    BY <1>3, ServesOn
  <2> QED
    BY <1>3, <2>1 DEF ReadOps
<1>4. CASE c.op \in {"DropIo", "KeepMain"}
  <2>1. c.on \in Ios
    BY <1>1, <1>4 DEF Works, Fitting, Fits
  <2>2. v.outputs = Without(t.outputs, c.on) /\ v.inputs = Without(t.inputs, c.on)
    BY <1>1, <1>4, CallShown DEF Shown, Shows, Drops
  <2>3. v.outputs = t.outputs /\ v.inputs = t.inputs
    BY <1>1, <2>1, <2>2, PairsTyped DEF Without
  <2> QED
    BY <1>4, <2>3
<1>5. CASE c.op = "PullInitial"
  BY <1>1, <1>5, CallShown DEF Shown, Shows
<1>6. CASE c.op = "WriteOutputs"
  BY <1>1, <1>6, CallShown DEF Shown, Shows
<1>7. CASE c.op = "WriteNodes"
  <2>1. Tail(calls) = << >>
    BY <1>1, <1>2, <1>7, InLineRest
  <2>2. Onward(c, calls) = << >>
    BY <1>7, <2>1, ServesOn DEF ReadOps
  <2> QED
    BY <1>7, <2>2
<1>8. CASE c.op = "WriteRow"
  <2> DEFINE outs == Column(c.with, "outputs")
             ins == Column(c.with, "inputs")
             s == c.on
  <2>1. v.outputs = Instead(t.outputs, s, outs) /\ v.inputs = Instead(t.inputs, s, ins)
    BY <1>1, <1>8, CallShown DEF Shown, Shows
  <2>2. outs = Of(t.outputs, s) /\ ins \subseteq Of(t.inputs, s)
    BY <1>1, <1>2, <1>8 DEF Removing
  <2> HIDE DEF outs, ins, s
  <2>3. \A P1 \in {t.outputs, t.inputs} :
          \A x \in P1 : x = <<x[1], x[2]>> /\ (x[1] = s <=> x[2] \in Of(P1, s) /\ x[1] = s)
    BY <1>1, PairsTyped, Listed
  <2>4. \A P1 : \A i \in Of(P1, s) : \E x \in P1 : x[1] = s /\ x[2] = i
    BY DEF Of
  <2>5. \A i : i \in Of(t.outputs, s) <=> <<s, i>> \in t.outputs
    BY <2>3, <2>4, Listed
  <2>6. \A i \in Of(t.inputs, s) : <<s, i>> \in t.inputs
    BY <2>3, <2>4
  <2>7. v.outputs = t.outputs
    <3>1. \A x \in t.outputs : x[1] = s => x[2] \in outs
      BY <2>2, <2>3
    <3> QED
      BY <2>1, <2>2, <2>3, <2>5, <3>1 DEF Instead
  <2>8. v.inputs \subseteq t.inputs
    BY <2>1, <2>2, <2>6 DEF Instead
  <2> QED
    BY <1>8, <2>1, <2>2, <2>7, <2>8 DEF ins, s
<1> QED
  BY <1>1, <1>3, <1>4, <1>5, <1>6, <1>7, <1>8 DEF OpsOf, Removals, ReadOps

\* Rows still are to be written as they are, and IOs kept know who takes them.
LEMMA RemovingOn ==
    ASSUME NEW r, NEW b, NEW P, NEW calls, NEW c, Serves(r, b, P, calls, c), r.kind \in Removals
    PROVE  Removing(Result(c), P, Onward(c, calls))
<1> DEFINE v == Result(c)
           left == Onward(c, calls)
<1>1. /\ c \in Range(calls) /\ calls # << >> /\ calls \in Seq(Fitting(r, b, t)) /\ t \in Tables
      /\ c = Head(calls) /\ Range(calls) = {c} \cup Range(Tail(calls)) /\ c.op \in OpsOf(r.kind)
  BY CallAt DEF Serves
<1>2. Removing(t, P, calls) /\ InLine(calls)
  BY AlwaysRemoving, ZenonT(60) DEF Serves, Removing
<1>3. InLine(left) /\ Range(left) = Range(Further(c)) \cup Range(Tail(calls))
  BY InLineOn, LeftHolds
<1>4. /\ c.op \notin {"WriteRow", "WriteNodes", "WriteOutputs"} =>
           v.outputs = t.outputs /\ v.inputs = t.inputs
      /\ c.op = "WriteRow" =>
           /\ v.outputs = t.outputs /\ v.inputs = Instead(t.inputs, c.on, Column(c.with, "inputs"))
           /\ Column(c.with, "inputs") \subseteq Of(t.inputs, c.on)
      /\ c.op = "WriteNodes" => left = << >>
      /\ c.op # "WriteNodes" => v.inputs \subseteq t.inputs
  BY RemovalColumns
<1>5. Range(<< >>) = {}
  BY FewCalls
<1>6. c.op \notin {"ReadUsers", "ReadForNodes", "ReadIo", "FindOutputs", "ReadToPull"} => Range(Further(c)) = {}
  <2>1. c.op \in OpsOf(r.kind) /\ c.op \notin {"ReadUsers", "ReadForNodes", "ReadIo", "FindOutputs", "ReadToPull"}
          => c.op \notin ReadOps
    BY DEF OpsOf, ReadOps, Removals
  <2> QED
    BY <1>1, <1>5, <2>1, ServesOn
<1>7. \A d \in Range(Further(c)) :
        /\ d.op = "WriteRow" => c.op = "ReadUsers"
        /\ d.op = "KeepMain" =>
             c.op \in {"FindOutputs", "ReadIo"} /\ StepOf[d.on] # None /\ d = Keeping(d.on) /\ d.on \in t.objs
  <2> SUFFICES ASSUME NEW d \in Range(Further(c))
               PROVE  /\ d.op = "WriteRow" => c.op = "ReadUsers"
                      /\ d.op = "KeepMain" =>
                           c.op \in {"FindOutputs", "ReadIo"} /\ StepOf[d.on] # None /\ d = Keeping(d.on)
                             /\ d.on \in t.objs
    OBVIOUS
  <2>1. CASE c.op = "ReadUsers"
    BY <2>1, FurtherOps
  <2>2. CASE c.op \in {"FindOutputs", "ReadIo"}
    BY <2>2, FurtherOps
  <2>3. CASE c.op = "ReadToPull"
    <3>1. PICK x : Further(c) = <<x>> /\ x.op = "WriteOutputs"
      BY <2>3, FurtherOps DEF Call
    <3>2. Range(<<x>>) = {x}
      BY FewCalls
    <3> QED
      BY <3>1, <3>2
  <2>4. CASE c.op = "ReadForNodes"
    <3> DEFINE x == Call("FindOutputs", c.on, LostOutputs(c.on, c.with))
               y == Call("WriteNodes", c.on,
                         {z \in Row(c.on) : z[1] # "nodes" /\ At[z[2]] \in c.with} \cup {"nodes"} \X c.with)
    <3>1. Further(c) = <<x, y>>
      BY <2>4 DEF Further
    <3>2. x.op = "FindOutputs" /\ y.op = "WriteNodes"
      BY DEF Call
    <3> HIDE DEF x, y
    <3>3. Range(<<x, y>>) = {x, y}
      BY FewCalls
    <3> QED
      BY <3>1, <3>2, <3>3
  <2> QED
    BY <1>6, <2>1, <2>2, <2>3, <2>4
<1>8. /\ c.op # "WriteRow" => \A d \in Range(Tail(calls)) : d.op # "WriteRow"
      /\ c.op = "WriteRow" => Range(left) = Range(Tail(calls))
  BY <1>1, <1>2, <1>3, <1>6, InLineRest
<1> HIDE DEF v, left
<1>9. ASSUME NEW d \in Range(left), d.op = "WriteRow"
      PROVE  /\ Column(d.with, "outputs") = Of(v.outputs, d.on)
             /\ Column(d.with, "inputs") \subseteq Of(v.inputs, d.on)
             /\ \A e \in Range(left) : e.op = "WriteRow" /\ e.on = d.on => e = d
  <2>1. CASE c.op = "WriteRow"
    <3>1. d \in Range(calls) /\ \A e \in Range(left) : e \in Range(calls)
      BY <1>1, <1>8, <1>9, <2>1
    <3>2. /\ Column(d.with, "outputs") = Of(t.outputs, d.on)
          /\ Column(d.with, "inputs") \subseteq Of(t.inputs, d.on)
          /\ \A e \in Range(calls) : e.op = "WriteRow" /\ e.on = d.on => e = d
      BY <1>2, <1>9, <3>1 DEF Removing
    <3>3. Column(d.with, "inputs") \subseteq Of(v.inputs, d.on)
      <4>1. CASE d.on = c.on
        <5>1. c = d
          BY <1>1, <2>1, <3>2, <4>1
        <5>2. \A i \in Column(d.with, "inputs") : <<d.on, i>> \in v.inputs
          BY <1>4, <2>1, <5>1 DEF Instead
        <5> QED
          BY <5>2, Listed
      <4>2. CASE d.on # c.on
        <5>1. \A x \in t.inputs : x[1] = d.on => x \in v.inputs
          BY <1>4, <2>1, <4>2 DEF Instead
        <5>2. Of(t.inputs, d.on) \subseteq Of(v.inputs, d.on)
          BY <5>1 DEF Of
        <5> QED
          BY <3>2, <5>2
      <4> QED
        BY <4>1, <4>2
    <3> QED
      BY <1>4, <2>1, <3>1, <3>2, <3>3
  <2>2. CASE c.op # "WriteRow"
    <3>1. \A e \in Range(left) : e.op = "WriteRow" => e \in Range(Further(c)) /\ c.op = "ReadUsers"
      BY <1>3, <1>7, <1>8, <2>2
    <3>2. c.op = "ReadUsers"
      BY <1>9, <3>1
    <3> DEFINE S == UsersFound(c.on, c.with)
    <3>0. t \in Tables
      BY <1>1
    <3>3. Range(Further(c)) = {RowWithout(s, c.on) : s \in S}
      BY <3>0, <3>2, ReadUsersHolds
    <3> HIDE DEF S
    <3>4. \A e \in Range(left) : e.op = "WriteRow" => \E s : e = RowWithout(s, c.on)
      BY <3>1, <3>3
    <3>5. \A e \in Range(left) : e.op = "WriteRow" =>
            /\ e = RowWithout(e.on, c.on)
            /\ Column(e.with, "outputs") = Of(t.outputs, e.on)
            /\ Column(e.with, "inputs") \subseteq Of(t.inputs, e.on)
      <4> SUFFICES ASSUME NEW e \in Range(left), e.op = "WriteRow"
                   PROVE  /\ e = RowWithout(e.on, c.on)
                          /\ Column(e.with, "outputs") = Of(t.outputs, e.on)
                          /\ Column(e.with, "inputs") \subseteq Of(t.inputs, e.on)
        OBVIOUS
      <4>1. PICK s : e = RowWithout(s, c.on)
        BY <3>4
      <4> QED
        BY <4>1, RowWithoutHolds
    <3>6. v.outputs = t.outputs /\ v.inputs = t.inputs
      BY <1>4, <3>2
    <3> QED
      BY <1>9, <3>5, <3>6
  <2> QED
    BY <2>1, <2>2
<1>10. ASSUME NEW d \in Range(left), d.op = "KeepMain"
       PROVE  /\ StepOf[d.on] # None
              /\ \A x \in v.inputs : x[2] = d.on /\ SameNode(x) => x[1] \in d.with \/ \E q \in P : Untakes(q, x)
  <2>0. c.op # "WriteNodes"
    BY <1>4, <1>5, <1>10
  <2>1. CASE d \in Range(Tail(calls))
    BY <1>1, <1>2, <1>4, <1>10, <2>0, <2>1 DEF Removing
  <2>2. CASE d \in Range(Further(c))
    <3>1. c.op \in {"FindOutputs", "ReadIo"} /\ StepOf[d.on] # None /\ d = Keeping(d.on) /\ d.on \in t.objs
      BY <1>7, <1>10, <2>2
    <3>2. d.with = UsersNow(d.on)
      BY <3>1, RemovalCalls
    <3>3. ASSUME NEW x \in v.inputs, x[2] = d.on, SameNode(x)
          PROVE  x[1] \in d.with \/ \E q \in P : Untakes(q, x)
      <4>1. x \in t.inputs
        BY <1>4, <3>1, <3>3
      <4>2. Knows(t, P, x)
        BY <3>1, <3>3, <4>1 DEF Serves, AtCall, Wires, TakenKnown
      <4>3. x \in t.inputted => x[1] \in d.with
        BY <3>2, <3>3, UsersKnown
      <4> QED
        BY <4>2, <4>3 DEF Knows
    <3> QED
      BY <3>1, <3>3
  <2> QED
    BY <1>3, <1>10, <2>1, <2>2
<1> QED
  BY <1>3, <1>9, <1>10 DEF Removing, v, left

\* What is so of each call of an update of nodes, and of the outputs that it cuts.
Lost(r, i) == StepOf[i] = r.on /\ At[i] \notin r.with
CutCall(r, v, d) ==
    /\ d.op # "ReadForNodes"
    /\ d.op \in {"ReadUsers", "DropIo", "KeepMain"} => Lost(r, d.on)
    /\ d.op = "FindOutputs" => \A i \in d.with : Lost(r, i)
    /\ d.op = "WriteRow" /\ d.on = r.on =>
         \A i \in Of(v.inputs, r.on) : At[i] \in r.with => i \in Column(d.with, "inputs")
    /\ d.op = "WriteNodes" =>
         /\ \A i : i \in Column(d.with, "outputs") <=> i \in Of(v.outputs, r.on) /\ At[i] \in r.with
         /\ \A i \in Column(d.with, "inputs") : i \in Of(v.inputs, r.on) /\ At[i] \in r.with
CutOutput(r, v, calls, i) ==
    /\ \E d \in Range(calls) : d.op = "WriteNodes"
    /\ \/ i \notin v.objs \ v.loose
       \/ Call("DropIo", i, {}) \in Range(calls)
       \/ \E d \in Range(calls) : d.op = "FindOutputs" /\ i \in d.with

\* They are all there is.
LEMMA CuttingIs ==
    ASSUME NEW r, NEW v, NEW calls
    PROVE  Cutting(r, v, calls) <=>
             /\ \A d \in Range(calls) : CutCall(r, v, d)
             /\ \A i \in Of(v.outputs, r.on) : At[i] \notin r.with => CutOutput(r, v, calls, i)
BY DEF Cutting, CutCall, CutOutput, Lost

\* What an update of nodes calls after its first read.
FindLost(c) == Call("FindOutputs", c.on, LostOutputs(c.on, c.with))
WriteLeft(c) ==
    Call("WriteNodes", c.on,
         {z \in Row(c.on) : z[1] # "nodes" /\ At[z[2]] \in c.with} \cup {"nodes"} \X c.with)

\* The row that an update of nodes will write.
LEMMA NodesRow ==
    ASSUME NEW r, NEW c, c.op = "ReadForNodes", c.on = r.on, c.with = r.with,
           NEW find, find = FindLost(c), NEW write, write = WriteLeft(c)
    PROVE  /\ Further(c) = <<find, write>> /\ Range(Further(c)) = {find, write}
           /\ find.op = "FindOutputs" /\ write.op = "WriteNodes"
           /\ \A i : i \in find.with <=> i \in Of(t.outputs, r.on) /\ At[i] \notin r.with
           /\ \A i : i \in Column(write.with, "outputs") <=> i \in Of(t.outputs, r.on) /\ At[i] \in r.with
           /\ \A i : i \in Column(write.with, "inputs") <=> i \in Of(t.inputs, r.on) /\ At[i] \in r.with
<1> DEFINE cells == write.with
<1>1. Further(c) = <<find, write>>
  BY DEF Further, FindLost, WriteLeft
<1>2. Range(<<find, write>>) = {find, write}
  BY FewCalls
<1>3. /\ find.op = "FindOutputs" /\ write.op = "WriteNodes" /\ find.with = LostOutputs(r.on, r.with)
      /\ cells = {z \in Row(r.on) : z[1] # "nodes" /\ At[z[2]] \in r.with} \cup {"nodes"} \X r.with
  BY DEF Call, FindLost, WriteLeft
<1>4. /\ \A j : <<"outputs", j>> \in cells <=> j \in Of(t.outputs, r.on) /\ At[j] \in r.with
      /\ \A j : <<"inputs", j>> \in cells <=> j \in Of(t.inputs, r.on) /\ At[j] \in r.with
      /\ \A x \in cells : x = <<x[1], x[2]>>
  BY <1>3 DEF Row
<1>5. \A i : i \in find.with <=> i \in Of(t.outputs, r.on) /\ At[i] \notin r.with
  BY <1>3 DEF LostOutputs
<1> HIDE DEF cells
<1>6. \A a, j : j \in Column(cells, a) <=> <<a, j>> \in cells
  <2>1. \A a, j : <<a, j>> \in cells => j \in Column(cells, a)
    BY Listed
  <2>2. \A a, j : j \in Column(cells, a) => \E x \in cells : x[1] = a /\ x[2] = j
    BY DEF Column
  <2> SUFFICES ASSUME NEW a, NEW j, j \in Column(cells, a) PROVE <<a, j>> \in cells
    BY <2>1
  <2>3. PICK x \in cells : x[1] = a /\ x[2] = j
    BY <2>2
  <2>4. x = <<a, j>>
    BY <1>4, <2>3
  <2> QED
    BY <2>4
<1> QED
  BY <1>1, <1>2, <1>3, <1>4, <1>5, <1>6 DEF cells

\* The calls that a call of an update of nodes leads to.
LEMMA CutCallsFurther ==
    ASSUME NEW r, NEW b, NEW P, NEW calls, NEW c, Serves(r, b, P, calls, c), r.kind = "UpdateNodes",
           NEW d \in Range(Further(c))
    PROVE  CutCall(r, Result(c), d) /\ (d.op = "WriteNodes" => c.op = "ReadForNodes")
<1>1. /\ c.op \in OpsOf(r.kind) /\ (c.op \in OwnOps => c.on = r.on) /\ t \in Tables
      /\ c \in Range(calls)
  BY CallAt DEF Serves
<1>2. Progress(r, t, gone, P, calls) /\ Wires(t, gone, P)
  BY DEF Serves, AtCall
<1>3. c.op # "ReadForNodes" => CutCall(r, t, c)
  <2>1. c.op # "ReadForNodes" => calls # Program(r)
    <3>1. r.kind \in Removals
      BY DEF Removals
    <3>2. Program(r) = <<Call("ReadForNodes", r.on, r.with)>>
      BY DEF Program
    <3>3. Head(Program(r)) = Call("ReadForNodes", r.on, r.with)
      BY <3>2, OneCall
    <3>4. Head(Program(r)).op = "ReadForNodes"
      BY <3>3 DEF Call
    <3> QED
      BY <3>4 DEF Serves
  <2> QED
    BY <1>1, <1>2, <2>1, CuttingIs DEF Progress
<1>4. Further(c) # << >> => Result(c) = t
  BY ServesOn
<1>5. Range(<< >>) = {}
  BY FewCalls
<1>6. Result(c) = t
  BY <1>4, <1>5
<1>7. CASE c.op = "ReadForNodes"
  <2> DEFINE find == FindLost(c)
             write == WriteLeft(c)
  <2>1. c.on = r.on /\ c.with = r.with
    BY <1>7, FirstReads DEF Removals
  <2> HIDE DEF find, write
  <2>2. /\ Range(Further(c)) = {find, write}
        /\ find.op = "FindOutputs" /\ write.op = "WriteNodes"
        /\ \A i : i \in find.with <=> i \in Of(t.outputs, r.on) /\ At[i] \notin r.with
        /\ \A i : i \in Column(write.with, "outputs") <=> i \in Of(t.outputs, r.on) /\ At[i] \in r.with
        /\ \A i : i \in Column(write.with, "inputs") <=> i \in Of(t.inputs, r.on) /\ At[i] \in r.with
    BY <1>7, <2>1, NodesRow DEF find, write
  <2>3. \A x \in t.outputs : StepOf[x[2]] = x[1]
    BY <1>2 DEF Wires, Own
  <2>4. \A i \in Of(t.outputs, r.on) : StepOf[i] = r.on
    BY <2>3 DEF Of
  <2>5. CASE d = find
    BY <2>2, <2>4, <2>5 DEF CutCall, Lost
  <2>6. CASE d = write
    BY <1>6, <1>7, <2>2, <2>6 DEF CutCall
  <2> QED
    BY <2>2, <2>5, <2>6
<1>8. CASE c.op = "FindOutputs"
  <2>1. Range(Further(c)) = UNION {Range(Removal(i, "DeleteIo")) : i \in c.with \cap t.objs}
    BY <1>1, <1>8, FindOutputsHolds
  <2>2. PICK i \in c.with \cap t.objs : d \in Range(Removal(i, "DeleteIo"))
    BY <2>1
  <2>3. \/ Range(Removal(i, "DeleteIo")) = {Asking(i), Dropping(i)}
        \/ Range(Removal(i, "DeleteIo")) = {Asking(i), Dropping(i), Keeping(i)}
    BY RemovalHolds
  <2>4. d \in {Asking(i), Dropping(i), Keeping(i)}
    BY <2>2, <2>3
  <2>5. d.on = i /\ d.op \in {"ReadUsers", "DropIo", "KeepMain"}
    BY <2>4, RemovalCalls
  <2>6. Lost(r, i)
    BY <1>3, <1>8, <2>2 DEF CutCall
  <2> QED
    BY <2>5, <2>6 DEF CutCall
<1>9. CASE c.op = "ReadUsers"
  <2> DEFINE S == UsersFound(c.on, c.with)
  <2>1. Range(Further(c)) = {RowWithout(s, c.on) : s \in S}
    BY <1>1, <1>9, ReadUsersHolds
  <2> HIDE DEF S
  <2>2. PICK s : d = RowWithout(s, c.on)
    BY <2>1
  <2>3. /\ d.op = "WriteRow" /\ d.on = s
        /\ \A j : j \in Column(d.with, "inputs") <=> j \in Of(t.inputs, s) /\ j # c.on
    BY <2>2, RowWithoutHolds
  <2>4. At[c.on] \notin r.with
    BY <1>3, <1>9 DEF CutCall, Lost
  <2> QED
    BY <1>6, <2>3, <2>4 DEF CutCall
<1>10. CASE c.op \notin {"ReadForNodes", "FindOutputs", "ReadUsers"}
  <2>1. c.op \notin ReadOps
    BY <1>1, <1>10 DEF OpsOf, ReadOps
  <2> QED
    BY <1>5, <2>1, ServesOn
<1> QED
  BY <1>7, <1>8, <1>9, <1>10

\* What is left of an update of nodes, once it has read its step.
LEMMA CuttingNow ==
    ASSUME NEW r, NEW b, NEW P, NEW calls, NEW c, Serves(r, b, P, calls, c), r.kind = "UpdateNodes",
           c.op # "ReadForNodes"
    PROVE  /\ \A d \in Range(calls) : CutCall(r, t, d)
           /\ \A i \in Of(t.outputs, r.on) : At[i] \notin r.with => CutOutput(r, t, calls, i)
<1>1. r.kind \in Removals
  BY DEF Removals
<1>2. calls # Program(r)
  BY <1>1, FirstReads
<1>3. Cutting(r, t, calls)
  BY <1>2 DEF Serves, AtCall, Progress
<1> QED
  BY <1>3, CuttingIs

\* The calls that were left already.
LEMMA CutCallsLeft ==
    ASSUME NEW r, NEW b, NEW P, NEW calls, NEW c, Serves(r, b, P, calls, c), r.kind = "UpdateNodes",
           NEW d \in Range(Tail(calls))
    PROVE  CutCall(r, Result(c), d)
<1> DEFINE v == Result(c)
<1>1. /\ c.op \in OpsOf(r.kind) /\ t \in Tables /\ c \in Range(calls) /\ d \in Range(calls)
      /\ c = Head(calls) /\ calls # << >> /\ calls \in Seq(Fitting(r, b, t))
  BY CallAt DEF Serves
<1>2. r.kind \in Removals
  BY DEF Removals
<1>3. Range(<< >>) = {}
  BY FewCalls
<1>4. c.op # "ReadForNodes"
  <2> SUFFICES ASSUME c.op = "ReadForNodes" PROVE FALSE
    OBVIOUS
  <2>1. Tail(calls) = << >>
    BY <1>2, FirstReads
  <2> QED
    BY <1>3, <2>1
<1>5. CutCall(r, t, c) /\ CutCall(r, t, d)
  BY <1>1, <1>4, CuttingNow
<1>6. c.op # "WriteNodes"
  <2>1. InLine(calls)
    BY <1>2, AlwaysRemoving DEF Serves, Removing
  <2> QED
    BY <1>1, <1>3, <2>1, InLineRest
<1>7. /\ v.outputs = t.outputs /\ v.inputs \subseteq t.inputs
      /\ c.op # "WriteRow" => v.inputs = t.inputs
      /\ c.op = "WriteRow" => v.inputs = Instead(t.inputs, c.on, Column(c.with, "inputs"))
  <2>1. c.op # "WriteOutputs"
    BY <1>1 DEF OpsOf
  <2> QED
    BY <1>2, <1>6, <2>1, RemovalColumns
<1> HIDE DEF v
<1>8. Of(v.inputs, r.on) \subseteq Of(t.inputs, r.on) /\ Of(v.outputs, r.on) = Of(t.outputs, r.on)
  BY <1>7 DEF Of
<1>9. \A i \in Of(t.inputs, r.on) : At[i] \in r.with => i \in Of(v.inputs, r.on)
  <2> SUFFICES ASSUME NEW i \in Of(t.inputs, r.on), At[i] \in r.with
               PROVE  i \in Of(v.inputs, r.on)
    OBVIOUS
  <2>1. CASE c.op = "WriteRow" /\ c.on = r.on
    <3>1. i \in Column(c.with, "inputs")
      BY <1>5, <2>1 DEF CutCall
    <3>2. <<r.on, i>> \in v.inputs
      BY <1>7, <2>1, <3>1 DEF Instead
    <3> QED
      BY <3>2, Listed
  <2>2. CASE ~(c.op = "WriteRow" /\ c.on = r.on)
    <3>1. PICK x \in t.inputs : x[1] = r.on /\ x[2] = i
      BY DEF Of
    <3>2. x \in v.inputs
      BY <1>7, <2>2, <3>1 DEF Instead
    <3> QED
      BY <3>1, <3>2 DEF Of
  <2> QED
    BY <2>1, <2>2
<1>10. d.op = "WriteRow" /\ d.on = r.on =>
         \A i \in Of(v.inputs, r.on) : At[i] \in r.with => i \in Column(d.with, "inputs")
  BY <1>5, <1>8 DEF CutCall
<1>11. d.op = "WriteNodes" =>
         /\ \A i : i \in Column(d.with, "outputs") <=> i \in Of(v.outputs, r.on) /\ At[i] \in r.with
         /\ \A i \in Column(d.with, "inputs") : i \in Of(v.inputs, r.on) /\ At[i] \in r.with
  BY <1>5, <1>8, <1>9 DEF CutCall
<1> QED
  BY <1>5, <1>10, <1>11 DEF CutCall, v

\* The outputs that are still to be cut.
LEMMA CutOutputs ==
    ASSUME NEW r, NEW b, NEW P, NEW calls, NEW c, Serves(r, b, P, calls, c), r.kind = "UpdateNodes",
           NEW v, v = Result(c), NEW i \in Of(v.outputs, r.on), At[i] \notin r.with
    PROVE  CutOutput(r, v, Onward(c, calls), i)
<1> DEFINE left == Onward(c, calls)
<1>1. /\ c.op \in OpsOf(r.kind) /\ t \in Tables /\ c \in Range(calls) /\ Works(r, b, c)
      /\ c = Head(calls) /\ calls # << >> /\ calls \in Seq(Fitting(r, b, t))
      /\ Range(calls) = {c} \cup Range(Tail(calls)) /\ (c.op \in OwnOps => c.on = r.on)
  BY CallAt DEF Serves
<1>2. r.kind \in Removals
  BY DEF Removals
<1>3. Range(left) = Range(Further(c)) \cup Range(Tail(calls))
  BY LeftHolds
<1>4. c.op \in ReadOps => v = t
  BY ServesOn
<1> HIDE DEF left
<1>5. CASE c.op = "ReadForNodes"
  <2> DEFINE find == FindLost(c)
             write == WriteLeft(c)
  <2>1. c.on = r.on /\ c.with = r.with
    BY <1>2, <1>5, FirstReads
  <2> HIDE DEF find, write
  <2>2. /\ Range(Further(c)) = {find, write}
        /\ find.op = "FindOutputs" /\ write.op = "WriteNodes"
        /\ \A j : j \in find.with <=> j \in Of(t.outputs, r.on) /\ At[j] \notin r.with
    BY <1>5, <2>1, NodesRow DEF find, write
  <2>3. v = t
    BY <1>4, <1>5 DEF ReadOps
  <2> QED
    BY <1>3, <2>2, <2>3 DEF CutOutput, left
<1>6. CASE c.op = "WriteNodes"
  <2>1. CutCall(r, t, c)
    BY <1>1, <1>6, CuttingNow
  <2>2. c.on = r.on
    BY <1>1, <1>6 DEF OwnOps
  <2>3. v.outputs = Instead(t.outputs, c.on, Column(c.with, "outputs"))
    BY <1>1, <1>6, CallShown DEF Shown, Shows
  <2>4. PICK x \in v.outputs : x[1] = r.on /\ x[2] = i
    BY DEF Of
  <2>5. i \in Column(c.with, "outputs")
    BY <2>2, <2>3, <2>4 DEF Instead
  <2> QED
    BY <1>6, <2>1, <2>5 DEF CutCall
<1>7. CASE c.op \notin {"ReadForNodes", "WriteNodes"}
  <2>1. v.outputs = t.outputs
    <3>1. c.op # "WriteOutputs"
      BY <1>1 DEF OpsOf
    <3> QED
      BY <1>2, <1>7, <3>1, RemovalColumns
  <2>2. CutOutput(r, t, calls, i)
    BY <1>7, <2>1, CuttingNow
  <2>3. \E d \in Range(left) : d.op = "WriteNodes"
    BY <1>1, <1>3, <1>7, <2>2 DEF CutOutput
  <2>4. i \notin t.objs \ t.loose => i \notin v.objs \ v.loose
    <3>1. CASE c.op \in ReadOps
      BY <1>4, <3>1
    <3>2. CASE c.op \in {"DropIo", "KeepMain", "WriteRow"}
      BY <1>1, <3>2, CallShown DEF Shown, Shows, Drops
    <3> QED
      BY <1>1, <1>7, <3>1, <3>2 DEF OpsOf, ReadOps
  <2>5. CASE i \notin t.objs \ t.loose
    BY <2>3, <2>4, <2>5 DEF CutOutput, left
  <2>6. CASE Call("DropIo", i, {}) \in Range(calls)
    <3>1. CASE Call("DropIo", i, {}) = c
      <4>1. c.op = "DropIo" /\ c.on = i
        BY <3>1 DEF Call
      <4>2. v.objs = t.objs \ {i}
        BY <1>1, <4>1, CallShown DEF Shown, Shows, Drops
      <4> QED
        BY <2>3, <4>2 DEF CutOutput, left
    <3>2. CASE Call("DropIo", i, {}) # c
      BY <1>1, <1>3, <2>3, <2>6, <3>2 DEF CutOutput, left
    <3> QED
      BY <3>1, <3>2
  <2>7. CASE \E d \in Range(calls) : d.op = "FindOutputs" /\ i \in d.with
    <3>1. PICK d \in Range(calls) : d.op = "FindOutputs" /\ i \in d.with
      BY <2>7
    <3>2. CASE d # c
      BY <1>1, <1>3, <2>3, <3>1, <3>2 DEF CutOutput, left
    <3>3. CASE d = c /\ i \notin t.objs
      BY <2>3, <2>4, <3>3 DEF CutOutput, left
    <3>4. CASE d = c /\ i \in t.objs
      <4>1. Range(Further(c)) = UNION {Range(Removal(j, "DeleteIo")) : j \in c.with \cap t.objs}
        BY <1>1, <3>1, <3>4, FindOutputsHolds
      <4>2. Dropping(i) \in Range(Removal(i, "DeleteIo"))
        BY RemovalHolds
      <4>3. Dropping(i) \in Range(left)
        BY <1>3, <3>1, <3>4, <4>1, <4>2
      <4> QED
        BY <2>3, <4>3 DEF CutOutput, left, Dropping
    <3> QED
      BY <3>2, <3>3, <3>4
  <2> QED
    BY <2>2, <2>5, <2>6, <2>7 DEF CutOutput
<1> QED
  BY <1>5, <1>6, <1>7

\* What is left of an update of nodes after a call is what it should be.
LEMMA ProgressNodes ==
    ASSUME NEW r, NEW b, NEW P, NEW calls, NEW c, Serves(r, b, P, calls, c), r.kind = "UpdateNodes",
           NEW left, left = Onward(c, calls)
    PROVE  Progress(r, Result(c), Forgotten(c), P, left)
<1> DEFINE v == Result(c)
<1>1. Range(left) = Range(Further(c)) \cup Range(Tail(calls))
  BY LeftHolds
<1>2. \A d \in Range(left) : CutCall(r, v, d)
  BY <1>1, CutCallsFurther, CutCallsLeft
<1>3. \A i \in Of(v.outputs, r.on) : At[i] \notin r.with => CutOutput(r, v, left, i)
  BY CutOutputs
<1>4. Cutting(r, v, left)
  BY <1>2, <1>3, CuttingIs
<1>5. Removing(v, P, left)
  BY RemovingOn DEF Removals
<1> QED
  BY <1>4, <1>5 DEF Progress

\* What the deletion of an IO calls after its first read.
LEMMA ReadIoCalls ==
    ASSUME NEW r, NEW b, NEW P, NEW calls, NEW c, Serves(r, b, P, calls, c), c.op = "ReadIo",
           NEW i, i = c.on
    PROVE  /\ Dropping(i) \in Range(Further(c))
           /\ \A d \in Range(Further(c)) :
                \/ d.op = "PullInitial" /\ StepOf[i] = None
                \/ d.op = "ReadToPull" /\ StepOf[i] # None
                \/ d.op \in {"ReadUsers", "DropIo"} /\ d.on = i
                \/ d.op = "KeepMain" /\ d.on = i /\ i \notin t.loose
           /\ (\A d \in Range(Further(c)) : d.op \notin PullOps) => StepOf[i] # None /\ i \in t.loose
<1> DEFINE pull == Call("PullInitial", i, {})
           read == Call("ReadToPull", i, {})
           rest == Removal(i, CHOOSE kind \in c.with : TRUE)
<1>1. /\ \/ StepOf[i] = None /\ Range(Further(c)) = {pull} \cup Range(rest)
         \/ StepOf[i] # None /\ i \in t.loose /\ Range(Further(c)) = Range(rest)
         \/ StepOf[i] # None /\ i \notin t.loose /\ Range(Further(c)) = {read} \cup Range(rest)
      /\ pull.op = "PullInitial" /\ read.op = "ReadToPull"
  BY ReadIoHolds
<1>2. \/ Range(rest) = {Asking(i), Dropping(i)}
      \/ Range(rest) = {Asking(i), Dropping(i), Keeping(i)} /\ i \notin t.loose
  BY RemovalHolds
<1> HIDE DEF pull, read, rest
<1> QED
  BY <1>1, <1>2, RemovalCalls DEF PullOps

\* What is so of each call of the deletion of an IO, and of the IO.
PullCall(r, v, d) ==
    /\ d.op # "ReadIo"
    /\ d.op \in {"ReadUsers", "DropIo", "KeepMain"} => d.on = r.on
    /\ d.op = "PullInitial" => StepOf[r.on] = None
    /\ d.op \in {"ReadToPull", "WriteOutputs"} => StepOf[r.on] # None
    /\ d.op = "WriteOutputs" => d.on = StepOf[r.on] /\ d.with = Of(v.outputs, StepOf[r.on]) \ {r.on}
Pulled(calls) == \A d \in Range(calls) : d.op \notin PullOps
PullsOnce(r, v, calls) ==
    /\ (\E d \in Range(calls) : d.op = "WriteRow") => Pulled(calls)
    /\ Pulled(calls) /\ StepOf[r.on] = None => r.on \notin v.initial
    /\ Pulled(calls) /\ <<StepOf[r.on], r.on>> \in v.outputs =>
         r.on \notin v.objs \ v.loose /\ \A d \in Range(calls) : d.op # "KeepMain"
    /\ \/ Dropping(r.on) \in Range(calls)
       \/ r.on \notin v.objs
       \/ r.on \in v.loose /\ StepOf[r.on] # None

\* They are all there is.
LEMMA PullingIs ==
    ASSUME NEW r, NEW v, NEW calls
    PROVE  Pulling(r, v, calls) <=>
             (\A d \in Range(calls) : PullCall(r, v, d)) /\ PullsOnce(r, v, calls)
BY DEF Pulling, PullCall, PullsOnce, Pulled, Dropping

\* What is left of the deletion of an IO, once it has read it.
LEMMA PullingNow ==
    ASSUME NEW r, NEW b, NEW P, NEW calls, NEW c, Serves(r, b, P, calls, c),
           r.kind \in {"DeleteIo", "PurgeIo"}, c.op # "ReadIo"
    PROVE  /\ \A d \in Range(calls) : PullCall(r, t, d)
           /\ PullsOnce(r, t, calls)
<1>1. r.kind \in Removals
  BY DEF Removals
<1>2. c.op # "ReadForNodes"
  BY CallAt DEF Serves, OpsOf
<1>3. calls # Program(r)
  BY <1>1, <1>2, FirstReads
<1>4. Pulling(r, t, calls)
  BY <1>3 DEF Serves, AtCall, Progress
<1> QED
  BY <1>4, PullingIs

\* After the read, the IO is to be pulled if it has a place.
LEMMA PullsFirst ==
    ASSUME NEW r, NEW b, NEW P, NEW calls, NEW c, Serves(r, b, P, calls, c),
           r.kind \in {"DeleteIo", "PurgeIo"}, c.op = "ReadIo",
           NEW v, v = Result(c), NEW left, left = Onward(c, calls)
    PROVE  (\A d \in Range(left) : PullCall(r, v, d)) /\ PullsOnce(r, v, left)
<1>1. Range(left) = Range(Further(c)) \cup Range(Tail(calls))
  BY LeftHolds
<1>2. Tail(calls) = << >> /\ c.on = r.on
  BY FirstReads DEF Removals
<1>3. Range(<< >>) = {}
  BY FewCalls
<1>4. Range(Tail(calls)) = {}
  BY <1>2, <1>3
<1>5. Range(left) = Range(Further(c))
  BY <1>1, <1>4
<1>6. v = t
  BY ServesOn DEF ReadOps
<1> DEFINE i == r.on
<1>7. /\ Dropping(i) \in Range(Further(c))
      /\ \A d \in Range(Further(c)) :
           \/ d.op = "PullInitial" /\ StepOf[i] = None
           \/ d.op = "ReadToPull" /\ StepOf[i] # None
           \/ d.op \in {"ReadUsers", "DropIo"} /\ d.on = i
           \/ d.op = "KeepMain" /\ d.on = i /\ i \notin t.loose
      /\ (\A d \in Range(Further(c)) : d.op \notin PullOps) => StepOf[i] # None /\ i \in t.loose
  BY <1>2, ReadIoCalls
<1>8. \A d \in Range(left) : PullCall(r, v, d)
  BY <1>5, <1>7 DEF PullCall
<1>9. Pulled(left) => StepOf[i] # None /\ i \in t.loose
  BY <1>5, <1>7 DEF Pulled
<1>10. PullsOnce(r, v, left)
  BY <1>5, <1>6, <1>7, <1>9 DEF PullsOnce
<1> QED
  BY <1>8, <1>10

\* What the calls of the deletion of an IO do to what is said of it.
LEMMA PullCalls ==
    ASSUME NEW r, NEW b, NEW P, NEW calls, NEW c, Serves(r, b, P, calls, c),
           r.kind \in {"DeleteIo", "PurgeIo"}, c.op # "ReadIo"
    PROVE  /\ \A d \in Range(Tail(calls)) : d.op \notin PullOps
           /\ c.op = "ReadUsers" => \A d \in Range(Further(c)) : d.op = "WriteRow"
           /\ c.op = "ReadToPull" =>
                Range(Further(c)) = {Call("WriteOutputs", StepOf[r.on], Of(t.outputs, StepOf[r.on]) \ {r.on})}
           /\ c.op \notin {"ReadUsers", "ReadToPull"} => Range(Further(c)) = {}
           /\ Range(Onward(c, calls)) = Range(Further(c)) \cup Range(Tail(calls))
<1>1. /\ c.op \in OpsOf(r.kind) /\ t \in Tables /\ c \in Range(calls) /\ Works(r, b, c)
      /\ c = Head(calls) /\ calls # << >> /\ calls \in Seq(Fitting(r, b, t))
      /\ Range(calls) = {c} \cup Range(Tail(calls)) /\ (c.op \in OwnOps => c.on = r.on)
  BY CallAt DEF Serves
<1>2. r.kind \in Removals
  BY DEF Removals
<1>3. Range(Onward(c, calls)) = Range(Further(c)) \cup Range(Tail(calls))
  BY LeftHolds
<1>4. InLine(calls)
  BY <1>2, AlwaysRemoving DEF Serves, Removing
<1>5. /\ c.op # "WriteRow" => \A d \in Range(calls) : d.op # "WriteRow"
      /\ \A d \in Range(Tail(calls)) : d.op \notin PullOps
  BY <1>1, <1>4, InLineRest DEF EarlyOps
<1>6. c.op = "ReadUsers" => \A d \in Range(Further(c)) : d.op = "WriteRow"
  BY <1>2, FurtherOps
<1>7. c.op = "ReadToPull" =>
        Range(Further(c)) = {Call("WriteOutputs", StepOf[r.on], Of(t.outputs, StepOf[r.on]) \ {r.on})}
  <2> SUFFICES ASSUME c.op = "ReadToPull"
               PROVE  Range(Further(c)) =
                        {Call("WriteOutputs", StepOf[r.on], Of(t.outputs, StepOf[r.on]) \ {r.on})}
    OBVIOUS
  <2> DEFINE x == Call("WriteOutputs", StepOf[r.on], Of(t.outputs, StepOf[r.on]) \ {r.on})
  <2>1. c.on = r.on
    BY <1>1 DEF OwnOps
  <2>2. Further(c) = <<x>>
    BY <1>2, <2>1, FurtherOps
  <2> HIDE DEF x
  <2>3. Range(<<x>>) = {x}
    BY FewCalls
  <2> QED
    BY <2>2, <2>3 DEF x
<1>8. c.op \notin {"ReadUsers", "ReadToPull"} => Range(Further(c)) = {}
  <2> SUFFICES ASSUME c.op \notin {"ReadUsers", "ReadToPull"} PROVE Range(Further(c)) = {}
    OBVIOUS
  <2>1. c.op \notin ReadOps
    BY <1>1 DEF OpsOf, ReadOps
  <2>2. Further(c) = << >>
    BY <2>1, ServesOn
  <2>3. Range(<< >>) = {}
    BY FewCalls
  <2> QED
    BY <2>2, <2>3
<1> QED
  BY <1>3, <1>5, <1>6, <1>7, <1>8

\* Once its place is written, nothing pulls the IO again.
LEMMA PulledOn ==
    ASSUME NEW r, NEW b, NEW P, NEW calls, NEW c, Serves(r, b, P, calls, c),
           r.kind \in {"DeleteIo", "PurgeIo"}, c.op # "ReadIo"
    PROVE  /\ c.op # "WriteRow" => \A d \in Range(calls) : d.op # "WriteRow"
           /\ c.op \notin PullOps => Pulled(calls)
           /\ c.op # "ReadToPull" => Pulled(Onward(c, calls))
<1>1. /\ c \in Range(calls) /\ c = Head(calls) /\ calls # << >> /\ calls \in Seq(Fitting(r, b, t))
      /\ Range(calls) = {c} \cup Range(Tail(calls))
  BY CallAt DEF Serves
<1>2. InLine(calls)
  BY AlwaysRemoving DEF Serves, Removing, Removals
<1>3. c.op # "WriteRow" => \A d \in Range(calls) : d.op # "WriteRow"
  BY <1>1, <1>2, InLineRest
<1>5. /\ \A d \in Range(Tail(calls)) : d.op \notin PullOps
      /\ c.op = "ReadUsers" => \A d \in Range(Further(c)) : d.op = "WriteRow"
      /\ c.op = "ReadToPull" =>
           Range(Further(c)) = {Call("WriteOutputs", StepOf[r.on], Of(t.outputs, StepOf[r.on]) \ {r.on})}
      /\ c.op \notin {"ReadUsers", "ReadToPull"} => Range(Further(c)) = {}
      /\ Range(Onward(c, calls)) = Range(Further(c)) \cup Range(Tail(calls))
  BY PullCalls
<1>9. c.op \notin PullOps => Pulled(calls)
  BY <1>1, <1>5 DEF Pulled
<1>10. c.op # "ReadToPull" => Pulled(Onward(c, calls))
  BY <1>5 DEF Pulled, PullOps
<1> QED
  BY <1>3, <1>9, <1>10

\* The calls that are left pull and remove nothing but this IO.
LEMMA PullCallsLeft ==
    ASSUME NEW r, NEW b, NEW P, NEW calls, NEW c, Serves(r, b, P, calls, c),
           r.kind \in {"DeleteIo", "PurgeIo"}, c.op # "ReadIo",
           NEW left, left = Onward(c, calls), NEW d \in Range(left)
    PROVE  PullCall(r, Result(c), d)
<1>1. Range(calls) = {c} \cup Range(Tail(calls))
  BY CallAt DEF Serves
<1>2. /\ \A e \in Range(Tail(calls)) : e.op \notin PullOps
      /\ c.op = "ReadUsers" => \A e \in Range(Further(c)) : e.op = "WriteRow"
      /\ c.op = "ReadToPull" =>
           Range(Further(c)) = {Call("WriteOutputs", StepOf[r.on], Of(t.outputs, StepOf[r.on]) \ {r.on})}
      /\ c.op \notin {"ReadUsers", "ReadToPull"} => Range(Further(c)) = {}
      /\ Range(left) = Range(Further(c)) \cup Range(Tail(calls))
  BY PullCalls
<1>3. \A e \in Range(calls) : PullCall(r, t, e)
  BY PullingNow
<1>4. CASE d \in Range(Tail(calls))
  BY <1>1, <1>2, <1>3, <1>4 DEF PullCall, PullOps
<1>5. CASE d \in Range(Further(c)) /\ c.op = "ReadUsers"
  BY <1>2, <1>5 DEF PullCall
<1>6. CASE d \in Range(Further(c)) /\ c.op = "ReadToPull"
  <2>1. Result(c) = t
    BY <1>6, ServesOn DEF ReadOps
  <2>2. StepOf[r.on] # None
    BY <1>1, <1>3, <1>6 DEF PullCall
  <2>3. d = Call("WriteOutputs", StepOf[r.on], Of(t.outputs, StepOf[r.on]) \ {r.on})
    BY <1>2, <1>6
  <2>4. d.op = "WriteOutputs" /\ d.on = StepOf[r.on] /\ d.with = Of(t.outputs, StepOf[r.on]) \ {r.on}
    BY <2>3 DEF Call
  <2> QED
    BY <2>1, <2>2, <2>4 DEF PullCall
<1> QED
  BY <1>2, <1>4, <1>5, <1>6

\* What the calls of the deletion of an IO write.
LEMMA PullWrites ==
    ASSUME NEW r, NEW b, NEW P, NEW calls, NEW c, Serves(r, b, P, calls, c),
           r.kind \in {"DeleteIo", "PurgeIo"}, c.op # "ReadIo", NEW v, v = Result(c)
    PROVE  /\ c.op \in {"ReadUsers", "ReadToPull"} => v = t
           /\ c.op \in {"PullInitial", "WriteOutputs", "WriteRow"} => v.objs = t.objs /\ v.loose = t.loose
           /\ c.op # "PullInitial" => v.initial = t.initial
           /\ c.op # "WriteOutputs" => v.outputs = t.outputs
           /\ c.op = "PullInitial" => r.on \notin v.initial /\ StepOf[r.on] = None
           /\ c.op = "WriteOutputs" => <<StepOf[r.on], r.on>> \notin v.outputs /\ StepOf[r.on] # None
           /\ c.op = "DropIo" => r.on \notin v.objs
           /\ c.op = "KeepMain" => r.on \in v.loose /\ StepOf[r.on] # None
           /\ c.op \in {"ReadUsers", "ReadToPull", "PullInitial", "WriteOutputs", "WriteRow", "DropIo", "KeepMain"}
<1>1. /\ c.op \in OpsOf(r.kind) /\ t \in Tables /\ c \in Range(calls) /\ Works(r, b, c)
      /\ (c.op \in OwnOps => c.on = r.on)
  BY CallAt DEF Serves
<1>2. PullCall(r, t, c)
  BY <1>1, PullingNow
<1>3. c.op \in {"ReadUsers", "ReadToPull", "PullInitial", "WriteOutputs", "WriteRow", "DropIo", "KeepMain"}
  BY <1>1 DEF OpsOf
<1>4. r.kind \in Removals
  BY DEF Removals
<1>5. CASE c.op \in {"ReadUsers", "ReadToPull"}
  <2>1. v = t
    BY <1>5, ServesOn DEF ReadOps
  <2> QED
    BY <1>5, <2>1
<1>6. CASE c.op = "PullInitial"
  <2>1. c.on = r.on /\ StepOf[r.on] = None
    BY <1>1, <1>2, <1>6 DEF OwnOps, PullCall
  <2>2. /\ v.objs = t.objs /\ v.loose = t.loose /\ v.outputs = t.outputs
        /\ v.initial = t.initial \ {c.on}
    BY <1>1, <1>6, CallShown DEF Shown, Shows
  <2> QED
    BY <1>6, <2>1, <2>2
<1>7. CASE c.op = "WriteOutputs"
  <2> DEFINE s == StepOf[r.on]
  <2>1. s # None /\ c.on = s /\ c.with = Of(t.outputs, s) \ {r.on}
    BY <1>2, <1>7 DEF PullCall
  <2>2. /\ v.objs = t.objs /\ v.loose = t.loose /\ v.initial = t.initial
        /\ v.outputs = Instead(t.outputs, c.on, c.with)
    BY <1>1, <1>7, CallShown DEF Shown, Shows
  <2>3. <<s, r.on>> \notin v.outputs
    BY <2>1, <2>2 DEF Instead
  <2> QED
    BY <1>7, <2>1, <2>2, <2>3
<1>8. CASE c.op = "WriteRow"
  <2>1. /\ v.objs = t.objs /\ v.loose = t.loose /\ v.initial = t.initial
    BY <1>1, <1>8, CallShown DEF Shown, Shows
  <2>2. v.outputs = t.outputs
    BY <1>4, <1>8, RemovalColumns
  <2> QED
    BY <1>8, <2>1, <2>2
<1>9. CASE c.op = "DropIo"
  <2>1. c.on = r.on
    BY <1>2, <1>9 DEF PullCall
  <2>2. v.objs = t.objs \ {c.on} /\ v.initial = t.initial
    BY <1>1, <1>9, CallShown DEF Shown, Shows, Drops
  <2>3. v.outputs = t.outputs
    BY <1>4, <1>9, RemovalColumns
  <2> QED
    BY <1>9, <2>1, <2>2, <2>3
<1>10. CASE c.op = "KeepMain"
  <2>1. c.on = r.on
    BY <1>2, <1>10 DEF PullCall
  <2>2. v.loose = t.loose \cup {c.on} /\ v.initial = t.initial
    BY <1>1, <1>10, CallShown DEF Shown, Shows
  <2>3. v.outputs = t.outputs
    BY <1>4, <1>10, RemovalColumns
  <2>4. StepOf[c.on] # None
    BY <1>1, <1>4, <1>10, AlwaysRemoving, ZenonT(60) DEF Serves, Removing
  <2> QED
    BY <1>10, <2>1, <2>2, <2>3, <2>4
<1> QED
  BY <1>3, <1>5, <1>6, <1>7, <1>8, <1>9, <1>10

\* What is left of the deletion of an IO after a call is what it should be.
LEMMA PullsOn ==
    ASSUME NEW r, NEW b, NEW P, NEW calls, NEW c, Serves(r, b, P, calls, c),
           r.kind \in {"DeleteIo", "PurgeIo"}, c.op # "ReadIo",
           NEW v, v = Result(c), NEW left, left = Onward(c, calls)
    PROVE  PullsOnce(r, v, left)
<1> DEFINE i == r.on
           s == StepOf[r.on]
<1> HIDE DEF i, s
<1>1. /\ Range(calls) = {c} \cup Range(Tail(calls)) /\ c \in Range(calls) /\ t \in Tables
  BY CallAt DEF Serves
<1>2. /\ \A e \in Range(Tail(calls)) : e.op \notin PullOps
      /\ c.op = "ReadUsers" => \A e \in Range(Further(c)) : e.op = "WriteRow"
      /\ c.op = "ReadToPull" =>
           Range(Further(c)) = {Call("WriteOutputs", StepOf[r.on], Of(t.outputs, StepOf[r.on]) \ {r.on})}
      /\ c.op \notin {"ReadUsers", "ReadToPull"} => Range(Further(c)) = {}
      /\ Range(left) = Range(Further(c)) \cup Range(Tail(calls))
  BY PullCalls
<1>10. /\ c.op # "WriteRow" => \A d \in Range(calls) : d.op # "WriteRow"
       /\ c.op \notin PullOps => Pulled(calls)
       /\ c.op # "ReadToPull" => Pulled(left)
  <2>1. /\ c.op # "WriteRow" => \A d \in Range(calls) : d.op # "WriteRow"
        /\ c.op \notin PullOps => Pulled(calls)
        /\ c.op # "ReadToPull" => Pulled(Onward(c, calls))
    BY PulledOn
  <2> QED
    BY <2>1
<1>3. c.op = "ReadToPull" =>
        Range(Further(c)) = {Call("WriteOutputs", StepOf[r.on], Of(t.outputs, StepOf[r.on]) \ {r.on})}
  BY <1>2
<1>4. PullsOnce(r, t, calls)
  BY PullingNow
<1>5. /\ c.op \in {"ReadUsers", "ReadToPull"} => v = t
      /\ c.op \in {"PullInitial", "WriteOutputs", "WriteRow"} => v.objs = t.objs /\ v.loose = t.loose
      /\ c.op # "PullInitial" => v.initial = t.initial
      /\ c.op # "WriteOutputs" => v.outputs = t.outputs
      /\ c.op = "PullInitial" => i \notin v.initial /\ s = None
      /\ c.op = "WriteOutputs" => <<s, i>> \notin v.outputs /\ s # None
      /\ c.op = "DropIo" => i \notin v.objs
      /\ c.op = "KeepMain" => i \in v.loose /\ s # None
      /\ c.op \in {"ReadUsers", "ReadToPull", "PullInitial", "WriteOutputs", "WriteRow", "DropIo", "KeepMain"}
  BY PullWrites DEF i, s
<1>6. Dropping(i).op = "DropIo"
  BY RemovalCalls DEF i
<1>7. \/ Dropping(i) \in Range(left)
      \/ i \notin v.objs
      \/ i \in v.loose /\ s # None
  <2>1. CASE c.op \in {"DropIo", "KeepMain"}
    BY <1>5, <2>1
  <2>2. CASE c.op \notin {"DropIo", "KeepMain"}
    <3>1. v.objs = t.objs /\ v.loose = t.loose
      BY <1>5, <2>2
    <3>2. Dropping(i) # c
      BY <1>6, <2>2
    <3> QED
      BY <1>1, <1>2, <1>4, <3>1, <3>2 DEF PullsOnce, i, s
  <2> QED
    BY <2>1, <2>2
<1>8. CASE c.op = "ReadToPull"
  <2> DEFINE x == Call("WriteOutputs", StepOf[r.on], Of(t.outputs, StepOf[r.on]) \ {r.on})
  <2>1. x.op = "WriteOutputs"
    BY DEF Call
  <2> HIDE DEF x
  <2>2. x \in Range(left) /\ \A d \in Range(left) : d = x \/ d \in Range(calls)
    BY <1>1, <1>2, <1>3, <1>8 DEF x
  <2>3. ~Pulled(left)
    BY <2>1, <2>2 DEF Pulled, PullOps
  <2>4. \A d \in Range(left) : d.op # "WriteRow"
    BY <1>8, <1>10, <2>1, <2>2
  <2> QED
    BY <1>7, <2>3, <2>4 DEF PullsOnce, i, s
<1>9. CASE c.op # "ReadToPull"
  <2>1. Pulled(left)
    BY <1>9, <1>10
  <2>2. \A d \in Range(left) : d.op = "KeepMain" => d \in Range(calls)
    BY <1>1, <1>2, <1>9
  <2>3. s = None => i \notin v.initial
    <3>1. CASE c.op \in {"PullInitial", "WriteOutputs"}
      BY <1>5, <3>1
    <3>2. CASE c.op \notin {"PullInitial", "WriteOutputs"}
      <4>1. Pulled(calls)
        BY <1>10, <1>9, <3>2 DEF PullOps
      <4> QED
        BY <1>4, <1>5, <3>2, <4>1 DEF PullsOnce, i, s
    <3> QED
      BY <3>1, <3>2
  <2>4. <<s, i>> \in v.outputs =>
          i \notin v.objs \ v.loose /\ \A d \in Range(left) : d.op # "KeepMain"
    <3>1. CASE c.op = "WriteOutputs"
      BY <1>5, <3>1
    <3>2. CASE c.op = "PullInitial"
      <4>1. s = None /\ v.outputs = t.outputs
        BY <1>5, <3>2
      <4>2. \A x \in t.outputs : x[1] \in Steps
        BY <1>1, PairsTyped
      <4>3. None \notin Steps
        BY BranchRowAssumption DEF Objects
      <4> QED
        BY <4>1, <4>2, <4>3
    <3>3. CASE c.op \notin {"PullInitial", "WriteOutputs"}
      <4>1. Pulled(calls)
        BY <1>10, <1>9, <3>3 DEF PullOps
      <4>2. v.outputs = t.outputs
        BY <1>5, <3>3
      <4>3. <<s, i>> \in t.outputs => i \notin t.objs \ t.loose /\ \A d \in Range(calls) : d.op # "KeepMain"
        BY <1>4, <4>1 DEF PullsOnce, i, s
      <4>4. CASE c.op = "KeepMain"
        BY <1>1, <4>2, <4>3, <4>4
      <4>5. CASE c.op = "DropIo"
        BY <1>5, <2>2, <4>2, <4>3, <4>5
      <4>6. CASE c.op \in {"ReadUsers", "WriteRow"}
        BY <1>5, <2>2, <4>2, <4>3, <4>6
      <4> QED
        BY <1>5, <1>9, <3>3, <4>4, <4>5, <4>6
    <3> QED
      BY <3>1, <3>2, <3>3
  <2> QED
    BY <1>7, <2>1, <2>3, <2>4 DEF PullsOnce, i, s
<1> QED
  BY <1>8, <1>9

\* What is left of the deletion of an IO after a call is what it should be.
LEMMA ProgressDeleteIo ==
    ASSUME NEW r, NEW b, NEW P, NEW calls, NEW c, Serves(r, b, P, calls, c),
           r.kind \in {"DeleteIo", "PurgeIo"}, NEW left, left = Onward(c, calls)
    PROVE  Progress(r, Result(c), Forgotten(c), P, left)
<1> DEFINE v == Result(c)
<1>1. (\A d \in Range(left) : PullCall(r, v, d)) /\ PullsOnce(r, v, left)
  BY PullsFirst, PullCallsLeft, PullsOn
<1>2. Pulling(r, v, left)
  BY <1>1, PullingIs
<1>3. Removing(v, P, left)
  BY RemovingOn DEF Removals
<1> QED
  BY <1>2, <1>3 DEF Progress

\* However a request goes on, what is left is what it should be.
LEMMA ProgressOn ==
    ASSUME NEW r, NEW b, NEW P, NEW calls, NEW c, Serves(r, b, P, calls, c),
           NEW left, left = Onward(c, calls), r.kind = "CreateStep" => Creates(r, c, left)
    PROVE  Progress(r, Result(c), Forgotten(c), P, left)
<1>1. r \in RequestSet
  BY CallAt DEF Serves
<1>2. CASE r.kind = "CreateFlow"
  BY <1>2 DEF Progress
<1>3. CASE r.kind \in {"CreateStep", "DeleteStep", "DeleteFlow"}
  BY <1>3, ProgressCreateStep, ProgressDeleteStep, ProgressDeleteFlow
<1>4. CASE r.kind \in {"UpdateInputs", "CreateIo", "UpdateNodes", "DeleteIo", "PurgeIo"}
  BY <1>4, ProgressInputs, ProgressCreateIo, ProgressNodes, ProgressDeleteIo
<1> QED
  BY <1>1, <1>2, <1>3, <1>4, Kinds

-----------------------------------------------------------------------------
(* What a request makes of the objects of others: nothing.                 *)

\* But for what concerns object o, the tables are as before.
SameBut(o, v, g) ==
    /\ \A y : y # o =>
         /\ y \in v.objs <=> y \in t.objs
         /\ y \in g <=> y \in gone
         /\ y \in v.loose <=> y \in t.loose
         /\ y \in v.initial <=> y \in t.initial
    /\ \A x : x[1] # o => (x \in v.outputs <=> x \in t.outputs) /\ (x \in v.inputs <=> x \in t.inputs)
    /\ \A x : x[1] # o /\ x[2] # o => (x \in v.inputted <=> x \in t.inputted)

\* A call changes what concerns the object that it is on.
LEMMA CallElsewhere ==
    ASSUME NEW r, NEW b, NEW c, Works(r, b, c), c.op \notin LockOps
    PROVE  /\ SameBut(c.on, Result(c), Forgotten(c))
           /\ c.op \notin ReadOps => c.on \in Touched(r, b) /\ c.on # None
           /\ c.op \in ReadOps => Result(c) = t /\ Forgotten(c) = gone
<1> DEFINE v == Result(c)
           g == Forgotten(c)
           o == c.on
<1>1. r \in RequestSet /\ b \in Tables /\ t \in Tables /\ Fits(r, b, t, c) /\ (c.op \in OwnOps => o = r.on)
  BY DEF Works, Fitting, Fits
<1>2. c.op \in OpsOf(r.kind) /\ r.on \in Touched(r, b) /\ r.on # None
  BY <1>1, Kinds, Touches DEF Fits
<1>3. c.op \in ReadOps => v = t /\ g = gone
  BY WiresRead
<1>4. c.op \notin ReadOps =>
        c.op \in Drops \cup {"InsertFlow", "InsertStep", "InsertIo", "KeepMain", "WriteNodes", "WriteRow",
                             "WriteInputs", "WriteOutputs", "WriteUsers", "PushInitial", "PullInitial"}
  <2>1. r.kind \in {"CreateFlow", "DeleteFlow", "CreateStep", "DeleteStep", "UpdateNodes", "UpdateInputs"}
                     \cup {"CreateIo", "DeleteIo", "PurgeIo"}
    BY <1>1, Kinds
  <2> QED
    BY <1>2, <2>1 DEF OpsOf, ReadOps, LockOps, Drops
<1>5. c.op \notin ReadOps => o \in Touched(r, b) /\ o # None
  <2> SUFFICES ASSUME c.op \notin ReadOps PROVE o \in Touched(r, b) /\ o # None
    OBVIOUS
  <2>1. CASE c.op \in OwnOps
    BY <1>1, <1>2, <2>1
  <2>2. CASE c.op \in {"DropStep", "DropIo", "KeepMain", "WriteRow", "WriteOutputs"}
    <3>1. o \in (Steps \cup Ios) \cap Touched(r, b)
      BY <1>1, <2>2 DEF Fits
    <3>2. None \notin Steps \cup Ios
      BY BranchRowAssumption DEF Objects
    <3> QED
      BY <3>1, <3>2
  <2> QED
    BY <1>4, <2>1, <2>2 DEF OwnOps, Drops
<1> SUFFICES SameBut(o, v, g)
  BY <1>3, <1>5
<1>6. Shown(c, v)
  BY CallShown
<1>7. /\ c.op \in Drops => g = gone \cup {o}
      /\ c.op \in {"InsertFlow", "InsertStep", "InsertIo", "KeepMain"} => g = gone \ {o}
      /\ c.op \notin Drops \cup {"InsertFlow", "InsertStep", "InsertIo", "KeepMain"} => g = gone
  BY DEF Drops, Forgotten
<1> HIDE DEF v, g
<1>8. CASE c.op \in ReadOps
  BY <1>3, <1>8 DEF SameBut
<1>9. CASE c.op \in Drops
  BY <1>6, <1>7, <1>9 DEF Shown, Shows, SameBut, Without, Unknown
<1>10. CASE c.op \in {"InsertFlow", "InsertStep", "InsertIo"}
  BY <1>6, <1>7, <1>10 DEF Shown, Shows, SameBut, Without, Unknown
<1>11. CASE c.op = "KeepMain"
  <2>1. \A x \in c.with \X {o} : x[2] = o
    OBVIOUS
  <2> DEFINE known == c.with \X {o}
  <2>2. /\ v.objs = t.objs \cup {o} /\ v.loose = t.loose \cup {o} /\ v.initial = t.initial
        /\ v.outputs = Without(t.outputs, o) /\ v.inputs = Without(t.inputs, o)
        /\ v.inputted = Unknown(t.inputted, o) \cup known
    BY <1>6, <1>11 DEF Shown, Shows
  <2> HIDE DEF o
  <2>3. \A x \in known : x[2] = o
    BY <2>1
  <2> HIDE DEF known
  <2> QED
    BY <1>7, <1>11, <2>2, <2>3 DEF SameBut, Without, Unknown
<1>12. CASE c.op \in {"WriteNodes", "WriteRow", "WriteInputs", "WriteOutputs"}
  <2>1. \A P, S : \A x : x[1] # o => (x \in Instead(P, o, S) <=> x \in P)
    BY DEF Instead
  <2>2. /\ v.objs = t.objs /\ v.loose = t.loose /\ v.inputted = t.inputted /\ v.initial = t.initial
        /\ v.outputs = t.outputs \/ \E S : v.outputs = Instead(t.outputs, o, S)
        /\ v.inputs = t.inputs \/ \E S : v.inputs = Instead(t.inputs, o, S)
    BY <1>6, <1>12 DEF Shown, Shows
  <2>3. \A x : x[1] # o => (x \in v.outputs <=> x \in t.outputs) /\ (x \in v.inputs <=> x \in t.inputs)
    BY <2>1, <2>2
  <2>4. g = gone
    BY <1>7, <1>12 DEF Drops
  <2> QED
    BY <2>2, <2>3, <2>4 DEF SameBut
<1>13. CASE c.op = "WriteUsers"
  <2> DEFINE more == {o} \X Column(c.with, "added")
             less == {o} \X Column(c.with, "removed")
  <2>1. \A x \in more \cup less : x[1] = o
    OBVIOUS
  <2>2. /\ v.objs = t.objs /\ v.loose = t.loose /\ v.initial = t.initial
        /\ v.outputs = t.outputs /\ v.inputs = t.inputs /\ v.inputted = (t.inputted \cup more) \ less
    BY <1>6, <1>13 DEF Shown, Shows
  <2>3. g = gone
    BY <1>7, <1>13 DEF Drops
  <2> HIDE DEF more, less
  <2> QED
    BY <2>1, <2>2, <2>3 DEF SameBut
<1>14. CASE c.op \in {"PushInitial", "PullInitial"}
  <2>1. g = gone
    BY <1>7, <1>14 DEF Drops
  <2> QED
    BY <1>6, <1>14, <2>1 DEF Shown, Shows, SameBut
<1> QED
  BY <1>4, <1>8, <1>9, <1>10, <1>11, <1>12, <1>13, <1>14

\* A step takes another IO only if the request gives it.
LEMMA InputsGrow ==
    ASSUME NEW r, NEW b, NEW P, NEW calls, AtCall(r, b, P, calls), NEW c, c = Head(calls),
           c.op \notin LockOps, NEW v, v = Result(c), NEW x \in v.inputs
    PROVE  x \in t.inputs \/ x[2] \in r.with
<1>1. /\ Works(r, b, c) /\ t \in Tables /\ c \in Range(calls) /\ r \in RequestSet /\ c.op \in OpsOf(r.kind)
      /\ (c.op \in OwnOps => c.on = r.on)
  BY CallAt
<1>2. Shown(c, v)
  BY <1>1, CallShown
<1> DEFINE o == c.on
<1>3. \A S : S \subseteq Of(t.inputs, o) => Instead(t.inputs, o, S) \subseteq t.inputs
  <2> SUFFICES ASSUME NEW S, S \subseteq Of(t.inputs, o), NEW y \in Instead(t.inputs, o, S)
               PROVE  y \in t.inputs
    OBVIOUS
  <2>1. CASE y[2] \in S /\ y = <<o, y[2]>>
    <3>1. PICK z \in t.inputs : z[1] = o /\ z[2] = y[2]
      BY <2>1 DEF Of
    <3>2. z = <<z[1], z[2]>>
      BY <1>1, PairsTyped
    <3> QED
      BY <2>1, <3>1, <3>2
  <2> QED
    BY <2>1 DEF Instead
<1>4. CASE c.op \in ReadOps
  BY <1>1, <1>4, CallShown
<1>5. CASE c.op \in Drops \cup {"InsertFlow", "InsertStep", "InsertIo", "KeepMain"}
  BY <1>2, <1>5 DEF Shown, Shows, Without
<1>6. CASE c.op \in {"WriteOutputs", "WriteUsers", "PushInitial", "PullInitial"}
  BY <1>2, <1>6 DEF Shown, Shows
<1>7. CASE c.op = "WriteInputs"
  <2>1. c.with = r.with
    BY <1>1, <1>7 DEF Works, Fitting, Fits
  <2>2. v.inputs = Instead(t.inputs, o, c.with)
    BY <1>2, <1>7 DEF Shown, Shows
  <2> QED
    BY <2>1, <2>2 DEF Instead
<1>8. CASE c.op \in {"WriteRow", "WriteNodes"}
  <2>1. ~Absent(c)
    BY <1>8 DEF Absent
  <2>2. Serves(r, b, P, calls, c)
    BY <1>8, <2>1 DEF Serves
  <2>3. v.inputs = Instead(t.inputs, o, Column(c.with, "inputs"))
    BY <1>2, <1>8 DEF Shown, Shows
  <2>4. Column(c.with, "inputs") \subseteq Of(t.inputs, o)
    <3>1. CASE c.op = "WriteRow"
      <4>1. r.kind \in Removals
        BY <1>1, <3>1, WhoWrites DEF Removals
      <4> QED
        BY <2>2, <3>1, <4>1, RemovalColumns
    <3>2. CASE c.op = "WriteNodes"
      <4>1. r.kind = "UpdateNodes"
        BY <1>1, <3>2, WhoWrites
      <4>2. CutCall(r, t, c)
        BY <1>1, <2>2, <3>2, <4>1, CuttingNow
      <4>3. o = r.on
        BY <1>1, <3>2 DEF OwnOps
      <4> QED
        BY <3>2, <4>2, <4>3 DEF CutCall
    <3> QED
      BY <1>8, <3>1, <3>2
  <2> QED
    BY <1>3, <2>3, <2>4
<1> QED
  <2>1. r.kind \in {"CreateFlow", "DeleteFlow", "CreateStep", "DeleteStep", "UpdateNodes", "UpdateInputs"}
                     \cup {"CreateIo", "DeleteIo", "PurgeIo"}
    BY <1>1, Kinds
  <2>2. c.op \in ReadOps \cup Drops \cup {"InsertFlow", "InsertStep", "InsertIo", "KeepMain", "WriteOutputs",
                  "WriteUsers", "PushInitial", "PullInitial", "WriteInputs", "WriteRow", "WriteNodes"}
    BY <1>1, <2>1 DEF OpsOf, ReadOps, LockOps, Drops
  <2> QED
    BY <1>4, <1>5, <1>6, <1>7, <1>8, <2>2

\* What a request touches is as before: another one has made (v, g) of the tables.
Aside(q, e, v, g) ==
    LET T == Touched(q, e) IN
    /\ \A y \in T :
         /\ y \in v.objs <=> y \in t.objs
         /\ y \in g <=> y \in gone
         /\ y \in v.loose <=> y \in t.loose
         /\ y \in v.initial <=> y \in t.initial
    /\ \A y \in T : Of(v.outputs, y) = Of(t.outputs, y) /\ Of(v.inputs, y) = Of(t.inputs, y)
    /\ \A x : x[1] \in T => (x \in v.outputs <=> x \in t.outputs)
    /\ \A x : x[1] \in T /\ x[2] \in T => (x \in v.inputted <=> x \in t.inputted)
    /\ \A x \in v.inputs : x[2] \in T => x \in t.inputs

\* The calls of a request leave those alone that touch other objects.
LEMMA CallAside ==
    ASSUME NEW r, NEW b, NEW P, NEW calls, AtCall(r, b, P, calls), NEW c, c = Head(calls),
           c.op \notin LockOps, NEW q, NEW e, Touched(r, b) \cap Touched(q, e) \subseteq {None}
    PROVE  Aside(q, e, Result(c), Forgotten(c))
<1> DEFINE v == Result(c)
           g == Forgotten(c)
           T == Touched(q, e)
           o == c.on
<1>1. Works(r, b, c) /\ r \in RequestSet /\ b \in Tables /\ t \in Tables
  BY CallAt
<1>2. /\ SameBut(o, v, g)
      /\ c.op \notin ReadOps => o \in Touched(r, b) /\ o # None
      /\ c.op \in ReadOps => v = t /\ g = gone
  BY <1>1, CallElsewhere
<1>3. \A x \in v.inputs : x \in t.inputs \/ x[2] \in r.with
  BY InputsGrow
<1>4. r.with \subseteq Touched(r, b)
  BY <1>1, Touches
<1>5. None \notin r.with
  BY <1>1, Kinds, BranchRowAssumption
<1> HIDE DEF v, g, T, o
<1>6. \A x \in v.inputs : x[2] \in T => x \in t.inputs
  BY <1>3, <1>4, <1>5 DEF T
<1>7. CASE c.op \in ReadOps
  BY <1>2, <1>7 DEF Aside, v, g
<1>8. CASE c.op \notin ReadOps
  <2>1. o \notin T
    BY <1>2, <1>8 DEF T
  <2>2. \A x : x[1] \in T => (x \in v.outputs <=> x \in t.outputs) /\ (x \in v.inputs <=> x \in t.inputs)
    BY <1>2, <2>1 DEF SameBut
  <2>3. \A y \in T : Of(v.outputs, y) = Of(t.outputs, y) /\ Of(v.inputs, y) = Of(t.inputs, y)
    <3> SUFFICES ASSUME NEW y \in T
                 PROVE  Of(v.outputs, y) = Of(t.outputs, y) /\ Of(v.inputs, y) = Of(t.inputs, y)
      OBVIOUS
    <3>1. {x \in v.outputs : x[1] = y} = {x \in t.outputs : x[1] = y}
      BY <2>2
    <3>2. {x \in v.inputs : x[1] = y} = {x \in t.inputs : x[1] = y}
      BY <2>2
    <3> QED
      BY <3>1, <3>2 DEF Of
  <2>4. \A y \in T :
         /\ y \in v.objs <=> y \in t.objs
         /\ y \in g <=> y \in gone
         /\ y \in v.loose <=> y \in t.loose
         /\ y \in v.initial <=> y \in t.initial
    BY <1>2, <2>1 DEF SameBut
  <2>5. \A x : x[1] \in T /\ x[2] \in T => (x \in v.inputted <=> x \in t.inputted)
    BY <1>2, <2>1 DEF SameBut
  <2> QED
    BY <1>6, <2>2, <2>3, <2>4, <2>5 DEF Aside, v, g, T
<1> QED
  BY <1>7, <1>8

\* A request that others leave alone, and how far it has come.
Waits(q, e, P, calls, v, g) ==
    Has(q, e, t, calls) /\ Progress(q, t, gone, P, calls) /\ Aside(q, e, v, g)

\* What such a request touches.
LEMMA WaitsFor ==
    ASSUME NEW q, NEW e, NEW P, NEW calls, NEW v, NEW g, Waits(q, e, P, calls, v, g)
    PROVE  /\ q \in RequestSet /\ e \in Tables /\ t \in Tables /\ calls # << >> /\ Frame(q, e, t)
           /\ q.on \in Touched(q, e) /\ q.with \subseteq Touched(q, e)
           /\ \A d \in Range(calls) : Fits(q, e, t, d)
<1>1. q \in RequestSet /\ e \in Tables /\ t \in Tables /\ calls # << >> /\ Frame(q, e, t)
      /\ calls \in Seq(Fitting(q, e, t))
  BY DEF Waits, Has
<1>2. Range(calls) \subseteq Fitting(q, e, t)
  BY <1>1, RangeFirst
<1> QED
  BY <1>1, <1>2, Touches DEF Fitting

\* Creations stay where they were.
LEMMA StaysCreation ==
    ASSUME NEW q, NEW e, NEW P, NEW calls, NEW v, NEW g, Waits(q, e, P, calls, v, g),
           q.kind \in {"CreateFlow", "CreateStep", "CreateIo"}
    PROVE  Progress(q, v, g, P, calls)
<1> DEFINE T == Touched(q, e)
<1>1. q \in RequestSet /\ e \in Tables /\ calls # << >> /\ q.on \in T
  BY WaitsFor
<1>2. /\ q.on \in v.objs <=> q.on \in t.objs
      /\ q.on \in g <=> q.on \in gone
      /\ q.on \in v.loose <=> q.on \in t.loose
  BY <1>1 DEF Waits, Aside
<1>3. Progress(q, t, gone, P, calls)
  BY DEF Waits
<1>4. CASE q.kind = "CreateFlow"
  BY <1>4 DEF Progress
<1>5. CASE q.kind = "CreateStep"
  BY <1>2, <1>3, <1>5 DEF Progress
<1>6. CASE q.kind = "CreateIo"
  <2>1. Creating(q, t, gone, calls)
    BY <1>3, <1>6 DEF Progress
  <2>2. StepOf[q.on] \in T
    BY <1>1, <1>6, Touches DEF IoKinds
  <2>3. Of(v.outputs, StepOf[q.on]) = Of(t.outputs, StepOf[q.on])
    BY <2>2 DEF Waits, Aside
  <2>4. Creating(q, v, g, calls)
    BY <1>1, <1>2, <2>1, <2>3 DEF Creating
  <2> QED
    BY <1>6, <2>4 DEF Progress
<1> QED
  BY <1>4, <1>5, <1>6

\* So do updates of inputs.
LEMMA StaysInputs ==
    ASSUME NEW q, NEW e, NEW P, NEW calls, NEW v, NEW g, Waits(q, e, P, calls, v, g),
           q.kind = "UpdateInputs"
    PROVE  Progress(q, v, g, P, calls)
<1> DEFINE T == Touched(q, e)
           now == Of(t.inputs, q.on)
           changes == Changes(now, q.with)
<1>1. q \in RequestSet /\ calls # << >> /\ q.on \in T /\ q.with \subseteq T
  BY WaitsFor
<1>2. Taking(q, t, P, calls)
  BY DEF Waits, Progress
<1>3. now = Of(v.inputs, q.on) /\ \A i \in q.with : i \in v.objs <=> i \in t.objs
  BY <1>1 DEF Waits, Aside
<1>4. Found(v, changes) = Found(t, changes)
  <2>1. \A x \in changes : x[1] # "removed" => x[2] \in q.with
    BY DEF Changes
  <2> HIDE DEF changes
  <2> QED
    BY <1>3, <2>1 DEF Found
<1>5. \A i \in q.with : Knows(t, P, <<q.on, i>>) => Knows(v, P, <<q.on, i>>)
  <2>1. \A i \in q.with : <<q.on, i>> \in v.inputted <=> <<q.on, i>> \in t.inputted
    BY <1>1 DEF Waits, Aside
  <2>2. \A i \in q.with : (\E z \in P : Untakes(z, <<q.on, i>>)) \/ <<q.on, i>> \in t.inputted
                            => Knows(v, P, <<q.on, i>>)
    BY <2>1 DEF Knows
  <2> QED
    BY <2>2 DEF Knows
<1> HIDE DEF now
<1>6. Taking(q, v, P, calls)
  BY <1>1, <1>2, <1>3, <1>4, <1>5 DEF Taking, now
<1> QED
  BY <1>6 DEF Progress

\* And deletions of steps and flows.
LEMMA StaysSteps ==
    ASSUME NEW q, NEW e, NEW P, NEW calls, NEW v, NEW g, Waits(q, e, P, calls, v, g),
           q.kind \in {"DeleteStep", "DeleteFlow"}
    PROVE  Progress(q, v, g, P, calls)
<1>1. q \in RequestSet /\ e \in Tables /\ q.on \in Touched(q, e)
  BY WaitsFor
<1>2. Progress(q, t, gone, P, calls)
  BY DEF Waits
<1>3. \A y \in Touched(q, e) : y \in v.objs <=> y \in t.objs
  BY DEF Waits, Aside
<1>4. CASE q.kind = "DeleteStep"
  BY <1>1, <1>2, <1>3, <1>4 DEF Progress, DroppingStep
<1>5. CASE q.kind = "DeleteFlow"
  <2>1. \A s \in Steps : FlowOf[s] = q.on => s \in Touched(q, e)
    BY <1>1, <1>5, Touches
  <2>2. \A s \in StepsIn(v, {q.on}) : s \in StepsIn(t, {q.on})
    BY <1>3, <2>1 DEF StepsIn
  <2>3. DroppingFlow(q, v, calls)
    BY <1>2, <1>5, <2>2 DEF Progress, DroppingFlow
  <2> QED
    BY <1>5, <2>3 DEF Progress
<1> QED
  BY <1>4, <1>5

\* Rows that others are to write back, and IOs to be kept, are as before.
LEMMA StaysRemoving ==
    ASSUME NEW q, NEW e, NEW P, NEW calls, NEW v, NEW g, Waits(q, e, P, calls, v, g),
           q.kind \in Removals, Removing(t, P, calls)
    PROVE  Removing(v, P, calls)
<1> DEFINE T == Touched(q, e)
<1>1. \A d \in Range(calls) : Fits(q, e, t, d)
  BY WaitsFor
<1>2. Aside(q, e, v, g)
  BY DEF Waits
<1>3. ASSUME NEW d \in Range(calls), d.op = "WriteRow"
      PROVE  /\ Column(d.with, "outputs") = Of(v.outputs, d.on)
             /\ Column(d.with, "inputs") \subseteq Of(v.inputs, d.on)
             /\ \A z \in Range(calls) : z.op = "WriteRow" /\ z.on = d.on => z = d
  <2>1. d.on \in T
    BY <1>1, <1>3 DEF Fits
  <2>2. Of(v.outputs, d.on) = Of(t.outputs, d.on) /\ Of(v.inputs, d.on) = Of(t.inputs, d.on)
    BY <1>2, <2>1 DEF Aside
  <2> QED
    BY <1>3, <2>2 DEF Removing
<1>4. ASSUME NEW d \in Range(calls), d.op = "KeepMain"
      PROVE  /\ StepOf[d.on] # None
             /\ \A x \in v.inputs : x[2] = d.on /\ SameNode(x) =>
                  x[1] \in d.with \/ \E z \in P : Untakes(z, x)
  <2>1. d.on \in T
    BY <1>1, <1>4 DEF Fits
  <2>2. \A x \in v.inputs : x[2] = d.on => x \in t.inputs
    BY <1>2, <2>1 DEF Aside
  <2> QED
    BY <1>4, <2>2 DEF Removing
<1> QED
  BY <1>3, <1>4 DEF Removing

\* Updates of nodes stay where they were.
LEMMA StaysNodes ==
    ASSUME NEW q, NEW e, NEW P, NEW calls, NEW v, NEW g, Waits(q, e, P, calls, v, g),
           q.kind = "UpdateNodes"
    PROVE  Progress(q, v, g, P, calls)
<1> DEFINE T == Touched(q, e)
<1>1. q \in RequestSet /\ e \in Tables /\ t \in Tables /\ q.on \in T /\ Frame(q, e, t)
  BY WaitsFor
<1>2. Aside(q, e, v, g) /\ Progress(q, t, gone, P, calls)
  BY DEF Waits
<1>3. CASE calls = Program(q)
  BY <1>3 DEF Progress
<1>4. CASE calls # Program(q)
  <2>1. Removing(t, P, calls) /\ Cutting(q, t, calls)
    BY <1>2, <1>4 DEF Progress
  <2>2. Removing(v, P, calls)
    BY <2>1, StaysRemoving DEF Removals
  <2>3. Of(v.outputs, q.on) = Of(t.outputs, q.on) /\ Of(v.inputs, q.on) = Of(t.inputs, q.on)
    BY <1>1, <1>2 DEF Aside
  <2>4. \A i \in Of(t.outputs, q.on) : i \in T
    BY <1>1, Touches DEF Frame
  <2>5. /\ \A d \in Range(calls) : CutCall(q, t, d)
        /\ \A i \in Of(t.outputs, q.on) : At[i] \notin q.with => CutOutput(q, t, calls, i)
    BY <2>1, CuttingIs
  <2>6. \A d \in Range(calls) : CutCall(q, v, d)
    BY <2>3, <2>5 DEF CutCall
  <2>7. \A i \in T : i \in v.objs \ v.loose <=> i \in t.objs \ t.loose
    BY <1>2 DEF Aside
  <2>8. \A i \in Of(v.outputs, q.on) : At[i] \notin q.with => CutOutput(q, v, calls, i)
    BY <2>3, <2>4, <2>5, <2>7 DEF CutOutput
  <2>9. Cutting(q, v, calls)
    BY <2>6, <2>8, CuttingIs
  <2> QED
    BY <2>2, <2>9 DEF Progress
<1> QED
  BY <1>3, <1>4

\* And deletions of IOs.
LEMMA StaysDeleteIo ==
    ASSUME NEW q, NEW e, NEW P, NEW calls, NEW v, NEW g, Waits(q, e, P, calls, v, g),
           q.kind \in {"DeleteIo", "PurgeIo"}
    PROVE  Progress(q, v, g, P, calls)
<1> DEFINE T == Touched(q, e)
           s == StepOf[q.on]
<1>1. q \in RequestSet /\ e \in Tables /\ q.on \in T
  BY WaitsFor
<1>2. Aside(q, e, v, g) /\ Progress(q, t, gone, P, calls)
  BY DEF Waits
<1>3. CASE calls = Program(q)
  BY <1>3 DEF Progress
<1>4. CASE calls # Program(q)
  <2>1. Removing(t, P, calls) /\ Pulling(q, t, calls)
    BY <1>2, <1>4 DEF Progress
  <2>2. Removing(v, P, calls)
    BY <2>1, StaysRemoving DEF Removals
  <2>3. s \in T
    BY <1>1, Touches DEF IoKinds
  <2>4. Of(v.outputs, s) = Of(t.outputs, s) /\ (<<s, q.on>> \in v.outputs <=> <<s, q.on>> \in t.outputs)
    BY <1>2, <2>3 DEF Aside
  <2>5. (\A d \in Range(calls) : PullCall(q, t, d)) /\ PullsOnce(q, t, calls)
    BY <2>1, PullingIs
  <2>6. \A d \in Range(calls) : PullCall(q, v, d)
    BY <2>4, <2>5 DEF PullCall
  <2>7. /\ q.on \in v.objs <=> q.on \in t.objs
        /\ q.on \in v.loose <=> q.on \in t.loose
        /\ q.on \in v.initial <=> q.on \in t.initial
    BY <1>1, <1>2 DEF Aside
  <2>8. PullsOnce(q, v, calls)
    BY <2>4, <2>5, <2>7 DEF PullsOnce
  <2>9. Pulling(q, v, calls)
    BY <2>6, <2>8, PullingIs
  <2> QED
    BY <2>2, <2>9 DEF Progress
<1> QED
  BY <1>3, <1>4

\* What another request does at other objects changes nothing of how far one has come.
LEMMA ProgressStays ==
    ASSUME NEW q, NEW e, NEW P, NEW calls, NEW v, NEW g, Waits(q, e, P, calls, v, g)
    PROVE  Progress(q, v, g, P, calls)
<1>1. q \in RequestSet
  BY WaitsFor
<1>2. CASE q.kind \in {"CreateFlow", "CreateStep", "CreateIo"}
  BY <1>2, StaysCreation
<1>3. CASE q.kind = "UpdateInputs"
  BY <1>3, StaysInputs
<1>4. CASE q.kind \in {"DeleteStep", "DeleteFlow"}
  BY <1>4, StaysSteps
<1>5. CASE q.kind = "UpdateNodes"
  BY <1>5, StaysNodes
<1>6. CASE q.kind \in {"DeleteIo", "PurgeIo"}
  BY <1>6, StaysDeleteIo
<1> QED
  BY <1>1, <1>2, <1>3, <1>4, <1>5, <1>6, Kinds

-----------------------------------------------------------------------------
(* What a request leaves behind when it is done.                           *)

\* A request of which no call is left.
Done(d, v, g, P) == d \in RequestSet /\ Progress(d, v, g, P, << >>) /\ Own(v, g, P) /\ v \in Tables

\* What is done with a creation of an IO: it is there, in its place.
LEMMA CreationDone ==
    ASSUME NEW d, NEW v, NEW g, NEW P, Done(d, v, g, P), d.kind = "CreateIo"
    PROVE  /\ d.on \in v.objs \ v.loose
           /\ IF StepOf[d.on] = None THEN d.on \in v.initial ELSE <<StepOf[d.on], d.on>> \in v.outputs
<1> DEFINE x == Call("InsertIo", d.on, {})
           y == Call("PushInitial", d.on, {})
           z == Call("ReadToPush", d.on, {})
           w == Call("WriteOutputs", StepOf[d.on], Of(v.outputs, StepOf[d.on]) \cup {d.on})
<1>1. Program(d) = <<x, y>> \/ Program(d) = <<x, z>>
  BY DEF Program
<1>2. Creating(d, v, g, << >>)
  BY DEF Done, Progress
<1>3. <<x, y>> # << >> /\ <<x, z>> # << >> /\ Tail(<<x, y>>) # << >> /\ Tail(<<x, z>>) # << >>
  <2> HIDE DEF x, y, z
  <2>1. Tail(<<x, y>>) = <<y>> /\ Tail(<<x, z>>) = <<z>> /\ <<y>> # << >> /\ <<z>> # << >>
    BY PairOfCalls
  <2>2. <<x, y>> # << >> /\ <<x, z>> # << >>
    OBVIOUS
  <2> QED
    BY <2>1, <2>2
<1>4. <<w>> # << >>
  <2> HIDE DEF w
  <2> QED
    BY PairOfCalls
<1>5. Program(d) # << >> /\ Tail(Program(d)) # << >>
  <2> HIDE DEF x, y, z
  <2> QED
    BY <1>1, <1>3
<1> QED
  BY <1>2, <1>4, <1>5 DEF Creating

\* With a deletion of an IO: it is in no place, or has lost it.
LEMMA DeletionDone ==
    ASSUME NEW d, NEW v, NEW g, NEW P, Done(d, v, g, P), d.kind \in {"DeleteIo", "PurgeIo"}
    PROVE  /\ d.on \notin v.objs \ v.loose /\ (StepOf[d.on] = None => d.on \notin v.objs)
           /\ StepOf[d.on] = None => d.on \notin v.initial
<1>1. << >> # Program(d)
  BY ProgramFits, EmptyTables DEF Done
<1>2. Pulling(d, v, << >>)
  BY <1>1 DEF Done, Progress
<1>3. PullsOnce(d, v, << >>)
  BY <1>2, PullingIs
<1>4. Range(<< >>) = {}
  BY FewCalls
<1>5. Pulled(<< >>)
  BY <1>4 DEF Pulled
<1> QED
  BY <1>3, <1>4, <1>5 DEF PullsOnce

\* With an update of inputs: the step takes what the request gives.
LEMMA InputsDone ==
    ASSUME NEW d, NEW v, NEW g, NEW P, Done(d, v, g, P), d.kind = "UpdateInputs"
    PROVE  Of(v.inputs, d.on) = d.with
<1>1. << >> # Program(d)
  BY ProgramFits, EmptyTables DEF Done
<1>2. Taking(d, v, P, << >>)
  BY DEF Done, Progress
<1>3. \A x, y : << >> # <<x, y>> /\ << >> # <<x>>
  OBVIOUS
<1> QED
  BY <1>1, <1>2, <1>3 DEF Taking

\* With an update of nodes: the step lists no output that is to be cut.
LEMMA NodesDone ==
    ASSUME NEW d, NEW v, NEW g, NEW P, Done(d, v, g, P), d.kind = "UpdateNodes"
    PROVE  \A x \in v.outputs : ~Cuts(d, x)
<1>1. << >> # Program(d)
  BY ProgramFits, EmptyTables DEF Done
<1>2. Cutting(d, v, << >>)
  BY <1>1 DEF Done, Progress
<1>3. \A i \in Of(v.outputs, d.on) : At[i] \notin d.with => CutOutput(d, v, << >>, i)
  BY <1>2, CuttingIs
<1>4. Range(<< >>) = {}
  BY FewCalls
<1>5. \A i \in Of(v.outputs, d.on) : At[i] \in d.with
  BY <1>3, <1>4 DEF CutOutput
<1> QED
  BY <1>5 DEF Cuts, Of

\* With a deletion of a step or flow: the step is gone, or all of the flow are.
LEMMA StepsDone ==
    ASSUME NEW d, NEW v, NEW g, NEW P, Done(d, v, g, P)
    PROVE  /\ d.kind = "DeleteStep" => d.on \notin v.objs
           /\ d.kind = "DeleteFlow" => \A s \in Steps : FlowOf[s] = d.on => s \notin v.objs
<1>1. Range(<< >>) = {}
  BY FewCalls
<1> QED
  BY <1>1 DEF Done, Progress, DroppingStep, DroppingFlow, StepsIn

\* Once a request is done, those that it mends have left nothing.
LEMMA Settled ==
    ASSUME NEW d, NEW v, NEW g, NEW P, Done(d, v, g, P), NEW r \in RequestSet, Mended(r, d)
    PROVE  /\ \A x \in v.outputs : ~Cuts(r, x) /\ ~Clears(r, x[1])
           /\ \A x \in v.inputs : ~Untakes(r, x)
           /\ \A i : Removes(r, i) =>
                /\ StepOf[i] = None => (i \in v.initial <=> i \in v.objs)
                /\ StepOf[i] # None /\ i \in v.objs \ v.loose => <<StepOf[i], i>> \in v.outputs
<1>1. d \in RequestSet /\ v \in Tables
  BY DEF Done
<1>2. /\ \A x \in v.outputs : x[1] \in v.objs /\ x[1] \in Steps /\ x[2] \in Of(v.outputs, x[1])
      /\ \A x \in v.inputs : x[1] \in v.objs /\ x[1] \in Steps /\ x[2] \in Of(v.inputs, x[1])
  <2>1. \A x \in v.outputs \cup v.inputs : x[1] \in Steps /\ x = <<x[1], x[2]>>
    BY <1>1, PairsTyped
  <2>2. \A x \in v.outputs \cup v.inputs : x[1] \in v.objs
    BY DEF Done, Own
  <2>3. /\ \A x \in v.outputs : x[2] \in Of(v.outputs, x[1])
        /\ \A x \in v.inputs : x[2] \in Of(v.inputs, x[1])
    BY DEF Of
  <2> QED
    BY <2>1, <2>2, <2>3
<1>3. /\ r.kind \in {"UpdateNodes", "UpdateInputs", "DeleteStep"} => r.on \in Steps
      /\ r.kind = "DeleteFlow" => r.on \in Flows
      /\ r.kind \in IoKinds => r.on \in Ios
      /\ d.kind = "DeleteStep" => d.on \in Steps
      /\ d.kind = "DeleteFlow" => d.on \in Flows
      /\ d.kind \in {"DeleteIo", "PurgeIo"} => d.on \in Ios
  BY <1>1, Kinds DEF IoKinds
<1>4. Flows \cap (Steps \cup Ios) = {} /\ Steps \cap Ios = {}
  BY FlowsAssumption
<1>5. r.on = d.on /\ (r = d \/ d.kind \in {"DeleteFlow", "DeleteStep", "DeleteIo", "PurgeIo"})
  BY DEF Mended
<1>6. ASSUME NEW x \in v.outputs PROVE ~Cuts(r, x) /\ ~Clears(r, x[1])
  <2>1. ~Cuts(r, x)
    <3>1. CASE r = d
      BY <3>1, NodesDone DEF Cuts
    <3>2. CASE r # d
      BY <1>2, <1>3, <1>4, <1>5, <3>2, StepsDone DEF Cuts
    <3> QED
      BY <3>1, <3>2
  <2>2. ~Clears(r, x[1])
    <3> SUFFICES ASSUME Clears(r, x[1]) PROVE FALSE
      OBVIOUS
    <3>1. \/ r.kind = "DeleteStep" /\ r.on = x[1]
          \/ r.kind = "DeleteFlow" /\ r.on = FlowOf[x[1]]
      BY DEF Clears
    <3>2. d.kind = r.kind
      BY <1>3, <1>4, <1>5, <3>1
    <3> QED
      BY <1>2, <1>5, <3>1, <3>2, StepsDone
  <2> QED
    BY <2>1, <2>2
<1>7. ASSUME NEW x \in v.inputs PROVE ~Untakes(r, x)
  <2> SUFFICES ASSUME Untakes(r, x) PROVE FALSE
    OBVIOUS
  <2>1. r.kind = "UpdateInputs" /\ r.on = x[1] /\ x[2] \notin r.with
    BY DEF Untakes
  <2>2. CASE r = d
    BY <1>2, <2>1, <2>2, InputsDone
  <2>3. CASE r # d
    BY <1>2, <1>3, <1>4, <1>5, <2>1, <2>3, StepsDone
  <2> QED
    BY <2>2, <2>3
<1>8. ASSUME NEW i, Removes(r, i)
      PROVE  /\ StepOf[i] = None => (i \in v.initial <=> i \in v.objs)
             /\ StepOf[i] # None /\ i \in v.objs \ v.loose => <<StepOf[i], i>> \in v.outputs
  <2>1. r.kind \in IoKinds /\ d.on = i
    BY <1>5, <1>8 DEF Removes
  <2>2. d.kind = "CreateIo" \/ d.kind \in {"DeleteIo", "PurgeIo"}
    BY <1>3, <1>4, <1>5, <2>1 DEF IoKinds
  <2>3. CASE d.kind = "CreateIo"
    BY <2>1, <2>3, CreationDone
  <2>4. CASE d.kind \in {"DeleteIo", "PurgeIo"}
    BY <2>1, <2>4, DeletionDone
  <2> QED
    BY <2>2, <2>3, <2>4
<1> QED
  BY <1>6, <1>7, <1>8

\* So what it mends need not be counted any more.
LEMMA WiresMended ==
    ASSUME NEW d, NEW v, NEW g, NEW P, Done(d, v, g, P), Wires(v, g, P), P \subseteq RequestSet,
           NEW Q, Q \subseteq P, \A r \in P \ Q : Mended(r, d)
    PROVE  Wires(v, g, Q)
<1>1. \A r \in P \ Q :
        /\ \A x \in v.outputs : ~Cuts(r, x) /\ ~Clears(r, x[1])
        /\ \A x \in v.inputs : ~Untakes(r, x)
        /\ \A i : Removes(r, i) =>
             /\ StepOf[i] = None => (i \in v.initial <=> i \in v.objs)
             /\ StepOf[i] # None /\ i \in v.objs \ v.loose => <<StepOf[i], i>> \in v.outputs
  BY Settled
<1>2. Own(v, g, Q)
  BY DEF Wires, Own
<1>3. ListedThere(v, Q)
  <2> SUFFICES ASSUME NEW x \in v.outputs, x[2] \notin v.objs \ v.loose
               PROVE  \E r \in Q : Cuts(r, x) \/ (x[2] \notin v.objs /\ Clears(r, x[1]))
    BY DEF ListedThere
  <2>1. PICK r \in P : Cuts(r, x) \/ (x[2] \notin v.objs /\ Clears(r, x[1]))
    BY DEF Wires, ListedThere
  <2> QED
    BY <1>1, <2>1
<1>4. ThereListed(v, g, Q)
  <2> SUFFICES ASSUME NEW i \in Ios \cap v.objs, StepOf[i] # None, i \notin v.loose,
                      <<StepOf[i], i>> \notin v.outputs, StepOf[i] \notin g
               PROVE  \E r \in Q : Removes(r, i)
    BY DEF ThereListed
  <2>1. PICK r \in P : Removes(r, i)
    BY DEF Wires, ThereListed
  <2> QED
    BY <1>1, <2>1
<1>5. Initials(v, Q)
  <2> SUFFICES ASSUME NEW i \in Ios, StepOf[i] = None, ~(i \in v.initial <=> i \in v.objs)
               PROVE  \E r \in Q : Removes(r, i)
    BY DEF Initials
  <2>1. PICK r \in P : Removes(r, i)
    BY DEF Wires, Initials
  <2> QED
    BY <1>1, <2>1
<1>6. TakenKnown(v, Q)
  <2> SUFFICES ASSUME NEW x \in v.inputs, x[2] \in v.objs, SameNode(x), x \notin v.inputted
               PROVE  \E r \in Q : Untakes(r, x)
    BY DEF TakenKnown, Knows
  <2>1. PICK r \in P : Untakes(r, x)
    BY DEF Wires, TakenKnown, Knows
  <2> QED
    BY <1>1, <2>1
<1> QED
  BY <1>2, <1>3, <1>4, <1>5, <1>6 DEF Wires

\* Nor for the progress of those that touch other objects.
LEMMA ProgressMended ==
    ASSUME NEW d, NEW v, NEW g, NEW P, Done(d, v, g, P), P \subseteq RequestSet,
           NEW Q, Q \subseteq P, \A r \in P \ Q : Mended(r, d),
           NEW q, NEW calls, q.on # d.on, Progress(q, v, g, P, calls)
    PROVE  Progress(q, v, g, Q, calls)
<1>1. \A r \in P \ Q : r.on = d.on /\ \A x \in v.inputs : ~Untakes(r, x)
  BY Settled DEF Mended
<1>2. \A i : Knows(v, P, <<q.on, i>>) => Knows(v, Q, <<q.on, i>>)
  <2> SUFFICES ASSUME NEW i, NEW r \in P, Untakes(r, <<q.on, i>>), r \notin Q
               PROVE  FALSE
    BY DEF Knows
  <2>1. r.on = q.on
    BY DEF Untakes
  <2> QED
    BY <1>1, <2>1
<1>3. Taking(q, v, P, calls) => Taking(q, v, Q, calls)
  BY <1>2 DEF Taking
<1>4. Removing(v, P, calls) => Removing(v, Q, calls)
  <2>1. \A x \in v.inputs : (\E r \in P : Untakes(r, x)) => \E r \in Q : Untakes(r, x)
    BY <1>1
  <2> QED
    BY <2>1 DEF Removing
<1> QED
  BY <1>3, <1>4 DEF Progress

\* More requests may leave more.
LEMMA WiresMore ==
    ASSUME NEW v, NEW g, NEW P, Wires(v, g, P), NEW Q, P \subseteq Q,
           \A r \in Q \ P : r.kind = "UpdateInputs" => r.with \subseteq v.objs \cup g
    PROVE  /\ Wires(v, g, Q)
           /\ \A q, calls : Progress(q, v, g, P, calls) => Progress(q, v, g, Q, calls)
<1>1. Own(v, g, Q)
  BY DEF Wires, Own
<1>2. ListedThere(v, Q)
  BY DEF Wires, ListedThere
<1>3. ThereListed(v, g, Q) /\ Initials(v, Q)
  BY DEF Wires, ThereListed, Initials
<1>4. \A x : Knows(v, P, x) => Knows(v, Q, x)
  BY DEF Knows
<1>5. TakenKnown(v, Q)
  BY <1>4 DEF Wires, TakenKnown
<1>6. ASSUME NEW q, NEW calls, Progress(q, v, g, P, calls)
      PROVE  Progress(q, v, g, Q, calls)
  <2>1. Taking(q, v, P, calls) => Taking(q, v, Q, calls)
    BY <1>4 DEF Taking
  <2>2. Removing(v, P, calls) => Removing(v, Q, calls)
    BY DEF Removing
  <2> QED
    BY <1>6, <2>1, <2>2 DEF Progress
<1> QED
  BY <1>1, <1>2, <1>3, <1>5, <1>6 DEF Wires

-----------------------------------------------------------------------------
(* Every step keeps what the rows say of each other.                       *)

\* Requests that others have left.
Elsewhere(p) == {ask[q] : q \in {z \in Active : z # p /\ Head(todo[z]).op # "FindFree"}}
Counts(calls) == calls # << >> /\ Head(calls).op # "FindFree"

\* Of the requests that may have left something, one is that of p.
LEMMA PendingHere ==
    ASSUME NEW p \in Active
    PROVE  Pending = broken \cup Elsewhere(p)
                       \cup (IF Head(todo[p]).op # "FindFree" THEN {ask[p]} ELSE {})
BY DEF Pending, Elsewhere

\* The others stay as they are.
LEMMA OthersStay ==
    ASSUME WorkInv, NEW p \in Clients, NEW calls, todo' = [todo EXCEPT ![p] = calls],
           ask' = ask \/ Leave(p) \/ (p \notin Active /\ \E r : ask' = [ask EXCEPT ![p] = r])
    PROVE  /\ \A q : q # p => (q \in Active' <=> q \in Active)
           /\ \A q \in Active : q # p => ask'[q] = ask[q] /\ todo'[q] = todo[q]
           /\ todo'[p] = calls
           /\ Elsewhere(p)' = Elsewhere(p)
<1>1. ask \in [Clients -> RequestSet \cup {Nothing}] /\ todo \in [Clients -> Seq(CallSet)]
  BY DEF WorkInv, TypesInv
<1>2. \A q \in Clients : q # p => ask'[q] = ask[q] /\ todo'[q] = todo[q]
  BY <1>1 DEF Leave
<1>3. todo'[p] = calls
  BY <1>1
<1>4. \A q : q # p => (q \in Active' <=> q \in Active)
  BY <1>2 DEF Active, Idle
<1>5. \A q \in Active : q \in Clients
  BY DEF Active
<1>6. Elsewhere(p)' = Elsewhere(p)
  <2> DEFINE S == {z \in Active : z # p /\ Head(todo[z]).op # "FindFree"}
             T == {z \in Active' : z # p /\ Head(todo'[z]).op # "FindFree"}
  <2>1. S = T
    BY <1>2, <1>4, <1>5
  <2>2. \A z \in S : ask'[z] = ask[z]
    BY <1>2, <1>5
  <2>3. Elsewhere(p) = {ask[z] : z \in S} /\ Elsewhere(p)' = {ask'[z] : z \in T}
    BY DEF Elsewhere
  <2> HIDE DEF S, T
  <2> QED
    BY <2>1, <2>2, <2>3
<1> QED
  BY <1>2, <1>3, <1>4, <1>5, <1>6

\* When p has other calls left, or none.
LEMMA PendingNext ==
    ASSUME WorkInv, NEW p \in Active, NEW calls, todo' = [todo EXCEPT ![p] = calls],
           calls = << >> => Leave(p), calls # << >> => ask' = ask
    PROVE  /\ Pending' = broken' \cup Elsewhere(p) \cup (IF Counts(calls) THEN {ask[p]} ELSE {})
           /\ calls = << >> => p \notin Active'
           /\ calls # << >> => p \in Active' /\ ask'[p] = ask[p] /\ todo'[p] = calls
<1>1. p \in Clients /\ ask \in [Clients -> RequestSet \cup {Nothing}]
  BY DEF Active, WorkInv, TypesInv
<1>2. todo'[p] = calls /\ Elsewhere(p)' = Elsewhere(p)
  BY <1>1, OthersStay
<1>3. CASE calls = << >>
  <2>1. ask'[p] = Nothing
    BY <1>1, <1>3 DEF Leave
  <2>2. p \notin Active'
    BY <2>1 DEF Active, Idle
  <2>3. Pending' = broken' \cup Elsewhere(p)'
    BY <2>2 DEF Pending, Elsewhere
  <2> QED
    BY <1>2, <1>3, <2>2, <2>3 DEF Counts
<1>4. CASE calls # << >>
  <2>1. ask'[p] = ask[p] /\ p \in Active'
    BY <1>4 DEF Active, Idle
  <2>2. Pending' = broken' \cup Elsewhere(p)'
                     \cup (IF Head(todo'[p]).op # "FindFree" THEN {ask'[p]} ELSE {})
    BY <2>1 DEF Pending, Elsewhere
  <2> QED
    BY <1>2, <1>4, <2>1, <2>2 DEF Counts
<1> QED
  BY <1>3, <1>4

\* The invariant after such a step.
LEMMA WireTurns ==
    ASSUME WorkInv, NEW p \in Active, NEW calls, todo' = [todo EXCEPT ![p] = calls],
           calls = << >> => Leave(p), calls # << >> => ask' = ask,
           NEW Q, Q = Pending', Wires(t', gone', Q),
           \A q \in Active : q # p => Progress(ask[q], t', gone', Q, todo[q]),
           calls # << >> => Progress(ask[p], t', gone', Q, calls)
    PROVE  WireInv'
<1>1. p \in Clients
  BY DEF Active
<1>2. /\ \A q : q # p => (q \in Active' <=> q \in Active)
      /\ \A q \in Active : q # p => ask'[q] = ask[q] /\ todo'[q] = todo[q]
  BY <1>1, OthersStay
<1>3. /\ calls = << >> => p \notin Active'
      /\ calls # << >> => p \in Active' /\ ask'[p] = ask[p] /\ todo'[p] = calls
  <2>1. p \in Clients /\ ask \in [Clients -> RequestSet \cup {Nothing}] /\ todo'[p] = calls
    BY <1>1, OthersStay DEF WorkInv, TypesInv
  <2>2. calls = << >> => ask'[p] = Nothing
    BY <2>1 DEF Leave
  <2> QED
    BY <2>1, <2>2 DEF Active, Idle
<1>4. \A q \in Active' : Progress(ask'[q], t', gone', Q, todo'[q])
  <2> SUFFICES ASSUME NEW q \in Active'
               PROVE  Progress(ask'[q], t', gone', Q, todo'[q])
    OBVIOUS
  <2>1. CASE q = p
    BY <1>3, <2>1
  <2>2. CASE q # p
    BY <1>2, <2>2
  <2> QED
    BY <2>1, <2>2
<1> QED
  BY <1>4 DEF WireInv

\* Where a client is that is about to make a call.
LEMMA AtHead ==
    ASSUME WorkInv, StepInv, WireInv, NEW p \in Clients, todo[p] # << >>, Head(todo[p]).op # "FindFree"
    PROVE  /\ AtCall(ask[p], began[p], Pending, todo[p]) /\ p \in Active
           /\ Pending \subseteq RequestSet /\ ask[p] \in Pending /\ ask[p] \in RequestSet
<1>1. p \in Active /\ Has(ask[p], began[p], t, todo[p])
  BY Working
<1>2. ask[p] \in Pending
  BY <1>1, PendingHere
<1>3. Pending \subseteq RequestSet
  <2>1. \A q \in Active : ask[q] \in RequestSet
    BY DEF WorkInv, TypesInv, Active, Idle
  <2> QED
    BY <2>1 DEF WorkInv, TypesInv, Pending
<1>4. InOrder(ask[p], todo[p])
  BY <1>1 DEF StepInv, Orderly
<1>5. Progress(ask[p], t, gone, Pending, todo[p]) /\ Wires(t, gone, Pending)
  BY <1>1 DEF WireInv
<1>6. gone \cap t.objs = {}
  BY DEF WorkInv, DeletedStays
<1> QED
  BY <1>1, <1>2, <1>3, <1>4, <1>5, <1>6 DEF AtCall

\* What a call leaves, carried out or not.
LEMMA WrittenWires ==
    ASSUME WorkInv, StepInv, WireInv, NEW p \in Clients, todo[p] # << >>, Head(todo[p]).op \notin LockOps,
           Written(p)
    PROVE  /\ Wires(t', gone', Pending)
           /\ \A q \in Active : q # p => Progress(ask[q], t', gone', Pending, todo[q])
<1> DEFINE c == Head(todo[p])
           r == ask[p]
           b == began[p]
<1>1. AtCall(r, b, Pending, todo[p]) /\ p \in Active
  BY AtHead DEF LockOps
<1>2. CASE t' = t /\ gone' = gone
  BY <1>2 DEF WireInv
<1>3. CASE t' = Result(c) /\ gone' = Forgotten(c)
  <2> HIDE DEF c, r, b
  <2>1. Wires(Result(c), Forgotten(c), Pending)
    BY <1>1, WiresCall DEF c
  <2>2. ASSUME NEW q \in Active, q # p
        PROVE  Progress(ask[q], Result(c), Forgotten(c), Pending, todo[q])
    <3> DEFINE e == began[q]
    <3>1. Touched(r, b) \cap Touched(ask[q], e) \subseteq {None}
      BY <1>1, <2>2 DEF WorkInv, Disjoint, r, b
    <3>2. Has(ask[q], e, t, todo[q])
      BY <2>2 DEF WorkInv, AtWork
    <3>3. Progress(ask[q], t, gone, Pending, todo[q])
      BY <2>2 DEF WireInv
    <3>4. c = Head(todo[p]) /\ c.op \notin LockOps
      BY DEF c
    <3> HIDE DEF e
    <3>5. Aside(ask[q], e, Result(c), Forgotten(c))
      BY <1>1, <3>1, <3>4, CallAside
    <3>6. Waits(ask[q], e, Pending, todo[q], Result(c), Forgotten(c))
      BY <3>2, <3>3, <3>5 DEF Waits
    <3> QED
      BY <3>6, ProgressStays
  <2> QED
    BY <1>3, <2>1, <2>2
<1> QED
  BY <1>2, <1>3 DEF Written

\* A request whose last call is served mends what it was to mend.
LEMMA WireLeaves ==
    ASSUME WorkInv, NEW p \in Active, todo' = [todo EXCEPT ![p] = << >>], Leave(p),
           broken' = {r \in broken : ~Mended(r, ask[p])}, t' \in Tables,
           Head(todo[p]).op # "FindFree", Wires(t', gone', Pending),
           \A q \in Active : q # p => Progress(ask[q], t', gone', Pending, todo[q]),
           Progress(ask[p], t', gone', Pending, << >>)
    PROVE  WireInv'
<1> DEFINE P == Pending
           Q == Pending'
           d == ask[p]
           calls == << >>
<1>1. /\ \A q \in Active : ask[q] \in RequestSet /\ ask[q].on # None
      /\ P \subseteq RequestSet
  <2>1. \A q \in Active : ask[q] \in RequestSet
    BY DEF WorkInv, TypesInv, Active, Idle
  <2>2. P \subseteq RequestSet
    BY <2>1 DEF WorkInv, TypesInv, Pending
  <2> QED
    BY <2>1, <2>2, Kinds
<1>2. P = broken \cup Elsewhere(p) \cup {d}
  BY PendingHere
<1>3. Q = broken' \cup Elsewhere(p)
  <2>1. calls = << >>
    OBVIOUS
  <2>2. ~Counts(calls) /\ todo' = [todo EXCEPT ![p] = calls]
    BY DEF Counts
  <2> HIDE DEF calls
  <2>3. Pending' = broken' \cup Elsewhere(p) \cup (IF Counts(calls) THEN {ask[p]} ELSE {})
    BY <2>1, <2>2, PendingNext
  <2> QED
    BY <2>2, <2>3
<1>4. Mended(d, d)
  BY DEF Mended
<1>5. Q \subseteq P /\ \A r \in P \ Q : Mended(r, d)
  BY <1>2, <1>3, <1>4
<1> HIDE DEF P, Q, calls
<1>6. Done(d, t', gone', P)
  BY <1>1 DEF Done, Wires, P
<1>7. Wires(t', gone', Q)
  BY <1>1, <1>5, <1>6, WiresMended DEF P
<1>8. ASSUME NEW q \in Active, q # p
      PROVE  Progress(ask[q], t', gone', Q, todo[q])
  <2>1. ask[q].on # d.on
    <3>1. Touched(ask[q], began[q]) \cap Touched(d, began[p]) \subseteq {None}
      BY <1>8 DEF WorkInv, Disjoint
    <3>2. began[q] \in Tables /\ began[p] \in Tables
      BY DEF WorkInv, TypesInv, Active
    <3>3. ask[q].on \in Touched(ask[q], began[q]) /\ d.on \in Touched(d, began[p])
      BY <1>1, <3>2, Touches
    <3> QED
      BY <1>1, <3>1, <3>3
  <2>2. Progress(ask[q], t', gone', P, todo[q])
    BY <1>8 DEF P
  <2> QED
    BY <1>1, <1>5, <1>6, <2>1, <2>2, ProgressMended
<1>9. calls = << >>
  BY DEF calls
<1> QED
  BY <1>7, <1>8, <1>9, WireTurns DEF Q

\* A call is served.
LEMMA WireServe ==
    ASSUME WorkInv, StepInv, WireInv, NEW p \in Clients, Serve(p)
    PROVE  WireInv'
<1> DEFINE c == Head(todo[p])
           calls == todo[p]
           left == Onward(c, calls)
           r == ask[p]
           b == began[p]
           P == Pending
<1>1. /\ todo[p] # << >> /\ c.op \notin LockOps /\ ~Absent(c) /\ t' = Result(c) /\ gone' = Forgotten(c)
      /\ Continue(p, left) /\ Written(p)
  BY DEF Serve, Written, Onward
<1>2. c.op # "FindFree"
  BY <1>1 DEF LockOps
<1>3. AtCall(r, b, P, calls) /\ p \in Active /\ ask[p] \in P
  BY <1>1, <1>2, AtHead
<1>4. /\ Wires(t', gone', Pending)
      /\ \A q \in Active : q # p => Progress(ask[q], t', gone', Pending, todo[q])
  BY <1>1, WrittenWires
<1>5. Serves(r, b, P, calls, c)
  BY <1>1, <1>3 DEF Serves
<1>6. r.kind = "CreateStep" => Creates(r, c, left)
  <2>1. left = Further(c) \o Tail(todo[p])
    BY DEF Onward
  <2> HIDE DEF left, c, r
  <2>2. r = ask[p] /\ c = Head(todo[p])
    BY DEF r, c
  <2> QED
    BY <1>1, <2>1, <2>2, OrderServe DEF StepInv
<1>7. Progress(r, t', gone', P, left)
  <2> HIDE DEF c, r, b, P, calls
  <2>1. left = Onward(c, calls)
    OBVIOUS
  <2> HIDE DEF left
  <2>2. Progress(r, Result(c), Forgotten(c), P, left)
    BY <1>5, <1>6, <2>1, ProgressOn
  <2> QED
    BY <1>1, <2>2
<1>8. CASE left = << >>
  <2>1. /\ todo' = [todo EXCEPT ![p] = << >>] /\ Leave(p)
        /\ broken' = {z \in broken : ~Mended(z, ask[p])}
    BY <1>1, <1>8 DEF Continue
  <2>2. t' \in Tables
    BY <1>1, <1>5, ServesOn
  <2>3. Progress(ask[p], t', gone', Pending, << >>)
    BY <1>7, <1>8
  <2>4. Head(todo[p]).op # "FindFree"
    BY <1>2
  <2> HIDE DEF c, calls, left, r, b, P
  <2> QED
    BY <1>3, <1>4, <2>1, <2>2, <2>3, <2>4, WireLeaves
<1>9. CASE left # << >>
  <2>1. todo' = [todo EXCEPT ![p] = left] /\ ask' = ask /\ broken' = broken
    BY <1>1, <1>9 DEF Continue
  <2>2. Head(left).op # "FindFree"
    <3>1. Has(r, b, t, calls) /\ c = Head(calls) /\ left = Further(c) \o Tail(calls)
      BY <1>3 DEF AtCall, Onward
    <3> HIDE DEF left, c, calls, r, b
    <3>2. Head(left).op \notin {"FindFree", "SetKey"}
      BY <1>1, <1>9, <3>1, GoesOn
    <3> QED
      BY <3>2
  <2> HIDE DEF left
  <2>3. Counts(left)
    BY <1>9, <2>2 DEF Counts
  <2>4. Pending' = broken' \cup Elsewhere(p) \cup (IF Counts(left) THEN {ask[p]} ELSE {})
    BY <1>3, <1>9, <2>1, PendingNext
  <2>5. Pending = broken \cup Elsewhere(p) \cup {ask[p]}
    BY <1>2, <1>3, PendingHere
  <2>6. Pending' = Pending
    BY <2>1, <2>3, <2>4, <2>5
  <2> DEFINE Q == Pending'
  <2>7. Q = Pending' /\ Q = Pending
    BY <2>6
  <2> HIDE DEF Q, c, calls, r, b
  <2>8. Wires(t', gone', Q) /\ \A q \in Active : q # p => Progress(ask[q], t', gone', Q, todo[q])
    BY <1>4, <2>7
  <2>9. Progress(ask[p], t', gone', Q, left)
    BY <1>7, <2>7 DEF r
  <2> QED
    BY <1>3, <1>9, <2>1, <2>7, <2>8, <2>9, WireTurns
<1> QED
  BY <1>8, <1>9

\* A call about the key changes no row, and no progress.
LEMMA LockProgress ==
    ASSUME NEW r, NEW b, NEW calls, Has(r, b, t, calls), NEW c, c = Head(calls), c.op \in LockOps,
           NEW P, Progress(r, t, gone, P, calls)
    PROVE  Progress(r, t, gone, P, Tail(calls)) /\ r.kind \in LockKinds
<1>1. r.kind \in LockKinds
  BY LockCall DEF InPlace
<1>2. Range(calls) = {c} \cup Range(Tail(calls))
  BY RangeFirst DEF Has
<1>3. r.kind = "CreateStep" => r.on \notin t.objs \cup gone \/ Tail(calls) = << >>
  <2> SUFFICES ASSUME r.kind = "CreateStep", r.on \in t.objs \cup gone PROVE Tail(calls) = << >>
    OBVIOUS
  <2> DEFINE e == Call("Unlock", r.on, {})
  <2>1. calls = <<e>>
    BY DEF Progress, Has
  <2> HIDE DEF e
  <2> QED
    BY <2>1
<1>4. r.kind = "DeleteStep" => DroppingStep(r, t, Tail(calls))
  <2> SUFFICES ASSUME r.kind = "DeleteStep" PROVE DroppingStep(r, t, Tail(calls))
    OBVIOUS
  <2>1. DroppingStep(r, t, calls)
    BY DEF Progress
  <2>2. Call("DropStep", r.on, {}) # c
    BY DEF Call, LockOps
  <2> QED
    BY <1>2, <2>1, <2>2 DEF DroppingStep
<1>5. r.kind \in {"CreateStep", "DeleteStep"}
  BY <1>1 DEF LockKinds
<1> QED
  BY <1>1, <1>3, <1>4, <1>5 DEF Progress

\* A client goes on, and counts from now on if it did not before.
LEMMA WireGoes ==
    ASSUME WorkInv, WireInv, NEW p \in Active, NEW calls, Counts(calls),
           todo' = [todo EXCEPT ![p] = calls], ask' = ask, broken' = broken, t' = t, gone' = gone,
           ask[p].kind # "UpdateInputs", Progress(ask[p], t, gone, Pending, calls)
    PROVE  WireInv'
<1> DEFINE P == Pending
           Q == Pending'
<1>1. calls # << >>
  BY DEF Counts
<1>2. Q = broken \cup Elsewhere(p) \cup {ask[p]}
  BY <1>1, PendingNext
<1>3. P = broken \cup Elsewhere(p) \/ P = broken \cup Elsewhere(p) \cup {ask[p]}
  BY PendingHere
<1>4. P \subseteq Q /\ \A r \in Q \ P : r.kind # "UpdateInputs"
  BY <1>2, <1>3
<1>5. Wires(t, gone, P) /\ \A q \in Active : Progress(ask[q], t, gone, P, todo[q])
  BY DEF WireInv
<1>6. Progress(ask[p], t, gone, P, calls)
  OBVIOUS
<1>7. Q = Pending'
  OBVIOUS
<1> HIDE DEF P, Q
<1>8. /\ Wires(t, gone, Q)
      /\ \A q, left : Progress(q, t, gone, P, left) => Progress(q, t, gone, Q, left)
  BY <1>4, <1>5, WiresMore
<1> QED
  BY <1>1, <1>5, <1>6, <1>7, <1>8, WireTurns

\* The key of a flow is found free, or set.
LEMMA WireKey ==
    ASSUME WorkInv, WireInv, NEW p \in Clients, todo[p] # << >>, Head(todo[p]).op \in {"FindFree", "SetKey"},
           Continue(p, Tail(todo[p])), t' = t, gone' = gone
    PROVE  WireInv'
<1> DEFINE r == ask[p]
           calls == todo[p]
           left == Tail(calls)
           c == Head(calls)
<1>1. p \in Active /\ Has(r, began[p], t, calls) /\ c.op \in LockOps
  BY Working DEF LockOps
<1>2. Progress(r, t, gone, Pending, left) /\ r.kind \in LockKinds
  <2>1. Progress(r, t, gone, Pending, calls)
    BY <1>1 DEF WireInv
  <2> HIDE DEF r, calls
  <2> QED
    BY <1>1, <2>1, LockProgress
<1>3. left # << >> /\ Head(left).op # "FindFree"
  <2>1. InPlace(r, began[p], t, calls, c)
    BY <1>1, LockCall
  <2>2. Head(Tail(Program(r))).op = "SetKey" /\ Head(Tail(Tail(Program(r)))).op \in {"FindIndex", "ReadStep"}
    BY <1>2, LockPrograms
  <2> HIDE DEF r, c
  <2>3. CASE c.op = "FindFree"
    BY <2>1, <2>2, <2>3 DEF InPlace, Has
  <2>4. CASE c.op = "SetKey"
    BY <2>1, <2>2, <2>4 DEF InPlace, Has
  <2> QED
    BY <2>3, <2>4 DEF c
<1>4. todo' = [todo EXCEPT ![p] = left] /\ ask' = ask /\ broken' = broken
  BY <1>3 DEF Continue
<1>5. Counts(left)
  BY <1>3 DEF Counts
<1>6. ask[p].kind # "UpdateInputs"
  BY <1>2 DEF LockKinds
<1> HIDE DEF left
<1> QED
  BY <1>1, <1>2, <1>4, <1>5, <1>6, WireGoes DEF r

\* The key is deleted.
LEMMA WireUnlock ==
    ASSUME WorkInv, WireInv, NEW p \in Clients, todo[p] # << >>, Head(todo[p]).op = "Unlock",
           Continue(p, Tail(todo[p])), t' = t, gone' = gone
    PROVE  WireInv'
<1> DEFINE r == ask[p]
           calls == todo[p]
           c == Head(calls)
<1>1. p \in Active /\ Has(r, began[p], t, calls) /\ c.op \in LockOps
  BY Working DEF LockOps
<1>2. Tail(calls) = << >>
  <2>1. InPlace(r, began[p], t, calls, c)
    BY <1>1, LockCall
  <2> QED
    BY <2>1 DEF InPlace
<1>3. Progress(r, t', gone', Pending, << >>)
  <2>1. Progress(r, t, gone, Pending, calls)
    BY <1>1 DEF WireInv
  <2> HIDE DEF r, calls
  <2>2. Progress(r, t, gone, Pending, Tail(calls))
    BY <1>1, <2>1, LockProgress
  <2> QED
    BY <1>2, <2>2
<1>4. /\ todo' = [todo EXCEPT ![p] = << >>] /\ Leave(p)
      /\ broken' = {z \in broken : ~Mended(z, ask[p])}
  BY <1>2 DEF Continue
<1>5. t' \in Tables
  BY DEF WorkInv, TypesInv
<1>6. /\ Wires(t', gone', Pending)
      /\ \A q \in Active : q # p => Progress(ask[q], t', gone', Pending, todo[q])
  BY DEF WireInv
<1> QED
  BY <1>1, <1>3, <1>4, <1>5, <1>6, WireLeaves

\* A handler breaks off, whether or not its last call was carried out.
LEMMA WireBreak ==
    ASSUME WorkInv, StepInv, WireInv, NEW p \in Clients, todo[p] # << >>, Head(todo[p]).op \notin LockOps,
           Written(p), Break(p)
    PROVE  WireInv'
<1> DEFINE calls == << >>
           Q == Pending'
<1>1. p \in Active /\ ask[p] \in Pending
  BY AtHead DEF LockOps
<1>2. /\ Wires(t', gone', Pending)
      /\ \A q \in Active : q # p => Progress(ask[q], t', gone', Pending, todo[q])
  BY WrittenWires
<1>3. calls = << >> /\ todo' = [todo EXCEPT ![p] = calls] /\ Leave(p) /\ broken' = broken \cup {ask[p]}
  BY DEF Break
<1>4. ~Counts(calls)
  BY DEF Counts
<1> HIDE DEF calls
<1>5. Q = broken \cup {ask[p]} \cup Elsewhere(p)
  BY <1>1, <1>3, <1>4, PendingNext
<1>6. Head(todo[p]).op # "FindFree"
  BY DEF LockOps
<1>7. Q = Pending
  BY <1>1, <1>5, <1>6, PendingHere
<1>8. Q = Pending'
  OBVIOUS
<1> HIDE DEF Q
<1> QED
  BY <1>1, <1>2, <1>3, <1>7, <1>8, WireTurns

\* A handler replies that the flow is locked.
LEMMA WireRefuse ==
    ASSUME WorkInv, WireInv, NEW p \in Clients, Refuse(p)
    PROVE  WireInv'
<1> DEFINE calls == << >>
           Q == Pending'
<1>1. todo[p] # << >> /\ Head(todo[p]).op = "FindFree"
  BY DEF Refuse, Locking
<1>2. p \in Active
  BY <1>1, Working
<1>3. calls = << >> /\ todo' = [todo EXCEPT ![p] = calls] /\ Leave(p)
      /\ broken' = broken /\ t' = t /\ gone' = gone
  BY DEF Refuse
<1>4. ~Counts(calls)
  BY DEF Counts
<1> HIDE DEF calls
<1>5. Q = broken \cup Elsewhere(p)
  BY <1>2, <1>3, <1>4, PendingNext
<1>6. Q = Pending
  BY <1>1, <1>2, <1>5, PendingHere
<1>7. Q = Pending'
  OBVIOUS
<1> HIDE DEF Q
<1>8. Wires(t', gone', Q) /\ \A q \in Active : Progress(ask[q], t', gone', Q, todo[q])
  BY <1>3, <1>6 DEF WireInv
<1> QED
  BY <1>2, <1>3, <1>7, <1>8, WireTurns

\* The calls of a deletion, before the first of them.
LEMMA ProgramDrops ==
    ASSUME NEW r \in RequestSet
    PROVE  /\ r.kind = "DeleteStep" =>
                /\ Call("DropStep", r.on, {}) \in Range(Program(r))
                /\ \A c \in Range(Program(r)) : c.op # "DropIo"
           /\ r.kind = "DeleteFlow" =>
                /\ Call("ReadSteps", r.on, {}) \in Range(Program(r))
                /\ \A c \in Range(Program(r)) : c.op # "DropIo"
<1>1. CASE r.kind = "DeleteStep"
  <2> DEFINE x(op) == Call(op, r.on, {})
  <2>1. Program(r) = <<x("FindFree"), x("SetKey"), x("ReadStep"), x("DropStep"), x("Unlock")>>
    BY <1>1 DEF Program
  <2>2. /\ DOMAIN Program(r) = 1 .. 5
        /\ Program(r)[1] = x("FindFree") /\ Program(r)[2] = x("SetKey") /\ Program(r)[3] = x("ReadStep")
        /\ Program(r)[4] = x("DropStep") /\ Program(r)[5] = x("Unlock")
    <3> HIDE DEF x
    <3> QED
      BY <2>1
  <2>3. \A op : x(op).op = op
    BY DEF Call
  <2> HIDE DEF x
  <2>4. \A k \in 1 .. 5 : k = 1 \/ k = 2 \/ k = 3 \/ k = 4 \/ k = 5
    OBVIOUS
  <2>5. x("DropStep") \in Range(Program(r))
    BY <2>2 DEF Range
  <2>6. \A c \in Range(Program(r)) : c.op # "DropIo"
    BY <2>2, <2>3, <2>4 DEF Range
  <2> QED
    BY <1>1, <2>5, <2>6 DEF x
<1>2. CASE r.kind = "DeleteFlow"
  <2> DEFINE x == Call("ReadSteps", r.on, {})
             y == Call("DropFlow", r.on, {})
  <2>1. Program(r) = <<x, y>>
    BY <1>2 DEF Program
  <2>2. x.op # "DropIo" /\ y.op # "DropIo"
    BY DEF Call
  <2>3. Range(Program(r)) = {x, y}
    <3> HIDE DEF x, y
    <3> QED
      BY <2>1, FewCalls
  <2> HIDE DEF y
  <2> QED
    BY <1>2, <2>2, <2>3
<1> QED
  BY <1>1, <1>2

\* A request that has not begun has left nothing out.
LEMMA ProgressBegins ==
    ASSUME NEW r \in RequestSet, NEW v, NEW g, NEW P, r.kind \in Creations => r.on \notin v.objs \cup g
    PROVE  Progress(r, v, g, P, Program(r))
<1>1. r.kind = "DeleteStep" => DroppingStep(r, v, Program(r))
  BY ProgramDrops DEF DroppingStep
<1>2. r.kind = "DeleteFlow" => DroppingFlow(r, v, Program(r))
  BY ProgramDrops DEF DroppingFlow
<1>3. r.kind = "CreateIo" => Creating(r, v, g, Program(r))
  BY DEF Creating, Creations
<1>4. r.kind = "UpdateInputs" => Taking(r, v, P, Program(r))
  BY DEF Taking
<1> QED
  BY <1>1, <1>2, <1>3, <1>4 DEF Progress, Creations

\* A client asks.
LEMMA WireAsk ==
    ASSUME WorkInv, WireInv, Proper, Sensible, NEW p \in Clients, Ask(p)
    PROVE  WireInv'
<1> DEFINE P == Pending
           Q == Pending'
<1>1. PICK r \in Asked(t) \cup Repeatable :
        /\ ask' = [ask EXCEPT ![p] = r] /\ todo' = [todo EXCEPT ![p] = Program(r)]
        /\ r.kind \in Creations => r.on \notin gone
  BY DEF Ask
<1>2. p \notin Active /\ t' = t /\ gone' = gone /\ broken' = broken
  BY DEF Ask, Active
<1>3. /\ t \in Tables /\ broken \subseteq RequestSet
      /\ ask \in [Clients -> RequestSet \cup {Nothing}] /\ todo \in [Clients -> Seq(CallSet)]
  BY DEF WorkInv, TypesInv
<1>4. r \in RequestSet
  BY <1>3 DEF Proper, Repeatable
<1>5. /\ r.kind \in Creations => r.on \notin t.objs \cup gone
      /\ r.kind = "UpdateInputs" => r.with \subseteq t.objs \/ r \in P
  <2>1. CASE r \in Asked(t)
    BY <1>1, <1>3, <2>1 DEF Sensible
  <2>2. CASE r \in Repeatable
    BY <2>2 DEF Repeatable, Pending
  <2> QED
    BY <2>1, <2>2
<1>6. ask'[p] = r /\ todo'[p] = Program(r)
  BY <1>1, <1>3
<1>7. /\ \A q : q # p => (q \in Active' <=> q \in Active)
      /\ \A q \in Active : q # p => ask'[q] = ask[q] /\ todo'[q] = todo[q]
      /\ Elsewhere(p)' = Elsewhere(p)
  <2> DEFINE calls == Program(r)
  <2>1. todo' = [todo EXCEPT ![p] = calls]
    BY <1>1
  <2> HIDE DEF calls
  <2> QED
    BY <1>1, <1>2, <2>1, OthersStay
<1>8. P \subseteq Q /\ Q \subseteq P \cup {r}
  <2>1. P = broken \cup Elsewhere(p)
    BY <1>2 DEF Pending, Elsewhere
  <2>2. Q = broken' \cup Elsewhere(p)'
                \cup {ask'[q] : q \in {z \in Active' : z = p /\ Head(todo'[z]).op # "FindFree"}}
    BY DEF Pending, Elsewhere
  <2> QED
    BY <1>2, <1>6, <1>7, <2>1, <2>2
<1>9. Wires(t, gone, P) /\ \A q \in Active : Progress(ask[q], t, gone, P, todo[q])
  BY DEF WireInv
<1>10. \A z \in Q \ P : z.kind = "UpdateInputs" => z.with \subseteq t.objs \cup gone
  BY <1>5, <1>8
<1>11. Q = Pending'
  OBVIOUS
<1> HIDE DEF P, Q
<1>12. /\ Wires(t, gone, Q)
       /\ \A q, left : Progress(q, t, gone, P, left) => Progress(q, t, gone, Q, left)
  BY <1>8, <1>9, <1>10, WiresMore
<1>13. Progress(r, t, gone, Q, Program(r))
  BY <1>4, <1>5, ProgressBegins
<1>14. \A q \in Active' : Progress(ask'[q], t', gone', Q, todo'[q])
  <2> SUFFICES ASSUME NEW q \in Active' PROVE Progress(ask'[q], t', gone', Q, todo'[q])
    OBVIOUS
  <2>1. CASE q = p
    BY <1>2, <1>6, <1>13, <2>1
  <2>2. CASE q # p
    BY <1>2, <1>7, <1>9, <1>12, <2>2
  <2> QED
    BY <2>1, <2>2
<1> QED
  BY <1>2, <1>11, <1>12, <1>14 DEF WireInv

\* All steps.
LEMMA WireStep ==
    ASSUME WorkInv, StepInv, WireInv, Proper, Sensible, [Next]_vars
    PROVE  WireInv'
<1>1. ASSUME NEW p \in Clients, FindFree(p) \/ SetKey(p)
      PROVE  WireInv'
  <2>1. /\ todo[p] # << >> /\ Head(todo[p]).op \in {"FindFree", "SetKey"}
        /\ Continue(p, Tail(todo[p])) /\ t' = t /\ gone' = gone
    BY <1>1 DEF FindFree, SetKey, Locking
  <2> QED
    BY <2>1, WireKey
<1>2. ASSUME NEW p \in Clients, Unlock(p)
      PROVE  WireInv'
  <2>1. /\ todo[p] # << >> /\ Head(todo[p]).op = "Unlock"
        /\ Continue(p, Tail(todo[p])) /\ t' = t /\ gone' = gone
    BY <1>2 DEF Unlock, Locking
  <2> QED
    BY <2>1, WireUnlock
<1>3. ASSUME NEW p \in Clients, BreakUnfound(p) \/ Fail(p)
      PROVE  WireInv'
  <2>1. todo[p] # << >> /\ Head(todo[p]).op \notin LockOps /\ Break(p) /\ Written(p)
    BY <1>3 DEF BreakUnfound, Fail, Absent, LockOps, Written
  <2> QED
    BY <2>1, WireBreak
<1>4. ASSUME NEW f \in Flows, LockExpires(f)
      PROVE  WireInv'
  <2>1. t' = t /\ gone' = gone /\ ask' = ask /\ todo' = todo /\ broken' = broken
    BY <1>4 DEF LockExpires
  <2>2. Active' = Active /\ Pending' = Pending
    BY <2>1 DEF Active, Idle, Pending
  <2> QED
    BY <2>1, <2>2 DEF WireInv
<1>5. CASE UNCHANGED vars
  <2>1. t' = t /\ gone' = gone /\ ask' = ask /\ todo' = todo /\ broken' = broken
    BY <1>5 DEF vars
  <2>2. Active' = Active /\ Pending' = Pending
    BY <2>1 DEF Active, Idle, Pending
  <2> QED
    BY <2>1, <2>2 DEF WireInv
<1> QED
  BY <1>1, <1>2, <1>3, <1>4, <1>5, WireAsk, WireServe, WireRefuse DEF Next

-----------------------------------------------------------------------------
(* So what belongs together outside of the requests is listed and known.   *)

\* To begin with, everything is listed where it is and known where it is taken.
LEMMA WireInit ==
    ASSUME Init
    PROVE  WireInv
<1>1. t = Original /\ gone = {} /\ Original \in Tables
  BY FlowsAssumption DEF Init
<1>2. Active = {} /\ Pending = {}
  <2>1. \A p \in Clients : ask[p] = Nothing
    BY DEF Init
  <2>2. Active = {}
    BY <2>1 DEF Active, Idle
  <2> QED
    BY <2>2 DEF Init, Pending
<1> DEFINE v == Original
<1>3. /\ \A x \in v.outputs \cup v.inputs : x[1] \in v.objs
      /\ v.outputs = {<<StepOf[i], i>> : i \in Attached(v, Ios \cap v.objs)}
      /\ \A x \in v.inputs : x[2] \in Ios \cap v.objs /\ (NodeOf[x[1]] = NodeOf[x[2]] => x \in v.inputted)
      /\ v.initial = {i \in Ios \cap v.objs : StepOf[i] = None}
  BY OriginalAssumption
<1>4. \A x \in v.outputs : x[2] \in v.objs \ v.loose /\ StepOf[x[2]] = x[1]
  BY <1>3 DEF Attached
<1>5. \A i \in Ios \cap v.objs : StepOf[i] # None /\ i \notin v.loose => <<StepOf[i], i>> \in v.outputs
  BY <1>3 DEF Attached
<1> HIDE DEF v
<1>6. Own(v, {}, {})
  BY <1>3, <1>4 DEF Own
<1>7. ListedThere(v, {}) /\ ThereListed(v, {}, {})
  BY <1>4, <1>5 DEF ListedThere, ThereListed
<1>8. Initials(v, {})
  BY <1>3 DEF Initials
<1>9. TakenKnown(v, {})
  BY <1>3 DEF TakenKnown, Knows, SameNode
<1> QED
  BY <1>1, <1>2, <1>6, <1>7, <1>8, <1>9 DEF WireInv, Wires, v

\* What a request may leave is among what it touches.
LEMMA PendingTouches ==
    ASSUME WorkInv, NEW r \in Pending
    PROVE  /\ r.on \in Unsettled
           /\ r.kind = "DeleteFlow" => \A s \in Steps : FlowOf[s] = r.on => s \in Unsettled
<1>1. /\ t \in Tables /\ broken \subseteq RequestSet
      /\ \A p \in Active : ask[p] \in RequestSet
  BY DEF WorkInv, TypesInv, Active, Idle
<1>2. r \in RequestSet
  BY <1>1 DEF Pending
<1>3. Touched(r, t) \subseteq Unsettled
  <2>1. CASE r \in broken
    BY <2>1 DEF Unsettled
  <2>2. CASE r \notin broken
    <3>1. PICK p \in Active : r = ask[p]
      BY <2>2 DEF Pending
    <3> QED
      BY <3>1 DEF Unsettled
  <2> QED
    BY <2>1, <2>2
<1>4. /\ r.on \in Touched(r, t)
      /\ r.kind = "DeleteFlow" => \A s \in Steps : FlowOf[s] = r.on => s \in Touched(r, t)
  BY <1>1, <1>2, Touches
<1> QED
  BY <1>3, <1>4

\* So outside of what requests touch the rows agree.
LEMMA WiredFollows ==
    ASSUME WorkInv, WireInv
    PROVE  Wired
<1> DEFINE U == Unsettled
           settled == t.objs \ U
           P == Pending
<1>1. /\ Own(t, gone, P) /\ ListedThere(t, P) /\ ThereListed(t, gone, P) /\ Initials(t, P)
      /\ TakenKnown(t, P)
  BY DEF WireInv, Wires
<1>2. t \in Tables /\ gone \cap t.objs = {}
  BY DEF WorkInv, TypesInv, DeletedStays
<1>3. /\ \A x \in t.outputs \cup t.inputs : x[1] \in Steps /\ x[2] \in Ios /\ x = <<x[1], x[2]>>
      /\ t.initial \subseteq Ios
  BY <1>2, PairsTyped
<1>4. \A r \in P : /\ r.on \in U
                   /\ r.kind = "DeleteFlow" => \A s \in Steps : FlowOf[s] = r.on => s \in U
  BY PendingTouches
<1>5. \A s \in Steps : s # None
  BY BranchRowAssumption DEF Objects
<1> HIDE DEF U, P
<1>6. ASSUME NEW s \in Steps \cap settled, NEW i \in Of(t.outputs, s), i \notin U
      PROVE  i \in Attached(t, t.objs \cap Ios) /\ StepOf[i] = s
  <2>1. <<s, i>> \in t.outputs
    BY <1>3, <1>6 DEF Of
  <2>2. i \in Ios /\ StepOf[i] = s
    BY <1>1, <1>3, <2>1 DEF Own
  <2>3. i \in t.objs \ t.loose
    <3> SUFFICES ASSUME i \notin t.objs \ t.loose PROVE FALSE
      OBVIOUS
    <3>1. PICK r \in P : Cuts(r, <<s, i>>) \/ Clears(r, s)
      BY <1>1, <2>1 DEF ListedThere
    <3>2. r.on # s
      BY <1>4, <1>6
    <3>3. ~Cuts(r, <<s, i>>)
      BY <3>2 DEF Cuts
    <3>4. ~Clears(r, s)
      BY <1>4, <1>6, <3>2 DEF Clears
    <3> QED
      BY <3>1, <3>3, <3>4
  <2> QED
    BY <1>5, <2>2, <2>3 DEF Attached
<1>7. ASSUME NEW s \in Steps \cap settled, NEW i \in Attached(t, t.objs \cap Ios), StepOf[i] = s, i \notin U
      PROVE  i \in Of(t.outputs, s)
  <2>1. i \in Ios \cap t.objs /\ i \notin t.loose /\ s # None /\ s \notin gone
    BY <1>2, <1>5, <1>7 DEF Attached
  <2>2. ~\E r \in P : Removes(r, i)
    BY <1>4, <1>7 DEF Removes
  <2>3. <<s, i>> \in t.outputs
    BY <1>1, <1>7, <2>1, <2>2 DEF ThereListed
  <2> QED
    BY <2>3, Listed
<1>8. ASSUME NEW x \in t.inputs, x[1] \in settled, x[2] \in settled, NodeOf[x[1]] = NodeOf[x[2]]
      PROVE  x \in t.inputted
  <2>1. Knows(t, P, x)
    BY <1>1, <1>8 DEF TakenKnown, SameNode
  <2>2. ~\E r \in P : Untakes(r, x)
    BY <1>4, <1>8 DEF Untakes
  <2> QED
    BY <2>1, <2>2 DEF Knows
<1>9. ASSUME NEW i \in settled
      PROVE  i \in t.initial <=> i \in Ios /\ StepOf[i] = None
  <2>1. i \in t.initial => i \in Ios /\ StepOf[i] = None
    BY <1>1, <1>3 DEF Own
  <2>2. ~\E r \in P : Removes(r, i)
    BY <1>4, <1>9 DEF Removes
  <2>3. i \in Ios /\ StepOf[i] = None => i \in t.initial
    BY <1>1, <1>9, <2>2 DEF Initials
  <2> QED
    BY <2>1, <2>3
<1>10. \A s \in Steps \cap settled :
         Of(t.outputs, s) \ U = {i \in Attached(t, t.objs \cap Ios) : StepOf[i] = s} \ U
  BY <1>6, <1>7
<1>11. t.initial \cap settled = {i \in Ios \cap settled : StepOf[i] = None}
  BY <1>9
<1> QED
  BY <1>8, <1>10, <1>11 DEF Wired, U

\* The types follow as well.
LEMMA TypesFollow ==
    ASSUME WorkInv
    PROVE  TypeOK
<1>1. ASSUME NEW p \in Clients
      PROVE  {todo[p][k].op : k \in DOMAIN todo[p]} \subseteq Ops
  <2>1. todo[p] \in Seq(CallSet)
    BY DEF WorkInv, TypesInv
  <2>2. \A k \in DOMAIN todo[p] : todo[p][k] \in CallSet
    <3> HIDE DEF CallSet
    <3> QED
      BY <2>1
  <2> QED
    BY <2>2 DEF CallSet
<1> QED
  BY <1>1 DEF WorkInv, TypesInv, TypeOK

-----------------------------------------------------------------------------
(* The theorems.                                                           *)

\* What a request deletes stays deleted: no UPDATE of another request, or of
\* one that had read the row before, inserts it again, whatever the requests
\* and failures are, as long as requests at once touch different rows.
THEOREM DeletedStaysDeleted ==
    ASSUME ~Racing, Proper
    PROVE  Spec => []DeletedStays
<1>1. WorkInv => DeletedStays
  BY DEF WorkInv
<1> QED
  BY <1>1, Invariants, PTL

\* No flow has two steps at one index, unless two requests have found its key
\* free before either of them had set it: create_flow_step and delete_flow_step
\* look at the index and write it while they have the key of the flow, and
\* unlock no key but their own.
THEOREM PlacesOwn ==
    ASSUME ~Racing, Proper
    PROVE  Spec => []IndexOwn
<1>1. StepInv => IndexOwn
  BY DEF StepInv
<1> QED
  BY <1>1, Invariants, PTL

\* The tables keep their types, and so do the calls that requests have left.
THEOREM Types ==
    ASSUME ~Racing, Proper
    PROVE  Spec => []TypeOK
<1>1. WorkInv => TypeOK
  BY TypesFollow
<1> QED
  BY <1>1, Invariants, PTL

\* Outside of what requests at work or broken off touch, the rows agree with
\* each other: a step lists the IOs that belong to it, an IO knows the steps of
\* its node that take it, and a workflow's initial inputs are the IOs without a
\* step.  This is so at every call of every handler, whatever fails.
THEOREM Agreement ==
    ASSUME ~Racing, Proper, Sensible
    PROVE  Spec => []FlowsInv
<1>1. Init => WireInv
  BY WireInit
<1>2. WorkInv /\ StepInv /\ WireInv /\ [Next]_vars => WireInv'
  BY WireStep
<1>3. Spec => [](WorkInv /\ StepInv)
  BY Invariants
<1>4. WorkInv /\ WireInv => FlowsInv
  BY TypesFollow, WiredFollows DEF FlowsInv
<1> QED
  BY <1>1, <1>2, <1>3, <1>4, PTL DEF Spec
=============================================================================
