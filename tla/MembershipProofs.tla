--------------------------- MODULE MembershipProofs ---------------------------
(***************************************************************************)
(* Proved of Membership: whatever requests and events run at once, in      *)
(* whatever order and with whatever errors, who was removed from the       *)
(* organization edits none of its nodes; and at rest the editors, the      *)
(* members, the seats and the flags of the nodes agree.                    *)
(***************************************************************************)
EXTENDS Membership, FiniteSetTheorems, TLAPS

-----------------------------------------------------------------------------
(* The invariant.                                                          *)

Kinds == RowWriters \cup {"create"}
Rows == [members : SUBSET (Users \cup {Owner}), status : (Events \ {"Created"}) \cup {"none"}]

\* The jobs there are: a creation holds users, the others nodes, and who
\* writes the row has read one.
Jobs ==
    [kind : Kinds, node : Nodes, user : Users \cup {None}, at : 1 .. 7,
     list : SUBSET (Nodes \cup Users), by : Users \cup {Owner, None}, row : Rows]

\* The row a job holds is one that it has read.
Holds(job) ==
    \/ job.kind \in {"confirm", "deleteEditor"} /\ job.at >= 4
    \/ job.kind = "deleteMember" /\ job.at \in {4, 6, 7}
    \/ job.kind = "newUrl"
    \/ job.kind \in {"Created", "Deleted", "Paused"} /\ job.at = 4
    \/ job.kind \in Updates /\ job.at >= 2

\* That row is to be written.
ToWrite(job) ==
    \/ job.kind \in {"confirm", "deleteEditor"} /\ job.at = 4
    \/ job.kind = "deleteMember" /\ job.at \in {4, 6}
    \/ job.kind = "newUrl"
    \/ job.kind \in {"Created", "Deleted", "Paused"} /\ job.at = 4
    \/ job.kind \in Updates /\ job.at = 2

ToBill(job) ==
    \/ job.kind = "confirm" /\ job.at = 5
    \/ job.kind = "deleteMember" /\ job.at = 7

WorkOK ==
    /\ row \in Rows
    /\ work \in [Clients -> Jobs \cup {Nothing}]
    /\ \A p \in Clients :
          /\ work[p].kind \in Kinds => work[p].at <= Len(Calls(work[p].kind))
          /\ work[p].kind = "create" => work[p].list \subseteq Users
          /\ work[p].kind \in RowWriters => work[p].list \subseteq Nodes
          /\ work[p].kind \in {"confirm", "deleteEditor", "deleteMember"} => work[p].user \in Users
          /\ work[p].kind \in Events \cup {"deleteMember"} => work[p].node = Root
          /\ Holds(work[p]) => Owner \in work[p].row.members /\ work[p].row.status # "none"

\* Requests that run at once and should not are noted.
Noted ==
    \A p, q \in Clients :
        /\ work[p].kind \in RowWriters /\ work[q].kind \in RowWriters => p = q \/ "row" \in mixed
        /\ work[p].kind \in Events /\ work[q].kind = "create" => "flags" \in mixed
        /\ work[p].kind \in {"create"} /\ work[q].kind = "deleteMember" => work[q].user \in stray
        /\ work[p].kind = "confirm" /\ work[q].kind = "deleteMember" /\ work[p].user = work[q].user =>
              work[q].user \in stray

\* The removal of a member reaches all nodes.
Removals ==
    /\ \A p \in Clients :
          /\ work[p].kind = "deleteMember" /\ work[p].user \notin stray =>
                /\ work[p].at = 2 => work[p].list = there
                /\ work[p].at >= 3 => work[p].user \in expelled
          /\ work[p].kind = "create" => work[p].list \cap expelled \subseteq stray
    /\ Expelled

Confirming == {work[p].user : p \in {q \in Clients : work[q].kind = "confirm" /\ work[q].at \in {3, 4}}}
Covered == row.members \cup owing \cup stray \cup Confirming

Covers ==
    "row" \notin mixed =>
        /\ \A n \in there : editors[n] \subseteq Covered
        /\ \A p \in Clients :
              /\ work[p].kind = "create" => work[p].list \subseteq Covered
              /\ ToWrite(work[p]) => work[p].row = row

Billed ==
    mixed \cap {"row", "seats"} = {} =>
        /\ session # 0 => session = Cardinality(row.members)
        /\ session = 0 /\ (\A p \in Clients : ~ToBill(work[p])) => seats = Cardinality(row.members)
        /\ \A p \in Clients : ToBill(work[p]) =>
              /\ row.members = NewMembers([work[p] EXCEPT !.at = 6])
              /\ session # 0 => work[p].row.members = row.members
              /\ session = 0 => seats = Cardinality(work[p].row.members)

Agrees(status, flag) ==
    /\ status = "Active" => flag
    /\ status \in {"Deleted", "Paused", "Unpaid"} => ~flag

Flagged ==
    mixed \cap {"row", "flags"} = {} =>
        /\ \A n \in there : active[n] = active[Root]
        /\ \A p \in Clients :
              /\ work[p].kind = "create" => active[Root]
              /\ work[p].kind \in Events => work[p].kind \in sent
              /\ work[p].kind \in {"Created", "Deleted", "Paused"} =>
                    /\ work[p].at = 2 => work[p].list = there
                    /\ work[p].at >= 3 => active[Root] = (work[p].kind = "Created")
              /\ work[p].kind \in {"Unpaid", "Active"} =>
                    /\ work[p].at >= 3 => row.status = work[p].kind
                    /\ work[p].at = 4 => work[p].list = there
        /\ \/ Agrees(row.status, active[Root])
           \/ sent \cap {"Created", "Deleted", "Paused"} # {}
           \/ \E p \in Clients : work[p].kind \in {"Unpaid", "Active"} /\ work[p].at >= 3

IInv == TypeOK /\ WorkOK /\ Noted /\ Removals /\ Covers /\ Billed /\ Flagged

-----------------------------------------------------------------------------
(* Where a handler is.                                                     *)

Whole == {"Created", "Deleted", "Paused"}
Editing == {"confirm", "deleteEditor", "deleteMember"}

\* The kinds of work, by what they write.
LEMMA KindsOf ==
    /\ Kinds = Editing \cup Whole \cup Updates \cup {"newUrl", "create"}
    /\ Events = Whole \cup Updates
    /\ RowWriters = Editing \cup Whole \cup Updates \cup {"newUrl"}
    /\ "create" \notin RowWriters /\ "none" \notin Kinds
  BY DEF Kinds, RowWriters, Events, Whole, Updates, Editing

\* How many calls a handler makes.
LEMMA Lengths ==
    /\ Len(Calls("create")) = 1 /\ Len(Calls("confirm")) = 6
    /\ Len(Calls("deleteEditor")) = 5 /\ Len(Calls("deleteMember")) = 7
    /\ Len(Calls("newUrl")) = 2 /\ Len(Calls("PastDue")) = 2
    /\ \A kind \in Whole \cup {"Unpaid", "Active"} : Len(Calls(kind)) = 4
  BY DEF Calls, Whole

\* At least one, and seven at most.
LEMMA Lasting ==
    ASSUME NEW kind \in Kinds
    PROVE  Len(Calls(kind)) \in 1 .. 7
<1>1. kind \in Editing => Len(Calls(kind)) \in {5, 6, 7}
  BY Lengths DEF Editing
<1>2. kind \in Updates => Len(Calls(kind)) \in {2, 4}
  BY Lengths DEF Updates
<1>3. kind \in Whole => Len(Calls(kind)) = 4
  BY Lengths
<1>4. kind \in {"newUrl", "create"} => Len(Calls(kind)) \in {1, 2}
  BY Lengths
<1> QED
  BY <1>1, <1>2, <1>3, <1>4, KindsOf

\* Which of them is which.
LEMMA PlacesOf ==
    ASSUME WorkOK, NEW p \in Clients
    PROVE  LET kind == work[p].kind  at == work[p].at IN
           /\ At(p, "insert") => kind = "create" /\ at = 1
           /\ At(p, "list") =>
                 \/ kind \in Editing \cup Whole /\ at = 1
                 \/ kind \in {"Unpaid", "Active"} /\ at = 3
           /\ At(p, "editors") => kind \in Editing /\ at = 2
           /\ At(p, "readRow") =>
                 \/ kind \in Editing \cup Whole /\ at = 3
                 \/ kind = "deleteMember" /\ at = 5
                 \/ kind \in Updates /\ at = 1
           /\ At(p, "writeRow") =>
                 \/ kind \in Editing \cup Whole /\ at = 4
                 \/ kind = "deleteMember" /\ at = 6
                 \/ kind \in Updates \cup {"newUrl"} /\ at = 2
           /\ At(p, "seats") => ToBill(work[p])
           /\ At(p, "accept") \/ At(p, "uninvite") =>
                 \/ kind = "confirm" /\ at = 6
                 \/ kind = "deleteEditor" /\ at = 5
           /\ At(p, "open") => kind = "newUrl" /\ at = 1
           /\ At(p, "flags") =>
                 \/ kind \in Whole /\ at = 2
                 \/ kind \in {"Unpaid", "Active"} /\ at = 4
           /\ kind = "confirm" /\ at = 3 => At(p, "readRow")
           /\ kind = "confirm" /\ at = 4 => At(p, "writeRow")
           /\ ToBill(work[p]) => At(p, "seats")
<1> DEFINE kind == work[p].kind
           at == work[p].at
<1>1. work[p] = Nothing \/ kind \in Kinds
  BY DEF WorkOK, Jobs
<1>2. CASE work[p] = Nothing
  BY <1>2 DEF Nothing, Job, At, ToBill
<1>3. work[p] # Nothing => at \in 1 .. Len(Calls(kind))
  BY <1>1 DEF WorkOK, Jobs
<1>4. CASE work[p] # Nothing /\ kind = "create"
  <2>1. Calls(kind) = <<"insert">>
    BY <1>4 DEF Calls
  <2>2. at \in 1 .. 1
    BY <1>3, <1>4, Lengths
  <2> HIDE DEF kind, at
  <2> QED
    BY <1>4, <2>1, <2>2 DEF At, ToBill, Editing, Whole, Updates, kind, at
<1>5. CASE work[p] # Nothing /\ kind = "confirm"
  <2>1. Calls(kind) = <<"list", "editors", "readRow", "writeRow", "seats", "accept">>
    BY <1>5 DEF Calls
  <2>2. at \in 1 .. 6
    BY <1>3, <1>5, Lengths
  <2> HIDE DEF kind, at
  <2> QED
    BY <1>5, <2>1, <2>2 DEF At, ToBill, Editing, Whole, Updates, kind, at
<1>6. CASE work[p] # Nothing /\ kind = "deleteEditor"
  <2>1. Calls(kind) = <<"list", "editors", "readRow", "writeRow", "uninvite">>
    BY <1>6 DEF Calls
  <2>2. at \in 1 .. 5
    BY <1>3, <1>6, Lengths
  <2> HIDE DEF kind, at
  <2> QED
    BY <1>6, <2>1, <2>2 DEF At, ToBill, Editing, Whole, Updates, kind, at
<1>7. CASE work[p] # Nothing /\ kind = "deleteMember"
  <2>1. Calls(kind) = <<"list", "editors", "readRow", "writeRow", "readRow", "writeRow", "seats">>
    BY <1>7 DEF Calls
  <2>2. at \in 1 .. 7
    BY <1>3, <1>7, Lengths
  <2> HIDE DEF kind, at
  <2> QED
    BY <1>7, <2>1, <2>2 DEF At, ToBill, Editing, Whole, Updates, kind, at
<1>8. CASE work[p] # Nothing /\ kind = "newUrl"
  <2>1. Calls(kind) = <<"open", "writeRow">>
    BY <1>8 DEF Calls
  <2>2. at \in 1 .. 2
    BY <1>3, <1>8, Lengths
  <2> HIDE DEF kind, at
  <2> QED
    BY <1>8, <2>1, <2>2 DEF At, ToBill, Editing, Whole, Updates, kind, at
<1>9. CASE work[p] # Nothing /\ kind \in Whole
  <2>1. Calls(kind) = <<"list", "flags", "readRow", "writeRow">>
    BY <1>9 DEF Calls, Whole
  <2>2. at \in 1 .. 4
    BY <1>3, <1>9, Lengths DEF Whole
  <2> HIDE DEF kind, at
  <2> QED
    BY <1>9, <2>1, <2>2 DEF At, ToBill, Editing, Whole, Updates, kind, at
<1>10. CASE work[p] # Nothing /\ kind = "PastDue"
  <2>1. Calls(kind) = <<"readRow", "writeRow">>
    BY <1>10 DEF Calls
  <2>2. at \in 1 .. 2
    BY <1>3, <1>10, Lengths
  <2> HIDE DEF kind, at
  <2> QED
    BY <1>10, <2>1, <2>2 DEF At, ToBill, Editing, Whole, Updates, kind, at
<1>11. CASE work[p] # Nothing /\ kind \in {"Unpaid", "Active"}
  <2>1. Calls(kind) = <<"readRow", "writeRow", "list", "flags">>
    BY <1>11 DEF Calls
  <2>2. at \in 1 .. 4
    BY <1>3, <1>11, Lengths
  <2> HIDE DEF kind, at
  <2> QED
    BY <1>11, <2>1, <2>2 DEF At, ToBill, Editing, Whole, Updates, kind, at
<1> QED
  BY <1>1, <1>2, <1>4, <1>5, <1>6, <1>7, <1>8, <1>9, <1>10, <1>11, KindsOf DEF Editing, Updates

-----------------------------------------------------------------------------
(* Facts that several steps need.                                          *)

\* A client at work has a job of its kind, at one of its calls.
LEMMA JobsAre ==
    ASSUME WorkOK, NEW p \in Clients
    PROVE  /\ work[p] = Nothing \/ work[p] \in Jobs
           /\ work[p] = Nothing <=> work[p].kind = "none"
           /\ work[p] = Nothing <=> work[p].kind \notin Kinds
           /\ work[p].at \in 1 .. 7
           /\ work[p].kind \in Kinds => work[p].at <= Len(Calls(work[p].kind))
<1>1. Nothing.kind = "none" /\ Nothing.at = 1
  BY DEF Nothing, Job
<1>2. work[p] = Nothing \/ work[p] \in Jobs
  BY DEF WorkOK
<1>3. work[p] \in Jobs => work[p].kind \in Kinds /\ work[p].at \in 1 .. 7
  BY DEF Jobs
<1> QED
  BY <1>1, <1>2, <1>3, KindsOf DEF WorkOK

\* A handler that goes on makes its next call, or is done.
LEMMA Moved ==
    ASSUME WorkOK, NEW p \in Clients, work[p] # Nothing,
           NEW job \in Jobs, job.kind = work[p].kind, job.at = work[p].at, GoOn(p, job)
    PROVE  /\ work' \in [Clients -> Jobs \cup {Nothing}]
           /\ \A q \in Clients \ {p} : work'[q] = work[q]
           /\ IF job.at = Len(Calls(job.kind))
              THEN work'[p] = Nothing /\ sent' = sent \ {job.kind}
              ELSE /\ sent' = sent
                   /\ work'[p] \in Jobs /\ work'[p].at = job.at + 1
                   /\ work'[p].at <= Len(Calls(job.kind))
                   /\ work'[p].kind = job.kind /\ work'[p].user = job.user
                   /\ work'[p].node = job.node /\ work'[p].by = job.by
                   /\ work'[p].list = job.list /\ work'[p].row = job.row
<1> DEFINE over == job.at = Len(Calls(job.kind))
<1>1. work[p] \in Jobs /\ job.kind \in Kinds /\ job.at \in 1 .. 7 /\ job.at <= Len(Calls(job.kind))
  BY JobsAre DEF Jobs
<1>2. Len(Calls(job.kind)) \in 1 .. 7
  BY <1>1, Lasting
<1>3. work \in [Clients -> Jobs \cup {Nothing}]
  BY DEF WorkOK
<1>4. CASE over
  BY <1>3, <1>4 DEF GoOn
<1>5. CASE ~over
  <2>1. job.at + 1 \in 1 .. 7 /\ job.at + 1 <= Len(Calls(job.kind))
    <3> DEFINE len == Len(Calls(job.kind))
    <3>1. len \in 1 .. 7 /\ job.at \in 1 .. 7 /\ job.at <= len /\ job.at # len
      BY <1>1, <1>2, <1>5
    <3> HIDE DEF len
    <3>2. job.at + 1 \in 1 .. 7 /\ job.at + 1 <= len
      BY <3>1
    <3> QED
      BY <3>2 DEF len
  <2> DEFINE next == [job EXCEPT !.at = @ + 1]
  <2>2. /\ next \in Jobs /\ next.at = job.at + 1 /\ next.kind = job.kind /\ next.user = job.user
        /\ next.node = job.node /\ next.by = job.by /\ next.list = job.list /\ next.row = job.row
    BY <2>1 DEF Jobs
  <2>3. work' = [work EXCEPT ![p] = next] /\ sent' = sent
    BY <1>5 DEF GoOn
  <2> HIDE DEF next
  <2> QED
    BY <1>3, <1>5, <2>1, <2>2, <2>3
<1> QED
  BY <1>4, <1>5

\* Who ends or goes on clashes with nobody anew.
LEMMA NotedKeeps ==
    ASSUME Noted, mixed \subseteq mixed', stray \subseteq stray',
           \A q \in Clients :
              \/ work'[q] = Nothing
              \/ work'[q].kind = work[q].kind /\ work'[q].user = work[q].user
    PROVE  Noted'
<1>1. Nothing.kind = "none"
  BY DEF Nothing, Job
<1>2. \A q \in Clients : work'[q].kind # "none" =>
         work'[q].kind = work[q].kind /\ work'[q].user = work[q].user
  BY <1>1
<1>3. "none" \notin RowWriters /\ "none" \notin Events
  BY DEF RowWriters, Events
<1> QED
  BY <1>2, <1>3 DEF Noted

\* It holds at first: an active tree of its owner alone.
LEMMA InitHolds == Init => IInv
<1> SUFFICES ASSUME Init PROVE IInv
  OBVIOUS
<1> USE DEF Init
<1>1. Nothing.kind = "none" /\ \A p \in Clients : work[p] = Nothing
  BY DEF Nothing, Job
<1>2. "none" \notin RowWriters /\ "none" \notin Kinds /\ "none" \notin Events /\ "none" \notin Updates
  BY DEF RowWriters, Kinds, Events, Updates
<1>3. \A p \in Clients : ~Holds(work[p]) /\ ~ToWrite(work[p]) /\ ~ToBill(work[p])
  BY <1>1, <1>2 DEF Holds, ToWrite, ToBill
<1>4. TypeOK
  BY <1>1, MembershipAssumption DEF TypeOK, Events
<1>5. WorkOK
  BY <1>1, <1>2, <1>3 DEF WorkOK, Rows, Events
<1>6. Noted
  BY <1>1, <1>2 DEF Noted
<1>7. Removals
  BY <1>1 DEF Removals, Expelled
<1>8. Covers
  <2>1. \A n \in Nodes : editors[n] = {}
    OBVIOUS
  <2>2. there \subseteq Nodes
    BY MembershipAssumption
  <2> QED
    BY <1>1, <1>3, <2>1, <2>2 DEF Covers
<1>9. Billed
  BY <1>3, FS_Singleton DEF Billed
<1>10. Flagged
  <2>1. active[Root] /\ \A n \in there : active[n] = active[Root]
    BY MembershipAssumption
  <2>2. Agrees(row.status, active[Root])
    BY <2>1 DEF Agrees
  <2>3. \A q \in Clients : work[q].kind \notin {"create", "Created", "Deleted", "Paused", "Unpaid", "Active"}
    BY <1>1
  <2> QED
    BY <1>1, <1>2, <2>1, <2>2, <2>3 DEF Flagged
<1> QED
  BY <1>4, <1>5, <1>6, <1>7, <1>8, <1>9, <1>10 DEF IInv

-----------------------------------------------------------------------------
(* Requests and events come in.                                            *)

\* A client with nothing to do takes up a request or an event.
LEMMA StartStep ==
    ASSUME IInv, NEW p \in Clients, NEW job \in Jobs, Start(p, job), sent' = sent,
           job.at = 1,
           job.kind = "create" => active[Root] /\ job.list = editors[Root],
           job.kind # "create" => job.list = {},
           job.kind \in Editing => job.user \in Users,
           job.kind = "newUrl" => job.row = row,
           job.kind \in Events \cup {"deleteMember"} => job.node = Root,
           job.kind \in Events => job.kind \in sent
    PROVE  IInv'
<1> USE DEF IInv
<1>1. /\ work[p] = Nothing /\ work' = [work EXCEPT ![p] = job]
      /\ stray' = stray \cup Astray(job) /\ mixed' = mixed \cup Mixed(job)
      /\ UNCHANGED <<there, editors, active, row, seats, session, owing, expelled>>
  BY DEF Start, tree
<1>2. job.kind \in Kinds /\ job.kind # "none"
  BY KindsOf DEF Jobs
<1>3. /\ work' \in [Clients -> Jobs \cup {Nothing}] /\ work'[p] = job
      /\ \A q \in Clients \ {p} : work'[q] = work[q]
  BY <1>1 DEF WorkOK
<1>4. work[p].kind = "none" /\ work[p].at = 1
  BY <1>1 DEF Nothing, Job
<1>5. ~ToBill(job) /\ ~ToBill(work[p]) /\ (ToWrite(job) => job.kind = "newUrl")
      /\ (Holds(job) => job.kind = "newUrl")
  BY <1>4 DEF ToBill, ToWrite, Holds
<1>6. Astray(job) \subseteq Users /\ Mixed(job) \subseteq {"row", "flags"}
  BY DEF Astray, Mixed
<1>7. TypeOK'
  <2>1. \A q \in Clients : work'[q] # Nothing => work'[q].at \in 1 .. Len(Calls(work'[q].kind))
    <3> DEFINE len == Len(Calls(job.kind))
    <3>1. len \in 1 .. 7
      BY <1>2, Lasting
    <3> HIDE DEF len
    <3>2. 1 \in 1 .. len
      BY <3>1
    <3> QED
      BY <1>3, <3>2 DEF TypeOK, len
  <2> QED
    BY <1>1, <1>6, <2>1 DEF TypeOK
<1>8. WorkOK'
  <2>1. 1 <= Len(Calls(job.kind))
    <3> DEFINE len == Len(Calls(job.kind))
    <3>1. len \in 1 .. 7
      BY <1>2, Lasting
    <3> HIDE DEF len
    <3>2. 1 <= len
      BY <3>1
    <3> QED
      BY <3>2 DEF len
  <2>2. Holds(job) => Owner \in job.row.members /\ job.row.status # "none"
    BY <1>5 DEF TypeOK, Events
  <2>3. job.kind = "create" => job.list \subseteq Users
    BY DEF TypeOK
  <2>4. job.kind \in RowWriters => job.list \subseteq Nodes
    BY KindsOf
  <2> QED
    BY <1>1, <1>3, <2>1, <2>2, <2>3, <2>4 DEF WorkOK, Editing
<1>9. Noted'
  <2>1. ASSUME NEW q \in Clients, q # p
        PROVE  /\ job.kind \in RowWriters /\ work[q].kind \in RowWriters => "row" \in mixed'
               /\ job.kind \in Events /\ work[q].kind = "create" => "flags" \in mixed'
               /\ job.kind = "create" /\ work[q].kind \in Events => "flags" \in mixed'
               /\ job.kind = "create" /\ work[q].kind = "deleteMember" => work[q].user \in stray'
               /\ job.kind = "deleteMember" /\ work[q].kind = "create" => job.user \in stray'
               /\ job.kind = "confirm" /\ work[q].kind = "deleteMember" /\ job.user = work[q].user =>
                     work[q].user \in stray'
               /\ job.kind = "deleteMember" /\ work[q].kind = "confirm" /\ job.user = work[q].user =>
                     job.user \in stray'
    <3>1. work[q].kind = "deleteMember" => work[q].user \in Users
      BY DEF WorkOK
    <3>2. job.kind = "deleteMember" => job.user \in Users
      BY DEF Editing
    <3>3. /\ job.kind \in RowWriters /\ work[q].kind \in RowWriters => "row" \in Mixed(job)
          /\ job.kind \in Events /\ work[q].kind = "create" => "flags" \in Mixed(job)
          /\ job.kind = "create" /\ work[q].kind \in Events => "flags" \in Mixed(job)
      BY DEF Mixed, Busy
    <3>4. /\ job.kind = "create" /\ work[q].kind = "deleteMember" => work[q].user \in Astray(job)
          /\ job.kind = "deleteMember" /\ work[q].kind = "create" => job.user \in Astray(job)
          /\ job.kind = "confirm" /\ work[q].kind = "deleteMember" /\ job.user = work[q].user =>
                work[q].user \in Astray(job)
          /\ job.kind = "deleteMember" /\ work[q].kind = "confirm" /\ job.user = work[q].user =>
                job.user \in Astray(job)
      BY <3>1, <3>2 DEF Astray, Busy, BusyWith
    <3> QED
      BY <1>1, <3>3, <3>4
  <2>2. ~(job.kind \in Events /\ job.kind = "create")
    BY DEF Events
  <2> QED
    BY <1>1, <1>3, <2>1, <2>2 DEF Noted
<1>10. Removals'
  <2>1. Root \in there
    BY DEF TypeOK
  <2>2. editors[Root] \cap expelled \subseteq stray
    <3>1. editors[Root] \subseteq Users
      BY MembershipAssumption DEF TypeOK
    <3> QED
      BY <2>1, <3>1 DEF Removals, Expelled
  <2> QED
    BY <1>1, <1>3, <2>2 DEF Removals, Expelled
<1>11. Covers'
  <2>1. Confirming' = Confirming
    BY <1>3, <1>4 DEF Confirming
  <2>2. Covered \subseteq Covered'
    BY <1>1, <2>1 DEF Covered
  <2>3. Root \in there
    BY DEF TypeOK
  <2> QED
    BY <1>1, <1>3, <1>5, <2>2, <2>3 DEF Covers
<1>12. Billed'
  BY <1>1, <1>3, <1>5 DEF Billed
<1>13. Flagged'
  <2>1. \A q \in Clients : work[q].kind \in {"Unpaid", "Active"} /\ work[q].at >= 3 =>
           work'[q] = work[q]
    BY <1>3, <1>4
  <2>2. job.kind \in Events => job.kind \in sent'
    OBVIOUS
  <2> QED
    BY <1>1, <1>3, <2>1, <2>2 DEF Flagged, Events
<1> QED
  BY <1>7, <1>8, <1>9, <1>10, <1>11, <1>12, <1>13
\* A job that a request or an event starts.
LEMMA NewJobs ==
    ASSUME NEW kind \in Kinds, NEW n \in Nodes, NEW u \in Users \cup {None}
    PROVE  /\ Job(kind, n, u) \in Jobs
           /\ Job(kind, n, u).kind = kind /\ Job(kind, n, u).user = u
           /\ Job(kind, n, u).node = n /\ Job(kind, n, u).at = 1 /\ Job(kind, n, u).list = {}
  BY DEF Job, Jobs, Rows

\* A node is to be created.
LEMMA AskCreateStep == ASSUME IInv, NEW p \in Clients, AskCreate(p) PROVE IInv'
<1>1. PICK n \in Nodes \ there : Start(p, [Job("create", n, None) EXCEPT !.list = editors[Root]])
  BY DEF AskCreate
<1> DEFINE base == Job("create", n, None)
           job == [base EXCEPT !.list = editors[Root]]
<1>2. "create" \in Kinds /\ "create" \notin Editing \cup Events \cup {"newUrl", "deleteMember"}
  BY DEF Kinds, Editing, Events
<1>3. base \in Jobs /\ base.kind = "create" /\ base.at = 1
  BY <1>2, NewJobs
<1>4. editors[Root] \subseteq Users
  BY MembershipAssumption DEF IInv, TypeOK
<1> HIDE DEF base
<1>5. job \in Jobs /\ job.kind = "create" /\ job.at = 1 /\ job.list = editors[Root]
  BY <1>3, <1>4 DEF Jobs
<1>6. Start(p, job) /\ active[Root] /\ sent' = sent
  BY <1>1 DEF base, AskCreate
<1> HIDE DEF job
<1> QED
  BY <1>2, <1>5, <1>6, StartStep

\* An invitation is confirmed.
LEMMA AskConfirmStep == ASSUME IInv, NEW p \in Clients, AskConfirm(p) PROVE IInv'
<1>1. PICK n \in there, u \in Users :
         /\ invited[n][u].by \in editors[n] \cup {Owner}
         /\ Start(p, [Job("confirm", n, u) EXCEPT !.by = invited[n][u].by])
  BY DEF AskConfirm
<1> DEFINE base == Job("confirm", n, u)
           job == [base EXCEPT !.by = invited[n][u].by]
<1>2. "confirm" \in Kinds /\ "confirm" \notin Events \cup {"newUrl", "create", "deleteMember"}
  BY DEF Kinds, RowWriters, Events
<1>3. n \in Nodes /\ editors[n] \subseteq Users
  BY DEF IInv, TypeOK
<1>4. base \in Jobs /\ base.kind = "confirm" /\ base.at = 1 /\ base.list = {} /\ base.user = u
  BY <1>2, <1>3, NewJobs
<1> HIDE DEF base
<1>5. job \in Jobs /\ job.kind = "confirm" /\ job.at = 1 /\ job.list = {} /\ job.user = u
  BY <1>1, <1>3, <1>4 DEF Jobs
<1>6. Start(p, job) /\ sent' = sent
  BY <1>1 DEF base, AskConfirm
<1> HIDE DEF job
<1> QED
  BY <1>2, <1>5, <1>6, StartStep

\* An editor or a member is to be removed.
LEMMA AskRemovalStep == ASSUME IInv, NEW p \in Clients, AskRemoval(p) PROVE IInv'
<1>1. PICK kind \in {"deleteMember", "deleteEditor"}, n \in Nodes, u \in Users :
          Start(p, Job(kind, n, u)) /\ (kind = "deleteMember" => n = Root)
  BY MembershipAssumption DEF AskRemoval, IInv, TypeOK
<1>2. kind \in Kinds /\ kind \notin Events \cup {"newUrl", "create"}
  BY DEF Kinds, RowWriters, Events
<1> DEFINE job == Job(kind, n, u)
<1>3. job \in Jobs /\ job.kind = kind /\ job.at = 1 /\ job.list = {} /\ job.user = u /\ job.node = n
  BY <1>2, NewJobs
<1>4. Start(p, job) /\ sent' = sent /\ (kind = "deleteMember" => n = Root)
  BY <1>1 DEF AskRemoval
<1> HIDE DEF job
<1> QED
  BY <1>2, <1>3, <1>4, StartStep

\* A new checkout session is asked for.
LEMMA AskNewUrlStep == ASSUME IInv, NEW p \in Clients, AskNewUrl(p) PROVE IInv'
<1> DEFINE base == Job("newUrl", Root, None)
           job == [base EXCEPT !.row = row]
<1>1. "newUrl" \in Kinds /\ "newUrl" \notin Editing \cup Events \cup {"create", "deleteMember"}
  BY DEF Kinds, RowWriters, Events, Editing
<1>2. base \in Jobs /\ base.kind = "newUrl" /\ base.at = 1 /\ base.list = {}
  BY <1>1, NewJobs, MembershipAssumption
<1>3. row \in Rows
  BY DEF IInv, WorkOK
<1>4. Start(p, job) /\ sent' = sent
  BY DEF AskNewUrl
<1> HIDE DEF base
<1>5. job \in Jobs /\ job.kind = "newUrl" /\ job.at = 1 /\ job.list = {} /\ job.row = row
  BY <1>2, <1>3 DEF Jobs
<1> HIDE DEF job
<1> QED
  BY <1>1, <1>4, <1>5, StartStep

\* An event of Stripe is delivered.
LEMMA DeliverStep == ASSUME IInv, NEW p \in Clients, Deliver(p) PROVE IInv'
<1>1. PICK event \in sent : Start(p, Job(event, Root, None))
  BY DEF Deliver
<1> DEFINE job == Job(event, Root, None)
<1>2. event \in Events
  BY DEF IInv, TypeOK
<1>3. event \in Kinds /\ event \notin Editing \cup {"newUrl", "create"}
  BY <1>2 DEF Kinds, RowWriters, Events, Editing
<1>4. job \in Jobs /\ job.kind = event /\ job.node = Root /\ job.at = 1 /\ job.list = {}
  BY <1>3, NewJobs, MembershipAssumption
<1>5. Start(p, job) /\ sent' = sent
  BY <1>1 DEF Deliver
<1> HIDE DEF job
<1> QED
  BY <1>1, <1>3, <1>4, <1>5, StartStep

\* Events come in any number; to have them for longer disturbs nothing.
LEMMA SendStep == ASSUME IInv, Send PROVE IInv'
<1> USE DEF IInv
<1>1. PICK event \in Events : sent' = sent \cup {event}
  BY DEF Send
<1>2. UNCHANGED <<there, editors, active, row, seats, session, work, owing, stray, expelled, mixed>>
  BY DEF Send, tree
<1>3. TypeOK'
  BY <1>1, <1>2 DEF TypeOK
<1>4. WorkOK' /\ Noted' /\ Removals'
  BY <1>2 DEF WorkOK, Noted, Removals, Expelled
<1>5. Covers' /\ Billed'
  BY <1>2 DEF Covers, Covered, Confirming, Billed
<1>6. Flagged'
  BY <1>1, <1>2 DEF Flagged
<1> QED
  BY <1>3, <1>4, <1>5, <1>6

\* What none of the variables tell leaves the invariant alone.
LEMMA IdleStep ==
    ASSUME IInv, UNCHANGED <<there, editors, active, row, seats, session, sent, work, owing, stray, expelled, mixed>>
    PROVE  IInv'
  BY DEF IInv, TypeOK, WorkOK, Noted, Removals, Expelled, Covers, Covered, Confirming, Billed, Flagged

\* Stripe bills what the session offered.
LEMMA PayStep == ASSUME IInv, Pay PROVE IInv'
<1> USE DEF IInv
<1>1. /\ session # 0 /\ seats' = session /\ session' = 0 /\ sent' = sent \cup {"Created"}
      /\ UNCHANGED <<there, editors, active, row, work, owing, stray, expelled, mixed>>
  BY DEF Pay, tree
<1>3. TypeOK'
  BY <1>1 DEF TypeOK, Events
<1>4. WorkOK' /\ Noted' /\ Removals'
  BY <1>1 DEF WorkOK, Noted, Removals, Expelled
<1>5. Covers'
  BY <1>1 DEF Covers, Covered, Confirming
<1>6. Flagged'
  BY <1>1 DEF Flagged
<1>7. Billed'
  BY <1>1 DEF Billed
<1> QED
  BY <1>3, <1>4, <1>5, <1>6, <1>7
-----------------------------------------------------------------------------
(* The calls of the handlers.                                              *)

\* What a call leaves in the work, whatever it writes.
LEMMA Went ==
    ASSUME IInv, NEW p \in Clients, work[p] # Nothing, NEW job \in Jobs, GoOn(p, job),
           job.kind = work[p].kind, job.at = work[p].at,
           job.user = work[p].user, job.node = work[p].node,
           job.kind = "create" => job.list \subseteq Users,
           job.kind \in RowWriters => job.list \subseteq Nodes,
           Holds(work[p]) \/ Holds(work'[p]) => Owner \in job.row.members /\ job.row.status # "none",
           row' \in Rows, mixed \subseteq mixed', stray' = stray
    PROVE  /\ WorkOK' /\ Noted'
           /\ sent' \subseteq Events
           /\ \A q \in Clients : work'[q] # Nothing => work'[q].at \in 1 .. Len(Calls(work'[q].kind))
           /\ \A q \in Clients \ {p} : work'[q] = work[q]
           /\ job.kind \notin Events => sent' = sent
           /\ \/ /\ job.at = Len(Calls(job.kind))
                 /\ work'[p].kind = "none" /\ work'[p].at = 1 /\ sent' = sent \ {job.kind}
              \/ /\ job.at # Len(Calls(job.kind))
                 /\ work'[p].kind = job.kind /\ work'[p].at = job.at + 1 /\ sent' = sent
                 /\ work'[p].user = job.user /\ work'[p].list = job.list /\ work'[p].row = job.row
<1> USE DEF IInv
<1>1. /\ work' \in [Clients -> Jobs \cup {Nothing}]
      /\ \A q \in Clients \ {p} : work'[q] = work[q]
  BY Moved
<1>2. CASE job.at = Len(Calls(job.kind))
  <2>1. work'[p] = Nothing /\ sent' = sent \ {job.kind}
    BY <1>2, Moved
  <2>2. work'[p].kind = "none" /\ work'[p].at = 1 /\ ~Holds(work'[p])
    BY <2>1 DEF Nothing, Job, Holds, Updates
  <2>3. "none" \notin Kinds /\ "none" \notin RowWriters /\ "none" \notin Events
    BY KindsOf
  <2>4. WorkOK'
    BY <1>1, <2>2, <2>3 DEF WorkOK
  <2>5. Noted'
    BY <1>1, <2>1, NotedKeeps
  <2>6. sent' \subseteq Events /\ (job.kind \notin Events => sent' = sent)
    BY <2>1 DEF TypeOK
  <2>7. \A q \in Clients : work'[q] # Nothing => work'[q].at \in 1 .. Len(Calls(work'[q].kind))
    BY <1>1, <2>1 DEF TypeOK
  <2> QED
    BY <1>1, <1>2, <2>1, <2>2, <2>4, <2>5, <2>6, <2>7
<1>3. CASE job.at # Len(Calls(job.kind))
  <2>1. /\ sent' = sent
        /\ work'[p] \in Jobs /\ work'[p].at = job.at + 1
        /\ work'[p].at <= Len(Calls(job.kind))
        /\ work'[p].kind = job.kind /\ work'[p].user = job.user /\ work'[p].node = job.node
        /\ work'[p].list = job.list /\ work'[p].row = job.row
    BY <1>3, Moved
  <2>2. WorkOK'
    BY <1>1, <2>1 DEF WorkOK
  <2>3. Noted'
    BY <1>1, <2>1, NotedKeeps
  <2>4. work'[p].at \in 1 .. Len(Calls(work'[p].kind))
    <3> DEFINE len == Len(Calls(job.kind))
    <3>1. len \in 1 .. 7 /\ work'[p].at \in 1 .. 7 /\ work'[p].at <= len
      BY <2>1, Lasting DEF Jobs
    <3> HIDE DEF len
    <3>2. work'[p].at \in 1 .. len
      BY <3>1
    <3> QED
      BY <2>1, <3>2 DEF len
  <2>5. sent' \subseteq Events
    BY <2>1 DEF TypeOK
  <2> QED
    BY <1>1, <1>3, <2>1, <2>2, <2>3, <2>4, <2>5 DEF TypeOK
<1> QED
  BY <1>2, <1>3

\* Who pays stays right while no member comes or goes.
LEMMA BilledKeeps ==
    ASSUME IInv, UNCHANGED <<row, seats, session>>, mixed \subseteq mixed',
           \A q \in Clients : \/ work'[q] = work[q]
                              \/ ~ToBill(work[q]) /\ ~ToBill(work'[q])
    PROVE  Billed'
  BY DEF IInv, Billed

\* The flags stay right while nobody but requests is at work.
LEMMA FlaggedKeeps ==
    ASSUME IInv, UNCHANGED <<there, active, row, sent>>, mixed \subseteq mixed',
           \A q \in Clients : \/ work'[q] = work[q]
                              \/ /\ work[q].kind \notin Events
                                 /\ work'[q].kind \notin Events \cup {"create"}
    PROVE  Flagged'
<1>1. "Created" \in Events /\ "Deleted" \in Events /\ "Paused" \in Events
      /\ "Unpaid" \in Events /\ "Active" \in Events
  BY DEF Events
<1> QED
  BY <1>1 DEF IInv, Flagged

\* Editors stay covered while only rows are read.
LEMMA CoversKeeps ==
    ASSUME IInv, UNCHANGED <<there, editors, row, stray>>, mixed \subseteq mixed', owing \subseteq owing',
           Confirming \subseteq Confirming' \cup owing',
           \A q \in Clients : \/ work'[q] = work[q]
                              \/ /\ work'[q].kind # "create"
                                 /\ ToWrite(work'[q]) => "row" \in mixed \/ work'[q].row = row
    PROVE  Covers'
<1>1. Covered \subseteq Covered'
  BY DEF Covered
<1> QED
  BY <1>1 DEF IInv, Covers

\* Nobody confirms who did not.
LEMMA ConfirmingKeeps ==
    ASSUME NEW p \in Clients, \A q \in Clients \ {p} : work'[q] = work[q],
           \/ ~(work[p].kind = "confirm" /\ work[p].at \in {3, 4})
           \/ /\ work'[p].kind = "confirm" /\ work'[p].at \in {3, 4}
              /\ work'[p].user = work[p].user
    PROVE  Confirming \subseteq Confirming'
  BY DEF Confirming

\* The removed stay removed while no editor comes.
LEMMA RemovalsKeep ==
    ASSUME IInv, UNCHANGED <<there, editors, stray, expelled>>,
           \A q \in Clients :
              \/ work'[q] = work[q]
              \/ work'[q].kind \notin {"create", "deleteMember"}
              \/ /\ work'[q].kind = "deleteMember" /\ work[q].kind = "deleteMember"
                 /\ work'[q].user = work[q].user
                 /\ work'[q].at = 2 => work'[q].list = there
                 /\ work'[q].at >= 3 => work[q].at >= 3
    PROVE  Removals'
<1> USE DEF IInv
<1>1. Expelled'
  BY DEF Removals, Expelled
<1>2. ASSUME NEW q \in Clients
      PROVE  /\ work'[q].kind = "deleteMember" /\ work'[q].user \notin stray' =>
                   /\ work'[q].at = 2 => work'[q].list = there'
                   /\ work'[q].at >= 3 => work'[q].user \in expelled'
             /\ work'[q].kind = "create" => work'[q].list \cap expelled' \subseteq stray'
  <2>1. CASE work'[q] = work[q]
    BY <2>1 DEF Removals
  <2>2. CASE work'[q].kind \notin {"create", "deleteMember"}
    BY <2>2
  <2>3. CASE /\ work'[q].kind = "deleteMember" /\ work[q].kind = "deleteMember"
             /\ work'[q].user = work[q].user
             /\ work'[q].at = 2 => work'[q].list = there
             /\ work'[q].at >= 3 => work[q].at >= 3
    BY <2>3 DEF Removals
  <2> QED
    BY <2>1, <2>2, <2>3
<1> QED
  BY <1>1, <1>2 DEF Removals

\* A created node has the editors its parent had when it was read; whoever was
\* removed meanwhile is astray, and no event of Stripe runs unnoted.
LEMMA InsertStep == ASSUME IInv, NEW p \in Clients, Insert(p) PROVE IInv'
<1> USE DEF IInv
<1> DEFINE job == work[p]
<1>1. /\ work[p] # Nothing /\ GoOn(p, job)
      /\ there' = there \cup {job.node}
      /\ editors' = [editors EXCEPT ![job.node] = job.list]
      /\ active' = [active EXCEPT ![job.node] = TRUE]
      /\ UNCHANGED <<row, seats, session, owing, stray, expelled, mixed>>
  BY DEF Insert, At
<1>2. job.kind = "create" /\ job.at = 1
  BY PlacesOf DEF Insert
<1>3. job \in Jobs /\ job.kind \notin RowWriters /\ job.kind \notin Events /\ job.node \in Nodes
  BY <1>1, <1>2, JobsAre, KindsOf DEF Jobs
<1>4. job.list \subseteq Users /\ ~Holds(job) /\ ~ToWrite(job) /\ ~ToBill(job)
  BY <1>2 DEF WorkOK, Holds, ToWrite, ToBill, Updates
<1>5. job.at = Len(Calls(job.kind))
  BY <1>2, Lengths
<1>6. /\ WorkOK' /\ Noted' /\ sent' = sent /\ work'[p].kind = "none" /\ work'[p].at = 1
      /\ \A q \in Clients : work'[q] # Nothing => work'[q].at \in 1 .. Len(Calls(work'[q].kind))
      /\ \A q \in Clients \ {p} : work'[q] = work[q]
  <2>2. work'[p] = Nothing
    BY <1>1, <1>3, <1>5, Moved
  <2>3. ~Holds(work'[p])
    BY <2>2 DEF Holds, Nothing, Job, Updates
  <2>4. row' \in Rows
    BY <1>1 DEF WorkOK
  <2> HIDE DEF job
  <2> QED
    BY <1>1, <1>2, <1>3, <1>4, <1>5, <2>3, <2>4, Went DEF job
<1>7. ~ToWrite(work'[p]) /\ ~ToBill(work'[p])
  BY <1>6 DEF ToWrite, ToBill, Updates
<1>8. TypeOK'
  BY <1>1, <1>3, <1>4, <1>6 DEF TypeOK
<1>9. Removals'
  <2>1. \A q \in Clients : work[q].kind = "deleteMember" => work[q].user \in stray
    BY <1>2 DEF Noted
  <2>2. job.list \cap expelled \subseteq stray
    BY <1>2 DEF Removals
  <2>3. Expelled'
    BY <1>1, <1>3, <2>2 DEF Removals, Expelled, TypeOK
  <2> QED
    BY <1>1, <1>6, <2>1, <2>3 DEF Removals
<1>10. Covers'
  <2>1. Confirming' = Confirming
    BY <1>2, <1>6 DEF Confirming
  <2>2. Covered' = Covered
    BY <1>1, <2>1 DEF Covered
  <2>3. ASSUME "row" \notin mixed, NEW n \in there'
        PROVE  editors'[n] \subseteq Covered
    BY <1>1, <1>2, <1>3, <2>3 DEF Covers, TypeOK
  <2> QED
    BY <1>1, <1>6, <1>7, <2>2, <2>3 DEF Covers
<1>11. Billed'
  BY <1>1, <1>4, <1>6, <1>7, BilledKeeps
<1>12. Flagged'
  <2> SUFFICES ASSUME mixed \cap {"row", "flags"} = {}
               PROVE  Flagged'
    BY <1>1 DEF Flagged
  <2>1. active[Root] /\ \A q \in Clients : work[q].kind \notin Events
    BY <1>2 DEF Flagged, Noted
  <2>2. active'[Root] = active[Root] /\ \A n \in there' : active'[n] = active'[Root]
    <3>1. \A n \in there : active[n] = TRUE
      BY <2>1 DEF Flagged
    <3>2. \A n \in there' : active'[n] = TRUE
      BY <1>1, <1>3, <3>1 DEF TypeOK
    <3>3. Root \in there /\ Root \in there' /\ active[Root] = TRUE
      BY <1>1, <3>1 DEF TypeOK
    <3> QED
      BY <3>2, <3>3
  <2>3. \A q \in Clients : work'[q].kind \notin Events
    BY <1>6, <2>1, KindsOf
  <2> QED
    BY <1>1, <1>6, <2>1, <2>2, <2>3 DEF Flagged, Events
<1> QED
  BY <1>6, <1>8, <1>9, <1>10, <1>11, <1>12

\* The nodes below the root are all.
LEMMA ListStep == ASSUME IInv, NEW p \in Clients, List(p) PROVE IInv'
<1> USE DEF IInv
<1> DEFINE job == [work[p] EXCEPT !.list = Along(work[p].node)]
           kind == work[p].kind
<1>1. /\ work[p] # Nothing /\ GoOn(p, job)
      /\ UNCHANGED <<there, editors, active, row, seats, session, owing, stray, expelled, mixed>>
  BY DEF List, At, tree
<1>2. \/ kind \in Editing \cup Whole /\ work[p].at = 1
      \/ kind \in {"Unpaid", "Active"} /\ work[p].at = 3
  BY PlacesOf DEF List
<1>3. work[p] \in Jobs /\ kind # "create" /\ kind \in Kinds /\ work[p].node \in Nodes
  BY <1>1, <1>2, JobsAre DEF Jobs, Editing, Whole
<1>4. Along(work[p].node) \subseteq Nodes
  BY <1>3 DEF Along, TypeOK
<1>5. /\ job \in Jobs /\ job.kind = kind /\ job.at = work[p].at /\ job.user = work[p].user
      /\ job.node = work[p].node /\ job.list = Along(work[p].node) /\ job.row = work[p].row
  BY <1>3, <1>4 DEF Jobs
<1>6. job.at # Len(Calls(job.kind))
  <2> DEFINE len == Len(Calls(kind))
  <2>1. kind \in Editing \cup Whole \cup {"Unpaid", "Active"} => len \in {4, 5, 6, 7}
    BY Lengths DEF Editing
  <2> HIDE DEF len
  <2>2. work[p].at # len
    BY <1>2, <2>1
  <2> QED
    BY <1>5, <2>2 DEF len
<1> HIDE DEF job
<1>7. /\ work'[p].kind = kind /\ work'[p].at = work[p].at + 1 /\ work'[p].row = work[p].row
  BY <1>1, <1>5, <1>6, Moved
<1>8. Holds(work'[p]) => Holds(work[p])
  BY <1>2, <1>7 DEF Holds, Editing, Whole, Updates
<1>9. Holds(work[p]) => Owner \in job.row.members /\ job.row.status # "none"
  BY <1>5 DEF WorkOK
<1>10. /\ WorkOK' /\ Noted' /\ sent' = sent
       /\ work'[p].user = work[p].user /\ work'[p].list = Along(work[p].node)
       /\ \A q \in Clients : work'[q] # Nothing => work'[q].at \in 1 .. Len(Calls(work'[q].kind))
       /\ \A q \in Clients \ {p} : work'[q] = work[q]
  <2>1. row' \in Rows
    BY <1>1 DEF WorkOK
  <2> HIDE DEF kind
  <2> QED
    BY <1>1, <1>3, <1>4, <1>5, <1>6, <1>8, <1>9, <2>1, Went DEF kind
<1>11. ~ToWrite(work'[p]) /\ ~ToBill(work'[p]) /\ ~ToBill(work[p])
  BY <1>2, <1>7 DEF ToWrite, ToBill, Editing, Whole, Updates
<1>12. TypeOK'
  BY <1>1, <1>10 DEF TypeOK
<1>13. kind \in Events \cup {"deleteMember"} => work'[p].list = there
  BY <1>10, <1>3 DEF WorkOK, Along
<1>14. Removals'
  <2>1. kind = "deleteMember" => work'[p].at = 2
    BY <1>2, <1>7 DEF Whole
  <2> QED
    BY <1>1, <1>3, <1>7, <1>10, <1>13, <2>1, RemovalsKeep
<1>15. Covers'
  <2>1. ~(kind = "confirm" /\ work[p].at \in {3, 4})
    BY <1>2 DEF Whole
  <2>2. Confirming \subseteq Confirming'
    BY <1>10, <2>1, ConfirmingKeeps
  <2> QED
    BY <1>1, <1>3, <1>7, <1>10, <1>11, <2>2, CoversKeeps
<1>16. Billed'
  BY <1>1, <1>10, <1>11, BilledKeeps
<1>17. Flagged'
  <2>1. kind \in Whole => work'[p].at = 2
    BY <1>2, <1>7 DEF Editing, Whole
  <2>2. kind \in {"Unpaid", "Active"} => work[p].at = 3 /\ work'[p].at = 4
    BY <1>2, <1>7 DEF Editing, Whole
  <2>3. kind \in Whole \cup {"Unpaid", "Active"} => work'[p].list = there
    BY <1>13 DEF Events, Whole
  <2> SUFFICES ASSUME mixed \cap {"row", "flags"} = {}
               PROVE  Flagged'
    BY <1>1 DEF Flagged
  <2>4. /\ \A n \in there : active[n] = active[Root]
        /\ \/ Agrees(row.status, active[Root])
           \/ sent \cap {"Created", "Deleted", "Paused"} # {}
           \/ \E q \in Clients : work[q].kind \in {"Unpaid", "Active"} /\ work[q].at >= 3
    BY DEF Flagged
  <2>5. ASSUME NEW q \in Clients, work[q].kind \in {"Unpaid", "Active"}, work[q].at >= 3
        PROVE  work'[q].kind \in {"Unpaid", "Active"} /\ work'[q].at >= 3
    BY <1>7, <1>10, <2>2, <2>5
  <2>6. ASSUME NEW q \in Clients
        PROVE  /\ work'[q].kind = "create" => active[Root]
               /\ work'[q].kind \in Events => work'[q].kind \in sent
               /\ work'[q].kind \in {"Created", "Deleted", "Paused"} =>
                     /\ work'[q].at = 2 => work'[q].list = there
                     /\ work'[q].at >= 3 => active[Root] = (work'[q].kind = "Created")
               /\ work'[q].kind \in {"Unpaid", "Active"} =>
                     /\ work'[q].at >= 3 => row.status = work'[q].kind
                     /\ work'[q].at = 4 => work'[q].list = there
    <3>1. CASE q = p
      BY <1>3, <1>7, <2>1, <2>2, <2>3, <3>1 DEF Flagged, Whole
    <3>2. CASE q # p
      BY <1>10, <3>2 DEF Flagged
    <3> QED
      BY <3>1, <3>2
  <2>7. UNCHANGED <<there, active, row, sent>>
    BY <1>1, <1>10
  <2> HIDE DEF kind
  <2> QED
    BY <2>4, <2>5, <2>6, <2>7 DEF Flagged
<1> QED
  BY <1>10, <1>12, <1>14, <1>15, <1>16, <1>17

\* The editors change, and with them who is removed: a removal covers all
\* nodes, and a confirmation beside it is noted.
LEMMA EditorsStep == ASSUME IInv, NEW p \in Clients, UpdateEditorIds(p) PROVE IInv'
<1> USE DEF IInv
<1> DEFINE job == work[p]
           u == job.user
<1>1. /\ work[p] # Nothing /\ GoOn(p, job)
      /\ editors' = [n \in Nodes |->
             IF n \notin job.list THEN editors[n]
             ELSE IF job.kind = "confirm" THEN editors[n] \cup {u} ELSE editors[n] \ {u}]
      /\ expelled' = CASE job.kind = "confirm" -> expelled \ {u}
                       [] job.kind = "deleteMember" -> expelled \cup {u}
                       [] OTHER -> expelled
      /\ UNCHANGED <<there, active, row, seats, session, owing, stray, mixed>>
  BY DEF UpdateEditorIds, At
<1>2. job.kind \in Editing /\ job.at = 2
  BY PlacesOf DEF UpdateEditorIds
<1>3. /\ job \in Jobs /\ job.kind \in RowWriters /\ job.kind \notin Events /\ job.kind # "create"
      /\ u \in Users
  BY <1>1, <1>2, JobsAre, KindsOf DEF Jobs, Editing, WorkOK, Events
<1>4. expelled' = IF job.kind = "confirm" THEN expelled \ {u}
                  ELSE IF job.kind = "deleteMember" THEN expelled \cup {u} ELSE expelled
  BY <1>1
<1>5. job.at # Len(Calls(job.kind))
  <2> DEFINE len == Len(Calls(job.kind))
  <2>1. len \in {5, 6, 7}
    BY <1>2, Lengths DEF Editing
  <2> HIDE DEF len
  <2>2. job.at # len
    BY <1>2, <2>1
  <2> QED
    BY <2>2 DEF len
<1>6. work'[p].kind = job.kind /\ work'[p].at = 3
  <2> HIDE DEF job
  <2>1. work'[p].kind = job.kind /\ work'[p].at = job.at + 1
    BY <1>1, <1>3, <1>5, Moved DEF job
  <2> QED
    BY <1>2, <2>1
<1>7. ~Holds(work'[p]) /\ ~Holds(job) /\ ~ToWrite(work'[p]) /\ ~ToBill(work'[p]) /\ ~ToBill(job)
  BY <1>2, <1>6 DEF Holds, ToWrite, ToBill, Editing, Updates
<1>8. /\ WorkOK' /\ Noted' /\ sent' = sent /\ work'[p].user = u
      /\ \A q \in Clients : work'[q] # Nothing => work'[q].at \in 1 .. Len(Calls(work'[q].kind))
      /\ \A q \in Clients \ {p} : work'[q] = work[q]
  <2>1. row' \in Rows /\ job.list \subseteq Nodes
    BY <1>1, <1>3 DEF WorkOK
  <2> HIDE DEF job
  <2> QED
    BY <1>1, <1>3, <1>5, <1>7, <2>1, Went DEF job
<1>9. TypeOK'
  <2>1. editors' \in [Nodes -> SUBSET Users]
    BY <1>1, <1>3 DEF TypeOK
  <2>2. expelled' \subseteq Users
    BY <1>3, <1>4 DEF TypeOK
  <2> QED
    BY <1>1, <1>8, <2>1, <2>2 DEF TypeOK
<1>10. Removals'
  <2>1. ASSUME NEW v \in expelled' \ stray', NEW n \in there'
        PROVE  v \notin editors'[n]
    <3>1. n \in Nodes /\ n \in there /\ v \notin stray
      BY <1>1, <2>1 DEF TypeOK
    <3>2. CASE v \in expelled
      <4>1. v \notin editors[n]
        BY <3>1, <3>2 DEF Removals, Expelled
      <4>2. job.kind = "confirm" => v # u
        BY <1>4
      <4> QED
        BY <1>1, <3>1, <4>1, <4>2
    <3>3. CASE v \notin expelled
      <4>1. job.kind = "deleteMember" /\ v = u
        BY <1>4, <3>3
      <4>2. job.list = there
        BY <1>2, <3>1, <4>1 DEF Removals
      <4> QED
        BY <1>1, <3>1, <4>1, <4>2
    <3> QED
      BY <3>2, <3>3
  <2>2. ASSUME NEW q \in Clients, work'[q].kind = "create"
        PROVE  work'[q].list \cap expelled' \subseteq stray'
    <3>1. q # p /\ work'[q] = work[q]
      BY <1>3, <1>6, <1>8, <2>2
    <3>2. work[q].list \cap expelled \subseteq stray
      BY <2>2, <3>1 DEF Removals
    <3>3. job.kind = "deleteMember" => u \in stray
      BY <2>2, <3>1 DEF Noted
    <3> QED
      BY <1>1, <1>4, <3>1, <3>2, <3>3
  <2>3. ASSUME NEW q \in Clients, work'[q].kind = "deleteMember", work'[q].user \notin stray'
        PROVE  /\ work'[q].at = 2 => work'[q].list = there'
               /\ work'[q].at >= 3 => work'[q].user \in expelled'
    <3>1. CASE q = p
      BY <1>4, <1>6, <1>8, <2>3, <3>1
    <3>2. CASE q # p
      <4>1. work'[q] = work[q]
        BY <1>8, <3>2
      <4>2. job.kind = "confirm" => work[q].user # u
        BY <1>1, <2>3, <4>1 DEF Noted
      <4> QED
        BY <1>1, <1>4, <2>3, <4>1, <4>2 DEF Removals
    <3> QED
      BY <3>1, <3>2
  <2> QED
    BY <2>1, <2>2, <2>3 DEF Removals, Expelled
<1>11. Covers'
  <2>1. Confirming \subseteq Confirming'
    BY <1>2, <1>8, ConfirmingKeeps
  <2>2. Covered \subseteq Covered'
    BY <1>1, <2>1 DEF Covered
  <2>3. job.kind = "confirm" => u \in Covered'
    BY <1>6, <1>8 DEF Covered, Confirming
  <2>4. ASSUME "row" \notin mixed, NEW n \in there
        PROVE  editors'[n] \subseteq Covered'
    <3>1. editors[n] \subseteq Covered /\ n \in Nodes
      BY <2>4 DEF Covers, TypeOK
    <3> QED
      BY <1>1, <2>2, <2>3, <3>1
  <2> QED
    BY <1>1, <1>3, <1>6, <1>7, <1>8, <2>2, <2>4 DEF Covers
<1>12. Billed'
  BY <1>1, <1>7, <1>8, BilledKeeps
<1>13. Flagged'
  BY <1>1, <1>3, <1>6, <1>8, FlaggedKeeps
<1> QED
  BY <1>8, <1>9, <1>10, <1>11, <1>12, <1>13

\* All nodes get the flag of the event, and no node is created beside it.
LEMMA FlagsStep == ASSUME IInv, NEW p \in Clients, UpdateSubActive(p) PROVE IInv'
<1> USE DEF IInv
<1> DEFINE job == work[p]
           flag == job.kind \in {"Created", "Active"}
<1>1. /\ work[p] # Nothing /\ GoOn(p, job)
      /\ active' = [n \in Nodes |-> IF n \in job.list THEN flag ELSE active[n]]
      /\ UNCHANGED <<there, editors, row, seats, session, owing, stray, expelled, mixed>>
  BY DEF UpdateSubActive, At
<1>2. \/ job.kind \in Whole /\ job.at = 2
      \/ job.kind \in {"Unpaid", "Active"} /\ job.at = 4
  BY PlacesOf DEF UpdateSubActive
<1>3. job \in Jobs /\ job.kind \in RowWriters /\ job.kind \in Events /\ job.kind \notin Editing \cup {"create"}
  BY <1>1, <1>2, JobsAre, KindsOf DEF Whole, Updates, Editing
<1>4. /\ job.kind \in Whole => job.at # Len(Calls(job.kind))
      /\ job.kind \notin Whole => job.at = Len(Calls(job.kind))
  <2> DEFINE len == Len(Calls(job.kind))
  <2>1. job.kind \in Whole \cup {"Unpaid", "Active"} /\ len = 4
    BY <1>2, Lengths
  <2>2. "Unpaid" \notin Whole /\ "Active" \notin Whole
    BY DEF Whole
  <2> HIDE DEF len
  <2>3. (job.kind \in Whole => job.at # len) /\ (job.kind \notin Whole => job.at = len)
    BY <1>2, <2>1, <2>2
  <2> QED
    BY <2>3 DEF len
<1>5. Holds(job) \/ Holds(work'[p]) => Owner \in job.row.members /\ job.row.status # "none"
  <2>1. Holds(job) => Owner \in job.row.members /\ job.row.status # "none"
    BY DEF WorkOK
  <2>2. Holds(work'[p]) => Holds(job)
    <3>1. CASE job.kind \in Whole
      <4> HIDE DEF job
      <4>1. work'[p].kind = job.kind /\ work'[p].at = job.at + 1
        BY <1>1, <1>3, <1>4, <3>1, Moved DEF job
      <4> QED
        BY <1>2, <3>1, <4>1 DEF Holds, Whole, Updates
    <3>2. CASE job.kind \notin Whole
      BY <1>2, <3>2 DEF Holds, Updates
    <3> QED
      BY <3>1, <3>2
  <2> QED
    BY <2>1, <2>2
<1>6. /\ WorkOK' /\ Noted' /\ sent' \subseteq Events
      /\ \A q \in Clients : work'[q] # Nothing => work'[q].at \in 1 .. Len(Calls(work'[q].kind))
      /\ \A q \in Clients \ {p} : work'[q] = work[q]
      /\ \/ /\ job.kind \notin Whole
            /\ work'[p].kind = "none" /\ work'[p].at = 1 /\ sent' = sent \ {job.kind}
         \/ /\ job.kind \in Whole /\ sent' = sent
            /\ work'[p].kind = job.kind /\ work'[p].at = job.at + 1
  <2>1. row' \in Rows /\ job.list \subseteq Nodes
    BY <1>1, <1>3 DEF WorkOK
  <2> HIDE DEF job
  <2> QED
    BY <1>1, <1>3, <1>4, <1>5, <2>1, Went DEF job
<1>7. /\ work'[p].kind \in Whole => work'[p].at = 3
      /\ work'[p].kind \notin Editing \cup Updates \cup {"create", "newUrl"}
  BY <1>2, <1>6 DEF Whole, Editing, Updates
<1>8. ~ToWrite(work'[p]) /\ ~ToBill(work'[p]) /\ ~ToBill(job)
  BY <1>3, <1>7 DEF ToWrite, ToBill, Editing, Whole
<1>9. TypeOK'
  <2>1. active' \in [Nodes -> BOOLEAN]
    <3>1. flag \in BOOLEAN
      <4>1. CASE flag = TRUE
        BY <4>1
      <4>2. CASE flag = FALSE
        BY <4>2
      <4>3. flag = TRUE \/ flag = FALSE
        OBVIOUS
      <4> QED
        BY <4>1, <4>2, <4>3, Zenon
    <3> HIDE DEF flag, job
    <3> QED
      BY <1>1, <3>1, Zenon DEF TypeOK
  <2> QED
    BY <1>1, <1>6, <2>1 DEF TypeOK
<1>10. Removals'
  BY <1>1, <1>6, <1>7, RemovalsKeep DEF Editing
<1>11. Covers'
  <2>1. Confirming \subseteq Confirming'
    BY <1>3, <1>6, ConfirmingKeeps DEF Editing
  <2> QED
    BY <1>1, <1>6, <1>7, <1>8, <2>1, CoversKeeps
<1>12. Billed'
  BY <1>1, <1>6, <1>8, BilledKeeps
<1>13. Flagged'
  <2> SUFFICES ASSUME mixed \cap {"row", "flags"} = {}
               PROVE  Flagged'
    BY <1>1 DEF Flagged
  <2>1. \A q \in Clients \ {p} : work'[q].kind \notin RowWriters
    BY <1>3, <1>6 DEF Noted
  <2>2. \A q \in Clients : work'[q].kind # "create"
    BY <1>3, <1>6, <1>7 DEF Noted
  <2>3. job.list = there /\ job.kind \in sent
    BY <1>2, <1>3 DEF Flagged, Whole
  <2>4. \A n \in there : active'[n] = flag
    BY <1>1, <2>3 DEF TypeOK
  <2>5. Root \in there
    BY DEF TypeOK
  <2>6. "Created" \in Events /\ "Deleted" \in Events /\ "Paused" \in Events
        /\ "Unpaid" \in Events /\ "Active" \in Events
    BY DEF Events
  <2>7. \A q \in Clients \ {p} : work'[q].kind \notin Events
    BY <2>1 DEF RowWriters
  <2>8. CASE job.kind \in Whole
    <3>1. sent' \cap {"Created", "Deleted", "Paused"} # {}
      BY <1>6, <2>3, <2>8 DEF Whole
    <3>2. work'[p].kind = job.kind /\ work'[p].at = 3 /\ sent' = sent
      BY <1>6, <1>7, <2>8
    <3>3. flag = (job.kind = "Created") /\ job.kind \notin {"Unpaid", "Active"}
      BY <2>8 DEF Whole
    <3>4. active'[Root] = (job.kind = "Created")
      BY <2>4, <2>5, <3>3
    <3>5. ASSUME NEW q \in Clients
          PROVE  /\ work'[q].kind \in Events => q = p /\ work'[q].kind \in sent'
                 /\ work'[q].kind \in {"Created", "Deleted", "Paused"} =>
                       /\ work'[q].at = 3
                       /\ active'[Root] = (work'[q].kind = "Created")
                 /\ work'[q].kind \notin {"Unpaid", "Active"}
      BY <2>3, <2>6, <2>7, <3>2, <3>3, <3>4
    <3> HIDE DEF job, flag
    <3> QED
      BY <1>1, <2>2, <2>4, <2>5, <3>1, <3>5 DEF Flagged
  <2>9. CASE job.kind \notin Whole
    <3>1. job.kind \in {"Unpaid", "Active"} /\ job.at = 4
      BY <1>2, <2>9
    <3>2. row.status = job.kind
      BY <3>1 DEF Flagged
    <3>3. work'[p].kind = "none"
      BY <1>6, <2>9
    <3>4. \A q \in Clients : work'[q].kind \notin Events
      BY <2>7, <3>3, KindsOf
    <3>5. Agrees(row.status, active'[Root])
      BY <2>4, <2>5, <3>1, <3>2 DEF Agrees
    <3> HIDE DEF job, flag
    <3> QED
      BY <1>1, <2>2, <2>4, <2>5, <2>6, <3>4, <3>5 DEF Flagged
  <2> QED
    BY <2>8, <2>9
<1> QED
  BY <1>6, <1>9, <1>10, <1>11, <1>12, <1>13

\* Who reads the row holds it as it is; nobody else writes it unnoted.
LEMMA ReadStep == ASSUME IInv, NEW p \in Clients, ReadRow(p) PROVE IInv'
<1> USE DEF IInv
<1> DEFINE kind == work[p].kind
           at == work[p].at
           job == [work[p] EXCEPT !.row = row]
<1>1. /\ work[p] # Nothing
      /\ \/ kind \in Updates /\ row.status = kind /\ at = 1
            /\ work' = [work EXCEPT ![p] = Nothing] /\ sent' = sent \ {kind}
         \/ GoOn(p, job)
      /\ UNCHANGED <<there, editors, active, row, seats, session, owing, stray, expelled, mixed>>
  <2>1. kind \in Updates => at = 1
    BY PlacesOf DEF ReadRow, Editing, Whole, Updates
  <2> QED
    BY <2>1 DEF ReadRow, At, tree
<1>2. \/ kind \in Editing \cup Whole /\ at = 3
      \/ kind = "deleteMember" /\ at = 5
      \/ kind \in Updates /\ at = 1
  BY PlacesOf DEF ReadRow
<1>3. work[p] \in Jobs /\ kind \in RowWriters /\ kind # "create"
  BY <1>1, <1>2, JobsAre, KindsOf DEF Editing, Whole, Updates
<1>4. ~ToBill(work[p]) /\ ~ToWrite(work[p])
  BY <1>2 DEF ToBill, ToWrite, Editing, Whole, Updates
<1>5. row \in Rows /\ Owner \in row.members /\ row.status # "none"
  BY DEF WorkOK, TypeOK, Events
<1>6. CASE GoOn(p, job)
  <2>1. /\ job \in Jobs /\ job.kind = kind /\ job.at = at /\ job.user = work[p].user
        /\ job.node = work[p].node /\ job.list = work[p].list /\ job.row = row
    BY <1>3, <1>5 DEF Jobs
  <2>2. job.at # Len(Calls(job.kind))
    <3> DEFINE len == Len(Calls(kind))
    <3>1. /\ kind \in Editing => len \in {5, 6, 7}
          /\ kind = "deleteMember" => len = 7
          /\ kind \in Whole => len = 4
          /\ kind \in Updates => len \in {2, 4}
      BY Lengths DEF Editing, Updates
    <3> HIDE DEF len
    <3>2. at # len
      BY <1>2, <3>1
    <3> QED
      BY <2>1, <3>2 DEF len
  <2>3. job.kind \in RowWriters => job.list \subseteq Nodes
    BY <2>1 DEF WorkOK
  <2> HIDE DEF job
  <2>4. /\ WorkOK' /\ Noted' /\ sent' = sent
        /\ \A q \in Clients : work'[q] # Nothing => work'[q].at \in 1 .. Len(Calls(work'[q].kind))
        /\ \A q \in Clients \ {p} : work'[q] = work[q]
        /\ work'[p].kind = kind /\ work'[p].at = at + 1 /\ work'[p].user = work[p].user
        /\ work'[p].list = work[p].list /\ work'[p].row = row
    <3> HIDE DEF kind, at
    <3> QED
      BY <1>1, <1>3, <1>5, <1>6, <2>1, <2>2, <2>3, Went DEF kind, at
  <2>5. ~ToBill(work'[p])
    BY <1>2, <2>4 DEF ToBill, Editing, Whole, Updates
  <2>6. TypeOK'
    BY <1>1, <2>4 DEF TypeOK
  <2>7. Removals'
    <3>1. kind = "deleteMember" => at >= 3 /\ work'[p].at # 2
      BY <1>2, <2>4 DEF Updates
    <3> QED
      BY <1>1, <1>3, <2>4, <3>1, RemovalsKeep
  <2>8. Covers'
    <3>1. kind = "confirm" /\ at \in {3, 4} => work'[p].at \in {3, 4}
      BY <1>2, <2>4 DEF Updates
    <3>2. Confirming \subseteq Confirming'
      BY <2>4, <3>1, ConfirmingKeeps
    <3> QED
      BY <1>1, <1>3, <2>4, <3>2, CoversKeeps
  <2>9. Billed'
    BY <1>1, <1>4, <2>4, <2>5, BilledKeeps
  <2>10. Flagged'
    <3>1. kind \in Whole => at >= 3 /\ work'[p].at = 4
      BY <1>2, <2>4 DEF Editing, Whole, Updates
    <3>2. kind \in {"Unpaid", "Active"} => at = 1 /\ work'[p].at = 2
      BY <1>2, <2>4 DEF Editing, Whole
    <3> SUFFICES ASSUME mixed \cap {"row", "flags"} = {}
                 PROVE  Flagged'
      BY <1>1 DEF Flagged
    <3>3. ASSUME NEW q \in Clients
          PROVE  /\ work'[q].kind = work[q].kind
                 /\ work'[q].kind \in {"Created", "Deleted", "Paused"} =>
                       /\ work'[q].at = 2 => work'[q].list = there
                       /\ work'[q].at >= 3 => active[Root] = (work'[q].kind = "Created")
                 /\ work'[q].kind \in {"Unpaid", "Active"} =>
                       /\ work'[q].at >= 3 <=> work[q].at >= 3
                       /\ work'[q].at = 4 => work'[q].list = there
      <4>1. CASE q = p
        BY <2>4, <3>1, <3>2, <4>1 DEF Flagged, Whole
      <4>2. CASE q # p
        BY <2>4, <4>2 DEF Flagged
      <4> QED
        BY <4>1, <4>2
    <3>4. UNCHANGED <<there, active, row, sent>>
      BY <1>1, <2>4
    <3>5. /\ \A n \in there : active[n] = active[Root]
          /\ \A q \in Clients :
                /\ work[q].kind = "create" => active[Root]
                /\ work[q].kind \in Events => work[q].kind \in sent
                /\ work[q].kind \in {"Unpaid", "Active"} => (work[q].at >= 3 => row.status = work[q].kind)
          /\ \/ Agrees(row.status, active[Root])
             \/ sent \cap {"Created", "Deleted", "Paused"} # {}
             \/ \E q \in Clients : work[q].kind \in {"Unpaid", "Active"} /\ work[q].at >= 3
      BY DEF Flagged
    <3> HIDE DEF kind, at
    <3> QED
      BY <3>3, <3>4, <3>5 DEF Flagged
  <2> QED
    BY <2>4, <2>6, <2>7, <2>8, <2>9, <2>10
<1>7. CASE /\ kind \in Updates /\ row.status = kind /\ at = 1
           /\ work' = [work EXCEPT ![p] = Nothing] /\ sent' = sent \ {kind}
  <2>1. /\ work' \in [Clients -> Jobs \cup {Nothing}] /\ work'[p] = Nothing
        /\ \A q \in Clients \ {p} : work'[q] = work[q]
    BY <1>7 DEF WorkOK
  <2>2. work'[p].kind = "none" /\ ~Holds(work'[p]) /\ ~ToBill(work'[p]) /\ ~ToWrite(work'[p])
    BY <2>1 DEF Nothing, Job, Holds, ToBill, ToWrite, Updates
  <2>3. WorkOK'
    BY <1>1, <2>1, <2>2, KindsOf DEF WorkOK
  <2>4. Noted'
    BY <1>1, <2>1, NotedKeeps
  <2>5. TypeOK'
    BY <1>1, <1>7, <2>1 DEF TypeOK
  <2>6. Removals'
    BY <1>1, <2>1, <2>2, RemovalsKeep
  <2>7. Covers'
    <3>1. Confirming \subseteq Confirming'
      BY <1>7, <2>1, ConfirmingKeeps DEF Updates
    <3> QED
      BY <1>1, <2>1, <2>2, <3>1, CoversKeeps
  <2>8. Billed'
    BY <1>1, <1>4, <2>1, <2>2, BilledKeeps
  <2>9. Flagged'
    <3> SUFFICES ASSUME mixed \cap {"row", "flags"} = {}
                 PROVE  Flagged'
      BY <1>1 DEF Flagged
    <3>1. \A q \in Clients : work'[q].kind \notin Events
      <4>1. \A q \in Clients \ {p} : work[q].kind \notin RowWriters
        BY <1>3 DEF Noted
      <4>2. Events \subseteq RowWriters /\ "none" \notin Events
        BY KindsOf
      <4> QED
        BY <2>1, <2>2, <4>1, <4>2
    <3>2. sent' \cap {"Created", "Deleted", "Paused"} = sent \cap {"Created", "Deleted", "Paused"}
      BY <1>7 DEF Updates
    <3>3. \A q \in Clients : work[q].kind \in {"Unpaid", "Active"} => work[q].at < 3
      <4>1. \A q \in Clients \ {p} : work[q].kind \notin RowWriters
        BY <1>3 DEF Noted
      <4>2. "Unpaid" \in RowWriters /\ "Active" \in RowWriters
        BY DEF RowWriters, Events
      <4> QED
        BY <1>7, <4>1, <4>2
    <3>4. \A q \in Clients : work'[q].kind = "create" => active[Root]
      BY <2>1, <2>2 DEF Flagged
    <3>5. \A q \in Clients : ~(work[q].kind \in {"Unpaid", "Active"} /\ work[q].at >= 3)
      <4>1. \A q \in Clients : work[q].at \in 1 .. 7
        BY JobsAre
      <4> QED
        BY <3>3, <4>1
    <3>6. \A n \in there : active[n] = active[Root]
      BY DEF Flagged
    <3>7. \/ Agrees(row.status, active[Root])
          \/ sent \cap {"Created", "Deleted", "Paused"} # {}
      BY <3>5 DEF Flagged
    <3>8. "Created" \in Events /\ "Deleted" \in Events /\ "Paused" \in Events
          /\ "Unpaid" \in Events /\ "Active" \in Events
      BY DEF Events
    <3>9. UNCHANGED <<there, active, row>>
      BY <1>1
    <3> HIDE DEF kind, at, job
    <3> QED
      BY <3>1, <3>2, <3>4, <3>6, <3>7, <3>8, <3>9 DEF Flagged
  <2> QED
    BY <2>3, <2>4, <2>5, <2>6, <2>7, <2>8, <2>9
<1> QED
  BY <1>1, <1>6, <1>7

\* A row is written whole: with nobody else at it, it differs from the one
\* that was read by what the handler means to change.
LEMMA WriteStep == ASSUME IInv, NEW p \in Clients, WriteRow(p) PROVE IInv'
<1> USE DEF IInv
<1> DEFINE job == work[p]
           u == job.user
           members == NewMembers(job)
           last == job.kind = "deleteMember" /\ job.at = 6
<1>1. /\ work[p] # Nothing /\ GoOn(p, job)
      /\ row' = [members |-> members, status |-> NewStatus(job)]
      /\ owing' = IF job.kind = "confirm" THEN owing \ {u} ELSE owing
      /\ mixed' = IF members # job.row.members /\ session # 0 THEN mixed \cup {"seats"} ELSE mixed
      /\ UNCHANGED <<there, editors, active, seats, session, stray, expelled>>
  BY DEF WriteRow, At, tree
<1>2. \/ job.kind \in Editing \cup Whole /\ job.at = 4
      \/ last
      \/ job.kind \in Updates \cup {"newUrl"} /\ job.at = 2
  BY PlacesOf DEF WriteRow
<1>3. /\ job \in Jobs /\ job.kind \in RowWriters /\ job.kind # "create"
      /\ job.row \in Rows /\ job.list \subseteq Nodes
  BY <1>1, <1>2, JobsAre, KindsOf DEF Jobs, Editing, Whole, Updates, WorkOK
<1>4. /\ Holds(job) /\ ToWrite(job) /\ ~ToBill(job)
      /\ Owner \in job.row.members /\ job.row.status # "none"
  <2>1. Holds(job) /\ ToWrite(job) /\ ~ToBill(job)
    BY <1>2 DEF Holds, ToWrite, ToBill, Editing, Whole
  <2> QED
    BY <2>1 DEF WorkOK
<1>5. members = IF job.kind = "confirm" THEN job.row.members \cup {u}
                ELSE IF last THEN job.row.members \ {u} ELSE job.row.members
  BY DEF NewMembers
<1>6. job.kind \in {"confirm", "deleteMember"} => u \in Users
  BY DEF WorkOK
<1>7. row' \in Rows /\ Owner \in row'.members /\ row'.status # "none" /\ row'.status \in Events \ {"Created"}
  <2>1. members \subseteq Users \cup {Owner} /\ Owner \in members
    BY <1>3, <1>4, <1>5, <1>6, MembershipAssumption DEF Rows
  <2>2. NewStatus(job) \in Events \ {"Created"} /\ NewStatus(job) # "none"
    <3>1. job.kind = "Created" => NewStatus(job) = "Active"
      BY DEF NewStatus
    <3>2. job.kind \in Events \ {"Created"} => NewStatus(job) = job.kind
      BY DEF NewStatus
    <3>3. job.kind \notin Events => NewStatus(job) = job.row.status
      BY DEF NewStatus, Events
    <3>4. "Active" \in Events \ {"Created"} /\ "none" \notin Events
      BY DEF Events
    <3> QED
      BY <1>3, <1>4, <3>1, <3>2, <3>3, <3>4 DEF Rows
  <2> HIDE DEF members
  <2> QED
    BY <1>1, <2>1, <2>2 DEF Rows
<1>8. /\ WorkOK' /\ Noted' /\ sent' \subseteq Events
      /\ \A q \in Clients : work'[q] # Nothing => work'[q].at \in 1 .. Len(Calls(work'[q].kind))
      /\ \A q \in Clients \ {p} : work'[q] = work[q]
      /\ job.kind \notin Events => sent' = sent
      /\ \/ /\ job.at = Len(Calls(job.kind))
            /\ work'[p].kind = "none" /\ work'[p].at = 1 /\ sent' = sent \ {job.kind}
         \/ /\ job.at # Len(Calls(job.kind))
            /\ work'[p].kind = job.kind /\ work'[p].at = job.at + 1 /\ sent' = sent
            /\ work'[p].user = job.user /\ work'[p].list = job.list /\ work'[p].row = job.row
  <2>1. mixed \subseteq mixed' /\ stray' = stray
    BY <1>1
  <2> HIDE DEF job
  <2> QED
    BY <1>1, <1>3, <1>4, <1>7, <2>1, Went DEF job
<1>9. /\ job.kind \in Whole \cup {"newUrl", "PastDue"} => work'[p].kind = "none" /\ work'[p].at = 1
      /\ job.kind \in Editing \cup {"Unpaid", "Active"} =>
            work'[p].kind = job.kind /\ work'[p].at = job.at + 1 /\ sent' = sent
  <2> DEFINE len == Len(Calls(job.kind))
  <2>1. /\ job.kind \in Editing => len \in {5, 6, 7}
        /\ job.kind = "deleteMember" => len = 7
        /\ job.kind \in Whole \cup {"Unpaid", "Active"} => len = 4
        /\ job.kind \in {"newUrl", "PastDue"} => len = 2
    BY Lengths DEF Editing
  <2> HIDE DEF len
  <2>2. /\ job.kind \in Editing \cup {"Unpaid", "Active"} => job.at # len
        /\ job.kind \in Whole \cup {"newUrl", "PastDue"} => job.at = len
    BY <1>2, <2>1 DEF Editing, Whole, Updates
  <2> QED
    BY <1>8, <2>2 DEF len
<1>10. job.kind \in Editing \cup Whole \cup {"Unpaid", "Active", "PastDue", "newUrl"}
  BY <1>2 DEF Editing, Updates
<1>11. ~ToWrite(work'[p])
  BY <1>2, <1>9, <1>10 DEF ToWrite, Editing, Whole, Updates
<1>12. ToBill(work'[p]) <=> job.kind = "confirm" \/ last
  BY <1>2, <1>9, <1>10 DEF ToBill, Editing, Whole, Updates
<1>13. TypeOK'
  BY <1>1, <1>7, <1>8, <1>3 DEF TypeOK, Rows
<1>14. Removals'
  <2>1. job.kind = "deleteMember" =>
           job.at >= 3 /\ work'[p].kind = job.kind /\ work'[p].at # 2 /\ work'[p].user = u
    BY <1>2, <1>8, <1>9 DEF Editing, Whole, Updates
  <2>2. work'[p].kind \in {job.kind, "none"}
    BY <1>8
  <2> QED
    BY <1>1, <1>3, <1>8, <2>1, <2>2, RemovalsKeep
<1>15. \A q \in Clients \ {p} : work[q].kind \in RowWriters => "row" \in mixed
  BY <1>3 DEF Noted
<1>16. Covers'
  <2> SUFFICES ASSUME "row" \notin mixed
               PROVE  Covers'
    BY <1>1 DEF Covers
  <2>1. job.row = row
    BY <1>4 DEF Covers
  <2>2. \A q \in Clients : ~ToWrite(work'[q])
    <3>1. \A q \in Clients : ToWrite(work'[q]) => work'[q].kind \in RowWriters
      BY KindsOf DEF ToWrite, Editing, Whole
    <3> QED
      BY <1>8, <1>11, <1>15, <3>1
  <2>3. Confirming \subseteq Confirming' \cup (IF job.kind = "confirm" THEN {u} ELSE {})
    BY <1>8 DEF Confirming
  <2>4. Covered \subseteq Covered' \cup (IF last THEN {u} ELSE {})
    BY <1>1, <1>5, <2>1, <2>3 DEF Covered
  <2>5. last /\ u \notin Covered' => u \in expelled \ stray
    BY <1>1 DEF Removals, Covered
  <2>6. ASSUME NEW n \in there'
        PROVE  editors'[n] \subseteq Covered'
    <3>1. editors[n] \subseteq Covered /\ n \in there
      BY <1>1, <2>6 DEF Covers
    <3>2. last /\ u \notin Covered' => u \notin editors[n]
      BY <2>5, <3>1 DEF Removals, Expelled
    <3> QED
      BY <1>1, <2>4, <3>1, <3>2
  <2>7. ASSUME NEW q \in Clients, work'[q].kind = "create"
        PROVE  work'[q].list \subseteq Covered'
    <3>1. q # p /\ work'[q] = work[q]
      BY <1>3, <1>8, <2>7
    <3>2. work[q].list \subseteq Covered /\ work[q].list \cap expelled \subseteq stray
      BY <2>7, <3>1 DEF Covers, Removals
    <3> QED
      BY <2>4, <2>5, <3>1, <3>2
  <2> QED
    BY <2>2, <2>6, <2>7 DEF Covers
<1>17. Billed'
  <2> SUFFICES ASSUME mixed' \cap {"row", "seats"} = {}
               PROVE  Billed'
    BY DEF Billed
  <2>1. mixed' = mixed /\ mixed \cap {"row", "seats"} = {} /\ (session # 0 => members = job.row.members)
    BY <1>1
  <2>2. job.row = row
    BY <1>4, <2>1 DEF Covers
  <2>3. \A q \in Clients : ToBill(work[q]) => work[q].kind \in RowWriters
    BY KindsOf DEF ToBill, Editing
  <2>4. \A q \in Clients : ~ToBill(work[q])
    BY <1>4, <1>15, <2>1, <2>3
  <2>5. \A q \in Clients : ToBill(work'[q]) => q = p
    BY <1>8, <2>4
  <2>6. row'.members = members /\ UNCHANGED <<seats, session>>
    BY <1>1
  <2>7. session # 0 => session = Cardinality(row.members)
    BY <2>1 DEF Billed
  <2>8. session = 0 => seats = Cardinality(row.members)
    BY <2>1, <2>4 DEF Billed
  <2>9. ~ToBill(work'[p]) => members = row.members
    BY <1>5, <1>12, <2>2
  <2>10. ToBill(work'[p]) =>
            /\ work'[p].row = row
            /\ members = NewMembers([work'[p] EXCEPT !.at = 6])
    <3> SUFFICES ASSUME ToBill(work'[p])
                 PROVE  /\ work'[p].row = row
                        /\ members = NewMembers([work'[p] EXCEPT !.at = 6])
      OBVIOUS
    <3>1. job.kind \in {"confirm", "deleteMember"} /\ (job.kind = "confirm" \/ last)
      BY <1>12
    <3>2. /\ work'[p].kind = job.kind /\ work'[p].row = job.row /\ work'[p].user = u
          /\ work'[p] \in Jobs
      <4>1. work'[p].kind = job.kind /\ job.kind # "none"
        BY <1>9, <3>1 DEF Editing
      <4>2. work'[p] \in Jobs
        BY <1>8, <4>1, <1>3 DEF WorkOK, Nothing, Job
      <4> QED
        BY <1>8, <4>1, <4>2
    <3> DEFINE next == [work'[p] EXCEPT !.at = 6]
    <3>3. next.kind = job.kind /\ next.at = 6 /\ next.row = job.row /\ next.user = u
      BY <3>2 DEF Jobs
    <3> HIDE DEF next
    <3>4. NewMembers(next) = IF job.kind = "confirm" THEN job.row.members \cup {u} ELSE job.row.members \ {u}
      BY <3>1, <3>3 DEF NewMembers
    <3> QED
      BY <1>5, <2>2, <3>1, <3>2, <3>4 DEF next
  <2> HIDE DEF members, job
  <2> QED
    BY <2>1, <2>2, <2>5, <2>6, <2>7, <2>8, <2>9, <2>10 DEF Billed
<1>18. Flagged'
  <2> SUFFICES ASSUME mixed \cap {"row", "flags"} = {}
               PROVE  Flagged'
    BY <1>1 DEF Flagged
  <2>1. job.row = row
    BY <1>4 DEF Covers
  <2>2. \A q \in Clients \ {p} : work[q].kind \notin Events
    BY <1>15, KindsOf
  <2>3. \A n \in there' : active'[n] = active'[Root]
    BY <1>1 DEF Flagged
  <2>4. \A q \in Clients : work'[q].kind = "create" => active'[Root]
    BY <1>1, <1>3, <1>8 DEF Flagged
  <2>5. "Created" \in Events /\ "Deleted" \in Events /\ "Paused" \in Events /\ "PastDue" \in Events
        /\ "Unpaid" \in Events /\ "Active" \in Events /\ "none" \notin Events
    BY DEF Events
  <2>6. UNCHANGED <<there, active>>
    BY <1>1
  <2>7. CASE job.kind \in Whole
    <3>1. work'[p].kind = "none"
      BY <1>9, <2>7
    <3>2. \A q \in Clients : work'[q].kind \notin Events
      BY <1>8, <2>2, <2>5, <3>1
    <3>3. job.at = 4 /\ active[Root] = (job.kind = "Created")
      BY <1>2, <2>7 DEF Flagged, Editing, Whole, Updates
    <3>4. NewStatus(job) = IF job.kind = "Created" THEN "Active" ELSE job.kind
      BY <2>7 DEF NewStatus, Whole, Events
    <3>5. Agrees(row'.status, active'[Root])
      BY <1>1, <2>7, <3>3, <3>4 DEF Agrees, Whole
    <3> HIDE DEF job
    <3> QED
      BY <2>3, <2>4, <2>5, <3>2, <3>5 DEF Flagged
  <2>8. CASE job.kind = "PastDue"
    <3>1. work'[p].kind = "none"
      BY <1>9, <2>8
    <3>2. \A q \in Clients : work'[q].kind \notin Events
      BY <1>8, <2>2, <2>5, <3>1
    <3>3. row'.status = "PastDue"
      BY <1>1, <2>5, <2>8 DEF NewStatus
    <3>4. Agrees(row'.status, active'[Root])
      BY <3>3 DEF Agrees
    <3> HIDE DEF job
    <3> QED
      BY <2>3, <2>4, <2>5, <3>2, <3>4 DEF Flagged
  <2>9. CASE job.kind \in {"Unpaid", "Active"}
    <3>1. work'[p].kind = job.kind /\ work'[p].at = 3 /\ sent' = sent
      BY <1>2, <1>9, <2>9 DEF Editing, Whole
    <3>2. job.kind \in Events /\ job.kind \notin {"Created", "Deleted", "Paused"}
      BY <2>5, <2>9
    <3>3. row'.status = job.kind
      BY <1>1, <3>2 DEF NewStatus
    <3>4. job.kind \in sent
      BY <3>2 DEF Flagged
    <3>5. \A q \in Clients : work'[q].kind \in Events => q = p
      BY <1>8, <2>2
    <3> HIDE DEF job
    <3> QED
      BY <2>3, <2>4, <2>5, <2>9, <3>1, <3>2, <3>3, <3>4, <3>5 DEF Flagged
  <2>10. CASE job.kind \in Editing \cup {"newUrl"}
    <3>1. job.kind \notin Events /\ sent' = sent
      BY <1>8, <2>10 DEF Editing, Events
    <3>2. \A q \in Clients : work[q].kind \notin Events /\ work'[q].kind \notin Events
      BY <1>8, <2>2, <2>5, <3>1
    <3>3. row'.status = row.status
      BY <1>1, <2>1, <3>1, <2>5 DEF NewStatus
    <3>4. \/ Agrees(row.status, active[Root])
          \/ sent \cap {"Created", "Deleted", "Paused"} # {}
      BY <2>5, <3>2 DEF Flagged
    <3> HIDE DEF job
    <3> QED
      BY <2>3, <2>4, <2>5, <2>6, <3>1, <3>2, <3>3, <3>4 DEF Flagged
  <2> QED
    BY <1>10, <2>7, <2>8, <2>9, <2>10
<1> QED
  BY <1>8, <1>13, <1>14, <1>16, <1>17, <1>18

\* A set of members is counted.
LEMMA Counted ==
    ASSUME NEW S, S \subseteq Users \cup {Owner}, Owner \in S
    PROVE  Cardinality(S) \in Nat /\ Cardinality(S) # 0
<1>1. IsFiniteSet(Users \cup {Owner})
  BY MembershipAssumption, FS_AddElement
<1>2. IsFiniteSet(S)
  BY <1>1, FS_Subset
<1> QED
  BY <1>2, FS_CardinalityType, FS_EmptySet

\* Stripe is told how many members the row that was written has.
LEMMA SeatsStep == ASSUME IInv, NEW p \in Clients, SetSeats(p) PROVE IInv'
<1> USE DEF IInv
<1> DEFINE job == work[p]
           members == NewMembers([job EXCEPT !.at = 6])
<1>1. /\ work[p] # Nothing /\ GoOn(p, job)
      /\ seats' = IF members = job.row.members THEN seats ELSE Cardinality(members)
      /\ UNCHANGED <<there, editors, active, row, session, owing, stray, expelled, mixed>>
  BY DEF SetSeats, At, tree
<1>2. /\ ToBill(job)
      /\ \/ job.kind = "confirm" /\ job.at = 5
         \/ job.kind = "deleteMember" /\ job.at = 7
  BY PlacesOf DEF SetSeats, ToBill
<1>3. /\ job \in Jobs /\ job.kind \in RowWriters /\ job.kind \notin Events /\ job.kind # "create"
      /\ job.row \in Rows /\ job.list \subseteq Nodes /\ job.user \in Users /\ Holds(job)
  BY <1>1, <1>2, JobsAre DEF Jobs, RowWriters, Events, WorkOK, Holds
<1>4. Owner \in job.row.members /\ job.row.status # "none"
  BY <1>3 DEF WorkOK
<1>5. members \subseteq Users \cup {Owner} /\ Owner \in members
  <2> DEFINE next == [job EXCEPT !.at = 6]
  <2>1. next.kind = job.kind /\ next.at = 6 /\ next.row = job.row /\ next.user = job.user
    BY <1>3 DEF Jobs
  <2> HIDE DEF next, job
  <2>2. NewMembers(next) \subseteq Users \cup {Owner} /\ Owner \in NewMembers(next)
    BY <1>2, <1>3, <1>4, <2>1, MembershipAssumption DEF NewMembers, Rows
  <2> QED
    BY <2>2 DEF next
<1> HIDE DEF members
<1>6. /\ WorkOK' /\ Noted' /\ sent' = sent
      /\ \A q \in Clients : work'[q] # Nothing => work'[q].at \in 1 .. Len(Calls(work'[q].kind))
      /\ \A q \in Clients \ {p} : work'[q] = work[q]
      /\ work'[p].kind \in {"confirm", "none"}
      /\ work'[p].kind = "confirm" => work'[p].at = 6
  <2>1. row' \in Rows
    BY <1>1 DEF WorkOK
  <2>2. job.kind = "deleteMember" => job.at = Len(Calls(job.kind))
    BY <1>2, Lengths
  <2> HIDE DEF job
  <2>3. /\ WorkOK' /\ Noted' /\ sent' = sent
        /\ \A q \in Clients : work'[q] # Nothing => work'[q].at \in 1 .. Len(Calls(work'[q].kind))
        /\ \A q \in Clients \ {p} : work'[q] = work[q]
        /\ \/ work'[p].kind = "none"
           \/ /\ job.at # Len(Calls(job.kind))
              /\ work'[p].kind = job.kind /\ work'[p].at = job.at + 1
    BY <1>1, <1>3, <1>4, <2>1, Went DEF job
  <2> QED
    BY <1>2, <2>2, <2>3
<1>7. ~ToBill(work'[p]) /\ ~ToWrite(work'[p])
  BY <1>6 DEF ToBill, ToWrite, Updates
<1>8. TypeOK'
  BY <1>1, <1>5, <1>6, Counted DEF TypeOK
<1>9. Removals'
  BY <1>1, <1>6, RemovalsKeep
<1>10. Covers'
  <2>1. Confirming \subseteq Confirming'
    BY <1>2, <1>6, ConfirmingKeeps
  <2> QED
    BY <1>1, <1>6, <1>7, <2>1, CoversKeeps
<1>11. Billed'
  <2> SUFFICES ASSUME mixed \cap {"row", "seats"} = {}
               PROVE  Billed'
    BY <1>1 DEF Billed
  <2>1. \A q \in Clients : ToBill(work[q]) => work[q].kind \in RowWriters
    BY KindsOf DEF ToBill, Editing
  <2>2. \A q \in Clients : ~ToBill(work'[q])
    BY <1>3, <1>6, <1>7, <2>1 DEF Noted
  <2>3. /\ row.members = members
        /\ session # 0 => session = Cardinality(row.members)
        /\ session = 0 => seats = Cardinality(job.row.members)
    BY <1>2 DEF Billed, members
  <2> QED
    BY <1>1, <2>2, <2>3 DEF Billed
<1>12. Flagged'
  BY <1>1, <1>3, <1>6, KindsOf, FlaggedKeeps DEF Events
<1> QED
  BY <1>6, <1>8, <1>9, <1>10, <1>11, <1>12

\* The invitation is the last that is written.
LEMMA EndStep == ASSUME IInv, NEW p \in Clients, EndInvitation(p) PROVE IInv'
<1> USE DEF IInv
<1> DEFINE job == work[p]
<1>1. /\ work[p] # Nothing /\ GoOn(p, job)
      /\ UNCHANGED <<there, editors, active, row, seats, session, owing, stray, expelled, mixed>>
  BY DEF EndInvitation, At, tree
<1>2. \/ job.kind = "confirm" /\ job.at = 6
      \/ job.kind = "deleteEditor" /\ job.at = 5
  BY PlacesOf DEF EndInvitation
<1>3. /\ job \in Jobs /\ job.kind \in RowWriters /\ job.kind \notin Events /\ job.kind # "create"
      /\ job.list \subseteq Nodes /\ Holds(job) /\ ~ToBill(job)
  BY <1>1, <1>2, JobsAre DEF RowWriters, Events, WorkOK, Holds, ToBill
<1>4. Owner \in job.row.members /\ job.row.status # "none" /\ row' \in Rows
  BY <1>1, <1>3 DEF WorkOK
<1>5. job.at = Len(Calls(job.kind))
  BY <1>2, Lengths
<1>6. /\ WorkOK' /\ Noted' /\ sent' = sent
      /\ \A q \in Clients : work'[q] # Nothing => work'[q].at \in 1 .. Len(Calls(work'[q].kind))
      /\ \A q \in Clients \ {p} : work'[q] = work[q]
      /\ work'[p].kind = "none"
  <2> HIDE DEF job
  <2> QED
    BY <1>1, <1>3, <1>4, <1>5, Went DEF job
<1>7. ~ToBill(work'[p]) /\ ~ToWrite(work'[p])
  BY <1>6 DEF ToBill, ToWrite, Updates
<1>8. TypeOK'
  BY <1>1, <1>6 DEF TypeOK
<1>9. Removals'
  BY <1>1, <1>6, RemovalsKeep
<1>10. Covers'
  <2>1. Confirming \subseteq Confirming'
    BY <1>2, <1>6, ConfirmingKeeps
  <2> QED
    BY <1>1, <1>6, <1>7, <2>1, CoversKeeps
<1>11. Billed'
  BY <1>1, <1>3, <1>6, <1>7, BilledKeeps
<1>12. Flagged'
  BY <1>1, <1>3, <1>6, KindsOf, FlaggedKeeps
<1> QED
  BY <1>6, <1>8, <1>9, <1>10, <1>11, <1>12

\* A session offers the members that are there.
LEMMA SessionStep == ASSUME IInv, NEW p \in Clients, OpenSession(p) PROVE IInv'
<1> USE DEF IInv
<1> DEFINE job == work[p]
<1>1. /\ work[p] # Nothing /\ GoOn(p, job)
      /\ session' = Cardinality(job.row.members)
      /\ UNCHANGED <<there, editors, active, row, seats, owing, stray, expelled, mixed>>
  BY DEF OpenSession, At, tree
<1>2. job.kind = "newUrl" /\ job.at = 1
  BY PlacesOf DEF OpenSession
<1>3. /\ job \in Jobs /\ job.kind \in RowWriters /\ job.kind \notin Events /\ job.kind # "create"
      /\ job.list \subseteq Nodes /\ Holds(job) /\ ~ToBill(job) /\ ToWrite(job) /\ job.row \in Rows
  BY <1>1, <1>2, JobsAre DEF Jobs, RowWriters, Events, WorkOK, Holds, ToBill, ToWrite
<1>4. Owner \in job.row.members /\ job.row.status # "none" /\ row' \in Rows
  BY <1>1, <1>3 DEF WorkOK
<1>5. session' \in Nat /\ session' # 0
  BY <1>1, <1>3, <1>4, Counted DEF Rows
<1>6. /\ WorkOK' /\ Noted' /\ sent' = sent
      /\ \A q \in Clients : work'[q] # Nothing => work'[q].at \in 1 .. Len(Calls(work'[q].kind))
      /\ \A q \in Clients \ {p} : work'[q] = work[q]
      /\ work'[p].kind = "newUrl" /\ work'[p].row = job.row
  <2>1. job.at # Len(Calls(job.kind))
    BY <1>2, Lengths
  <2> HIDE DEF job
  <2> QED
    BY <1>1, <1>2, <1>3, <1>4, <2>1, Went DEF job
<1>7. ~ToBill(work'[p])
  BY <1>6 DEF ToBill
<1>8. TypeOK'
  BY <1>1, <1>5, <1>6 DEF TypeOK
<1>9. Removals'
  BY <1>1, <1>6, RemovalsKeep
<1>10. Covers'
  <2>1. Confirming \subseteq Confirming'
    BY <1>2, <1>6, ConfirmingKeeps
  <2>2. "row" \in mixed \/ work'[p].row = row
    BY <1>3, <1>6 DEF Covers
  <2> QED
    BY <1>1, <1>6, <2>1, <2>2, CoversKeeps
<1>11. Billed'
  <2> SUFFICES ASSUME mixed \cap {"row", "seats"} = {}
               PROVE  Billed'
    BY <1>1 DEF Billed
  <2>1. \A q \in Clients : ToBill(work[q]) => work[q].kind \in RowWriters
    BY KindsOf DEF ToBill, Editing
  <2>2. \A q \in Clients : ~ToBill(work'[q])
    BY <1>3, <1>6, <1>7, <2>1 DEF Noted
  <2>3. job.row = row
    BY <1>3 DEF Covers
  <2> QED
    BY <1>1, <1>5, <2>2, <2>3 DEF Billed
<1>12. Flagged'
  BY <1>1, <1>2, <1>3, <1>6, FlaggedKeeps
<1> QED
  BY <1>6, <1>8, <1>9, <1>10, <1>11, <1>12

\* What a handler that breaks off leaves half done is noted.
LEMMA FailStep == ASSUME IInv, NEW p \in Clients, Fail(p) PROVE IInv'
<1> USE DEF IInv
<1> DEFINE job == work[p]
<1>1. /\ job # Nothing /\ work' = [work EXCEPT ![p] = Nothing]
      /\ owing' = IF job.kind = "confirm" /\ (At(p, "readRow") \/ At(p, "writeRow"))
                  THEN owing \cup {job.user} ELSE owing
      /\ mixed' = mixed \cup {what \in {"seats", "flags"} :
             \/ what = "seats" /\ At(p, "seats")
             \/ what = "flags" /\ job.kind \in Updates /\ job.at > 2}
      /\ UNCHANGED <<there, editors, active, row, seats, session, sent, stray, expelled>>
  BY DEF Fail, tree
<1>2. /\ work' \in [Clients -> Jobs \cup {Nothing}] /\ work'[p] = Nothing
      /\ \A q \in Clients \ {p} : work'[q] = work[q]
  BY <1>1 DEF WorkOK
<1>3. work'[p].kind = "none" /\ ~Holds(work'[p]) /\ ~ToBill(work'[p]) /\ ~ToWrite(work'[p])
  BY <1>2 DEF Nothing, Job, Holds, ToBill, ToWrite, Updates
<1>4. WorkOK'
  BY <1>1, <1>2, <1>3, KindsOf DEF WorkOK
<1>5. mixed \subseteq mixed' /\ owing \subseteq owing' /\ mixed' \subseteq mixed \cup {"seats", "flags"}
  BY <1>1
<1>6. Noted'
  BY <1>1, <1>2, <1>5, NotedKeeps
<1>7. TypeOK'
  <2>1. job.kind = "confirm" => job.user \in Users
    BY DEF WorkOK
  <2>2. owing' \subseteq Users
    BY <1>1, <2>1 DEF TypeOK
  <2> QED
    BY <1>1, <1>2, <1>5, <2>2 DEF TypeOK
<1>8. Removals'
  BY <1>1, <1>2, <1>3, RemovalsKeep
<1>9. Covers'
  <2>1. job.kind = "confirm" /\ job.at \in {3, 4} => job.user \in owing'
    BY <1>1, PlacesOf
  <2>2. Confirming \subseteq Confirming' \cup owing'
    BY <1>2, <2>1 DEF Confirming
  <2> QED
    BY <1>1, <1>2, <1>3, <1>5, <2>2, CoversKeeps
<1>10. Billed'
  <2>1. CASE ToBill(job)
    <3>1. "seats" \in mixed'
      BY <1>1, <2>1, PlacesOf
    <3> QED
      BY <3>1 DEF Billed
  <2>2. CASE ~ToBill(job)
    BY <1>1, <1>2, <1>3, <1>5, <2>2, BilledKeeps
  <2> QED
    BY <2>1, <2>2
<1>11. Flagged'
  <2> SUFFICES ASSUME mixed' \cap {"row", "flags"} = {}
               PROVE  Flagged'
    BY DEF Flagged
  <2>1. ~(job.kind \in Updates /\ job.at > 2) /\ mixed \cap {"row", "flags"} = {}
    BY <1>1
  <2>2. ~(job.kind \in {"Unpaid", "Active"} /\ job.at >= 3)
    <3>1. job.at \in 1 .. 7
      BY JobsAre
    <3> QED
      BY <2>1, <3>1 DEF Updates
  <2>3. ASSUME NEW q \in Clients, work[q].kind \in {"Unpaid", "Active"}, work[q].at >= 3
        PROVE  work'[q] = work[q]
    BY <1>2, <2>2, <2>3
  <2>4. \A q \in Clients : work'[q] = work[q] \/ work'[q].kind = "none"
    BY <1>2, <1>3
  <2>5. "none" \notin Events
    BY KindsOf
  <2>6. UNCHANGED <<there, active, row, sent>>
    BY <1>1
  <2> HIDE DEF job
  <2> QED
    BY <2>1, <2>3, <2>4, <2>5, <2>6 DEF Flagged
<1> QED
  BY <1>4, <1>6, <1>7, <1>8, <1>9, <1>10, <1>11

-----------------------------------------------------------------------------
(* The theorems.                                                           *)

\* No step breaks the invariant.
LEMMA InductiveStep == IInv /\ [Next]_vars => IInv'
<1> SUFFICES ASSUME IInv, [Next]_vars PROVE IInv'
  OBVIOUS
<1>1. ASSUME NEW p \in Clients,
             \/ AskCreate(p) \/ AskConfirm(p) \/ AskRemoval(p) \/ AskNewUrl(p) \/ Deliver(p)
      PROVE  IInv'
  BY <1>1, AskCreateStep, AskConfirmStep, AskRemovalStep, AskNewUrlStep, DeliverStep
<1>2. ASSUME NEW p \in Clients,
             \/ Insert(p) \/ List(p) \/ UpdateEditorIds(p) \/ UpdateSubActive(p) \/ ReadRow(p)
             \/ WriteRow(p) \/ SetSeats(p) \/ EndInvitation(p) \/ OpenSession(p) \/ Fail(p)
      PROVE  IInv'
  BY <1>2, InsertStep, ListStep, EditorsStep, FlagsStep, ReadStep, WriteStep, SeatsStep, EndStep,
     SessionStep, FailStep
<1>3. CASE Send \/ Pay
  BY <1>3, SendStep, PayStep
<1>4. CASE Invite \/ Uninvite
  BY <1>4, IdleStep DEF Invite, Uninvite, tree
<1>5. CASE UNCHANGED vars
  BY <1>5, IdleStep DEF vars
<1> QED
  BY <1>1, <1>2, <1>3, <1>4, <1>5 DEF Next

\* Whatever runs at once and breaks off, the invariant holds.
THEOREM Invariance == Spec => []IInv
<1>1. Init => IInv
  BY InitHolds
<1>2. IInv /\ [Next]_vars => IInv'
  BY InductiveStep
<1> QED
  BY <1>1, <1>2, PTL DEF Spec

\* The variables keep their types, and at rest, with all events of Stripe
\* answered in whatever order, who edits a node is a member, Stripe bills the
\* members there are, and all nodes have the flag of the subscription's status.
THEOREM AtRestAllAgree == Spec => []MembershipInv
<1>1. IInv => MembershipInv
  <2> SUFFICES ASSUME IInv PROVE MembershipInv
    OBVIOUS
  <2> USE DEF IInv
  <2> SUFFICES ASSUME sent = {}, \A p \in Clients : work[p] = Nothing
               PROVE  Paid /\ FlagsFollow
    BY DEF MembershipInv
  <2>1. \A p \in Clients : work[p].kind = "none" /\ ~ToBill(work[p])
    BY DEF Nothing, Job, ToBill
  <2>2. Confirming = {}
    BY <2>1 DEF Confirming
  <2>3. Paid
    BY <2>1, <2>2 DEF Paid, Covers, Covered, Billed
  <2>4. FlagsFollow
    BY <2>1 DEF FlagsFollow, Flagged, Agrees
  <2> QED
    BY <2>3, <2>4
<1> QED
  BY <1>1, Invariance, PTL

\* Who was removed from the organization edits none of its nodes, unless the
\* removal ran beside a confirmation or a creation or he is confirmed again.
THEOREM RemovedEditsNothing == Spec => []Expelled
<1>1. IInv => Expelled
  BY DEF IInv, Removals
<1> QED
  BY <1>1, Invariance, PTL
=============================================================================
