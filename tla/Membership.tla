------------------------------ MODULE Membership ------------------------------
(***************************************************************************)
(* Who edits and who pays for a private tree: the editors of its nodes,    *)
(* the members in its subscription row, the seats billed by Stripe and the *)
(* flag of an active subscription that every node carries.  Invitations,   *)
(* removals and Stripe's events (invitation.rs, node.rs, subscription.rs)  *)
(* read and write them one after the other, and the row always whole.      *)
(***************************************************************************)
EXTENDS Integers, FiniteSets, Sequences

CONSTANTS
    Nodes, Root,    \* a root, and nodes that may be created below it
    Owner, Users,   \* the owner of the tree, and others
    Clients,        \* what may be at work at once
    None,
    MaxAsks, MaxFaults

ASSUME MembershipAssumption ==
    /\ Root \in Nodes
    /\ Owner \notin Users /\ IsFiniteSet(Users)
    /\ None \notin Nodes \cup Users \cup {Owner}
    /\ MaxAsks \in Nat /\ MaxFaults \in Nat

VARIABLES
    there,      \* the nodes there are
    editors,    \* their editor_ids
    active,     \* their is_subscription_active
    invited,    \* of nodes and users: the invitation's status and inviter
    row,        \* the subscription row: its members and status
    seats,      \* the quantity Stripe bills
    session,    \* the quantity an open checkout session offers, or 0
    sent,       \* events of Stripe that have not been answered
    work,       \* of clients: the request or event at work
    owing,      \* users whose confirmation broke off before they were members
    stray,      \* users removed while they were confirmed or a node created
    expelled,   \* users removed from the tree and not confirmed since
    mixed,      \* what clashing requests, or a fault, may have left wrong
    spent

vars == <<there, editors, active, invited, row, seats, session, sent, work, owing,
          stray, expelled, mixed, spent>>
tree == <<there, editors, active>>

Events == {"Created", "Deleted", "Paused", "PastDue", "Unpaid", "Active"}
Updates == {"PastDue", "Unpaid", "Active"}
RowWriters == Events \cup {"confirm", "deleteEditor", "deleteMember", "newUrl"}

\* What handlers read and write, in order.
Calls(kind) ==
    CASE kind = "create" -> <<"insert">>
      [] kind = "confirm" -> <<"list", "editors", "readRow", "writeRow", "seats", "accept">>
      [] kind = "deleteEditor" -> <<"list", "editors", "readRow", "writeRow", "uninvite">>
      [] kind = "deleteMember" ->
            <<"list", "editors", "readRow", "writeRow", "readRow", "writeRow", "seats">>
      [] kind = "newUrl" -> <<"open", "writeRow">>
      [] kind \in {"Created", "Deleted", "Paused"} -> <<"list", "flags", "readRow", "writeRow">>
      [] kind = "PastDue" -> <<"readRow", "writeRow">>
      [] kind \in {"Unpaid", "Active"} -> <<"readRow", "writeRow", "list", "flags">>

Job(kind, node, user) ==
    [kind |-> kind, node |-> node, user |-> user, at |-> 1, list |-> {}, by |-> None,
     row |-> [members |-> {}, status |-> "none"]]
Nothing == Job("none", None, None)

At(p, place) == work[p] # Nothing /\ Calls(work[p].kind)[work[p].at] = place

\* Client p goes on with `job`, its reads added, or is done.
GoOn(p, job) ==
    LET over == job.at = Len(Calls(job.kind)) IN
    /\ work' = [work EXCEPT ![p] = IF over THEN Nothing ELSE [job EXCEPT !.at = @ + 1]]
    /\ sent' = IF over THEN sent \ {job.kind} ELSE sent

Init ==
    /\ there = {Root}
    /\ editors = [n \in Nodes |-> {}]
    /\ active = [n \in Nodes |-> n = Root]
    /\ invited = [n \in Nodes |-> [u \in Users |-> [status |-> "none", by |-> None]]]
    /\ row = [members |-> {Owner}, status |-> "Active"]
    /\ seats = 1
    /\ session = 0
    /\ sent = {}
    /\ work = [p \in Clients |-> Nothing]
    /\ owing = {} /\ stray = {} /\ expelled = {} /\ mixed = {}
    /\ spent = [asks |-> 0, faults |-> 0]

-----------------------------------------------------------------------------
(* Requests and events come in.                                            *)

Busy(kinds) == \E p \in Clients : work[p].kind \in kinds
BusyWith(kind, u) == \E p \in Clients : work[p].kind = kind /\ work[p].user = u

\* Whom a job that starts now may leave astray, and what it mixes up.
Astray(job) ==
    {u \in Users :
        \/ job.kind = "create" /\ BusyWith("deleteMember", u)
        \/ job.kind = "confirm" /\ job.user = u /\ BusyWith("deleteMember", u)
        \/ job.kind = "deleteMember" /\ job.user = u /\ (Busy({"create"}) \/ BusyWith("confirm", u))}
Mixed(job) ==
    {what \in {"row", "flags"} :
        \/ what = "row" /\ job.kind \in RowWriters /\ Busy(RowWriters)
        \/ what = "flags" /\ job.kind \in Events /\ Busy({"create"})
        \/ what = "flags" /\ job.kind = "create" /\ Busy(Events)}

Start(p, job) ==
    /\ work[p] = Nothing
    /\ work' = [work EXCEPT ![p] = job]
    /\ stray' = stray \cup Astray(job)
    /\ mixed' = mixed \cup Mixed(job)
    /\ UNCHANGED <<tree, invited, row, seats, session, owing, expelled>>

Asks ==
    /\ spent.asks < MaxAsks
    /\ spent' = [spent EXCEPT !.asks = @ + 1]

\* The new node takes its parent's editors and flag as they are read here; a
\* parent without an active subscription is refused.
AskCreate(p) ==
    /\ Asks
    /\ active[Root]
    /\ \E n \in Nodes \ there :
           Start(p, [Job("create", n, None) EXCEPT !.list = editors[Root]])
    /\ UNCHANGED sent

\* Only an accepted invitation, or one of somebody who was an editor and is
\* not any more, is refused; whether it has expired is left open.
AskConfirm(p) ==
    /\ Asks
    /\ \E n \in there, u \in Users :
           /\ invited[n][u].status \in {"Created", "Rejected"}
           /\ invited[n][u].by \in editors[n] \cup {Owner}
           /\ Start(p, [Job("confirm", n, u) EXCEPT !.by = invited[n][u].by])
    /\ UNCHANGED sent

AskRemoval(p) ==
    /\ Asks
    /\ \E u \in Users :
           \/ Start(p, Job("deleteMember", Root, u))
           \/ \E n \in there : Start(p, Job("deleteEditor", n, u))
    /\ UNCHANGED sent

AskNewUrl(p) ==
    /\ Asks
    /\ row.status # "Active"
    /\ Start(p, [Job("newUrl", Root, None) EXCEPT !.row = row])
    /\ UNCHANGED sent

Deliver(p) ==
    /\ \E event \in sent : Start(p, Job(event, Root, None))
    /\ UNCHANGED <<sent, spent>>

\* Stripe sends events in any order and again.
Send ==
    /\ Asks
    /\ \E event \in Events : sent' = sent \cup {event}
    /\ UNCHANGED <<tree, invited, row, seats, session, work, owing, stray, expelled, mixed>>

Pay ==
    /\ session # 0
    /\ seats' = session
    /\ session' = 0
    /\ sent' = sent \cup {"Created"}
    /\ UNCHANGED <<tree, invited, row, work, owing, stray, expelled, mixed, spent>>

\* "Already accepted" asks whether the inviter is an editor, and "already
\* sent" whether the invitation has not expired.
Invite ==
    /\ Asks
    /\ \E n \in there, u \in Users, by \in Users \cup {Owner} :
           /\ active[n] /\ by \in editors[n] \cup {Owner}
           /\ ~(invited[n][u].status = "Accepted" /\ by \in editors[n])
           /\ invited' = [invited EXCEPT ![n][u] = [status |-> "Created", by |-> by]]
    /\ UNCHANGED <<tree, row, seats, session, sent, work, owing, stray, expelled, mixed>>

\* The invited user rejects, or an editor takes the invitation back.
Uninvite ==
    /\ Asks
    /\ \E n \in there, u \in Users :
           \/ /\ invited[n][u].status \in {"Created", "Rejected"}
              /\ invited' = [invited EXCEPT ![n][u].status = "Rejected"]
           \/ /\ invited[n][u].status # "none" /\ active[n]
              /\ invited' = [invited EXCEPT ![n][u] = [status |-> "none", by |-> None]]
    /\ UNCHANGED <<tree, row, seats, session, sent, work, owing, stray, expelled, mixed>>

-----------------------------------------------------------------------------
(* The calls of the handlers.                                              *)

Insert(p) ==
    /\ At(p, "insert")
    /\ there' = there \cup {work[p].node}
    /\ editors' = [editors EXCEPT ![work[p].node] = work[p].list]
    /\ active' = [active EXCEPT ![work[p].node] = TRUE]
    /\ GoOn(p, work[p])
    /\ UNCHANGED <<invited, row, seats, session, owing, stray, expelled, mixed, spent>>

\* The descendants of the root are all other nodes.
AlongOnly(n) == {n}
Along(n) == IF n = Root THEN there ELSE {n}

List(p) ==
    /\ At(p, "list")
    /\ GoOn(p, [work[p] EXCEPT !.list = Along(work[p].node)])
    /\ UNCHANGED <<tree, invited, row, seats, session, owing, stray, expelled, mixed, spent>>

\* One batch of one partition.
UpdateEditorIds(p) ==
    LET job == work[p]
        u == job.user IN
    /\ At(p, "editors")
    /\ editors' = [n \in Nodes |->
           IF n \notin job.list THEN editors[n]
           ELSE IF job.kind = "confirm" THEN editors[n] \cup {u} ELSE editors[n] \ {u}]
    /\ expelled' = CASE job.kind = "confirm" -> expelled \ {u}
                     [] job.kind = "deleteMember" -> expelled \cup {u}
                     [] OTHER -> expelled
    /\ GoOn(p, job)
    /\ UNCHANGED <<there, active, invited, row, seats, session, owing, stray, mixed, spent>>

UpdateSubActive(p) ==
    /\ At(p, "flags")
    /\ active' = [n \in Nodes |->
           IF n \in work[p].list THEN work[p].kind \in {"Created", "Active"} ELSE active[n]]
    /\ GoOn(p, work[p])
    /\ UNCHANGED <<there, editors, invited, row, seats, session, owing, stray, expelled, mixed, spent>>

\* An update that would not change the status is answered at once.
ReadRow(p) ==
    /\ At(p, "readRow")
    /\ IF work[p].kind \in Updates /\ row.status = work[p].kind
       THEN /\ work' = [work EXCEPT ![p] = Nothing]
            /\ sent' = sent \ {work[p].kind}
       ELSE GoOn(p, [work[p] EXCEPT !.row = row])
    /\ UNCHANGED <<tree, invited, row, seats, session, owing, stray, expelled, mixed, spent>>

\* update_editor_ids adds members and never removes them; the removal of a
\* member comes with the second row that delete_org_member reads.
NewMembersForgotten(job) ==
    IF job.kind = "deleteMember" /\ job.at = 6 THEN job.row.members \ {job.user} ELSE job.row.members
NewMembers(job) ==
    CASE job.kind = "confirm" -> job.row.members \cup {job.user}
      [] job.kind = "deleteMember" /\ job.at = 6 -> job.row.members \ {job.user}
      [] OTHER -> job.row.members

NewStatus(job) ==
    CASE job.kind = "Created" -> "Active"
      [] job.kind \in Events \ {"Created"} -> job.kind
      [] OTHER -> job.row.status

\* An offer that is open meanwhile goes by the old number.
WriteRow(p) ==
    LET job == work[p] IN
    /\ At(p, "writeRow")
    /\ row' = [members |-> NewMembers(job), status |-> NewStatus(job)]
    /\ owing' = IF job.kind = "confirm" THEN owing \ {job.user} ELSE owing
    /\ mixed' = IF NewMembers(job) # job.row.members /\ session # 0
                THEN mixed \cup {"seats"} ELSE mixed
    /\ GoOn(p, job)
    /\ UNCHANGED <<tree, invited, seats, session, stray, expelled, spent>>

\* Stripe is asked only if the number of members has changed.
SetSeats(p) ==
    /\ At(p, "seats")
    /\ LET members == NewMembers([work[p] EXCEPT !.at = 6]) IN
       seats' = IF members = work[p].row.members THEN seats ELSE Cardinality(members)
    /\ GoOn(p, work[p])
    /\ UNCHANGED <<tree, invited, row, session, owing, stray, expelled, mixed, spent>>

\* The invitation is written whole, or deleted.
EndInvitation(p) ==
    /\ At(p, "accept") \/ At(p, "uninvite")
    /\ invited' = [invited EXCEPT ![work[p].node][work[p].user] =
           IF work[p].kind = "confirm" THEN [status |-> "Accepted", by |-> work[p].by]
           ELSE [status |-> "none", by |-> None]]
    /\ GoOn(p, work[p])
    /\ UNCHANGED <<tree, row, seats, session, owing, stray, expelled, mixed, spent>>

OpenSession(p) ==
    /\ At(p, "open")
    /\ session' = Cardinality(work[p].row.members)
    /\ GoOn(p, work[p])
    /\ UNCHANGED <<tree, invited, row, seats, owing, stray, expelled, mixed, spent>>

\* A call fails, or the process dies.  Stripe sends an event again that was
\* not answered.
Fail(p) ==
    LET job == work[p] IN
    /\ job # Nothing
    /\ spent.faults < MaxFaults
    /\ spent' = [spent EXCEPT !.faults = @ + 1]
    /\ work' = [work EXCEPT ![p] = Nothing]
    /\ owing' = IF job.kind = "confirm" /\ (At(p, "readRow") \/ At(p, "writeRow"))
                THEN owing \cup {job.user} ELSE owing
    /\ mixed' = mixed \cup {what \in {"seats", "flags"} :
           \/ what = "seats" /\ At(p, "seats")
           \/ what = "flags" /\ job.kind \in Updates /\ job.at > 2}
    /\ UNCHANGED <<tree, invited, row, seats, session, sent, stray, expelled>>

Next ==
    \/ \E p \in Clients :
           \/ AskCreate(p) \/ AskConfirm(p) \/ AskRemoval(p) \/ AskNewUrl(p) \/ Deliver(p)
           \/ Insert(p) \/ List(p) \/ UpdateEditorIds(p) \/ UpdateSubActive(p)
           \/ ReadRow(p) \/ WriteRow(p) \/ SetSeats(p) \/ EndInvitation(p) \/ OpenSession(p)
           \/ Fail(p)
    \/ Send \/ Pay \/ Invite \/ Uninvite

Spec == Init /\ [][Next]_vars

-----------------------------------------------------------------------------

TypeOK ==
    /\ there \subseteq Nodes /\ Root \in there
    /\ editors \in [Nodes -> SUBSET Users]
    /\ active \in [Nodes -> BOOLEAN]
    /\ row.members \subseteq Users \cup {Owner} /\ Owner \in row.members
    /\ row.status \in Events \ {"Created"}
    /\ seats \in Nat /\ session \in Nat
    /\ sent \subseteq Events
    /\ \A p \in Clients : work[p] # Nothing => work[p].at \in 1 .. Len(Calls(work[p].kind))
    /\ owing \cup stray \cup expelled \subseteq Users
    /\ mixed \subseteq {"row", "flags", "seats"}

\* Whoever edits a node is a member, and Stripe bills every member.
Paid ==
    "row" \notin mixed =>
        /\ \A n \in there : editors[n] \subseteq row.members \cup owing \cup stray
        /\ "seats" \notin mixed /\ session = 0 => seats = Cardinality(row.members)

\* All nodes have the same flag, and it is that of the status.
FlagsFollow ==
    mixed \cap {"row", "flags"} = {} =>
        \A n \in there :
            /\ active[n] = active[Root]
            /\ row.status = "Active" => active[n]
            /\ row.status \in {"Deleted", "Paused", "Unpaid"} => ~active[n]

\* At rest, with all events answered in whatever order they came, editors,
\* members, seats and flags agree; what broke off or clashed is excepted as
\* far as it reaches.
MembershipInv ==
    TypeOK /\ (sent = {} /\ (\A p \in Clients : work[p] = Nothing) => Paid /\ FlagsFollow)

\* Who was removed from the organization edits none of its nodes, those that
\* are created later included, unless he is confirmed again.
Expelled ==
    \A u \in expelled \ stray : \A n \in there : u \notin editors[n]
=============================================================================
