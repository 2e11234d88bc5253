----------------------------- MODULE Contributions -----------------------------
(***************************************************************************)
(* The handlers of contribution requests, call by call                     *)
(* (contribution_request_api.rs, models/contribution_request.rs): a        *)
(* request is a row, a branch of the same id and the branch's data, which  *)
(* are written one after the other.  Only merges take the root's lock.     *)
(* Branch edits are here for the row they write back whole; what a merge   *)
(* does to the original is Merge's matter.                                 *)
(***************************************************************************)
EXTENDS Integers, FiniteSets

CONSTANTS
    Crs,            \* contribution requests, of nodes with one root
    Existing,       \* those there are to begin with
    Clients,
    None,
    MaxAsks, MaxFaults

ASSUME ContributionsAssumption ==
    /\ Existing \subseteq Crs /\ IsFiniteSet(Crs)
    /\ None \notin Crs \cup Clients
    /\ MaxAsks \in Nat /\ MaxFaults \in Nat

VARIABLES
    row,        \* of contribution requests: "none", the status, or "stub" for
                \* a row that holds a title only and cannot be read
    branch,     \* the same of their branches
    content,    \* those whose branch has data
    counter,    \* contribution_requests_count
    lock,       \* the client whose key of the root is set
    work,       \* of clients: the request at work
    made,       \* ids that have been given out
    seen,       \* the statuses that clients have been shown
    applied,    \* how often the branch was merged
    unsettled,  \* those with a request that was broken off, or with requests
                \* that clash
    reopened,   \* those with overlapping merges, with a merge that was broken
                \* off after its work, published over a merge or a deletion,
                \* or made with the status of a merge
    spent

vars == <<row, branch, content, counter, lock, work, made, seen, applied,
          unsettled, reopened, spent>>

Statuses == {"WorkInProgress", "Published", "Merged"}

Job(kind, on, at, copy) == [kind |-> kind, on |-> on, at |-> at, copy |-> copy]
Nothing == Job("none", None, "end", "none")

Init ==
    /\ row = [c \in Crs |-> IF c \in Existing THEN "WorkInProgress" ELSE "none"]
    /\ branch = [c \in Crs |-> IF c \in Existing THEN "Open" ELSE "none"]
    /\ content = Existing
    /\ counter = Cardinality(Existing)
    /\ lock = None
    /\ work = [p \in Clients |-> Nothing]
    /\ made = Existing
    /\ seen = [c \in Crs |-> IF c \in Existing THEN {"WorkInProgress"} ELSE {}]
    /\ applied = [c \in Crs |-> 0]
    /\ unsettled = {}
    /\ reopened = {}
    /\ spent = [asks |-> 0, faults |-> 0]

-----------------------------------------------------------------------------

\* A publication sends the whole request as the client was once shown it; of a
\* new request, the client may give the status.
Kinds == {"create", "rename", "edit", "delete", "merge", "publish"}
FirstCall(kind) ==
    CASE kind = "create" -> "insertBranch"
      [] kind \in {"delete", "merge"} -> "read"
      [] kind \in {"rename", "edit", "publish"} -> "authorize"

Jobs ==
    {job \in [kind : Kinds, on : Crs, at : {FirstCall(kind) : kind \in Kinds},
              copy : Statuses \cup {"none"}] :
        /\ job.at = FirstCall(job.kind)
        /\ IF job.kind = "create" THEN job.on \notin made ELSE seen[job.on] # {}
        /\ job.copy \in CASE job.kind = "create" -> Statuses
                          [] job.kind = "publish" -> seen[job.on]
                          [] OTHER -> {"none"}}

At(p, kinds, at) == work[p].kind \in kinds /\ work[p].at = at
On(p) == work[p].on
Upon(c) == {p \in Clients : work[p].on = c}

Move(p, at) == work' = [work EXCEPT ![p].at = at]
MoveWith(p, at, copy) == work' = [work EXCEPT ![p].at = at, ![p].copy = copy]
Leave(p) == work' = [work EXCEPT ![p] = Nothing]
Add(set, c, condition) == IF condition THEN set \cup {c} ELSE set

\* A deletion next to anything, or an edit of the branch next to its merge.
Clash(kinds) == "delete" \in kinds \/ {"edit", "merge"} \subseteq kinds

Ask(p) ==
    /\ work[p] = Nothing
    /\ spent.asks < MaxAsks
    /\ spent' = [spent EXCEPT !.asks = @ + 1]
    /\ \E job \in Jobs :
           LET c == job.on
               kinds == {job.kind} \cup {work[q].kind : q \in Upon(c)} IN
           /\ work' = [work EXCEPT ![p] = job]
           /\ made' = Add(made, c, job.kind = "create")
           /\ unsettled' = Add(unsettled, c, Upon(c) # {} /\ Clash(kinds))
           /\ reopened' =
                  Add(reopened, c, job.kind = "merge" /\ \E q \in Upon(c) : work[q].kind = "merge")
    /\ UNCHANGED <<row, branch, content, counter, lock, seen, applied>>

\* ContributionRequest and its branch are read by primary key; a stub lacks
\* columns that have to be there.
RowIsThere(c) == row[c] \in Statuses
BranchIsThere(c) == branch[c] \in {"Open", "Merged"}

Read(p) ==
    /\ At(p, {"delete", "merge"}, "read")
    /\ RowIsThere(On(p))
    /\ MoveWith(p, IF work[p].kind = "merge" THEN "lock" ELSE "authorize", row[On(p)])
    /\ UNCHANGED <<row, branch, content, counter, lock, made, seen, applied, unsettled, reopened, spent>>

\* is_frozen asks the status in hand: the client's, the row's as it was read,
\* or, of a partial request, none.
Frozen(p) == IF work[p].kind = "edit" THEN branch[On(p)] = "Merged" ELSE work[p].copy = "Merged"
AuthorizedUnread(p) == ~Frozen(p)
Authorized(p) == BranchIsThere(On(p)) /\ ~Frozen(p)

Authorize(p) ==
    /\ work[p].at = "authorize"
    /\ Authorized(p)
    /\ Move(p, CASE work[p].kind = "rename" -> "writeTitle"
                 [] work[p].kind = "publish" -> "publish"
                 [] work[p].kind = "delete" -> "deleteRow"
                 [] OTHER -> "writeData")
    /\ UNCHANGED <<row, branch, content, counter, lock, made, seen, applied, unsettled, reopened, spent>>

\* NotFound, or Forbidden.
Refuse(p) ==
    /\ \/ work[p].at = "read" /\ ~RowIsThere(On(p))
       \/ work[p].at = "authorize" /\ ~Authorized(p)
       \/ work[p].at = "reread" /\ ~BranchIsThere(On(p))
    /\ Leave(p)
    /\ UNCHANGED <<row, branch, content, counter, lock, made, seen, applied, unsettled, reopened, spent>>

Written(c, status) ==
    /\ row' = [row EXCEPT ![c] = status]
    /\ seen' = [seen EXCEPT ![c] = @ \cup {status}]

-----------------------------------------------------------------------------
(* create_contribution_request, update_..._title and publish.              *)

InsertBranch(p) ==
    /\ At(p, {"create"}, "insertBranch")
    /\ branch' = [branch EXCEPT ![On(p)] = "Open"]
    /\ Move(p, "insertNode")
    /\ UNCHANGED <<row, content, counter, lock, made, seen, applied, unsettled, reopened, spent>>

InsertNode(p) ==
    /\ At(p, {"create"}, "insertNode")
    /\ content' = content \cup {On(p)}
    /\ Move(p, "insertRow")
    /\ UNCHANGED <<row, branch, counter, lock, made, seen, applied, unsettled, reopened, spent>>

\* The status is the client's, by default WorkInProgress.
InsertRow(p) ==
    /\ At(p, {"create"}, "insertRow")
    /\ Written(On(p), work[p].copy)
    /\ reopened' = Add(reopened, On(p), work[p].copy = "Merged")
    /\ Move(p, "count")
    /\ UNCHANGED <<branch, content, counter, lock, made, applied, unsettled, spent>>

Count(p) ==
    /\ At(p, {"create", "delete"}, "count")
    /\ counter' = counter + (IF work[p].kind = "create" THEN 1 ELSE -1)
    /\ Leave(p)
    /\ UNCHANGED <<row, branch, content, lock, made, seen, applied, unsettled, reopened, spent>>

\* An UPDATE of some columns inserts the row that it does not find.
WriteTitle(p) ==
    /\ work[p].at = "writeTitle"
    /\ row' = [row EXCEPT ![On(p)] = IF @ = "none" THEN "stub" ELSE @]
    /\ Leave(p)
    /\ UNCHANGED <<branch, content, counter, lock, made, seen, applied, unsettled, reopened, spent>>

\* The whole row.
Publish(p) ==
    /\ work[p].at = "publish"
    /\ Written(On(p), "Published")
    /\ reopened' = Add(reopened, On(p), row[On(p)] \notin {"WorkInProgress", "Published"})
    /\ Leave(p)
    /\ UNCHANGED <<branch, content, counter, lock, made, applied, unsettled, spent>>

-----------------------------------------------------------------------------
(* delete_contribution_request, and edits of the branch.                   *)

DeleteRow(p) ==
    /\ work[p].at = "deleteRow"
    /\ row' = [row EXCEPT ![On(p)] = "none"]
    /\ Move(p, "deleteBranch")
    /\ UNCHANGED <<branch, content, counter, lock, made, seen, applied, unsettled, reopened, spent>>

DeleteBranch(p) ==
    /\ work[p].at = "deleteBranch"
    /\ branch' = [branch EXCEPT ![On(p)] = "none"]
    /\ Move(p, "deleteData")
    /\ UNCHANGED <<row, content, counter, lock, made, seen, applied, unsettled, reopened, spent>>

DeleteData(p) ==
    /\ work[p].at = "deleteData"
    /\ content' = content \ {On(p)}
    /\ Move(p, "count")
    /\ UNCHANGED <<row, branch, counter, lock, made, seen, applied, unsettled, reopened, spent>>

WriteData(p) ==
    /\ work[p].at = "writeData"
    /\ content' = content \cup {On(p)}
    /\ Move(p, "writeList")
    /\ UNCHANGED <<row, branch, counter, lock, made, seen, applied, unsettled, reopened, spent>>

WriteList(p) ==
    /\ work[p].at = "writeList"
    /\ branch' = [branch EXCEPT ![On(p)] = IF @ = "none" THEN "stub" ELSE @]
    /\ Move(p, "reread")
    /\ UNCHANGED <<row, content, counter, lock, made, seen, applied, unsettled, reopened, spent>>

Reread(p) ==
    /\ work[p].at = "reread"
    /\ BranchIsThere(On(p))
    /\ MoveWith(p, "writeBack", branch[On(p)])
    /\ UNCHANGED <<row, branch, content, counter, lock, made, seen, applied, unsettled, reopened, spent>>

\* With what check_conflicts found, the whole row.
WriteBack(p) ==
    /\ work[p].at = "writeBack"
    /\ branch' = [branch EXCEPT ![On(p)] = work[p].copy]
    /\ Leave(p)
    /\ UNCHANGED <<row, content, counter, lock, made, seen, applied, unsettled, reopened, spent>>

-----------------------------------------------------------------------------
(* merge_contribution_request                                              *)

\* EXISTS and SET NX are two calls, and the reply of the second is not looked
\* at: two merges may find the key free and go on.
FindFree(p) ==
    /\ work[p].at = "lock"
    /\ lock = None
    /\ Move(p, "setKey")
    /\ UNCHANGED <<row, branch, content, counter, lock, made, seen, applied, unsettled, reopened, spent>>

SetKey(p) ==
    /\ work[p].at = "setKey"
    /\ lock' = IF lock = None THEN p ELSE lock
    /\ Move(p, "load")
    /\ UNCHANGED <<row, branch, content, counter, made, seen, applied, unsettled, reopened, spent>>

TurnAway(p) ==
    /\ work[p].at = "lock"
    /\ lock # None
    /\ Leave(p)
    /\ UNCHANGED <<row, branch, content, counter, lock, made, seen, applied, unsettled, reopened, spent>>

\* Others hold the key of an action, as create_node does.
ActionLocked(p) ==
    /\ work[p].at = "load"
    /\ Move(p, "unlock")
    /\ UNCHANGED <<row, branch, content, counter, lock, made, seen, applied, unsettled, reopened, spent>>

LoadUnchecked(p) ==
    /\ work[p].at = "load"
    /\ IF BranchIsThere(On(p)) THEN MoveWith(p, "merge", branch[On(p)]) ELSE Move(p, "unlock")
    /\ UNCHANGED <<row, branch, content, counter, lock, made, seen, applied, unsettled, reopened, spent>>

\* The status is the one read before the lock was taken.  From here on the
\* branch in hand is what counts.
Load(p) ==
    /\ work[p].at = "load"
    /\ IF work[p].copy # "Merged" /\ BranchIsThere(On(p))
         THEN MoveWith(p, "merge", branch[On(p)])
         ELSE Move(p, "unlock")
    /\ UNCHANGED <<row, branch, content, counter, lock, made, seen, applied, unsettled, reopened, spent>>

MergeBranch(p) ==
    /\ work[p].at = "merge"
    /\ applied' = [applied EXCEPT ![On(p)] = @ + 1]
    /\ Move(p, "markBranch")
    /\ UNCHANGED <<row, branch, content, counter, lock, made, seen, unsettled, reopened, spent>>

\* The conflicts go to the branch's row, which is written whole as it was
\* loaded, whatever became of it since.
FindConflicts(p) ==
    /\ work[p].at = "merge"
    /\ branch' = [branch EXCEPT ![On(p)] = work[p].copy]
    /\ Move(p, "unlock")
    /\ UNCHANGED <<row, content, counter, lock, made, seen, applied, unsettled, reopened, spent>>

\* An error that the merge has recovered from.
MergeFails(p) ==
    /\ work[p].at = "merge"
    /\ Move(p, "unlock")
    /\ UNCHANGED <<row, branch, content, counter, lock, made, seen, applied, unsettled, reopened, spent>>

\* Both rows are written whole, as they were read.
MarkBranch(p) ==
    /\ work[p].at = "markBranch"
    /\ branch' = [branch EXCEPT ![On(p)] = "Merged"]
    /\ Move(p, "markRow")
    /\ UNCHANGED <<row, content, counter, lock, made, seen, applied, unsettled, reopened, spent>>

MarkRow(p) ==
    /\ work[p].at = "markRow"
    /\ Written(On(p), "Merged")
    /\ Move(p, "unlock")
    /\ UNCHANGED <<branch, content, counter, lock, made, applied, unsettled, reopened, spent>>

\* DEL, whoever has set the key.
Unlock(p) ==
    /\ work[p].at = "unlock"
    /\ lock' = None
    /\ Leave(p)
    /\ UNCHANGED <<row, branch, content, counter, made, seen, applied, unsettled, reopened, spent>>

-----------------------------------------------------------------------------

Holding(p) == work[p].at \in {"load", "merge", "markBranch", "markRow", "unlock"}

\* A call fails or the process dies.  After an error, a merge unlocks; errors
\* of the deletion of data and of the counter are only logged.
Fail(p) ==
    /\ work[p] # Nothing
    /\ spent.faults < MaxFaults
    /\ spent' = [spent EXCEPT !.faults = @ + 1]
    /\ unsettled' = unsettled \cup {On(p)}
    /\ reopened' = Add(reopened, On(p), work[p].at \in {"markBranch", "markRow"})
    /\ \/ Leave(p)
       \/ Holding(p) /\ Move(p, "unlock")
       \/ work[p].at = "deleteData" /\ Move(p, "count")
    /\ UNCHANGED <<row, branch, content, counter, lock, made, seen, applied>>

\* An hour is enough for a merge that is at work.
LockExpires ==
    /\ lock # None
    /\ ~Holding(lock)
    /\ lock' = None
    /\ UNCHANGED <<row, branch, content, counter, work, made, seen, applied, unsettled, reopened, spent>>

Next ==
    \/ \E p \in Clients :
           \/ Ask(p) \/ Read(p) \/ Authorize(p) \/ Refuse(p)
           \/ InsertBranch(p) \/ InsertNode(p) \/ InsertRow(p) \/ Count(p)
           \/ WriteTitle(p) \/ Publish(p)
           \/ DeleteRow(p) \/ DeleteBranch(p) \/ DeleteData(p)
           \/ WriteData(p) \/ WriteList(p) \/ Reread(p) \/ WriteBack(p)
           \/ FindFree(p) \/ SetKey(p) \/ TurnAway(p) \/ ActionLocked(p)
           \/ Load(p) \/ MergeBranch(p) \/ FindConflicts(p) \/ MergeFails(p)
           \/ MarkBranch(p) \/ MarkRow(p) \/ Unlock(p) \/ Fail(p)
    \/ LockExpires

Spec == Init /\ [][Next]_vars

-----------------------------------------------------------------------------

Places ==
    {"insertBranch", "insertNode", "insertRow", "count", "read", "authorize", "writeTitle", "publish",
     "deleteRow", "deleteBranch", "deleteData", "writeData", "writeList", "reread", "writeBack",
     "lock", "setKey", "load", "merge", "markBranch", "markRow", "unlock"}

AtWork == [kind : Kinds, on : Crs, at : Places, copy : Statuses \cup {"none", "Open"}]

TypeOK ==
    /\ row \in [Crs -> Statuses \cup {"none", "stub"}]
    /\ branch \in [Crs -> {"none", "stub", "Open", "Merged"}]
    /\ content \subseteq Crs
    /\ counter \in Int
    /\ lock \in Clients \cup {None}
    /\ work \in [Clients -> AtWork \cup {Nothing}]
    /\ \A p \in Clients :
           /\ work[p].at \in {"merge", "writeBack"} => work[p].copy \in {"Open", "Merged"}
           /\ work[p].at \in {"insertBranch", "insertNode", "insertRow"} => work[p].copy \in Statuses
    /\ made \subseteq Crs
    /\ seen \in [Crs -> SUBSET Statuses]
    /\ applied \in [Crs -> Nat]
    /\ unsettled \subseteq Crs /\ reopened \subseteq Crs
    /\ spent \in [asks : 0 .. MaxAsks, faults : 0 .. MaxFaults]

\* What is merged was not merged before, whatever is edited, renamed or
\* deleted meanwhile, but for two merges at once, a merge that was broken off
\* between its work and its mark, an old page published over the mark, and a
\* request that was made as merged.
MergedOnce == \A c \in Crs \ reopened : applied[c] <= 1

\* At rest, a contribution request has all its parts or none, and, unless it
\* was reopened, it and its branch are marked as merged together.
Agrees(c) ==
    /\ row[c] # "stub" /\ branch[c] # "stub"
    /\ row[c] = "none" <=> branch[c] = "none"
    /\ row[c] = "none" <=> c \notin content
    /\ c \notin reopened => (row[c] = "Merged" <=> branch[c] = "Merged")

Counted == counter = Cardinality({c \in Crs : row[c] # "none"})

Settled ==
    /\ \A c \in Crs \ unsettled : Upon(c) = {} => Agrees(c)
    /\ unsettled = {} /\ (\A p \in Clients : work[p] = Nothing) => Counted

ContributionsInv == TypeOK /\ Settled
=============================================================================
