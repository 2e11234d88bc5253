--------------------------- MODULE ResourceLocker ---------------------------
(***************************************************************************)
(* The Redis locks of resources/resource_locker.rs and the request         *)
(* handlers that use them on one tree: node edits and deletions, reorders  *)
(* (api/node_api.rs) and merges (api/contribution_request_api.rs).         *)
(*                                                                         *)
(* A tree has its original branch, Root, and contribution branches.  For   *)
(* every branch Redis has a key that locks the whole tree and one key per  *)
(* action.  A lock is taken in two calls: EXISTS, then SET NX PX, whose    *)
(* reply is thrown away.  Unlocking is an unconditional DEL.               *)
(***************************************************************************)
EXTENDS Integers

CONSTANTS
    Requests,       \* requests served at the same time
    Branches,       \* the branches of the tree
    Root,           \* the original one
    Kinds,          \* the kinds of request that come
    SlowEdits       \* may an edit outlast the two seconds of its keys?

ASSUME LockerAssumption ==
    /\ Root \in Branches
    /\ Kinds \subseteq {"edit", "delete", "reorder", "merge"}
    /\ SlowEdits \in BOOLEAN

VARIABLES
    ttl,        \* the keys in Redis with the class of their time to live
    kind, branch, pc,   \* of each request
    checked,    \* how many action keys it has found unlocked
    intact,     \* history: requests that set their keys while the tree was still
                \* free, and whose keys have stood since
    leaked      \* history: keys left behind by a failed or crashed request

lockerVars == <<ttl, kind, branch, pc, checked, intact, leaked>>

Keys == {"resource", "reorder", "merge"} \X Branches
Resource(b) == <<"resource", b>>

Edits == {"edit", "delete"}

LockerTypeOK ==
    /\ ttl \in [Keys -> {"none", "short", "long"}]
    /\ kind \in [Requests -> {"edit", "delete", "reorder", "merge"}]
    /\ branch \in [Requests -> Branches]
    /\ pc \in [Requests -> {"idle", "check", "recheck", "set", "validate", "revalidate",
                            "work", "unlock", "abandon", "orphan", "done"}]
    /\ checked \in [Requests -> 0..2]
    /\ intact \subseteq Requests
    /\ leaked \subseteq Keys

LockerInit ==
    /\ ttl = [k \in Keys |-> "none"]
    /\ kind \in [Requests -> Kinds]
    /\ branch \in [Requests -> Branches]
    /\ \A r \in Requests : kind[r] = "merge" => branch[r] # Root
    /\ pc = [r \in Requests |-> "idle"]
    /\ checked = [r \in Requests |-> 0]
    /\ intact = {}
    /\ leaked = {}

-----------------------------------------------------------------------------
(* What each kind of request locks and looks at *)

\* The branch whose tree the request locks: a merge locks the original.
Target(r) == IF kind[r] = "merge" THEN Root ELSE branch[r]

KeysOfOtherAction(r) ==
    IF kind[r] \in Edits
      THEN {<<"title", Target(r)>>, <<"merge", Target(r)>>}
      ELSE {Resource(Target(r))}

KeysOf(r) ==
    IF kind[r] \in Edits
      THEN {<<"reorder", Target(r)>>, <<"merge", Target(r)>>}
      ELSE {Resource(Target(r))}

\* TWO_SECONDS for create, title and import; ONE_HOUR for the rest.
TtlOf(r) == IF kind[r] = "edit" THEN "short" ELSE "long"

\* The action keys that must be unlocked before the work: Reorder(Node) for a
\* reorder, Merge in the original and in the branch for a merge.
ValidationsInBranch(r) ==
    CASE kind[r] = "reorder" -> << <<"reorder", branch[r]>> >>
      [] kind[r] = "merge" -> << <<"merge", branch[r]>>, <<"merge", branch[r]>> >>
      [] OTHER -> << >>

Validations(r) ==
    CASE kind[r] = "reorder" -> << <<"reorder", branch[r]>> >>
      [] kind[r] = "merge" -> << <<"merge", Root>>, <<"merge", branch[r]>> >>
      [] OTHER -> << >>

StepTo(r, to) == pc' = [pc EXCEPT ![r] = to]

-----------------------------------------------------------------------------
(* Redis *)

\* SET NX PX: a key that exists keeps its value and its time to live, and the
\* caller, who ignores the reply, goes on as if it had set it.
SetKeys(r) ==
    /\ ttl' = [k \in Keys |->
                 IF k \in KeysOf(r) /\ ttl[k] = "none" THEN TtlOf(r) ELSE ttl[k]]
    /\ leaked' = leaked \ {k \in KeysOf(r) : ttl[k] = "none"}

\* DEL, or the end of the time to live, whoever set the key.
DropKeys(S) ==
    /\ ttl' = [k \in Keys |-> IF k \in S THEN "none" ELSE ttl[k]]
    /\ intact' = {q \in intact : KeysOf(q) \cap S = {}}
    /\ leaked' = leaked \ S

Busy(r) == pc[r] \notin {"idle", "orphan", "done"}

\* An hour is taken to be longer than any request that is still served; two
\* seconds are not when SlowEdits.
Expire(k) ==
    /\ ttl[k] # "none"
    /\ ~(ttl[k] = "short" /\ SlowEdits) =>
         \A r \in Requests : Busy(r) => k \notin KeysOf(r)
    /\ DropKeys({k})
    /\ UNCHANGED <<kind, branch, pc, checked>>

-----------------------------------------------------------------------------
(* Taking the locks *)

Arrive(r) ==
    /\ pc[r] = "idle"
    /\ StepTo(r, "check")
    /\ UNCHANGED <<ttl, kind, branch, checked, intact, leaked>>

\* After SET: an edit starts its work, the others look at the action keys.
AfterSet(r) == IF kind[r] \in Edits THEN "work" ELSE "validate"

\* validate_resource_unlocked of lock_resource and lock_resource_actions finds
\* the key of the whole tree free.
FindFree(r) ==
    /\ pc[r] \in {"check", "recheck"}
    /\ ttl[Resource(Target(r))] = "none"
    /\ StepTo(r, "set")
    /\ UNCHANGED <<ttl, kind, branch, checked, intact, leaked>>

\* It sleeps for a second and looks again; then the request is refused.
FindLocked(r) ==
    /\ pc[r] \in {"check", "recheck"}
    /\ ttl[Resource(Target(r))] # "none"
    /\ StepTo(r, IF pc[r] = "check" THEN "recheck" ELSE "done")
    /\ UNCHANGED <<ttl, kind, branch, checked, intact, leaked>>

Set(r) ==
    /\ pc[r] = "set"
    /\ SetKeys(r)
    /\ intact' = IF ttl[Resource(Target(r))] = "none" THEN intact \cup {r} ELSE intact
    /\ StepTo(r, AfterSet(r))
    /\ UNCHANGED <<kind, branch, checked>>

\* wait_for_write_replication fails: the caller is told that it has no lock,
\* and the keys stay until they expire.
SetUnreplicated(r) ==
    /\ pc[r] = "set"
    /\ ttl' = [k \in Keys |->
                 IF k \in KeysOf(r) /\ ttl[k] = "none" THEN TtlOf(r) ELSE ttl[k]]
    /\ leaked' = leaked \cup KeysOf(r)
    /\ StepTo(r, "done")
    /\ UNCHANGED <<kind, branch, checked, intact>>

NextValidation(r) == Validations(r)[checked[r] + 1]

\* validate_resource_action_unlocked, once per key.
ActionFree(r) ==
    /\ pc[r] \in {"validate", "revalidate"}
    /\ ttl[NextValidation(r)] = "none"
    /\ checked' = [checked EXCEPT ![r] = @ + 1]
    /\ StepTo(r, IF (kind[r] = "merge" /\ checked[r] = 0) THEN "validate" ELSE "work")
    /\ UNCHANGED <<ttl, kind, branch, intact, leaked>>

\* Locked twice: the handler unlocks the tree and returns the error.
ActionLockedKeeps(r) ==
    /\ pc[r] \in {"validate", "revalidate"}
    /\ ttl[NextValidation(r)] # "none"
    /\ StepTo(r, IF pc[r] = "validate" THEN "revalidate" ELSE "done")
    /\ UNCHANGED <<ttl, kind, branch, checked, intact, leaked>>

ActionLocked(r) ==
    /\ pc[r] \in {"validate", "revalidate"}
    /\ ttl[NextValidation(r)] # "none"
    /\ StepTo(r, IF pc[r] = "validate" THEN "revalidate" ELSE "unlock")
    /\ UNCHANGED <<ttl, kind, branch, checked, intact, leaked>>

-----------------------------------------------------------------------------
(* The end of a request *)

EndWork(r) ==
    /\ pc[r] = "work"
    /\ StepTo(r, "unlock")
    /\ UNCHANGED <<ttl, kind, branch, checked, intact, leaked>>

UnlockKeys(r) ==
    /\ pc[r] = "unlock"
    /\ DropKeys(KeysOf(r))
    /\ StepTo(r, "done")
    /\ UNCHANGED <<kind, branch, checked>>

\* The work fails with a database error.  Edits unlock all the same;
\* delete_node and reorder_nodes return with their keys in place, the latter
\* with or without a recovery log; a merge that cannot be undone unlocks and
\* leaves its log.
AfterFailure(k) ==
    CASE k = "edit" -> {"unlock"}
      [] k = "delete" -> {"done"}
      [] k = "reorder" -> {"done", "orphan"}
      [] k = "merge" -> {"abandon"}

WorkFails(r) ==
    /\ pc[r] = "work"
    /\ \E to \in AfterFailure(kind[r]) : StepTo(r, to)
    /\ leaked' = IF kind[r] \in {"delete", "reorder"} THEN leaked \cup KeysOf(r) ELSE leaked
    /\ UNCHANGED <<ttl, kind, branch, checked, intact>>

UnlockAbandoned(r) ==
    /\ pc[r] = "abandon"
    /\ DropKeys(KeysOf(r))
    /\ StepTo(r, "orphan")
    /\ UNCHANGED <<kind, branch, checked>>

\* The server dies while it serves the request; a reorder or a merge that was
\* under way has a recovery log.
Die(r) ==
    /\ Busy(r)
    /\ StepTo(r, IF pc[r] = "work" /\ kind[r] \notin Edits THEN "orphan" ELSE "done")
    /\ leaked' = leaked \cup KeysOf(r)
    /\ UNCHANGED <<ttl, kind, branch, checked, intact>>

\* recover_from_log of a reorder or merge: unlock_resource and
\* unlock_resource_action(Merge), three minutes or more after the failure.
Recover(r) ==
    /\ pc[r] = "orphan"
    /\ DropKeys({Resource(Target(r)), <<"merge", Target(r)>>})
    /\ StepTo(r, "done")
    /\ UNCHANGED <<kind, branch, checked>>

-----------------------------------------------------------------------------
Serve(r) ==
    \/ FindFree(r) \/ FindLocked(r) \/ Set(r)
    \/ ActionFree(r) \/ ActionLocked(r)
    \/ EndWork(r) \/ UnlockKeys(r) \/ UnlockAbandoned(r) \/ Recover(r)

LockerNext ==
    \/ \E r \in Requests :
         Arrive(r) \/ Serve(r) \/ SetUnreplicated(r) \/ WorkFails(r) \/ Die(r)
    \/ \E k \in Keys : Expire(k)

LockerSpec == LockerInit /\ [][LockerNext]_lockerVars

-----------------------------------------------------------------------------
(* Properties *)

Working(r) == pc[r] = "work"
Whole(r) == kind[r] \notin Edits

\* A reorder or a merge has the tree it locks to itself: nothing else works on
\* it, unless one of the two set its keys after the tree had been locked under
\* it, or lost one while it worked to its TTL, to another edit's unlock or to
\* the recovery of an earlier request.  (lock_resource, lock_resource_actions
\* and the handlers' validations.)
Exclusion ==
    \A r, q \in Requests :
        r # q /\ Whole(r) /\ Target(r) = Target(q) /\ Working(r) /\ Working(q)
            => ~({r, q} \subseteq intact)

\* No error path forgets a key: one that stands, and that no failed or crashed
\* request left behind, belongs to a request that will still delete it.
NoLeak ==
    \A k \in Keys :
        ttl[k] # "none" /\ k \notin leaked =>
            \E r \in Requests : k \in KeysOf(r) /\ Busy(r) /\ pc[r] \notin {"check", "recheck", "set"}

\* reorder_nodes: "first lock the complete resource to avoid all kinds of race
\* conditions" -- two reorders never work on one branch.
ReorderAlone ==
    \A r, q \in Requests :
        r # q /\ kind[r] = "reorder" /\ kind[q] = "reorder" /\ branch[r] = branch[q]
            => ~(Working(r) /\ Working(q))

\* The inductive invariant.
Holding(r) == pc[r] \in {"validate", "revalidate", "work"}

\* A request whose keys have stood since it set them finds them there.
KeysStand ==
    \A r \in Requests : Holding(r) /\ r \in intact => \A k \in KeysOf(r) : ttl[k] # "none"

\* Lock and validation are made in this order, and none is left out.
Order ==
    \A r \in Requests :
        /\ kind[r] = "merge" => branch[r] # Root
        /\ pc[r] \in {"idle", "check", "recheck", "set"} => checked[r] = 0 /\ r \notin intact
        /\ pc[r] \in {"validate", "revalidate"} =>
             Whole(r) /\ (kind[r] = "reorder" => checked[r] = 0) /\ checked[r] <= 1
        /\ Working(r) /\ Whole(r) => checked[r] >= 1

\* Only one of two requests that lock the same tree still has its key; and one
\* that found an edit's key free has not overlooked an edit that stands.
OneHolder ==
    \A r, q \in Requests :
        r # q /\ Whole(r) /\ Target(r) = Target(q) /\ Holding(r) /\ Holding(q)
          /\ (Whole(q) \/ checked[r] >= 1)
            => ~({r, q} \subseteq intact)

\* The invariant as a whole (lock_resource, lock_resource_actions).
LockerInv == LockerTypeOK /\ KeysStand /\ Order /\ OneHolder
=============================================================================
