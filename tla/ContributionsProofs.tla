-------------------------- MODULE ContributionsProofs --------------------------
(***************************************************************************)
(* Proofs about Contributions: for any number of contribution requests, of *)
(* clients and of faults, and whatever runs at once.                       *)
(***************************************************************************)
EXTENDS Contributions, FiniteSetTheorems, TLAPS

USE DEF Statuses, MoveWith

\* What comes between a merge's reading and its work.
Locking(p) == FindFree(p) \/ SetKey(p) \/ TurnAway(p) \/ ActionLocked(p)

-----------------------------------------------------------------------------
\* A request to be asked for is a job of its kind at its first call.
LEMMA JobsType ==
    ASSUME NEW job \in Jobs
    PROVE  /\ job \in AtWork
           /\ job.at = FirstCall(job.kind)
           /\ IF job.kind = "create" THEN job.on \notin made ELSE seen[job.on] # {}
           /\ job.kind = "create" => job.copy \in Statuses
  BY DEF Jobs, FirstCall, AtWork, Kinds, Places

\* Every step keeps the types.
LEMMA TypeStep == TypeOK /\ [Next]_vars => TypeOK'
<1> SUFFICES ASSUME TypeOK, [Next]_vars PROVE TypeOK'
  OBVIOUS
<1> USE DEF TypeOK, AtWork, At, Move, Leave, Add, Places, On, Nothing, Job
<1>1. ASSUME NEW p \in Clients, Ask(p) PROVE TypeOK'
  <2>1. PICK job \in Jobs :
            /\ work' = [work EXCEPT ![p] = job]
            /\ made' = Add(made, job.on, job.kind = "create")
            /\ unsettled' \in {unsettled, unsettled \cup {job.on}}
            /\ reopened' \in {reopened, reopened \cup {job.on}}
    BY <1>1 DEF Ask
  <2>2. /\ job \in AtWork /\ job.at \notin {"merge", "writeBack"}
        /\ job.at \in {"insertBranch", "insertNode", "insertRow"} => job.copy \in Statuses
    BY JobsType DEF FirstCall, Kinds
  <2>3. spent' \in [asks : 0 .. MaxAsks, faults : 0 .. MaxFaults]
    <3>1. spent.asks < MaxAsks /\ spent' = [spent EXCEPT !.asks = @ + 1]
      BY <1>1 DEF Ask
    <3>2. spent \in [asks : 0 .. MaxAsks, faults : 0 .. MaxFaults] /\ MaxAsks \in Nat
      BY ContributionsAssumption
    <3>3. QED
      BY <3>1, <3>2
  <2>4. made' \subseteq Crs /\ unsettled' \subseteq Crs /\ reopened' \subseteq Crs
    BY <2>1, JobsType
  <2>5. QED
    BY <1>1, <2>1, <2>2, <2>3, <2>4 DEF Ask
<1>2. ASSUME NEW p \in Clients, Read(p) \/ Reread(p) PROVE TypeOK'
  BY <1>2 DEF Read, Reread, RowIsThere, BranchIsThere
<1>3. ASSUME NEW p \in Clients, Authorize(p) \/ Refuse(p) PROVE TypeOK'
  <2>1. CASE Authorize(p)
    BY <2>1 DEF Authorize
  <2>2. CASE Refuse(p)
    BY <2>2 DEF Refuse
  <2>3. QED
    BY <1>3, <2>1, <2>2
<1>4. ASSUME NEW p \in Clients, InsertBranch(p) \/ InsertNode(p) \/ InsertRow(p) PROVE TypeOK'
  BY <1>4, SMTT(30) DEF InsertBranch, InsertNode, InsertRow, Written
<1>5. ASSUME NEW p \in Clients, Count(p) \/ WriteTitle(p) \/ Publish(p) PROVE TypeOK'
  BY <1>5, SMTT(30) DEF Count, WriteTitle, Publish, Written
<1>6. ASSUME NEW p \in Clients, DeleteRow(p) \/ DeleteBranch(p) \/ DeleteData(p) PROVE TypeOK'
  BY <1>6 DEF DeleteRow, DeleteBranch, DeleteData
<1>7. ASSUME NEW p \in Clients, WriteData(p) \/ WriteList(p) PROVE TypeOK'
  BY <1>7 DEF WriteData, WriteList
<1>8. ASSUME NEW p \in Clients, WriteBack(p) PROVE TypeOK'
  BY <1>8 DEF WriteBack
<1>9. ASSUME NEW p \in Clients, Locking(p) \/ Load(p) \/ Unlock(p) PROVE TypeOK'
  <2>1. CASE Locking(p)
    BY <2>1 DEF Locking, FindFree, SetKey, TurnAway, ActionLocked
  <2>2. CASE Load(p)
    BY <2>2 DEF Load, BranchIsThere
  <2>3. CASE Unlock(p)
    BY <2>3 DEF Unlock
  <2>4. QED
    BY <1>9, <2>1, <2>2, <2>3
<1>10. ASSUME NEW p \in Clients,
              \/ MergeBranch(p) \/ FindConflicts(p) \/ MergeFails(p)
              \/ MarkBranch(p) \/ MarkRow(p)
       PROVE TypeOK'
  BY <1>10 DEF MergeBranch, FindConflicts, MergeFails, MarkBranch, MarkRow, Written
<1>11. ASSUME NEW p \in Clients, Fail(p) PROVE TypeOK'
  <2>1. spent' \in [asks : 0 .. MaxAsks, faults : 0 .. MaxFaults]
    <3>1. spent.faults < MaxFaults /\ spent' = [spent EXCEPT !.faults = @ + 1]
      BY <1>11 DEF Fail
    <3>2. spent \in [asks : 0 .. MaxAsks, faults : 0 .. MaxFaults] /\ MaxFaults \in Nat
      BY ContributionsAssumption
    <3>3. QED
      BY <3>1, <3>2
  <2>2. work' \in [Clients -> AtWork \cup {Nothing}]
    BY <1>11 DEF Fail
  <2>3. work[p].on \in Crs
    BY <1>11 DEF Fail
  <2>4. QED
    BY <1>11, <2>1, <2>2, <2>3 DEF Fail
<1>12. CASE LockExpires
  BY <1>12 DEF LockExpires
<1>13. CASE UNCHANGED vars
  BY <1>13 DEF vars
<1>14. QED
  BY <1>1, <1>2, <1>3, <1>4, <1>5, <1>6, <1>7, <1>8, <1>9, <1>10, <1>11, <1>12, <1>13 DEF Next, Locking

-----------------------------------------------------------------------------
(* The inductive invariant.                                                *)

CallsOf(kind) ==
    CASE kind = "create" -> {"insertBranch", "insertNode", "insertRow", "count"}
      [] kind = "rename" -> {"authorize", "writeTitle"}
      [] kind = "publish" -> {"authorize", "publish"}
      [] kind = "edit" -> {"authorize", "writeData", "writeList", "reread", "writeBack"}
      [] kind = "delete" -> {"read", "authorize", "deleteRow", "deleteBranch", "deleteData", "count"}
      [] OTHER -> {"read", "lock", "setKey", "load", "merge", "markBranch", "markRow", "unlock"}

InPlace == \A p \in Clients : work[p] # Nothing => work[p].at \in CallsOf(work[p].kind)

\* What the history says of two requests for the same contribution request.
Apart ==
    \A p, q \in Clients :
        p # q /\ work[p] # Nothing /\ work[q].on = work[p].on =>
            /\ work[p].kind = "create" => work[q].kind # "create"
            /\ work[p].kind = "merge" /\ work[q].kind = "merge" => work[p].on \in reopened
            /\ work[p].on \notin unsettled =>
                   work[p].kind # "delete" /\ ~(work[p].kind = "edit" /\ work[q].kind = "merge")

\* An id is used by its creation alone until the row is there to be seen.
Fresh ==
    /\ \A p \in Clients : work[p] # Nothing =>
           /\ work[p].on \in made
           /\ work[p].kind # "create" => seen[work[p].on] # {}
           /\ work[p].at \in {"insertBranch", "insertNode", "insertRow"} => seen[work[p].on] = {}
    /\ \A c \in Crs :
           /\ seen[c] = {} => applied[c] = 0 /\ row[c] = "none"
           /\ c \notin made => seen[c] = {} /\ branch[c] = "none" /\ c \notin content

\* A merge that goes on has found its branch not merged, and leaves a mark.
MergingOf(c) ==
    c \notin reopened =>
        /\ applied[c] \in {0, 1}
        /\ \A p \in Clients : work[p].on = c =>
               /\ work[p].at \in {"markBranch", "markRow"} => applied[c] = 1
               /\ work[p].at \in {"lock", "setKey", "load"} /\ work[p].copy # "Merged" => applied[c] = 0
               /\ work[p].at = "merge" => applied[c] = 0
        /\ applied[c] = 1 =>
               \/ row[c] \in {"Merged", "none", "stub"}
               \/ \E p \in Clients : work[p].on = c /\ work[p].at \in {"markBranch", "markRow"}

MergeInv ==
    TypeOK /\ InPlace /\ Apart /\ Fresh /\ \A c \in Crs : MergingOf(c)

\* What a client does for the request it is at.
Serve(p) ==
    \/ Read(p) \/ Authorize(p) \/ Refuse(p)
    \/ InsertBranch(p) \/ InsertNode(p) \/ InsertRow(p) \/ Count(p)
    \/ WriteTitle(p) \/ Publish(p)
    \/ DeleteRow(p) \/ DeleteBranch(p) \/ DeleteData(p)
    \/ WriteData(p) \/ WriteList(p) \/ Reread(p) \/ WriteBack(p)
    \/ Locking(p) \/ Load(p) \/ MergeBranch(p) \/ FindConflicts(p) \/ MergeFails(p)
    \/ MarkBranch(p) \/ MarkRow(p) \/ Unlock(p) \/ Fail(p)

\* It leaves the other clients alone, stays with its request or is done with
\* it, and forgets nothing of what happened.
LEMMA ServeWork ==
    ASSUME TypeOK, InPlace, NEW p \in Clients, Serve(p)
    PROVE  /\ work[p] # Nothing /\ work[p] \in AtWork
           /\ \A q \in Clients \ {p} : work'[q] = work[q]
           /\ \/ work'[p] = Nothing
              \/ /\ work'[p] \in AtWork
                 /\ work'[p].kind = work[p].kind /\ work'[p].on = work[p].on
                 /\ work'[p].at \in CallsOf(work[p].kind)
           /\ unsettled \subseteq unsettled' /\ reopened \subseteq reopened'
           /\ made' = made
<1> USE DEF At, Move, Leave, Add, On
<1> DEFINE Goal == /\ work[p] # Nothing
                   /\ \A q \in Clients \ {p} : work'[q] = work[q]
                   /\ \/ work'[p] = Nothing
                      \/ /\ work'[p].kind = work[p].kind /\ work'[p].on = work[p].on
                         /\ work'[p].at \in CallsOf(work[p].kind)
                   /\ unsettled \subseteq unsettled' /\ reopened \subseteq reopened'
                   /\ made' = made
<1>0. /\ work \in [Clients -> AtWork \cup {Nothing}]
      /\ Nothing.at = "end" /\ Nothing.kind = "none"
      /\ work[p] # Nothing => work[p].at \in CallsOf(work[p].kind) /\ work[p].kind \in Kinds
  BY DEF TypeOK, Nothing, Job, InPlace, AtWork
<1>a. \A at : Move(p, at) => /\ \A q \in Clients \ {p} : work'[q] = work[q]
                             /\ work'[p].kind = work[p].kind /\ work'[p].on = work[p].on
                             /\ work'[p].at = at
  <2> TAKE at
  <2>1. work[p] \in AtWork \/ work[p] = Nothing
    BY <1>0
  <2>2. QED
    BY <1>0, <2>1 DEF AtWork, Nothing, Job
<1>b. Leave(p) => (\A q \in Clients \ {p} : work'[q] = work[q]) /\ work'[p] = Nothing
  BY <1>0
<1>c. \A at : Move(p, at) /\ at \in CallsOf(work[p].kind) /\ work[p] # Nothing /\ made' = made
              /\ unsettled \subseteq unsettled' /\ reopened \subseteq reopened' => Goal
  BY <1>a
<1>d. Leave(p) /\ work[p] # Nothing /\ made' = made
      /\ unsettled \subseteq unsettled' /\ reopened \subseteq reopened' => Goal
  BY <1>b
<1>e. \A at, copy : MoveWith(p, at, copy) /\ at \in CallsOf(work[p].kind) /\ work[p] # Nothing
              /\ made' = made /\ unsettled \subseteq unsettled' /\ reopened \subseteq reopened' => Goal
  <2> TAKE at, copy
  <2>1. HAVE MoveWith(p, at, copy) /\ at \in CallsOf(work[p].kind) /\ work[p] # Nothing
              /\ made' = made /\ unsettled \subseteq unsettled' /\ reopened \subseteq reopened'
  <2>2. work[p] \in AtWork
    BY <1>0, <2>1
  <2>3. /\ \A q \in Clients \ {p} : work'[q] = work[q]
        /\ work'[p].kind = work[p].kind /\ work'[p].on = work[p].on /\ work'[p].at = at
    BY <1>0, <2>1, <2>2 DEF AtWork
  <2>4. QED
    BY <2>1, <2>3
<1> HIDE DEF Goal, Move, MoveWith, Leave
<1> USE <1>0, <1>c, <1>d, <1>e DEF CallsOf, Kinds
<1>1. ASSUME Read(p) \/ Reread(p) PROVE Goal
  BY <1>1 DEF Read, Reread
<1>2. ASSUME Authorize(p) PROVE Goal
  BY <1>2 DEF Authorize
<1>3. ASSUME Refuse(p) PROVE Goal
  BY <1>3 DEF Refuse
<1>4. ASSUME InsertBranch(p) \/ InsertNode(p) \/ InsertRow(p) PROVE Goal
  BY <1>4 DEF InsertBranch, InsertNode, InsertRow
<1>5. ASSUME Count(p) \/ WriteTitle(p) \/ Publish(p) \/ WriteBack(p) PROVE Goal
  BY <1>5 DEF Count, WriteTitle, Publish, WriteBack
<1>6. ASSUME DeleteRow(p) \/ DeleteBranch(p) \/ DeleteData(p) PROVE Goal
  BY <1>6 DEF DeleteRow, DeleteBranch, DeleteData
<1>7. ASSUME WriteData(p) \/ WriteList(p) PROVE Goal
  BY <1>7 DEF WriteData, WriteList
<1>8. ASSUME Locking(p) \/ Load(p) \/ Unlock(p) PROVE Goal
  BY <1>8 DEF Locking, FindFree, SetKey, TurnAway, ActionLocked, Load, Unlock
<1>9. ASSUME \/ MergeBranch(p) \/ FindConflicts(p) \/ MergeFails(p)
             \/ MarkBranch(p) \/ MarkRow(p)
      PROVE  Goal
  BY <1>9 DEF MergeBranch, FindConflicts, MergeFails, MarkBranch, MarkRow
<1>10. ASSUME Fail(p) PROVE Goal
  BY <1>10 DEF Fail, Holding
<1>11. Goal
  BY <1>1, <1>2, <1>3, <1>4, <1>5, <1>6, <1>7, <1>8, <1>9, <1>10 DEF Serve
<1>12. TypeOK'
  BY TypeStep DEF Next, Serve, Locking
<1>13. work' \in [Clients -> AtWork \cup {Nothing}]
  BY <1>12 DEF TypeOK
<1>14. QED
  BY <1>11, <1>13 DEF Goal

\* It has no effect on the other contribution requests, and what was seen stays
\* seen.
LEMMA Elsewhere ==
    ASSUME TypeOK, NEW p \in Clients, Serve(p), NEW c \in Crs
    PROVE  /\ seen[c] \subseteq seen'[c]
           /\ c # On(p) =>
                  /\ row'[c] = row[c] /\ branch'[c] = branch[c] /\ (c \in content' <=> c \in content)
                  /\ seen'[c] = seen[c] /\ applied'[c] = applied[c]
                  /\ (c \in unsettled' <=> c \in unsettled) /\ (c \in reopened' <=> c \in reopened)
<1> DEFINE Goal == /\ seen[c] \subseteq seen'[c]
                   /\ c # On(p) =>
                          /\ row'[c] = row[c] /\ branch'[c] = branch[c]
                          /\ (c \in content' <=> c \in content)
                          /\ seen'[c] = seen[c] /\ applied'[c] = applied[c]
                          /\ (c \in unsettled' <=> c \in unsettled)
                          /\ (c \in reopened' <=> c \in reopened)
<1> USE DEF Add
<1>0. /\ row \in [Crs -> Statuses \cup {"none", "stub"}] /\ seen \in [Crs -> SUBSET Statuses]
      /\ branch \in [Crs -> {"none", "stub", "Open", "Merged"}]
      /\ applied \in [Crs -> Nat]
  BY DEF TypeOK
<1>1. ASSUME Read(p) \/ Reread(p) \/ Authorize(p) \/ Refuse(p) \/ Count(p) PROVE Goal
  BY <1>1 DEF Read, Reread, Authorize, Refuse, Count
<1>2. ASSUME InsertBranch(p) \/ InsertNode(p) \/ InsertRow(p) PROVE Goal
  BY <1>0, <1>2 DEF InsertBranch, InsertNode, InsertRow, Written
<1>3. ASSUME WriteTitle(p) \/ Publish(p) \/ WriteBack(p) PROVE Goal
  BY <1>0, <1>3 DEF WriteTitle, Publish, WriteBack, Written
<1>4. ASSUME DeleteRow(p) \/ DeleteBranch(p) \/ DeleteData(p) PROVE Goal
  BY <1>0, <1>4 DEF DeleteRow, DeleteBranch, DeleteData
<1>5. ASSUME WriteData(p) \/ WriteList(p) PROVE Goal
  BY <1>0, <1>5 DEF WriteData, WriteList
<1>6. ASSUME Locking(p) \/ Load(p) \/ Unlock(p) PROVE Goal
  BY <1>6 DEF Locking, FindFree, SetKey, TurnAway, ActionLocked, Load, Unlock
<1>7. ASSUME \/ MergeBranch(p) \/ FindConflicts(p) \/ MergeFails(p)
             \/ MarkBranch(p) \/ MarkRow(p)
      PROVE  Goal
  BY <1>0, <1>7 DEF MergeBranch, FindConflicts, MergeFails, MarkBranch, MarkRow, Written
<1>8. ASSUME Fail(p) PROVE Goal
  BY <1>8 DEF Fail
<1>9. QED
  BY <1>1, <1>2, <1>3, <1>4, <1>5, <1>6, <1>7, <1>8 DEF Serve

\* A new request is a job, and what clashes with it is marked.
LEMMA AskWork ==
    ASSUME TypeOK, NEW p \in Clients, Ask(p)
    PROVE  \E job \in Jobs :
               /\ work[p] = Nothing /\ work' = [work EXCEPT ![p] = job]
               /\ made' = Add(made, job.on, job.kind = "create")
               /\ \A q \in Clients : work[q].on = job.on =>
                      /\ job.kind = "merge" /\ work[q].kind = "merge" => job.on \in reopened'
                      /\ Clash({job.kind, work[q].kind}) => job.on \in unsettled'
               /\ unsettled \subseteq unsettled' /\ unsettled' \subseteq unsettled \cup {job.on}
               /\ reopened \subseteq reopened' /\ reopened' \subseteq reopened \cup {job.on}
<1>1. PICK job \in Jobs :
          /\ work' = [work EXCEPT ![p] = job]
          /\ made' = Add(made, job.on, job.kind = "create")
          /\ unsettled' = Add(unsettled, job.on,
                              Upon(job.on) # {} /\
                                  Clash({job.kind} \cup {work[q].kind : q \in Upon(job.on)}))
          /\ reopened' = Add(reopened, job.on,
                             job.kind = "merge" /\ \E q \in Upon(job.on) : work[q].kind = "merge")
  BY DEF Ask
<1>2. ASSUME NEW q \in Clients, work[q].on = job.on
      PROVE  /\ job.kind = "merge" /\ work[q].kind = "merge" => job.on \in reopened'
             /\ Clash({job.kind, work[q].kind}) => job.on \in unsettled'
  BY <1>1, <1>2 DEF Upon, Clash, Add
<1>3. work[p] = Nothing
  BY DEF Ask
<1>4. QED
  BY <1>1, <1>2, <1>3 DEF Add

-----------------------------------------------------------------------------
\* A client without work is at no request.
LEMMA NothingIs == /\ Nothing.on = None /\ Nothing.at = "end" /\ Nothing.kind = "none"
                   /\ None \notin Crs
  BY ContributionsAssumption DEF Nothing, Job

\* A handler goes through the calls of its kind.
LEMMA InPlaceStep == TypeOK /\ InPlace /\ [Next]_vars => InPlace'
<1> SUFFICES ASSUME TypeOK, InPlace, [Next]_vars PROVE InPlace'
  OBVIOUS
<1>0. work \in [Clients -> AtWork \cup {Nothing}]
  BY DEF TypeOK
<1>1. ASSUME NEW p \in Clients, Serve(p) PROVE InPlace'
  BY <1>1, ServeWork DEF InPlace
<1>2. ASSUME NEW p \in Clients, Ask(p) PROVE InPlace'
  <2>1. PICK job \in Jobs : work' = [work EXCEPT ![p] = job]
    BY <1>2, AskWork
  <2>2. job.at \in CallsOf(job.kind)
    BY JobsType DEF FirstCall, CallsOf, AtWork, Kinds
  <2>3. QED
    BY <1>0, <2>1, <2>2 DEF InPlace
<1>3. CASE UNCHANGED work
  BY <1>3 DEF InPlace
<1>4. QED
  BY <1>1, <1>2, <1>3 DEF Next, Serve, Locking, LockExpires, vars

\* Two handlers at work on one request are noted in the history.
LEMMA ApartStep == TypeOK /\ InPlace /\ Apart /\ Fresh /\ [Next]_vars => Apart'
<1> SUFFICES ASSUME TypeOK, InPlace, Apart, Fresh, [Next]_vars PROVE Apart'
  OBVIOUS
<1>0. /\ work \in [Clients -> AtWork \cup {Nothing}]
      /\ \A p \in Clients : work[p] # Nothing => work[p].on \in Crs
  BY DEF TypeOK, AtWork
<1>1. ASSUME NEW p \in Clients, Serve(p) PROVE Apart'
  <2>1. ASSUME NEW q \in Clients
        PROVE  \/ work'[q] = Nothing
               \/ /\ work[q] # Nothing /\ work[q] \in AtWork
                  /\ work'[q].kind = work[q].kind /\ work'[q].on = work[q].on
    BY <1>0, <1>1, ServeWork
  <2>2. unsettled \subseteq unsettled' /\ reopened \subseteq reopened'
    BY <1>1, ServeWork
  <2>3. QED
    BY <1>0, <2>1, <2>2, NothingIs DEF Apart
<1>2. ASSUME NEW p \in Clients, Ask(p) PROVE Apart'
  <2>1. PICK job \in Jobs :
            /\ work[p] = Nothing /\ work' = [work EXCEPT ![p] = job]
            /\ \A q \in Clients : work[q].on = job.on =>
                   /\ job.kind = "merge" /\ work[q].kind = "merge" => job.on \in reopened'
                   /\ Clash({job.kind, work[q].kind}) => job.on \in unsettled'
            /\ unsettled \subseteq unsettled' /\ reopened \subseteq reopened'
    BY <1>2, AskWork
  <2>2. /\ job.on \in Crs
        /\ \A q \in Clients : work[q].on = job.on => job.kind # "create" /\ work[q] # Nothing
    <3>1. job.on \in Crs /\ (job.kind = "create" => job.on \notin made)
      BY JobsType DEF AtWork
    <3>2. QED
      BY <3>1, NothingIs DEF Fresh
  <2>3. SUFFICES ASSUME NEW x \in Clients, NEW y \in Clients, x # y, work'[x] # Nothing,
                        work'[y].on = work'[x].on
                 PROVE  /\ work'[x].kind = "create" => work'[y].kind # "create"
                        /\ work'[x].kind = "merge" /\ work'[y].kind = "merge" =>
                               work'[x].on \in reopened'
                        /\ work'[x].on \notin unsettled' =>
                               work'[x].kind # "delete" /\
                                   ~(work'[x].kind = "edit" /\ work'[y].kind = "merge")
    BY DEF Apart
  <2>4. CASE x # p /\ y # p
    BY <1>0, <2>1, <2>3, <2>4 DEF Apart
  <2>5. CASE x = p
    BY <1>0, <2>1, <2>2, <2>3, <2>5 DEF Clash
  <2>6. CASE y = p
    BY <1>0, <2>1, <2>2, <2>3, <2>6 DEF Clash
  <2>7. QED
    BY <2>4, <2>5, <2>6
<1>3. CASE UNCHANGED <<work, unsettled, reopened>>
  BY <1>3 DEF Apart
<1>4. QED
  BY <1>1, <1>2, <1>3 DEF Next, Serve, Locking, LockExpires, vars

\* A new id is its creation's until the row is there.
LEMMA FreshStep == TypeOK /\ InPlace /\ Apart /\ Fresh /\ [Next]_vars => Fresh'
<1> SUFFICES ASSUME TypeOK, InPlace, Apart, Fresh, [Next]_vars PROVE Fresh'
  OBVIOUS
<1>0. /\ work \in [Clients -> AtWork \cup {Nothing}]
      /\ \A p \in Clients : work[p] # Nothing => work[p].on \in Crs /\ work[p].kind \in Kinds
      /\ seen \in [Crs -> SUBSET Statuses]
  BY DEF TypeOK, AtWork
<1> DEFINE Begins == {"insertBranch", "insertNode", "insertRow"}
<1>1. ASSUME NEW p \in Clients, Serve(p) PROVE Fresh'
  <2>1. /\ made' = made /\ work[p] # Nothing /\ On(p) \in made /\ On(p) \in Crs
        /\ \A q \in Clients : work'[q] # Nothing =>
               /\ work[q] # Nothing /\ work'[q].on = work[q].on /\ work'[q].kind = work[q].kind
               /\ q # p => work'[q] = work[q]
    BY <1>0, <1>1, ServeWork DEF Fresh, On
  <2>2. \A c \in Crs : seen[c] \subseteq seen'[c] /\ (c # On(p) => seen'[c] = seen[c])
    BY <1>1, Elsewhere
  <2>3. \/ seen'[On(p)] = seen[On(p)] /\ (work'[p].at \in Begins => work[p].at \in Begins)
        \/ work'[p].at \notin Begins /\ (seen[On(p)] # {} \/ work[p].at = "insertRow")
    <3>1. CASE work[p].kind = "create"
      <4>1. work[p].at \in CallsOf("create")
        BY <2>1, <3>1 DEF InPlace
      <4>2. CASE work[p].at = "insertRow"
        <5>1. InsertRow(p) \/ Fail(p)
          BY <1>1, <3>1, <4>2 DEF Serve, At, Read, Authorize, Refuse, InsertBranch, InsertNode,
             Count, WriteTitle, Publish, DeleteRow, DeleteBranch, DeleteData, WriteData,
             WriteList, Reread, WriteBack, Locking, FindFree, SetKey, TurnAway, ActionLocked,
             Load, MergeBranch, FindConflicts, MergeFails, MarkBranch, MarkRow, Unlock
        <5>2. QED
          BY <1>0, <4>2, <5>1, NothingIs DEF InsertRow, Fail, Move, Leave, AtWork
      <4>3. CASE work[p].at # "insertRow"
        <5>1. UNCHANGED seen
          BY <1>1, <3>1, <4>1, <4>3 DEF Serve, At, CallsOf, Read, Authorize, Refuse, InsertBranch,
             InsertNode, InsertRow, Count, WriteTitle, Publish, DeleteRow, DeleteBranch,
             DeleteData, WriteData, WriteList, Reread, WriteBack, Locking, FindFree, SetKey,
             TurnAway, ActionLocked, Load, MergeBranch, FindConflicts, MergeFails, MarkBranch, MarkRow, Unlock,
             Fail
        <5>2. work[p].at = "count" => work'[p].at \notin Begins
          BY <1>0, <1>1, <3>1, NothingIs DEF Serve, At, Move, Leave, Read, Authorize, Refuse,
             InsertBranch, InsertNode, InsertRow, Count, WriteTitle, Publish, DeleteRow,
             DeleteBranch, DeleteData, WriteData, WriteList, Reread, WriteBack, Locking, FindFree,
             SetKey, TurnAway, ActionLocked, Load, MergeBranch, FindConflicts, MergeFails, MarkBranch, MarkRow,
             Unlock, Fail, Holding
        <5>3. QED
          BY <4>1, <4>3, <5>1, <5>2 DEF CallsOf
      <4>4. QED
        BY <4>2, <4>3
    <3>2. CASE work[p].kind # "create"
      <4>1. work'[p].at \notin Begins
        BY <1>0, <1>1, <2>1, <3>2, ServeWork, NothingIs DEF CallsOf, Kinds
      <4>2. seen[On(p)] # {}
        BY <2>1, <3>2 DEF Fresh, On
      <4>3. QED
        BY <4>1, <4>2
    <3>3. QED
      BY <3>1, <3>2
  <2>4. ASSUME NEW q \in Clients, work'[q] # Nothing
        PROVE  /\ work'[q].on \in made'
               /\ work'[q].kind # "create" => seen'[work'[q].on] # {}
               /\ work'[q].at \in Begins => seen'[work'[q].on] = {}
    <3>1. /\ work'[q].on \in made' /\ work'[q].on \in Crs
          /\ work'[q].kind # "create" => seen'[work'[q].on] # {}
      BY <1>0, <2>1, <2>2, <2>4 DEF Fresh
    <3>2. ASSUME work'[q].at \in Begins PROVE seen'[work'[q].on] = {}
      <4>1. CASE q = p
        BY <2>1, <2>3, <2>4, <3>2, <4>1 DEF Fresh, On
      <4>2. CASE q # p /\ work[q].on # On(p)
        BY <2>1, <2>2, <2>4, <3>1, <3>2, <4>2 DEF Fresh, On
      <4>3. CASE q # p /\ work[q].on = On(p)
        <5>1. work[q].kind = "create" /\ seen[On(p)] = {}
          BY <2>1, <2>4, <3>2, <4>3 DEF Fresh, InPlace, CallsOf
        <5>2. work[p].kind # "create"
          BY <2>1, <2>4, <4>3, <5>1 DEF Apart, On
        <5>3. QED
          BY <2>1, <5>1, <5>2 DEF Fresh, On
      <4>4. QED
        BY <4>1, <4>2, <4>3
    <3>3. QED
      BY <3>1, <3>2
  <2>5. ASSUME NEW c \in Crs
        PROVE  /\ seen'[c] = {} => applied'[c] = 0 /\ row'[c] = "none"
               /\ c \notin made' => seen'[c] = {} /\ branch'[c] = "none" /\ c \notin content'
    <3>1. CASE c # On(p)
      BY <1>1, <2>1, <3>1, Elsewhere DEF Fresh
    <3>2. CASE c = On(p)
      <4>1. SUFFICES ASSUME seen'[c] = {} PROVE applied'[c] = 0 /\ row'[c] = "none"
        BY <2>1, <3>2
      <4>2. seen[c] = {} /\ applied[c] = 0 /\ row[c] = "none" /\ work[p].kind = "create"
        BY <2>1, <2>2, <3>2, <4>1 DEF Fresh, On
      <4>3. work[p].at \in CallsOf("create")
        BY <2>1, <4>2 DEF InPlace
      <4>4. ~InsertRow(p)
        BY <1>0, <3>2, <4>1 DEF InsertRow, Written
      <4>5. UNCHANGED <<row, applied>>
        BY <1>1, <4>2, <4>3, <4>4 DEF Serve, At, CallsOf, Read, Authorize, Refuse, InsertBranch,
           InsertNode, Count, WriteTitle, Publish, DeleteRow, DeleteBranch, DeleteData, WriteData,
           WriteList, Reread, WriteBack, Locking, FindFree, SetKey, TurnAway, ActionLocked, Load,
           MergeBranch, FindConflicts, MergeFails, MarkBranch, MarkRow, Unlock, Fail
      <4>6. QED
        BY <4>2, <4>5
    <3>3. QED
      BY <3>1, <3>2
  <2>6. QED
    BY <2>4, <2>5 DEF Fresh
<1>2. ASSUME NEW p \in Clients, Ask(p) PROVE Fresh'
  <2>1. PICK job \in Jobs :
            /\ work' = [work EXCEPT ![p] = job]
            /\ made' = Add(made, job.on, job.kind = "create")
    BY <1>2, AskWork
  <2>2. /\ job.on \in Crs /\ job.kind \in Kinds /\ job.at = FirstCall(job.kind)
        /\ job.kind = "create" => job.on \notin made
        /\ job.kind # "create" => seen[job.on] # {} /\ job.on \in made
    BY JobsType DEF AtWork, Fresh
  <2>3. job.at \in {"insertBranch", "insertNode", "insertRow"} => job.kind = "create"
    BY <2>2 DEF FirstCall, Kinds
  <2>4. UNCHANGED <<row, branch, content, seen, applied>>
    BY <1>2 DEF Ask
  <2>5. ASSUME NEW q \in Clients, work'[q] # Nothing
        PROVE  /\ work'[q].on \in made'
               /\ work'[q].kind # "create" => seen'[work'[q].on] # {}
               /\ work'[q].at \in {"insertBranch", "insertNode", "insertRow"} =>
                      seen'[work'[q].on] = {}
    <3>1. CASE q = p
      BY <1>0, <2>1, <2>2, <2>3, <2>4, <3>1 DEF Fresh, Add
    <3>2. CASE q # p
      BY <1>0, <2>1, <2>4, <2>5, <3>2 DEF Fresh, Add
    <3>3. QED
      BY <3>1, <3>2
  <2>6. QED
    BY <2>1, <2>4, <2>5 DEF Fresh, Add
<1>3. CASE UNCHANGED <<work, made, seen, applied, row, branch, content>>
  BY <1>3 DEF Fresh
<1>4. QED
  BY <1>1, <1>2, <1>3 DEF Next, Serve, Locking, LockExpires, vars

-----------------------------------------------------------------------------
\* As long as c is not reopened one client at most merges it.
LEMMA OneMerges ==
    ASSUME TypeOK, InPlace, Apart, NEW c \in Crs, c \notin reopened,
           NEW p \in Clients, NEW q \in Clients, p # q, work[p].on = c, work[q].on = c,
           work[p].kind = "merge"
    PROVE  work[q].at \notin {"lock", "setKey", "load", "merge", "markBranch", "markRow"}
<1>1. work[p] # Nothing /\ work[q] # Nothing
  BY NothingIs
<1>2. work[q].kind # "merge"
  BY <1>1 DEF Apart
<1>3. work[q].at \in CallsOf(work[q].kind) /\ work[q].kind \in Kinds
  BY <1>1 DEF InPlace, TypeOK, AtWork
<1>4. QED
  BY <1>2, <1>3 DEF CallsOf, Kinds

\* A step of p for c, of those that neither merge nor mark c and do not go to
\* a place of which MergingOf says something.
LEMMA NoMergeStep ==
    ASSUME NEW c \in Crs, MergingOf(c), NEW p \in Clients, c \notin reopened,
           \A q \in Clients \ {p} : work'[q] = work[q],
           applied'[c] = applied[c],
           work[p].at \notin {"markBranch", "markRow"},
           \/ row'[c] \in {row[c], "none", "stub", "Merged"}
           \/ row[c] \in {"WorkInProgress", "Published"},
           \/ work'[p].at \notin {"lock", "setKey", "load", "merge", "markBranch", "markRow"}
           \/ applied[c] = 0 /\ work'[p].at \in {"lock", "setKey", "load", "merge"}
           \/ work'[p].at \in {"lock", "setKey", "load"} /\ work'[p].copy = "Merged"
    PROVE  MergingOf(c)'
  BY DEF MergingOf

\* A merge that goes on keeps what it found true, or the history says why
\* not.
LEMMA MergingStep ==
    MergeInv /\ [Next]_vars => \A c \in Crs : MergingOf(c)'
<1> SUFFICES ASSUME TypeOK, InPlace, Apart, Fresh, [Next]_vars, NEW c \in Crs, MergingOf(c)
             PROVE  MergingOf(c)'
  BY DEF MergeInv
<1>0. /\ work \in [Clients -> AtWork \cup {Nothing}]
      /\ row \in [Crs -> Statuses \cup {"none", "stub"}] /\ applied \in [Crs -> Nat]
  BY DEF TypeOK
<1>1. ASSUME NEW p \in Clients, Serve(p) PROVE MergingOf(c)'
  <2>1. /\ work[p] # Nothing /\ work[p] \in AtWork
        /\ \A q \in Clients \ {p} : work'[q] = work[q]
        /\ work'[p] = Nothing \/
               (work'[p].kind = work[p].kind /\ work'[p].on = work[p].on /\ work'[p] \in AtWork)
        /\ reopened \subseteq reopened'
        /\ work[p].at \in CallsOf(work[p].kind)
    BY <1>1, ServeWork DEF InPlace
  <2>2. CASE c # On(p)
    <3>1. row'[c] = row[c] /\ applied'[c] = applied[c] /\ (c \in reopened' <=> c \in reopened)
      BY <1>1, <2>2, Elsewhere
    <3>2. \A q \in Clients : (work'[q].on = c <=> work[q].on = c)
                             /\ (work[q].on = c => work'[q] = work[q])
      BY <2>1, <2>2, NothingIs DEF On
    <3>3. QED
      BY <3>1, <3>2 DEF MergingOf
  <2>3. CASE c = On(p) /\ c \in reopened'
    BY <2>3 DEF MergingOf
  <2>4. CASE c = On(p) /\ c \notin reopened'
    <3>0. c \notin reopened /\ work[p].on = c
      BY <2>1, <2>4 DEF On
    <3> USE <1>0, <2>1, <2>4, <3>0, NoMergeStep, NothingIs DEF Move, Leave
    <3>1. CASE Authorize(p) \/ Refuse(p) \/ Reread(p)
      BY <3>1 DEF Authorize, Refuse, Reread, AtWork
    <3>2. CASE InsertBranch(p) \/ InsertNode(p) \/ Count(p)
      BY <3>2 DEF InsertBranch, InsertNode, Count, At, AtWork
    <3>3. CASE InsertRow(p)
      <4>1. applied[c] = 0
        BY <3>3 DEF Fresh, InsertRow, At
      <4>2. work'[p].at \notin {"lock", "setKey", "load", "merge", "markBranch", "markRow"}
            /\ applied'[c] = 0 /\ work[p].at \notin {"markBranch", "markRow"}
        BY <3>3, <4>1 DEF InsertRow, At, AtWork
      <4>3. QED
        BY <4>1, <4>2 DEF MergingOf
    <3>4. CASE WriteTitle(p)
      BY <3>4 DEF WriteTitle
    <3>5. CASE Publish(p)
      <4>1. row[c] \in {"WorkInProgress", "Published"}
        BY <3>5 DEF Publish, Add
      <4>2. QED
        BY <3>5, <4>1 DEF Publish
    <3>6. CASE DeleteRow(p) \/ DeleteBranch(p) \/ DeleteData(p)
      BY <3>6 DEF DeleteRow, DeleteBranch, DeleteData, AtWork
    <3>7. CASE WriteData(p) \/ WriteList(p) \/ WriteBack(p)
      BY <3>7 DEF WriteData, WriteList, WriteBack, AtWork
    <3>8. CASE Read(p)
      <4>1. CASE work[p].kind = "delete" \/ row[c] = "Merged"
        BY <3>8, <4>1 DEF Read, At, AtWork
      <4>2. CASE work[p].kind = "merge" /\ row[c] # "Merged"
        <5>1. ~ \E q \in Clients : work[q].on = c /\ work[q].at \in {"markBranch", "markRow"}
          BY <3>8, <4>2, OneMerges DEF Read, At
        <5>2. applied[c] = 0
          BY <3>8, <4>2, <5>1 DEF MergingOf, Read, RowIsThere
        <5>3. QED
          BY <3>8, <4>2, <5>2 DEF Read, At, AtWork
      <4>3. QED
        BY <3>8, <4>1, <4>2 DEF Read, At
    <3>9. CASE FindFree(p) \/ SetKey(p) \/ Load(p)
      <4>1. work[p].copy # "Merged" => applied[c] = 0
        BY <3>9 DEF FindFree, SetKey, Load, MergingOf
      <4>2. QED
        BY <3>9, <4>1 DEF FindFree, SetKey, Load, AtWork
    <3>10. CASE TurnAway(p) \/ ActionLocked(p) \/ Unlock(p) \/ FindConflicts(p) \/ MergeFails(p)
      BY <3>10 DEF TurnAway, ActionLocked, Unlock, FindConflicts, MergeFails, AtWork
    <3>11. CASE MergeBranch(p) \/ MarkBranch(p) \/ MarkRow(p)
      <4>1. work[p].kind = "merge"
        BY <3>11 DEF MergeBranch, MarkBranch, MarkRow, CallsOf, AtWork, Kinds
      <4>2. \A q \in Clients : q # p /\ work[q].on = c =>
                work[q].at \notin {"lock", "setKey", "load", "merge", "markBranch", "markRow"}
        BY <4>1, OneMerges
      <4>3. CASE MergeBranch(p)
        <5>1. applied'[c] = 1 /\ row'[c] = row[c] /\ work'[p].on = c /\ work'[p].at = "markBranch"
          BY <4>3 DEF MergeBranch, MergingOf, AtWork
        <5>2. QED
          BY <4>2, <5>1 DEF MergingOf
      <4>4. CASE MarkBranch(p)
        <5>1. /\ applied'[c] = 1 /\ row'[c] = row[c]
              /\ work'[p].on = c /\ work'[p].at = "markRow"
          BY <4>4 DEF MarkBranch, MergingOf, AtWork
        <5>2. QED
          BY <4>2, <5>1 DEF MergingOf
      <4>5. CASE MarkRow(p)
        <5>1. /\ applied'[c] = 1 /\ row'[c] = "Merged" /\ work'[p].at = "unlock"
          BY <4>5 DEF MarkRow, Written, MergingOf, AtWork
        <5>2. QED
          BY <4>2, <5>1 DEF MergingOf
      <4>6. QED
        BY <3>11, <4>3, <4>4, <4>5
    <3>12. CASE Fail(p)
      <4>1. work[p].at \notin {"markBranch", "markRow"} /\ row' = row /\ applied' = applied
        BY <3>12 DEF Fail, Add
      <4>2. work'[p].at \notin {"lock", "setKey", "load", "merge", "markBranch", "markRow"}
        BY <3>12 DEF Fail, AtWork
      <4>3. QED
        BY <4>1, <4>2
    <3>13. QED
      BY <1>1, <3>1, <3>2, <3>3, <3>4, <3>5, <3>6, <3>7, <3>8, <3>9, <3>10, <3>11, <3>12
         DEF Serve, Locking
  <2>5. QED
    BY <2>2, <2>3, <2>4
<1>2. ASSUME NEW p \in Clients, Ask(p) PROVE MergingOf(c)'
  <2>1. PICK job \in Jobs :
            /\ work[p] = Nothing /\ work' = [work EXCEPT ![p] = job]
            /\ reopened \subseteq reopened'
    BY <1>2, AskWork
  <2>2. job.at \notin {"lock", "setKey", "load", "merge", "markBranch", "markRow"}
    BY JobsType DEF FirstCall, AtWork, Kinds
  <2>3. UNCHANGED <<row, applied>>
    BY <1>2 DEF Ask
  <2>4. QED
    BY <1>0, <2>1, <2>2, <2>3, NothingIs DEF MergingOf
<1>3. CASE UNCHANGED <<work, row, applied, reopened>>
  BY <1>3 DEF MergingOf
<1>4. QED
  BY <1>1, <1>2, <1>3 DEF Next, Serve, Locking, LockExpires, vars

-----------------------------------------------------------------------------
(* What there is of a contribution request while it is at work.            *)

Whole(c) ==
    /\ row[c] \in Statuses /\ branch[c] \in {"Open", "Merged"} /\ c \in content
    /\ c \notin reopened =>
           /\ row[c] = "Merged" => branch[c] = "Merged"
           /\ branch[c] = "Merged" =>
                  row[c] = "Merged" \/ \E p \in Upon(c) : work[p].at = "markRow"

Gone(c) == row[c] = "none" /\ branch[c] = "none" /\ c \notin content

\* Of all parts, none, or some while a client makes or deletes them.
WithAll(c) ==
    Whole(c) /\ \A p \in Upon(c) :
        /\ work[p].at \notin {"insertBranch", "insertNode", "insertRow", "deleteBranch", "deleteData"}
        /\ work[p].at = "count" => work[p].kind = "create"
        /\ work[p].at = "writeBack" => work[p].copy = branch[c]
        /\ c \notin reopened =>
               /\ work[p].at = "merge" => work[p].copy = branch[c]
               /\ work[p].at = "markRow" => branch[c] = "Merged"

WithNone(c) ==
    Gone(c) /\ \A p \in Upon(c) :
        /\ work[p].at \in {"read", "authorize", "lock", "setKey", "load", "unlock", "insertBranch", "count"}
        /\ work[p].at = "count" => work[p].kind = "delete"

WithSome(c) ==
    /\ row[c] = "none"
    /\ \E p \in Upon(c) :
           \/ work[p].at = "insertNode" /\ branch[c] = "Open" /\ c \notin content
           \/ work[p].at = "insertRow" /\ branch[c] = "Open" /\ c \in content
           \/ work[p].at = "deleteBranch" /\ branch[c] \in {"Open", "Merged"} /\ c \in content
           \/ work[p].at = "deleteData" /\ branch[c] = "none" /\ c \in content

PartsOf(c) == c \notin unsettled => WithAll(c) \/ WithNone(c) \/ WithSome(c)

\* Those that are counted: a new one is not yet, a deleted one still is.
Tallied(c) ==
    \/ row[c] # "none" /\ \A p \in Upon(c) : work[p].kind # "create"
    \/ \E p \in Upon(c) : work[p].kind = "delete" /\ work[p].at \in {"deleteBranch", "deleteData", "count"}

Tally == unsettled = {} => counter = Cardinality({c \in Crs : Tallied(c)})

\* As long as c is settled, a client that makes or deletes it is alone with it.
LEMMA Alone ==
    ASSUME TypeOK, InPlace, Apart, Fresh, NEW c \in Crs, c \notin unsettled,
           NEW p \in Clients, work[p].on = c,
           \/ work[p].kind = "delete"
           \/ work[p].at \in {"insertBranch", "insertNode", "insertRow"}
    PROVE  Upon(c) = {p}
<1>1. work[p] # Nothing /\ work[p].kind \in Kinds
  BY NothingIs DEF TypeOK, AtWork
<1>2. SUFFICES ASSUME NEW q \in Clients, q # p, work[q].on = c PROVE FALSE
  BY DEF Upon
<1>3. work[q] # Nothing
  BY <1>2, NothingIs
<1>4. work[p].kind # "delete"
  BY <1>1, <1>2 DEF Apart
<1>5. work[p].kind = "create" /\ seen[c] = {}
  BY <1>1, <1>4 DEF InPlace, CallsOf, Kinds, Fresh
<1>6. work[q].kind = "create"
  BY <1>2, <1>3, <1>5 DEF Fresh
<1>7. QED
  BY <1>1, <1>2, <1>5, <1>6 DEF Apart

\* A client at one of the other calls that write has the whole of it.
LEMMA WholeAt ==
    ASSUME TypeOK, InPlace, Apart, Fresh, NEW c \in Crs, PartsOf(c), c \notin unsettled,
           NEW p \in Clients, work[p].on = c
    PROVE  /\ work[p].at \notin {"insertNode", "insertRow", "deleteBranch", "deleteData"}
                  => WithAll(c) \/ WithNone(c)
           /\ work[p].at \in {"writeTitle", "publish", "deleteRow", "writeData", "writeList",
                              "reread", "writeBack", "merge", "markBranch", "markRow"}
                  => WithAll(c)
           /\ work[p].at = "insertBranch" => WithNone(c)
           /\ work[p].at \in {"insertNode", "insertRow", "deleteBranch", "deleteData"} =>
                  /\ row[c] = "none"
                  /\ work[p].at = "insertNode" => branch[c] = "Open" /\ c \notin content
                  /\ work[p].at = "insertRow" => branch[c] = "Open" /\ c \in content
                  /\ work[p].at = "deleteBranch" => branch[c] \in {"Open", "Merged"} /\ c \in content
                  /\ work[p].at = "deleteData" => branch[c] = "none" /\ c \in content
<1>1. p \in Upon(c)
  BY DEF Upon
<1>2. CASE WithAll(c) \/ WithNone(c)
  BY <1>1, <1>2 DEF WithAll, WithNone
<1>3. CASE WithSome(c)
  <2>1. PICK q \in Upon(c) :
            \/ work[q].at = "insertNode" /\ branch[c] = "Open" /\ c \notin content
            \/ work[q].at = "insertRow" /\ branch[c] = "Open" /\ c \in content
            \/ work[q].at = "deleteBranch" /\ branch[c] \in {"Open", "Merged"} /\ c \in content
            \/ work[q].at = "deleteData" /\ branch[c] = "none" /\ c \in content
    BY <1>3 DEF WithSome
  <2>2. q \in Clients /\ work[q].on = c /\ work[q] # Nothing
    BY <2>1, NothingIs DEF Upon
  <2>3. work[q].at \in {"deleteBranch", "deleteData"} => work[q].kind = "delete"
    BY <2>2 DEF InPlace, CallsOf, TypeOK, AtWork, Kinds
  <2>4. Upon(c) = {q}
    BY <2>1, <2>2, <2>3, Alone
  <2>5. p = q
    BY <1>1, <2>4
  <2>6. QED
    BY <1>3, <2>1, <2>5 DEF WithSome
<1>4. QED
  BY <1>2, <1>3 DEF PartsOf

\* Steps of p that leave a whole one whole, and nothing of what is not there.
LEMMA KeepAll ==
    ASSUME NEW c, WithAll(c), NEW p \in Clients, work[p].on = c,
           \A q \in Clients \ {p} : work'[q] = work[q],
           reopened \subseteq reopened',
           row'[c] = row[c], branch'[c] = branch[c], c \in content',
           work[p].at # "markRow",
           work'[p].at \notin {"insertBranch", "insertNode", "insertRow", "deleteBranch",
                               "deleteData", "count", "markRow"},
           work'[p].at \in {"merge", "writeBack"} => work'[p].copy = branch[c]
    PROVE  WithAll(c)'
  BY DEF WithAll, Whole, Upon

\* What has no parts gets none but by its creation.
LEMMA KeepNone ==
    ASSUME NEW c, WithNone(c), NEW p \in Clients, work[p].on = c,
           \A q \in Clients \ {p} : work'[q] = work[q],
           row'[c] = row[c], branch'[c] = branch[c], c \in content' => c \in content,
           work'[p].on # c \/ work'[p].at \in {"read", "authorize", "lock", "setKey", "load", "unlock"}
    PROVE  WithNone(c)'
  BY DEF WithNone, Gone, Upon

\* A handler makes or takes the parts of its own request in order.
LEMMA PartsServe ==
    ASSUME TypeOK, InPlace, Apart, Fresh, NEW p \in Clients, Serve(p),
           NEW c \in Crs, c = On(p), PartsOf(c), c \notin unsettled'
    PROVE  PartsOf(c)'
<1>0. /\ work[p] # Nothing /\ work[p] \in AtWork /\ work \in [Clients -> AtWork \cup {Nothing}]
      /\ \A q \in Clients \ {p} : work'[q] = work[q]
      /\ work'[p] = Nothing \/
             (work'[p].kind = work[p].kind /\ work'[p].on = work[p].on /\ work'[p] \in AtWork)
      /\ reopened \subseteq reopened' /\ c \notin unsettled
      /\ work[p].on = c
      /\ work[p].at \in CallsOf(work[p].kind)
  BY ServeWork DEF InPlace, TypeOK, On
<1>1. /\ row \in [Crs -> Statuses \cup {"none", "stub"}]
      /\ branch \in [Crs -> {"none", "stub", "Open", "Merged"}]
  BY DEF TypeOK
<1>2. work[p].at \notin {"insertNode", "insertRow", "deleteBranch", "deleteData"}
          => WithAll(c) \/ WithNone(c)
  BY <1>0, WholeAt
<1>3. work[p].at \in {"writeTitle", "publish", "deleteRow", "writeData", "writeList",
                      "reread", "writeBack", "merge", "markBranch", "markRow"} => WithAll(c)
  BY <1>0, WholeAt
<1> USE <1>0, <1>1, NothingIs DEF Move, Leave
<1>4. ASSUME Read(p) \/ Authorize(p) PROVE PartsOf(c)'
  <2>1. WithAll(c)
    BY <1>2, <1>4 DEF Read, Authorize, Authorized, RowIsThere, BranchIsThere, WithNone, Gone, At
  <2>2. work'[p].at \in {"lock", "authorize", "writeTitle", "publish", "deleteRow", "writeData"}
    BY <1>4 DEF Read, Authorize, AtWork
  <2>3. WithAll(c)'
    BY <1>4, <2>1, <2>2, KeepAll DEF Read, Authorize, At, WithAll, Whole
  <2>4. QED
    BY <2>3 DEF PartsOf
<1>5. ASSUME Refuse(p) \/ Locking(p) \/ MergeFails(p) \/ Unlock(p) PROVE PartsOf(c)'
  <2>1. work'[p] = Nothing \/ work'[p].at \in {"setKey", "load", "unlock"}
    BY <1>5 DEF Refuse, Locking, FindFree, SetKey, TurnAway, ActionLocked, MergeFails,
       Unlock, AtWork
  <2>2. /\ UNCHANGED <<row, branch, content>>
        /\ work[p].at \notin {"insertNode", "insertRow", "deleteBranch", "deleteData", "markRow"}
    BY <1>5 DEF Refuse, Locking, FindFree, SetKey, TurnAway, ActionLocked, MergeFails,
       Unlock
  <2>3. WithAll(c)' \/ WithNone(c)'
    <3>1. CASE WithAll(c)
      BY <2>1, <2>2, <3>1, KeepAll DEF WithAll, Whole
    <3>2. CASE WithNone(c)
      BY <2>1, <2>2, <3>2, KeepNone
    <3>3. QED
      BY <1>2, <2>2, <3>1, <3>2
  <2>4. QED
    BY <2>3 DEF PartsOf
<1>6. ASSUME Count(p) PROVE PartsOf(c)'
  <2>1. work'[p] = Nothing /\ UNCHANGED <<row, branch, content>> /\ work[p].at = "count"
    BY <1>6 DEF Count, At
  <2>2. WithAll(c)' \/ WithNone(c)'
    <3>1. CASE WithAll(c)
      BY <2>1, <3>1, KeepAll DEF WithAll, Whole
    <3>2. CASE WithNone(c)
      BY <2>1, <3>2, KeepNone
    <3>3. QED
      BY <1>2, <2>1, <3>1, <3>2
  <2>3. QED
    BY <2>2 DEF PartsOf
<1>7. ASSUME Load(p) PROVE PartsOf(c)'
  <2>1. /\ UNCHANGED <<row, branch, content>> /\ work[p].at = "load"
        /\ \/ work'[p].at = "unlock"
           \/ work'[p].at = "merge" /\ work'[p].copy = branch[c] /\ BranchIsThere(c)
    BY <1>7 DEF Load, AtWork
  <2>2. WithAll(c)' \/ WithNone(c)'
    <3>1. CASE WithAll(c)
      BY <2>1, <3>1, KeepAll DEF WithAll, Whole
    <3>2. CASE WithNone(c)
      BY <2>1, <3>2, KeepNone DEF BranchIsThere, WithNone, Gone
    <3>3. QED
      BY <1>2, <2>1, <3>1, <3>2
  <2>3. QED
    BY <2>2 DEF PartsOf
<1>8. ASSUME WriteTitle(p) \/ WriteData(p) \/ WriteList(p) \/ Reread(p) \/ WriteBack(p)
             \/ MergeBranch(p)
      PROVE PartsOf(c)'
  <2>1. WithAll(c) /\ work[p].at # "markRow"
    BY <1>3, <1>8 DEF WriteTitle, WriteData, WriteList, Reread, WriteBack, MergeBranch
  <2>2. row'[c] = row[c] /\ branch'[c] = branch[c] /\ c \in content'
    <3>1. p \in Upon(c) /\ (work[p].at = "writeBack" => work[p].copy = branch[c])
      BY <2>1 DEF Upon, WithAll
    <3>2. row[c] # "none" /\ branch[c] # "none" /\ c \in content
      BY <2>1 DEF WithAll, Whole
    <3>3. QED
      BY <1>8, <3>1, <3>2 DEF WriteTitle, WriteData, WriteList, Reread, WriteBack, MergeBranch
  <2>3. /\ work'[p].at \in {"end", "writeList", "reread", "writeBack", "markBranch"}
        /\ work'[p].at = "writeBack" => work'[p].copy = branch[c]
    BY <1>8 DEF WriteTitle, WriteData, WriteList, Reread, WriteBack, MergeBranch, AtWork
  <2>4. WithAll(c)'
    BY <2>1, <2>2, <2>3, KeepAll
  <2>5. QED
    BY <2>4 DEF PartsOf
<1>9. ASSUME Publish(p) PROVE PartsOf(c)'
  <2>1. WithAll(c) /\ work[p].at = "publish" /\ work'[p] = Nothing
    BY <1>3, <1>9 DEF Publish
  <2>2. /\ row'[c] = "Published" /\ branch'[c] = branch[c] /\ c \in content'
        /\ row[c] = "Merged" => c \in reopened'
    BY <1>9, <2>1 DEF Publish, Written, Add, WithAll, Whole
  <2>3. \A q \in Upon(c)' : q \in Upon(c) /\ q # p /\ work'[q] = work[q]
    BY <2>1 DEF Upon
  <2>4. \A q \in Upon(c) : work[q].at = "markRow" => q \in Upon(c)'
    BY <2>1 DEF Upon
  <2>5. Whole(c)'
    BY <2>1, <2>2, <2>4 DEF Whole, WithAll, Upon
  <2>6. WithAll(c)'
    BY <2>1, <2>2, <2>3, <2>5 DEF WithAll
  <2>7. QED
    BY <2>6 DEF PartsOf
<1>10. ASSUME FindConflicts(p) \/ MarkBranch(p) \/ MarkRow(p) PROVE PartsOf(c)'
  <2>1. WithAll(c) /\ work[p].kind = "merge" /\ p \in Upon(c)
    BY <1>3, <1>10 DEF FindConflicts, MarkBranch, MarkRow, CallsOf, AtWork, Kinds, Upon
  <2>2. \A q \in Clients \ {p} : work[q].on = c => work[q].at # "writeBack"
    <3>1. ASSUME NEW q \in Clients \ {p}, work[q].on = c, work[q].at = "writeBack" PROVE FALSE
      <4>1. work[q] # Nothing /\ work[q].kind = "edit"
        BY <3>1 DEF InPlace, CallsOf, TypeOK, AtWork, Kinds
      <4>2. QED
        BY <2>1, <3>1, <4>1 DEF Apart
    <3>2. QED
      BY <3>1
  <2>3. \A q \in Upon(c)' : q \in Upon(c) /\ (q # p => work'[q] = work[q])
    BY DEF Upon
  <2>4. c \notin reopened => \A q \in Clients \ {p} :
            work[q].on = c => work[q].at \notin {"merge", "markRow"}
    BY <2>1, OneMerges
  <2>5. CASE FindConflicts(p)
    <3>1. /\ work[p].at = "merge" /\ work[p].copy \in {"Open", "Merged"}
          /\ row'[c] = row[c] /\ branch'[c] = work[p].copy /\ c \in content'
          /\ work'[p].at = "unlock" /\ p \in Upon(c)'
      BY <2>1, <2>5 DEF FindConflicts, TypeOK, AtWork, WithAll, Whole, Upon
    <3>2. CASE c \notin reopened
      <4>1. branch'[c] = branch[c]
        BY <2>1, <3>1, <3>2 DEF WithAll
      <4>2. WithAll(c)'
        BY <2>1, <3>1, <4>1, KeepAll
      <4>3. QED
        BY <4>2 DEF PartsOf
    <3>3. CASE c \in reopened
      <4>1. WithAll(c)'
        BY <2>1, <2>2, <2>3, <3>1, <3>3 DEF WithAll, Whole, Upon
      <4>2. QED
        BY <4>1 DEF PartsOf
    <3>4. QED
      BY <3>2, <3>3
  <2>6. CASE MarkBranch(p)
    <3>1. /\ row'[c] = row[c] /\ branch'[c] = "Merged" /\ c \in content'
          /\ work'[p].at = "markRow" /\ p \in Upon(c)'
      BY <2>1, <2>6 DEF MarkBranch, AtWork, WithAll, Whole, Upon
    <3>2. WithAll(c)'
      BY <2>1, <2>2, <2>3, <2>4, <3>1 DEF WithAll, Whole, Upon
    <3>3. QED
      BY <3>2 DEF PartsOf
  <2>7. CASE MarkRow(p)
    <3>1. /\ row'[c] = "Merged" /\ branch'[c] = branch[c] /\ c \in content'
          /\ c \notin reopened => branch[c] = "Merged"
          /\ work'[p].at = "unlock" /\ work[p].at = "markRow"
      BY <2>1, <2>7 DEF MarkRow, Written, AtWork, WithAll, Whole, Upon
    <3>2. WithAll(c)'
      BY <2>1, <2>2, <2>3, <2>4, <3>1 DEF WithAll, Whole, Upon
    <3>3. QED
      BY <3>2 DEF PartsOf
  <2>8. QED
    BY <1>10, <2>5, <2>6, <2>7
<1>11. ASSUME InsertBranch(p) \/ InsertNode(p) PROVE PartsOf(c)'
  <2>1. work'[p].at \in {"insertNode", "insertRow"} /\ p \in Upon(c)'
    BY <1>11 DEF InsertBranch, InsertNode, Upon, AtWork
  <2>2. /\ row[c] = "none"
        /\ InsertBranch(p) => c \notin content
        /\ InsertNode(p) => branch[c] = "Open"
    BY <1>11, WholeAt DEF InsertBranch, InsertNode, At, WithNone, Gone
  <2>3. /\ row'[c] = "none" /\ branch'[c] = "Open"
        /\ work'[p].at = IF InsertBranch(p) THEN "insertNode" ELSE "insertRow"
        /\ InsertBranch(p) => c \notin content'
        /\ InsertNode(p) => c \in content'
    BY <1>11, <2>2 DEF InsertBranch, InsertNode, At, AtWork
  <2>4. WithSome(c)'
    BY <1>11, <2>1, <2>3 DEF WithSome
  <2>5. QED
    BY <2>4 DEF PartsOf
<1>12. ASSUME InsertRow(p) PROVE PartsOf(c)'
  <2>1. work[p].kind = "create" /\ work[p].at = "insertRow"
    BY <1>12 DEF InsertRow, At
  <2>2. branch[c] = "Open" /\ c \in content /\ Upon(c) = {p}
    BY <2>1, WholeAt, Alone
  <2>3. /\ row'[c] \in Statuses /\ branch'[c] = "Open" /\ c \in content'
        /\ row'[c] = "Merged" => c \in reopened'
        /\ work'[p].at = "count" /\ work'[p].kind = "create"
    BY <1>12, <2>1, <2>2 DEF InsertRow, Written, Add, TypeOK, AtWork
  <2>4. \A q \in Upon(c)' : q = p
    BY <2>2 DEF Upon
  <2>5. WithAll(c)'
    BY <2>1, <2>3, <2>4 DEF WithAll, Whole
  <2>6. QED
    BY <2>5 DEF PartsOf
<1>13. ASSUME DeleteRow(p) \/ DeleteBranch(p) PROVE PartsOf(c)'
  <2>1. /\ DeleteRow(p) => branch[c] \in {"Open", "Merged"}
        /\ DeleteBranch(p) => row[c] = "none"
        /\ c \in content
    BY <1>3, <1>13, WholeAt DEF DeleteRow, DeleteBranch, WithAll, Whole
  <2>2. work'[p].at \in {"deleteBranch", "deleteData"} /\ p \in Upon(c)'
    BY <1>13 DEF DeleteRow, DeleteBranch, Upon, AtWork
  <2>3. /\ row'[c] = "none" /\ c \in content'
        /\ work'[p].at = IF DeleteRow(p) THEN "deleteBranch" ELSE "deleteData"
        /\ DeleteRow(p) => branch'[c] \in {"Open", "Merged"}
        /\ DeleteBranch(p) => branch'[c] = "none"
    BY <1>13, <2>1 DEF DeleteRow, DeleteBranch, AtWork
  <2>4. WithSome(c)'
    BY <1>13, <2>2, <2>3 DEF WithSome
  <2>5. QED
    BY <2>4 DEF PartsOf
<1>14. ASSUME DeleteData(p) PROVE PartsOf(c)'
  <2>1. work[p].kind = "delete" /\ work[p].at = "deleteData"
    BY <1>14 DEF DeleteData, CallsOf, AtWork, Kinds
  <2>2. row[c] = "none" /\ branch[c] = "none" /\ Upon(c) = {p}
    BY <2>1, WholeAt, Alone
  <2>3. /\ row'[c] = "none" /\ branch'[c] = "none" /\ c \notin content'
        /\ work'[p].at = "count" /\ work'[p].kind = "delete"
    BY <1>14, <2>1, <2>2 DEF DeleteData, AtWork
  <2>4. \A q \in Upon(c)' : q = p
    BY <2>2 DEF Upon
  <2>5. WithNone(c)'
    BY <2>3, <2>4 DEF WithNone, Gone
  <2>6. QED
    BY <2>5 DEF PartsOf
<1>15. ~Fail(p)
  BY DEF Fail, On
<1>16. QED
  BY <1>4, <1>5, <1>6, <1>7, <1>8, <1>9, <1>10, <1>11, <1>12, <1>13, <1>14, <1>15 DEF Serve

\* So they are there all, or none, or some with their handler at work.
LEMMA PartsStep ==
    ASSUME TypeOK, InPlace, Apart, Fresh, [Next]_vars, NEW c \in Crs, PartsOf(c)
    PROVE  PartsOf(c)'
<1>0. work \in [Clients -> AtWork \cup {Nothing}]
  BY DEF TypeOK
<1>1. ASSUME NEW p \in Clients, Serve(p) PROVE PartsOf(c)'
  <2>1. CASE c = On(p) /\ c \notin unsettled'
    BY <1>1, <2>1, PartsServe
  <2>2. CASE c \in unsettled'
    BY <2>2 DEF PartsOf
  <2>3. CASE c # On(p)
    <3>1. /\ row'[c] = row[c] /\ branch'[c] = branch[c] /\ (c \in content' <=> c \in content)
          /\ (c \in unsettled' <=> c \in unsettled) /\ (c \in reopened' <=> c \in reopened)
      BY <1>1, <2>3, Elsewhere
    <3>2. /\ Upon(c)' = Upon(c)
          /\ \A q \in Upon(c) : work'[q] = work[q]
      BY <1>1, <2>3, ServeWork, NothingIs DEF On, Upon
    <3>3. (WithAll(c) => WithAll(c)') /\ (WithNone(c) => WithNone(c)') /\ (WithSome(c) => WithSome(c)')
      BY <3>1, <3>2 DEF WithAll, Whole, WithNone, Gone, WithSome
    <3>4. QED
      BY <3>1, <3>3 DEF PartsOf
  <2>4. QED
    BY <2>1, <2>2, <2>3
<1>2. ASSUME NEW p \in Clients, Ask(p) PROVE PartsOf(c)'
  <2>1. PICK job \in Jobs :
            /\ work[p] = Nothing /\ work' = [work EXCEPT ![p] = job]
            /\ unsettled \subseteq unsettled' /\ reopened \subseteq reopened'
    BY <1>2, AskWork
  <2>2. /\ job.at \in {"insertBranch", "read", "authorize"}
        /\ job.on = c /\ job.at = "insertBranch" => c \notin made
    BY JobsType DEF FirstCall, AtWork, Kinds
  <2>3. UNCHANGED <<row, branch, content>>
    BY <1>2 DEF Ask
  <2>4. \A q \in Upon(c) : q # p /\ work'[q] = work[q] /\ q \in Upon(c)'
    BY <1>0, <2>1, NothingIs DEF Upon
  <2>5. \A q \in Upon(c)' : q \in Upon(c) \/ (q = p /\ work'[q] = job /\ job.on = c)
    BY <1>0, <2>1, NothingIs DEF Upon
  <2>6. SUFFICES ASSUME c \notin unsettled' PROVE WithAll(c)' \/ WithNone(c)' \/ WithSome(c)'
    BY DEF PartsOf
  <2>7. CASE WithAll(c)
    <3>1. branch[c] # "none"
      BY <2>7 DEF WithAll, Whole
    <3>2. Whole(c)'
      BY <2>1, <2>3, <2>4, <2>7 DEF WithAll, Whole
    <3>3. \A q \in Upon(c)' : q \notin Upon(c) => work'[q].at \in {"read", "authorize"}
      BY <2>2, <2>5, <3>1 DEF Fresh
    <3>4. WithAll(c)'
      BY <2>1, <2>3, <2>4, <2>7, <3>2, <3>3 DEF WithAll
    <3>5. QED
      BY <3>4
  <2>8. CASE WithNone(c)
    BY <2>2, <2>3, <2>4, <2>5, <2>8 DEF WithNone, Gone
  <2>9. CASE WithSome(c)
    BY <2>3, <2>4, <2>9 DEF WithSome
  <2>10. QED
    BY <2>1, <2>6, <2>7, <2>8, <2>9 DEF PartsOf
<1>3. CASE UNCHANGED <<work, row, branch, content, unsettled, reopened>>
  BY <1>3 DEF PartsOf, WithAll, Whole, WithNone, Gone, WithSome, Upon
<1>4. QED
  BY <1>1, <1>2, <1>3 DEF Next, Serve, Locking, LockExpires, vars

-----------------------------------------------------------------------------
\* Only the call of the counter changes what is to be counted.
LEMMA TalliedServe ==
    ASSUME TypeOK, InPlace, Apart, Fresh, NEW p \in Clients, Serve(p), ~Count(p),
           NEW c \in Crs, PartsOf(c), c \notin unsettled'
    PROVE  Tallied(c)' <=> Tallied(c)
<1>0. /\ work[p] # Nothing /\ work[p] \in AtWork /\ work \in [Clients -> AtWork \cup {Nothing}]
      /\ \A q \in Clients \ {p} : work'[q] = work[q]
      /\ work'[p] = Nothing \/
             (work'[p].kind = work[p].kind /\ work'[p].on = work[p].on /\ work'[p] \in AtWork)
      /\ c \notin unsettled
      /\ work[p].at \in CallsOf(work[p].kind)
      /\ row \in [Crs -> Statuses \cup {"none", "stub"}]
  BY ServeWork DEF InPlace, TypeOK, On
<1>1. CASE c # On(p)
  <2>1. row'[c] = row[c]
    BY <1>1, Elsewhere
  <2>2. Upon(c)' = Upon(c) /\ \A q \in Upon(c) : work'[q] = work[q]
    BY <1>0, <1>1, NothingIs DEF On, Upon
  <2>3. QED
    BY <2>1, <2>2 DEF Tallied
<1>2. CASE c = On(p)
  <2>0. work[p].on = c /\ ~Fail(p)
    BY <1>0, <1>2 DEF On, Fail
  <2> USE <1>0, <2>0, NothingIs DEF Move, Leave
  <2>1. CASE work[p].kind = "create"
    <3>1. InsertBranch(p) \/ InsertNode(p) \/ InsertRow(p)
      BY <2>1 DEF Serve, CallsOf, Read, Authorize, Refuse, WriteTitle, Publish, DeleteRow,
         DeleteBranch, DeleteData, WriteData, WriteList, Reread, WriteBack, Locking, FindFree,
         SetKey, TurnAway, ActionLocked, Load, MergeBranch, FindConflicts, MergeFails, MarkBranch, MarkRow,
         Unlock, At
    <3>2. Upon(c) = {p}
      BY <3>1, Alone DEF InsertBranch, InsertNode, InsertRow, At
    <3>3. work'[p].kind = "create" /\ p \in Upon(c)'
      BY <2>1, <3>1 DEF InsertBranch, InsertNode, InsertRow, AtWork, Upon
    <3>4. Upon(c)' = {p}
      BY <3>2, <3>3 DEF Upon
    <3>5. QED
      BY <2>1, <3>2, <3>3, <3>4 DEF Tallied
  <2>2. CASE work[p].kind = "delete"
    <3>1. Upon(c) = {p}
      BY <2>2, Alone
    <3>2. \A q \in Upon(c)' : q = p
      BY <3>1 DEF Upon
    <3>3. CASE Read(p) \/ Authorize(p) \/ Refuse(p)
      <4>1. /\ row'[c] = row[c] /\ work[p].at \in {"read", "authorize"}
            /\ work'[p] = Nothing \/ work'[p].at \in {"authorize", "deleteRow"}
        BY <2>2, <3>3 DEF Read, Authorize, Refuse, At, CallsOf, AtWork
      <4>2. QED
        BY <2>2, <3>1, <3>2, <4>1 DEF Tallied, Upon
    <3>4. CASE DeleteRow(p) \/ DeleteBranch(p) \/ DeleteData(p)
      <4>1. work'[p].kind = "delete" /\ work'[p].at \in {"deleteBranch", "deleteData", "count"}
            /\ p \in Upon(c)'
        BY <2>2, <3>4 DEF DeleteRow, DeleteBranch, DeleteData, AtWork, Upon
      <4>2. DeleteRow(p) => row[c] # "none"
        BY WholeAt DEF DeleteRow, WithAll, Whole
      <4>3. QED
        BY <2>2, <3>1, <3>4, <4>1, <4>2 DEF Tallied, DeleteRow, DeleteBranch, DeleteData
    <3>5. QED
      BY <2>2, <3>3, <3>4 DEF Serve, CallsOf, InsertBranch, InsertNode, InsertRow, WriteTitle,
         Publish, WriteData, WriteList, Reread, WriteBack, Locking, FindFree, SetKey, TurnAway,
         ActionLocked, Load, MergeBranch, FindConflicts, MergeFails, MarkBranch, MarkRow, Unlock, At
  <2>3. CASE work[p].kind \notin {"create", "delete"}
    <3>1. \A q \in Upon(c) : work[q].kind # "delete"
      BY <2>3, Alone DEF Upon
    <3>2. \A q \in Upon(c)' : q \in Upon(c) /\ work'[q].kind = work[q].kind
      BY DEF Upon
    <3>3. \A q \in Upon(c) : work[q].kind = "create" => q \in Upon(c)' /\ work'[q] = work[q]
      BY <2>3 DEF Upon
    <3>4. row'[c] = "none" <=> row[c] = "none"
      <4>1. work[p].at \in {"writeTitle", "publish", "markRow"} => row[c] # "none"
        BY WholeAt DEF WithAll, Whole
      <4>2. CASE WriteTitle(p) \/ Publish(p) \/ MarkRow(p)
        BY <4>1, <4>2 DEF WriteTitle, Publish, MarkRow, Written
      <4>3. CASE ~(WriteTitle(p) \/ Publish(p) \/ MarkRow(p))
        <5>1. ~InsertRow(p) /\ ~DeleteRow(p)
          BY <2>3 DEF InsertRow, DeleteRow, At, CallsOf, AtWork, Kinds
        <5>2. UNCHANGED row
          BY <4>3, <5>1 DEF Serve, InsertBranch, InsertNode, Read, Authorize, Refuse,
             DeleteBranch, DeleteData, WriteData, WriteList, Reread, WriteBack, Locking, FindFree,
             SetKey, TurnAway, ActionLocked, Load, MergeBranch, FindConflicts, MergeFails, MarkBranch, Unlock
        <5>3. QED
          BY <5>2
      <4>4. QED
        BY <4>2, <4>3
    <3>5. QED
      BY <3>1, <3>2, <3>3, <3>4 DEF Tallied
  <2>4. QED
    BY <2>1, <2>2, <2>3
<1>3. QED
  BY <1>1, <1>2

\* The creation that calls the counter adds the one it made, and the deletion
\* takes away the one it deleted.
LEMMA TalliedCount ==
    ASSUME TypeOK, InPlace, Apart, Fresh, NEW p \in Clients, Count(p),
           NEW c \in Crs, c = On(p), PartsOf(c), unsettled' = {}
    PROVE  /\ \A d \in Crs : d # c => (Tallied(d)' <=> Tallied(d))
           /\ work[p].kind = "create" => ~Tallied(c) /\ Tallied(c)'
           /\ work[p].kind = "delete" => Tallied(c) /\ ~Tallied(c)'
<1>0. /\ work[p] # Nothing /\ work[p] \in AtWork /\ work'[p] = Nothing /\ work[p].on = c
      /\ \A q \in Clients \ {p} : work'[q] = work[q]
      /\ work[p].at = "count" /\ UNCHANGED <<row, branch, content>> /\ unsettled = {}
  BY ServeWork, NothingIs DEF Serve, Count, At, On, AtWork, Leave, TypeOK
<1>1. \A d \in Crs : d # c => (Tallied(d)' <=> Tallied(d))
  <2>1. ASSUME NEW d \in Crs, d # c
        PROVE  Upon(d)' = Upon(d) /\ \A q \in Upon(d) : work'[q] = work[q]
    BY <1>0, <2>1, NothingIs DEF On, Upon
  <2>2. QED
    BY <1>0, <2>1 DEF Tallied
<1>2. Upon(c)' = Upon(c) \ {p} /\ p \in Upon(c)
  BY <1>0, NothingIs DEF Upon
<1>3. /\ work[p].kind = "create" => row[c] # "none"
      /\ work[p].kind = "delete" => row[c] = "none"
  <2>1. WithAll(c) \/ WithNone(c)
    BY <1>0, WholeAt
  <2>2. QED
    BY <1>0, <1>2, <2>1 DEF WithAll, WithNone, Whole, Gone
<1>4. CASE work[p].kind = "create"
  <2>1. \A q \in Upon(c) : q # p => work[q].kind \notin {"create", "delete"}
    <3>1. ASSUME NEW q \in Clients, q # p, work[q].on = c
          PROVE  work[q].kind \notin {"create", "delete"}
      BY <1>0, <1>4, <3>1, NothingIs DEF Apart
    <3>2. QED
      BY <3>1 DEF Upon
  <2>2. ~Tallied(c)
    BY <1>2, <1>4, <2>1 DEF Tallied
  <2>3. Tallied(c)'
    BY <1>0, <1>2, <1>3, <1>4, <2>1 DEF Tallied, Upon
  <2>4. QED
    BY <1>0, <1>1, <1>4, <2>2, <2>3
<1>5. CASE work[p].kind = "delete"
  <2>1. Upon(c) = {p}
    BY <1>0, <1>5, Alone
  <2>2. Upon(c)' = {}
    BY <1>2, <2>1
  <2>3. Tallied(c) /\ ~Tallied(c)'
    BY <1>0, <1>2, <1>3, <1>5, <2>2 DEF Tallied
  <2>4. QED
    BY <1>0, <1>1, <1>5, <2>3
<1>6. QED
  BY <1>4, <1>5 DEF Count, At

\* The counter follows the rows.
LEMMA TallyStep ==
    ASSUME TypeOK, InPlace, Apart, Fresh, \A c \in Crs : PartsOf(c), Tally, [Next]_vars
    PROVE  Tally'
<1>1. SUFFICES ASSUME unsettled' = {} PROVE counter' = Cardinality({c \in Crs : Tallied(c)'})
  BY DEF Tally
<1>2. /\ unsettled = {} /\ counter = Cardinality({c \in Crs : Tallied(c)}) /\ counter \in Int
  <2>1. unsettled \subseteq unsettled'
    BY ServeWork, AskWork DEF Next, Serve, Locking, LockExpires, vars
  <2>2. QED
    BY <1>1, <2>1 DEF Tally, TypeOK
<1>3. IsFiniteSet({c \in Crs : Tallied(c)})
  BY FS_Subset, ContributionsAssumption
<1>4. ASSUME counter' = counter, \A c \in Crs : Tallied(c)' <=> Tallied(c)
      PROVE  counter' = Cardinality({c \in Crs : Tallied(c)'})
  <2>1. {c \in Crs : Tallied(c)'} = {c \in Crs : Tallied(c)}
    BY <1>4
  <2>2. QED
    BY <1>2, <1>4, <2>1
<1>5. ASSUME NEW p \in Clients, Count(p) PROVE counter' = Cardinality({c \in Crs : Tallied(c)'})
  <2>0. PICK c \in Crs : c = On(p)
    BY <1>5, NothingIs DEF Count, At, On, TypeOK, AtWork
  <2>1. /\ \A d \in Crs : d # c => (Tallied(d)' <=> Tallied(d))
        /\ work[p].kind = "create" => ~Tallied(c) /\ Tallied(c)'
        /\ work[p].kind = "delete" => Tallied(c) /\ ~Tallied(c)'
    BY <1>1, <1>5, <2>0, TalliedCount
  <2>2. CASE work[p].kind = "create"
    <3>1. {d \in Crs : Tallied(d)'} = {d \in Crs : Tallied(d)} \cup {c}
      BY <2>1, <2>2
    <3>2. counter' = counter + 1
      BY <1>5, <2>2 DEF Count
    <3>3. QED
      BY <1>2, <1>3, <2>1, <2>2, <3>1, <3>2, FS_AddElement
  <2>3. CASE work[p].kind = "delete"
    <3>1. {d \in Crs : Tallied(d)'} = {d \in Crs : Tallied(d)} \ {c}
      BY <2>1, <2>3
    <3>2. counter' = counter - 1
      BY <1>2, <1>5, <2>3 DEF Count
    <3>3. QED
      BY <1>2, <1>3, <2>1, <2>3, <3>1, <3>2, FS_RemoveElement
  <2>4. QED
    BY <1>5, <2>2, <2>3 DEF Count, At
<1>6. ASSUME NEW p \in Clients, Serve(p), ~Count(p)
      PROVE  counter' = Cardinality({c \in Crs : Tallied(c)'})
  <2>1. counter' = counter
    BY <1>6 DEF Serve, Read, Authorize, Refuse, InsertBranch, InsertNode, InsertRow, WriteTitle,
       Publish, DeleteRow, DeleteBranch, DeleteData, WriteData, WriteList, Reread, WriteBack,
       Locking, FindFree, SetKey, TurnAway, ActionLocked, Load, MergeBranch, FindConflicts, MergeFails,
       MarkBranch, MarkRow, Unlock, Fail
  <2>2. QED
    BY <1>1, <1>4, <1>6, <2>1, TalliedServe
<1>7. ASSUME NEW p \in Clients, Ask(p) PROVE counter' = Cardinality({c \in Crs : Tallied(c)'})
  <2>1. PICK job \in Jobs : work[p] = Nothing /\ work' = [work EXCEPT ![p] = job]
    BY <1>7, AskWork
  <2>2. /\ job.at \in {"insertBranch", "read", "authorize"}
        /\ job.kind = "create" => job.on \notin made
    BY JobsType DEF FirstCall, AtWork, Kinds
  <2>3. UNCHANGED <<row, counter>> /\ work \in [Clients -> AtWork \cup {Nothing}]
    BY <1>7 DEF Ask, TypeOK
  <2>4. ASSUME NEW c \in Crs PROVE Tallied(c)' <=> Tallied(c)
    <3>1. \A q \in Upon(c) : q # p /\ work'[q] = work[q] /\ q \in Upon(c)'
      BY <2>1, <2>3, NothingIs DEF Upon
    <3>2. \A q \in Upon(c)' : q \in Upon(c) \/ (q = p /\ work'[q] = job /\ job.on = c)
      BY <2>1, <2>3, NothingIs DEF Upon
    <3>3. job.on = c /\ job.kind = "create" => row[c] = "none"
      BY <2>2 DEF Fresh
    <3>4. QED
      BY <2>2, <2>3, <3>1, <3>2, <3>3 DEF Tallied
  <2>5. QED
    BY <1>4, <2>3, <2>4
<1>8. CASE UNCHANGED <<work, row, counter>>
  BY <1>4, <1>8 DEF Tallied, Upon
<1>9. QED
  BY <1>5, <1>6, <1>7, <1>8 DEF Next, Serve, Locking, LockExpires, vars

-----------------------------------------------------------------------------
IInv == MergeInv /\ (\A c \in Crs : PartsOf(c)) /\ Tally

\* The invariant holds at first.
LEMMA Start ==
    ASSUME ContributionsAssumption, Init
    PROVE  IInv
<1>1. /\ work = [p \in Clients |-> Nothing] /\ unsettled = {} /\ reopened = {}
      /\ \A c \in Crs : Upon(c) = {}
  BY NothingIs DEF Init, Upon
<1>2. TypeOK
  <2>1. IsFiniteSet(Existing)
    BY FS_Subset, ContributionsAssumption
  <2>2. counter \in Int
    BY <2>1, FS_CardinalityType DEF Init
  <2>3. spent \in [asks : 0 .. MaxAsks, faults : 0 .. MaxFaults]
    BY ContributionsAssumption DEF Init
  <2>4. QED
    BY <2>2, <2>3, NothingIs, ContributionsAssumption DEF Init, TypeOK
<1>3. InPlace /\ Apart
  BY <1>1 DEF InPlace, Apart
<1>4. Fresh /\ \A c \in Crs : MergingOf(c)
  BY <1>1, NothingIs, ContributionsAssumption DEF Init, Fresh, MergingOf
<1>5. \A c \in Crs : PartsOf(c)
  BY <1>1 DEF Init, PartsOf, WithAll, WithNone, Whole, Gone
<1>6. Tally
  <2>1. \A c \in Crs : Tallied(c) <=> c \in Existing
    BY <1>1 DEF Init, Tallied
  <2>2. {c \in Crs : Tallied(c)} = Existing
    BY <2>1, ContributionsAssumption
  <2>3. QED
    BY <2>2 DEF Init, Tally
<1>7. QED
  BY <1>2, <1>3, <1>4, <1>5, <1>6 DEF IInv, MergeInv

\* No step breaks the invariant.
LEMMA Inductive ==
    ASSUME ContributionsAssumption
    PROVE  Spec => []IInv
<1>1. Init => IInv
  BY Start
<1>2. IInv /\ [Next]_vars => IInv'
  <2> SUFFICES ASSUME IInv, [Next]_vars PROVE IInv'
    OBVIOUS
  <2>1. TypeOK /\ InPlace /\ Apart /\ Fresh /\ (\A c \in Crs : PartsOf(c)) /\ Tally /\ MergeInv
    BY DEF IInv, MergeInv
  <2>2. TypeOK' /\ InPlace' /\ Apart' /\ Fresh' /\ \A c \in Crs : MergingOf(c)'
    BY <2>1, TypeStep, InPlaceStep, ApartStep, FreshStep, MergingStep
  <2>3. (\A c \in Crs : PartsOf(c)') /\ Tally'
    BY <2>1, PartsStep, TallyStep
  <2>4. QED
    BY <2>2, <2>3 DEF IInv, MergeInv
<1>3. QED
  BY <1>1, <1>2, PTL DEF Spec

\* What is merged was not merged before, whatever else is asked for meanwhile,
\* but for the three ways of reopening a contribution request.
THEOREM NotMergedAgain ==
    ASSUME ContributionsAssumption
    PROVE  Spec => []MergedOnce
<1>1. IInv => MergedOnce
  BY DEF IInv, MergeInv, MergingOf, MergedOnce
<1>2. QED
  BY <1>1, Inductive, PTL

\* The variables keep their types; what nobody is at and was never broken off
\* has its row, its branch and its data or none of them, marked as merged
\* together; and without faults and clashes the counter counts the rows.
THEOREM PartsAgree ==
    ASSUME ContributionsAssumption
    PROVE  Spec => []ContributionsInv
<1>1. IInv => ContributionsInv
  <2> SUFFICES ASSUME IInv PROVE TypeOK /\ Settled
    BY DEF ContributionsInv
  <2>1. TypeOK
    BY DEF IInv, MergeInv
  <2>2. ASSUME NEW c \in Crs \ unsettled, Upon(c) = {} PROVE Agrees(c)
    BY <2>2 DEF IInv, PartsOf, WithAll, WithNone, WithSome, Whole, Gone, Agrees
  <2>3. ASSUME unsettled = {}, \A p \in Clients : work[p] = Nothing PROVE Counted
    <3>1. \A c \in Crs : Upon(c) = {}
      BY <2>3, NothingIs DEF Upon
    <3>2. \A c \in Crs : Tallied(c) <=> row[c] # "none"
      BY <3>1 DEF Tallied
    <3>3. {c \in Crs : Tallied(c)} = {c \in Crs : row[c] # "none"}
      BY <3>2
    <3>4. QED
      BY <2>3, <3>3 DEF IInv, Tally, Counted
  <2>4. QED
    BY <2>1, <2>2, <2>3 DEF Settled
<1>2. QED
  BY <1>1, Inductive, PTL
=============================================================================
