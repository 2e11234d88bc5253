----------------------------- MODULE SagaProofs -----------------------------
(***************************************************************************)
(* Proofs about Saga: for every number of steps, of runs and of faults.    *)
(* Atomicity needs what Restricted says: TLC refutes it when any of its    *)
(* conjuncts is given up.                                                  *)
(*                                                                         *)
(* And about ResourceLocker, whose keys stand behind Saga's lock, for      *)
(* every set of requests and branches: two requests that set their keys in *)
(* time and have not lost them never work on one resource, no key is       *)
(* forgotten but by a failure, and the types.                              *)
(***************************************************************************)
EXTENDS Saga, ResourceLocker, TLAPS

USE SagaAssumption DEF Steps, Start, Finish, Processes

\* No handler outlives its log's three minutes, a log deletion that reports
\* failure has not happened, a failed request keeps its lock, and either a
\* single instance recovers or there is one request.
Restricted ==
    /\ ~SlowHandler
    /\ ~LostDeleteAck
    /\ ~UnlockOnError
    /\ Single \/ MaxRuns <= 1

-----------------------------------------------------------------------------
\* What a process that meets an error changes of itself.
LEMMA FailToType ==
    ASSUME TypeOK, NEW p \in Processes, FailTo(p)
    PROVE  /\ mode' \in [Processes -> {"idle", "forward", "read", "backward", "closing"}]
           /\ step' \in [Processes -> Start..Finish]
           /\ phase' \in [Processes -> {"log", "act"}]
<1>1. CASE mode[p] = "forward"
  <2>1. GoTo(p, "backward", step[p])
    BY <1>1 DEF FailTo
  <2> QED
    BY <2>1 DEF GoTo, TypeOK
<1>2. CASE mode[p] # "forward"
  <2>1. GoTo(p, IF p = Handler THEN Leave(p) ELSE "idle", Start)
    BY <1>2 DEF FailTo
  <2> QED
    BY <2>1 DEF GoTo, TypeOK, Leave, Start, Finish
<1>3. QED
  BY <1>1, <1>2

-----------------------------------------------------------------------------
\* No action of the protocol takes a variable out of its type.
LEMMA TypeStep == TypeOK /\ [Next]_vars => TypeOK'
<1> SUFFICES ASSUME TypeOK, [Next]_vars PROVE TypeOK'
  OBVIOUS
<1> USE DEF TypeOK, GoTo, At, InStep, Fault
<1>1. CASE Begin
  BY <1>1 DEF Begin
<1>2. CASE CreateLog
  BY <1>2 DEF CreateLog
<1>3. ASSUME NEW p \in Processes, LogStep(p) PROVE TypeOK'
  BY <1>3 DEF LogStep, Upserted
<1>4. CASE Execute
  BY <1>4 DEF Execute
<1>5. CASE FinishRun
  BY <1>5 DEF FinishRun
<1>6. ASSUME NEW p \in Processes, Undo(p) PROVE TypeOK'
  BY <1>6 DEF Undo, Undone
<1>7. CASE SkipFinish
  BY <1>7 DEF SkipFinish, db
<1>8. ASSUME NEW p \in Processes, DeleteLog(p) PROVE TypeOK'
  BY <1>8 DEF DeleteLog, Leave
<1>9. ASSUME NEW p \in Processes, Unlock(p) PROVE TypeOK'
  BY <1>9 DEF Unlock, db
<1>10. CASE LogAges
  BY <1>10 DEF LogAges, proc
<1>11. ASSUME NEW r \in Recoverers, ReadLog(r) \/ StartRecovery(r) PROVE TypeOK'
  <2>1. CASE ReadLog(r)
    BY <2>1 DEF ReadLog, db
  <2>2. CASE StartRecovery(r)
    BY <2>2 DEF StartRecovery, db
  <2>3. QED
    BY <1>11, <2>1, <2>2
<1>12. CASE FailCreateLog
  BY <1>12, FailToType DEF FailCreateLog
<1>13. ASSUME NEW p \in Processes, FailLogStep(p) PROVE TypeOK'
  BY <1>13, FailToType DEF FailLogStep, Upserted
<1>14. CASE FailExecute
  <2>1. effect' \in [Steps -> {"undone", "partial", "done"}]
    BY <1>14 DEF FailExecute, AfterFailedExecute
  <2>2. QED
    BY <1>14, <2>1, FailToType DEF FailExecute
<1>15. ASSUME NEW p \in Processes, FailUndo(p) PROVE TypeOK'
  <2>1. effect' \in [Steps -> {"undone", "partial", "done"}]
    BY <1>15 DEF FailUndo, AfterFailedUndo
  <2>2. QED
    BY <1>15, <2>1, FailToType DEF FailUndo
<1>16. ASSUME NEW p \in Processes, FailDeleteLog(p) PROVE TypeOK'
  <2>1. log' \in {"none", "stub", "fresh", "old"}
    BY <1>16 DEF FailDeleteLog
  <2>2. QED
    BY <1>16, <2>1, FailToType DEF FailDeleteLog
<1>17. ASSUME NEW p \in Processes, Crash(p) PROVE TypeOK'
  BY <1>17 DEF Crash, db
<1>18. CASE LockExpires
  BY <1>18 DEF LockExpires, db, proc
<1>19. CASE UNCHANGED vars
  BY <1>19 DEF vars
<1>20. QED
  BY <1>1, <1>2, <1>3, <1>4, <1>5, <1>6, <1>7, <1>8, <1>9, <1>10, <1>11, <1>12,
     <1>13, <1>14, <1>15, <1>16, <1>17, <1>18, <1>19
     DEF Next, HandlerStep, RecovererStep, Advance, Disturb

\* Every variable keeps its type, whatever the constants
\* (the step counters of ReorderStep never leave their range).
THEOREM TypeCorrect == Spec => []TypeOK
<1>1. Init => TypeOK
  BY DEF Init, TypeOK
<1>2. QED
  BY <1>1, TypeStep, PTL DEF Spec

-----------------------------------------------------------------------------
\* Before the first request nothing has been written and nobody works.
LEMMA InvInit == Init => SagaInv
  BY DEF Init, SagaInv, TypeOK, Covered, NothingBeyond, Beyond, ForwardInv, HandlerInv,
         RecovererInv, LockInv, Atomic, RolledBack, Recoverable

\* Every step of the handler, of a recoverer, of time and every fault keeps the
\* inductive invariant.
LEMMA InvStep == ASSUME Restricted, SagaInv, [Next]_vars PROVE SagaInv'
<1>1. TypeOK /\ TypeOK'
  BY TypeStep DEF SagaInv
<1> USE <1>1 DEF TypeOK, GoTo, At, InStep, Restricted, SagaInv, Covered, NothingBeyond, Beyond,
         ForwardInv, HandlerInv, RecovererInv, LockInv, Atomic, RolledBack, Recoverable
<1>2. CASE Begin
  BY <1>2 DEF Begin
<1>3. CASE CreateLog
  BY <1>3 DEF CreateLog
<1>4. ASSUME NEW p \in Processes, LogStep(p) PROVE SagaInv'
  BY <1>4 DEF LogStep, Upserted
<1>5. CASE Execute
  BY <1>5 DEF Execute
<1>6. CASE FinishRun
  BY <1>6 DEF FinishRun, Applied
<1>7. ASSUME NEW p \in Processes, Undo(p) PROVE SagaInv'
  BY <1>7 DEF Undo, Undone
<1>8. CASE SkipFinish
  BY <1>8 DEF SkipFinish, db
<1>9. ASSUME NEW p \in Processes, DeleteLog(p) PROVE SagaInv'
  BY <1>9 DEF DeleteLog, Leave
<1>10. ASSUME NEW p \in Processes, Unlock(p) PROVE SagaInv'
  BY <1>10 DEF Unlock, db, Single, Applied
<1>11. CASE LogAges
  BY <1>11 DEF LogAges, proc
<1>12. ASSUME NEW r \in Recoverers, ReadLog(r) PROVE SagaInv'
  BY <1>12 DEF ReadLog, db
<1>13. ASSUME NEW r \in Recoverers, StartRecovery(r) PROVE SagaInv'
  BY <1>13 DEF StartRecovery, db
<1>14. CASE FailCreateLog
  BY <1>14 DEF FailCreateLog, FailTo
<1>15. ASSUME NEW p \in Processes, FailLogStep(p) PROVE SagaInv'
  BY <1>15 DEF FailLogStep, FailTo, Upserted, Leave
<1>16. CASE FailExecute
  <2>1. /\ \A k \in Steps : k # step[Handler] => effect'[k] = effect[k]
        /\ UNCHANGED <<log, logStep, lock, runs>>
        /\ mode' = [mode EXCEPT ![Handler] = "backward"]
        /\ step' = [step EXCEPT ![Handler] = step[Handler]]
        /\ mode[Handler] = "forward" /\ step[Handler] \in Steps /\ logStep = step[Handler]
    BY <1>16 DEF FailExecute, FailTo
  <2>2. QED
    BY <2>1
<1>17. ASSUME NEW p \in Processes, FailUndo(p) PROVE SagaInv'
  <2>1. /\ \A k \in Steps : k # step[p] => effect'[k] = effect[k]
        /\ step[p] \in Steps \ Irreversible /\ effect'[step[p]] \in AfterFailedUndo(effect[step[p]])
        /\ UNCHANGED <<log, logStep, lock, runs>>
        /\ mode' = [mode EXCEPT ![p] = IF p = Handler THEN Leave(p) ELSE "idle"]
        /\ step' = [step EXCEPT ![p] = Start]
        /\ phase' = [phase EXCEPT ![p] = "log"]
        /\ mode[p] = "backward" /\ phase[p] = "act"
    BY <1>17 DEF FailUndo, FailTo
  <2>2. QED
    BY <2>1 DEF AfterFailedUndo, Leave
<1>18. ASSUME NEW p \in Processes, FailDeleteLog(p) PROVE SagaInv'
  BY <1>18 DEF FailDeleteLog, FailTo, Leave
<1>19. ASSUME NEW p \in Processes, Crash(p) PROVE SagaInv'
  BY <1>19 DEF Crash, db, Applied
<1>20. CASE LockExpires
  BY <1>20 DEF LockExpires, db, proc, Applied
<1>21. CASE UNCHANGED vars
  BY <1>21 DEF vars, Applied
<1>22. QED
  BY <1>2, <1>3, <1>4, <1>5, <1>6, <1>7, <1>8, <1>9, <1>10, <1>11, <1>12, <1>13, <1>14, <1>15, <1>16, <1>17, <1>18, <1>19, <1>20, <1>21
     DEF Next, HandlerStep, RecovererStep, Advance, Disturb

-----------------------------------------------------------------------------
\* What the database holds stays within what the log and the processes at
\* work account for (SagaInv, the inductive invariant).
THEOREM Invariance == ASSUME Restricted PROVE Spec => []SagaInv
<1>1. SagaInv /\ [Next]_vars => SagaInv'
  BY InvStep
<1>2. QED
  BY InvInit, <1>1, PTL DEF Spec

\* Whenever no complete log row is left, the operation has taken place as a
\* whole or not at all (execute_reorder, recover, run_recovery_task).
THEOREM Atomicity == ASSUME Restricted PROVE Spec => []Atomic
<1>1. SagaInv => Atomic
  BY DEF SagaInv
<1>2. QED
  BY Invariance, <1>1, PTL

-----------------------------------------------------------------------------
\* A step changes the effects of one step number only, and only when the row
\* is complete and its step column covers that number.
LEMMA WriteAheadStep ==
    ASSUME Restricted, SagaInv, [Next]_vars, effect' # effect, runs' = runs
    PROVE  Recoverable /\ \A k \in Steps : effect'[k] # effect[k] => k <= logStep
<1> USE DEF TypeOK, GoTo, At, InStep, SagaInv, RolledBack
<1>1. CASE Begin
  BY <1>1 DEF Begin
<1>2. CASE Execute \/ FailExecute
  <2>1. InStep(Handler, {"forward"}, "act")
    BY <1>2 DEF Execute, FailExecute
  <2>2. Recoverable /\ logStep = step[Handler]
    BY <2>1 DEF HandlerInv, ForwardInv, Start
  <2>3. \A k \in Steps : effect'[k] # effect[k] => k = step[Handler]
    BY <1>2 DEF Execute, FailExecute
  <2>4. QED
    BY <2>2, <2>3
<1>3. ASSUME NEW p \in Processes, Undo(p) \/ FailUndo(p)
      PROVE  Recoverable /\ \A k \in Steps : effect'[k] # effect[k] => k <= logStep
  <2>1. mode[p] = "backward" /\ step[p] \in Steps
    BY <1>3 DEF Undo, FailUndo
  <2>2. /\ step[p] \notin Irreversible
        /\ effect[step[p]] # "undone"
        /\ \A k \in Steps : effect'[k] # effect[k] => k = step[p]
    <3>1. CASE Undo(p)
      BY <1>3, <2>1, <3>1 DEF Undo, Undone
    <3>2. CASE FailUndo(p)
      BY <1>3, <2>1, <3>2 DEF FailUndo, AfterFailedUndo
    <3>3. QED
      BY <1>3, <3>1, <3>2
  <2>3. Recoverable
    BY <2>1, <2>2 DEF HandlerInv, RecovererInv
  <2>4. step[p] <= logStep
    BY <2>1, <2>2, <2>3 DEF Covered
  <2>5. QED
    BY <2>2, <2>3, <2>4
<1>4. UNCHANGED effect \/ Begin \/ Execute \/ FailExecute
      \/ \E p \in Processes : Undo(p) \/ FailUndo(p)
  BY DEF vars, db, Next, HandlerStep, RecovererStep, Advance, Disturb, CreateLog, LogStep,
         FinishRun, SkipFinish, DeleteLog, Unlock, LogAges, ReadLog, StartRecovery,
         FailCreateLog, FailLogStep, FailDeleteLog, Crash, LockExpires
<1>5. QED
  BY <1>1, <1>2, <1>3, <1>4

\* Effects change only under a complete log row that covers them.
THEOREM WritesAhead == ASSUME Restricted PROVE Spec => WriteAhead
<1>1. SagaInv /\ [Next]_vars =>
        [effect' # effect /\ runs' = runs =>
           /\ Recoverable
           /\ \A k \in Steps : effect'[k] # effect[k] => k <= logStep]_vars
  BY WriteAheadStep
<1>2. QED
  BY Invariance, <1>1, PTL DEF Spec, WriteAhead

-----------------------------------------------------------------------------
(* Saga implements SagaContract. *)

\* While no complete row exists an unchanged or merely undone database keeps
\* its outcome; while one exists every change is work.
LEMMA ContractStep == ASSUME Restricted, SagaInv, [Next]_vars
                      PROVE  [Contract!Next]_(Contract!vars)
<1> DEFINE Goal == [Contract!Next]_(Contract!vars)
<1> USE DEF Contract!Next, Contract!vars, Contract!Open, Contract!Work, Contract!Close,
            Contract!Begin, Recoverable
<1>1. CASE Begin
  <2>1. ~Recoverable /\ ~Recoverable'
    BY <1>1 DEF Begin, SagaInv, LockInv, Recoverable
  <2>2. effect' = [k \in Steps |-> "undone"]
    BY <1>1, <2>1 DEF Begin
  <2>3. outcome' = "none"
    BY <2>2 DEF outcome, Applied, RolledBack
  <2>4. QED
    BY <2>1, <2>3
<1>2. ASSUME UNCHANGED effect PROVE Goal
  <2>1. UNCHANGED outcome
    BY <1>2 DEF outcome, Applied, RolledBack
  <2>2. CASE ~Recoverable \/ Recoverable'
    BY <2>1, <2>2
  <2>3. CASE Recoverable /\ ~Recoverable'
    <3>1. SagaInv'
      BY InvStep
    <3>2. (Applied \/ RolledBack)'
      BY <2>3, <3>1 DEF SagaInv, Atomic
    <3>3. outcome' # "mixed"
      BY <3>2 DEF outcome
    <3>4. QED
      BY <2>1, <2>3, <3>3
  <2>4. QED
    BY <2>2, <2>3
<1>3. ASSUME effect' # effect, ~Begin PROVE Goal
  <2>1. runs' = runs /\ log' = log
    BY <1>3 DEF vars, db, Next, HandlerStep, RecovererStep, Advance, Disturb, CreateLog, LogStep,
           FinishRun, SkipFinish, DeleteLog, Unlock, LogAges, ReadLog, StartRecovery,
           FailCreateLog, FailLogStep, FailDeleteLog, Crash, LockExpires, Execute, FailExecute,
           Undo, FailUndo
  <2>2. Recoverable /\ Recoverable'
    BY <1>3, <2>1, WriteAheadStep DEF Recoverable
  <2>3. outcome' \in {"none", "mixed", "all"}
    BY DEF outcome
  <2>4. QED
    BY <2>2, <2>3
<1>4. QED
  BY <1>1, <1>2, <1>3

\* The log-and-undo protocol keeps the promise of SagaContract: outside of an
\* open log the operation is visible as a whole or not at all.
THEOREM Refinement == ASSUME Restricted PROVE Spec => Implements
<1>1. Init => Contract!Init
  BY DEF Init, Contract!Init, outcome, Applied, RolledBack, Recoverable
<1>2. SagaInv /\ [Next]_vars => [Contract!Next]_(Contract!vars)
  BY ContractStep
<1>3. QED
  BY Invariance, <1>1, <1>2, PTL DEF Spec, Implements, Contract!Spec

-----------------------------------------------------------------------------
(* The locker.                                                             *)

USE LockerAssumption

\* A request's keys are keys.
LEMMA KeysOfType == ASSUME LockerTypeOK, NEW r \in Requests PROVE KeysOf(r) \subseteq Keys
BY DEF LockerTypeOK, KeysOf, Target, Keys, Resource, Edits

\* After SET every key of the request stands, and a key that stood still does.
LEMMA SetKeysFacts ==
    ASSUME LockerTypeOK, NEW r \in Requests, SetKeys(r)
    PROVE  /\ ttl' \in [Keys -> {"none", "short", "long"}]
           /\ leaked' \subseteq Keys
           /\ \A k \in KeysOf(r) : ttl'[k] # "none"
           /\ \A k \in Keys : ttl[k] # "none" => ttl'[k] # "none"
BY KeysOfType DEF LockerTypeOK, SetKeys, TtlOf

\* After a DEL, or when a key expires, the keys of the requests that remain
\* intact stand as before.
LEMMA DropKeysFacts ==
    ASSUME LockerTypeOK, NEW S \in SUBSET Keys, DropKeys(S)
    PROVE  /\ ttl' \in [Keys -> {"none", "short", "long"}]
           /\ leaked' \subseteq Keys
           /\ intact' \subseteq intact
           /\ \A q \in intact' : \A k \in KeysOf(q) : ttl'[k] = ttl[k]
BY KeysOfType DEF LockerTypeOK, DropKeys

-----------------------------------------------------------------------------
\* Every step keeps the types.
LEMMA LockerTypeStep == ASSUME LockerTypeOK, Order, [LockerNext]_lockerVars PROVE LockerTypeOK'
<1> USE DEF LockerTypeOK, StepTo
<1>1. ASSUME NEW r \in Requests, Arrive(r) PROVE LockerTypeOK'
  BY <1>1 DEF Arrive
<1>2. ASSUME NEW r \in Requests, FindFree(r) PROVE LockerTypeOK'
  BY <1>2 DEF FindFree
<1>3. ASSUME NEW r \in Requests, FindLocked(r) PROVE LockerTypeOK'
  BY <1>3 DEF FindLocked
<1>4. ASSUME NEW r \in Requests, Set(r) PROVE LockerTypeOK'
  BY <1>4, SetKeysFacts DEF Set, AfterSet
<1>5. ASSUME NEW r \in Requests, ActionFree(r) PROVE LockerTypeOK'
  <2>1. checked[r] + 1 \in 0..2
    BY <1>5 DEF ActionFree, Order
  <2>2. QED
    BY <1>5, <2>1 DEF ActionFree
<1>6. ASSUME NEW r \in Requests, ActionLocked(r) PROVE LockerTypeOK'
  BY <1>6 DEF ActionLocked
<1>7. ASSUME NEW r \in Requests, EndWork(r) PROVE LockerTypeOK'
  BY <1>7 DEF EndWork
<1>8. ASSUME NEW r \in Requests, UnlockKeys(r) \/ UnlockAbandoned(r) PROVE LockerTypeOK'
  <2>1. DropKeys(KeysOf(r)) /\ KeysOf(r) \in SUBSET Keys
    BY <1>8, KeysOfType DEF UnlockKeys, UnlockAbandoned
  <2>2. QED
    BY <1>8, <2>1, DropKeysFacts DEF UnlockKeys, UnlockAbandoned
<1>9. ASSUME NEW r \in Requests, Recover(r) PROVE LockerTypeOK'
  <2>1. {Resource(Target(r)), <<"merge", Target(r)>>} \in SUBSET Keys
    BY DEF Keys, Resource, Target
  <2>2. QED
    BY <1>9, <2>1, DropKeysFacts DEF Recover
<1>10. ASSUME NEW r \in Requests, SetUnreplicated(r) PROVE LockerTypeOK'
  BY <1>10, KeysOfType DEF SetUnreplicated, TtlOf
<1>11. ASSUME NEW r \in Requests, WorkFails(r) PROVE LockerTypeOK'
  BY <1>11, KeysOfType DEF WorkFails, AfterFailure
<1>12. ASSUME NEW r \in Requests, Die(r) PROVE LockerTypeOK'
  BY <1>12, KeysOfType DEF Die
<1>13. ASSUME NEW k \in Keys, Expire(k) PROVE LockerTypeOK'
  BY <1>13, DropKeysFacts DEF Expire
<1>14. CASE UNCHANGED lockerVars
  BY <1>14 DEF lockerVars
<1>15. QED
  BY <1>1, <1>2, <1>3, <1>4, <1>5, <1>6, <1>7, <1>8, <1>9, <1>10, <1>11, <1>12, <1>13, <1>14
     DEF LockerNext, Serve

-----------------------------------------------------------------------------
\* The invariant holds when no request has come.
LEMMA LockerInvInit == LockerInit => LockerInv
<1> SUFFICES ASSUME LockerInit PROVE LockerInv
  OBVIOUS
<1>1. LockerTypeOK
  <2>1. kind \in [Requests -> {"edit", "delete", "reorder", "merge"}]
    BY DEF LockerInit
  <2>2. QED
    BY <2>1 DEF LockerInit, LockerTypeOK
<1>2. KeysStand /\ Order /\ OneHolder
  BY DEF LockerInit, KeysStand, Order, OneHolder, Holding, Working
<1>3. QED
  BY <1>1, <1>2 DEF LockerInv

\* Steps that leave the keys alone and let no request advance to its work.
LEMMA QuietStep ==
    ASSUME LockerInv, LockerTypeOK', UNCHANGED <<ttl, kind, branch, checked, intact>>,
           \A r \in Requests : pc'[r] # pc[r] =>
               \/ pc'[r] \in {"unlock", "abandon", "orphan", "done"}
               \/ <<pc[r], pc'[r]>> \in {<<"idle", "check">>, <<"check", "recheck">>, <<"check", "set">>,
                                         <<"recheck", "set">>, <<"validate", "revalidate">>}
    PROVE  LockerInv'
<1> USE DEF LockerInv, Holding, Working, Whole, KeysOf, Target
<1>1. KeysStand'
  BY DEF KeysStand
<1>2. Order'
  BY DEF Order
<1>3. OneHolder'
  BY DEF OneHolder
<1>4. QED
  BY <1>1, <1>2, <1>3

\* Steps that delete keys: whoever loses one is intact no longer.
LEMMA DropStep ==
    ASSUME LockerInv, LockerTypeOK', UNCHANGED <<kind, branch, checked>>,
           NEW S \in SUBSET Keys, DropKeys(S),
           \A r \in Requests : pc'[r] # pc[r] => pc'[r] \in {"orphan", "done"}
    PROVE  LockerInv'
<1> USE DEF LockerInv, Holding, Working, Whole
<1>1. /\ intact' \subseteq intact
      /\ \A q \in intact' : \A k \in KeysOf(q) : ttl'[k] = ttl[k]
  BY DropKeysFacts
<1>2. \A q \in Requests : KeysOf(q)' = KeysOf(q) /\ Target(q)' = Target(q)
  BY DEF KeysOf, Target
<1>3. KeysStand'
  BY <1>1, <1>2 DEF KeysStand
<1>4. Order'
  BY <1>1 DEF Order
<1>5. OneHolder'
  BY <1>1, <1>2 DEF OneHolder
<1>6. QED
  BY <1>3, <1>4, <1>5

\* The keys are set: the request is intact if the tree was free, and then
\* whoever held it has lost its key.
LEMMA SetStep ==
    ASSUME LockerInv, LockerTypeOK', NEW r \in Requests, Set(r)
    PROVE  LockerInv'
<1> USE DEF LockerInv, Holding, Working, Whole
<1>1. /\ SetKeys(r)
      /\ intact' = IF ttl[Resource(Target(r))] = "none" THEN intact \cup {r} ELSE intact
      /\ pc[r] = "set"
      /\ pc' = [pc EXCEPT ![r] = IF kind[r] \in Edits THEN "work" ELSE "validate"]
      /\ UNCHANGED <<kind, branch, checked>>
  BY DEF Set, StepTo, AfterSet
<1>2. \A q \in Requests : KeysOf(q)' = KeysOf(q) /\ Target(q)' = Target(q)
  BY <1>1 DEF KeysOf, Target
<1>3. /\ \A k \in KeysOf(r) : ttl'[k] # "none"
      /\ \A k \in Keys : ttl[k] # "none" => ttl'[k] # "none"
  BY <1>1, SetKeysFacts
<1>4. \A q \in Requests : q # r => pc'[q] = pc[q] /\ (q \in intact' <=> q \in intact)
  BY <1>1 DEF LockerTypeOK
<1>5. pc'[r] = IF kind[r] \in Edits THEN "work" ELSE "validate"
  BY <1>1 DEF LockerTypeOK
<1>6. KeysStand'
  BY <1>2, <1>3, <1>4, KeysOfType DEF KeysStand
<1>7. Order'
  BY <1>1, <1>4, <1>5 DEF Order
<1>8. \A q \in Requests :
        q # r /\ kind[q] \notin Edits /\ Target(q) = Target(r) /\ Holding(q)
          => ~({r, q} \subseteq intact')
  BY <1>1, <1>4 DEF KeysStand, KeysOf, Order
<1>9. checked'[r] = 0
  BY <1>1 DEF Order
<1>10. OneHolder'
  BY <1>1, <1>2, <1>4, <1>8, <1>9 DEF OneHolder
<1>11. QED
  BY <1>6, <1>7, <1>10

\* The keys are set and the request gives up.
LEMMA SetUnreplicatedStep ==
    ASSUME LockerInv, LockerTypeOK', NEW r \in Requests, SetUnreplicated(r)
    PROVE  LockerInv'
<1> USE DEF LockerInv, Holding, Working, Whole
<1>1. /\ \A k \in Keys : ttl[k] # "none" => ttl'[k] # "none"
      /\ pc' = [pc EXCEPT ![r] = "done"]
      /\ UNCHANGED <<kind, branch, checked, intact>>
  BY DEF SetUnreplicated, StepTo, LockerTypeOK
<1>2. \A q \in Requests : KeysOf(q)' = KeysOf(q) /\ Target(q)' = Target(q)
  BY <1>1 DEF KeysOf, Target
<1>3. \A q \in Requests : pc'[q] = pc[q] \/ pc'[q] = "done"
  BY <1>1 DEF LockerTypeOK
<1>4. KeysStand'
  BY <1>1, <1>2, <1>3, KeysOfType DEF KeysStand
<1>5. Order'
  BY <1>1, <1>3 DEF Order
<1>6. OneHolder'
  BY <1>1, <1>2, <1>3 DEF OneHolder
<1>7. QED
  BY <1>4, <1>5, <1>6

\* An action key is found free: no edit that set it still relies on it.
LEMMA ActionFreeStep ==
    ASSUME LockerInv, LockerTypeOK', NEW r \in Requests, ActionFree(r)
    PROVE  LockerInv'
<1> USE DEF LockerInv, Holding, Working, Whole
<1>1. /\ pc[r] \in {"validate", "revalidate"}
      /\ pc' = [pc EXCEPT ![r] = IF kind[r] = "merge" /\ checked[r] = 0 THEN "validate" ELSE "work"]
      /\ checked' = [checked EXCEPT ![r] = checked[r] + 1]
      /\ UNCHANGED <<ttl, kind, branch, intact>>
  BY DEF ActionFree, StepTo
<1>2. \A q \in Requests : KeysOf(q)' = KeysOf(q) /\ Target(q)' = Target(q)
  BY <1>1 DEF KeysOf, Target
<1>3. \A q \in Requests : q # r => pc'[q] = pc[q] /\ checked'[q] = checked[q]
  BY <1>1 DEF LockerTypeOK
<1>4. /\ pc'[r] = IF kind[r] = "merge" /\ checked[r] = 0 THEN "validate" ELSE "work"
      /\ checked'[r] = checked[r] + 1
      /\ kind[r] \notin Edits
  BY <1>1 DEF LockerTypeOK, Order
<1>5. KeysStand'
  BY <1>1, <1>2, <1>3 DEF KeysStand
<1>6. Order'
  BY <1>1, <1>3, <1>4 DEF Order, LockerTypeOK
<1>7. ASSUME NEW q \in Requests, q # r, kind[q] \in Edits, Target(r) = Target(q), Holding(q),
             checked[r] = 0
      PROVE  q \notin intact
  <2>1. ttl[NextValidation(r)] = "none"
    BY DEF ActionFree
  <2>2. NextValidation(r) \in KeysOf(q)
    <3>1. CASE kind[r] = "reorder"
      BY <3>1, <1>7 DEF NextValidation, Validations, KeysOf, Target
    <3>2. CASE kind[r] = "merge"
      BY <3>2, <1>7 DEF NextValidation, Validations, KeysOf, Target
    <3>3. QED
      BY <1>4, <3>1, <3>2 DEF LockerTypeOK, Edits
  <2>3. QED
    BY <1>7, <2>1, <2>2 DEF KeysStand
<1>8. OneHolder'
  <2> SUFFICES ASSUME NEW p \in Requests, NEW q \in Requests, p # q, kind[p] \notin Edits,
                      Target(p) = Target(q), Holding(p)', Holding(q)',
                      kind[q] \notin Edits \/ checked'[p] >= 1
               PROVE  ~({p, q} \subseteq intact)
    BY <1>1, <1>2 DEF OneHolder
  <2>1. Holding(p) /\ Holding(q)
    BY <1>1, <1>3
  <2>2. CASE kind[q] \notin Edits \/ checked[p] >= 1
    BY <2>1, <2>2 DEF OneHolder
  <2>3. CASE p = r /\ kind[q] \in Edits /\ checked[r] = 0
    BY <1>7, <2>1, <2>3
  <2>4. QED
    BY <1>3, <2>2, <2>3 DEF LockerTypeOK
<1>9. QED
  BY <1>5, <1>6, <1>8

\* Every step keeps the invariant.
LEMMA LockerInvStep == ASSUME LockerInv, [LockerNext]_lockerVars PROVE LockerInv'
<1> USE DEF StepTo
<1>1. LockerTypeOK /\ LockerTypeOK'
  BY LockerTypeStep DEF LockerInv
<1>2. ASSUME NEW r \in Requests, Set(r) PROVE LockerInv'
  BY <1>1, <1>2, SetStep
<1>3. ASSUME NEW r \in Requests, ActionFree(r) PROVE LockerInv'
  BY <1>1, <1>3, ActionFreeStep
<1>4. ASSUME NEW r \in Requests, SetUnreplicated(r) PROVE LockerInv'
  BY <1>1, <1>4, SetUnreplicatedStep
<1>5. ASSUME NEW r \in Requests,
             Arrive(r) \/ FindFree(r) \/ FindLocked(r) \/ ActionLocked(r) \/ EndWork(r) \/ WorkFails(r) \/ Die(r)
      PROVE  LockerInv'
  <2>1. UNCHANGED <<ttl, kind, branch, checked, intact>>
    BY <1>5 DEF Arrive, FindFree, FindLocked, ActionLocked, EndWork, WorkFails, Die
  <2>2. \A q \in Requests : pc'[q] # pc[q] =>
               \/ pc'[q] \in {"unlock", "abandon", "orphan", "done"}
               \/ <<pc[q], pc'[q]>> \in {<<"idle", "check">>, <<"check", "recheck">>, <<"check", "set">>,
                                         <<"recheck", "set">>, <<"validate", "revalidate">>}
    BY <1>1, <1>5 DEF Arrive, FindFree, FindLocked, ActionLocked, EndWork, WorkFails, AfterFailure, Die, LockerTypeOK
  <2>3. QED
    BY <1>1, <2>1, <2>2, QuietStep
<1>6. ASSUME NEW r \in Requests, UnlockKeys(r) \/ UnlockAbandoned(r) PROVE LockerInv'
  <2>1. DropKeys(KeysOf(r)) /\ KeysOf(r) \in SUBSET Keys
    BY <1>1, <1>6, KeysOfType DEF UnlockKeys, UnlockAbandoned
  <2>2. \A q \in Requests : pc'[q] # pc[q] => pc'[q] \in {"orphan", "done"}
    BY <1>1, <1>6 DEF UnlockKeys, UnlockAbandoned, LockerTypeOK
  <2>3. UNCHANGED <<kind, branch, checked>>
    BY <1>6 DEF UnlockKeys, UnlockAbandoned
  <2>4. QED
    BY <1>1, <2>1, <2>2, <2>3, DropStep
<1>7. ASSUME NEW r \in Requests, Recover(r) PROVE LockerInv'
  <2> DEFINE S == {Resource(Target(r)), <<"merge", Target(r)>>}
  <2>1. DropKeys(S) /\ S \in SUBSET Keys
    BY <1>1, <1>7 DEF Recover, Keys, Resource, Target, LockerTypeOK
  <2>2. \A q \in Requests : pc'[q] # pc[q] => pc'[q] \in {"orphan", "done"}
    BY <1>1, <1>7 DEF Recover, LockerTypeOK
  <2>3. UNCHANGED <<kind, branch, checked>>
    BY <1>7 DEF Recover
  <2> HIDE DEF S
  <2>4. QED
    BY <1>1, <2>1, <2>2, <2>3, DropStep
<1>8. ASSUME NEW k \in Keys, Expire(k) PROVE LockerInv'
  <2>1. DropKeys({k}) /\ UNCHANGED <<kind, branch, pc, checked>>
    BY <1>8 DEF Expire
  <2>2. QED
    BY <1>1, <2>1, DropStep
<1>9. CASE UNCHANGED lockerVars
  <2>1. UNCHANGED <<ttl, kind, branch, checked, intact, pc>>
    BY <1>9 DEF lockerVars
  <2>2. QED
    BY <1>1, <2>1, QuietStep
<1>10. QED
  BY <1>2, <1>3, <1>4, <1>5, <1>6, <1>7, <1>8, <1>9 DEF LockerNext, Serve

-----------------------------------------------------------------------------
\* Types, the order of lock and validation, and who can still rely on its keys
\* (lock_resource, lock_resource_actions and the handlers that call them).
THEOREM LockerInvariance == LockerSpec => []LockerInv
<1>1. LockerInv /\ [LockerNext]_lockerVars => LockerInv'
  BY LockerInvStep
<1>2. QED
  BY LockerInvInit, <1>1, PTL DEF LockerSpec

\* Exclusion can fail only through a SET that comes too late after its EXISTS,
\* or the loss of a key that one of the two requests still relies on.
THEOREM ConditionalExclusion == LockerSpec => []Exclusion
<1>1. LockerInv => Exclusion
  BY DEF LockerInv, Order, OneHolder, Exclusion, Holding, Working
<1>2. QED
  BY LockerInvariance, <1>1, PTL

-----------------------------------------------------------------------------
\* Requests whose keys are set and who will still delete them.
Owing(r) == Busy(r) /\ pc[r] \notin {"check", "recheck", "set"}

\* A step that leaves the keys alone, or adds to the leaked ones, keeps them
\* accounted for as long as who ends leaves his own to the leaked.
LEMMA NoLeakQuiet ==
    ASSUME NoLeak, UNCHANGED <<ttl, kind, branch>>, leaked \subseteq leaked',
           \A r \in Requests : Owing(r) => Owing(r)' \/ KeysOf(r) \subseteq leaked'
    PROVE  NoLeak'
<1>1. \A r \in Requests : KeysOf(r)' = KeysOf(r)
  BY DEF KeysOf, Target
<1>2. ASSUME NEW k \in Keys, ttl[k] # "none", k \notin leaked'
      PROVE  \E r \in Requests : k \in KeysOf(r) /\ Owing(r)'
  <2>1. PICK r \in Requests : k \in KeysOf(r) /\ Owing(r)
    BY <1>2 DEF NoLeak, Owing
  <2> QED
    BY <1>2, <2>1
<1> QED
  BY <1>1, <1>2 DEF NoLeak, Owing

\* So does one that deletes keys, if who ends deletes his own.
LEMMA NoLeakDrop ==
    ASSUME LockerTypeOK, NoLeak, NEW S \in SUBSET Keys, DropKeys(S), UNCHANGED <<kind, branch>>,
           \A r \in Requests : Owing(r) => Owing(r)' \/ KeysOf(r) \subseteq S
    PROVE  NoLeak'
<1>1. \A r \in Requests : KeysOf(r)' = KeysOf(r)
  BY DEF KeysOf, Target
<1>2. \A k \in Keys : ttl'[k] # "none" /\ k \notin leaked' => k \notin S /\ ttl[k] # "none" /\ k \notin leaked
  BY DEF DropKeys
<1>3. ASSUME NEW k \in Keys, ttl'[k] # "none", k \notin leaked'
      PROVE  \E r \in Requests : k \in KeysOf(r) /\ Owing(r)'
  <2>1. PICK r \in Requests : k \in KeysOf(r) /\ Owing(r)
    BY <1>2, <1>3 DEF NoLeak, Owing
  <2> QED
    BY <1>2, <1>3, <2>1
<1> QED
  BY <1>1, <1>3 DEF NoLeak, Owing

\* Every step keeps the keys that stand accounted for.
LEMMA NoLeakStep == ASSUME LockerTypeOK, NoLeak, [LockerNext]_lockerVars PROVE NoLeak'
<1>1. ASSUME NEW r \in Requests, Set(r)
      PROVE  NoLeak'
  <2>1. /\ SetKeys(r) /\ pc[r] = "set" /\ UNCHANGED <<kind, branch>>
        /\ pc' = [pc EXCEPT ![r] = IF kind[r] \in Edits THEN "work" ELSE "validate"]
    BY <1>1 DEF Set, StepTo, AfterSet
  <2>2. \A q \in Requests : KeysOf(q)' = KeysOf(q)
    BY <2>1 DEF KeysOf, Target
  <2>3. Owing(r)' /\ \A q \in Requests \ {r} : Owing(q)' = Owing(q)
    BY <2>1 DEF LockerTypeOK, Owing, Busy
  <2>4. ~Owing(r)
    BY <2>1 DEF Owing
  <2>5. ASSUME NEW k \in Keys, ttl'[k] # "none", k \notin leaked'
        PROVE  \E q \in Requests : k \in KeysOf(q) /\ Owing(q)'
    <3>1. CASE k \in KeysOf(r)
      BY <2>3, <3>1
    <3>2. CASE k \notin KeysOf(r)
      <4>1. ttl[k] # "none" /\ k \notin leaked
        BY <2>1, <2>5, <3>2 DEF SetKeys
      <4>2. PICK q \in Requests : k \in KeysOf(q) /\ Owing(q)
        BY <4>1 DEF NoLeak, Owing
      <4> QED
        BY <2>3, <2>4, <4>2
    <3> QED
      BY <3>1, <3>2
  <2> QED
    BY <2>2, <2>5 DEF NoLeak, Owing
<1>2. ASSUME NEW r \in Requests, SetUnreplicated(r)
      PROVE  NoLeak'
  <2>1. /\ pc[r] = "set" /\ pc' = [pc EXCEPT ![r] = "done"] /\ UNCHANGED <<kind, branch>>
        /\ leaked' = leaked \cup KeysOf(r)
        /\ \A k \in Keys : k \notin KeysOf(r) => ttl'[k] = ttl[k]
    BY <1>2 DEF SetUnreplicated, StepTo
  <2>2. \A q \in Requests : KeysOf(q)' = KeysOf(q)
    BY <2>1 DEF KeysOf, Target
  <2>3. ~Owing(r) /\ \A q \in Requests \ {r} : Owing(q)' = Owing(q)
    BY <2>1 DEF LockerTypeOK, Owing, Busy
  <2>4. ASSUME NEW k \in Keys, ttl'[k] # "none", k \notin leaked'
        PROVE  \E q \in Requests : k \in KeysOf(q) /\ Owing(q)'
    <3>1. ttl[k] # "none" /\ k \notin leaked
      BY <2>1, <2>4
    <3>2. PICK q \in Requests : k \in KeysOf(q) /\ Owing(q)
      BY <3>1 DEF NoLeak, Owing
    <3> QED
      BY <2>3, <3>2
  <2> QED
    BY <2>2, <2>4 DEF NoLeak, Owing
<1>3. ASSUME NEW r \in Requests,
             Arrive(r) \/ FindFree(r) \/ FindLocked(r) \/ ActionFree(r) \/ ActionLocked(r) \/ EndWork(r)
      PROVE  NoLeak'
  <2>1. UNCHANGED <<ttl, kind, branch, leaked>>
    BY <1>3 DEF Arrive, FindFree, FindLocked, ActionFree, ActionLocked, EndWork
  <2>2. ASSUME NEW q \in Requests, Owing(q)
        PROVE  Owing(q)'
    BY <1>3, <2>2 DEF Arrive, FindFree, FindLocked, ActionFree, ActionLocked, EndWork, StepTo, LockerTypeOK, Owing, Busy
  <2> QED
    BY <2>1, <2>2, NoLeakQuiet
<1>4. ASSUME NEW r \in Requests, WorkFails(r)
      PROVE  NoLeak'
  <2>1. UNCHANGED <<ttl, kind, branch>> /\ leaked \subseteq leaked'
    BY <1>4 DEF WorkFails
  <2>2. ASSUME NEW q \in Requests, Owing(q)
        PROVE  Owing(q)' \/ KeysOf(q) \subseteq leaked'
    BY <1>4, <2>2 DEF WorkFails, AfterFailure, StepTo, LockerTypeOK, Owing, Busy
  <2> QED
    BY <2>1, <2>2, NoLeakQuiet
<1>5. ASSUME NEW r \in Requests, Die(r)
      PROVE  NoLeak'
  <2>1. UNCHANGED <<ttl, kind, branch>> /\ leaked \subseteq leaked'
    BY <1>5 DEF Die
  <2>2. ASSUME NEW q \in Requests, Owing(q)
        PROVE  Owing(q)' \/ KeysOf(q) \subseteq leaked'
    BY <1>5, <2>2 DEF Die, StepTo, LockerTypeOK, Owing, Busy
  <2> QED
    BY <2>1, <2>2, NoLeakQuiet
<1>6. ASSUME NEW r \in Requests, UnlockKeys(r) \/ UnlockAbandoned(r)
      PROVE  NoLeak'
  <2>1. DropKeys(KeysOf(r)) /\ KeysOf(r) \in SUBSET Keys /\ UNCHANGED <<kind, branch>>
    BY <1>6, KeysOfType DEF UnlockKeys, UnlockAbandoned
  <2>2. ASSUME NEW q \in Requests, Owing(q)
        PROVE  Owing(q)' \/ KeysOf(q) \subseteq KeysOf(r)
    BY <1>6, <2>2 DEF UnlockKeys, UnlockAbandoned, StepTo, LockerTypeOK, Owing, Busy
  <2> QED
    BY <2>1, <2>2, NoLeakDrop
<1>7. ASSUME NEW r \in Requests, Recover(r)
      PROVE  NoLeak'
  <2> DEFINE S == {Resource(Target(r)), <<"merge", Target(r)>>}
  <2>1. DropKeys(S) /\ S \in SUBSET Keys /\ UNCHANGED <<kind, branch>>
    BY <1>7 DEF Recover, Keys, Resource, Target, LockerTypeOK
  <2> HIDE DEF S
  <2>2. ASSUME NEW q \in Requests, Owing(q)
        PROVE  Owing(q)'
    BY <1>7, <2>2 DEF Recover, StepTo, LockerTypeOK, Owing, Busy
  <2> QED
    BY <2>1, <2>2, NoLeakDrop
<1>8. ASSUME NEW k \in Keys, Expire(k)
      PROVE  NoLeak'
  <2>1. DropKeys({k}) /\ UNCHANGED <<kind, branch, pc>>
    BY <1>8 DEF Expire
  <2>2. \A q \in Requests : Owing(q)' = Owing(q)
    BY <2>1 DEF Owing, Busy
  <2> QED
    BY <2>1, <2>2, NoLeakDrop
<1>9. CASE UNCHANGED lockerVars
  BY <1>9 DEF lockerVars, NoLeak, KeysOf, Target, Busy
<1> QED
  BY <1>1, <1>2, <1>3, <1>4, <1>5, <1>6, <1>7, <1>8, <1>9 DEF LockerNext, Serve

\* No path through lock_resource, the handlers and the recovery forgets a key:
\* one that stands belongs to a request that will still delete it, or was left
\* by one that failed or died.
THEOREM KeysAccountedFor == LockerSpec => []NoLeak
<1>1. LockerInit => NoLeak
  BY DEF LockerInit, NoLeak, Keys
<1>2. LockerInv /\ NoLeak /\ [LockerNext]_lockerVars => NoLeak'
  BY NoLeakStep DEF LockerInv
<1> QED
  BY <1>1, <1>2, LockerInvariance, PTL DEF LockerSpec

\* Every variable keeps its type: no time to live, kind of request or place in
\* a handler but those there are, and no more validations than a merge makes.
THEOREM LockerTypes == LockerSpec => []LockerTypeOK
<1>1. LockerInv => LockerTypeOK
  BY DEF LockerInv
<1> QED
  BY <1>1, LockerInvariance, PTL
=============================================================================
