-------------------------------- MODULE Saga --------------------------------
(***************************************************************************)
(* The recovery-log protocol that Node::reorder, NodeDelete and            *)
(* BranchMerge share (models/recovery.rs; the control structure is         *)
(* translated from models/node/reorder.rs, whose execute/recover pair the  *)
(* other two repeat step for step).                                        *)
(*                                                                         *)
(* A request handler executes steps 1..LastStep, writing the number of     *)
(* each step to a log row before executing it.  Any database error turns   *)
(* it round: it undoes the steps from the failing one down to 1 and then   *)
(* deletes the log row.  A process that dies leaves the row behind; the    *)
(* periodic task of every server instance picks up rows older than three   *)
(* minutes and undoes them from the logged step.                           *)
(*                                                                         *)
(* A step writes many rows in unlogged, chunked batches, so a failed step  *)
(* may have been applied in part, and an error reply does not say that     *)
(* nothing was written.                                                    *)
(***************************************************************************)
EXTENDS Integers

CONSTANTS
    LastStep,       \* the last step before Finish (11, 16, 22 in the code)
    Irreversible,   \* steps whose undo does nothing (undo_push_new_editors)
    Handler,        \* the process that serves the request
    Recoverers,     \* the server instances that run the recovery task
    SlowHandler,    \* may a live handler outlast RECOVERY_INTERVAL_MIN?
    LostDeleteAck,  \* may the deletion of the log row fail and yet be done?
    UnlockOnError,  \* does the API handler release the lock after an error?
    MaxRuns,        \* bound: requests started
    MaxFaults       \* bound: crashes and database errors

ASSUME SagaAssumption ==
    /\ LastStep \in Nat \ {0}
    /\ Irreversible \subseteq 1..LastStep
    /\ Handler \notin Recoverers
    /\ SlowHandler \in BOOLEAN
    /\ LostDeleteAck \in BOOLEAN
    /\ UnlockOnError \in BOOLEAN
    /\ MaxRuns \in Nat
    /\ MaxFaults \in Nat

VARIABLES
    effect,     \* what the database holds of each step
    log,        \* the recoveries row: none, fresh, old (updated_at is
                \* RECOVERY_INTERVAL_MIN ago), or a stub with a step only
    logStep,    \* its step column
    lock,       \* the resource lock the request holds
    mode,       \* what each process is doing
    step,       \* its reorder_step
    phase,      \* is it to log the current step or to act on it?
    runs, faults

vars == <<effect, log, logStep, lock, mode, step, phase, runs, faults>>
db == <<effect, log, logStep>>
proc == <<mode, step, phase>>

Start == 0
Finish == LastStep + 1
Steps == 1..LastStep
Processes == {Handler} \cup Recoverers

TypeOK ==
    /\ effect \in [Steps -> {"undone", "partial", "done"}]
    /\ log \in {"none", "stub", "fresh", "old"}
    /\ logStep \in 0..LastStep
    /\ lock \in {"free", "held"}
    /\ mode \in [Processes -> {"idle", "forward", "read", "backward", "closing"}]
    /\ step \in [Processes -> Start..Finish]
    /\ phase \in [Processes -> {"log", "act"}]
    /\ runs \in 0..MaxRuns
    /\ faults \in 0..MaxFaults

Init ==
    /\ effect = [k \in Steps |-> "undone"]
    /\ log = "none"
    /\ logStep = 0
    /\ lock = "free"
    /\ mode = [p \in Processes |-> "idle"]
    /\ step = [p \in Processes |-> Start]
    /\ phase = [p \in Processes |-> "log"]
    /\ runs = 0
    /\ faults = 0

-----------------------------------------------------------------------------
(* Helpers *)

\* The row is complete: the query by updated_at will find it.
Recoverable == log \in {"fresh", "old"}

At(p, m, k) == mode[p] = m /\ step[p] = k
InStep(p, modes, ph) == mode[p] \in modes /\ step[p] \in Steps /\ phase[p] = ph

\* The process moves on to step k in mode m.
GoTo(p, m, k) ==
    /\ mode' = [mode EXCEPT ![p] = m]
    /\ step' = [step EXCEPT ![p] = k]
    /\ phase' = [phase EXCEPT ![p] = "log"]

\* A failed batch may have written nothing, some of its rows or all of them.
\* What is already there is written again unchanged.
AfterFailedExecute(e) ==
    CASE e = "undone" -> {"undone", "partial", "done"}
      [] e = "partial" -> {"partial", "done"}
      [] e = "done" -> {"done"}

AfterFailedUndo(e) ==
    CASE e = "undone" -> {"undone"}
      [] e = "partial" -> {"partial", "undone"}
      [] e = "done" -> {"done", "partial", "undone"}

\* undo_push_new_editors returns Ok and leaves the editors where they are.
UndoneForgetsFirst(k) == IF k \in Irreversible \cup {1} THEN effect[k] ELSE "undone"
Undone(k) == IF k \in Irreversible THEN effect[k] ELSE "undone"

-----------------------------------------------------------------------------
(* The forward direction: execute_reorder *)

\* A request takes the lock.  A fresh operation starts from an unchanged
\* database; one whose predecessor's log is still there finds what that left.
Begin ==
    /\ lock = "free"
    /\ mode[Handler] = "idle"
    /\ runs < MaxRuns
    /\ lock' = "held"
    /\ GoTo(Handler, "forward", Start)
    /\ effect' = IF Recoverable THEN effect ELSE [k \in Steps |-> "undone"]
    /\ runs' = runs + 1
    /\ UNCHANGED <<log, logStep, faults>>

\* ReorderStep::Start: create_recovery_log inserts the whole row.
CreateLog ==
    /\ At(Handler, "forward", Start)
    /\ log' = "fresh"
    /\ logStep' = 0
    /\ GoTo(Handler, "forward", 1)
    /\ UNCHANGED <<effect, lock, runs, faults>>

\* update_recovery_log_step, in either direction.  It is an upsert: when the
\* row has gone it leaves one without data and without updated_at.
Upserted == IF log = "none" THEN "stub" ELSE log

LogStepAfterwards(p) ==
    /\ InStep(p, {"forward", "backward"}, "log")
    /\ log' = Upserted
    /\ logStep' = step[p] - 1
    /\ phase' = [phase EXCEPT ![p] = "act"]
    /\ UNCHANGED <<effect, lock, mode, step, runs, faults>>

LogNextStep(p) ==
    /\ InStep(p, {"forward", "backward"}, "log")
    /\ log' = Upserted
    /\ logStep' = step[p] + 1
    /\ phase' = [phase EXCEPT ![p] = "act"]
    /\ UNCHANGED <<effect, lock, mode, step, runs, faults>>

LogStep(p) ==
    /\ InStep(p, {"forward", "backward"}, "log")
    /\ log' = Upserted
    /\ logStep' = step[p]
    /\ phase' = [phase EXCEPT ![p] = "act"]
    /\ UNCHANGED <<effect, lock, mode, step, runs, faults>>

Execute ==
    /\ InStep(Handler, {"forward"}, "act")
    /\ effect' = [effect EXCEPT ![step[Handler]] = "done"]
    /\ GoTo(Handler, "forward", step[Handler] + 1)
    /\ UNCHANGED <<log, logStep, lock, runs, faults>>

\* ReorderStep::Finish: delete_recovery_log.
FinishRun ==
    /\ At(Handler, "forward", Finish)
    /\ log' = "none"
    /\ GoTo(Handler, "closing", Finish)
    /\ UNCHANGED <<effect, logStep, lock, runs, faults>>

-----------------------------------------------------------------------------
(* The backward direction: recover, by the handler or by a recoverer *)

UndoAgain(p) ==
    /\ InStep(p, {"backward"}, "act")
    /\ effect' = [effect EXCEPT ![step[p]] = Undone(step[p])]
    /\ GoTo(p, "backward", step[p])
    /\ UNCHANGED <<log, logStep, lock, runs, faults>>

Undo(p) ==
    /\ InStep(p, {"backward"}, "act")
    /\ effect' = [effect EXCEPT ![step[p]] = Undone(step[p])]
    /\ GoTo(p, "backward", step[p] - 1)
    /\ UNCHANGED <<log, logStep, lock, runs, faults>>

StayAtFinish ==
    /\ At(Handler, "backward", Finish)
    /\ GoTo(Handler, "backward", Finish)
    /\ UNCHANGED <<db, lock, runs, faults>>

\* "should not recover finished process": logged, and the loop goes on below.
SkipFinish ==
    /\ At(Handler, "backward", Finish)
    /\ GoTo(Handler, "backward", LastStep)
    /\ UNCHANGED <<db, lock, runs, faults>>

\* What a process does when it returns: recover_from_log unlocks, and so does
\* the merge handler; reorder_nodes keeps the lock after a database error.
Leave(p) == IF p \in Recoverers \/ UnlockOnError THEN "closing" ELSE "idle"

DeleteLog(p) ==
    /\ At(p, "backward", Start)
    /\ log' = "none"
    /\ GoTo(p, Leave(p), Start)
    /\ UNCHANGED <<effect, logStep, lock, runs, faults>>

\* DEL of the lock key, whoever holds it.
Unlock(p) ==
    /\ mode[p] = "closing"
    /\ lock' = "free"
    /\ GoTo(p, "idle", Start)
    /\ UNCHANGED <<db, runs, faults>>

-----------------------------------------------------------------------------
(* The recovery task *)

\* Three minutes pass after the insert; later updates do not renew the row.
LogAges ==
    /\ log = "fresh"
    /\ ~SlowHandler => mode[Handler] = "idle"
    /\ log' = "old"
    /\ UNCHANGED <<effect, logStep, lock, proc, runs, faults>>

\* The query returns the row with the step it had at that time.  The check of
\* the Recover lock that follows is made with retry = false and never fails.
ReadLog(r) ==
    /\ mode[r] = "idle"
    /\ log = "old"
    /\ GoTo(r, "read", logStep)
    /\ UNCHANGED <<db, lock, runs, faults>>

StartRecovery(r) ==
    /\ mode[r] = "read"
    /\ GoTo(r, "backward", step[r])
    /\ UNCHANGED <<db, lock, runs, faults>>

-----------------------------------------------------------------------------
(* Errors, crashes and the lock's time to live *)

\* An error turns the forward loop round at the step it is at; an error while
\* undoing is fatal and leaves the log row to the recovery task.
FailTo(p) ==
    IF mode[p] = "forward"
      THEN GoTo(p, "backward", step[p])
      ELSE GoTo(p, IF p = Handler THEN Leave(p) ELSE "idle", Start)

Fault == faults < MaxFaults /\ faults' = faults + 1

FailCreateLog ==
    /\ Fault
    /\ At(Handler, "forward", Start)
    /\ \E written \in BOOLEAN :
         /\ log' = IF written THEN "fresh" ELSE log
         /\ logStep' = IF written THEN 0 ELSE logStep
    /\ FailTo(Handler)
    /\ UNCHANGED <<effect, lock, runs>>

FailLogStep(p) ==
    /\ Fault
    /\ InStep(p, {"forward", "backward"}, "log")
    /\ \E written \in BOOLEAN :
         /\ log' = IF written THEN Upserted ELSE log
         /\ logStep' = IF written THEN step[p] ELSE logStep
    /\ FailTo(p)
    /\ UNCHANGED <<effect, lock, runs>>

FailExecute ==
    /\ Fault
    /\ InStep(Handler, {"forward"}, "act")
    /\ \E e \in AfterFailedExecute(effect[step[Handler]]) :
         effect' = [effect EXCEPT ![step[Handler]] = e]
    /\ FailTo(Handler)
    /\ UNCHANGED <<log, logStep, lock, runs>>

FailUndo(p) ==
    /\ Fault
    /\ InStep(p, {"backward"}, "act")
    /\ step[p] \notin Irreversible
    /\ \E e \in AfterFailedUndo(effect[step[p]]) :
         effect' = [effect EXCEPT ![step[p]] = e]
    /\ FailTo(p)
    /\ UNCHANGED <<log, logStep, lock, runs>>

FailDeleteLog(p) ==
    /\ Fault
    /\ mode[p] \in {"forward", "backward"}
    /\ step[p] = IF mode[p] = "forward" THEN Finish ELSE Start
    /\ log' \in IF LostDeleteAck THEN {log, "none"} ELSE {log}
    /\ FailTo(p)
    /\ UNCHANGED <<effect, logStep, lock, runs>>

\* The process dies between two calls to the database.
Crash(p) ==
    /\ Fault
    /\ mode[p] # "idle"
    /\ GoTo(p, "idle", Start)
    /\ UNCHANGED <<db, lock, runs>>

\* The key's TTL is an hour, twenty rounds of the recovery task: it is taken
\* to run out only when nothing works on the log and no log is left to work on.
LockExpires ==
    /\ lock = "held"
    /\ ~Recoverable
    /\ \A p \in Processes : mode[p] = "idle"
    /\ lock' = "free"
    /\ UNCHANGED <<db, proc, runs, faults>>

-----------------------------------------------------------------------------
Advance(p) == LogStep(p) \/ Undo(p) \/ DeleteLog(p) \/ Unlock(p)

HandlerStep ==
    CreateLog \/ Execute \/ FinishRun \/ SkipFinish \/ Advance(Handler)

RecovererStep(r) == ReadLog(r) \/ StartRecovery(r) \/ Advance(r)

Disturb ==
    \/ FailCreateLog
    \/ FailExecute
    \/ \E p \in Processes : FailLogStep(p) \/ FailUndo(p) \/ FailDeleteLog(p) \/ Crash(p)

Next ==
    \/ Begin
    \/ HandlerStep
    \/ \E r \in Recoverers : RecovererStep(r)
    \/ LogAges
    \/ LockExpires
    \/ Disturb

\* Tokio keeps polling a handler that has not died, the recovery task runs
\* every three minutes, time passes and Redis expires keys.  No request is
\* ever obliged to come and no fault obliged to happen.
Fairness ==
    /\ WF_vars(HandlerStep)
    /\ \A r \in Recoverers : WF_vars(RecovererStep(r))
    /\ WF_vars(LogAges)
    /\ WF_vars(LockExpires)

Spec == Init /\ [][Next]_vars
FairSpec == Spec /\ Fairness

-----------------------------------------------------------------------------
(* Properties *)

Applied == \A k \in Steps : effect[k] = "done"
RolledBack == \A k \in Steps \ Irreversible : effect[k] = "undone"

\* Whenever no complete log row is left to recover from, the operation has
\* taken place as a whole or not at all: neither a crash nor a failed step
\* nor a failed undo strands it half way.  (RecoveryLog's doc comment,
\* recovery.rs:161-165.)
Atomic == ~Recoverable => Applied \/ RolledBack

\* Write-ahead: what the operation has in the database changes only while a
\* complete log row exists whose step covers the change (the order of "log
\* current step" and the match in execute_reorder and recover).
WriteAhead ==
    [][(effect' # effect /\ runs' = runs) =>
         /\ Recoverable
         /\ \A k \in Steps : effect'[k] # effect[k] => k <= logStep]_vars

\* A row that has reached the table is eventually dealt with: the run
\* finishes or its effects are undone (run_recovery_task).
RecoveryCompletes == Recoverable ~> ~Recoverable

\* The lock of a request is eventually free again, whatever became of it:
\* unlocked by the handler, by recover_from_log or by its TTL.
LockFreed == lock = "held" ~> lock = "free"

\* The inductive invariant.
Single == \A r, s \in Recoverers : r = s
Beyond(p) == \A k \in Steps \ Irreversible : k > step[p] => effect[k] = "undone"

\* Nothing is in the database beyond the logged step, nor beyond the step any
\* process is at.
Covered == Recoverable => \A k \in Steps \ Irreversible : k > logStep => effect[k] = "undone"
NothingBeyond ==
    \A p \in Processes : mode[p] \in {"forward", "read", "backward"} => Beyond(p)

\* While it goes forward everything below the step is done, and the row shows
\* the step it is about to execute.
ForwardInv ==
    mode[Handler] = "forward" =>
        /\ \A k \in Steps : k < step[Handler] => effect[k] = "done"
        /\ phase[Handler] = "act" => logStep = step[Handler]

\* A working handler has the lock, is alone, and has a log row that is young
\* and present from step 1 on.
HandlerInv ==
    /\ mode[Handler] # "read"
    /\ mode[Handler] # "idle" =>
         /\ lock = "held"
         /\ runs >= 1
         /\ log # "old"
         /\ \A r \in Recoverers : mode[r] = "idle"
    /\ mode[Handler] \in {"forward", "backward"} /\ step[Handler] # Start => Recoverable

\* A recoverer has a row to work from unless another has finished the work.
RecovererInv ==
    \A r \in Recoverers :
        /\ mode[r] # "forward"
        /\ mode[r] \in {"read", "backward"} => Recoverable \/ RolledBack
        /\ mode[r] # "idle" => runs >= 1 /\ (Single => lock = "held")

LockInv ==
    /\ Recoverable => lock = "held" /\ runs >= 1
    /\ \A p \in Processes : mode[p] = "closing" => ~Recoverable

\* The invariant as a whole: what the database holds never exceeds what the
\* log and the processes at work account for, and the lock is held as long as
\* anybody may still change it (execute_reorder, recover, recover_from_log).
SagaInv ==
    /\ TypeOK
    /\ Covered
    /\ NothingBeyond
    /\ ForwardInv
    /\ HandlerInv
    /\ RecovererInv
    /\ LockInv
    /\ Atomic

\* What the protocol promises, in the terms of SagaContract.
outcome == IF Applied THEN "all" ELSE IF RolledBack THEN "none" ELSE "mixed"
Contract == INSTANCE SagaContract WITH open <- Recoverable
Implements == Contract!Spec
=============================================================================
