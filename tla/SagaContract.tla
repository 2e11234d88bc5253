----------------------------- MODULE SagaContract -----------------------------
(***************************************************************************)
(* What a logged multi-step operation promises to the rest of the system:  *)
(* its effects are mixed only while it is open, that is, while a recovery  *)
(* log exists from which somebody will complete or undo it.  How the steps *)
(* are logged, executed, undone and retried is Saga's business.            *)
(***************************************************************************)
VARIABLES
    open,       \* a recovery log exists
    outcome     \* how much of the operation is in the database

vars == <<open, outcome>>

Init == open = FALSE /\ outcome = "none"

\* The log is created before anything is changed.
Open == ~open /\ open' = TRUE /\ UNCHANGED outcome

\* Steps are executed and undone.
Work == open /\ outcome' \in {"none", "mixed", "all"} /\ UNCHANGED open

\* The log is deleted when nothing or everything is done.
Close == open /\ outcome # "mixed" /\ open' = FALSE /\ UNCHANGED outcome

\* The next operation begins: none of its effects is there yet.
Begin == ~open /\ outcome' = "none" /\ UNCHANGED open

Next == Open \/ Work \/ Close \/ Begin

Spec == Init /\ [][Next]_vars
=============================================================================
