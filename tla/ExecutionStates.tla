---------------------------- MODULE ExecutionStates ----------------------------
(***************************************************************************)
(* The status values of an execution row and the table of allowed changes  *)
(* (backend/app/models/execution.py).  "none" stands for a row that has    *)
(* not been committed yet.                                                 *)
(***************************************************************************)
EXTENDS Naturals, Sequences, FiniteSets

\* class ExecutionStatus
Status == {"queued", "starting", "compiling", "running",
           "completed", "failed", "timeout", "cancelled"}

\* FINISHED_STATUSES: the rows whose entry in the table is empty
Finished == {"completed", "failed", "timeout", "cancelled"}

\* ACTIVE_STATUSES of the orphan sweep: claimed by a worker, not finished
Active == {"starting", "compiling", "running"}

ALLOWED_TRANSITIONS == [
    queued    |-> {"starting", "compiling", "cancelled", "failed"},
    starting  |-> {"running", "compiling", "failed", "timeout", "cancelled"},
    compiling |-> {"running", "failed", "timeout", "cancelled"},
    running   |-> {"completed", "failed", "timeout", "cancelled"},
    completed |-> {},
    failed    |-> {},
    timeout   |-> {},
    cancelled |-> {}]

can_transition(current, target) ==
    current \in Status /\ target \in ALLOWED_TRANSITIONS[current]

\* The actors record_status_event accepts
Actors == {"api", "worker", "sweeper"}

\* One row of execution_events: the payload's from, to and by
Event == [from : Status \union {"none"}, to : Status, by : Actors]

record_status_event(previous, target, by) ==
    [from |-> previous, to |-> target, by |-> by]
=============================================================================
