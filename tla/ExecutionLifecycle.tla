-------------------------- MODULE ExecutionLifecycle --------------------------
(***************************************************************************)
(* What the execution subsystem promises about one execution row and its   *)
(* audit trail, whoever acts on it and in whatever order: every committed  *)
(* change is an entry of ALLOWED_TRANSITIONS made by an actor entitled to  *)
(* it, and is recorded by exactly one event of the same transaction.       *)
(* ExecutionPipeline, which has the API, the queue, the workers, the       *)
(* sandbox and the sweeper, is shown to implement this specification.      *)
(***************************************************************************)
EXTENDS ExecutionStates

CONSTANT Executions         \* execution ids

VARIABLES status,           \* status[e]: the status column of row e
          events            \* events[e]: the execution_events rows of e, by id

vars == <<status, events>>

\* Who may make a change: the API creates, cancels and fails an undelivered
\* run; the sweeper fails claimed runs; everything else is the worker's.
Entitled(by, from, to) ==
    \/ by = "api"     /\ (to = "cancelled" \/ (from = "queued" /\ to = "failed"))
    \/ by = "sweeper" /\ from \in Active /\ to = "failed"
    \/ by = "worker"  /\ (from \in Active \/ to = "starting")

Init == /\ status = [e \in Executions |-> "none"]
        /\ events = [e \in Executions |-> <<>>]

Create(e) == /\ status[e] = "none"
             /\ status' = [status EXCEPT ![e] = "queued"]
             /\ events' = [events EXCEPT ![e] = <<record_status_event("none", "queued", "api")>>]

\* One transaction by one actor may change several rows (the sweep does).
Change(E, by) ==
    /\ status' \in [Executions -> Status \union {"none"}]
    /\ \A e \in Executions \ E : status'[e] = status[e]
    /\ \A e \in E : /\ can_transition(status[e], status'[e])
                    /\ Entitled(by, status[e], status'[e])
    /\ events' = [e \in Executions |->
                    IF e \in E
                    THEN Append(events[e], record_status_event(status[e], status'[e], by))
                    ELSE events[e]]

Next == \/ \E e \in Executions : Create(e)
        \/ \E E \in SUBSET Executions, by \in Actors : Change(E, by)

Spec == Init /\ [][Next]_vars
-----------------------------------------------------------------------------
\* Statuses in the rows, events in the trails
TypeOK == /\ status \in [Executions -> Status \union {"none"}]
          /\ events \in [Executions -> Seq(Event)]

\* The status a trail leads to
Outcome(trail) == IF trail = <<>> THEN "none" ELSE trail[Len(trail)].to

\* The audit trail of every execution is a path of the state machine that ends
\* in the row's status: no change is missing from it, none is recorded that was
\* not made, and each was made by an actor entitled to it.
AuditTrailOK ==
    \A e \in Executions :
        LET trail == events[e]
        IN  /\ status[e] = Outcome(trail)
            /\ \A i \in 1..Len(trail) :
                  IF i = 1 THEN trail[i] = record_status_event("none", "queued", "api")
                           ELSE /\ trail[i].from = trail[i-1].to
                                /\ can_transition(trail[i].from, trail[i].to)
                                /\ Entitled(trail[i].by, trail[i].from, trail[i].to)

\* An execution finishes once: of its events at most one, the last, records a
\* finished status (requirement FR-10, "one terminal state").
FinishesOnce ==
    \A e \in Executions : \A i \in 1..Len(events[e]) :
        events[e][i].to \in Finished => i = Len(events[e])
=============================================================================
