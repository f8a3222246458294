------------------------------- MODULE DebugSlot -------------------------------
(***************************************************************************)
(* The debug sessions of one project: the key concord:debug:active in      *)
(* Redis that names the project's session (debug/control.py), the request  *)
(* handlers that claim it (_claim_debug_slot in api/executions.py) and the *)
(* workers that clear it.  A claim precedes the commit of its row, a read  *)
(* precedes the write that depends on it, and the two stores are separate. *)
(*                                                                         *)
(* Of a run only what the slot depends on is kept: whether its row is      *)
(* committed, live or finished.  ExecutionPipeline has the rest.           *)
(***************************************************************************)
EXTENDS Naturals, FiniteSets

CONSTANTS Sessions,     \* debug runs, each requested once
          NoSession,    \* the key is not set
          Workers,      \* how many sessions can run at a time
          LongWaits,    \* may a run wait in the queue until its key expires?
          MaxFaults     \* failures of Redis and deaths of processes

ASSUME SlotAssumption ==
    /\ NoSession \notin Sessions
    /\ Workers \in Nat /\ MaxFaults \in Nat
    /\ LongWaits \in BOOLEAN

VARIABLES
    slot,       \* ACTIVE_KEY: the execution_id it names
    row,        \* row[s]: "none" (not committed), "queued", "active", "finished"
    waiting,    \* the ids in the queue
    spc,        \* spc[s]: where start_run(debug=True) for s is
    seen,       \* seen[s]: what get_active returned to that handler
    wpc,        \* wpc[s]: where the worker of s is
    mine,       \* mine[s]: the worker's clear_active has found s in the slot
    faults

vars == <<slot, row, waiting, spc, seen, wpc, mine, faults>>

Fault == faults < MaxFaults /\ faults' = faults + 1
NoFault == UNCHANGED faults
-----------------------------------------------------------------------------
(* start_run(debug=True): _claim_debug_slot, the commit, the delivery *)

\* The row is flushed, not committed; claim_active is SET NX.
StartClaim(s) ==
    /\ spc[s] = "idle"
    /\ IF slot = NoSession
       THEN slot' = s /\ spc' = [spc EXCEPT ![s] = "commit"]
       ELSE UNCHANGED slot /\ spc' = [spc EXCEPT ![s] = "look"]
    /\ NoFault
    /\ UNCHANGED <<row, waiting, seen, wpc, mine>>

\* get_active
StartLook(s) ==
    /\ spc[s] = "look"
    /\ seen' = [seen EXCEPT ![s] = slot]
    /\ spc' = [spc EXCEPT ![s] = "check"]
    /\ NoFault
    /\ UNCHANGED <<slot, row, waiting, wpc, mine>>

\* running is None or finished: the slot counts as left over
LeftOver(s) == s = NoSession \/ row[s] \in {"none", "finished"}

\* db.get of the session found: take the slot over, or answer 409
StartCheck(s) ==
    /\ spc[s] = "check"
    /\ spc' = [spc EXCEPT ![s] = IF LeftOver(seen[s]) THEN "set" ELSE "refused"]
    /\ seen' = [seen EXCEPT ![s] = NoSession]
    /\ NoFault
    /\ UNCHANGED <<slot, row, waiting, wpc, mine>>

\* set_active, whatever the key is by now
StartSet(s) ==
    /\ spc[s] = "set"
    /\ slot' = s
    /\ spc' = [spc EXCEPT ![s] = "commit"]
    /\ NoFault
    /\ UNCHANGED <<row, waiting, seen, wpc, mine>>

StartCommit(s) ==
    /\ spc[s] = "commit"
    /\ row' = [row EXCEPT ![s] = "queued"]
    /\ spc' = [spc EXCEPT ![s] = "enqueue"]
    /\ NoFault
    /\ UNCHANGED <<slot, waiting, seen, wpc, mine>>

\* enqueue_execution; after an error the run may be in the queue all the same.
StartEnqueue(s) ==
    /\ spc[s] = "enqueue"
    /\ \/ waiting' = waiting \union {s} /\ NoFault /\ spc' = [spc EXCEPT ![s] = "done"]
       \/ /\ waiting' \in {waiting, waiting \union {s}}
          /\ Fault
          /\ spc' = [spc EXCEPT ![s] = "undelivered"]
    /\ UNCHANGED <<slot, row, seen, wpc, mine>>

\* _fail_undelivered_run, up to the commit
StartCompensate(s) ==
    /\ spc[s] = "undelivered"
    /\ IF row[s] = "queued"
       THEN /\ row' = [row EXCEPT ![s] = "finished"]
            /\ spc' = [spc EXCEPT ![s] = "clear"]
       ELSE UNCHANGED row /\ spc' = [spc EXCEPT ![s] = "done"]
    /\ NoFault
    /\ UNCHANGED <<slot, waiting, seen, wpc, mine>>

\* remove_from_queue (an error is logged), and clear_active's read
StartClear(s) ==
    /\ spc[s] = "clear"
    /\ \/ waiting' = waiting \ {s} /\ NoFault
       \/ UNCHANGED waiting /\ Fault
    /\ spc' = [spc EXCEPT ![s] = IF slot = s THEN "delete" ELSE "done"]
    /\ UNCHANGED <<slot, row, seen, wpc, mine>>

StartDelete(s) ==
    /\ spc[s] = "delete"
    /\ slot' = NoSession
    /\ spc' = [spc EXCEPT ![s] = "done"]
    /\ NoFault
    /\ UNCHANGED <<row, waiting, seen, wpc, mine>>

Starting == {"look", "check", "set", "commit", "enqueue", "undelivered", "clear", "delete"}

\* A Redis or Postgres error (503), or the death of the backend: the handler
\* ends where it is; what is not committed is gone.
StartFails(s) ==
    /\ spc[s] \in Starting
    /\ Fault
    /\ spc' = [spc EXCEPT ![s] = "done"]
    /\ seen' = [seen EXCEPT ![s] = NoSession]
    /\ UNCHANGED <<slot, row, waiting, wpc, mine>>

\* cancel_execution: the row and the queue; a worker gets a message (see
\* WorkerStops).  The slot is not touched.
Cancel(s) ==
    /\ row[s] \in {"queued", "active"}
    /\ row' = [row EXCEPT ![s] = "finished"]
    /\ waiting' = waiting \ {s}
    /\ NoFault
    /\ UNCHANGED <<slot, spc, seen, wpc, mine>>
-----------------------------------------------------------------------------
(* worker.py: _run_one and _run_debug *)

Working == {"claim", "setup", "debug", "clear", "delete", "write", "last_clear", "last_delete"}

Goto(s, pc) == wpc' = [wpc EXCEPT ![s] = pc]

\* dequeue_execution: a free worker takes the run
WorkerTake(s) ==
    /\ s \in waiting
    /\ wpc[s] = "none"
    /\ Cardinality({t \in Sessions : wpc[t] \in Working}) < Workers
    /\ waiting' = waiting \ {s}
    /\ Goto(s, "claim")
    /\ NoFault
    /\ UNCHANGED <<slot, row, spc, seen, mine>>

WorkerClaim(s) ==
    /\ wpc[s] = "claim"
    /\ IF row[s] = "queued"
       THEN row' = [row EXCEPT ![s] = "active"] /\ Goto(s, "setup")
       ELSE UNCHANGED row /\ Goto(s, "done")
    /\ NoFault
    /\ UNCHANGED <<slot, waiting, spc, seen, mine>>

\* Subscription, recheck and workspace; anything may fail here (a deleted file),
\* and a finished row means cancelled.
WorkerSetup(s) ==
    /\ wpc[s] = "setup"
    /\ \/ row[s] = "active" /\ Goto(s, "debug")
       \/ Goto(s, "write")
    /\ NoFault
    /\ UNCHANGED <<slot, row, waiting, spc, seen, mine>>

\* DebugRun.run returns: the program ended, a stop command, a time limit, an
\* error, or the cancel message.
WorkerStops(s) ==
    /\ wpc[s] = "debug"
    /\ Goto(s, "clear")
    /\ NoFault
    /\ UNCHANGED <<slot, row, waiting, spc, seen, mine>>

\* The clear_active calls in the finally clauses of _run_debug and of _run_one:
\* GET, and DELETE only if the key named this session.  Errors are logged.
After == [clear |-> "delete", delete |-> "write",
          last_clear |-> "last_delete", last_delete |-> "done"]

WorkerClear(s) ==
    /\ wpc[s] \in {"clear", "last_clear"}
    /\ \/ mine' = [mine EXCEPT ![s] = (slot = s)] /\ NoFault
       \/ mine' = [mine EXCEPT ![s] = FALSE] /\ Fault
    /\ Goto(s, After[wpc[s]])
    /\ UNCHANGED <<slot, row, waiting, spc, seen>>

WorkerDelete(s) ==
    /\ wpc[s] \in {"delete", "last_delete"}
    /\ \/ slot' = (IF mine[s] THEN NoSession ELSE slot) /\ NoFault
       \/ mine[s] /\ UNCHANGED slot /\ Fault
    /\ mine' = [mine EXCEPT ![s] = FALSE]
    /\ Goto(s, After[wpc[s]])
    /\ UNCHANGED <<row, waiting, spc, seen>>

\* _transition to the final status, refused if somebody else was faster; after a
\* Postgres error the finally clause clears the slot of an unfinished row.
WorkerWrite(s) ==
    /\ wpc[s] = "write"
    /\ \/ row' = [row EXCEPT ![s] = "finished"] /\ NoFault
       \/ UNCHANGED row /\ Fault
    /\ Goto(s, "last_clear")
    /\ UNCHANGED <<slot, waiting, spc, seen, mine>>

\* The worker dies, or an error leaves _run_one before its try statement.
WorkerDies(s) ==
    /\ wpc[s] \in Working
    /\ Fault
    /\ Goto(s, "dead")
    /\ mine' = [mine EXCEPT ![s] = FALSE]
    /\ UNCHANGED <<slot, row, waiting, spc, seen>>
-----------------------------------------------------------------------------
\* sweep_once: a claimed row whose worker is gone.  A debug session has its whole
\* lifetime plus five minutes, so a live one is not swept.
SweepFails(s) ==
    /\ row[s] = "active"
    /\ wpc[s] \in {"dead", "done"}
    /\ row' = [row EXCEPT ![s] = "finished"]
    /\ NoFault
    /\ UNCHANGED <<slot, waiting, spc, seen, wpc, mine>>

\* Nobody works on s any more
Over(s) == spc[s] \notin Starting /\ s \notin waiting /\ wpc[s] \notin Working

\* Mutant: the key is set without an expiry
Expires_Never(s) == FALSE

\* TTL_SECONDS have passed since the key was set
Expires(s) == Over(s) \/ (LongWaits /\ s \in waiting)

Expire ==
    /\ slot \in Sessions
    /\ Expires(slot)
    /\ slot' = NoSession
    /\ NoFault
    /\ UNCHANGED <<row, waiting, spc, seen, wpc, mine>>
-----------------------------------------------------------------------------
Init ==
    /\ slot = NoSession
    /\ row = [s \in Sessions |-> "none"]
    /\ waiting = {} /\ faults = 0
    /\ spc = [s \in Sessions |-> "idle"]
    /\ seen = [s \in Sessions |-> NoSession]
    /\ wpc = [s \in Sessions |-> "none"]
    /\ mine = [s \in Sessions |-> FALSE]

StartStep(s) == \/ StartLook(s) \/ StartCheck(s) \/ StartSet(s) \/ StartCommit(s)
                \/ StartEnqueue(s) \/ StartCompensate(s) \/ StartClear(s) \/ StartDelete(s)
WorkerStep(s) == \/ WorkerTake(s) \/ WorkerClaim(s) \/ WorkerSetup(s) \/ WorkerStops(s)
                 \/ WorkerClear(s) \/ WorkerDelete(s) \/ WorkerWrite(s)

Next ==
    \/ \E s \in Sessions : \/ StartClaim(s) \/ StartStep(s) \/ StartFails(s) \/ Cancel(s)
                           \/ WorkerStep(s) \/ WorkerDies(s) \/ SweepFails(s)
    \/ Expire

Spec == Init /\ [][Next]_vars

\* A handler runs to its end, a session has a time limit (sandbox_debug_timeout_
\* seconds), the sweep runs every minute and Redis expires keys.
Fairness ==
    /\ \A s \in Sessions : /\ WF_vars(StartStep(s)) /\ WF_vars(WorkerStep(s))
                           /\ WF_vars(SweepFails(s))
    /\ WF_vars(Expire)

FairSpec == Spec /\ Fairness
-----------------------------------------------------------------------------
\* The types of the slot, the rows and the handlers and workers that use it
TypeOK ==
    /\ slot \in Sessions \union {NoSession}
    /\ row \in [Sessions -> {"none", "queued", "active", "finished"}]
    /\ waiting \subseteq Sessions
    /\ spc \in [Sessions -> Starting \union {"idle", "refused", "done"}]
    /\ seen \in [Sessions -> Sessions \union {NoSession}]
    /\ wpc \in [Sessions -> Working \union {"none", "done", "dead"}]
    /\ mine \in [Sessions -> BOOLEAN]
    /\ faults \in 0..MaxFaults

\* s stands in the way of every other session of the project
Blocks(s) == slot = s /\ row[s] \in {"queued", "active"}

\* No session locks the project out of debugging for good, whatever fails and
\* wherever: it ends and is swept, is compensated, or its key expires.
NeverLockedOut == \A s \in Sessions : Blocks(s) ~> ~Blocks(s)

\* "One debug session per project at a time" (_claim_debug_slot)
OneDebugSession ==
    \A s, t \in Sessions : wpc[s] = "debug" /\ wpc[t] = "debug" => s = t
=============================================================================
