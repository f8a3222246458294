--------------------------- MODULE ExecutionPipeline ---------------------------
(***************************************************************************)
(* A run's way through Concord: the REST handlers start_run and            *)
(* cancel_execution, the Redis hash of waiting runs, the worker processes  *)
(* (worker.py, _run_one), the sandbox thread and the Docker container of a *)
(* run, the orphan sweep of the backend, and the console of a project      *)
(* member, all interleaved, with the failures the code handles.  Debug     *)
(* sessions take the same way; what they add is in DebugSlot.              *)
(***************************************************************************)
EXTENDS ExecutionStates

CONSTANTS Executions,       \* execution ids
          Compiled,         \* the runs whose runtime has a build_command
          Cancellable,      \* the runs somebody may ask to cancel
          Workers,          \* worker processes
          NoWorker,         \* worker_id of a row nobody claimed
          NoJob,            \* job of an idle worker
          FaultKinds,       \* which failures may happen
          MaxFaults         \* how many

ASSUME PipelineAssumption ==
    /\ Compiled \subseteq Executions
    /\ Cancellable \subseteq Executions
    /\ NoWorker \notin Workers
    /\ NoJob \notin Executions
    /\ MaxFaults \in Nat

VARIABLES
    status, events,         \* the rows and their audit trails (Postgres)
    worker_id,              \* worker_id[e]: who claimed row e
    stale,                  \* stale[e]: started_at is older than ORPHAN_THRESHOLD
    queue,                  \* the ids in QUEUE_META_HASH (Redis)
    startpc,                \* startpc[e]: where start_run for e is
    cancelpc, cancelseen,   \* cancel_execution of e, and the status it last read
    wpc, job, seen,         \* worker: place in _run_one, its run, status read
    cancel,                 \* worker: its cancel subscription and cancel_event
    thread,                 \* thread[e]: the sandbox.build / sandbox.run thread
    boxes,                  \* the executions that have a container in Docker
    spc, picked,            \* sweep_once: place, and the rows as it read them
    changed, cleanup,       \* sweep_once: its local sets
    shown,                  \* shown[e]: the run's status in a member's console
    faults                  \* failures so far

dbVars     == <<status, events>>
rowVars    == <<status, events, worker_id, stale>>
startVars  == <<startpc>>
cancelVars == <<cancelpc, cancelseen>>
workerVars == <<wpc, job, seen, cancel>>
dockerVars == <<thread, boxes>>
sweepVars  == <<spc, picked, changed, cleanup>>
vars == <<status, events, worker_id, stale, queue, startpc, cancelpc, cancelseen,
          wpc, job, seen, cancel, thread, boxes, spc, picked, changed, cleanup,
          shown, faults>>
-----------------------------------------------------------------------------
(* Shared operations *)

\* An external service fails (or a process dies) once more.  The kinds: "redis"
\* (a command is not executed), "reply" (it is, but its caller sees an error),
\* "db", "docker", "worker" and "backend" (the process dies).
Fault(kind) == /\ kind \in FaultKinds
               /\ faults < MaxFaults
               /\ faults' = faults + 1

NoFault == UNCHANGED faults

\* Mutant: an unconditional UPDATE
CanChange_NoCompare(e, current, target) == can_transition(current, target)

\* change_status: a compare-and-set against the status the caller has read; the
\* event is part of the same transaction.
CanChange(e, current, target) == can_transition(current, target) /\ status[e] = current

ChangeStatus(e, current, target, by) ==
    /\ CanChange(e, current, target)
    /\ status' = [status EXCEPT ![e] = target]
    /\ events' = [events EXCEPT ![e] = Append(@, record_status_event(current, target, by))]

\* signal_cancel: only a subscriber gets the message, and only once.
SignalCancel(e) ==
    cancel' = [w \in Workers |->
                 IF job[w] = e /\ cancel[w] = "sub" THEN "mail" ELSE cancel[w]]

\* Mutant: the last event wins
applyRunEvent_LastWins(e, s) == shown' = [shown EXCEPT ![e] = s]

\* applyRunEvent on an execution_status event: a late "running" must not undo
\* a finished status.
applyRunEvent(e, s) ==
    shown' = [shown EXCEPT ![e] = IF @ \in Finished /\ s \notin Finished THEN @ ELSE s]

NoThread == [op |-> "none", at |-> "done", result |-> "none"]

\* The thread may still touch its container and its workspace
Busy(t) == t.at # "done"
-----------------------------------------------------------------------------
(* POST /executions: start_run and _fail_undelivered_run *)

\* The row and its first event are committed.
StartCommit(e) ==
    /\ startpc[e] = "idle"
    /\ status' = [status EXCEPT ![e] = "queued"]
    /\ events' = [events EXCEPT ![e] = <<record_status_event("none", "queued", "api")>>]
    /\ startpc' = [startpc EXCEPT ![e] = "enqueue"]
    /\ NoFault
    /\ UNCHANGED <<worker_id, stale, queue, cancelVars, workerVars, dockerVars, sweepVars, shown>>

\* enqueue_execution: HSET, then the wake-up of a worker
StartEnqueue(e) ==
    /\ startpc[e] = "enqueue"
    /\ queue' = queue \union {e}
    /\ startpc' = [startpc EXCEPT ![e] = "announce"]
    /\ NoFault
    /\ UNCHANGED <<rowVars, cancelVars, workerVars, dockerVars, sweepVars, shown>>

\* Mutant: the error is swallowed and the row left as it is
StartEnqueueFails_Swallowed(e) ==
    /\ startpc[e] = "enqueue"
    /\ \/ Fault("redis") /\ UNCHANGED queue
       \/ Fault("reply") /\ queue' = queue \union {e}
    /\ startpc' = [startpc EXCEPT ![e] = "done"]
    /\ UNCHANGED <<rowVars, cancelVars, workerVars, dockerVars, sweepVars, shown>>

\* Redis fails before or after the HSET; the handler cannot tell.
StartEnqueueFails(e) ==
    /\ startpc[e] = "enqueue"
    /\ \/ Fault("redis") /\ UNCHANGED queue
       \/ Fault("reply") /\ queue' = queue \union {e}
    /\ startpc' = [startpc EXCEPT ![e] = "undelivered"]
    /\ UNCHANGED <<rowVars, cancelVars, workerVars, dockerVars, sweepVars, shown>>

\* broadcast EXECUTION_QUEUED: a console that has no such run yet adds it as queued
StartAnnounce(e) ==
    /\ startpc[e] = "announce"
    /\ startpc' = [startpc EXCEPT ![e] = "done"]
    /\ shown' = [shown EXCEPT ![e] = IF @ = "none" THEN "queued" ELSE @]
    /\ NoFault
    /\ UNCHANGED <<rowVars, queue, cancelVars, workerVars, dockerVars, sweepVars>>

\* _fail_undelivered_run competes with the worker's claim for the queued row.
StartCompensate(e) ==
    /\ startpc[e] = "undelivered"
    /\ \/ /\ ChangeStatus(e, "queued", "failed", "api")
          /\ startpc' = [startpc EXCEPT ![e] = "remove"]
       \/ /\ ~CanChange(e, "queued", "failed")
          /\ startpc' = [startpc EXCEPT ![e] = "done"]
          /\ UNCHANGED dbVars
    /\ NoFault
    /\ UNCHANGED <<worker_id, stale, queue, cancelVars, workerVars, dockerVars, sweepVars, shown>>

\* remove_from_queue; a Redis error is logged only.
StartRemove(e) ==
    /\ startpc[e] = "remove"
    /\ startpc' = [startpc EXCEPT ![e] = "done"]
    /\ \/ queue' = queue \ {e} /\ NoFault
       \/ Fault("redis") /\ UNCHANGED queue
    /\ UNCHANGED <<rowVars, cancelVars, workerVars, dockerVars, sweepVars, shown>>
-----------------------------------------------------------------------------
(* POST /executions/{id}/cancel: cancel_execution *)

\* The handler reads the row; a finished one is returned as it is.
CancelRead(e) ==
    /\ cancelpc[e] = "idle"
    /\ e \in Cancellable
    /\ status[e] \in Status \ Finished
    /\ cancelseen' = [cancelseen EXCEPT ![e] = status[e]]
    /\ cancelpc' = [cancelpc EXCEPT ![e] = "write"]
    /\ NoFault
    /\ UNCHANGED <<rowVars, queue, startVars, workerVars, dockerVars, sweepVars, shown>>

\* The loop: a refused write refreshes the row and tries again unless finished.
CancelWrite(e) ==
    /\ cancelpc[e] = "write"
    /\ \/ /\ ChangeStatus(e, cancelseen[e], "cancelled", "api")
          /\ cancelpc' = [cancelpc EXCEPT ![e] = "remove"]
          /\ cancelseen' = [cancelseen EXCEPT ![e] = "none"]
       \/ /\ ~CanChange(e, cancelseen[e], "cancelled")
          /\ UNCHANGED dbVars
          /\ IF status[e] \in Finished
             THEN /\ cancelpc' = [cancelpc EXCEPT ![e] = "idle"]
                  /\ cancelseen' = [cancelseen EXCEPT ![e] = "none"]
             ELSE /\ cancelseen' = [cancelseen EXCEPT ![e] = status[e]]
                  /\ UNCHANGED cancelpc
    /\ NoFault
    /\ UNCHANGED <<worker_id, stale, queue, startVars, workerVars, dockerVars, sweepVars, shown>>

CancelRemove(e) ==
    /\ cancelpc[e] = "remove"
    /\ queue' = queue \ {e}
    /\ cancelpc' = [cancelpc EXCEPT ![e] = "signal"]
    /\ NoFault
    /\ UNCHANGED <<rowVars, startVars, cancelseen, workerVars, dockerVars, sweepVars, shown>>

CancelSignal(e) ==
    /\ cancelpc[e] = "signal"
    /\ SignalCancel(e)
    /\ cancelpc' = [cancelpc EXCEPT ![e] = "publish"]
    /\ NoFault
    /\ UNCHANGED <<rowVars, queue, startVars, cancelseen, wpc, job, seen, dockerVars, sweepVars, shown>>

CancelPublish(e) ==
    /\ cancelpc[e] = "publish"
    /\ applyRunEvent(e, "cancelled")
    /\ cancelpc' = [cancelpc EXCEPT ![e] = "idle"]
    /\ NoFault
    /\ UNCHANGED <<rowVars, queue, startVars, cancelseen, workerVars, dockerVars, sweepVars>>

\* A Redis error after the commit ends the request with the rest undone.
CancelFails(e) ==
    /\ cancelpc[e] \in {"remove", "signal", "publish"}
    /\ \/ Fault("redis") /\ UNCHANGED <<queue, cancel>>
       \/ Fault("reply") /\ cancelpc[e] = "remove" /\ queue' = queue \ {e} /\ UNCHANGED cancel
       \/ Fault("reply") /\ cancelpc[e] = "signal" /\ SignalCancel(e) /\ UNCHANGED queue
    /\ cancelpc' = [cancelpc EXCEPT ![e] = "idle"]
    /\ UNCHANGED <<rowVars, startVars, cancelseen, wpc, job, seen, dockerVars, sweepVars, shown>>

\* A Postgres error ends a handler, its transaction undone.
HandlerDbFails(e) ==
    /\ Fault("db")
    /\ \/ /\ startpc[e] = "undelivered"
          /\ startpc' = [startpc EXCEPT ![e] = "done"]
          /\ UNCHANGED cancelVars
       \/ /\ cancelpc[e] = "write"
          /\ cancelpc' = [cancelpc EXCEPT ![e] = "idle"]
          /\ cancelseen' = [cancelseen EXCEPT ![e] = "none"]
          /\ UNCHANGED startVars
    /\ UNCHANGED <<rowVars, queue, workerVars, dockerVars, sweepVars, shown>>
-----------------------------------------------------------------------------
(* worker.py: main, dequeue_execution and _run_one *)

Goto(w, pc) == wpc' = [wpc EXCEPT ![w] = pc]

\* _pop_highest_priority: HGETALL and the choice of a waiting run (the order
\* of the choice is the subject of PriorityQueue)
WorkerScan(w) ==
    /\ wpc[w] = "idle"
    /\ \E e \in queue : job' = [job EXCEPT ![w] = e]
    /\ Goto(w, "take")
    /\ NoFault
    /\ UNCHANGED <<rowVars, queue, startVars, cancelVars, seen, cancel, dockerVars, sweepVars, shown>>

\* HDEL: whoever removes the field has the run, the others scan again.
WorkerTake(w) ==
    /\ wpc[w] = "take"
    /\ \/ /\ job[w] \in queue
          /\ queue' = queue \ {job[w]}
          /\ Goto(w, "claim")
          /\ UNCHANGED job
       \/ /\ job[w] \notin queue
          /\ Goto(w, "idle")
          /\ job' = [job EXCEPT ![w] = NoJob]
          /\ UNCHANGED queue
    /\ NoFault
    /\ UNCHANGED <<rowVars, startVars, cancelVars, seen, cancel, dockerVars, sweepVars, shown>>

\* An error of the HDEL is logged by the main loop; the run may be gone with it.
WorkerTakeFails(w) ==
    /\ wpc[w] = "take"
    /\ \/ Fault("redis") /\ UNCHANGED queue
       \/ Fault("reply") /\ queue' = queue \ {job[w]}
    /\ Goto(w, "idle")
    /\ job' = [job EXCEPT ![w] = NoJob]
    /\ UNCHANGED <<rowVars, startVars, cancelVars, seen, cancel, dockerVars, sweepVars, shown>>

\* UPDATE ... WHERE status = 'queued': the claim, with its event
WorkerClaim(w) ==
    LET e == job[w]
    IN  /\ wpc[w] = "claim"
        /\ \/ /\ status[e] = "queued"
              /\ status' = [status EXCEPT ![e] = "starting"]
              /\ events' = [events EXCEPT ![e] =
                              Append(@, record_status_event("queued", "starting", "worker"))]
              /\ worker_id' = [worker_id EXCEPT ![e] = w]
              /\ Goto(w, "pub_starting")
              /\ UNCHANGED job
           \/ /\ status[e] # "queued"
              /\ Goto(w, "idle")
              /\ job' = [job EXCEPT ![w] = NoJob]
              /\ UNCHANGED <<dbVars, worker_id>>
        /\ NoFault
        /\ UNCHANGED <<stale, queue, startVars, cancelVars, seen, cancel, dockerVars, sweepVars, shown>>

\* The _transition calls: the status asked for, and where the handler goes when
\* the change is made and when it is refused.
Transition == [
    to_compiling  |-> [target |-> "compiling", made |-> "pub_compiling",     refused |-> "exc_cancelled"],
    to_running    |-> [target |-> "running",   made |-> "pub_running",       refused |-> "exc_cancelled"],
    to_completed  |-> [target |-> "completed", made |-> "pub_completed",     refused |-> "cleanup"],
    to_failed     |-> [target |-> "failed",    made |-> "pub_failed",        refused |-> "cleanup"],
    to_timeout    |-> [target |-> "timeout",   made |-> "pub_timeout",       refused |-> "cleanup"],
    exc_cancelled |-> [target |-> "cancelled", made |-> "pub_exc_cancelled", refused |-> "cleanup"],
    exc_failed    |-> [target |-> "failed",    made |-> "pub_exc_failed",    refused |-> "cleanup"]]

TransitionPcs == DOMAIN Transition

\* The publish calls: the status told, what follows, and where a RedisError
\* leads (the first one is outside the try block).
Publish == [
    pub_starting      |-> [tells |-> "starting",  then |-> "subscribe", error |-> "idle"],
    pub_compiling     |-> [tells |-> "compiling", then |-> "build",     error |-> "exc_failed"],
    pub_running       |-> [tells |-> "running",   then |-> "run",       error |-> "exc_failed"],
    pub_completed     |-> [tells |-> "completed", then |-> "cleanup",   error |-> "exc_failed"],
    pub_failed        |-> [tells |-> "failed",    then |-> "cleanup",   error |-> "exc_failed"],
    pub_timeout       |-> [tells |-> "timeout",   then |-> "cleanup",   error |-> "exc_failed"],
    pub_exc_cancelled |-> [tells |-> "cancelled", then |-> "cleanup",   error |-> "cleanup"],
    pub_exc_failed    |-> [tells |-> "failed",    then |-> "cleanup",   error |-> "cleanup"]]

PublishPcs == DOMAIN Publish

\* _transition reads the row in a session of its own ...
WorkerRead(w) ==
    /\ wpc[w] \in TransitionPcs
    /\ seen[w] = "none"
    /\ seen' = [seen EXCEPT ![w] = status[job[w]]]
    /\ NoFault
    /\ UNCHANGED <<rowVars, queue, startVars, cancelVars, wpc, job, cancel, dockerVars, sweepVars, shown>>

\* Mutant: the result of change_status is not looked at
AfterWrite_Always(t, ok) == t.made

AfterWrite(t, ok) == IF ok THEN t.made ELSE t.refused

\* ... and writes what it read may change to, committing with the event.
WorkerWrite(w) ==
    /\ wpc[w] \in TransitionPcs
    /\ seen[w] # "none"
    /\ LET t == Transition[wpc[w]]
       IN  /\ \/ ChangeStatus(job[w], seen[w], t.target, "worker")
              \/ ~CanChange(job[w], seen[w], t.target) /\ UNCHANGED dbVars
           /\ Goto(w, AfterWrite(t, CanChange(job[w], seen[w], t.target)))
    /\ seen' = [seen EXCEPT ![w] = "none"]
    /\ NoFault
    /\ UNCHANGED <<worker_id, stale, queue, startVars, cancelVars, job, cancel, dockerVars, sweepVars, shown>>

WorkerPublish(w) ==
    /\ wpc[w] \in PublishPcs
    /\ applyRunEvent(job[w], Publish[wpc[w]].tells)
    /\ Goto(w, Publish[wpc[w]].then)
    /\ NoFault
    /\ UNCHANGED <<rowVars, queue, startVars, cancelVars, job, seen, cancel, dockerVars, sweepVars>>

WorkerPublishFails(w) ==
    /\ wpc[w] \in PublishPcs
    /\ \/ Fault("redis") /\ UNCHANGED shown
       \/ Fault("reply") /\ applyRunEvent(job[w], Publish[wpc[w]].tells)
    /\ Goto(w, Publish[wpc[w]].error)
    /\ job' = [job EXCEPT ![w] = IF wpc[w] = "pub_starting" THEN NoJob ELSE @]
    /\ UNCHANGED <<rowVars, queue, startVars, cancelVars, seen, cancel, dockerVars, sweepVars>>

\* Postgres fails under a _transition, the claim or the second look at the row.
\* Inside the try block that is one more error to record; in an except clause,
\* and in the claim, it ends _run_one.
WorkerDbFails(w) ==
    /\ wpc[w] \in TransitionPcs \union {"claim", "recheck"}
    /\ Fault("db")
    /\ \/ /\ wpc[w] = "claim"
          /\ Goto(w, "idle")
          /\ job' = [job EXCEPT ![w] = NoJob]
       \/ /\ wpc[w] \in {"exc_cancelled", "exc_failed"}
          /\ Goto(w, "cleanup")
          /\ UNCHANGED job
       \/ /\ wpc[w] \notin {"claim", "exc_cancelled", "exc_failed"}
          /\ Goto(w, "exc_failed")
          /\ UNCHANGED job
    /\ seen' = [seen EXCEPT ![w] = "none"]
    /\ UNCHANGED <<rowVars, queue, startVars, cancelVars, cancel, dockerVars, sweepVars, shown>>

\* The cancel channel; failing to subscribe is logged only.
WorkerSubscribe(w) ==
    /\ wpc[w] = "subscribe"
    /\ \/ cancel' = [cancel EXCEPT ![w] = "sub"] /\ NoFault
       \/ Fault("redis") /\ UNCHANGED cancel
    /\ Goto(w, "recheck")
    /\ UNCHANGED <<rowVars, queue, startVars, cancelVars, job, seen, dockerVars, sweepVars, shown>>

\* The connection of the subscription breaks; the listener task ends unnoticed.
WorkerDeaf(w) ==
    /\ cancel[w] = "sub"
    /\ Fault("redis")
    /\ cancel' = [cancel EXCEPT ![w] = "off"]
    /\ UNCHANGED <<rowVars, queue, startVars, cancelVars, wpc, job, seen, dockerVars, sweepVars, shown>>

\* "A cancel may have been persisted before the Redis subscription opened."
WorkerRecheck(w) ==
    /\ wpc[w] = "recheck"
    /\ Goto(w, IF status[job[w]] = "starting" THEN "mount" ELSE "exc_cancelled")
    /\ NoFault
    /\ UNCHANGED <<rowVars, queue, startVars, cancelVars, job, seen, cancel, dockerVars, sweepVars, shown>>

\* _mount_workspace and the main file; any of it may raise.
WorkerMount(w) ==
    /\ wpc[w] = "mount"
    /\ \/ Goto(w, IF job[w] \in Compiled THEN "to_compiling" ELSE "to_running")
       \/ Goto(w, "exc_failed")
    /\ NoFault
    /\ UNCHANGED <<rowVars, queue, startVars, cancelVars, job, seen, cancel, dockerVars, sweepVars, shown>>

\* listen_cancel: the message reaches the worker's event loop.
WorkerListen(w) ==
    /\ cancel[w] = "mail"
    /\ cancel' = [cancel EXCEPT ![w] = "set"]
    /\ NoFault
    /\ UNCHANGED <<rowVars, queue, startVars, cancelVars, wpc, job, seen, dockerVars, sweepVars, shown>>

\* _run_cancellable: start the sandbox thread unless already cancelled.
WorkerLaunch(w) ==
    /\ wpc[w] \in {"build", "run"}
    /\ \/ /\ cancel[w] = "set"
          /\ Goto(w, "exc_cancelled")
          /\ UNCHANGED thread
       \/ /\ cancel[w] # "set"
          /\ thread' = [thread EXCEPT ![job[w]] = [op |-> wpc[w], at |-> "create", result |-> "none"]]
          /\ Goto(w, IF wpc[w] = "build" THEN "building" ELSE "executing")
    /\ NoFault
    /\ UNCHANGED <<rowVars, queue, startVars, cancelVars, job, seen, cancel, boxes, sweepVars, shown>>

\* What follows a build or a run: an exception, the next phase, or the final
\* status the result asks for
AfterJoin == [error     |-> "exc_failed",
              built     |-> "to_running",
              completed |-> "to_completed",
              failed    |-> "to_failed",
              timeout   |-> "to_timeout"]

\* The thread has returned and nobody cancelled.
WorkerJoin(w) ==
    LET t == thread[job[w]]
    IN  /\ wpc[w] \in {"building", "executing"}
        /\ ~Busy(t)
        /\ cancel[w] # "set"
        /\ Goto(w, AfterJoin[t.result])
        /\ NoFault
        /\ UNCHANGED <<rowVars, queue, startVars, cancelVars, job, seen, cancel, dockerVars, sweepVars, shown>>

\* Mutant: one kill, without waiting for the thread
AfterKill_AtOnce(w) == "exc_cancelled"

AfterKill(w) == IF Busy(thread[job[w]]) THEN wpc[w] ELSE "exc_cancelled"

\* Cancelled: kill_execution again and again while the thread runs (NotFound is
\* ignored), once more after it has returned, then raise ExecutionCancelled.
WorkerKill(w) ==
    /\ wpc[w] \in {"building", "executing"}
    /\ cancel[w] = "set"
    /\ boxes' = boxes \ {job[w]}
    /\ Goto(w, AfterKill(w))
    /\ NoFault
    /\ UNCHANGED <<rowVars, queue, startVars, cancelVars, job, seen, cancel, thread, sweepVars, shown>>

\* Any other Docker error leaves _run_cancellable, the thread still running.
WorkerKillFails(w) ==
    /\ wpc[w] \in {"building", "executing"}
    /\ cancel[w] = "set"
    /\ Fault("docker")
    /\ Goto(w, "exc_failed")
    /\ UNCHANGED <<rowVars, queue, startVars, cancelVars, job, seen, cancel, dockerVars, sweepVars, shown>>

\* The finally clause: drop the subscription; then the next run.
WorkerCleanup(w) ==
    /\ wpc[w] = "cleanup"
    /\ Goto(w, "idle")
    /\ job' = [job EXCEPT ![w] = NoJob]
    /\ cancel' = [cancel EXCEPT ![w] = "off"]
    /\ NoFault
    /\ UNCHANGED <<rowVars, queue, startVars, cancelVars, seen, dockerVars, sweepVars, shown>>

\* The worker process dies and is restarted; its threads die with it, the
\* containers they created do not.
WorkerCrash(w) ==
    /\ wpc[w] # "idle" \/ \E e \in Executions : worker_id[e] = w /\ Busy(thread[e])
    /\ Fault("worker")
    /\ Goto(w, "idle")
    /\ job' = [job EXCEPT ![w] = NoJob]
    /\ seen' = [seen EXCEPT ![w] = "none"]
    /\ cancel' = [cancel EXCEPT ![w] = "off"]
    /\ thread' = [e \in Executions |->
                    IF worker_id[e] = w /\ Busy(thread[e]) THEN NoThread ELSE thread[e]]
    /\ UNCHANGED <<rowVars, queue, startVars, cancelVars, boxes, sweepVars, shown>>
-----------------------------------------------------------------------------
(* services/sandbox.py: build and run (_run_with_dir), in the worker's thread *)

SetThread(e, at, result) ==
    thread' = [thread EXCEPT ![e] = [op |-> @.op, at |-> at, result |-> result]]

\* containers.run: create and start.  Without the image, or when Docker refuses,
\* the thread raises; a container created but not started is left.
ThreadCreate(e) ==
    /\ thread[e].at = "create"
    /\ \/ SetThread(e, "wait", "none") /\ boxes' = boxes \union {e}
       \/ SetThread(e, "done", "error") /\ boxes' \in {boxes, boxes \union {e}}
    /\ NoFault
    /\ UNCHANGED <<rowVars, queue, startVars, cancelVars, workerVars, sweepVars, shown>>

\* container.wait of a run: the exit code, or any exception counts as a timeout.
\* Only a container that is still there can have exited with 0.  When Docker is
\* out of reach the kill or the logs raise what the code does not catch.
ThreadWaitRun(e) ==
    /\ thread[e].op = "run" /\ thread[e].at = "wait"
    /\ \/ /\ \/ e \in boxes /\ SetThread(e, "remove", "completed")
             \/ SetThread(e, "remove", "failed")
             \/ SetThread(e, "remove", "timeout")
          /\ NoFault
       \/ Fault("docker") /\ SetThread(e, "done", "error")
    /\ UNCHANGED <<rowVars, queue, startVars, cancelVars, workerVars, boxes, sweepVars, shown>>

\* container.wait of a build: exit code 0, another one, or an exception (a
\* Docker error, or the client's read timeout), which leaves the container.
ThreadWaitBuild(e) ==
    /\ thread[e].op = "build" /\ thread[e].at = "wait"
    /\ \/ e \in boxes /\ SetThread(e, "remove", "built")
       \/ SetThread(e, "remove", "error")
       \/ SetThread(e, "done", "error")
    /\ NoFault
    /\ UNCHANGED <<rowVars, queue, startVars, cancelVars, workerVars, boxes, sweepVars, shown>>

\* container.remove(force=True): an APIError (NotFound included) is ignored
\* after a run and fails a build; any other error fails both.
ThreadRemove(e) ==
    /\ thread[e].at = "remove"
    /\ \/ /\ boxes' = boxes \ {e}
          /\ SetThread(e, "done", IF thread[e].op = "build" /\ e \notin boxes
                                  THEN "error" ELSE thread[e].result)
          /\ NoFault
       \/ /\ Fault("docker")
          /\ \/ SetThread(e, "done", "error")
             \/ thread[e].op = "run" /\ SetThread(e, "done", thread[e].result)
          /\ UNCHANGED boxes
    /\ UNCHANGED <<rowVars, queue, startVars, cancelVars, workerVars, sweepVars, shown>>
-----------------------------------------------------------------------------
(* realtime/orphan_sweep.py: sweep_once, every 60 seconds *)

\* Five minutes pass since the claim of e.
Age(e) ==
    /\ status[e] \in Active
    /\ ~stale[e]
    /\ stale' = [stale EXCEPT ![e] = TRUE]
    /\ NoFault
    /\ UNCHANGED <<dbVars, worker_id, queue, startVars, cancelVars, workerVars, dockerVars, sweepVars, shown>>

\* Mutant: only running rows are looked for
Orphaned_RunningOnly(e) == status[e] = "running" /\ stale[e]

\* The rows sweep_once selects
Orphaned(e) == status[e] \in Active /\ stale[e]

SweepSelect ==
    /\ spc = "idle"
    /\ picked' = [e \in Executions |->
                    IF Orphaned(e) THEN status[e] ELSE "none"]
    /\ spc' = "write"
    /\ NoFault
    /\ UNCHANGED <<rowVars, queue, startVars, cancelVars, workerVars, dockerVars, changed, cleanup, shown>>

\* Every picked row that still has the status read becomes failed, in one
\* transaction.
SweepWrite ==
    /\ spc = "write"
    /\ changed' = {e \in Executions : CanChange(e, picked[e], "failed")}
    /\ status' = [e \in Executions |-> IF e \in changed' THEN "failed" ELSE status[e]]
    /\ events' = [e \in Executions |->
                    IF e \in changed'
                    THEN Append(events[e], record_status_event(picked[e], "failed", "sweeper"))
                    ELSE events[e]]
    /\ spc' = "list"
    /\ picked' = [e \in Executions |-> "none"]
    /\ NoFault
    /\ UNCHANGED <<worker_id, stale, queue, startVars, cancelVars, workerVars, dockerVars, cleanup, shown>>

\* execution_container_ids; a failure means the empty set.
SweepList ==
    /\ spc = "list"
    /\ \/ cleanup' = boxes /\ NoFault
       \/ cleanup' = {} /\ Fault("docker")
    /\ spc' = "query"
    /\ UNCHANGED <<rowVars, queue, startVars, cancelVars, workerVars, dockerVars, picked, changed, shown>>

\* Mutant: only the rows this sweep has failed
LeftBehind_None(ids) == {}

\* Containers that survived the end of their run
LeftBehind(ids) == {e \in ids : status[e] \in Finished}

\* Of the remaining containers those whose row is finished are removed too.
SweepQuery ==
    /\ spc = "query"
    /\ cleanup' = changed \union LeftBehind(cleanup)
    /\ spc' = "kill"
    /\ NoFault
    /\ UNCHANGED <<rowVars, queue, startVars, cancelVars, workerVars, dockerVars, picked, changed, shown>>

SweepKill(e) ==
    /\ spc = "kill"
    /\ e \in cleanup
    /\ cleanup' = cleanup \ {e}
    /\ \/ boxes' = boxes \ {e} /\ NoFault
       \/ Fault("docker") /\ UNCHANGED boxes
    /\ UNCHANGED <<rowVars, queue, startVars, cancelVars, workerVars, thread, spc, picked, changed, shown>>

\* The changed rows' workers are told, if they still live and listen.
SweepSignal(e) ==
    /\ spc = "kill" /\ cleanup = {}
    /\ e \in changed
    /\ changed' = changed \ {e}
    /\ \/ SignalCancel(e) /\ NoFault
       \/ Fault("redis") /\ UNCHANGED cancel
    /\ UNCHANGED <<rowVars, queue, startVars, cancelVars, wpc, job, seen, dockerVars, spc, picked, cleanup, shown>>

SweepDone ==
    /\ spc = "kill" /\ cleanup = {} /\ changed = {}
    /\ spc' = "idle"
    /\ NoFault
    /\ UNCHANGED <<rowVars, queue, startVars, cancelVars, workerVars, dockerVars, picked, changed, cleanup, shown>>

\* A Postgres error ends the sweep; the loop starts the next one a minute later.
SweepDbFails ==
    /\ spc \in {"write", "query"}
    /\ Fault("db")
    /\ spc' = "idle"
    /\ picked' = [e \in Executions |-> "none"]
    /\ changed' = {}
    /\ cleanup' = {}
    /\ UNCHANGED <<rowVars, queue, startVars, cancelVars, workerVars, dockerVars, shown>>

\* The backend dies and is restarted: every request handler and the sweep
\* are forgotten wherever they were.
BackendCrash ==
    /\ Fault("backend")
    /\ startpc' = [e \in Executions |-> IF startpc[e] = "idle" THEN "idle" ELSE "done"]
    /\ cancelpc' = [e \in Executions |-> "idle"]
    /\ cancelseen' = [e \in Executions |-> "none"]
    /\ spc' = "idle"
    /\ picked' = [e \in Executions |-> "none"]
    /\ changed' = {}
    /\ cleanup' = {}
    /\ UNCHANGED <<rowVars, queue, workerVars, dockerVars, shown>>
-----------------------------------------------------------------------------
Init ==
    /\ status = [e \in Executions |-> "none"]
    /\ events = [e \in Executions |-> <<>>]
    /\ worker_id = [e \in Executions |-> NoWorker]
    /\ stale = [e \in Executions |-> FALSE]
    /\ queue = {}
    /\ startpc = [e \in Executions |-> "idle"]
    /\ cancelpc = [e \in Executions |-> "idle"]
    /\ cancelseen = [e \in Executions |-> "none"]
    /\ wpc = [w \in Workers |-> "idle"]
    /\ job = [w \in Workers |-> NoJob]
    /\ seen = [w \in Workers |-> "none"]
    /\ cancel = [w \in Workers |-> "off"]
    /\ thread = [e \in Executions |-> NoThread]
    /\ boxes = {}
    /\ spc = "idle"
    /\ picked = [e \in Executions |-> "none"]
    /\ changed = {}
    /\ cleanup = {}
    /\ shown = [e \in Executions |-> "none"]
    /\ faults = 0

StartStep(e)  == \/ StartEnqueue(e) \/ StartAnnounce(e) \/ StartCompensate(e) \/ StartRemove(e)
CancelStep(e) == \/ CancelWrite(e) \/ CancelRemove(e) \/ CancelSignal(e) \/ CancelPublish(e)
WorkerStep(w) ==
    \/ WorkerScan(w) \/ WorkerTake(w) \/ WorkerClaim(w) \/ WorkerRead(w) \/ WorkerWrite(w)
    \/ WorkerPublish(w) \/ WorkerSubscribe(w) \/ WorkerRecheck(w) \/ WorkerMount(w)
    \/ WorkerLaunch(w) \/ WorkerJoin(w) \/ WorkerKill(w) \/ WorkerCleanup(w)
ThreadStep(e) == \/ ThreadCreate(e) \/ ThreadWaitRun(e) \/ ThreadWaitBuild(e) \/ ThreadRemove(e)
SweepStep ==
    \/ SweepSelect \/ SweepWrite \/ SweepList \/ SweepQuery \/ SweepDone
    \/ \E e \in Executions : SweepKill(e) \/ SweepSignal(e)

Next ==
    \/ \E e \in Executions :
         \/ StartCommit(e) \/ StartStep(e) \/ StartEnqueueFails(e)
         \/ CancelRead(e) \/ CancelStep(e) \/ CancelFails(e) \/ HandlerDbFails(e)
         \/ ThreadStep(e) \/ Age(e)
    \/ \E w \in Workers :
         \/ WorkerStep(w) \/ WorkerListen(w) \/ WorkerDeaf(w) \/ WorkerTakeFails(w)
         \/ WorkerPublishFails(w) \/ WorkerDbFails(w) \/ WorkerKillFails(w) \/ WorkerCrash(w)
    \/ SweepStep \/ SweepDbFails
    \/ BackendCrash

Spec == Init /\ [][Next]_vars

\* Handlers, workers and threads are run by an event loop or by the operating
\* system and never wait for a peer for ever; the sweep loop catches every
\* exception and goes on.  Nobody has to start a run, to cancel one, or to fail.
Fairness ==
    /\ \A e \in Executions : /\ WF_vars(StartStep(e)) /\ WF_vars(CancelStep(e))
                             /\ WF_vars(ThreadStep(e)) /\ WF_vars(Age(e))
    /\ \A w \in Workers : WF_vars(WorkerStep(w)) /\ WF_vars(WorkerListen(w))
    /\ WF_vars(SweepStep)

FairSpec == Spec /\ Fairness
-----------------------------------------------------------------------------
(* Properties *)

WorkerPcs == {"idle", "take", "claim", "subscribe", "recheck", "mount", "build",
              "building", "run", "executing", "cleanup"}
             \union TransitionPcs \union PublishPcs

Thread == [op : {"none", "build", "run"},
           at : {"create", "wait", "remove", "done"},
           result : {"none", "built", "completed", "failed", "timeout", "error"}]

\* The types of the rows, queue, handlers, workers, threads and sweep
TypeOK ==
    /\ status \in [Executions -> Status \union {"none"}]
    /\ events \in [Executions -> Seq(Event)]
    /\ worker_id \in [Executions -> Workers \union {NoWorker}]
    /\ stale \in [Executions -> BOOLEAN]
    /\ queue \subseteq Executions
    /\ startpc \in [Executions -> {"idle", "enqueue", "announce", "undelivered", "remove", "done"}]
    /\ cancelpc \in [Executions -> {"idle", "write", "remove", "signal", "publish"}]
    /\ cancelseen \in [Executions -> Status \union {"none"}]
    /\ wpc \in [Workers -> WorkerPcs]
    /\ job \in [Workers -> Executions \union {NoJob}]
    /\ seen \in [Workers -> Status \union {"none"}]
    /\ cancel \in [Workers -> {"off", "sub", "mail", "set"}]
    /\ thread \in [Executions -> Thread]
    /\ boxes \subseteq Executions
    /\ spc \in {"idle", "write", "list", "query", "kill"}
    /\ picked \in [Executions -> Status \union {"none"}]
    /\ changed \subseteq Executions
    /\ cleanup \subseteq Executions
    /\ shown \in [Executions -> Status \union {"none"}]
    /\ faults \in 0..MaxFaults

Lifecycle == INSTANCE ExecutionLifecycle
                 WITH Executions <- Executions, status <- status, events <- events

\* Whoever writes, and however stale what it has read is, the rows and their
\* audit trails follow the lifecycle: change_status, the worker's claim and the
\* sweep's transaction implement ExecutionLifecycle.
ImplementsLifecycle == Lifecycle!Spec

\* The trail that the API, the workers and the sweep write together is a path
\* of the state machine that ends in the row's status: record_status_event is
\* part of the transaction of every change, and of no refused one.
AuditTrailOK == Lifecycle!AuditTrailOK

\* Of all who may end a run (worker, cancel, compensation, sweep) one does: at
\* most the last event of a trail is a finished status (requirement FR-10, "one
\* terminal state").
FinishesOnce == Lifecycle!FinishesOnce

\* A worker is told to stop only about a run that is finished: a cancel message
\* (from cancel_execution or from the sweep) follows the commit, and the ways
\* into ExecutionCancelled are all taken on a finished row.  So no live run is
\* killed, and a worker never records CANCELLED over another outcome.
CancelMeansFinished ==
    \A w \in Workers :
        cancel[w] \in {"mail", "set"} \/ wpc[w] = "exc_cancelled"
            => status[job[w]] \in Finished

\* A finished status that a console shows is the recorded one: the worker
\* publishes only what it committed, and late events do not undo it.
ShownFinishedIsRecorded ==
    \A e \in Executions : shown[e] \in Finished => shown[e] = status[e]

\* The outcome a console shows stays: a "running" published late, by a worker
\* that lost the race with a cancel, does not undo it.
ConsoleKeepsOutcome ==
    [][\A e \in Executions : shown[e] \in Finished => shown'[e] = shown[e]]_shown

\* When a cancelled worker leaves the sandbox its run has no container, even
\* if the cancel arrived before the thread had created it (_run_cancellable).
CancelledLeavesNoContainer ==
    \A w \in Workers : wpc[w] = "exc_cancelled" => job[w] \notin boxes

\* _run_cancellable joins its thread before the workspace is deleted: a sandbox
\* thread runs only while its worker waits for it.
WorkspaceOutlivesThread ==
    \A e \in Executions :
        Busy(thread[e]) => \E w \in Workers : job[w] = e /\ wpc[w] \in {"building", "executing"}

\* A claimed run finishes whatever happens to its worker (NFR-D4).
ClaimedFinishes ==
    \A e \in Executions : status[e] \in Active ~> status[e] \in Finished

\* A container that outlives its run is removed in the end (by its thread, by
\* the cancelled worker, or by a later sweep).
LeftoversRemoved ==
    \A e \in Executions : (status[e] \in Finished /\ e \in boxes) ~> e \notin boxes

\* An accepted run finishes, whether or not it could be put into the queue: a
\* failed enqueue_execution is made up for by _fail_undelivered_run.
AcceptedFinishes ==
    \A e \in Executions : status[e] = "queued" ~> status[e] \in Finished
=============================================================================
