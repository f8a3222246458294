------------------------ MODULE ExecutionPipelineProofs ------------------------
(***************************************************************************)
(* ExecutionPipeline keeps its inductive invariant and implements          *)
(* ExecutionLifecycle, for any executions, workers and number of failures; *)
(* and what PriorityQueue promises of the queue the runs wait in.          *)
(***************************************************************************)
EXTENDS ExecutionPipelineInv, PriorityQueue, TLAPS

USE DEF dbVars, rowVars, startVars, cancelVars, workerVars, dockerVars, sweepVars, NoFault, Goto

(***************************************************************************)
(* The tables                                                              *)
(***************************************************************************)

\* What ALLOWED_TRANSITIONS allows
LEMMA CanTransition ==
    /\ \A c, t : can_transition(c, t) => c \in Status \ Finished /\ t \in Status \ {"queued"}
    /\ can_transition("queued", "failed")
    /\ \A c \in Active : /\ can_transition(c, "failed") /\ can_transition(c, "cancelled")
                         /\ ~can_transition(c, "starting")
    /\ can_transition("starting", "compiling")
    /\ can_transition("starting", "running") /\ can_transition("compiling", "running")
    /\ \A t \in Finished : can_transition("running", t)
    /\ "queued" \notin Active /\ "none" \notin Active /\ Active \intersect Finished = {}
    /\ Active \subseteq Status /\ Finished \subseteq Status /\ "none" \notin Status
  BY DEF can_transition, ALLOWED_TRANSITIONS, Status, Finished, Active

\* Where the worker's transitions lead
LEMMA TransitionTable ==
    /\ TransitionPcs = {"to_compiling", "to_running", "to_completed", "to_failed", "to_timeout",
                        "exc_cancelled", "exc_failed"}
    /\ \A pc \in TransitionPcs :
          /\ Transition[pc].target \in Status \ {"queued", "starting"}
          /\ Transition[pc].made \in PublishPcs
          /\ Publish[Transition[pc].made].tells = Transition[pc].target
          /\ Transition[pc].refused =
                IF pc \in {"to_compiling", "to_running"} THEN "exc_cancelled" ELSE "cleanup"
    /\ Transition["to_compiling"].target = "compiling"
    /\ Transition["to_compiling"].made = "pub_compiling"
    /\ Transition["to_running"].target = "running"
    /\ Transition["to_running"].made = "pub_running"
    /\ \A pc \in TransitionPcs \ {"to_compiling", "to_running"} :
          /\ Transition[pc].target \in Finished
          /\ Transition[pc].made \notin {"pub_starting", "pub_compiling", "pub_running"}
  BY DEF Transition, TransitionPcs, Publish, PublishPcs, Status, Finished

\* Where its publications lead
LEMMA PublishTable ==
    /\ PublishPcs = {"pub_starting", "pub_compiling", "pub_running", "pub_completed", "pub_failed",
                     "pub_timeout", "pub_exc_cancelled", "pub_exc_failed"}
    /\ \A pc \in PublishPcs : Publish[pc].tells \in Status
    /\ Publish["pub_starting"] = [tells |-> "starting", then |-> "subscribe", error |-> "idle"]
    /\ Publish["pub_compiling"] = [tells |-> "compiling", then |-> "build", error |-> "exc_failed"]
    /\ Publish["pub_running"] = [tells |-> "running", then |-> "run", error |-> "exc_failed"]
    /\ \A pc \in PublishPcs \ {"pub_starting", "pub_compiling", "pub_running"} :
          /\ Publish[pc].tells \in Finished
          /\ Publish[pc].then = "cleanup"
          /\ Publish[pc].error \in {"exc_failed", "cleanup"}
  BY DEF Publish, PublishPcs, Status, Finished

(***************************************************************************)
(* Types                                                                   *)
(***************************************************************************)

\* A function that gets a new value of its range at one place
LEMMA UpdateType ==
    ASSUME NEW S, NEW T, NEW f \in [S -> T], NEW x, NEW v \in T
    PROVE  [f EXCEPT ![x] = v] \in [S -> T]
  OBVIOUS

\* A change of status extends the row's trail by an event.
LEMMA ChangeType ==
    ASSUME TypeOK, NEW e \in Executions, NEW c, NEW t, NEW by \in Actors, ChangeStatus(e, c, t, by)
    PROVE  /\ status' \in [Executions -> Status \union {"none"}]
           /\ events' \in [Executions -> Seq(Event)]
  <1>1. c \in Status /\ t \in Status
    BY CanTransition DEF ChangeStatus, CanChange
  <1>2. record_status_event(c, t, by) \in Event
    BY <1>1 DEF record_status_event, Event
  <1> QED BY <1>1, <1>2 DEF ChangeStatus, TypeOK

LEMMA ThreadTypeStep ==
    ASSUME TypeOK, NEW e \in Executions, NEW at \in {"create", "wait", "remove", "done"},
           NEW r \in {"none", "built", "completed", "failed", "timeout", "error"},
           SetThread(e, at, r)
    PROVE  /\ thread' \in [Executions -> Thread]
           /\ thread'[e] = [op |-> thread[e].op, at |-> at, result |-> r]
           /\ \A x \in Executions : x # e => thread'[x] = thread[x]
  <1>1. thread \in [Executions -> Thread]
    BY DEF TypeOK
  <1>2. thread[e] \in Thread
    BY <1>1
  <1>3. [op |-> thread[e].op, at |-> at, result |-> r] \in Thread
    BY <1>2 DEF Thread
  <1>4. thread' = [thread EXCEPT ![e] = [op |-> thread[e].op, at |-> at, result |-> r]]
    BY <1>1 DEF SetThread
  <1> QED BY <1>1, <1>3, <1>4

\* The steps that change no row, run no thread and leave the worker's place to
\* a constant keep the types by what they assign.
LEMMA TypeInit == Init => TypeOK
  BY PipelineAssumption DEF Init, TypeOK, Thread, NoThread, Status, WorkerPcs

LEMMA TypeStart ==
    ASSUME TypeOK, NEW e \in Executions,
           StartCommit(e) \/ StartStep(e) \/ StartEnqueueFails(e)
    PROVE  TypeOK'
  <1>1. CASE StartCommit(e)
    <2>1. <<record_status_event("none", "queued", "api")>> \in Seq(Event)
      BY DEF record_status_event, Event, Status, Actors
    <2> QED BY <1>1, <2>1 DEF StartCommit, TypeOK, Status
  <1>2. CASE StartEnqueue(e)
    BY <1>2 DEF StartEnqueue, TypeOK
  <1>3. CASE StartEnqueueFails(e)
    BY <1>3, PipelineAssumption DEF StartEnqueueFails, Fault, TypeOK
  <1>4. CASE StartAnnounce(e)
    BY <1>4 DEF StartAnnounce, TypeOK, Status
  <1>5. CASE StartCompensate(e)
    <2>1. status' \in [Executions -> Status \union {"none"}] /\ events' \in [Executions -> Seq(Event)]
      BY <1>5, ChangeType DEF StartCompensate, Actors, TypeOK
    <2>2. startpc' \in [Executions -> {"idle", "enqueue", "announce", "undelivered", "remove", "done"}]
      <3>1. startpc' = [startpc EXCEPT ![e] = "remove"] \/ startpc' = [startpc EXCEPT ![e] = "done"]
        BY <1>5 DEF StartCompensate
      <3>2. startpc \in [Executions -> {"idle", "enqueue", "announce", "undelivered", "remove", "done"}]
        BY DEF TypeOK
      <3> QED BY <3>1, <3>2, UpdateType
    <2>3. UNCHANGED <<worker_id, stale, queue, cancelVars, workerVars, dockerVars, sweepVars, shown, faults>>
      BY <1>5 DEF StartCompensate, NoFault
    <2> QED BY <2>1, <2>2, <2>3 DEF TypeOK
  <1>6. CASE StartRemove(e)
    BY <1>6, PipelineAssumption DEF StartRemove, Fault, TypeOK
  <1> QED BY <1>1, <1>2, <1>3, <1>4, <1>5, <1>6 DEF StartStep

LEMMA TypeCancel ==
    ASSUME TypeOK, NEW e \in Executions,
           CancelRead(e) \/ CancelStep(e) \/ CancelFails(e) \/ HandlerDbFails(e)
    PROVE  TypeOK'
  <1>1. CASE CancelRead(e)
    BY <1>1 DEF CancelRead, TypeOK
  <1>2. CASE CancelWrite(e)
    <2>1. status' \in [Executions -> Status \union {"none"}] /\ events' \in [Executions -> Seq(Event)]
      BY <1>2, ChangeType DEF CancelWrite, Actors, TypeOK
    <2>2. cancelpc' \in [Executions -> {"idle", "write", "remove", "signal", "publish"}]
      <3>1. \/ UNCHANGED cancelpc
            \/ \E pc \in {"idle", "remove"} : cancelpc' = [cancelpc EXCEPT ![e] = pc]
        BY <1>2 DEF CancelWrite
      <3> QED BY <3>1 DEF TypeOK
    <2>3. cancelseen' \in [Executions -> Status \union {"none"}]
      <3>1. \E s \in Status \union {"none"} : cancelseen' = [cancelseen EXCEPT ![e] = s]
        BY <1>2 DEF CancelWrite, TypeOK
      <3> QED BY <3>1 DEF TypeOK
    <2>4. UNCHANGED <<worker_id, stale, queue, startVars, workerVars, dockerVars, sweepVars, shown, faults>>
      BY <1>2 DEF CancelWrite
    <2> QED BY <2>1, <2>2, <2>3, <2>4 DEF TypeOK
  <1>3. CASE CancelRemove(e)
    BY <1>3 DEF CancelRemove, TypeOK
  <1>4. CASE CancelSignal(e)
    BY <1>4 DEF CancelSignal, SignalCancel, TypeOK
  <1>5. CASE CancelPublish(e)
    BY <1>5 DEF CancelPublish, applyRunEvent, TypeOK, Status
  <1>6. CASE CancelFails(e)
    <2>1. cancel' \in [Workers -> {"off", "sub", "mail", "set"}]
      BY <1>6 DEF CancelFails, SignalCancel, TypeOK
    <2>2. queue' \subseteq Executions /\ faults' \in 0..MaxFaults
      BY <1>6, PipelineAssumption DEF CancelFails, Fault, TypeOK
    <2> QED BY <1>6, <2>1, <2>2 DEF CancelFails, TypeOK
  <1>7. CASE HandlerDbFails(e)
    <2>1. faults' \in 0..MaxFaults
      BY <1>7, PipelineAssumption DEF HandlerDbFails, Fault, TypeOK
    <2>2. /\ startpc' = [startpc EXCEPT ![e] = "done"] \/ UNCHANGED startpc
          /\ cancelpc' = [cancelpc EXCEPT ![e] = "idle"] \/ UNCHANGED cancelpc
          /\ cancelseen' = [cancelseen EXCEPT ![e] = "none"] \/ UNCHANGED cancelseen
      BY <1>7 DEF HandlerDbFails
    <2>3. UNCHANGED <<rowVars, queue, workerVars, dockerVars, sweepVars, shown>>
      BY <1>7 DEF HandlerDbFails
    <2>4. startpc' \in [Executions -> {"idle", "enqueue", "announce", "undelivered", "remove", "done"}]
      BY <2>2 DEF TypeOK
    <2>5. cancelpc' \in [Executions -> {"idle", "write", "remove", "signal", "publish"}]
      BY <2>2 DEF TypeOK
    <2>6. cancelseen' \in [Executions -> Status \union {"none"}]
      BY <2>2 DEF TypeOK
    <2> QED BY <2>1, <2>3, <2>4, <2>5, <2>6 DEF TypeOK
  <1> QED BY <1>1, <1>2, <1>3, <1>4, <1>5, <1>6, <1>7 DEF CancelStep

\* The statement of the types the worker's steps can disturb
WorkerType == /\ wpc \in [Workers -> WorkerPcs]
              /\ job \in [Workers -> Executions \union {NoJob}]
              /\ seen \in [Workers -> Status \union {"none"}]
              /\ cancel \in [Workers -> {"off", "sub", "mail", "set"}]

LEMMA TypeWorkerFetch ==
    ASSUME TypeOK, ClaimInv, NEW w \in Workers,
           WorkerScan(w) \/ WorkerTake(w) \/ WorkerTakeFails(w) \/ WorkerClaim(w)
    PROVE  TypeOK'
  <1>1. CASE WorkerScan(w)
    <2>1. job' \in [Workers -> Executions \union {NoJob}]
      BY <1>1 DEF WorkerScan, TypeOK
    <2>2. wpc' \in [Workers -> WorkerPcs]
      BY <1>1 DEF WorkerScan, Goto, TypeOK, WorkerPcs
    <2>3. UNCHANGED <<rowVars, queue, startVars, cancelVars, seen, cancel, dockerVars, sweepVars, shown, faults>>
      BY <1>1 DEF WorkerScan, NoFault
    <2> QED BY <2>1, <2>2, <2>3 DEF TypeOK
  <1>2. CASE WorkerTake(w)
    <2>1. /\ job' = job \/ job' = [job EXCEPT ![w] = NoJob]
          /\ queue' = queue \/ queue' = queue \ {job[w]}
          /\ wpc' = [wpc EXCEPT ![w] = "claim"] \/ wpc' = [wpc EXCEPT ![w] = "idle"]
      BY <1>2 DEF WorkerTake, Goto
    <2>2. job' \in [Workers -> Executions \union {NoJob}] /\ queue' \subseteq Executions
      BY <2>1 DEF TypeOK
    <2>3. wpc' \in [Workers -> WorkerPcs]
      BY <2>1 DEF TypeOK, WorkerPcs
    <2>4. UNCHANGED <<rowVars, startVars, cancelVars, seen, cancel, dockerVars, sweepVars, shown, faults>>
      BY <1>2 DEF WorkerTake, NoFault
    <2> QED BY <2>2, <2>3, <2>4 DEF TypeOK
  <1>3. CASE WorkerClaim(w)
    <2>1. job[w] \in Executions
      BY <1>3 DEF WorkerClaim, ClaimInv, ClaimOf
    <2>2. record_status_event("queued", "starting", "worker") \in Event
      BY DEF record_status_event, Event, Status, Actors
    <2>3. status' \in [Executions -> Status \union {"none"}] /\ events' \in [Executions -> Seq(Event)]
      <3>1. \/ UNCHANGED <<status, events>>
            \/ /\ status' = [status EXCEPT ![job[w]] = "starting"]
               /\ events' = [events EXCEPT ![job[w]] =
                              Append(@, record_status_event("queued", "starting", "worker"))]
        BY <1>3 DEF WorkerClaim
      <3>2. "starting" \in Status \union {"none"} /\ events[job[w]] \in Seq(Event)
        BY <2>1 DEF Status, TypeOK
      <3>3. Append(events[job[w]], record_status_event("queued", "starting", "worker")) \in Seq(Event)
        BY <2>2, <3>2
      <3>4. CASE UNCHANGED <<status, events>>
        BY <3>4 DEF TypeOK
      <3>5. CASE /\ status' = [status EXCEPT ![job[w]] = "starting"]
                 /\ events' = [events EXCEPT ![job[w]] =
                                Append(@, record_status_event("queued", "starting", "worker"))]
        <4>1. status \in [Executions -> Status \union {"none"}] /\ events \in [Executions -> Seq(Event)]
          BY DEF TypeOK
        <4> QED BY <3>2, <3>3, <3>5, <4>1
      <3> QED BY <3>1, <3>4, <3>5
    <2>4. WorkerType' /\ worker_id' \in [Executions -> Workers \union {NoWorker}]
      <3>1. /\ UNCHANGED <<seen, cancel>>
            /\ \E pc \in {"pub_starting", "idle"} : wpc' = [wpc EXCEPT ![w] = pc]
            /\ UNCHANGED job \/ job' = [job EXCEPT ![w] = NoJob]
            /\ UNCHANGED worker_id \/ worker_id' = [worker_id EXCEPT ![job[w]] = w]
        BY <1>3 DEF WorkerClaim
      <3>2. {"pub_starting", "idle"} \subseteq WorkerPcs
        BY PublishTable DEF WorkerPcs
      <3> QED BY <3>1, <3>2, UpdateType DEF WorkerType, TypeOK
    <2>5. UNCHANGED <<stale, queue, startVars, cancelVars, dockerVars, sweepVars, shown, faults>>
      BY <1>3 DEF WorkerClaim
    <2> QED BY <2>3, <2>4, <2>5 DEF TypeOK, WorkerType
  <1>4. CASE WorkerTakeFails(w)
    BY <1>4, PipelineAssumption DEF WorkerTakeFails, Fault, TypeOK, WorkerPcs
  <1> QED BY <1>1, <1>2, <1>3, <1>4

LEMMA TypeWorkerRecord ==
    ASSUME TypeOK, ClaimInv, NEW w \in Workers,
           WorkerRead(w) \/ WorkerWrite(w) \/ WorkerPublish(w) \/ WorkerPublishFails(w) \/ WorkerDbFails(w)
    PROVE  TypeOK'
  <1>0. "idle" \notin TransitionPcs \union PublishPcs \union {"claim", "recheck"}
    BY TransitionTable, PublishTable
  <1>j. wpc[w] # "idle" => job[w] \in Executions
    BY DEF ClaimInv, ClaimOf
  <1>1. CASE WorkerRead(w)
    <2>1. WorkerType'
      BY <1>1, <1>0, <1>j DEF WorkerRead, WorkerType, TypeOK
    <2>2. UNCHANGED <<rowVars, queue, startVars, cancelVars, dockerVars, sweepVars, shown, faults>>
      BY <1>1 DEF WorkerRead
    <2> QED BY <2>1, <2>2 DEF TypeOK, WorkerType
  <1>2. CASE WorkerWrite(w)
    <2>1. job[w] \in Executions
      BY <1>2, <1>0, <1>j DEF WorkerWrite
    <2>2. status' \in [Executions -> Status \union {"none"}] /\ events' \in [Executions -> Seq(Event)]
      BY <1>2, <2>1, ChangeType DEF WorkerWrite, Actors, TypeOK
    <2>3. \A ok : AfterWrite(Transition[wpc[w]], ok) \in WorkerPcs
      BY <1>2, TransitionTable DEF WorkerWrite, AfterWrite, WorkerPcs
    <2>4. WorkerType'
      BY <1>2, <2>3 DEF WorkerWrite, WorkerType, TypeOK
    <2>5. UNCHANGED <<worker_id, stale, queue, startVars, cancelVars, dockerVars, sweepVars, shown, faults>>
      BY <1>2 DEF WorkerWrite
    <2> QED BY <2>2, <2>4, <2>5 DEF TypeOK, WorkerType
  <1>3. CASE WorkerPublish(w)
    <2>1. job[w] \in Executions
      BY <1>3, <1>0, <1>j DEF WorkerPublish
    <2>2. Publish[wpc[w]].then \in WorkerPcs /\ Publish[wpc[w]].tells \in Status
      BY <1>3, PublishTable DEF WorkerPublish, WorkerPcs
    <2>3. WorkerType' /\ shown' \in [Executions -> Status \union {"none"}]
      BY <1>3, <2>1, <2>2 DEF WorkerPublish, applyRunEvent, WorkerType, TypeOK
    <2>4. UNCHANGED <<rowVars, queue, startVars, cancelVars, dockerVars, sweepVars, faults>>
      BY <1>3 DEF WorkerPublish
    <2> QED BY <2>3, <2>4 DEF TypeOK, WorkerType
  <1>4. CASE WorkerPublishFails(w)
    <2>1. Publish[wpc[w]].error \in WorkerPcs
      BY <1>4, PublishTable, TransitionTable DEF WorkerPublishFails, WorkerPcs
    <2>2. WorkerType' /\ faults' \in 0..MaxFaults
      BY <1>4, <2>1, PipelineAssumption DEF WorkerPublishFails, WorkerType, TypeOK, Fault
    <2>3. UNCHANGED <<rowVars, queue, startVars, cancelVars, dockerVars, sweepVars>>
      BY <1>4 DEF WorkerPublishFails
    <2>4. shown' \in [Executions -> Status \union {"none"}]
      <3>1. job[w] \in Executions /\ Publish[wpc[w]].tells \in Status
        BY <1>4, <1>0, <1>j, PublishTable DEF WorkerPublishFails
      <3>2. UNCHANGED shown \/ applyRunEvent(job[w], Publish[wpc[w]].tells)
        BY <1>4 DEF WorkerPublishFails
      <3>3. CASE UNCHANGED shown
        BY <3>3 DEF TypeOK
      <3>4. CASE applyRunEvent(job[w], Publish[wpc[w]].tells)
        BY <3>1, <3>4 DEF applyRunEvent, TypeOK
      <3> QED BY <3>2, <3>3, <3>4
    <2> QED BY <2>2, <2>3, <2>4 DEF TypeOK, WorkerType
  <1>5. CASE WorkerDbFails(w)
    <2>1. {"idle", "cleanup", "exc_failed"} \subseteq WorkerPcs
      BY TransitionTable DEF WorkerPcs
    <2>2. WorkerType' /\ faults' \in 0..MaxFaults
      <3>1. /\ UNCHANGED cancel /\ seen' = [seen EXCEPT ![w] = "none"] /\ Fault("db")
            /\ \E pc \in {"idle", "cleanup", "exc_failed"} : wpc' = [wpc EXCEPT ![w] = pc]
            /\ UNCHANGED job \/ job' = [job EXCEPT ![w] = NoJob]
        BY <1>5 DEF WorkerDbFails
      <3> QED BY <3>1, <2>1, UpdateType, PipelineAssumption DEF WorkerType, TypeOK, Fault
    <2>3. UNCHANGED <<rowVars, queue, startVars, cancelVars, dockerVars, sweepVars, shown>>
      BY <1>5 DEF WorkerDbFails
    <2> QED BY <2>2, <2>3 DEF TypeOK, WorkerType
  <1> QED BY <1>1, <1>2, <1>3, <1>4, <1>5

\* A thread that has returned has a result for its worker.
LEMMA JoinResult ==
    ASSUME TypeOK, ClaimInv, ThreadInv, NEW w \in Workers, WorkerJoin(w)
    PROVE  /\ job[w] \in Executions /\ thread[job[w]].at = "done"
           /\ wpc[w] = "building" => thread[job[w]].result \in {"built", "error"}
           /\ wpc[w] = "executing" =>
                 thread[job[w]].result \in {"completed", "failed", "timeout", "error"}
  <1>1. wpc[w] \in {"building", "executing"} /\ job[w] \in Executions
    BY DEF WorkerJoin, ClaimInv, ClaimOf
  <1>2. thread[job[w]] \in Thread /\ thread[job[w]].at = "done"
    BY <1>1 DEF WorkerJoin, Busy, TypeOK
  <1> QED BY <1>1, <1>2 DEF ThreadInv, ThreadOf, ThreadResultOK, BoxOf, Thread

LEMMA TypeWorkerRun ==
    ASSUME TypeOK, ClaimInv, ThreadInv, NEW w \in Workers,
           \/ WorkerSubscribe(w) \/ WorkerDeaf(w) \/ WorkerRecheck(w) \/ WorkerMount(w)
           \/ WorkerListen(w) \/ WorkerLaunch(w) \/ WorkerJoin(w) \/ WorkerKill(w)
           \/ WorkerKillFails(w) \/ WorkerCleanup(w) \/ WorkerCrash(w)
    PROVE  TypeOK'
  <1>p. {"idle", "recheck", "mount", "building", "executing", "cleanup", "to_compiling", "to_running",
         "to_completed", "to_failed", "to_timeout", "exc_cancelled", "exc_failed"} \subseteq WorkerPcs
    BY TransitionTable DEF WorkerPcs
  <1>1. CASE WorkerSubscribe(w)
    <2>1. WorkerType'
      <3>1. /\ UNCHANGED <<job, seen>> /\ wpc' = [wpc EXCEPT ![w] = "recheck"]
            /\ cancel' = [cancel EXCEPT ![w] = "sub"] \/ UNCHANGED cancel
        BY <1>1 DEF WorkerSubscribe
      <3> QED BY <3>1, <1>p DEF WorkerType, TypeOK
    <2>2. faults' \in 0..MaxFaults
      BY <1>1, PipelineAssumption DEF WorkerSubscribe, Fault, TypeOK
    <2>3. UNCHANGED <<rowVars, queue, startVars, cancelVars, dockerVars, sweepVars, shown>>
      BY <1>1 DEF WorkerSubscribe
    <2> QED BY <2>1, <2>2, <2>3 DEF TypeOK, WorkerType
  <1>2. CASE WorkerDeaf(w)
    BY <1>2, PipelineAssumption DEF WorkerDeaf, Fault, TypeOK
  <1>3. CASE WorkerRecheck(w)
    BY <1>3, <1>p DEF WorkerRecheck, TypeOK
  <1>4. CASE WorkerMount(w)
    <2>1. WorkerType'
      <3>1. \E pc \in WorkerPcs : wpc' = [wpc EXCEPT ![w] = pc]
        BY <1>4, <1>p DEF WorkerMount
      <3> QED BY <1>4, <3>1 DEF WorkerMount, WorkerType, TypeOK
    <2> QED BY <1>4, <2>1 DEF WorkerMount, TypeOK, WorkerType
  <1>5. CASE WorkerListen(w)
    BY <1>5 DEF WorkerListen, TypeOK
  <1>6. CASE WorkerLaunch(w)
    <2>1. WorkerType'
      <3>1. /\ UNCHANGED <<job, seen, cancel>>
            /\ \E pc \in WorkerPcs : wpc' = [wpc EXCEPT ![w] = pc]
        BY <1>6, <1>p DEF WorkerLaunch
      <3> QED BY <3>1, UpdateType DEF WorkerType, TypeOK
    <2>2. thread' \in [Executions -> Thread]
      <3>1. [op |-> wpc[w], at |-> "create", result |-> "none"] \in Thread
        BY <1>6 DEF WorkerLaunch, Thread
      <3>2. \/ UNCHANGED thread
            \/ thread' = [thread EXCEPT ![job[w]] = [op |-> wpc[w], at |-> "create", result |-> "none"]]
        BY <1>6 DEF WorkerLaunch
      <3>3. thread \in [Executions -> Thread]
        BY DEF TypeOK
      <3> QED BY <3>1, <3>2, <3>3
    <2>3. UNCHANGED <<rowVars, queue, startVars, cancelVars, boxes, sweepVars, shown, faults>>
      BY <1>6 DEF WorkerLaunch
    <2> QED BY <2>1, <2>2, <2>3 DEF TypeOK, WorkerType
  <1>7. CASE WorkerJoin(w)
    <2>1. AfterJoin[thread[job[w]].result] \in WorkerPcs
      <3>1. thread[job[w]].result \in {"built", "completed", "failed", "timeout", "error"}
        BY <1>7, JoinResult DEF WorkerJoin
      <3> QED BY <3>1, <1>p DEF AfterJoin
    <2>2. WorkerType'
      BY <1>7, <2>1 DEF WorkerJoin, WorkerType, TypeOK
    <2>3. UNCHANGED <<rowVars, queue, startVars, cancelVars, dockerVars, sweepVars, shown, faults>>
      BY <1>7 DEF WorkerJoin
    <2> QED BY <2>2, <2>3 DEF TypeOK, WorkerType
  <1>8. CASE WorkerKill(w)
    BY <1>8, <1>p DEF WorkerKill, AfterKill, TypeOK
  <1>9. CASE WorkerKillFails(w)
    BY <1>9, <1>p, PipelineAssumption DEF WorkerKillFails, Fault, TypeOK
  <1>10. CASE WorkerCleanup(w)
    BY <1>10, <1>p DEF WorkerCleanup, TypeOK
  <1>11. CASE WorkerCrash(w)
    <2>1. WorkerType' /\ faults' \in 0..MaxFaults
      BY <1>11, <1>p, PipelineAssumption DEF WorkerCrash, Fault, WorkerType, TypeOK
    <2>2. NoThread \in Thread
      BY DEF NoThread, Thread
    <2>3. thread' \in [Executions -> Thread]
      BY <1>11, <2>2 DEF WorkerCrash, TypeOK
    <2> QED BY <1>11, <2>1, <2>3 DEF WorkerCrash, TypeOK, WorkerType
  <1> QED BY <1>1, <1>2, <1>3, <1>4, <1>5, <1>6, <1>7, <1>8, <1>9, <1>10, <1>11

LEMMA TypeThread ==
    ASSUME TypeOK, NEW e \in Executions, ThreadStep(e)
    PROVE  TypeOK'
  <1>0. thread[e] \in Thread
    BY DEF TypeOK
  <1>1. thread' \in [Executions -> Thread]
    <2>1. \E at \in {"create", "wait", "remove", "done"} :
             \E r \in {"none", "built", "completed", "failed", "timeout", "error"} : SetThread(e, at, r)
      BY <1>0 DEF ThreadStep, ThreadCreate, ThreadWaitRun, ThreadWaitBuild, ThreadRemove, Thread
    <2> QED BY <2>1, ThreadTypeStep
  <1>2. boxes' \subseteq Executions
    BY DEF ThreadStep, ThreadCreate, ThreadWaitRun, ThreadWaitBuild, ThreadRemove, TypeOK
  <1>3. faults' \in 0..MaxFaults
    BY PipelineAssumption
    DEF ThreadStep, ThreadCreate, ThreadWaitRun, ThreadWaitBuild, ThreadRemove, TypeOK, Fault
  <1>4. UNCHANGED <<rowVars, queue, startVars, cancelVars, workerVars, sweepVars, shown>>
    BY DEF ThreadStep, ThreadCreate, ThreadWaitRun, ThreadWaitBuild, ThreadRemove
  <1> QED BY <1>1, <1>2, <1>3, <1>4 DEF TypeOK

LEMMA TypeSweep ==
    ASSUME TypeOK, SweepStep \/ SweepDbFails \/ BackendCrash \/ \E e \in Executions : Age(e)
    PROVE  TypeOK'
  <1>1. CASE SweepSelect
    BY <1>1 DEF SweepSelect, TypeOK
  <1>2. CASE SweepWrite
    <2>1. changed' \subseteq Executions
      BY <1>2 DEF SweepWrite
    <2>2. status' \in [Executions -> Status \union {"none"}]
      BY <1>2 DEF SweepWrite, Status, TypeOK
    <2>3. events' \in [Executions -> Seq(Event)]
      <3> SUFFICES ASSUME NEW x \in Executions PROVE events'[x] \in Seq(Event)
        BY <1>2 DEF SweepWrite
      <3>0. events[x] \in Seq(Event)
        BY DEF TypeOK
      <3>1. CASE x \in changed'
        <4>1. picked[x] \in Status
          BY <1>2, <3>1, CanTransition DEF SweepWrite, CanChange
        <4>2. record_status_event(picked[x], "failed", "sweeper") \in Event
          BY <4>1 DEF record_status_event, Event, Status, Actors
        <4>3. events'[x] = Append(events[x], record_status_event(picked[x], "failed", "sweeper"))
          BY <1>2, <3>1 DEF SweepWrite
        <4> QED BY <3>0, <4>2, <4>3
      <3>2. CASE x \notin changed'
        BY <1>2, <3>0, <3>2 DEF SweepWrite
      <3> QED BY <3>1, <3>2
    <2>4. spc' = "list" /\ picked' = [x \in Executions |-> "none"]
      BY <1>2 DEF SweepWrite
    <2>5. UNCHANGED <<worker_id, stale, queue, startVars, cancelVars, workerVars, dockerVars,
                      cleanup, shown, faults>>
      BY <1>2 DEF SweepWrite
    <2> QED BY <2>1, <2>2, <2>3, <2>4, <2>5 DEF TypeOK
  <1>3. CASE SweepList
    BY <1>3, PipelineAssumption DEF SweepList, Fault, TypeOK
  <1>4. CASE SweepQuery
    <2>1. cleanup' \subseteq Executions
      BY <1>4 DEF SweepQuery, LeftBehind, TypeOK
    <2> QED BY <1>4, <2>1 DEF SweepQuery, TypeOK
  <1>5. CASE SweepDone
    BY <1>5 DEF SweepDone, TypeOK
  <1>6. ASSUME NEW e \in Executions, SweepKill(e) PROVE TypeOK'
    BY <1>6, PipelineAssumption DEF SweepKill, Fault, TypeOK
  <1>7. ASSUME NEW e \in Executions, SweepSignal(e) PROVE TypeOK'
    BY <1>7, PipelineAssumption DEF SweepSignal, SignalCancel, Fault, TypeOK
  <1>8. CASE SweepDbFails
    BY <1>8, PipelineAssumption DEF SweepDbFails, Fault, TypeOK
  <1>9. CASE BackendCrash
    BY <1>9, PipelineAssumption DEF BackendCrash, Fault, TypeOK
  <1>10. ASSUME NEW e \in Executions, Age(e) PROVE TypeOK'
    BY <1>10 DEF Age, TypeOK
  <1> QED BY <1>1, <1>2, <1>3, <1>4, <1>5, <1>6, <1>7, <1>8, <1>9, <1>10 DEF SweepStep

LEMMA TypeStep == TypeOK /\ ClaimInv /\ ThreadInv /\ [Next]_vars => TypeOK'
  <1> SUFFICES ASSUME TypeOK, ClaimInv, ThreadInv, [Next]_vars PROVE TypeOK'
    OBVIOUS
  <1>1. CASE UNCHANGED vars
    BY <1>1 DEF vars, TypeOK
  <1>2. CASE Next
    BY <1>2, TypeStart, TypeCancel, TypeWorkerFetch, TypeWorkerRecord, TypeWorkerRun, TypeThread, TypeSweep
    DEF Next, WorkerStep
  <1> QED BY <1>1, <1>2

(***************************************************************************)
(* The rows: what a step may do to one                                     *)
(***************************************************************************)

\* A step leaves row e alone, creates it, or makes an allowed change.
RowStep(e) == \/ status'[e] = status[e]
              \/ status[e] = "none" /\ status'[e] = "queued" /\ startpc[e] = "idle"
              \/ can_transition(status[e], status'[e])

\* change_status makes an allowed change of one row.
LEMMA ChangeRow ==
    ASSUME TypeOK, NEW e \in Executions, NEW c, NEW t, NEW by, ChangeStatus(e, c, t, by)
    PROVE  /\ status[e] = c /\ status'[e] = t /\ can_transition(c, t)
           /\ \A x \in Executions : x # e => status'[x] = status[x]
  BY DEF ChangeStatus, CanChange, TypeOK

\* The claim takes a queued row.
LEMMA ClaimRow ==
    ASSUME TypeOK, ClaimInv, NEW w \in Workers, WorkerClaim(w)
    PROVE  /\ job[w] \in Executions
           /\ \/ /\ status[job[w]] = "queued" /\ status'[job[w]] = "starting"
                 /\ worker_id'[job[w]] = w
                 /\ \A x \in Executions : x # job[w] => status'[x] = status[x]
                                                        /\ worker_id'[x] = worker_id[x]
                 /\ wpc' = [wpc EXCEPT ![w] = "pub_starting"] /\ job' = job
              \/ /\ UNCHANGED <<status, worker_id>>
                 /\ wpc' = [wpc EXCEPT ![w] = "idle"] /\ job' = [job EXCEPT ![w] = NoJob]
  <1>1. job[w] \in Executions
    BY DEF WorkerClaim, ClaimInv, ClaimOf
  <1>2. CASE status[job[w]] = "queued"
    BY <1>1, <1>2 DEF WorkerClaim, TypeOK
  <1>3. CASE status[job[w]] # "queued"
    BY <1>1, <1>3 DEF WorkerClaim
  <1> QED BY <1>1, <1>2, <1>3

\* A _transition that is granted changes the worker's row to its target.
LEMMA WriteRow ==
    ASSUME TypeOK, ClaimInv, NEW w \in Workers, WorkerWrite(w)
    PROVE  /\ job[w] \in Executions /\ wpc[w] \in TransitionPcs
           /\ \/ /\ ChangeStatus(job[w], seen[w], Transition[wpc[w]].target, "worker")
                 /\ wpc' = [wpc EXCEPT ![w] = Transition[wpc[w]].made]
              \/ /\ UNCHANGED <<status, events>>
                 /\ ~CanChange(job[w], seen[w], Transition[wpc[w]].target)
                 /\ wpc' = [wpc EXCEPT ![w] = Transition[wpc[w]].refused]
           /\ seen[w] # "none" /\ seen' = [seen EXCEPT ![w] = "none"]
           /\ UNCHANGED <<worker_id, stale, queue, startVars, cancelVars, job, cancel, dockerVars,
                          sweepVars, shown>>
  <1>1. job[w] \in Executions /\ wpc[w] \in TransitionPcs
    BY TransitionTable DEF WorkerWrite, ClaimInv, ClaimOf
  <1>2. CASE CanChange(job[w], seen[w], Transition[wpc[w]].target)
    BY <1>1, <1>2 DEF WorkerWrite, AfterWrite
  <1>3. CASE ~CanChange(job[w], seen[w], Transition[wpc[w]].target)
    BY <1>1, <1>3 DEF WorkerWrite, AfterWrite, ChangeStatus
  <1> QED BY <1>1, <1>2, <1>3

\* The sweep changes the rows it has picked, if they still are what it read.
LEMMA SweepRows ==
    ASSUME TypeOK, SweepWrite
    PROVE  \A e \in Executions :
             \/ /\ e \in changed' /\ status[e] = picked[e] /\ status'[e] = "failed"
                /\ can_transition(status[e], "failed")
             \/ e \notin changed' /\ status'[e] = status[e]
  BY DEF SweepWrite, CanChange

LEMMA RowSteps ==
    ASSUME TypeOK, RowInv, ClaimInv, Next
    PROVE  \A e \in Executions : RowStep(e)
  <1>1. ASSUME NEW e \in Executions, StartCommit(e) PROVE \A x \in Executions : RowStep(x)
    BY <1>1 DEF StartCommit, RowStep, RowInv, TypeOK
  <1>2. ASSUME NEW e \in Executions, StartCompensate(e) PROVE \A x \in Executions : RowStep(x)
    BY <1>2, ChangeRow DEF StartCompensate, RowStep
  <1>3. ASSUME NEW e \in Executions, CancelWrite(e) PROVE \A x \in Executions : RowStep(x)
    BY <1>3, ChangeRow DEF CancelWrite, RowStep
  <1>4. ASSUME NEW w \in Workers, WorkerClaim(w) PROVE \A x \in Executions : RowStep(x)
    <2>1. can_transition("queued", "starting")
      BY DEF can_transition, ALLOWED_TRANSITIONS, Status
    <2> QED BY <1>4, <2>1, ClaimRow DEF RowStep
  <1>5. ASSUME NEW w \in Workers, WorkerWrite(w) PROVE \A x \in Executions : RowStep(x)
    BY <1>5, WriteRow, ChangeRow DEF RowStep
  <1>6. CASE SweepWrite
    BY <1>6, SweepRows DEF RowStep
  <1>7. CASE UNCHANGED status
    BY <1>7 DEF RowStep
  <1>8. ASSUME NEW e \in Executions,
               \/ StartEnqueue(e) \/ StartAnnounce(e) \/ StartRemove(e) \/ StartEnqueueFails(e)
               \/ CancelRead(e) \/ CancelRemove(e) \/ CancelSignal(e) \/ CancelPublish(e)
               \/ CancelFails(e) \/ HandlerDbFails(e) \/ ThreadStep(e) \/ Age(e) \/ SweepKill(e)
               \/ SweepSignal(e)
        PROVE  UNCHANGED status
    BY <1>8 DEF StartEnqueue, StartAnnounce, StartRemove, StartEnqueueFails, CancelRead, CancelRemove,
                CancelSignal, CancelPublish, CancelFails, HandlerDbFails, ThreadStep, ThreadCreate, ThreadWaitRun,
                ThreadWaitBuild, ThreadRemove, Age, SweepKill, SweepSignal
  <1>9. ASSUME NEW w \in Workers,
               \/ WorkerScan(w) \/ WorkerTake(w) \/ WorkerRead(w) \/ WorkerPublish(w)
               \/ WorkerSubscribe(w) \/ WorkerRecheck(w) \/ WorkerMount(w) \/ WorkerLaunch(w)
               \/ WorkerJoin(w) \/ WorkerKill(w) \/ WorkerCleanup(w) \/ WorkerListen(w)
               \/ WorkerDeaf(w) \/ WorkerPublishFails(w) \/ WorkerDbFails(w) \/ WorkerKillFails(w)
               \/ WorkerCrash(w) \/ WorkerTakeFails(w)
        PROVE  UNCHANGED status
    BY <1>9 DEF WorkerScan, WorkerTake, WorkerRead, WorkerPublish, WorkerSubscribe, WorkerRecheck,
                WorkerMount, WorkerLaunch, WorkerJoin, WorkerKill, WorkerCleanup, WorkerListen,
                WorkerDeaf, WorkerPublishFails, WorkerDbFails, WorkerKillFails, WorkerCrash,
                WorkerTakeFails
  <1>10. ASSUME SweepSelect \/ SweepList \/ SweepQuery \/ SweepDone \/ SweepDbFails \/ BackendCrash
         PROVE  UNCHANGED status
    BY <1>10 DEF SweepSelect, SweepList, SweepQuery, SweepDone, SweepDbFails, BackendCrash
  <1> QED BY <1>1, <1>2, <1>3, <1>4, <1>5, <1>6, <1>7, <1>8, <1>9, <1>10
          DEF Next, StartStep, CancelStep, WorkerStep, SweepStep

\* A finished row is not written any more.
LEMMA FinishedStays ==
    ASSUME TypeOK, RowInv, ClaimInv, Next
    PROVE  \A e \in Executions : status[e] \in Finished => status'[e] = status[e]
  BY RowSteps, CanTransition DEF RowStep

(***************************************************************************)
(* RowInv                                                                  *)
(***************************************************************************)

\* An allowed change of one row, by a worker or by the handler that made it
LEMMA RowChange ==
    ASSUME TypeOK, RowInv, NEW e \in Executions, NEW c, NEW t, NEW by, ChangeStatus(e, c, t, by),
           UNCHANGED <<picked, changed, boxes, thread>>,
           \A x \in Executions : startpc'[x] = "idle" => startpc[x] = "idle",
           \A x \in Executions : cancelpc'[x] \in {"remove", "signal", "publish"} =>
               cancelpc[x] \in {"remove", "signal", "publish"} \/ (x = e /\ t = "cancelled")
    PROVE  RowInv'
  <1>1. c \in Status \ Finished /\ t \in Status \ {"queued"} /\ "none" \notin Status
    BY ChangeRow, CanTransition
  <1>2. status[e] = c /\ status'[e] = t /\ \A x \in Executions : x # e => status'[x] = status[x]
    BY ChangeRow
  <1>3. ASSUME NEW x \in Executions
        PROVE  /\ startpc'[x] = "idle" => status'[x] = "none"
               /\ cancelpc'[x] \in {"remove", "signal", "publish"} => status'[x] = "cancelled"
               /\ x \in changed => status'[x] = "failed"
               /\ status'[x] \in {"none", "queued"} => x \notin boxes /\ ~Busy(thread[x])
    <2>1. CASE x = e
      BY <1>1, <1>2, <2>1 DEF RowInv, Finished
    <2>2. CASE x # e
      BY <1>2, <2>2 DEF RowInv
    <2> QED BY <2>1, <2>2
  <1> QED BY <1>3 DEF RowInv, Busy

LEMMA RowThread ==
    ASSUME TypeOK, RowInv, NEW e \in Executions, NEW at, NEW r, SetThread(e, at, r),
           thread[e].at # "done", boxes' \subseteq boxes \union {e},
           UNCHANGED <<status, startpc, cancelpc, picked, changed>>
    PROVE  RowInv'
  <1>1. \A x \in Executions : x # e => thread'[x] = thread[x]
    BY DEF SetThread, TypeOK
  <1>2. status[e] \notin {"none", "queued"}
    BY DEF RowInv, Busy
  <1> QED BY <1>1, <1>2 DEF RowInv

LEMMA RowInvStep ==
    ASSUME TypeOK, RowInv, ClaimInv, Next
    PROVE  RowInv'
  <1>1. ASSUME NEW e \in Executions, StartCommit(e) PROVE RowInv'
    BY <1>1 DEF StartCommit, RowInv, TypeOK, Active
  <1>2. ASSUME NEW e \in Executions,
               StartEnqueue(e) \/ StartAnnounce(e) \/ StartRemove(e) \/ StartEnqueueFails(e)
        PROVE  RowInv'
    <2>1. \E pc \in {"announce", "undelivered", "done"} : startpc' = [startpc EXCEPT ![e] = pc]
      BY <1>2 DEF StartEnqueue, StartAnnounce, StartRemove, StartEnqueueFails
    <2>2. UNCHANGED <<status, cancelpc, picked, changed, boxes, thread>>
      BY <1>2 DEF StartEnqueue, StartAnnounce, StartRemove, StartEnqueueFails
    <2> QED BY <2>1, <2>2 DEF RowInv, TypeOK
  <1>3. ASSUME NEW e \in Executions, StartCompensate(e) PROVE RowInv'
    <2>1. CASE ChangeStatus(e, "queued", "failed", "api")
      <3>1. /\ UNCHANGED <<picked, changed, boxes, thread, cancelpc>>
            /\ startpc' = [startpc EXCEPT ![e] = "remove"] \/ startpc' = [startpc EXCEPT ![e] = "done"]
        BY <1>3 DEF StartCompensate
      <3>2. \A x \in Executions : startpc'[x] = "idle" => startpc[x] = "idle"
        BY <3>1 DEF TypeOK
      <3> QED BY <2>1, <3>1, <3>2, RowChange
    <2>2. CASE UNCHANGED dbVars
      BY <1>3, <2>2 DEF StartCompensate, RowInv, TypeOK
    <2> QED BY <1>3, <2>1, <2>2 DEF StartCompensate
  <1>4. ASSUME NEW e \in Executions, CancelRead(e) PROVE RowInv'
    BY <1>4 DEF CancelRead, RowInv, TypeOK
  <1>5. ASSUME NEW e \in Executions, CancelWrite(e) PROVE RowInv'
    <2>0. UNCHANGED <<startpc, picked, changed, boxes, thread>>
      BY <1>5 DEF CancelWrite
    <2>1. CASE /\ ChangeStatus(e, cancelseen[e], "cancelled", "api")
               /\ cancelpc' = [cancelpc EXCEPT ![e] = "remove"]
      BY <2>0, <2>1, RowChange DEF TypeOK
    <2>2. CASE /\ UNCHANGED dbVars
               /\ UNCHANGED cancelpc \/ cancelpc' = [cancelpc EXCEPT ![e] = "idle"]
      BY <2>0, <2>2 DEF RowInv, TypeOK
    <2> QED BY <1>5, <2>1, <2>2 DEF CancelWrite
  <1>6. ASSUME NEW e \in Executions,
               CancelRemove(e) \/ CancelSignal(e) \/ CancelPublish(e) \/ CancelFails(e)
        PROVE  RowInv'
    <2>1. cancelpc[e] \in {"remove", "signal", "publish"} /\ \E pc : cancelpc' = [cancelpc EXCEPT ![e] = pc]
      BY <1>6 DEF CancelRemove, CancelSignal, CancelPublish, CancelFails
    <2>2. UNCHANGED <<status, startpc, picked, changed, boxes, thread>>
      BY <1>6 DEF CancelRemove, CancelSignal, CancelPublish, CancelFails
    <2> QED BY <2>1, <2>2 DEF RowInv, TypeOK
  <1>7. ASSUME NEW w \in Workers, WorkerClaim(w) PROVE RowInv'
    <2>1. UNCHANGED <<startpc, cancelpc, picked, changed, boxes, thread>>
      BY <1>7 DEF WorkerClaim
    <2> QED BY <1>7, <2>1, ClaimRow DEF RowInv
  <1>8. ASSUME NEW w \in Workers, WorkerWrite(w) PROVE RowInv'
    <2>1. CASE ChangeStatus(job[w], seen[w], Transition[wpc[w]].target, "worker")
      BY <1>8, <2>1, WriteRow, RowChange
    <2>2. CASE UNCHANGED status
      BY <1>8, <2>2, WriteRow DEF RowInv
    <2> QED BY <1>8, <2>1, <2>2, WriteRow
  <1>9. ASSUME NEW w \in Workers, WorkerLaunch(w) PROVE RowInv'
    <2>1. job[w] \in Executions /\ status[job[w]] \notin {"none", "queued"}
      BY <1>9 DEF WorkerLaunch, ClaimInv, ClaimOf, Claimed, StageOK, Finished
    <2>2. \A x \in Executions : x # job[w] => thread'[x] = thread[x]
      BY <1>9, <2>1 DEF WorkerLaunch, TypeOK
    <2> QED BY <1>9, <2>1, <2>2 DEF WorkerLaunch, RowInv
  <1>10. ASSUME NEW w \in Workers, WorkerKill(w) PROVE RowInv'
    BY <1>10 DEF WorkerKill, RowInv
  <1>11. ASSUME NEW w \in Workers, WorkerCrash(w) PROVE RowInv'
    BY <1>11 DEF WorkerCrash, RowInv, Busy, NoThread
  <1>12. ASSUME NEW e \in Executions, ThreadStep(e) PROVE RowInv'
    <2>1. UNCHANGED <<status, startpc, cancelpc, picked, changed>> /\ thread[e].at # "done"
      BY <1>12 DEF ThreadStep, ThreadCreate, ThreadWaitRun, ThreadWaitBuild, ThreadRemove
    <2>2. boxes' \subseteq boxes \union {e}
      BY <1>12 DEF ThreadStep, ThreadCreate, ThreadWaitRun, ThreadWaitBuild, ThreadRemove
    <2>3. \E at, r : SetThread(e, at, r)
      BY <1>12 DEF ThreadStep, ThreadCreate, ThreadWaitRun, ThreadWaitBuild, ThreadRemove
    <2> QED BY <2>1, <2>2, <2>3, RowThread
  <1>13. CASE SweepSelect
    BY <1>13 DEF SweepSelect, Orphaned, RowInv
  <1>14. CASE SweepWrite
    <2>1. /\ UNCHANGED <<startpc, cancelpc, boxes, thread>>
          /\ picked' = [e \in Executions |-> "none"]
      BY <1>14 DEF SweepWrite
    <2> QED BY <1>14, <2>1, SweepRows, CanTransition DEF RowInv, Finished
  <1>15. ASSUME NEW e \in Executions, SweepKill(e) \/ SweepSignal(e) PROVE RowInv'
    BY <1>15 DEF SweepKill, SweepSignal, RowInv
  <1>16. CASE SweepDbFails \/ BackendCrash
    BY <1>16 DEF SweepDbFails, BackendCrash, RowInv
  <1>17. CASE UNCHANGED <<status, startpc, cancelpc, picked, changed, boxes, thread>>
    BY <1>17 DEF RowInv
  <1>18. ASSUME NEW w \in Workers,
                \/ WorkerScan(w) \/ WorkerTake(w) \/ WorkerRead(w) \/ WorkerPublish(w)
                \/ WorkerSubscribe(w) \/ WorkerRecheck(w) \/ WorkerMount(w) \/ WorkerJoin(w)
                \/ WorkerCleanup(w) \/ WorkerListen(w) \/ WorkerDeaf(w) \/ WorkerPublishFails(w)
                \/ WorkerDbFails(w) \/ WorkerKillFails(w) \/ WorkerTakeFails(w)
         PROVE  UNCHANGED <<status, startpc, cancelpc, picked, changed, boxes, thread>>
    BY <1>18 DEF WorkerScan, WorkerTake, WorkerRead, WorkerPublish, WorkerSubscribe, WorkerRecheck,
                 WorkerMount, WorkerJoin, WorkerCleanup, WorkerListen, WorkerDeaf, WorkerPublishFails,
                 WorkerDbFails, WorkerKillFails, WorkerTakeFails
  <1>19. ASSUME SweepList \/ SweepQuery \/ SweepDone \/ \E e \in Executions : Age(e)
         PROVE  UNCHANGED <<status, startpc, cancelpc, picked, changed, boxes, thread>>
    BY <1>19 DEF SweepList, SweepQuery, SweepDone, Age
  <1>20. ASSUME NEW e \in Executions, HandlerDbFails(e) PROVE RowInv'
    <2>1. /\ startpc' = [startpc EXCEPT ![e] = "done"] \/ UNCHANGED startpc
          /\ cancelpc' = [cancelpc EXCEPT ![e] = "idle"] \/ UNCHANGED cancelpc
      BY <1>20 DEF HandlerDbFails
    <2>2. UNCHANGED <<status, picked, changed, boxes, thread>>
      BY <1>20 DEF HandlerDbFails
    <2> QED BY <2>1, <2>2 DEF RowInv, TypeOK
  <1> QED BY <1>1, <1>2, <1>3, <1>4, <1>5, <1>6, <1>7, <1>8, <1>9, <1>10, <1>11, <1>12, <1>13, <1>14,
             <1>15, <1>16, <1>17, <1>18, <1>19, <1>20
          DEF Next, StartStep, CancelStep, WorkerStep, SweepStep

(***************************************************************************)
(* ClaimInv                                                                *)
(***************************************************************************)

\* Steps of others only finish the runs a worker has claimed.
LEMMA ClaimFrame ==
    ASSUME TypeOK, ClaimInv, NEW v \in Workers,
           wpc'[v] = wpc[v], job'[v] = job[v], seen'[v] = seen[v],
           Claimed(v) => /\ worker_id'[job[v]] = worker_id[job[v]]
                         /\ status'[job[v]] = status[job[v]] \/ status'[job[v]] \in Finished
    PROVE  ClaimOf(v)'
  <1>1. wpc[v] \in TransitionPcs => Claimed(v)
    BY TransitionTable DEF Claimed
  <1>2. seen[v] # "none" => Claimed(v)
    BY <1>1 DEF ClaimInv, ClaimOf
  <1>3. ClaimOf(v)
    BY DEF ClaimInv
  <1>4. Claimed(v)' = Claimed(v)
    BY DEF Claimed
  <1>5. Claimed(v) => StageOK(wpc[v], status'[job[v]])
    BY <1>3 DEF ClaimOf, StageOK
  <1> QED BY <1>2, <1>3, <1>4, <1>5 DEF ClaimOf

\* Two workers past their claim are at different runs.
LEMMA Exclusive ==
    ASSUME ClaimInv, NEW v \in Workers, NEW w \in Workers, Claimed(v), Claimed(w), job[v] = job[w]
    PROVE  v = w
  BY DEF ClaimInv, ClaimOf

\* A worker's own step that leaves the rows alone
LEMMA ClaimOwn ==
    ASSUME TypeOK, ClaimInv, NEW w \in Workers, UNCHANGED <<status, worker_id>>,
           \A v \in Workers : v # w => wpc'[v] = wpc[v] /\ job'[v] = job[v] /\ seen'[v] = seen[v],
           ClaimOf(w)'
    PROVE  ClaimInv'
  BY ClaimFrame DEF ClaimInv

\* ... that only moves it on
LEMMA ClaimMove ==
    ASSUME TypeOK, ClaimInv, NEW w \in Workers, UNCHANGED <<status, worker_id, job>>,
           NEW pc, wpc' = [wpc EXCEPT ![w] = pc],
           Claimed(w), StageOK(pc, status[job[w]]),
           \/ wpc[w] \notin TransitionPcs /\ UNCHANGED seen
           \/ seen' = [seen EXCEPT ![w] = "none"]
    PROVE  ClaimInv'
  <1>1. ClaimOf(w)
    BY DEF ClaimInv
  <1>2. wpc'[w] = pc /\ seen'[w] = "none" /\ job[w] \in Executions /\ worker_id[job[w]] = w
    BY <1>1 DEF TypeOK, ClaimOf, Claimed
  <1>3. ClaimOf(w)'
    BY <1>2 DEF ClaimOf
  <1> QED BY <1>3, ClaimOwn DEF TypeOK

\* ... or ends _run_one
LEMMA ClaimEnd ==
    ASSUME TypeOK, ClaimInv, NEW w \in Workers, UNCHANGED <<status, worker_id>>,
           wpc' = [wpc EXCEPT ![w] = "idle"], job' = [job EXCEPT ![w] = NoJob],
           seen' = [seen EXCEPT ![w] = "none"]
    PROVE  ClaimInv'
  <1>1. ClaimOf(w)'
    BY TransitionTable DEF TypeOK, ClaimOf, Claimed
  <1> QED BY <1>1, ClaimOwn DEF TypeOK

LEMMA ClaimInvStep ==
    ASSUME TypeOK, RowInv, ClaimInv, CancelInv, ThreadInv, Next
    PROVE  ClaimInv'
  <1>a. ASSUME NEW w \in Workers PROVE ClaimOf(w)
    BY DEF ClaimInv
  <1>b. ASSUME UNCHANGED <<wpc, job, worker_id, seen>>,
               \A x \in Executions : \/ status'[x] = status[x]
                                      \/ status'[x] \in Finished
                                      \/ status[x] = "none"
        PROVE  ClaimInv'
    <2> SUFFICES ASSUME NEW v \in Workers PROVE ClaimOf(v)'
      BY DEF ClaimInv
    <2>1. Claimed(v) => job[v] \in Executions /\ status[job[v]] # "none"
      BY <1>a DEF ClaimOf, Claimed, StageOK, Finished, Active
    <2> QED BY <1>b, <2>1, ClaimFrame
  <1>1. ASSUME NEW e \in Executions, StartCommit(e) PROVE ClaimInv'
    BY <1>1, <1>b DEF StartCommit, RowInv, TypeOK
  <1>2. ASSUME NEW e \in Executions, StartCompensate(e) PROVE ClaimInv'
    <2>1. "failed" \in Finished
      BY DEF Finished
    <2> QED BY <1>2, <1>b, <2>1, ChangeRow DEF StartCompensate
  <1>3. ASSUME NEW e \in Executions, CancelWrite(e) PROVE ClaimInv'
    <2>1. "cancelled" \in Finished
      BY DEF Finished
    <2>2. UNCHANGED <<wpc, job, worker_id, seen>>
      BY <1>3 DEF CancelWrite
    <2>3. ChangeStatus(e, cancelseen[e], "cancelled", "api") \/ UNCHANGED status
      BY <1>3 DEF CancelWrite
    <2> QED BY <1>b, <2>1, <2>2, <2>3, ChangeRow
  <1>4. CASE SweepWrite
    <2>1. "failed" \in Finished
      BY DEF Finished
    <2> QED BY <1>4, <1>b, <2>1, SweepRows DEF SweepWrite
  <1>5. ASSUME NEW w \in Workers, WorkerScan(w) PROVE ClaimInv'
    <2>p. PICK e \in queue : job' = [job EXCEPT ![w] = e]
      BY <1>5 DEF WorkerScan
    <2>s. wpc[w] = "idle" /\ UNCHANGED seen /\ wpc' = [wpc EXCEPT ![w] = "take"]
      BY <1>5 DEF WorkerScan
    <2>0. seen[w] = "none" /\ job'[w] \in Executions /\ wpc'[w] = "take"
      <3>1. seen[w] = "none"
        BY <1>a, <2>s, TransitionTable DEF ClaimOf
      <3>2. job'[w] = e /\ e \in Executions
        BY <2>p DEF TypeOK
      <3>3. wpc'[w] = "take"
        BY <2>s DEF TypeOK
      <3> QED BY <3>1, <3>2, <3>3
    <2>1. ClaimOf(w)'
      BY <2>0, <2>s DEF ClaimOf, Claimed
    <2> QED BY <1>5, <2>1, ClaimOwn DEF WorkerScan, TypeOK
  <1>6. ASSUME NEW w \in Workers, WorkerTake(w) PROVE ClaimInv'
    <2>1. seen[w] = "none" /\ job[w] \in Executions
      BY <1>6, <1>a, TransitionTable DEF WorkerTake, ClaimOf
    <2>2. ClaimOf(w)'
      BY <1>6, <2>1, TransitionTable DEF WorkerTake, ClaimOf, Claimed, TypeOK
    <2> QED BY <1>6, <2>2, ClaimOwn DEF WorkerTake, TypeOK
  <1>7. ASSUME NEW w \in Workers, WorkerClaim(w) PROVE ClaimInv'
    <2>1. job[w] \in Executions /\ seen[w] = "none" /\ seen' = seen
      BY <1>7, <1>a, TransitionTable DEF WorkerClaim, ClaimOf
    <2>2. CASE UNCHANGED <<status, worker_id>> /\ wpc' = [wpc EXCEPT ![w] = "idle"]
                 /\ job' = [job EXCEPT ![w] = NoJob]
      BY <2>1, <2>2, ClaimEnd DEF TypeOK
    <2>3. CASE /\ status[job[w]] = "queued" /\ status'[job[w]] = "starting" /\ worker_id'[job[w]] = w
               /\ \A x \in Executions : x # job[w] => status'[x] = status[x] /\ worker_id'[x] = worker_id[x]
               /\ wpc' = [wpc EXCEPT ![w] = "pub_starting"] /\ job' = job
      <3> SUFFICES ASSUME NEW v \in Workers PROVE ClaimOf(v)'
        BY DEF ClaimInv
      <3>1. CASE v = w
        BY <2>1, <2>3, <3>1 DEF ClaimOf, StageOK, TypeOK
      <3>2. CASE v # w
        <4>1. Claimed(v) => job[v] \in Executions /\ status[job[v]] # "queued"
          BY <1>a DEF ClaimOf, Claimed, StageOK, Finished, Active
        <4> QED BY <2>1, <2>3, <3>2, <4>1, ClaimFrame DEF TypeOK
      <3> QED BY <3>1, <3>2
    <2> QED BY <1>7, <2>2, <2>3, ClaimRow
  <1>8. ASSUME NEW w \in Workers, WorkerRead(w) PROVE ClaimInv'
    <2>1. ClaimOf(w)'
      BY <1>8, <1>a, TransitionTable DEF WorkerRead, ClaimOf, Claimed, TypeOK
    <2> QED BY <1>8, <2>1, ClaimOwn DEF WorkerRead, TypeOK
  <1>9. ASSUME NEW w \in Workers, WorkerWrite(w) PROVE ClaimInv'
    <2>0. /\ seen[w] # "none" /\ seen' = [seen EXCEPT ![w] = "none"] /\ wpc[w] \in TransitionPcs
          /\ UNCHANGED <<worker_id, job>>
      BY <1>9, WriteRow
    <2>1. Claimed(w) /\ job[w] \in Executions
      BY <1>9, WriteRow, TransitionTable DEF Claimed
    <2>2. CASE /\ ChangeStatus(job[w], seen[w], Transition[wpc[w]].target, "worker")
               /\ wpc' = [wpc EXCEPT ![w] = Transition[wpc[w]].made]
      <3> SUFFICES ASSUME NEW v \in Workers PROVE ClaimOf(v)'
        BY DEF ClaimInv
      <3>1. CASE v = w
        <4>1. status'[job[w]] = Transition[wpc[w]].target
          BY <2>1, <2>2, ChangeRow
        <4>2. StageOK(Transition[wpc[w]].made, Transition[wpc[w]].target)
          BY <1>9, WriteRow, TransitionTable DEF StageOK
        <4>3. wpc'[w] = Transition[wpc[w]].made /\ seen'[w] = "none" /\ job'[w] = job[w]
              /\ worker_id'[job[w]] = w
          BY <1>a, <2>0, <2>1, <2>2 DEF TypeOK, ClaimOf
        <4> QED BY <3>1, <2>1, <4>1, <4>2, <4>3 DEF ClaimOf
      <3>2. CASE v # w
        <4>1. Claimed(v) => job[v] \in Executions /\ job[v] # job[w]
          BY <1>a, <2>1, <3>2, Exclusive DEF ClaimOf, Claimed
        <4>2. Claimed(v) => status'[job[v]] = status[job[v]]
          BY <2>1, <2>2, <4>1, ChangeRow
        <4>3. wpc'[v] = wpc[v] /\ seen'[v] = seen[v] /\ job'[v] = job[v]
          BY <2>0, <2>2, <3>2 DEF TypeOK
        <4> QED BY <2>0, <4>2, <4>3, ClaimFrame
      <3> QED BY <3>1, <3>2
    <2>3. CASE /\ UNCHANGED <<status, events>>
               /\ ~CanChange(job[w], seen[w], Transition[wpc[w]].target)
               /\ wpc' = [wpc EXCEPT ![w] = Transition[wpc[w]].refused]
      <3>1. StageOK(Transition[wpc[w]].refused, status[job[w]])
        <4>1. status[job[w]] \in Active \union Finished
          BY <1>a, <2>1 DEF ClaimOf, StageOK, Active
        <4>2. CASE wpc[w] \notin {"to_compiling", "to_running"}
          BY <1>9, <4>1, <4>2, WriteRow, TransitionTable DEF StageOK
        <4>3. CASE wpc[w] \in {"to_compiling", "to_running"}
          <5>1. CASE status[job[w]] = seen[w]
            <6>1. can_transition(status[job[w]], Transition[wpc[w]].target) \/ status[job[w]] \in Finished
              BY <1>a, <2>1, <4>3, TransitionTable, CanTransition DEF ClaimOf, StageOK
            <6> QED BY <2>3, <5>1, <6>1 DEF CanChange, StageOK
          <5>2. CASE status[job[w]] # seen[w]
            BY <1>9, <1>a, <5>2, WriteRow DEF ClaimOf, StageOK
          <5> QED BY <5>1, <5>2
        <4> QED BY <4>2, <4>3
      <3> QED BY <1>9, <2>1, <2>3, <3>1, WriteRow, ClaimMove
    <2> QED BY <1>9, <2>2, <2>3, WriteRow
  <1>10. ASSUME NEW w \in Workers, WorkerPublish(w) PROVE ClaimInv'
    <2>1. Claimed(w) /\ wpc[w] \notin TransitionPcs /\ wpc[w] \in PublishPcs
      BY <1>10, PublishTable, TransitionTable DEF WorkerPublish, Claimed
    <2>2. StageOK(wpc[w], status[job[w]])
      BY <1>a, <2>1 DEF ClaimOf
    <2>3. StageOK(Publish[wpc[w]].then, status[job[w]])
      BY <2>1, <2>2, PublishTable DEF StageOK
    <2> QED BY <1>10, <2>1, <2>3, ClaimMove DEF WorkerPublish
  <1>11. ASSUME NEW w \in Workers, WorkerPublishFails(w) PROVE ClaimInv'
    <2>1. Claimed(w) /\ wpc[w] \notin TransitionPcs /\ wpc[w] \in PublishPcs
      BY <1>11, PublishTable, TransitionTable DEF WorkerPublishFails, Claimed
    <2>2. StageOK(wpc[w], status[job[w]]) /\ seen[w] = "none"
      BY <1>a, <2>1 DEF ClaimOf
    <2>3. CASE wpc[w] = "pub_starting"
      <3>1. job' = [job EXCEPT ![w] = NoJob] /\ seen' = [seen EXCEPT ![w] = "none"]
        BY <1>11, <2>2, <2>3 DEF WorkerPublishFails, TypeOK
      <3>2. wpc' = [wpc EXCEPT ![w] = "idle"] /\ UNCHANGED <<status, worker_id>>
        BY <1>11, <2>3, PublishTable DEF WorkerPublishFails
      <3> QED BY <3>1, <3>2, ClaimEnd
    <2>4. CASE wpc[w] # "pub_starting"
      <3>1. job' = job
        BY <1>11, <2>4 DEF WorkerPublishFails, TypeOK
      <3>2. StageOK(Publish[wpc[w]].error, status[job[w]])
        BY <2>1, <2>2, <2>4, PublishTable DEF StageOK, Active
      <3> QED BY <1>11, <2>1, <3>1, <3>2, ClaimMove DEF WorkerPublishFails
    <2> QED BY <2>3, <2>4
  <1>12. ASSUME NEW w \in Workers, WorkerDbFails(w) PROVE ClaimInv'
    <2>0. wpc[w] # "claim" => Claimed(w)
      BY <1>12, TransitionTable DEF WorkerDbFails, Claimed
    <2>1. CASE wpc[w] = "claim"
      BY <1>12, <2>1, ClaimEnd DEF WorkerDbFails
    <2>2. CASE wpc[w] # "claim"
      <3>1. status[job[w]] \in Active \union Finished
        BY <1>a, <2>0, <2>2 DEF ClaimOf, StageOK, Active
      <3>2. PICK pc \in {"cleanup", "exc_failed"} : wpc' = [wpc EXCEPT ![w] = pc]
        BY <1>12, <2>2 DEF WorkerDbFails
      <3>3. job' = job /\ seen' = [seen EXCEPT ![w] = "none"] /\ UNCHANGED <<status, worker_id>>
        BY <1>12, <2>2 DEF WorkerDbFails
      <3>4. StageOK(pc, status[job[w]])
        BY <3>1, <3>2 DEF StageOK
      <3> QED BY <2>0, <2>2, <3>2, <3>3, <3>4, ClaimMove
    <2> QED BY <2>1, <2>2
  <1>13. ASSUME NEW w \in Workers,
                WorkerSubscribe(w) \/ WorkerRecheck(w) \/ WorkerMount(w) \/ WorkerLaunch(w)
                \/ WorkerJoin(w) \/ WorkerKill(w) \/ WorkerKillFails(w)
         PROVE  ClaimInv'
    <2>1. /\ Claimed(w) /\ wpc[w] \notin TransitionPcs
          /\ UNCHANGED <<status, worker_id, job, seen>>
      BY <1>13, TransitionTable
      DEF WorkerSubscribe, WorkerRecheck, WorkerMount, WorkerLaunch, WorkerJoin, WorkerKill,
          WorkerKillFails, Claimed
    <2>2. StageOK(wpc[w], status[job[w]]) /\ status[job[w]] \in Active \union Finished
      BY <1>a, <2>1 DEF ClaimOf, StageOK, Active
    <2>3. ASSUME NEW pc, wpc' = [wpc EXCEPT ![w] = pc], StageOK(pc, status[job[w]]) PROVE ClaimInv'
      BY <2>1, <2>3, ClaimMove
    <2>4. CASE WorkerSubscribe(w)
      BY <2>2, <2>3, <2>4 DEF WorkerSubscribe, StageOK
    <2>5. CASE WorkerRecheck(w)
      BY <2>2, <2>3, <2>5 DEF WorkerRecheck, StageOK
    <2>6. CASE WorkerMount(w)
      BY <2>2, <2>3, <2>6 DEF WorkerMount, StageOK, Active
    <2>7. CASE WorkerLaunch(w)
      <3>1. cancel[w] = "set" => status[job[w]] \in Finished
        BY DEF CancelInv
      <3>2. StageOK("exc_cancelled", status[job[w]]) \/ cancel[w] # "set"
        BY <3>1 DEF StageOK
      <3>3. wpc[w] = "build" => StageOK("building", status[job[w]])
        BY <2>2 DEF StageOK
      <3>4. wpc[w] = "run" => StageOK("executing", status[job[w]])
        BY <2>2 DEF StageOK
      <3> QED BY <2>3, <2>7, <3>2, <3>3, <3>4 DEF WorkerLaunch
    <2>8. CASE WorkerJoin(w)
      <3>1. /\ wpc[w] = "building" => thread[job[w]].result \in {"built", "error"}
            /\ wpc[w] = "executing" =>
                  thread[job[w]].result \in {"completed", "failed", "timeout", "error"}
            /\ wpc[w] \in {"building", "executing"}
        BY <2>8, JoinResult DEF WorkerJoin
      <3>2. StageOK(AfterJoin[thread[job[w]].result], status[job[w]])
        BY <2>2, <3>1 DEF AfterJoin, StageOK, Active
      <3> QED BY <2>3, <2>8, <3>2 DEF WorkerJoin
    <2>9. CASE WorkerKill(w)
      <3>1. status[job[w]] \in Finished
        BY <2>9 DEF WorkerKill, CancelInv
      <3>2. StageOK(AfterKill(w), status[job[w]])
        BY <3>1 DEF StageOK
      <3> QED BY <2>3, <2>9, <3>2 DEF WorkerKill
    <2>10. CASE WorkerKillFails(w)
      <3>1. StageOK("exc_failed", status[job[w]])
        BY <2>2 DEF StageOK
      <3> QED BY <2>3, <2>10, <3>1 DEF WorkerKillFails
    <2> QED BY <1>13, <2>4, <2>5, <2>6, <2>7, <2>8, <2>9, <2>10
  <1>14. ASSUME NEW w \in Workers, WorkerCleanup(w) \/ WorkerCrash(w) PROVE ClaimInv'
    <2>1. WorkerCleanup(w) => seen[w] = "none"
      BY <1>a, TransitionTable DEF WorkerCleanup, ClaimOf
    <2>2. seen' = [seen EXCEPT ![w] = "none"]
      BY <1>14, <2>1 DEF WorkerCleanup, WorkerCrash, TypeOK
    <2> QED BY <1>14, <2>2, ClaimEnd DEF WorkerCleanup, WorkerCrash
  <1>15. CASE UNCHANGED <<wpc, job, worker_id, seen, status>>
    BY <1>15, <1>b
  <1>16. ASSUME NEW e \in Executions,
                \/ StartEnqueue(e) \/ StartAnnounce(e) \/ StartRemove(e) \/ StartEnqueueFails(e)
                \/ CancelRead(e) \/ CancelRemove(e) \/ CancelSignal(e) \/ CancelPublish(e)
                \/ CancelFails(e) \/ HandlerDbFails(e) \/ ThreadStep(e) \/ Age(e) \/ SweepKill(e)
               \/ SweepSignal(e)
         PROVE  UNCHANGED <<wpc, job, worker_id, seen, status>>
    BY <1>16 DEF StartEnqueue, StartAnnounce, StartRemove, StartEnqueueFails, CancelRead, CancelRemove,
                 CancelSignal, CancelPublish, CancelFails, HandlerDbFails, ThreadStep, ThreadCreate, ThreadWaitRun,
                 ThreadWaitBuild, ThreadRemove, Age, SweepKill, SweepSignal
  <1>17. ASSUME \/ SweepSelect \/ SweepList \/ SweepQuery \/ SweepDone \/ SweepDbFails
                \/ BackendCrash \/ \E w \in Workers : WorkerListen(w) \/ WorkerDeaf(w)
         PROVE  UNCHANGED <<wpc, job, worker_id, seen, status>>
    BY <1>17 DEF SweepSelect, SweepList, SweepQuery, SweepDone, SweepDbFails, BackendCrash,
                 WorkerListen, WorkerDeaf
  <1>18. ASSUME NEW w \in Workers, WorkerTakeFails(w) PROVE ClaimInv'
    <2>1. seen[w] = "none" /\ wpc[w] = "take"
      BY <1>18, <1>a, TransitionTable DEF WorkerTakeFails, ClaimOf
    <2>2. seen' = [seen EXCEPT ![w] = "none"]
      BY <1>18, <2>1 DEF WorkerTakeFails, TypeOK
    <2> QED BY <1>18, <2>2, ClaimEnd DEF WorkerTakeFails
  <1> QED BY <1>1, <1>2, <1>3, <1>4, <1>5, <1>6, <1>7, <1>8, <1>9, <1>10, <1>11, <1>12, <1>13, <1>14,
             <1>15, <1>16, <1>17, <1>18
          DEF Next, StartStep, CancelStep, WorkerStep, SweepStep

(***************************************************************************)
(* CancelInv                                                               *)
(***************************************************************************)

\* A worker that has no cancel in hand, or stays where it is
LEMMA CancelOwn ==
    ASSUME TypeOK, CancelInv, NEW w \in Workers,
           \A e \in Executions : status[e] \in Finished => status'[e] = status[e],
           ClaimInv,
           \A v \in Workers : v # w => wpc'[v] = wpc[v] /\ job'[v] = job[v] /\ cancel'[v] = cancel[v],
           \/ cancel'[w] = "off"
           \/ /\ job'[w] = job[w] /\ job[w] \in Executions
              /\ cancel'[w] = cancel[w]
              /\ wpc'[w] \in Unsubscribed => wpc[w] \in Unsubscribed
    PROVE  CancelInv'
  <1> SUFFICES ASSUME NEW v \in Workers
               PROVE  /\ wpc'[v] \in Unsubscribed => cancel'[v] = "off"
                      /\ cancel'[v] \in {"mail", "set"} => status'[job'[v]] \in Finished
    BY DEF CancelInv
  <1>1. cancel[v] \in {"mail", "set"} => job[v] \in Executions /\ status[job[v]] \in Finished
    BY DEF CancelInv, ClaimInv, ClaimOf, Unsubscribed
  <1> QED BY <1>1 DEF CancelInv

LEMMA CancelInvStep ==
    ASSUME TypeOK, RowInv, ClaimInv, CancelInv, ThreadInv, Next
    PROVE  CancelInv'
  <1>f. \A e \in Executions : status[e] \in Finished => status'[e] = status[e]
    BY FinishedStays
  <1>j. ASSUME NEW w \in Workers, cancel[w] # "off" PROVE job[w] \in Executions
    BY <1>j DEF CancelInv, ClaimInv, ClaimOf, Unsubscribed
  <1>1. CASE UNCHANGED <<wpc, job, cancel>>
    BY <1>1, <1>f, <1>j DEF CancelInv
  <1>2. ASSUME NEW e \in Executions, SignalCancel(e), status[e] \in Finished, UNCHANGED <<wpc, job>>
        PROVE  CancelInv'
    BY <1>2, <1>f, <1>j DEF CancelInv, SignalCancel
  <1>3. ASSUME NEW e \in Executions, CancelSignal(e) PROVE CancelInv'
    BY <1>2, <1>3 DEF CancelSignal, RowInv, Finished
  <1>4. ASSUME NEW e \in Executions, SweepSignal(e) PROVE CancelInv'
    <2>1. status[e] \in Finished
      BY <1>4 DEF SweepSignal, RowInv, Finished
    <2> QED BY <1>1, <1>2, <1>4, <2>1 DEF SweepSignal
  <1>5. ASSUME NEW w \in Workers,
               WorkerScan(w) \/ WorkerTake(w) \/ WorkerTakeFails(w) \/ WorkerClaim(w)
        PROVE  CancelInv'
    <2>1. cancel' = cancel /\ cancel[w] = "off"
      BY <1>5 DEF WorkerScan, WorkerTake, WorkerTakeFails, WorkerClaim, CancelInv, Unsubscribed
    <2>2. \A v \in Workers : v # w => wpc'[v] = wpc[v] /\ job'[v] = job[v]
      BY <1>5 DEF WorkerScan, WorkerTake, WorkerTakeFails, WorkerClaim, TypeOK
    <2> QED BY <1>f, <2>1, <2>2, CancelOwn
  <1>6. ASSUME NEW w \in Workers, WorkerSubscribe(w) PROVE CancelInv'
    <2>1. UNCHANGED job /\ wpc'[w] = "recheck" /\ cancel'[w] \in {"off", "sub"}
      BY <1>6 DEF WorkerSubscribe, CancelInv, Unsubscribed, TypeOK
    <2>2. \A v \in Workers : v # w => wpc'[v] = wpc[v] /\ cancel'[v] = cancel[v]
      BY <1>6 DEF WorkerSubscribe, TypeOK
    <2> SUFFICES ASSUME NEW v \in Workers
                 PROVE  /\ wpc'[v] \in Unsubscribed => cancel'[v] = "off"
                        /\ cancel'[v] \in {"mail", "set"} => status'[job'[v]] \in Finished
      BY DEF CancelInv
    <2>3. CASE v = w
      BY <2>1, <2>3 DEF Unsubscribed
    <2>4. CASE v # w
      BY <2>1, <2>2, <2>4, <1>f, <1>j DEF CancelInv
    <2> QED BY <2>3, <2>4
  <1>7. ASSUME NEW w \in Workers, WorkerListen(w) PROVE CancelInv'
    BY <1>7, <1>f, <1>j DEF WorkerListen, CancelInv, TypeOK
  <1>8. ASSUME NEW w \in Workers, WorkerDeaf(w) \/ WorkerCleanup(w) \/ WorkerCrash(w) PROVE CancelInv'
    <2>1. cancel'[w] = "off"
      BY <1>8 DEF WorkerDeaf, WorkerCleanup, WorkerCrash, TypeOK
    <2>2. \A v \in Workers : v # w => wpc'[v] = wpc[v] /\ job'[v] = job[v] /\ cancel'[v] = cancel[v]
      BY <1>8 DEF WorkerDeaf, WorkerCleanup, WorkerCrash, TypeOK
    <2> QED BY <1>f, <2>1, <2>2, CancelOwn
  <1>9. ASSUME NEW w \in Workers, NEW pc, wpc' = [wpc EXCEPT ![w] = pc], UNCHANGED <<job, cancel>>,
               pc \in Unsubscribed => wpc[w] \in Unsubscribed,
               wpc[w] # "idle"
        PROVE  CancelInv'
    BY <1>9, <1>f, CancelOwn DEF TypeOK, ClaimInv, ClaimOf
  <1>10. ASSUME NEW w \in Workers, WorkerPublish(w) PROVE CancelInv'
    <2>1. Publish[wpc[w]].then \in Unsubscribed => wpc[w] \in Unsubscribed
      BY <1>10, PublishTable DEF WorkerPublish, Unsubscribed
    <2> QED BY <1>9, <1>10, <2>1, PublishTable DEF WorkerPublish
  <1>11. ASSUME NEW w \in Workers, WorkerPublishFails(w) PROVE CancelInv'
    <2>1. CASE wpc[w] = "pub_starting"
      <3>1. cancel' = cancel /\ cancel[w] = "off"
        BY <1>11, <2>1 DEF WorkerPublishFails, CancelInv, Unsubscribed
      <3>2. \A v \in Workers : v # w => wpc'[v] = wpc[v] /\ job'[v] = job[v]
        BY <1>11 DEF WorkerPublishFails, TypeOK
      <3> QED BY <1>f, <3>1, <3>2, CancelOwn
    <2>2. CASE wpc[w] # "pub_starting"
      <3>1. Publish[wpc[w]].error \notin Unsubscribed /\ wpc[w] # "idle"
        BY <1>11, <2>2, PublishTable DEF WorkerPublishFails, Unsubscribed
      <3>2. job' = job
        BY <1>11, <2>2 DEF WorkerPublishFails, TypeOK
      <3> QED BY <1>9, <1>11, <3>1, <3>2 DEF WorkerPublishFails
    <2> QED BY <2>1, <2>2
  <1>12. ASSUME NEW w \in Workers, WorkerWrite(w) PROVE CancelInv'
    <2>1. wpc[w] \in TransitionPcs /\ wpc[w] # "idle" /\ UNCHANGED <<job, cancel>>
      BY <1>12, TransitionTable DEF WorkerWrite
    <2>2. /\ Transition[wpc[w]].made \notin Unsubscribed
          /\ Transition[wpc[w]].refused \notin Unsubscribed
      BY <2>1, TransitionTable, PublishTable DEF Unsubscribed
    <2> QED BY <1>9, <1>12, <2>1, <2>2, WriteRow
  <1>13. ASSUME NEW w \in Workers, WorkerDbFails(w) PROVE CancelInv'
    <2>1. CASE wpc[w] = "claim"
      <3>1. cancel' = cancel /\ cancel[w] = "off"
        BY <1>13, <2>1 DEF WorkerDbFails, CancelInv, Unsubscribed
      <3>2. \A v \in Workers : v # w => wpc'[v] = wpc[v] /\ job'[v] = job[v]
        BY <1>13 DEF WorkerDbFails, TypeOK
      <3> QED BY <1>f, <3>1, <3>2, CancelOwn
    <2>2. CASE wpc[w] # "claim"
      <3>1. wpc[w] # "idle" /\ {"cleanup", "exc_failed"} \intersect Unsubscribed = {}
        BY <1>13, <2>2, TransitionTable DEF WorkerDbFails, Unsubscribed
      <3>2. PICK pc \in {"cleanup", "exc_failed"} : wpc' = [wpc EXCEPT ![w] = pc]
        BY <1>13, <2>2 DEF WorkerDbFails
      <3>3. UNCHANGED <<job, cancel>>
        BY <1>13, <2>2 DEF WorkerDbFails
      <3> QED BY <1>9, <3>1, <3>2, <3>3
    <2> QED BY <2>1, <2>2
  <1>14. ASSUME NEW w \in Workers, WorkerJoin(w) PROVE CancelInv'
    <2>1. thread[job[w]].result \in {"built", "completed", "failed", "timeout", "error"}
      BY <1>14, JoinResult DEF WorkerJoin
    <2>2. AfterJoin[thread[job[w]].result] \notin Unsubscribed
      BY <2>1 DEF AfterJoin, Unsubscribed
    <2> QED BY <1>9, <1>14, <2>2 DEF WorkerJoin
  <1>15. ASSUME NEW w \in Workers, WorkerKill(w) PROVE CancelInv'
    <2>1. AfterKill(w) \notin Unsubscribed
      BY <1>15 DEF WorkerKill, AfterKill, Unsubscribed
    <2> QED BY <1>9, <1>15, <2>1 DEF WorkerKill
  <1>16. ASSUME NEW w \in Workers,
                WorkerRecheck(w) \/ WorkerMount(w) \/ WorkerLaunch(w) \/ WorkerKillFails(w)
         PROVE  CancelInv'
    <2>1. wpc[w] # "idle" /\ UNCHANGED <<job, cancel>>
      BY <1>16 DEF WorkerRecheck, WorkerMount, WorkerLaunch, WorkerKillFails
    <2>2. PICK pc \in {"mount", "exc_cancelled", "exc_failed", "to_compiling", "to_running",
                       "building", "executing"} : wpc' = [wpc EXCEPT ![w] = pc]
      BY <1>16 DEF WorkerRecheck, WorkerMount, WorkerLaunch, WorkerKillFails
    <2>3. pc \notin Unsubscribed
      BY DEF Unsubscribed
    <2> QED BY <1>9, <2>1, <2>2, <2>3
  <1>17. ASSUME NEW e \in Executions,
                \/ StartCommit(e) \/ StartStep(e) \/ StartEnqueueFails(e) \/ CancelRead(e)
                \/ CancelWrite(e) \/ CancelRemove(e) \/ CancelPublish(e)
                \/ HandlerDbFails(e) \/ ThreadStep(e) \/ Age(e) \/ SweepKill(e)
         PROVE  UNCHANGED <<wpc, job, cancel>>
    BY <1>17 DEF StartCommit, StartStep, StartEnqueue, StartAnnounce, StartCompensate, StartRemove,
                 StartEnqueueFails, CancelRead, CancelWrite, CancelRemove, CancelPublish, HandlerDbFails,
                 ThreadStep, ThreadCreate, ThreadWaitRun, ThreadWaitBuild, ThreadRemove, Age, SweepKill
  <1>18. ASSUME \/ SweepSelect \/ SweepWrite \/ SweepList \/ SweepQuery \/ SweepDone \/ SweepDbFails
                \/ BackendCrash \/ \E w \in Workers : WorkerRead(w)
         PROVE  UNCHANGED <<wpc, job, cancel>>
    BY <1>18 DEF SweepSelect, SweepWrite, SweepList, SweepQuery, SweepDone, SweepDbFails, BackendCrash,
                 WorkerRead
  <1>19. ASSUME NEW e \in Executions, CancelFails(e) PROVE CancelInv'
    <2>1. status[e] \in Finished /\ UNCHANGED <<wpc, job>>
      BY <1>19 DEF CancelFails, RowInv, Finished
    <2>2. UNCHANGED cancel \/ SignalCancel(e)
      BY <1>19 DEF CancelFails
    <2> QED BY <1>1, <1>2, <2>1, <2>2
  <1> QED BY <1>1, <1>3, <1>4, <1>5, <1>6, <1>7, <1>8, <1>10, <1>11, <1>12, <1>13, <1>14, <1>15, <1>16,
             <1>17, <1>18, <1>19
          DEF Next, CancelStep, WorkerStep, SweepStep

(***************************************************************************)
(* ShownInv                                                                *)
(***************************************************************************)

\* A worker about to publish a finished status has committed it.
TellsOK(w) == wpc[w] \in PublishPcs /\ Publish[wpc[w]].tells \in Finished
                => status[job[w]] = Publish[wpc[w]].tells

LEMMA ShownSplit ==
    /\ ShownInv <=> ShownFinishedIsRecorded /\ \A w \in Workers : TellsOK(w)
    /\ ShownInv' <=> ShownFinishedIsRecorded' /\ \A w \in Workers : TellsOK(w)'
  BY DEF ShownInv, TellsOK

LEMMA ShownInvStep ==
    ASSUME TypeOK, RowInv, ClaimInv, ThreadInv, ShownInv, Next
    PROVE  ShownInv'
  <1>f. \A e \in Executions : status[e] \in Finished => status'[e] = status[e]
    BY FinishedStays
  <1>t. ASSUME NEW v \in Workers, wpc'[v] = wpc[v], job'[v] = job[v] PROVE TellsOK(v)'
    <2>1. wpc[v] \in PublishPcs => job[v] \in Executions
      BY PublishTable DEF ClaimInv, ClaimOf
    <2> QED BY <1>f, <1>t, <2>1, ShownSplit DEF TellsOK
  <1>r. UNCHANGED shown => ShownFinishedIsRecorded'
    BY <1>f, ShownSplit DEF ShownFinishedIsRecorded
  <1>1. ASSUME UNCHANGED <<wpc, job, shown>> PROVE ShownInv'
    BY <1>1, <1>t, <1>r, ShownSplit
  <1>2. ASSUME NEW w \in Workers, UNCHANGED shown,
               \A v \in Workers : v # w => wpc'[v] = wpc[v] /\ job'[v] = job[v],
               wpc'[w] = wpc[w] \/ wpc'[w] \notin PublishPcs,
               wpc'[w] \in PublishPcs => job'[w] = job[w]
        PROVE  ShownInv'
    <2>1. TellsOK(w)'
      BY <1>2, <1>t DEF TellsOK
    <2> QED BY <1>2, <2>1, <1>t, <1>r, ShownSplit
  <1>3. ASSUME NEW e \in Executions, StartAnnounce(e) PROVE ShownInv'
    <2>1. "queued" \notin Finished
      BY DEF Finished
    <2>2. ShownFinishedIsRecorded'
      BY <1>3, <1>f, <2>1, ShownSplit DEF StartAnnounce, ShownFinishedIsRecorded, TypeOK
    <2> QED BY <1>3, <1>t, <2>2, ShownSplit DEF StartAnnounce
  <1>4. ASSUME NEW e \in Executions, CancelPublish(e) PROVE ShownInv'
    <2>1. status[e] = "cancelled" /\ status'[e] = "cancelled"
      BY <1>4 DEF CancelPublish, RowInv
    <2>2. ShownFinishedIsRecorded'
      BY <1>4, <1>f, <2>1, ShownSplit DEF CancelPublish, applyRunEvent, ShownFinishedIsRecorded, TypeOK
    <2> QED BY <1>4, <1>t, <2>2, ShownSplit DEF CancelPublish
  <1>p. ASSUME NEW w \in Workers, wpc[w] \in PublishPcs, applyRunEvent(job[w], Publish[wpc[w]].tells)
        PROVE  ShownFinishedIsRecorded'
    <2>1. job[w] \in Executions
      BY <1>p, PublishTable DEF ClaimInv, ClaimOf
    <2>2. Publish[wpc[w]].tells \in Finished => status'[job[w]] = Publish[wpc[w]].tells
      BY <1>f, <1>p, <2>1, ShownSplit DEF TellsOK
    <2> QED BY <1>f, <1>p, <2>1, <2>2, ShownSplit DEF applyRunEvent, ShownFinishedIsRecorded, TypeOK
  <1>5. ASSUME NEW w \in Workers, WorkerPublish(w) PROVE ShownInv'
    <2>1. wpc[w] \in PublishPcs
      BY <1>5 DEF WorkerPublish
    <2>3. ShownFinishedIsRecorded'
      BY <1>5, <1>p, <2>1 DEF WorkerPublish
    <2>4. wpc'[w] \notin PublishPcs
      <3>1. Publish[wpc[w]].then \notin PublishPcs
        BY <2>1, PublishTable
      <3> QED BY <1>5, <3>1 DEF WorkerPublish, TypeOK
    <2>5. ASSUME NEW v \in Workers PROVE TellsOK(v)'
      <3>1. CASE v = w
        BY <2>4, <3>1 DEF TellsOK
      <3>2. CASE v # w
        BY <1>5, <1>t, <3>2 DEF WorkerPublish, TypeOK
      <3> QED BY <3>1, <3>2
    <2> QED BY <2>3, <2>5, ShownSplit
  <1>6. ASSUME NEW w \in Workers, WorkerWrite(w) PROVE ShownInv'
    <2>1. job[w] \in Executions /\ wpc[w] \in TransitionPcs /\ UNCHANGED <<job, shown>>
      BY <1>6, WriteRow
    <2>2. TellsOK(w)'
      <3>1. CASE /\ ChangeStatus(job[w], seen[w], Transition[wpc[w]].target, "worker")
                 /\ wpc' = [wpc EXCEPT ![w] = Transition[wpc[w]].made]
        <4>1. status'[job[w]] = Transition[wpc[w]].target /\ wpc'[w] = Transition[wpc[w]].made
          BY <2>1, <3>1, ChangeRow DEF TypeOK
        <4>2. Publish[Transition[wpc[w]].made].tells = Transition[wpc[w]].target
          BY <2>1, TransitionTable
        <4> QED BY <2>1, <4>1, <4>2 DEF TellsOK
      <3>2. CASE wpc' = [wpc EXCEPT ![w] = Transition[wpc[w]].refused]
        <4>1. wpc'[w] \notin PublishPcs
          BY <2>1, <3>2, TransitionTable, PublishTable DEF TypeOK
        <4> QED BY <4>1 DEF TellsOK
      <3> QED BY <1>6, <3>1, <3>2, WriteRow
    <2>3. ASSUME NEW v \in Workers, v # w PROVE TellsOK(v)'
      BY <1>6, <1>t, <2>1, <2>3 DEF WorkerWrite, TypeOK
    <2> QED BY <1>r, <2>1, <2>2, <2>3, ShownSplit
  <1>7. ASSUME NEW w \in Workers, WorkerClaim(w) PROVE ShownInv'
    <2>1. UNCHANGED shown
      BY <1>7 DEF WorkerClaim
    <2>2. wpc'[w] = "idle" \/ wpc'[w] = "pub_starting"
      BY <1>7, ClaimRow DEF TypeOK
    <2>3. TellsOK(w)'
      BY <2>2, PublishTable DEF TellsOK, Finished
    <2>4. ASSUME NEW v \in Workers, v # w PROVE TellsOK(v)'
      <3>1. wpc'[v] = wpc[v] /\ job'[v] = job[v]
        BY <1>7, <2>4 DEF WorkerClaim, TypeOK
      <3> QED BY <3>1, <1>t
    <2> QED BY <1>r, <2>1, <2>3, <2>4, ShownSplit
  <1>8. ASSUME NEW w \in Workers,
               \/ WorkerScan(w) \/ WorkerTake(w) \/ WorkerSubscribe(w) \/ WorkerRecheck(w)
               \/ WorkerMount(w) \/ WorkerLaunch(w) \/ WorkerKill(w) \/ WorkerKillFails(w)
               \/ WorkerCleanup(w) \/ WorkerCrash(w) \/ WorkerDbFails(w) \/ WorkerTakeFails(w)
        PROVE  ShownInv'
    <2>1. UNCHANGED shown
      BY <1>8 DEF WorkerScan, WorkerTake, WorkerSubscribe, WorkerRecheck, WorkerMount, WorkerLaunch,
                  WorkerKill, WorkerKillFails, WorkerCleanup, WorkerCrash, WorkerDbFails,
                  WorkerTakeFails
    <2>2. PICK pc \in {"idle", "take", "claim", "recheck", "mount", "to_compiling", "to_running",
                       "building", "executing", "exc_cancelled", "exc_failed", "cleanup"} :
             wpc' = [wpc EXCEPT ![w] = pc]
      BY <1>8 DEF WorkerScan, WorkerTake, WorkerSubscribe, WorkerRecheck, WorkerMount, WorkerLaunch,
                  WorkerKill, AfterKill, WorkerKillFails, WorkerCleanup, WorkerCrash, WorkerDbFails,
                  WorkerTakeFails
    <2>3. \A v \in Workers : v # w => job'[v] = job[v]
      BY <1>8 DEF WorkerScan, WorkerTake, WorkerSubscribe, WorkerRecheck, WorkerMount, WorkerLaunch,
                  WorkerKill, WorkerKillFails, WorkerCleanup, WorkerCrash, WorkerDbFails,
                  WorkerTakeFails, TypeOK
    <2>4. pc \notin PublishPcs
      BY PublishTable
    <2> QED BY <1>2, <2>1, <2>2, <2>3, <2>4 DEF TypeOK
  <1>9. ASSUME NEW w \in Workers, WorkerJoin(w) PROVE ShownInv'
    <2>1. thread[job[w]].result \in {"built", "completed", "failed", "timeout", "error"}
      BY <1>9, JoinResult DEF WorkerJoin
    <2>2. AfterJoin[thread[job[w]].result] \notin PublishPcs
      BY <2>1, PublishTable DEF AfterJoin
    <2> QED BY <1>2, <1>9, <2>2 DEF WorkerJoin, TypeOK
  <1>10. ASSUME NEW w \in Workers, WorkerPublishFails(w) PROVE ShownInv'
    <2>1. Publish[wpc[w]].error \notin PublishPcs
      BY <1>10, PublishTable DEF WorkerPublishFails
    <2>2. ShownFinishedIsRecorded'
      BY <1>10, <1>p, <1>r DEF WorkerPublishFails
    <2>3. ASSUME NEW v \in Workers PROVE TellsOK(v)'
      <3>1. CASE v = w
        BY <1>10, <2>1, <3>1 DEF WorkerPublishFails, TellsOK, TypeOK
      <3>2. CASE v # w
        BY <1>10, <1>t, <3>2 DEF WorkerPublishFails, TypeOK
      <3> QED BY <3>1, <3>2
    <2> QED BY <2>2, <2>3, ShownSplit
  <1>11. ASSUME NEW e \in Executions,
                \/ StartCommit(e) \/ StartEnqueue(e) \/ StartCompensate(e) \/ StartRemove(e)
                \/ StartEnqueueFails(e) \/ CancelRead(e) \/ CancelWrite(e) \/ CancelRemove(e)
                \/ CancelSignal(e) \/ CancelFails(e) \/ HandlerDbFails(e) \/ ThreadStep(e) \/ Age(e)
                \/ SweepKill(e) \/ SweepSignal(e)
         PROVE  UNCHANGED <<wpc, job, shown>>
    BY <1>11 DEF StartCommit, StartEnqueue, StartCompensate, StartRemove, StartEnqueueFails, CancelRead,
                 CancelWrite, CancelRemove, CancelSignal, CancelFails, HandlerDbFails, ThreadStep, ThreadCreate,
                 ThreadWaitRun, ThreadWaitBuild, ThreadRemove, Age, SweepKill, SweepSignal
  <1>12. ASSUME \/ SweepSelect \/ SweepWrite \/ SweepList \/ SweepQuery \/ SweepDone \/ SweepDbFails
                \/ BackendCrash \/ \E w \in Workers : WorkerRead(w) \/ WorkerListen(w) \/ WorkerDeaf(w)
         PROVE  UNCHANGED <<wpc, job, shown>>
    BY <1>12 DEF SweepSelect, SweepWrite, SweepList, SweepQuery, SweepDone, SweepDbFails, BackendCrash,
                 WorkerRead, WorkerListen, WorkerDeaf
  <1> QED BY <1>1, <1>3, <1>4, <1>5, <1>6, <1>7, <1>8, <1>9, <1>10, <1>11, <1>12
          DEF Next, StartStep, CancelStep, WorkerStep, SweepStep

(***************************************************************************)
(* ThreadInv                                                               *)
(***************************************************************************)

\* A worker's own step that leaves the threads alone and creates no container
LEMMA BoxMove ==
    ASSUME TypeOK, ThreadInv, NEW w \in Workers, UNCHANGED thread, boxes' \subseteq boxes,
           \A v \in Workers : v # w => wpc'[v] = wpc[v] /\ job'[v] = job[v],
           BoxOf(w)'
    PROVE  ThreadInv'
  BY DEF ThreadInv, ThreadOf, ThreadResultOK, BoxOf

\* A step of the thread of e, which no worker at a place without thread is at
LEMMA ThreadMove ==
    ASSUME TypeOK, ClaimInv, ThreadInv, NEW e \in Executions, Busy(thread[e]), UNCHANGED <<wpc, job>>,
           NEW at \in {"create", "wait", "remove", "done"},
           NEW r \in {"none", "built", "completed", "failed", "timeout", "error"},
           SetThread(e, at, r), boxes' \ {e} = boxes \ {e},
           r = "built" => thread[e].op = "build",
           thread[e].op = "build" => r \in {"none", "built", "error"},
           at \in {"done", "remove"} => r # "none",
           at = "done" /\ r = "built" => e \notin boxes'
    PROVE  ThreadInv'
  <1>1. /\ thread'[e] = [op |-> thread[e].op, at |-> at, result |-> r]
        /\ \A x \in Executions : x # e => thread'[x] = thread[x] /\ (x \in boxes' <=> x \in boxes)
    <2>1. \A x : x # e => (x \in boxes' <=> x \in boxes)
      BY Zenon
    <2>2. /\ thread'[e] = [op |-> thread[e].op, at |-> at, result |-> r]
          /\ \A x \in Executions : x # e => thread'[x] = thread[x]
      BY DEF SetThread, TypeOK
    <2> QED BY <2>1, <2>2
  <1>2. ASSUME NEW x \in Executions PROVE ThreadOf(x)'
    <2>1. CASE x = e
      BY <1>1, <2>1 DEF ThreadOf, ThreadResultOK
    <2>2. CASE x # e
      BY <1>1, <2>2 DEF ThreadInv, ThreadOf, ThreadResultOK
    <2> QED BY <2>1, <2>2
  <1>3. ASSUME NEW v \in Workers PROVE BoxOf(v)'
    <2>1. BoxOf(v)
      BY DEF ThreadInv
    <2>2. wpc[v] \in BoxFreePcs \union {"building", "executing"} => job[v] \in Executions
      BY DEF ClaimInv, ClaimOf, BoxFreePcs
    <2>3. wpc[v] \in BoxFreePcs => job[v] # e
      BY <2>1 DEF BoxOf
    <2> QED BY <1>1, <2>1, <2>2, <2>3 DEF BoxOf
  <1> QED BY <1>2, <1>3 DEF ThreadInv

LEMMA ThreadInvStep ==
    ASSUME TypeOK, RowInv, ClaimInv, CancelInv, ThreadInv, Next
    PROVE  ThreadInv'
  <1>a. ASSUME NEW w \in Workers PROVE ClaimOf(w) /\ BoxOf(w)
    BY DEF ClaimInv, ThreadInv
  <1>b. ASSUME NEW e \in Executions PROVE ThreadOf(e)
    BY DEF ThreadInv
  <1>1. ASSUME UNCHANGED <<wpc, job, thread>>, boxes' \subseteq boxes PROVE ThreadInv'
    BY <1>1 DEF ThreadInv, ThreadOf, ThreadResultOK, BoxOf
  <1>2. ASSUME NEW w \in Workers, NEW pc, wpc' = [wpc EXCEPT ![w] = pc], UNCHANGED thread,
               boxes' \subseteq boxes,
               pc \notin BoxFreePcs \union {"building", "executing"},
               \A v \in Workers : v # w => job'[v] = job[v]
        PROVE  ThreadInv'
    <2>1. BoxOf(w)'
      BY <1>2 DEF BoxOf, TypeOK
    <2> QED BY <1>2, <2>1, BoxMove DEF TypeOK
  <1>3. ASSUME NEW w \in Workers, NEW pc, wpc' = [wpc EXCEPT ![w] = pc], UNCHANGED <<job, thread, boxes>>,
               wpc[w] \in BoxFreePcs, pc \notin {"building", "executing"}
        PROVE  ThreadInv'
    <2>1. BoxOf(w)'
      BY <1>3, <1>a DEF BoxOf, TypeOK
    <2> QED BY <1>3, <2>1, BoxMove DEF TypeOK
  <1>4. ASSUME NEW w \in Workers,
               WorkerScan(w) \/ WorkerTake(w) \/ WorkerTakeFails(w) \/ WorkerCleanup(w)
        PROVE  ThreadInv'
    <2>1. PICK pc \in {"idle", "take", "claim"} : wpc' = [wpc EXCEPT ![w] = pc]
      BY <1>4 DEF WorkerScan, WorkerTake, WorkerTakeFails, WorkerCleanup
    <2>2. UNCHANGED <<thread, boxes>> /\ \A v \in Workers : v # w => job'[v] = job[v]
      BY <1>4 DEF WorkerScan, WorkerTake, WorkerTakeFails, WorkerCleanup, TypeOK
    <2>3. pc \notin BoxFreePcs \union {"building", "executing"}
      BY DEF BoxFreePcs
    <2> QED BY <1>2, <2>1, <2>2, <2>3
  <1>5. ASSUME NEW w \in Workers, WorkerClaim(w) PROVE ThreadInv'
    <2>1. UNCHANGED <<thread, boxes>>
      BY <1>5 DEF WorkerClaim
    <2>2. CASE wpc' = [wpc EXCEPT ![w] = "idle"] /\ job' = [job EXCEPT ![w] = NoJob]
      <3>1. "idle" \notin BoxFreePcs \union {"building", "executing"}
        BY DEF BoxFreePcs
      <3>2. \A v \in Workers : v # w => job'[v] = job[v]
        BY <2>2 DEF TypeOK
      <3> QED BY <1>2, <2>1, <2>2, <3>1, <3>2
    <2>3. CASE /\ status[job[w]] = "queued" /\ job' = job
               /\ wpc' = [wpc EXCEPT ![w] = "pub_starting"] /\ job[w] \in Executions
      <3>1. job[w] \notin boxes /\ ~Busy(thread[job[w]])
        BY <2>3 DEF RowInv
      <3>2. BoxOf(w)'
        BY <2>1, <2>3, <3>1 DEF BoxOf, TypeOK, Busy
      <3> QED BY <2>1, <2>3, <3>2, BoxMove DEF TypeOK
    <2> QED BY <1>5, <2>2, <2>3, ClaimRow
  <1>6. ASSUME NEW w \in Workers, WorkerWrite(w) PROVE ThreadInv'
    <2>1. wpc[w] \in TransitionPcs /\ UNCHANGED <<job, thread, boxes>>
      BY <1>6, WriteRow
    <2>2. CASE wpc[w] \in {"to_compiling", "to_running"}
      <3>1. wpc[w] \in BoxFreePcs
        BY <2>2 DEF BoxFreePcs
      <3>2. /\ Transition[wpc[w]].made \notin {"building", "executing"}
            /\ Transition[wpc[w]].refused \notin {"building", "executing"}
        BY <2>1, TransitionTable, PublishTable
      <3> QED BY <1>3, <1>6, <2>1, <3>1, <3>2, WriteRow
    <2>3. CASE wpc[w] \notin {"to_compiling", "to_running"}
      <3>1. /\ Transition[wpc[w]].made \notin BoxFreePcs \union {"building", "executing"}
            /\ Transition[wpc[w]].refused \notin BoxFreePcs \union {"building", "executing"}
        BY <2>1, <2>3, TransitionTable, PublishTable DEF BoxFreePcs
      <3> QED BY <1>2, <1>6, <2>1, <3>1, WriteRow
    <2> QED BY <2>2, <2>3
  <1>7. ASSUME NEW w \in Workers, WorkerPublish(w) PROVE ThreadInv'
    <2>1. wpc[w] \in PublishPcs /\ UNCHANGED <<job, thread, boxes>>
          /\ wpc' = [wpc EXCEPT ![w] = Publish[wpc[w]].then]
      BY <1>7 DEF WorkerPublish
    <2>2. CASE wpc[w] \in {"pub_starting", "pub_compiling", "pub_running"}
      <3>1. wpc[w] \in BoxFreePcs
        BY <2>2 DEF BoxFreePcs
      <3>2. Publish[wpc[w]].then \notin {"building", "executing"}
        BY <2>2, PublishTable
      <3> QED BY <1>3, <2>1, <3>1, <3>2
    <2>3. CASE wpc[w] \notin {"pub_starting", "pub_compiling", "pub_running"}
      <3>1. Publish[wpc[w]].then \notin BoxFreePcs \union {"building", "executing"}
        BY <2>1, <2>3, PublishTable DEF BoxFreePcs
      <3> QED BY <1>2, <2>1, <3>1
    <2> QED BY <2>2, <2>3
  <1>8. ASSUME NEW w \in Workers, WorkerPublishFails(w) PROVE ThreadInv'
    <2>1. Publish[wpc[w]].error \notin BoxFreePcs \union {"building", "executing"}
      BY <1>8, PublishTable DEF WorkerPublishFails, BoxFreePcs
    <2>2. \A v \in Workers : v # w => job'[v] = job[v]
      BY <1>8 DEF WorkerPublishFails, TypeOK
    <2> QED BY <1>2, <1>8, <2>1, <2>2 DEF WorkerPublishFails
  <1>9. ASSUME NEW w \in Workers, WorkerDbFails(w) PROVE ThreadInv'
    <2>1. PICK pc \in {"idle", "cleanup", "exc_failed"} : wpc' = [wpc EXCEPT ![w] = pc]
      BY <1>9 DEF WorkerDbFails
    <2>2. UNCHANGED <<thread, boxes>> /\ \A v \in Workers : v # w => job'[v] = job[v]
      BY <1>9 DEF WorkerDbFails, TypeOK
    <2>3. pc \notin BoxFreePcs \union {"building", "executing"}
      BY DEF BoxFreePcs
    <2> QED BY <1>2, <2>1, <2>2, <2>3
  <1>10. ASSUME NEW w \in Workers, WorkerSubscribe(w) \/ WorkerRecheck(w) \/ WorkerMount(w)
         PROVE  ThreadInv'
    <2>1. PICK pc \in {"recheck", "mount", "exc_cancelled", "exc_failed", "to_compiling", "to_running"} :
             wpc' = [wpc EXCEPT ![w] = pc]
      BY <1>10 DEF WorkerSubscribe, WorkerRecheck, WorkerMount
    <2>2. UNCHANGED <<job, thread, boxes>> /\ wpc[w] \in BoxFreePcs
      BY <1>10 DEF WorkerSubscribe, WorkerRecheck, WorkerMount, BoxFreePcs
    <2> QED BY <1>3, <2>1, <2>2
  <1>11. ASSUME NEW w \in Workers, WorkerLaunch(w) PROVE ThreadInv'
    <2>1. UNCHANGED <<job, boxes>> /\ wpc[w] \in BoxFreePcs
      BY <1>11 DEF WorkerLaunch, BoxFreePcs
    <2>2. CASE UNCHANGED thread /\ wpc' = [wpc EXCEPT ![w] = "exc_cancelled"]
      <3>1. BoxOf(w)'
        BY <1>a, <2>1, <2>2 DEF BoxOf, TypeOK
      <3> QED BY <2>1, <2>2, <3>1, BoxMove DEF TypeOK
    <2>3. CASE /\ thread' = [thread EXCEPT ![job[w]] = [op |-> wpc[w], at |-> "create", result |-> "none"]]
               /\ wpc' = [wpc EXCEPT ![w] = IF wpc[w] = "build" THEN "building" ELSE "executing"]
      <3>0. wpc[w] \in {"build", "run"} /\ job[w] \in Executions /\ Claimed(w)
        BY <1>11, <1>a DEF WorkerLaunch, ClaimOf, Claimed
      <3>1. /\ thread'[job[w]] = [op |-> wpc[w], at |-> "create", result |-> "none"]
            /\ \A x \in Executions : x # job[w] => thread'[x] = thread[x]
        BY <2>3, <3>0 DEF TypeOK
      <3>2. ASSUME NEW x \in Executions PROVE ThreadOf(x)'
        BY <2>1, <3>0, <3>1, <3>2, <1>b DEF ThreadOf, ThreadResultOK
      <3>3. ASSUME NEW v \in Workers PROVE BoxOf(v)'
        <4>1. CASE v = w
          BY <2>1, <2>3, <3>0, <3>1, <4>1 DEF BoxOf, BoxFreePcs, TypeOK
        <4>2. CASE v # w
          <5>1. wpc'[v] = wpc[v] /\ job'[v] = job[v]
            BY <2>1, <2>3, <4>2 DEF TypeOK
          <5>2. CASE Claimed(v)
            <6>1. job[v] \in Executions /\ job[v] # job[w]
              BY <1>a, <3>0, <4>2, <5>2, Exclusive DEF ClaimOf, Claimed
            <6> QED BY <1>a, <2>1, <3>1, <5>1, <6>1 DEF BoxOf
          <5>3. CASE ~Claimed(v)
            BY <5>1, <5>3 DEF BoxOf, Claimed, BoxFreePcs
          <5> QED BY <5>2, <5>3
        <4> QED BY <4>1, <4>2
      <3> QED BY <3>2, <3>3 DEF ThreadInv
    <2> QED BY <1>11, <2>2, <2>3 DEF WorkerLaunch
  <1>12. ASSUME NEW w \in Workers, WorkerJoin(w) PROVE ThreadInv'
    <2>0. /\ thread[job[w]].result \in {"built", "completed", "failed", "timeout", "error"}
          /\ job[w] \in Executions
      BY <1>12, JoinResult DEF WorkerJoin
    <2>1. /\ wpc' = [wpc EXCEPT ![w] = AfterJoin[thread[job[w]].result]]
          /\ UNCHANGED <<job, thread, boxes>> /\ ~Busy(thread[job[w]])
          /\ thread[job[w]].result \in {"built", "completed", "failed", "timeout", "error"}
          /\ job[w] \in Executions
      BY <1>12, <2>0 DEF WorkerJoin
    <2>2. CASE thread[job[w]].result = "built"
      <3>1. job[w] \notin boxes
        BY <1>b, <2>1, <2>2 DEF ThreadOf, ThreadResultOK, Busy
      <3>2. wpc'[w] = "to_running"
        BY <2>1, <2>2 DEF AfterJoin, TypeOK
      <3>3. BoxOf(w)'
        BY <2>1, <3>1, <3>2 DEF BoxOf, Busy
      <3> QED BY <2>1, <3>3, BoxMove DEF TypeOK
    <2>3. CASE thread[job[w]].result # "built"
      <3>1. AfterJoin[thread[job[w]].result] \notin BoxFreePcs \union {"building", "executing"}
        BY <2>1, <2>3 DEF AfterJoin, BoxFreePcs
      <3> QED BY <1>2, <2>1, <3>1
    <2> QED BY <2>2, <2>3
  <1>13. ASSUME NEW w \in Workers, WorkerKill(w) PROVE ThreadInv'
    <2>1. wpc[w] \in {"building", "executing"} /\ boxes' = boxes \ {job[w]} /\ UNCHANGED <<job, thread>>
          /\ wpc' = [wpc EXCEPT ![w] = AfterKill(w)]
      BY <1>13 DEF WorkerKill
    <2>2. BoxOf(w)'
      BY <1>a, <2>1 DEF BoxOf, AfterKill, Busy, BoxFreePcs, TypeOK
    <2> QED BY <2>1, <2>2, BoxMove DEF TypeOK
  <1>14. ASSUME NEW w \in Workers, WorkerKillFails(w) PROVE ThreadInv'
    <2>1. "exc_failed" \notin BoxFreePcs \union {"building", "executing"}
      BY DEF BoxFreePcs
    <2> QED BY <1>2, <1>14, <2>1 DEF WorkerKillFails
  <1>15. ASSUME NEW w \in Workers, WorkerCrash(w) PROVE ThreadInv'
    <2>1. /\ wpc' = [wpc EXCEPT ![w] = "idle"] /\ boxes' = boxes
          /\ \A v \in Workers : v # w => job'[v] = job[v]
          /\ \A x \in Executions : \/ thread'[x] = thread[x]
                                   \/ thread'[x] = NoThread /\ worker_id[x] = w
      BY <1>15 DEF WorkerCrash, TypeOK
    <2>2. ASSUME NEW x \in Executions PROVE ThreadOf(x)'
      BY <1>b, <2>1 DEF ThreadOf, ThreadResultOK, NoThread
    <2>3. ASSUME NEW v \in Workers PROVE BoxOf(v)'
      <3>1. CASE v = w
        BY <2>1, <3>1 DEF BoxOf, BoxFreePcs, TypeOK
      <3>2. CASE v # w
        <4>1. wpc'[v] = wpc[v] /\ job'[v] = job[v]
          BY <2>1, <3>2 DEF TypeOK
        <4>2. CASE Claimed(v)
          <5>1. job[v] \in Executions /\ thread'[job[v]] = thread[job[v]]
            BY <1>a, <2>1, <3>2, <4>2 DEF ClaimOf, Claimed
          <5> QED BY <1>a, <2>1, <4>1, <5>1 DEF BoxOf
        <4>3. CASE ~Claimed(v)
          BY <4>1, <4>3 DEF BoxOf, Claimed, BoxFreePcs
        <4> QED BY <4>2, <4>3
      <3> QED BY <3>1, <3>2
    <2> QED BY <2>2, <2>3 DEF ThreadInv
  <1>16. ASSUME NEW e \in Executions, ThreadStep(e) PROVE ThreadInv'
    <2>0. UNCHANGED <<wpc, job>> /\ thread[e] \in Thread /\ Busy(thread[e]) /\ ThreadOf(e)
      BY <1>16, <1>b
      DEF ThreadStep, ThreadCreate, ThreadWaitRun, ThreadWaitBuild, ThreadRemove, TypeOK, Busy
    <2>m. ASSUME NEW at \in {"create", "wait", "remove", "done"},
                 NEW r \in {"none", "built", "completed", "failed", "timeout", "error"},
                 SetThread(e, at, r), boxes' \ {e} = boxes \ {e},
                 r = "built" => thread[e].op = "build",
                 thread[e].op = "build" => r \in {"none", "built", "error"},
                 at \in {"done", "remove"} => r # "none",
                 at = "done" /\ r = "built" => e \notin boxes'
          PROVE  ThreadInv'
      BY <2>0, <2>m, ThreadMove
    <2>1. CASE ThreadCreate(e)
      BY <2>m, <2>1 DEF ThreadCreate
    <2>2. CASE ThreadWaitRun(e)
      BY <2>m, <2>2 DEF ThreadWaitRun
    <2>3. CASE ThreadWaitBuild(e)
      BY <2>m, <2>3 DEF ThreadWaitBuild
    <2>4. CASE ThreadRemove(e)
      <3>1. thread[e].result \in {"built", "completed", "failed", "timeout", "error"}
        BY <2>0, <2>4 DEF ThreadRemove, ThreadOf, ThreadResultOK, Thread
      <3>2. /\ thread[e].result = "built" => thread[e].op = "build"
            /\ thread[e].op = "build" => thread[e].result \in {"built", "error"}
        BY <2>0, <3>1 DEF ThreadOf, ThreadResultOK
      <3> QED BY <2>m, <2>4, <3>1, <3>2 DEF ThreadRemove
    <2> QED BY <1>16, <2>1, <2>2, <2>3, <2>4 DEF ThreadStep
  <1>17. ASSUME NEW e \in Executions, SweepKill(e) PROVE ThreadInv'
    BY <1>1, <1>17 DEF SweepKill
  <1>18. ASSUME NEW e \in Executions,
                \/ StartCommit(e) \/ StartStep(e) \/ StartEnqueueFails(e) \/ CancelRead(e)
                \/ CancelStep(e) \/ CancelFails(e) \/ HandlerDbFails(e) \/ Age(e) \/ SweepSignal(e)
         PROVE  UNCHANGED <<wpc, job, thread, boxes>>
    BY <1>18 DEF StartCommit, StartStep, StartEnqueue, StartAnnounce, StartCompensate, StartRemove,
                 StartEnqueueFails, CancelRead, CancelStep, CancelWrite, CancelRemove, CancelSignal,
                 CancelPublish, CancelFails, HandlerDbFails, Age, SweepSignal
  <1>19. ASSUME \/ SweepSelect \/ SweepWrite \/ SweepList \/ SweepQuery \/ SweepDone \/ SweepDbFails
                \/ BackendCrash \/ \E w \in Workers : WorkerRead(w) \/ WorkerListen(w) \/ WorkerDeaf(w)
         PROVE  UNCHANGED <<wpc, job, thread, boxes>>
    BY <1>19 DEF SweepSelect, SweepWrite, SweepList, SweepQuery, SweepDone, SweepDbFails, BackendCrash,
                 WorkerRead, WorkerListen, WorkerDeaf
  <1> QED BY <1>1, <1>4, <1>5, <1>6, <1>7, <1>8, <1>9, <1>10, <1>11, <1>12, <1>13, <1>14, <1>15, <1>16,
             <1>17, <1>18, <1>19
          DEF Next, WorkerStep, SweepStep

(***************************************************************************)
(* The theorems                                                            *)
(***************************************************************************)

LEMMA InvInit == Init => IInv
  <1> SUFFICES ASSUME Init PROVE IInv
    OBVIOUS
  <1>1. TypeOK
    BY TypeInit
  <1>2. RowInv
    BY DEF Init, RowInv, NoThread, Busy
  <1>3. ClaimInv
    BY TransitionTable DEF Init, ClaimInv, ClaimOf, Claimed
  <1>4. CancelInv
    BY DEF Init, CancelInv
  <1>5. ShownInv
    BY PublishTable DEF Init, ShownInv, ShownFinishedIsRecorded, Finished
  <1>6. ThreadInv
    BY DEF Init, ThreadInv, ThreadOf, ThreadResultOK, BoxOf, BoxFreePcs, NoThread
  <1> QED BY <1>1, <1>2, <1>3, <1>4, <1>5, <1>6 DEF IInv

LEMMA InvStep == IInv /\ [Next]_vars => IInv'
  <1> SUFFICES ASSUME IInv, [Next]_vars PROVE IInv'
    OBVIOUS
  <1>0. TypeOK /\ RowInv /\ ClaimInv /\ CancelInv /\ ShownInv /\ ThreadInv
    BY DEF IInv
  <1>1. TypeOK'
    BY <1>0, TypeStep
  <1>2. CASE Next
    BY <1>0, <1>1, <1>2, RowInvStep, ClaimInvStep, CancelInvStep, ShownInvStep, ThreadInvStep DEF IInv
  <1>3. CASE UNCHANGED vars
    <2> USE <1>0, <1>3 DEF vars
    <2>1. RowInv'
      BY DEF RowInv
    <2>2. ClaimInv'
      BY DEF ClaimInv, ClaimOf, Claimed
    <2>3. CancelInv'
      BY DEF CancelInv
    <2>4. ShownInv'
      BY DEF ShownInv, ShownFinishedIsRecorded
    <2>5. ThreadInv'
      BY DEF ThreadInv, ThreadOf, BoxOf
    <2> QED BY <1>1, <2>1, <2>2, <2>3, <2>4, <2>5 DEF IInv
  <1> QED BY <1>2, <1>3

\* The inductive invariant holds in every state of the pipeline.
THEOREM PipelineInvariant == Spec => []IInv
  BY InvInit, InvStep, PTL DEF Spec

\* Every variable of the pipeline keeps its type.
THEOREM PipelineTypes == Spec => []TypeOK
  <1>1. IInv => TypeOK
    BY DEF IInv
  <1> QED BY <1>1, PipelineInvariant, PTL

\* A worker is told to stop only about a finished run (cancel_execution and
\* sweep_once signal after their commit; _run_one raises ExecutionCancelled
\* only where its row is finished).
THEOREM PipelineCancel == Spec => []CancelMeansFinished
  <1>1. IInv => CancelMeansFinished
    <2> SUFFICES ASSUME IInv, NEW w \in Workers,
                        cancel[w] \in {"mail", "set"} \/ wpc[w] = "exc_cancelled"
                 PROVE  status[job[w]] \in Finished
      BY DEF CancelMeansFinished
    <2>1. CASE cancel[w] \in {"mail", "set"}
      BY <2>1 DEF IInv, CancelInv
    <2>2. CASE wpc[w] = "exc_cancelled"
      BY <2>2 DEF IInv, ClaimInv, ClaimOf, Claimed, StageOK
    <2> QED BY <2>1, <2>2
  <1> QED BY <1>1, PipelineInvariant, PTL

\* No console shows a finished status that is not the recorded one
\* (_publish_status, cancel_execution and applyRunEvent).
THEOREM PipelineConsole == Spec => []ShownFinishedIsRecorded
  <1>1. IInv => ShownFinishedIsRecorded
    BY DEF IInv, ShownInv
  <1> QED BY <1>1, PipelineInvariant, PTL

\* The run of a worker that leaves the sandbox cancelled has no container
\* (the kill loop of _run_cancellable).
THEOREM PipelineKill == Spec => []CancelledLeavesNoContainer
  <1>1. IInv => CancelledLeavesNoContainer
    BY DEF IInv, ThreadInv, BoxOf, BoxFreePcs, CancelledLeavesNoContainer
  <1> QED BY <1>1, PipelineInvariant, PTL

(***************************************************************************)
(* The workspace outlives the thread                                       *)
(***************************************************************************)

\* A worker that is not waiting, does not move, or has nothing to wait for any
\* more leaves nobody's thread alone.
LEMMA WaitFrame ==
    ASSUME WorkspaceOutlivesThread, NEW w \in Workers, UNCHANGED thread,
           \A v \in Workers : v # w => wpc'[v] = wpc[v] /\ job'[v] = job[v],
           \/ wpc[w] \notin {"building", "executing"}
           \/ wpc'[w] = wpc[w] /\ job'[w] = job[w]
           \/ ~Busy(thread[job[w]])
    PROVE  WorkspaceOutlivesThread'
  BY DEF WorkspaceOutlivesThread

\* Who starts a thread waits for it until it has returned, or dies with it.
LEMMA WorkspaceStep ==
    ASSUME IInv, "docker" \notin FaultKinds, WorkspaceOutlivesThread, [Next]_vars
    PROVE  WorkspaceOutlivesThread'
  <1> USE DEF IInv
  <1>a. ASSUME NEW w \in Workers, wpc[w] \in {"building", "executing", "build", "run"}
        PROVE  job[w] \in Executions /\ worker_id[job[w]] = w
    BY <1>a DEF ClaimInv, ClaimOf, Claimed
  <1>1. CASE UNCHANGED <<wpc, job, thread>>
    BY <1>1 DEF WorkspaceOutlivesThread
  <1>2. ASSUME NEW e \in Executions, ThreadStep(e) PROVE WorkspaceOutlivesThread'
    <2>1. Busy(thread[e]) /\ UNCHANGED <<wpc, job>>
      BY <1>2 DEF ThreadStep, ThreadCreate, ThreadWaitRun, ThreadWaitBuild, ThreadRemove, Busy
    <2>2. \A x \in Executions : x # e => thread'[x] = thread[x]
      BY <1>2 DEF ThreadStep, ThreadCreate, ThreadWaitRun, ThreadWaitBuild, ThreadRemove, SetThread, TypeOK
    <2> QED BY <2>1, <2>2 DEF WorkspaceOutlivesThread
  <1>3. ASSUME NEW w \in Workers, WorkerLaunch(w) PROVE WorkspaceOutlivesThread'
    <2>1. CASE cancel[w] = "set"
      <3>1. /\ UNCHANGED <<job, thread>> /\ wpc[w] \notin {"building", "executing"}
            /\ \A v \in Workers : v # w => wpc'[v] = wpc[v]
        BY <1>3, <2>1 DEF WorkerLaunch, Goto, TypeOK
      <3> QED BY <3>1, WaitFrame
    <2>2. CASE cancel[w] # "set"
      <3>1. /\ job' = job /\ job[w] \in Executions
            /\ \A x \in Executions : x # job[w] => thread'[x] = thread[x]
        BY <1>3, <1>a, <2>2 DEF WorkerLaunch, TypeOK
      <3>2. wpc'[w] \in {"building", "executing"} /\ wpc[w] \notin {"building", "executing"}
        BY <1>3, <2>2 DEF WorkerLaunch, TypeOK
      <3>3. \A v \in Workers : v # w => wpc'[v] = wpc[v]
        BY <1>3, <2>2 DEF WorkerLaunch, TypeOK
      <3> QED BY <3>1, <3>2, <3>3 DEF WorkspaceOutlivesThread
    <2> QED BY <2>1, <2>2
  <1>4. ASSUME NEW w \in Workers, WorkerCrash(w) PROVE WorkspaceOutlivesThread'
    <2>1. \A x \in Executions : Busy(thread'[x]) => Busy(thread[x]) /\ worker_id[x] # w
      BY <1>4 DEF WorkerCrash, Busy, NoThread
    <2>2. \A v \in Workers : v # w => wpc'[v] = wpc[v] /\ job'[v] = job[v]
      BY <1>4 DEF WorkerCrash, TypeOK
    <2> QED BY <1>a, <2>1, <2>2 DEF WorkspaceOutlivesThread
  <1>5. ASSUME NEW w \in Workers, WorkerJoin(w) \/ WorkerKill(w) PROVE WorkspaceOutlivesThread'
    BY <1>5, WaitFrame DEF WorkerJoin, WorkerKill, AfterKill, TypeOK
  <1>6. ASSUME NEW w \in Workers,
               \/ WorkerScan(w) \/ WorkerTake(w) \/ WorkerClaim(w) \/ WorkerTakeFails(w) \/ WorkerSubscribe(w)
               \/ WorkerRecheck(w) \/ WorkerMount(w) \/ WorkerCleanup(w)
        PROVE  WorkspaceOutlivesThread'
    <2>1. wpc[w] \notin {"building", "executing"} /\ UNCHANGED thread
      BY <1>6 DEF WorkerScan, WorkerTake, WorkerClaim, WorkerTakeFails, WorkerSubscribe, WorkerRecheck,
                  WorkerMount, WorkerCleanup
    <2>2. \A v \in Workers : v # w => wpc'[v] = wpc[v] /\ job'[v] = job[v]
      BY <1>6 DEF WorkerScan, WorkerTake, WorkerClaim, WorkerTakeFails, WorkerSubscribe, WorkerRecheck,
                  WorkerMount, WorkerCleanup, TypeOK
    <2> QED BY <2>1, <2>2, WaitFrame
  <1>7. ASSUME NEW w \in Workers,
               \/ WorkerRead(w) \/ WorkerWrite(w) \/ WorkerPublish(w) \/ WorkerPublishFails(w) \/ WorkerDbFails(w)
        PROVE  WorkspaceOutlivesThread'
    <2>1. wpc[w] \notin {"building", "executing"} /\ UNCHANGED thread
      BY <1>7, TransitionTable, PublishTable
      DEF WorkerRead, WorkerWrite, WorkerPublish, WorkerPublishFails, WorkerDbFails
    <2>2. \A v \in Workers : v # w => wpc'[v] = wpc[v] /\ job'[v] = job[v]
      BY <1>7 DEF WorkerRead, WorkerWrite, WorkerPublish, WorkerPublishFails, WorkerDbFails, TypeOK
    <2> QED BY <2>1, <2>2, WaitFrame
  <1>8. ASSUME NEW w \in Workers, WorkerListen(w) \/ WorkerDeaf(w) PROVE UNCHANGED <<wpc, job, thread>>
    BY <1>8 DEF WorkerListen, WorkerDeaf
  <1>9. ASSUME NEW e \in Executions,
               \/ StartCommit(e) \/ StartStep(e) \/ StartEnqueueFails(e) \/ CancelRead(e) \/ CancelStep(e)
               \/ CancelFails(e) \/ HandlerDbFails(e) \/ Age(e)
        PROVE  UNCHANGED <<wpc, job, thread>>
    BY <1>9 DEF StartCommit, StartStep, StartEnqueue, StartAnnounce, StartCompensate, StartRemove,
                StartEnqueueFails, CancelRead, CancelStep, CancelWrite, CancelRemove, CancelSignal,
                CancelPublish, CancelFails, HandlerDbFails, Age
  <1>10. ASSUME SweepStep \/ SweepDbFails \/ BackendCrash PROVE UNCHANGED <<wpc, job, thread>>
    BY <1>10 DEF SweepStep, SweepSelect, SweepWrite, SweepList, SweepQuery, SweepDone, SweepKill,
                 SweepSignal, SweepDbFails, BackendCrash
  <1>11. ASSUME NEW w \in Workers, WorkerKillFails(w) PROVE FALSE
    BY <1>11 DEF WorkerKillFails, Fault
  <1>12. CASE UNCHANGED vars
    BY <1>1, <1>12 DEF vars
  <1>13. CASE Next
    BY <1>13, <1>1, <1>2, <1>3, <1>4, <1>5, <1>6, <1>7, <1>8, <1>9, <1>10, <1>11 DEF Next, WorkerStep
  <1> QED BY <1>12, <1>13

\* Only a Docker error while a cancelled run is killed (_run_cancellable leaves
\* its loop) separates a worker from its thread: without one the workspace of a
\* run is never deleted under the thread that uses it, whatever else fails and
\* whoever dies.
THEOREM PipelineWorkspace ==
    ASSUME "docker" \notin FaultKinds
    PROVE  Spec => []WorkspaceOutlivesThread
  <1>1. Init => WorkspaceOutlivesThread
    BY DEF Init, WorkspaceOutlivesThread, Busy, NoThread
  <1>2. IInv /\ WorkspaceOutlivesThread /\ [Next]_vars => WorkspaceOutlivesThread'
    BY WorkspaceStep
  <1> QED BY <1>1, <1>2, PipelineInvariant, PTL DEF Spec

(***************************************************************************)
(* Refinement: whatever the API, the workers and the sweep do to each      *)
(* other, the rows and the audit trails change as the lifecycle says.      *)
(***************************************************************************)

\* The lifecycle's statuses, table, actors and events are the pipeline's.
LEMMA SameStates ==
    /\ Lifecycle!Status = Status /\ Lifecycle!Active = Active /\ Lifecycle!Actors = Actors
    /\ \A c, t : Lifecycle!can_transition(c, t) <=> can_transition(c, t)
    /\ \A c, t, by : Lifecycle!record_status_event(c, t, by) = record_status_event(c, t, by)
  <1>1. /\ Lifecycle!Status = Status /\ Lifecycle!Active = Active /\ Lifecycle!Actors = Actors
    BY DEF Status, Active, Actors, Lifecycle!Status, Lifecycle!Active, Lifecycle!Actors
  <1>2. Lifecycle!ALLOWED_TRANSITIONS = ALLOWED_TRANSITIONS
    BY DEF ALLOWED_TRANSITIONS, Lifecycle!ALLOWED_TRANSITIONS
  <1> QED BY <1>1, <1>2 DEF can_transition, Lifecycle!can_transition, record_status_event,
                            Lifecycle!record_status_event

\* Who may make which change (Entitled of the lifecycle)
LEMMA EntitledFacts ==
    /\ \A c : Lifecycle!Entitled("api", c, "cancelled")
    /\ Lifecycle!Entitled("api", "queued", "failed")
    /\ \A c \in Active : Lifecycle!Entitled("sweeper", c, "failed")
    /\ \A c \in Active : \A t : Lifecycle!Entitled("worker", c, t)
    /\ Lifecycle!Entitled("worker", "queued", "starting")
  BY SameStates DEF Lifecycle!Entitled

\* An allowed change of one row, recorded in its trail, is a lifecycle step.
LEMMA OneRowStep ==
    ASSUME TypeOK, TypeOK', NEW e \in Executions, NEW c, NEW t, NEW by \in Actors,
           status[e] = c, can_transition(c, t), Lifecycle!Entitled(by, c, t),
           status' = [status EXCEPT ![e] = t],
           events' = [events EXCEPT ![e] = Append(@, record_status_event(c, t, by))]
    PROVE  Lifecycle!Next
  <1>1. Lifecycle!Change({e}, by)
    <2>1. status' \in [Executions -> Status \union {"none"}]
      BY DEF TypeOK
    <2>2. \A x \in Executions \ {e} : status'[x] = status[x]
      BY DEF TypeOK
    <2>3. status'[e] = t
      BY DEF TypeOK
    <2>4. events' = [x \in Executions |->
                       IF x \in {e}
                       THEN Append(events[x], record_status_event(status[x], status'[x], by))
                       ELSE events[x]]
      BY <2>3 DEF TypeOK
    <2> QED BY SameStates, <2>1, <2>2, <2>3, <2>4 DEF Lifecycle!Change
  <1> QED BY <1>1, SameStates DEF Lifecycle!Next

LEMMA ChangeIsStep ==
    ASSUME TypeOK, TypeOK', NEW e \in Executions, NEW c, NEW t, NEW by \in Actors,
           ChangeStatus(e, c, t, by), Lifecycle!Entitled(by, c, t)
    PROVE  Lifecycle!Next
  BY OneRowStep DEF ChangeStatus, CanChange

\* Every step of the pipeline is a step of the lifecycle, or changes no row.
LEMMA StepRefines ==
    ASSUME IInv, TypeOK', Next
    PROVE  Lifecycle!Next \/ UNCHANGED <<status, events>>
  <1>0. TypeOK /\ RowInv /\ ClaimInv /\ {"api", "worker", "sweeper"} = Actors
    BY DEF IInv, Actors
  <1>1. ASSUME NEW e \in Executions, StartCommit(e) PROVE Lifecycle!Next
    <2>1. Lifecycle!Create(e)
      BY <1>0, <1>1, SameStates DEF StartCommit, RowInv, Lifecycle!Create
    <2> QED BY <2>1 DEF Lifecycle!Next
  <1>2. ASSUME NEW e \in Executions, StartCompensate(e)
        PROVE  Lifecycle!Next \/ UNCHANGED <<status, events>>
    BY <1>0, <1>2, ChangeIsStep, EntitledFacts DEF StartCompensate
  <1>3. ASSUME NEW e \in Executions, CancelWrite(e)
        PROVE  Lifecycle!Next \/ UNCHANGED <<status, events>>
    <2>1. ChangeStatus(e, cancelseen[e], "cancelled", "api") \/ UNCHANGED <<status, events>>
      BY <1>3 DEF CancelWrite
    <2> QED BY <1>0, <2>1, ChangeIsStep, EntitledFacts
  <1>4. ASSUME NEW w \in Workers, WorkerClaim(w)
        PROVE  Lifecycle!Next \/ UNCHANGED <<status, events>>
    <2>1. job[w] \in Executions /\ can_transition("queued", "starting")
      BY <1>0, <1>4, ClaimRow DEF can_transition, ALLOWED_TRANSITIONS, Status
    <2>2. CASE status[job[w]] = "queued"
      <3>1. /\ status' = [status EXCEPT ![job[w]] = "starting"]
            /\ events' = [events EXCEPT ![job[w]] =
                            Append(@, record_status_event("queued", "starting", "worker"))]
        BY <1>4, <2>2 DEF WorkerClaim
      <3> QED BY <1>0, <2>1, <2>2, <3>1, OneRowStep, EntitledFacts
    <2>3. CASE status[job[w]] # "queued"
      BY <1>4, <2>3 DEF WorkerClaim
    <2> QED BY <2>2, <2>3
  <1>5. ASSUME NEW w \in Workers, WorkerWrite(w)
        PROVE  Lifecycle!Next \/ UNCHANGED <<status, events>>
    <2>1. CASE ChangeStatus(job[w], seen[w], Transition[wpc[w]].target, "worker")
      <3>1. job[w] \in Executions /\ wpc[w] \in TransitionPcs
        BY <1>0, <1>5, WriteRow
      <3>2. seen[w] = status[job[w]] /\ seen[w] \notin Finished
        BY <1>0, <2>1, <3>1, ChangeRow, CanTransition
      <3>3. seen[w] \in Active
        BY <1>0, <3>1, <3>2, TransitionTable DEF ClaimInv, ClaimOf, Claimed, StageOK, Active
      <3> QED BY <1>0, <2>1, <3>1, <3>3, ChangeIsStep, EntitledFacts
    <2> QED BY <1>0, <1>5, <2>1, WriteRow
  <1>6. ASSUME SweepWrite PROVE Lifecycle!Next
    <2>1. Lifecycle!Change(changed', "sweeper")
      <3>1. status' \in [Executions -> Status \union {"none"}] /\ changed' \subseteq Executions
        BY DEF TypeOK
      <3>2. ASSUME NEW e \in Executions
            PROVE  /\ e \notin changed' => status'[e] = status[e]
                   /\ e \in changed' => /\ status[e] = picked[e] /\ status'[e] = "failed"
                                        /\ can_transition(status[e], status'[e])
                                        /\ Lifecycle!Entitled("sweeper", status[e], status'[e])
        <4>1. \/ /\ e \in changed' /\ status[e] = picked[e] /\ status'[e] = "failed"
                 /\ can_transition(status[e], "failed")
              \/ e \notin changed' /\ status'[e] = status[e]
          BY <1>0, <1>6, SweepRows
        <4>2. picked[e] \in Active \union {"none"}
          BY <1>0 DEF RowInv
        <4> QED BY <4>1, <4>2, EntitledFacts, CanTransition
      <3>3. events' = [e \in Executions |->
                         IF e \in changed'
                         THEN Append(events[e], record_status_event(status[e], status'[e], "sweeper"))
                         ELSE events[e]]
        BY <1>6, <3>2 DEF SweepWrite
      <3> QED BY SameStates, <3>1, <3>2, <3>3 DEF Lifecycle!Change
    <2> QED BY <1>0, <2>1, SameStates DEF Lifecycle!Next, TypeOK
  <1>7. ASSUME NEW e \in Executions,
               \/ StartEnqueue(e) \/ StartAnnounce(e) \/ StartRemove(e) \/ StartEnqueueFails(e)
               \/ CancelRead(e) \/ CancelRemove(e) \/ CancelSignal(e) \/ CancelPublish(e)
               \/ CancelFails(e) \/ HandlerDbFails(e) \/ ThreadStep(e) \/ Age(e) \/ SweepKill(e)
               \/ SweepSignal(e)
        PROVE  UNCHANGED <<status, events>>
    BY <1>7 DEF StartEnqueue, StartAnnounce, StartRemove, StartEnqueueFails, CancelRead, CancelRemove,
                CancelSignal, CancelPublish, CancelFails, HandlerDbFails, ThreadStep, ThreadCreate, ThreadWaitRun,
                ThreadWaitBuild, ThreadRemove, Age, SweepKill, SweepSignal
  <1>8. ASSUME NEW w \in Workers,
               \/ WorkerScan(w) \/ WorkerTake(w) \/ WorkerRead(w) \/ WorkerPublish(w)
               \/ WorkerSubscribe(w) \/ WorkerRecheck(w) \/ WorkerMount(w) \/ WorkerLaunch(w)
               \/ WorkerJoin(w) \/ WorkerKill(w) \/ WorkerCleanup(w) \/ WorkerListen(w)
               \/ WorkerDeaf(w) \/ WorkerPublishFails(w) \/ WorkerDbFails(w) \/ WorkerKillFails(w)
               \/ WorkerCrash(w) \/ WorkerTakeFails(w)
        PROVE  UNCHANGED <<status, events>>
    BY <1>8 DEF WorkerScan, WorkerTake, WorkerRead, WorkerPublish, WorkerSubscribe, WorkerRecheck,
                WorkerMount, WorkerLaunch, WorkerJoin, WorkerKill, WorkerCleanup, WorkerListen,
                WorkerDeaf, WorkerPublishFails, WorkerDbFails, WorkerKillFails, WorkerCrash,
                WorkerTakeFails
  <1>9. ASSUME SweepSelect \/ SweepList \/ SweepQuery \/ SweepDone \/ SweepDbFails \/ BackendCrash
        PROVE  UNCHANGED <<status, events>>
    BY <1>9 DEF SweepSelect, SweepList, SweepQuery, SweepDone, SweepDbFails, BackendCrash
  <1> QED BY <1>1, <1>2, <1>3, <1>4, <1>5, <1>6, <1>7, <1>8, <1>9
          DEF Next, StartStep, CancelStep, WorkerStep, SweepStep

\* The pipeline implements the lifecycle: the compare-and-set of change_status,
\* the worker's claim, the compensation of an undelivered run and the sweep's
\* transaction never make a change the table, or the actor, does not allow, and
\* record each one.
THEOREM PipelineImplementsLifecycle == Spec => ImplementsLifecycle
  <1>1. Init => Lifecycle!Init
    BY DEF Init, Lifecycle!Init
  <1>2. IInv /\ IInv' /\ [Next]_vars => [Lifecycle!Next]_(Lifecycle!vars)
    <2> SUFFICES ASSUME IInv, IInv', [Next]_vars PROVE [Lifecycle!Next]_(Lifecycle!vars)
      OBVIOUS
    <2>1. CASE Next
      BY <2>1, StepRefines DEF IInv, Lifecycle!vars
    <2>2. CASE UNCHANGED vars
      BY <2>2 DEF vars, Lifecycle!vars
    <2> QED BY <2>1, <2>2
  <1> QED BY <1>1, <1>2, PipelineInvariant, PTL DEF Spec, ImplementsLifecycle, Lifecycle!Spec

\* The outcome a console shows stays (applyRunEvent refuses a late status, and
\* what is published as finished is what is recorded).
THEOREM PipelineConsoleKeeps == Spec => ConsoleKeepsOutcome
  <1>1. IInv /\ IInv' /\ [Next]_vars =>
          [\A e \in Executions : shown[e] \in Finished => shown'[e] = shown[e]]_shown
    <2> SUFFICES ASSUME IInv, IInv', [Next]_vars, NEW e \in Executions, shown[e] \in Finished
                 PROVE  shown'[e] = shown[e]
      OBVIOUS
    <2>1. status[e] = shown[e]
      BY DEF IInv, ShownInv, ShownFinishedIsRecorded
    <2>2. status'[e] = status[e]
      BY <2>1, FinishedStays DEF IInv, vars
    <2>3. shown'[e] \in Finished => shown'[e] = status'[e]
      BY DEF IInv, ShownInv, ShownFinishedIsRecorded
    <2>4. shown'[e] \in Finished \/ shown'[e] = shown[e]
      <3>1. CASE UNCHANGED shown
        BY <3>1
      <3>2. ASSUME NEW x \in Executions, NEW s, applyRunEvent(x, s) PROVE shown'[e] \in Finished
        BY <3>2 DEF applyRunEvent, IInv, TypeOK
      <3>3. ASSUME NEW x \in Executions, StartAnnounce(x) PROVE shown'[e] = shown[e]
        BY <3>3 DEF StartAnnounce, IInv, TypeOK, Finished
      <3>4. ASSUME NEW w \in Workers, WorkerPublish(w) PROVE shown'[e] \in Finished
        <4>1. job[w] \in Executions
          BY <3>4, PublishTable DEF WorkerPublish, IInv, ClaimInv, ClaimOf
        <4> QED BY <3>2, <3>4, <4>1 DEF WorkerPublish
      <3>5. ASSUME NEW x \in Executions, CancelPublish(x) PROVE shown'[e] \in Finished
        BY <3>2, <3>5 DEF CancelPublish
      <3>6. ASSUME NEW x \in Executions,
                   \/ StartCommit(x) \/ StartEnqueue(x) \/ StartCompensate(x) \/ StartRemove(x)
                   \/ StartEnqueueFails(x) \/ CancelRead(x) \/ CancelWrite(x) \/ CancelRemove(x)
                   \/ CancelSignal(x) \/ CancelFails(x) \/ HandlerDbFails(x) \/ ThreadStep(x) \/ Age(x) \/ SweepKill(x)
                   \/ SweepSignal(x)
            PROVE  UNCHANGED shown
        BY <3>6 DEF StartCommit, StartEnqueue, StartCompensate, StartRemove, StartEnqueueFails, CancelRead,
                    CancelWrite, CancelRemove, CancelSignal, CancelFails, HandlerDbFails, ThreadStep, ThreadCreate,
                    ThreadWaitRun, ThreadWaitBuild, ThreadRemove, Age, SweepKill, SweepSignal
      <3>7. ASSUME NEW w \in Workers,
                   \/ WorkerScan(w) \/ WorkerTake(w) \/ WorkerClaim(w) \/ WorkerRead(w) \/ WorkerWrite(w)
                   \/ WorkerSubscribe(w) \/ WorkerRecheck(w) \/ WorkerMount(w) \/ WorkerLaunch(w)
                   \/ WorkerJoin(w) \/ WorkerKill(w) \/ WorkerCleanup(w) \/ WorkerListen(w)
                   \/ WorkerDeaf(w) \/ WorkerTakeFails(w) \/ WorkerDbFails(w) \/ WorkerKillFails(w)
                   \/ WorkerCrash(w)
            PROVE  UNCHANGED shown
        BY <3>7 DEF WorkerScan, WorkerTake, WorkerClaim, WorkerRead, WorkerWrite, WorkerSubscribe,
                    WorkerRecheck, WorkerMount, WorkerLaunch, WorkerJoin, WorkerKill, WorkerCleanup,
                    WorkerListen, WorkerDeaf, WorkerTakeFails, WorkerDbFails, WorkerKillFails,
                    WorkerCrash
      <3>8. ASSUME \/ SweepSelect \/ SweepWrite \/ SweepList \/ SweepQuery \/ SweepDone \/ SweepDbFails
                   \/ BackendCrash \/ UNCHANGED vars
            PROVE  UNCHANGED shown
        BY <3>8 DEF SweepSelect, SweepWrite, SweepList, SweepQuery, SweepDone, SweepDbFails,
                    BackendCrash, vars
      <3>9. ASSUME NEW w \in Workers, WorkerPublishFails(w)
            PROVE  shown'[e] \in Finished \/ shown'[e] = shown[e]
        <4>1. job[w] \in Executions
          BY <3>9, PublishTable DEF WorkerPublishFails, IInv, ClaimInv, ClaimOf
        <4> QED BY <3>2, <3>9, <4>1 DEF WorkerPublishFails
      <3> QED BY <3>1, <3>3, <3>4, <3>5, <3>6, <3>7, <3>8, <3>9
              DEF Next, StartStep, CancelStep, WorkerStep, SweepStep
    <2> QED BY <2>1, <2>2, <2>3, <2>4
  <1> QED BY <1>1, PipelineInvariant, PTL DEF Spec, ConsoleKeepsOutcome

(***************************************************************************)
(* The lifecycle, and what the pipeline inherits from it                   *)
(***************************************************************************)

\* A change allowed by the table never starts from a finished status, nor from
\* a row that does not exist, and leads to a status of the table.
LEMMA TransitionFacts ==
    ASSUME NEW c, NEW t, Lifecycle!can_transition(c, t)
    PROVE  c \in Lifecycle!Status \ Lifecycle!Finished /\ t \in Lifecycle!Status
  BY DEF Lifecycle!can_transition, Lifecycle!ALLOWED_TRANSITIONS, Lifecycle!Status, Lifecycle!Finished

\* Types: the rows hold statuses and the trails hold events.
LEMMA LifecycleInitType == Lifecycle!Init => Lifecycle!TypeOK
  BY DEF Lifecycle!Init, Lifecycle!TypeOK, Lifecycle!Status, Lifecycle!Event

LEMMA LifecycleStepType == Lifecycle!TypeOK /\ [Lifecycle!Next]_(Lifecycle!vars) => Lifecycle!TypeOK'
  <1> SUFFICES ASSUME Lifecycle!TypeOK, [Lifecycle!Next]_(Lifecycle!vars) PROVE Lifecycle!TypeOK'
    OBVIOUS
  <1>1. CASE UNCHANGED Lifecycle!vars
    BY <1>1 DEF Lifecycle!vars, Lifecycle!TypeOK
  <1>2. ASSUME NEW e \in Executions, Lifecycle!Create(e) PROVE Lifecycle!TypeOK'
    <2>1. Lifecycle!record_status_event("none", "queued", "api") \in Lifecycle!Event
      BY DEF Lifecycle!record_status_event, Lifecycle!Event, Lifecycle!Status, Lifecycle!Actors
    <2>2. <<Lifecycle!record_status_event("none", "queued", "api")>> \in Seq(Lifecycle!Event)
      BY <2>1
    <2> QED BY <1>2, <2>2 DEF Lifecycle!Create, Lifecycle!TypeOK, Lifecycle!Status
  <1>3. ASSUME NEW E \in SUBSET Executions, NEW by \in Lifecycle!Actors, Lifecycle!Change(E, by) PROVE Lifecycle!TypeOK'
    <2>1. status' \in [Executions -> Lifecycle!Status \union {"none"}]
      BY <1>3 DEF Lifecycle!Change
    <2>2. ASSUME NEW e \in Executions PROVE events'[e] \in Seq(Lifecycle!Event)
      <3>1. CASE e \in E
        <4>1. status[e] \in Lifecycle!Status /\ status'[e] \in Lifecycle!Status
          BY <1>3, <3>1, TransitionFacts DEF Lifecycle!Change
        <4>2. Lifecycle!record_status_event(status[e], status'[e], by) \in Lifecycle!Event
          BY <4>1 DEF Lifecycle!record_status_event, Lifecycle!Event
        <4>3. events'[e] = Append(events[e], Lifecycle!record_status_event(status[e], status'[e], by))
          BY <1>3, <3>1 DEF Lifecycle!Change
        <4> QED BY <4>2, <4>3 DEF Lifecycle!TypeOK
      <3>2. CASE e \notin E
        BY <1>3, <3>2 DEF Lifecycle!Change, Lifecycle!TypeOK
      <3> QED BY <3>1, <3>2
    <2> QED BY <1>3, <2>1, <2>2 DEF Lifecycle!Change, Lifecycle!TypeOK
  <1> QED BY <1>1, <1>2, <1>3 DEF Lifecycle!Next

\* What AuditTrailOK says of one execution
TrailOK(s, trail) ==
    /\ s = Lifecycle!Outcome(trail)
    /\ \A i \in 1..Len(trail) :
          IF i = 1 THEN trail[i] = Lifecycle!record_status_event("none", "queued", "api")
                   ELSE /\ trail[i].from = trail[i-1].to
                        /\ Lifecycle!can_transition(trail[i].from, trail[i].to)
                        /\ Lifecycle!Entitled(trail[i].by, trail[i].from, trail[i].to)

\* Appending the event of an allowed, entitled change keeps a trail exact.
LEMMA TrailGrows ==
    ASSUME NEW s, NEW t, NEW by, NEW trail \in Seq(Lifecycle!Event),
           TrailOK(s, trail), Lifecycle!can_transition(s, t), Lifecycle!Entitled(by, s, t)
    PROVE  TrailOK(t, Append(trail, Lifecycle!record_status_event(s, t, by)))
  <1> DEFINE ev  == Lifecycle!record_status_event(s, t, by)
             new == Append(trail, ev)
  <1>1. s \in Lifecycle!Status
    BY TransitionFacts
  <1>2. trail # <<>> /\ s = trail[Len(trail)].to
    BY <1>1 DEF TrailOK, Lifecycle!Outcome, Lifecycle!Status
  <1>3. Len(trail) \in Nat \ {0}
    BY <1>2
  <1>4. /\ Len(new) = Len(trail) + 1
        /\ \A i \in 1..Len(trail) : new[i] = trail[i]
        /\ new[Len(trail) + 1] = ev
    OBVIOUS
  <1>5. /\ ev.from = s /\ ev.to = t /\ ev.by = by
    BY DEF Lifecycle!record_status_event
  <1>6. new # <<>>
    BY <1>3, <1>4
  <1>7. t = Lifecycle!Outcome(new)
    BY <1>4, <1>5, <1>6 DEF Lifecycle!Outcome
  <1>8. ASSUME NEW i \in 1..Len(new)
        PROVE  IF i = 1 THEN new[i] = Lifecycle!record_status_event("none", "queued", "api")
                        ELSE /\ new[i].from = new[i-1].to
                             /\ Lifecycle!can_transition(new[i].from, new[i].to)
                             /\ Lifecycle!Entitled(new[i].by, new[i].from, new[i].to)
    <2>1. CASE i \in 1..Len(trail)
      <3>1. CASE i = 1
        BY <2>1, <3>1, <1>4 DEF TrailOK
      <3>2. CASE i # 1
        <4>1. i - 1 \in 1..Len(trail) /\ new[i] = trail[i] /\ new[i-1] = trail[i-1]
          BY <2>1, <3>2, <1>3, <1>4
        <4> QED BY <2>1, <3>2, <4>1 DEF TrailOK
      <3> QED BY <3>1, <3>2
    <2>2. CASE i = Len(trail) + 1
      <3>1. i # 1 /\ i - 1 = Len(trail) /\ Len(trail) \in 1..Len(trail)
        BY <2>2, <1>3
      <3>2. new[i] = ev /\ new[i-1] = trail[Len(trail)]
        BY <2>2, <3>1, <1>4
      <3> QED BY <3>1, <3>2, <1>2, <1>5
    <2> QED BY <2>1, <2>2, <1>3, <1>4
  <1> QED BY <1>7, <1>8 DEF TrailOK

LEMMA TrailPointwise == Lifecycle!AuditTrailOK <=> \A e \in Executions : TrailOK(status[e], events[e])
  BY DEF Lifecycle!AuditTrailOK, TrailOK

LEMMA TrailPointwiseNext ==
    Lifecycle!AuditTrailOK' <=> \A e \in Executions : TrailOK(status'[e], events'[e])
  BY DEF Lifecycle!AuditTrailOK, TrailOK

\* The trail of every execution records exactly the changes its row made
\* (record_status_event in the transaction of every change).
THEOREM LifecycleAudit == Lifecycle!Spec => []Lifecycle!AuditTrailOK
  <1>1. Lifecycle!Init => Lifecycle!TypeOK /\ Lifecycle!AuditTrailOK
    <2>1. Lifecycle!Init => Lifecycle!AuditTrailOK
      BY DEF Lifecycle!Init, Lifecycle!AuditTrailOK, Lifecycle!Outcome
    <2> QED BY <2>1, LifecycleInitType
  <1>2. Lifecycle!TypeOK /\ Lifecycle!AuditTrailOK /\ [Lifecycle!Next]_(Lifecycle!vars) => Lifecycle!AuditTrailOK'
    <2> SUFFICES ASSUME Lifecycle!TypeOK, Lifecycle!AuditTrailOK, [Lifecycle!Next]_(Lifecycle!vars),
                        NEW e \in Executions
                 PROVE  TrailOK(status'[e], events'[e])
      BY TrailPointwiseNext
    <2>0. TrailOK(status[e], events[e])
      BY TrailPointwise
    <2>1. CASE UNCHANGED Lifecycle!vars
      BY <2>0, <2>1 DEF Lifecycle!vars
    <2>2. ASSUME NEW x \in Executions, Lifecycle!Create(x) PROVE TrailOK(status'[e], events'[e])
      <3>1. CASE e = x
        <4>1. status'[e] = "queued" /\ events'[e] = <<Lifecycle!record_status_event("none", "queued", "api")>>
          BY <2>2, <3>1 DEF Lifecycle!Create, Lifecycle!TypeOK
        <4> QED BY <4>1 DEF TrailOK, Lifecycle!Outcome, Lifecycle!record_status_event
      <3>2. CASE e # x
        <4>1. status'[e] = status[e] /\ events'[e] = events[e]
          BY <2>2, <3>2 DEF Lifecycle!Create, Lifecycle!TypeOK
        <4> QED BY <4>1, <2>0
      <3> QED BY <3>1, <3>2
    <2>3. ASSUME NEW E \in SUBSET Executions, NEW by \in Lifecycle!Actors, Lifecycle!Change(E, by)
          PROVE  TrailOK(status'[e], events'[e])
      <3>1. CASE e \in E
        <4>1. /\ events'[e] = Append(events[e], Lifecycle!record_status_event(status[e], status'[e], by))
              /\ Lifecycle!can_transition(status[e], status'[e])
              /\ Lifecycle!Entitled(by, status[e], status'[e])
          BY <2>3, <3>1 DEF Lifecycle!Change
        <4>2. events[e] \in Seq(Lifecycle!Event)
          BY DEF Lifecycle!TypeOK
        <4> QED BY <2>0, <4>1, <4>2, TrailGrows
      <3>2. CASE e \notin E
        <4>1. status'[e] = status[e] /\ events'[e] = events[e]
          BY <2>3, <3>2 DEF Lifecycle!Change
        <4> QED BY <4>1, <2>0
      <3> QED BY <3>1, <3>2
    <2> QED BY <2>1, <2>2, <2>3 DEF Lifecycle!Next
  <1> QED BY <1>1, <1>2, LifecycleStepType, PTL DEF Lifecycle!Spec

\* An exact trail has no event after a finished one.
LEMMA AuditGivesOnce == Lifecycle!TypeOK /\ Lifecycle!AuditTrailOK => Lifecycle!FinishesOnce
  <1> SUFFICES ASSUME Lifecycle!TypeOK, Lifecycle!AuditTrailOK, NEW e \in Executions,
                      NEW i \in 1..Len(events[e]),
                      events[e][i].to \in Lifecycle!Finished, i # Len(events[e])
               PROVE  FALSE
    BY DEF Lifecycle!FinishesOnce
  <1>1. Len(events[e]) \in Nat
    BY DEF Lifecycle!TypeOK
  <1>2. i + 1 \in 1..Len(events[e]) /\ i + 1 # 1 /\ (i + 1) - 1 = i
    BY <1>1
  <1>3. /\ events[e][i + 1].from = events[e][i].to
        /\ Lifecycle!can_transition(events[e][i + 1].from, events[e][i + 1].to)
    BY <1>2 DEF Lifecycle!AuditTrailOK
  <1> QED BY <1>3, TransitionFacts

\* An execution finishes at most once, and nothing is recorded after it has.
THEOREM LifecycleFinishesOnce == Lifecycle!Spec => []Lifecycle!FinishesOnce
  <1>1. Lifecycle!Spec => []Lifecycle!TypeOK
    BY LifecycleInitType, LifecycleStepType, PTL DEF Lifecycle!Spec
  <1> QED BY <1>1, LifecycleAudit, AuditGivesOnce, PTL

\* What the lifecycle promises of the audit trail holds of the trail that the
\* API, the workers and the sweep write (record_status_event).
THEOREM PipelineAudit == Spec => []AuditTrailOK
  <1> QED BY PipelineImplementsLifecycle, LifecycleAudit, PTL DEF ImplementsLifecycle, AuditTrailOK

\* A run finishes once, whoever ends it.
THEOREM PipelineFinishesOnce == Spec => []FinishesOnce
  <1> QED BY PipelineImplementsLifecycle, LifecycleFinishesOnce, PTL DEF ImplementsLifecycle, FinishesOnce

(***************************************************************************)
(* The queue in detail.  Whatever the scores, the number of workers and    *)
(* the order of their steps, no waiting run is handed out twice and none   *)
(* is passed by one that its wait outweighs.                               *)
(***************************************************************************)

\* A worker that looks at the hash has looks left.
LooksLeft ==
    \A w \in Consumers : place[w] \in {"scan", "take"} => attempts[w] < MAX_DEQUEUE_ATTEMPTS

\* What does not wait has no age.
AgeIsWaiting == \A r \in Runs : r \notin meta => age[r] = 0

QInv == QueueTypeOK /\ LooksLeft /\ NoSlotTwice

\* A request is never made while a worker holds its run, so it stays unique.
LEMMA EnqueueKeeps ==
    ASSUME QInv, NEW r \in Runs, EnqueueHset(r) PROVE QInv'
<1>1. QueueTypeOK'
  BY QueueAssumption DEF QInv, QueueTypeOK, EnqueueHset
<1>2. LooksLeft'
  BY DEF QInv, LooksLeft, EnqueueHset
<1>3. NoSlotTwice'
  BY DEF QInv, NoSlotTwice, EnqueueHset, Held
<1>4. QED
  BY <1>1, <1>2, <1>3 DEF QInv

\* The step that hands a run out: of the workers that selected it, the one whose
\* HDEL found it gets it, and no running worker has a run that still waits.
LEMMA TakeKeeps ==
    ASSUME QInv, NEW w \in Consumers, Take(w) PROVE QInv'
<1> USE QueueAssumption DEF QInv
<1>0. meta' \subseteq Runs /\ age' \in [Runs -> 0..Saturation]
  <2>1. meta' = meta \ {best[w]} /\ age' = [age EXCEPT ![best[w]] = 0]
    BY DEF Take
  <2>2. 0 \in 0..Saturation
    OBVIOUS
  <2>3. QED
    BY <2>1, <2>2 DEF QueueTypeOK
<1>1. CASE TakeWon(w) /\ place' = [place EXCEPT ![w] = "run"] /\ UNCHANGED <<best, attempts>>
  <2>1. QueueTypeOK'
    <3>1. UNCHANGED <<enqueuing, requested, notify>>
      BY DEF Take
    <3>2. place' \in [Consumers -> {"block", "scan", "take", "run"}]
      BY <1>1 DEF QueueTypeOK
    <3>3. QED
      BY <1>0, <1>1, <3>1, <3>2 DEF QueueTypeOK
  <2>2. LooksLeft'
    BY <1>1 DEF QueueTypeOK, LooksLeft
  <2>3. best[w] \in meta /\ meta' = meta \ {best[w]}
    BY <1>1 DEF TakeWon, Take
  <2>4. NoSlotTwice'
    BY <1>1, <2>3 DEF QueueTypeOK, NoSlotTwice
  <2>5. QED
    BY <2>1, <2>2, <2>4
<1>2. CASE ~TakeWon(w)
  <2>1. /\ best' = [best EXCEPT ![w] = NoRun]
        /\ attempts' = [attempts EXCEPT ![w] = @ + 1]
        /\ place' = [place EXCEPT ![w] = IF GiveUp(w) THEN "block" ELSE "scan"]
        /\ place[w] = "take"
    BY <1>2 DEF Take
  <2>2. attempts[w] < MAX_DEQUEUE_ATTEMPTS /\ attempts[w] \in Nat
    BY <2>1 DEF LooksLeft, QueueTypeOK
  <2>3. QueueTypeOK'
    <3>1. attempts' \in [Consumers -> 0..MAX_DEQUEUE_ATTEMPTS]
      BY <2>1, <2>2 DEF QueueTypeOK
    <3>2. /\ best' \in [Consumers -> Runs \union {NoRun}]
          /\ place' \in [Consumers -> {"block", "scan", "take", "run"}]
      BY <2>1 DEF QueueTypeOK
    <3>3. UNCHANGED <<enqueuing, requested, notify>>
      BY DEF Take
    <3>4. QED
      BY <1>0, <3>1, <3>2, <3>3 DEF QueueTypeOK
  <2>4. LooksLeft'
    BY <2>1, <2>2 DEF QueueTypeOK, LooksLeft, GiveUp
  <2>5. NoSlotTwice'
    BY <2>1 DEF QueueTypeOK, NoSlotTwice, Take
  <2>6. QED
    BY <2>3, <2>4, <2>5
<1>3. QED
  BY <1>1, <1>2 DEF Take

\* The other steps of a worker and of the environment.
LEMMA OthersKeep ==
    ASSUME QInv,
           \/ \E r \in Runs : EnqueueLpush(r) \/ LpushLost(r) \/ Remove(r)
           \/ \E w \in Consumers : Block(w) \/ Scan(w) \/ Finish(w)
           \/ Tick
           \/ UNCHANGED queueVars
    PROVE  QInv'
<1> USE QueueAssumption DEF QInv, QueueTypeOK, LooksLeft, NoSlotTwice
<1>1. ASSUME NEW r \in Runs, EnqueueLpush(r) \/ LpushLost(r) PROVE QInv'
  BY <1>1 DEF EnqueueLpush, LpushLost
<1>2. ASSUME NEW r \in Runs, Remove(r) PROVE QInv'
  BY <1>2 DEF Remove
<1>3. ASSUME NEW w \in Consumers, Block(w) PROVE QInv'
  BY <1>3 DEF Block, Wake
<1>4. ASSUME NEW w \in Consumers, Scan(w) PROVE QInv'
  BY <1>4 DEF Scan
<1>5. ASSUME NEW w \in Consumers, Finish(w) PROVE QInv'
  BY <1>5 DEF Finish
<1>6. CASE Tick
  BY <1>6 DEF Tick
<1>7. CASE UNCHANGED queueVars
  BY <1>7 DEF queueVars
<1>8. QED
  BY <1>1, <1>2, <1>3, <1>4, <1>5, <1>6, <1>7

(* Scores *)

LEMMA Scaled ==
    ASSUME NEW k \in Nat, NEW x \in Nat, NEW y \in Nat, x <= y
    PROVE  k * x \in Nat /\ k * y \in Nat /\ k * x <= k * y
<1>1. PICK d \in Nat : y = x + d
  <2>1. y - x \in Nat /\ y = x + (y - x)
    OBVIOUS
  <2> QED BY <2>1
<1>2. k * x \in Nat /\ k * d \in Nat /\ k * y \in Nat
  OBVIOUS
<1>3. k * y = k * x + k * d
  BY <1>1
<1> QED BY <1>2, <1>3

LEMMA Strictly ==
    ASSUME NEW k \in Nat \ {0}, NEW x \in Nat, NEW y \in Nat, x < y
    PROVE  k * x < k * y
<1>1. PICK d \in Nat \ {0} : y = x + d
  <2>1. y - x \in Nat \ {0} /\ y = x + (y - x)
    OBVIOUS
  <2> QED BY <2>1
<1>2. k * d \in Nat /\ k * d > 0
  OBVIOUS
<1>3. k * y = k * x + k * d /\ k * x \in Nat
  BY <1>1
<1> QED BY <1>2, <1>3

\* Twice the score is twice MaxRank times what is compared here, and at most a role
\* and a half and a penalty more.
LEMMA ScoreBounds ==
    ASSUME NEW r \in Runs, age[r] \in Nat
    PROVE  /\ compute_priority(r) \in Nat
           /\ MaxRank * (2 * WaitWeight * age[r]) <= compute_priority(r)
           /\ compute_priority(r) <= MaxRank * (2 * WaitWeight * age[r] + Saturation * (3 * RoleWeight + 2 * LangPenalty))
<1> DEFINE k == RoleWeight * Saturation
           x == 2 * Rank[r] + IF r \in DebugRuns THEN MaxRank ELSE 0
           p == IF r \in CppRuns THEN 0 ELSE LangPenalty * Scale
           n == WaitWeight * 2 * MaxRank * age[r]
<1>1. /\ RoleWeight \in Nat /\ WaitWeight \in Nat /\ LangPenalty \in Nat /\ Saturation \in Nat /\ MaxRank \in Nat
      /\ Rank[r] \in 0..MaxRank
  BY QueueAssumption
<1>2. k \in Nat /\ x \in Nat /\ 3 * MaxRank \in Nat /\ x <= 3 * MaxRank
  BY <1>1
<1>3. Scale = 2 * MaxRank * Saturation /\ Scale \in Nat
  BY <1>1 DEF Scale
<1>4. LangPenalty * Scale \in Nat
  BY <1>1, <1>3
<1>5. p \in Nat /\ p <= LangPenalty * Scale
  BY <1>4
<1>6. n \in Nat /\ n = MaxRank * (2 * WaitWeight * age[r])
  <2>1. WaitWeight * 2 * MaxRank \in Nat /\ 2 * WaitWeight * age[r] \in Nat
    BY <1>1
  <2>2. n \in Nat
    BY <2>1
  <2> QED BY <1>1, <2>2
<1>7. compute_priority(r) = k * x + n + p
  BY DEF compute_priority
<1>8. k * x \in Nat /\ k * (3 * MaxRank) \in Nat /\ k * x <= k * (3 * MaxRank)
  <2> HIDE DEF k, x
  <2> QED BY <1>2, Scaled
<1>9. k * (3 * MaxRank) + LangPenalty * Scale = MaxRank * (Saturation * (3 * RoleWeight + 2 * LangPenalty))
  BY <1>1, <1>3
<1>10. MaxRank * (2 * WaitWeight * age[r] + Saturation * (3 * RoleWeight + 2 * LangPenalty))
         = n + MaxRank * (Saturation * (3 * RoleWeight + 2 * LangPenalty))
  BY <1>1, <1>6
<1> HIDE DEF k, x, p, n
<1>11. k * x + n + p \in Nat
  BY <1>5, <1>6, <1>8
<1>12. n <= k * x + n + p
  BY <1>5, <1>6, <1>8
<1>13. k * x + n + p <= n + (k * (3 * MaxRank) + LangPenalty * Scale)
  BY <1>4, <1>5, <1>6, <1>8
<1> QED BY <1>6, <1>7, <1>9, <1>10, <1>11, <1>12, <1>13

\* Who outweighs another outscores it, whatever roles and languages they are of.
LEMMA Outscored ==
    ASSUME NEW r \in Runs, NEW q \in Runs, age[r] \in Nat, age[q] \in Nat, Outweighs(age[r], age[q])
    PROVE  compute_priority(q) < compute_priority(r)
<1> DEFINE a == 2 * WaitWeight * age[r]
           b == 2 * WaitWeight * age[q] + Saturation * (3 * RoleWeight + 2 * LangPenalty)
<1>1. MaxRank \in Nat \ {0} /\ WaitWeight \in Nat /\ Saturation \in Nat /\ RoleWeight \in Nat /\ LangPenalty \in Nat
  BY QueueAssumption
<1>2. a \in Nat /\ b \in Nat /\ b < a
  <2>1. 2 * WaitWeight \in Nat /\ 3 * RoleWeight + 2 * LangPenalty \in Nat
    BY <1>1
  <2>2. a \in Nat /\ 2 * WaitWeight * age[q] \in Nat /\ Saturation * (3 * RoleWeight + 2 * LangPenalty) \in Nat
    BY <1>1, <2>1
  <2>3. b < a
    BY <2>2 DEF Outweighs
  <2> QED BY <2>2, <2>3
<1>3. /\ compute_priority(r) \in Nat /\ compute_priority(q) \in Nat
      /\ MaxRank * a <= compute_priority(r) /\ compute_priority(q) <= MaxRank * b
  BY ScoreBounds
<1> HIDE DEF a, b
<1>4. MaxRank * b < MaxRank * a /\ MaxRank * b \in Nat /\ MaxRank * a \in Nat
  BY <1>1, <1>2, Strictly
<1> QED BY <1>3, <1>4

(* A look at the hash and the take that follows it *)

LEMMA WeightsType ==
    2 * WaitWeight \in Nat /\ Saturation * (3 * RoleWeight + 2 * LangPenalty) \in Nat /\ Saturation \in Nat
<1>1. WaitWeight \in Nat /\ Saturation \in Nat /\ 3 * RoleWeight + 2 * LangPenalty \in Nat
  BY QueueAssumption
<1> QED BY <1>1

\* Nobody outweighs a run that has waited as long.
LEMMA Older ==
    ASSUME NEW k \in Nat, NEW c \in Nat, NEW x \in Nat, NEW y \in Nat, x <= y
    PROVE  ~(k * x > k * y + c)
<1>1. k * x \in Nat /\ k * y \in Nat /\ k * x <= k * y
  BY Scaled
<1> QED BY <1>1

\* Who outweighs another did so before, if it has not gained on it.
LEMMA NoGain ==
    ASSUME NEW k \in Nat, NEW c \in Nat, NEW x \in Nat, NEW y \in Nat, NEW x1 \in Nat, NEW y1 \in Nat,
           x1 + y <= x + y1, k * x1 > k * y1 + c
    PROVE  k * x > k * y + c
<1>1. x1 + y \in Nat /\ x + y1 \in Nat
  OBVIOUS
<1>2. k * (x1 + y) <= k * (x + y1)
  BY <1>1, Scaled
<1>3. k * (x1 + y) = k * x1 + k * y /\ k * (x + y1) = k * x + k * y1
  OBVIOUS
<1>4. k * x1 \in Nat /\ k * y \in Nat /\ k * x \in Nat /\ k * y1 \in Nat
  OBVIOUS
<1> QED BY <1>2, <1>3, <1>4

FInv == QInv /\ AgeIsWaiting /\ NobodyIsPassed

\* A run that has just come has not waited.
LEMMA ComeKeeps ==
    ASSUME FInv, NEW r \in Runs, EnqueueHset(r) PROVE AgeIsWaiting' /\ NobodyIsPassed'
<1>1. /\ r \notin meta /\ ~Held(r) /\ meta' = meta \union {r} /\ UNCHANGED <<age, place, best>>
      /\ age \in [Runs -> Nat] /\ best \in [Consumers -> Runs \union {NoRun}]
  BY WeightsType DEF EnqueueHset, FInv, QInv, QueueTypeOK
<1>2. AgeIsWaiting'
  BY <1>1 DEF FInv, AgeIsWaiting
<1>3. ASSUME NEW w \in Consumers, place[w] = "take", best[w] \in meta', NEW q \in meta' PROVE ~Outweighs(age'[q], age'[best[w]])
  <2>1. best[w] \in meta /\ best[w] \in Runs
    BY <1>1, <1>3, QueueAssumption DEF Held, FInv, QInv, QueueTypeOK
  <2>2. CASE q = r
    <3>1. age[q] = 0 /\ age[best[w]] \in Nat /\ 0 <= age[best[w]]
      BY <1>1, <2>1, <2>2 DEF FInv, AgeIsWaiting
    <3>2. ~Outweighs(age[q], age[best[w]])
      BY <3>1, WeightsType, Older DEF Outweighs
    <3> QED BY <1>1, <3>2
  <2>3. CASE q # r
    <3>1. ~Outweighs(age[q], age[best[w]])
      BY <1>1, <1>3, <2>1, <2>3 DEF FInv, NobodyIsPassed
    <3> QED BY <1>1, <3>1
  <2> QED BY <2>2, <2>3
<1> QED BY <1>1, <1>2, <1>3 DEF NobodyIsPassed

\* What waits grows older together; a run at the limit is passed by none.
LEMMA AgeKeeps ==
    ASSUME FInv, Tick PROVE AgeIsWaiting' /\ NobodyIsPassed'
<1>1. /\ UNCHANGED <<meta, place, best>> /\ meta \subseteq Runs /\ age \in [Runs -> 0..Saturation] /\ Saturation \in Nat
      /\ age' = [r \in Runs |-> IF r \in meta /\ age[r] < Saturation THEN age[r] + 1 ELSE age[r]]
  BY WeightsType DEF Tick, FInv, QInv, QueueTypeOK
<1>2. AgeIsWaiting'
  BY <1>1 DEF FInv, AgeIsWaiting
<1>3. ASSUME NEW w \in Consumers, place[w] = "take", best[w] \in meta, NEW r \in meta PROVE ~Outweighs(age'[r], age'[best[w]])
  <2>0. PICK q : q = best[w]
    OBVIOUS
  <2>1. q \in meta /\ best'[w] = q /\ ~Outweighs(age[r], age[q])
    BY <1>1, <1>3, <2>0 DEF FInv, NobodyIsPassed
  <2>2. /\ age[r] \in 0..Saturation /\ age[q] \in 0..Saturation
        /\ age'[r] = IF age[r] < Saturation THEN age[r] + 1 ELSE age[r]
        /\ age'[q] = IF age[q] < Saturation THEN age[q] + 1 ELSE age[q]
    BY <1>1, <2>1
  <2>3. age[r] \in Nat /\ age[q] \in Nat /\ age'[r] \in Nat /\ age'[q] \in Nat
    BY <1>1, <2>2
  <2>4. ~Outweighs(age'[r], age'[q])
    <3>1. CASE age[q] < Saturation
      <4>1. age'[r] + age[q] <= age[r] + age'[q]
        BY <1>1, <2>2, <3>1
      <4> QED BY <2>1, <2>3, <4>1, WeightsType, NoGain DEF Outweighs
    <3>2. CASE age[q] = Saturation
      <4>1. age'[r] <= age'[q]
        BY <1>1, <2>2, <3>2
      <4> QED BY <2>3, <4>1, WeightsType, Older DEF Outweighs
    <3> QED BY <1>1, <2>2, <3>1, <3>2
  <2> QED BY <1>1, <2>0, <2>1, <2>4
<1> QED BY <1>1, <1>2, <1>3 DEF NobodyIsPassed

\* Of what the hash held, the best was chosen.
LEMMA LookKeeps ==
    ASSUME FInv, NEW v \in Consumers, Scan(v) PROVE AgeIsWaiting' /\ NobodyIsPassed'
<1>1. UNCHANGED <<meta, age>> /\ meta \subseteq Runs /\ age \in [Runs -> Nat]
  BY WeightsType DEF Scan, FInv, QInv, QueueTypeOK
<1>2. AgeIsWaiting'
  BY <1>1 DEF FInv, AgeIsWaiting
<1>3. ASSUME NEW w \in Consumers, place'[w] = "take", best'[w] \in meta, NEW r \in meta PROVE ~Outweighs(age[r], age[best'[w]])
  <2>1. CASE w # v
    <3>1. place'[w] = place[w] /\ best'[w] = best[w]
      BY <2>1 DEF Scan, FInv, QInv, QueueTypeOK
    <3> QED BY <1>3, <3>1 DEF FInv, NobodyIsPassed
  <2>2. CASE w = v
    <3>1. Highest(best'[w])
      BY <1>3, <2>2 DEF Scan, FInv, QInv, QueueTypeOK
    <3>2. compute_priority(r) <= compute_priority(best'[w]) /\ r \in Runs /\ best'[w] \in Runs
      BY <1>1, <1>3, <3>1 DEF Highest
    <3>3. compute_priority(r) \in Nat /\ compute_priority(best'[w]) \in Nat
      BY <1>1, <3>2, ScoreBounds
    <3>4. age[r] \in Nat /\ age[best'[w]] \in Nat
      BY <1>1, <3>2
    <3>5. ~(compute_priority(best'[w]) < compute_priority(r))
      BY <3>2, <3>3
    <3> QED BY <3>2, <3>4, <3>5, Outscored
  <2> QED BY <2>1, <2>2
<1> QED BY <1>1, <1>2, <1>3 DEF NobodyIsPassed

\* What is taken or cancelled is gone, from a look at it too.
LEMMA GoneKeeps ==
    ASSUME FInv, NEW r, meta' = meta \ {r}, age' = [age EXCEPT ![r] = 0],
           \A w \in Consumers : place'[w] = "take" => place[w] = "take" /\ best'[w] = best[w]
    PROVE  AgeIsWaiting' /\ NobodyIsPassed'
<1>1. meta \subseteq Runs /\ age \in [Runs -> Nat]
  BY WeightsType DEF FInv, QInv, QueueTypeOK
<1>2. AgeIsWaiting'
  BY <1>1 DEF FInv, AgeIsWaiting
<1>3. ASSUME NEW w \in Consumers, place'[w] = "take", best'[w] \in meta', NEW q \in meta' PROVE ~Outweighs(age'[q], age'[best'[w]])
  <2>1. place[w] = "take" /\ best'[w] = best[w] /\ best[w] \in meta /\ q \in meta /\ q # r /\ best[w] # r
    BY <1>3
  <2>2. ~Outweighs(age[q], age[best[w]])
    BY <2>1 DEF FInv, NobodyIsPassed
  <2>3. age'[q] = age[q] /\ age'[best[w]] = age[best[w]]
    BY <1>1, <2>1
  <2> QED BY <2>1, <2>2, <2>3
<1> QED BY <1>2, <1>3 DEF NobodyIsPassed

\* No step lets a run be taken before one that outweighs it.
LEMMA PassedKeeps == FInv /\ [QueueNext]_queueVars => AgeIsWaiting' /\ NobodyIsPassed'
<1> SUFFICES ASSUME FInv, [QueueNext]_queueVars PROVE AgeIsWaiting' /\ NobodyIsPassed'
  OBVIOUS
<1>1. /\ place \in [Consumers -> {"block", "scan", "take", "run"}] /\ best \in [Consumers -> Runs \union {NoRun}]
  BY DEF FInv, QInv, QueueTypeOK
<1>2. ASSUME UNCHANGED <<meta, age>>, \A w \in Consumers : place'[w] = "take" => place[w] = "take" /\ best'[w] = best[w]
      PROVE  AgeIsWaiting' /\ NobodyIsPassed'
  BY <1>2 DEF FInv, AgeIsWaiting, NobodyIsPassed
<1>3. ASSUME NEW r \in Runs, EnqueueLpush(r) \/ LpushLost(r) PROVE AgeIsWaiting' /\ NobodyIsPassed'
  BY <1>2, <1>3 DEF EnqueueLpush, LpushLost
<1>4. ASSUME NEW r \in Runs, Remove(r) PROVE AgeIsWaiting' /\ NobodyIsPassed'
  <2>1. \A w \in Consumers : place'[w] = "take" => place[w] = "take" /\ best'[w] = best[w]
    BY <1>4 DEF Remove
  <2> QED BY <1>4, <2>1, GoneKeeps DEF Remove
<1>5. ASSUME NEW v \in Consumers, Take(v) PROVE AgeIsWaiting' /\ NobodyIsPassed'
  <2>1. \A w \in Consumers : place'[w] = "take" => place[w] = "take" /\ best'[w] = best[w]
    BY <1>1, <1>5 DEF Take
  <2> QED BY <1>5, <2>1, GoneKeeps DEF Take
<1>6. ASSUME NEW v \in Consumers, Block(v) PROVE AgeIsWaiting' /\ NobodyIsPassed'
  BY <1>1, <1>2, <1>6 DEF Block, Wake
<1>7. ASSUME NEW v \in Consumers, Finish(v) PROVE AgeIsWaiting' /\ NobodyIsPassed'
  BY <1>1, <1>2, <1>7 DEF Finish
<1>8. CASE UNCHANGED queueVars
  BY <1>2, <1>8 DEF queueVars
<1> QED BY <1>3, <1>4, <1>5, <1>6, <1>7, <1>8, ComeKeeps, AgeKeeps, LookKeeps DEF QueueNext, ConsumerStep

\* No run is taken before one that has waited so much longer that it outscores it,
\* however old the look is on which the worker decided, for any weights and ranks
\* (_select_highest_priority, compute_priority).
THEOREM QueueNobodyPassed == QueueSpec => []NobodyIsPassed
<1>1. QueueInit => FInv
  BY QueueAssumption DEF QueueInit, FInv, QInv, QueueTypeOK, LooksLeft, NoSlotTwice, AgeIsWaiting, NobodyIsPassed
<1>2. QInv /\ [QueueNext]_queueVars => QInv'
  BY EnqueueKeeps, TakeKeeps, OthersKeep DEF QueueNext, ConsumerStep
<1>3. FInv /\ [QueueNext]_queueVars => FInv'
  BY <1>2, PassedKeeps DEF FInv
<1>4. FInv => NobodyIsPassed
  BY DEF FInv
<1>5. QED
  BY <1>1, <1>3, <1>4, PTL DEF QueueSpec

\* What config.py says of its weights: when waiting weighs more than a role and a half
\* and the penalty of a compiled language, a run that has waited priority_wait_-
\* saturation_seconds outscores every fresh one.
THEOREM SaturatedOutscoresFresh ==
    ASSUME 2 * WaitWeight > 3 * RoleWeight + 2 * LangPenalty,
           NEW r \in Runs, NEW q \in Runs, age[r] = Saturation, age[q] = 0
    PROVE  compute_priority(q) < compute_priority(r)
<1> DEFINE h == 3 * RoleWeight + 2 * LangPenalty
           k == 2 * WaitWeight
<1>1. Saturation \in Nat \ {0} /\ h \in Nat /\ k \in Nat /\ h < k
  BY QueueAssumption
<1> HIDE DEF h, k
<1>2. Saturation * h < Saturation * k
  BY <1>1, Strictly
<1>3. k * Saturation > k * 0 + Saturation * h
  BY <1>1, <1>2
<1>4. Outweighs(age[r], age[q])
  BY <1>3 DEF Outweighs, h, k
<1> QED BY <1>1, <1>4, Outscored

\* For any number of workers and any scores, no waiting run is handed out twice
\* (_pop_highest_priority: the HDEL decides).
THEOREM QueueNoSlotTwice == QueueSpec => []NoSlotTwice
<1>1. QueueInit => QInv
  BY QueueAssumption DEF QueueInit, QInv, QueueTypeOK, LooksLeft, NoSlotTwice
<1>2. QInv /\ [QueueNext]_queueVars => QInv'
  BY EnqueueKeeps, TakeKeeps, OthersKeep DEF QueueNext, ConsumerStep
<1>3. QInv => NoSlotTwice
  BY DEF QInv
<1>4. QED
  BY <1>1, <1>2, <1>3, PTL DEF QueueSpec

\* The state of the queue and of its workers always has its type; in particular
\* a dequeue looks at most MAX_DEQUEUE_ATTEMPTS times.
THEOREM QueueTypes == QueueSpec => []QueueTypeOK
<1>1. QueueInit => QInv
  BY QueueAssumption DEF QueueInit, QInv, QueueTypeOK, LooksLeft, NoSlotTwice
<1>2. QInv /\ [QueueNext]_queueVars => QInv'
  BY EnqueueKeeps, TakeKeeps, OthersKeep DEF QueueNext, ConsumerStep
<1>3. QInv => QueueTypeOK
  BY DEF QInv
<1>4. QED
  BY <1>1, <1>2, <1>3, PTL DEF QueueSpec
=============================================================================
