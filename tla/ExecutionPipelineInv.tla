------------------------- MODULE ExecutionPipelineInv -------------------------
(***************************************************************************)
(* The inductive invariant of ExecutionPipeline: what the safety           *)
(* properties need to be preserved by every step.                          *)
(***************************************************************************)
EXTENDS ExecutionPipeline

\* The worker has claimed its run and has not let go of it.
Claimed(w) == wpc[w] \notin {"idle", "take", "claim"}

\* Before the subscription is open
Unsubscribed == {"idle", "take", "claim", "pub_starting", "subscribe"}

\* The statuses a claimed run can have while its worker is at pc: the one the
\* worker has given it last, or a finished one somebody else wrote.
StageOK(pc, s) ==
    \/ pc \in {"pub_starting", "subscribe", "recheck", "mount", "to_compiling"} /\ s = "starting"
    \/ pc \in {"pub_compiling", "build", "building"} /\ s = "compiling"
    \/ pc = "to_running" /\ s \in {"starting", "compiling"}
    \/ pc \in {"pub_running", "run", "executing", "to_completed", "to_failed", "to_timeout"}
         /\ s = "running"
    \/ pc \in {"exc_failed", "cleanup"} /\ s \in Active
    \/ s \in Finished

\* The places of a worker where its run has no thread and no container
BoxFreePcs == {"pub_starting", "subscribe", "recheck", "mount", "to_compiling", "pub_compiling",
               "build", "to_running", "pub_running", "run", "exc_cancelled"}

RowInv ==
    \A e \in Executions :
        /\ startpc[e] = "idle" => status[e] = "none"
        /\ cancelpc[e] \in {"remove", "signal", "publish"} => status[e] = "cancelled"
        /\ picked[e] \in Active \union {"none"}
        /\ e \in changed => status[e] = "failed"
        /\ status[e] \in {"none", "queued"} => e \notin boxes /\ ~Busy(thread[e])

ClaimOf(w) ==
    /\ wpc[w] # "idle" => job[w] \in Executions
    /\ Claimed(w) => worker_id[job[w]] = w /\ StageOK(wpc[w], status[job[w]])
    /\ wpc[w] \notin TransitionPcs => seen[w] = "none"
    /\ seen[w] # "none" => status[job[w]] \in Finished \union {seen[w]}

ClaimInv == \A w \in Workers : ClaimOf(w)

CancelInv ==
    \A w \in Workers :
        /\ wpc[w] \in Unsubscribed => cancel[w] = "off"
        /\ cancel[w] \in {"mail", "set"} => status[job[w]] \in Finished

ShownInv ==
    /\ ShownFinishedIsRecorded
    /\ \A w \in Workers :
          wpc[w] \in PublishPcs /\ Publish[wpc[w]].tells \in Finished
              => status[job[w]] = Publish[wpc[w]].tells

\* What a thread at t, with (boxed) or without a container, may have computed
ThreadResultOK(t, boxed) ==
    /\ t.result = "built" => t.op = "build"
    /\ t.op = "build" => t.result \in {"none", "built", "error"}
    /\ t.op # "none" /\ t.at = "done" => t.result # "none"
    /\ t.at = "remove" => t.result # "none"
    /\ t.at = "done" /\ t.result = "built" => ~boxed

ThreadOf(e) == ThreadResultOK(thread[e], e \in boxes)

BoxOf(w) ==
    /\ wpc[w] \in BoxFreePcs => job[w] \notin boxes /\ ~Busy(thread[job[w]])
    /\ wpc[w] = "building" => thread[job[w]].op = "build"
    /\ wpc[w] = "executing" => thread[job[w]].op = "run"

ThreadInv == /\ \A e \in Executions : ThreadOf(e)
             /\ \A w \in Workers : BoxOf(w)

\* The inductive invariant: every worker past its claim is the only one at its
\* run, knows its status up to a finish, and has a container only while it
\* waits for the thread; every publisher tells what is committed.
IInv == TypeOK /\ RowInv /\ ClaimInv /\ CancelInv /\ ShownInv /\ ThreadInv
=============================================================================
