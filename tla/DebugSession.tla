---------------------------- MODULE DebugSession ----------------------------
(***************************************************************************)
(* One debug session, from the worker's subscription to its commands to    *)
(* the recorded outcome: DebugRun (debug/session.py) over DapClient        *)
(* (debug/dap.py), _run_debug (worker.py), the breakpoint and command      *)
(* endpoints (api/breakpoints.py), the keys and the channel in Redis       *)
(* (debug/control.py), and the debug panel of a browser that has the       *)
(* project open (applyDebugEvent in lib/debug.ts).                         *)
(*                                                                         *)
(* A place in the program is the number of the stop it was reached by.     *)
(* A DAP request and its response are one step: what the program does      *)
(* afterwards is queued behind.                                            *)
(***************************************************************************)
EXTENDS Naturals, SequencesExt

CONSTANTS MaxStops,       \* bound: stops of the program
          MaxCommands,    \* bound: commands from the debug panel
          MaxChanges,     \* bound: changes of the breakpoints
          MaxInputs,      \* bound: commands and changes of the breakpoints together
          MaxFaults       \* bound: failures of Redis and the database, deaths of the adapter

ASSUME SessionAssumption ==
    /\ MaxStops \in Nat /\ MaxCommands \in Nat /\ MaxChanges \in Nat
    /\ MaxInputs \in Nat /\ MaxFaults \in Nat

VARIABLES
    pc,         \* where the worker is
    batch,      \* what one round of the loop has received and not handled yet
    finished, reason,
    paused,     \* self.paused
    deferVars,  \* self._defer_variables
    details,    \* the details task: the place it is about, 0 if there is none
    detailsPc,  \* where it is: "none", "load", "save", "publish"
    exitCode,   \* self.exit_code; NoCode before the exited event
    program,    \* external: "off", "running", "stopped", "ended", "killed"
    place,      \* external: the last stop
    code,       \* external: what the program exited with
    adapter,    \* the DAP connection: "off", "up", "down"
    events,     \* DAP events read and not handled, in order
    commands,   \* the asyncio queue the relay fills
    listening,  \* the worker is subscribed to the command channel
    active, stored, \* the two keys of the session in Redis
    view,       \* the browser's debug panel, after the events published so far
    lost,       \* an event or a write of the state has been lost
    lines,      \* the changes whose rows are in the table; one of them, if all went well
    known, adapterLines, \* the change the payload (DebugTarget) has, the one the adapter has
    put,        \* where each PUT of a file's breakpoints is
    seen,       \* the rows its DELETE found
    missed,     \* ghost: since a PUT last began with no other in progress, one was announced to nobody
    crossed,    \* ghost: since then, another began before it had ended
    row,        \* the execution
    asked,      \* somebody pressed Stop or cancelled the run
    cancel, oldSession, sent, faults

sessionVars == <<batch, finished, reason, paused, deferVars, details, detailsPc, exitCode>>
programVars == <<program, place, code, adapter, events>>
redisVars   == <<active, stored, listening>>
lineVars    == <<lines, known, put, seen, missed, crossed>>
restVars    == <<row, asked, cancel, oldSession, sent>>
vars == <<pc, sessionVars, programVars, commands, redisVars, view, lost, lineVars,
          adapterLines, restVars, faults>>

NotPaused == MaxStops + 1   \* stored, view.paused: no paused event
NoCode == 2
This == "this"
Earlier == "earlier"
NoOne == "nobody"
EmptyView == [session |-> NoOne, paused |-> NotPaused, frame |-> 0]

Fault == faults < MaxFaults /\ faults' = faults + 1
NoFault == UNCHANGED faults

\* DapClient.done, and the requests still waiting have failed
Done == adapter = "down"
-----------------------------------------------------------------------------
(* The program under debugpy: external *)

Emit(s) == events' = events \o s

Stops ==
    /\ program = "running" /\ place < MaxStops /\ adapter = "up"
    /\ program' = "stopped"
    /\ place' = place + 1
    /\ Emit(<<"stopped">>)
    /\ NoFault
    /\ UNCHANGED <<pc, sessionVars, code, adapter, commands, redisVars, view, lost, lineVars, adapterLines, restVars>>

Exits ==
    /\ program = "running" /\ adapter = "up"
    /\ program' = "ended"
    /\ code' \in {0, 1}
    /\ Emit(<<"exited", "terminated">>)
    /\ NoFault
    /\ UNCHANGED <<pc, sessionVars, place, adapter, commands, redisVars, view, lost, lineVars, adapterLines, restVars>>

\* The attach socket ends: feed_eof
Eof == adapter' = "down"

\* The container is killed: the read loop ends and calls the _closed handlers.
HangsUp ==
    /\ adapter = "up" /\ program \in {"running", "stopped"}
    /\ program' = "killed"
    /\ Eof
    /\ Emit(<<"_closed">>)
    /\ Fault
    /\ UNCHANGED <<pc, sessionVars, place, code, commands, redisVars, view, lost, lineVars, adapterLines, restVars>>
-----------------------------------------------------------------------------
(* Redis and the browser *)

set_state(at) == stored' = at

\* _state: a failure is logged
Save(at) ==
    \/ set_state(at) /\ UNCHANGED lost /\ NoFault
    \/ UNCHANGED stored /\ lost' = TRUE /\ Fault

Event(type, at) == [session |-> This, type |-> type, at |-> at]

\* Mutant: an event of another session is applied too
Ignored_Never(e) == FALSE

\* "Events of another session than the active one are ignored."
Ignored(e) ==
    CASE e.type = "debug_started" -> FALSE
      [] e.type \in {"debug_paused", "debug_stopped"} -> view.session \notin {NoOne, e.session}
      [] e.type = "debug_running" -> view.session # e.session
      [] e.type = "debug_frame" -> view.session # e.session \/ view.paused = NotPaused

\* Mutant: variables stay on show
applyDebugEvent_Keeps(e) ==
    IF Ignored(e) THEN view ELSE
    CASE e.type = "debug_started" -> [EmptyView EXCEPT !.session = e.session]
      [] e.type = "debug_paused"  -> [view EXCEPT !.session = e.session, !.paused = e.at]
      [] e.type = "debug_running" -> [view EXCEPT !.paused = NotPaused]
      [] e.type = "debug_frame"   -> [view EXCEPT !.frame = e.at]
      [] e.type = "debug_stopped" -> EmptyView

applyDebugEvent(e) ==
    IF Ignored(e) THEN view ELSE
    CASE e.type = "debug_started" -> [EmptyView EXCEPT !.session = e.session]
      [] e.type = "debug_paused"  -> [session |-> e.session, paused |-> e.at, frame |-> 0]
      [] e.type = "debug_running" -> [EmptyView EXCEPT !.session = view.session]
      [] e.type = "debug_frame"   -> [view EXCEPT !.frame = e.at]
      [] e.type = "debug_stopped" -> EmptyView

\* publish: a failure is logged
Publish(e) ==
    \/ view' = applyDebugEvent(e) /\ UNCHANGED lost /\ NoFault
    \/ UNCHANGED view /\ lost' = TRUE /\ Fault

\* The session before this one was cancelled: its worker publishes its end when it gets there.
EarlierStops ==
    /\ ~oldSession
    /\ oldSession' = TRUE
    /\ view' = applyDebugEvent([session |-> Earlier, type |-> "debug_stopped", at |-> 0])
    /\ NoFault
    /\ UNCHANGED <<pc, sessionVars, programVars, commands, redisVars, lost, lineVars, adapterLines, row, asked, cancel, sent>>

\* The loop is not left yet; afterwards the worker reads nothing that is sent to it.
InSession == pc \notin {"close", "unsave", "stopped", "clear", "record", "clearAgain", "done"}

\* A change is a PUT of one file's breakpoints; rows, the payload and commands
\* name the change they are of. Change 0 is what the run was requested with.
Changes == 1..MaxChanges
InProgress == {n \in Changes : put[n] \in {"replace", "refresh", "announce"}}

\* The people have sent less than MaxInputs commands and PUTs.
InputsLeft == sent + Cardinality({n \in Changes : put[n] # "idle"}) < MaxInputs

Relay(c) == Append(commands, c)

\* A command published when nobody is subscribed is lost.
send_command(c) == commands' = IF listening /\ InSession THEN Relay(c) ELSE commands

debug_command(c) ==
    /\ active /\ InSession /\ sent < MaxCommands /\ InputsLeft
    /\ c = "frame" => view.paused \in 1..MaxStops
    /\ sent' = sent + 1
    /\ send_command([name |-> c, arg |-> view.paused])
    /\ asked' = (asked \/ c = "stop")
    /\ NoFault
    /\ UNCHANGED <<pc, sessionVars, programVars, redisVars, view, lost, lineVars, adapterLines, row, cancel, oldSession>>

\* cancel_execution: the row, then the cancel channel
CancelRun ==
    /\ ~cancel /\ row = "running"
    /\ cancel' = TRUE /\ asked' = TRUE
    /\ row' = "cancelled"
    /\ NoFault
    /\ UNCHANGED <<pc, sessionVars, programVars, commands, redisVars, view, lost, lineVars, adapterLines, oldSession, sent>>

\* _replace: the DELETE takes the rows it sees, which are those committed before it
Replace(n) == seen' = [seen EXCEPT ![n] = lines]

\* set_file_breakpoints: any number of PUTs may be in progress
set_file_breakpoints(n) ==
    /\ InSession /\ InputsLeft
    /\ put[n] = "idle" /\ \A m \in 1..(n - 1) : put[m] # "idle"
    /\ Replace(n)
    /\ put' = [put EXCEPT ![n] = "replace"]
    /\ crossed' = (InProgress # {})
    /\ missed' = (missed /\ InProgress # {})
    /\ NoFault
    /\ UNCHANGED <<pc, sessionVars, programVars, commands, redisVars, view, lost, lines, known, adapterLines, restVars>>

\* db.commit: a commit that fails leaves everything as it was, and is left out.
Commit(n) ==
    /\ put[n] = "replace"
    /\ lines' = (lines \ seen[n]) \union {n}
    /\ put' = [put EXCEPT ![n] = "refresh"]
    /\ seen' = [seen EXCEPT ![n] = {}]
    /\ NoFault
    /\ UNCHANGED <<pc, sessionVars, programVars, commands, redisVars, view, lost, known, missed, crossed, adapterLines, restVars>>

\* db.refresh raises if a row is gone; a change to no lines at all has no row to look for.
Refresh(n) ==
    /\ put[n] = "refresh"
    /\ \/ put' = [put EXCEPT ![n] = "announce"] /\ UNCHANGED missed /\ NoFault
       \/ n \notin lines /\ put' = [put EXCEPT ![n] = "done"] /\ UNCHANGED missed /\ NoFault
       \/ put' = [put EXCEPT ![n] = "done"] /\ missed' = TRUE /\ Fault
    /\ UNCHANGED <<pc, sessionVars, programVars, commands, redisVars, view, lost, lines, known, seen, crossed, adapterLines, restVars>>

\* _announce: the call's own lines, whatever the rows are by now; an error of Redis is passed over
Announce(n) ==
    /\ put[n] = "announce"
    /\ put' = [put EXCEPT ![n] = "done"]
    /\ \/ /\ send_command([name |-> "setBreakpoints", arg |-> n])
          /\ missed' = (missed \/ ~listening)
          /\ NoFault
       \/ UNCHANGED commands /\ missed' = TRUE /\ Fault
    /\ UNCHANGED <<pc, sessionVars, programVars, redisVars, view, lost, lines, known, seen, crossed, adapterLines, restVars>>

ChangeBreakpoints(n) == set_file_breakpoints(n) \/ Commit(n) \/ Refresh(n) \/ Announce(n)
-----------------------------------------------------------------------------
(* _run_debug and the handshake *)

\* The payload has the breakpoints as they were when the run was requested.
Subscribe ==
    /\ pc = "subscribe"
    /\ listening' = TRUE
    /\ pc' = "start"
    /\ NoFault
    /\ UNCHANGED <<sessionVars, programVars, commands, active, stored, view, lost, lineVars, adapterLines, restVars>>

\* The try block is left: the finally block is next.
Leave(why) == pc' = "close" /\ reason' = why

\* adapter.start: the container is created, attached to and started
Start ==
    /\ pc = "start"
    /\ \/ adapter' = "up" /\ pc' = "initialize" /\ NoFault /\ UNCHANGED reason
       \/ Leave("error") /\ Fault /\ UNCHANGED adapter
    /\ UNCHANGED <<batch, finished, paused, deferVars, details, detailsPc, exitCode, program, place, code, events,
                   commands, redisVars, view, lost, lineVars, adapterLines, restVars>>

\* initialize, launch, and the initialized event, each within HANDSHAKE_SECONDS
Initialize ==
    /\ pc = "initialize"
    /\ \/ pc' = "breakpoints" /\ NoFault /\ UNCHANGED reason
       \/ Leave("error") /\ Fault
    /\ UNCHANGED <<batch, finished, paused, deferVars, details, detailsPc, exitCode, programVars,
                   commands, redisVars, view, lost, lineVars, adapterLines, restVars>>

\* DapClient.set_breakpoints
set_breakpoints(n) == adapterLines' = IF Done THEN adapterLines ELSE n

\* set_breakpoints, configuration_done: the program runs
Launch ==
    /\ pc = "breakpoints"
    /\ \/ /\ set_breakpoints(known)
          /\ program' = "running"
          /\ pc' = "started"
          /\ NoFault /\ UNCHANGED reason
       \/ Leave("error") /\ Fault /\ UNCHANGED <<adapterLines, program>>
    /\ UNCHANGED <<batch, finished, paused, deferVars, details, detailsPc, exitCode, place, code, adapter, events, commands, redisVars, view, lost, lineVars, restVars>>

\* The response to launch is there, or will not come any more.
Started ==
    /\ pc = "started"
    /\ \/ pc' = "loop" /\ Publish(Event("debug_started", 0)) /\ UNCHANGED reason
       \/ Done /\ Leave("error") /\ NoFault /\ UNCHANGED <<view, lost>>
    /\ UNCHANGED <<batch, finished, paused, deferVars, details, detailsPc, exitCode, programVars, commands, redisVars, lineVars, adapterLines, restVars>>
-----------------------------------------------------------------------------
(* The loop *)

\* Mutant: no limit for a program that runs
Limits_Idle == IF paused THEN {"idle"} ELSE {}

\* total_seconds, and idle_seconds while the program is paused
Limits == {"timeout"} \union (IF paused THEN {"idle"} ELSE {})

Limit ==
    /\ pc = "loop"
    /\ \E limit \in Limits : Leave(limit)
    /\ NoFault
    /\ UNCHANGED <<batch, finished, paused, deferVars, details, detailsPc, exitCode, programVars, commands, redisVars,
                   view, lost, lineVars, adapterLines, restVars>>

Ready == {k \in {"event", "command", "cancel"} :
            \/ k = "event" /\ events # <<>>
            \/ k = "command" /\ commands # <<>>
            \/ k = "cancel" /\ cancel}

Received(k) ==
    CASE k = "event"   -> [kind |-> k, name |-> Head(events), arg |-> 0]
      [] k = "command" -> [kind |-> k, name |-> Head(commands).name, arg |-> Head(commands).arg]
      [] k = "cancel"  -> [kind |-> k, name |-> k, arg |-> 0]

\* asyncio.wait: whichever getters are done, and those that completed in the same tick
Receive ==
    /\ pc = "loop"
    /\ \E K \in (SUBSET Ready) \ {{}} :
         /\ \E order \in SetToSeqs(K) : batch' = [i \in DOMAIN order |-> Received(order[i])]
         /\ events' = IF "event" \in K THEN Tail(events) ELSE events
         /\ commands' = IF "command" \in K THEN Tail(commands) ELSE commands
    /\ pc' = "handle"
    /\ NoFault
    /\ UNCHANGED <<finished, reason, paused, deferVars, details, detailsPc, exitCode, program, place, code, adapter,
                   redisVars, view, lost, lineVars, adapterLines, restVars>>

\* One more of the batch is handled; fin: the loop is going to be left.
Handled(fin) ==
    /\ batch' = Tail(batch)
    /\ finished' = (finished \/ fin)
    /\ pc' = IF Len(batch) > 1 THEN "handle" ELSE IF finished' THEN "close" ELSE "loop"

Handling(kind, name) == pc = "handle" /\ Head(batch).kind = kind /\ Head(batch).name = name

\* _cancel_details
CancelDetails == details' = 0 /\ detailsPc' = "none"

HandleEnd ==
    /\ \/ Handling("cancel", "cancel") /\ reason' = "cancelled" /\ Handled(TRUE) /\ UNCHANGED exitCode
       \/ Handling("command", "stop") /\ reason' = "stopped" /\ Handled(TRUE) /\ UNCHANGED exitCode
       \/ Handling("event", "exited") /\ exitCode' = code /\ Handled(FALSE) /\ UNCHANGED reason
       \/ Handling("event", "terminated") /\ Handled(TRUE) /\ UNCHANGED <<reason, exitCode>>
    /\ NoFault
    /\ UNCHANGED <<paused, deferVars, details, detailsPc, programVars, commands, redisVars,
                   view, lost, lineVars, adapterLines, restVars>>

\* _read_loop calls its handlers with {}: a message without an event name, for
\* which _handle_event returns False.
ClosedEnds == FALSE

HandleClosed ==
    /\ Handling("event", "_closed")
    /\ Handled(ClosedEnds)
    /\ NoFault
    /\ UNCHANGED <<reason, paused, deferVars, details, detailsPc, exitCode, programVars, commands, redisVars,
                   view, lost, lineVars, adapterLines, restVars>>

HandleStopped ==
    /\ Handling("event", "stopped")
    /\ paused' = TRUE
    /\ pc' = "stack"
    /\ NoFault
    /\ UNCHANGED <<batch, finished, reason, deferVars, details, detailsPc, exitCode, programVars, commands, redisVars,
                   view, lost, lineVars, adapterLines, restVars>>

\* Where the stack trace finds the program: a running thread has no frames.
TopFrame == IF program = "stopped" THEN place ELSE 0

PausedAt(at) == [kind |-> "event", name |-> "stopped", arg |-> at]

\* _paused_state reads where the program is by now; a request that fails ends the session.
PublishPaused ==
    /\ pc = "stack"
    /\ \/ /\ ~Done
          /\ pc' = "save"
          /\ batch' = [batch EXCEPT ![1] = PausedAt(TopFrame)]
          /\ Publish(Event("debug_paused", TopFrame))
          /\ UNCHANGED reason
       \/ /\ Done \/ program # "stopped"
          /\ Leave("error")
          /\ NoFault /\ UNCHANGED <<batch, view, lost>>
    /\ UNCHANGED <<finished, paused, deferVars, details, detailsPc, exitCode, programVars, commands, redisVars,
                   lineVars, adapterLines, restVars>>

\* The state for those who open the project now, and the task for the variables
SavePaused ==
    /\ pc = "save"
    /\ Save(Head(batch).arg)
    /\ IF deferVars /\ Head(batch).arg # 0
       THEN details' = Head(batch).arg /\ detailsPc' = "load"
       ELSE UNCHANGED <<details, detailsPc>>
    /\ Handled(FALSE)
    /\ UNCHANGED <<reason, paused, deferVars, exitCode, programVars, commands, active, listening,
                   view, lineVars, adapterLines, restVars>>

HandleContinued ==
    /\ Handling("event", "continued")
    /\ CancelDetails
    /\ paused' = FALSE
    /\ \/ ~paused /\ Handled(FALSE) /\ NoFault /\ UNCHANGED <<view, lost>>
       \/ /\ paused
          /\ pc' = "resumed"
          /\ Publish(Event("debug_running", 0))
          /\ UNCHANGED <<batch, finished>>
    /\ UNCHANGED <<reason, deferVars, exitCode, programVars, commands, redisVars, lineVars, adapterLines, restVars>>

ClearPaused ==
    /\ pc = "resumed"
    /\ Save(NotPaused)
    /\ Handled(FALSE)
    /\ UNCHANGED <<reason, paused, deferVars, details, detailsPc, exitCode, programVars, commands, active, listening,
                   view, lineVars, adapterLines, restVars>>

\* A request about the program's threads is answered.
Answered == program = "stopped" /\ ~Done

\* _frame_scopes: a frame's id is not valid any more once the program went on.
frame_scopes(at) == Answered /\ place = at

\* _publish_details, a task of its own: the variables are loaded, or cannot be
DetailsLoad ==
    /\ detailsPc = "load"
    /\ IF frame_scopes(details)
       THEN detailsPc' = "save" /\ UNCHANGED details
       ELSE details' = 0 /\ detailsPc' = "none"
    /\ NoFault
    /\ UNCHANGED <<pc, batch, finished, reason, paused, deferVars, exitCode, programVars, commands, redisVars,
                   view, lost, lineVars, adapterLines, restVars>>

DetailsSave ==
    /\ detailsPc = "save"
    /\ Save(details)
    /\ detailsPc' = "publish"
    /\ UNCHANGED <<pc, batch, finished, reason, paused, deferVars, details, exitCode, programVars, commands, active, listening,
                   view, lineVars, adapterLines, restVars>>

DetailsPublish ==
    /\ detailsPc = "publish"
    /\ Publish(Event("debug_frame", details))
    /\ details' = 0 /\ detailsPc' = "none"
    /\ UNCHANGED <<pc, batch, finished, reason, paused, deferVars, exitCode, programVars, commands, redisVars,
                   lineVars, adapterLines, restVars>>
-----------------------------------------------------------------------------
(* _handle_command *)

\* continue, and "step" for next, stepIn and stepOut
HandleStep(name) ==
    /\ Handling("command", name)
    /\ IF paused
       THEN /\ CancelDetails
            /\ deferVars' = (name = "step")
            /\ program' = IF Answered THEN "running" ELSE program
            /\ Emit(IF Answered THEN <<"continued">> ELSE <<>>)
       ELSE UNCHANGED <<details, detailsPc, deferVars, program, events>>
    /\ Handled(FALSE)
    /\ NoFault
    /\ UNCHANGED <<reason, paused, exitCode, place, code, adapter, commands, redisVars, view, lost, lineVars, adapterLines, restVars>>

\* pause: the program stops in its own time
HandlePause ==
    /\ Handling("command", "pause")
    /\ IF paused THEN UNCHANGED <<details, detailsPc, deferVars>> ELSE CancelDetails /\ deferVars' = FALSE
    /\ Handled(FALSE)
    /\ NoFault
    /\ UNCHANGED <<reason, paused, exitCode, programVars, commands, redisVars, view, lost, lineVars, adapterLines, restVars>>

\* A frame of the place the panel showed
HandleFrame ==
    /\ Handling("command", "frame")
    /\ CancelDetails
    /\ Handled(FALSE)
    /\ IF paused /\ frame_scopes(Head(batch).arg) THEN Publish(Event("debug_frame", place)) ELSE NoFault /\ UNCHANGED <<view, lost>>
    /\ UNCHANGED <<reason, paused, deferVars, exitCode, programVars, commands, redisVars, lineVars, adapterLines, restVars>>

\* Mutant: the lines the run was started with
NewLines_Started == known

\* The lines in the command, not those in the row
NewLines == Head(batch).arg

HandleBreakpoints ==
    /\ Handling("command", "setBreakpoints")
    /\ set_breakpoints(NewLines)
    /\ Handled(FALSE)
    /\ NoFault
    /\ UNCHANGED <<reason, paused, deferVars, details, detailsPc, exitCode, programVars, commands, redisVars, view, lost, lineVars, restVars>>
-----------------------------------------------------------------------------
(* The finally blocks and the outcome *)

\* adapter.stop: the container is killed and removed
Stop == program' = IF program = "ended" THEN program ELSE "killed"

\* disconnect, close, stop; the queues are left
Close ==
    /\ pc = "close"
    /\ CancelDetails
    /\ adapter' = "down"
    /\ Stop
    /\ batch' = <<>> /\ events' = <<>> /\ commands' = <<>>
    /\ pc' = "unsave"
    /\ NoFault
    /\ UNCHANGED <<finished, reason, paused, deferVars, exitCode, place, code, redisVars,
                   view, lost, lineVars, adapterLines, restVars>>

Unsave ==
    /\ pc = "unsave"
    /\ Save(NotPaused)
    /\ pc' = "stopped"
    /\ UNCHANGED <<sessionVars, programVars, commands, active, listening, view, lineVars, adapterLines, restVars>>

Stopped ==
    /\ pc = "stopped"
    /\ Publish(Event("debug_stopped", 0))
    /\ pc' = "clear"
    /\ UNCHANGED <<sessionVars, programVars, commands, redisVars, lineVars, adapterLines, restVars>>

\* Mutant: only the slot is given up
ClearKeys_Slot == active' = FALSE /\ UNCHANGED stored /\ NoFault

\* clear_active deletes both keys, or fails before it does
ClearKeys ==
    \/ active' = FALSE /\ stored' = NotPaused /\ NoFault
    \/ UNCHANGED <<active, stored>> /\ Fault

Clear ==
    /\ pc = "clear"
    /\ ClearKeys
    /\ listening' = FALSE
    /\ pc' = "record"
    /\ UNCHANGED <<sessionVars, programVars, commands, view, lost, lineVars, adapterLines, restVars>>

\* Mutant: the end of the program counts as success
TargetStatus_NoCode == IF reason = "exited" THEN "completed" ELSE "failed"

TargetStatus ==
    CASE reason \in {"stopped", "cancelled"} -> "cancelled"
      [] reason \in {"timeout", "idle"}      -> "timeout"
      [] reason = "error"                    -> "failed"
      [] reason = "exited"                   -> IF exitCode = 0 THEN "completed" ELSE "failed"

\* _transition, unless a cancel is recorded
Record ==
    /\ pc = "record"
    /\ row' = IF row = "running" THEN TargetStatus ELSE row
    /\ pc' = "clearAgain"
    /\ NoFault
    /\ UNCHANGED <<sessionVars, programVars, commands, redisVars, view, lost, lineVars, adapterLines, asked, cancel, oldSession, sent>>

\* _run_one's finally block
ClearAgain ==
    /\ pc = "clearAgain"
    /\ ClearKeys
    /\ pc' = "done"
    /\ UNCHANGED <<sessionVars, programVars, commands, listening, view, lost, lineVars, adapterLines, restVars>>
-----------------------------------------------------------------------------
Init ==
    /\ pc = "subscribe"
    /\ batch = <<>> /\ finished = FALSE /\ reason = "exited"
    /\ paused = FALSE /\ deferVars = FALSE /\ details = 0 /\ detailsPc = "none" /\ exitCode = NoCode
    /\ program = "off" /\ place = 0 /\ code = NoCode /\ adapter = "off" /\ events = <<>>
    /\ commands = <<>> /\ listening = FALSE
    /\ active = TRUE /\ stored = NotPaused
    /\ view = EmptyView /\ lost = FALSE
    /\ lines = {0} /\ known = 0 /\ adapterLines = 0
    /\ put = [n \in Changes |-> "idle"] /\ seen = [n \in Changes |-> {}] /\ missed = FALSE /\ crossed = FALSE
    /\ row = "running" /\ asked = FALSE /\ cancel = FALSE /\ oldSession = FALSE /\ sent = 0
    /\ faults = 0

WorkerStep ==
    \/ Subscribe \/ Start \/ Initialize \/ Launch \/ Started
    \/ Receive
    \/ HandleEnd \/ HandleClosed \/ HandleStopped \/ PublishPaused \/ SavePaused \/ HandleContinued \/ ClearPaused
    \/ HandleStep("continue") \/ HandleStep("step") \/ HandlePause \/ HandleFrame \/ HandleBreakpoints
    \/ Close \/ Unsave \/ Stopped \/ Clear \/ Record \/ ClearAgain

Next ==
    \/ WorkerStep \/ Limit \/ DetailsLoad \/ DetailsSave \/ DetailsPublish
    \/ Stops \/ Exits \/ HangsUp
    \/ EarlierStops
    \/ \E c \in {"continue", "step", "pause", "stop", "frame"} : debug_command(c)
    \/ CancelRun
    \/ \E n \in Changes : ChangeBreakpoints(n)

Spec == Init /\ [][Next]_vars

\* The worker goes on, and the limit passes.
FairSpec == Spec /\ WF_vars(WorkerStep) /\ WF_vars(Limit)
-----------------------------------------------------------------------------
Pcs == {"subscribe", "start", "initialize", "breakpoints", "started", "loop", "handle", "stack", "save",
        "resumed", "close", "unsave", "stopped", "clear", "record", "clearAgain", "done"}
EventNames == {"stopped", "continued", "exited", "terminated", "_closed"}
CommandNames == {"continue", "step", "pause", "stop", "frame", "setBreakpoints"}
Command == [name : CommandNames, arg : Nat]
Item == [kind : {"event"}, name : EventNames, arg : Nat]
        \union [kind : {"command"}, name : CommandNames, arg : Nat]
        \union [kind : {"cancel"}, name : {"cancel"}, arg : Nat]

\* The types of the session, the program, the queues, the keys and the panel
TypeOK ==
    /\ pc \in Pcs
    /\ batch \in Seq(Item) /\ events \in Seq(EventNames) /\ commands \in Seq(Command)
    /\ reason \in {"exited", "stopped", "timeout", "idle", "cancelled", "error"}
    /\ finished \in BOOLEAN /\ paused \in BOOLEAN /\ deferVars \in BOOLEAN
    /\ listening \in BOOLEAN /\ active \in BOOLEAN /\ lost \in BOOLEAN
    /\ put \in [Changes -> {"idle", "replace", "refresh", "announce", "done"}]
    /\ seen \in [Changes -> SUBSET (0..MaxChanges)]
    /\ missed \in BOOLEAN /\ crossed \in BOOLEAN
    /\ asked \in BOOLEAN /\ cancel \in BOOLEAN /\ oldSession \in BOOLEAN
    /\ details \in 0..MaxStops /\ place \in 0..MaxStops
    /\ detailsPc \in {"none", "load", "save", "publish"}
    /\ exitCode \in 0..NoCode /\ code \in 0..NoCode
    /\ program \in {"off", "running", "stopped", "ended", "killed"}
    /\ adapter \in {"off", "up", "down"}
    /\ stored \in 0..NotPaused
    /\ view \in [session : {NoOne, This}, paused : 0..NotPaused, frame : 0..MaxStops]
    /\ lines \in SUBSET (0..MaxChanges) /\ known \in Nat /\ adapterLines \in Nat
    /\ row \in {"running", "completed", "failed", "cancelled", "timeout"}
    /\ sent \in 0..MaxCommands /\ faults \in 0..MaxFaults

\* Stop, cancel, both limits and the end of the program race in one round of the
\* loop: what is recorded is still true. Completed is a program that ended with
\* exit code 0, cancelled is what somebody asked for.
OutcomeIsTrue ==
    /\ row = "completed" => program = "ended" /\ code = 0
    /\ row = "cancelled" => asked

\* The paused event kept for those who open the project is gone when the session
\* is over: three writes clear it, and the details task that could bring it back
\* is cancelled. With fewer than three failures of Redis one of them succeeds.
StateIsCleared == pc = "done" /\ faults < 3 => stored = NotPaused

\* The variables on show belong to the place on show, although they are loaded by
\* a task that steps, continue and the choice of a frame overtake.
FrameMatchesPause == ~lost /\ view.paused # NotPaused => view.frame \in {0, view.paused}

Settled == pc = "loop" /\ events = <<>> /\ commands = <<>> /\ details = 0 /\ ~lost

\* Once everything in flight is handled, panel, state key and session agree with
\* the program, however steps were queued before the stops they cause were
\* handled, and whatever a session before this one still published; and when the
\* session is over neither the panel nor the state key tells of it.
SettledViewIsTrue ==
    /\ Settled /\ adapter = "up" =>
        /\ view.session = This
        /\ paused <=> program = "stopped"
        /\ view.paused = IF paused THEN place ELSE NotPaused
        /\ stored = view.paused
    /\ pc = "done" /\ ~lost => view.session = NoOne
    /\ StateIsCleared

\* "and the new lines to a running debug session" (docs/api.md): once its commands
\* are handled the adapter has exactly the lines of the table, although each call
\* announces its own lines after its commit, and the worker may not listen yet. Not
\* so if a change was announced to nobody (missed) or PUTs crossed each other
\* (crossed): a later PUT that is in progress alone repairs both.
BreakpointsReachSession ==
    pc = "loop" /\ InProgress = {} /\ commands = <<>> /\ ~missed /\ ~crossed /\ adapter = "up" => lines = {adapterLines}

\* "replaces the file's breakpoints" (docs/api.md): with no PUT in progress the rows
\* are those of one change. The code does not keep this: a DELETE does not see the
\* rows another PUT has not committed yet.
OneChangeHolds == InProgress = {} => \E n \in {0} \union Changes : lines = {n}

\* "and the new lines to a running debug session" (docs/api.md), without exception for
\* PUTs that cross each other: the one committed first may be announced last.
LastChangeReachesSession ==
    pc = "loop" /\ InProgress = {} /\ commands = <<>> /\ ~missed /\ adapter = "up" =>
        \A n \in Changes : lines = {n} => adapterLines = n

\* Every session ends and its outcome is recorded, whatever the program, the adapter
\* and the people do: at the latest when its time is up. Its slot is given up then,
\* unless both clear_active failed.
SessionEnds == <>(pc = "done" /\ row # "running" /\ (active => faults >= 2))
=============================================================================
