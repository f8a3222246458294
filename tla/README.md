# Concord: a TLA+ verification project

Concord is a collaborative code editor with sandboxed execution: a FastAPI
backend (`backend/app`), worker processes (`worker/app`), a React frontend
(`frontend/src`), Postgres for rows, Redis for the queue, messages and short
lived keys, Docker for the sandboxes. Two replicas of the worker and one
backend process are deployed (`docker-compose.yml`).

This directory models the parts where several actors meet, checks them with TLC
on small instances, and proves the central results with TLAPS for every
instance. `PROJECT.json` lists components, runs, mutants, the map from
definitions to source lines, hazards, findings and theorems.

## 1. Inventory

| Component | State | Operations | Meets |
|---|---|---|---|
| Execution state machine (`models/execution.py`, `services/execution_state.py`) | row status, audit events | `change_status` (compare-and-set), `record_status_event` | every writer of a row |
| Run and cancel API (`api/executions.py`) | none of its own | `start_run`, `_fail_undelivered_run`, `cancel_execution`, `_claim_debug_slot` | rows, queue, cancel messages, slot, console |
| Execution queue (`realtime/execution_queue.py`) | Redis hash of payloads, list of wake-ups | enqueue, dequeue, remove, score, cancel and event channels | API, workers |
| Worker (`worker/app/worker.py`) | its current run, cancel event | claim, mount, build, run, kill, record, publish | rows, queue, Docker, slot |
| Sandbox (`services/sandbox.py`) | containers | `build`, `run`, `kill_execution` in a thread | worker, sweep |
| Orphan sweep (`realtime/orphan_sweep.py`) | none of its own | select, fail, remove containers, signal | rows, Docker, workers |
| Console (`frontend/src/lib/runs.ts`) | the run's shown status | `applyRunEvent` | events of all the above |
| Debug slot (`debug/control.py`) | one Redis key per project | claim, take over, clear, expire | API, worker |
| Debug session and DAP client (`debug/session.py`, `dap.py`, `docker_adapter.py`), breakpoints (`api/breakpoints.py`), debug panel (`lib/debug.ts`) | paused state, pending events and commands, lines | handshake, step, stop, set breakpoints, time limits | worker, API, panel |
| Rooms, gateway, checkpoints (`realtime/manager.py`, `rooms.py`, `gateway.py`, `checkpoint.py`) | live documents, connections, versions | open, hydrate, attach, update, broadcast, checkpoint, evict | tabs, Postgres |
| Collaboration client (`lib/ws.ts`) | local document, unacknowledged updates | connect, sync, edit, reconnect | gateway |
| Awareness and marks (`realtime/awareness.py`, `gateway.py`, `SessionPage.tsx`, `Editor.tsx`) | cursors with clocks, who is in which file | accept, drop, snapshot, announce again | gateway, pages |
| Versions, attribution, snapshots (`checkpoint.py`, `changes.py`, `api/files.py`, `api/snapshots.py`) | version rows, windows of edits, snapshots | save, restore, prune, credit | rooms, Postgres |
| Folders and files (`api/folders.py`, `api/files.py`, `FileTree.tsx`) | the tree, each page's list | create, move, rename, delete | Postgres, pages |
| Membership (`api/projects.py`, `api/invitations.py`, `core/deps.py`) | members, roles, tokens, requests | invite, join, change role, remove | every handler |
| AI assistant (`api/assistant.py`, `agent`, `llm`, `AssistantPanel.tsx`) | requests, window counter, log rows, proposals | agent loop, tools, provider and retries, apply | files, pages |
| Login limiter and authentication (`core/login_limiter.py`, `api/auth.py`) | failure counters | login, signup | Redis |
| Search, activity, metrics, runtime registry | none | queries, constants | |

What is hard here: nobody holds a lock across Postgres, Redis and Docker. Each
step of a handler can be followed by a step of any other actor, by the failure
of a service, or by the end of the process. What makes the components correct:

* a row moves along the table only, and whoever is late changes nothing;
* an accepted run ends, and nothing of it is left in Docker;
* what the browsers show is what was recorded: consoles, the debug panel,
  cursors, marks, the sidebar;
* a run is handed to one worker and is not passed for ever;
* a project has one debug session, is never locked out of debugging, and every
  session ends with its true outcome;
* an edit in an open tab is never lost, "synced" is true, versions are numbered
  once, Saves are kept, and an edit is credited once;
* folders form a tree, and nothing with history goes with one;
* nobody gets a role the owner did not hand out;
* a request to the assistant ends, and an accepted proposal changes what it meant.

## 2. Modules

| Module | Models |
|---|---|
| `ExecutionStates` | status values, the table of changes, audit events |
| `ExecutionLifecycle` | abstract specification: rows and their audit trails |
| `ExecutionPipeline` | API, queue, workers, sandbox threads, containers, sweep, console |
| `ExecutionPipelineInv` | the inductive invariant of the pipeline |
| `PriorityQueue`, `MCQueue` | the queue with scores, ageing, wake-ups and races |
| `DebugSlot` | the project's debug slot between API, workers and Redis |
| `DebugSession` | one session: worker, adapter, program, commands, breakpoints, panel |
| `CollabRoom` | tabs, gateway, one file's room, checkpoints, eviction, restarts |
| `Presence`, `MCPresence` | cursors and marks over file sockets and project sockets |
| `FileHistory` | pure functions: pruning, split of line counts, text edits |
| `FileStore` | rooms, versions, snapshots, restores, attribution, pruning |
| `FolderTree` | folders, files, their handlers and a page's sidebar |
| `Membership` | members, tokens, join requests and concurrent calls |
| `AssistantRun` | requests, limit, agent loop, log, proposals, panels |
| `ExecutionPipelineProofs` (with the queue's), `DebugSessionProofs`, `CollabRoomProofs`, `PresenceProofs`, `FileStoreProofs` (with those of `FileHistory`), `FolderTreeProofs`, `MembershipProofs`, `AssistantRunProofs` | theorems |

`ExecutionPipeline` implements `ExecutionLifecycle` (same variables `status` and
`events`). `PriorityQueue` and `DebugSlot` look at one aspect of the pipeline
more closely; the pipeline lets a worker choose any waiting run and keeps the
debug slot out. `DebugSession` begins where `DebugSlot`'s worker sets a session up.
`CollabRoom` has one file's connections, `FileStore` several files' rows,
`Presence` the cursors on the same sockets. Everywhere an `await`, a commit or a
thread switch of the code ends a step.

### ExecutionPipeline

* `start_run`: `StartCommit`, then `StartEnqueue` and `StartAnnounce`; a Redis
  error leads to `StartCompensate` (which competes with the worker's claim) and
  `StartRemove`.
* `cancel_execution`: `CancelRead`, the loop `CancelWrite`, then queue, message
  and event, each of which may fail and end the request (`CancelFails`).
* `_run_one`: `wpc[w]` is the place in the function. The records `Transition`
  and `Publish` hold, for each `_transition` and `_publish_status` call, what it
  writes or tells and where the code goes on success, refusal and error.
  `_transition` is two steps (`WorkerRead`, `WorkerWrite`), since it reads the
  row before its compare-and-set.
* `_run_cancellable`: `WorkerLaunch` starts the thread, `WorkerJoin` ends
  normally, `WorkerKill` repeats the kill until the thread has returned.
* `sandbox.build` and `sandbox.run`: `thread[e]` goes through create, wait and
  remove, independently of its worker. `boxes` are the containers.
* `sweep_once`: select, write, list, query, kill, signal; `stale[e]` stands for
  the age of the claim. A live worker may be stale too, which is how the sweep
  meets it.
* console: `shown[e]`, changed by events when they are published (a project
  event reaches a subscribed console in order).

Failures: `"redis"` (a command fails, not executed), `"reply"` (executed, the
caller sees an error), `"db"`, `"docker"`, `"worker"` and `"backend"` (the
process dies and is restarted). `MaxFaults` bounds their number.

Left out: payloads, outputs, permissions, the `DebugSession` rows, deletion of
rows with their project, several consoles (they see the same events).

### PriorityQueue

The hash is the set `meta`; a score is `compute_priority`, scaled to integers.
Time is the age of a waiting run in ticks, up to the saturation of the wait
term (`priority_wait_saturation_seconds`; four ticks of 7.5 s).
`EnqueueHset` and `EnqueueLpush` are the two commands of an
enqueue; `Block`, `Scan` and `Take` are BLPOP, HGETALL with the choice, and HDEL.
`NobodyIsPassed` is what remains of "the best run first" when the choice is made
from an old look: between the look and the HDEL the scores change, but a run that
waits gains at most what the chosen one gains unless the chosen one is saturated,
so that nothing whose wait outweighs (`Outweighs`) the chosen one's is passed.

### DebugSlot and DebugSession

`DebugSlot`: the slot key, the rows as far as the slot depends on them, and the
handlers and workers that use it. The row becomes visible at `StartCommit`,
after the claim. `clear_active` is a read and a delete.

`DebugSession`: `pc` is the place in `DebugRun.run` and `_run_debug`: subscribe,
start the adapter, handshake (`Initialize`, `set_breakpoints`, `Launch`), the loop.
A round of the loop waits for the next event, the next command and the cancel
together; `Receive` takes any non-empty set of those that are ready, in the
order the code then looks at them, `Limit` is the idle or the total limit. The
details of a pause are loaded by a task of its own (`DetailsLoad`, `DetailsSave`,
`DetailsPublish`). `program` stops, exits and hangs up on its own. `stored` is
the state key, `view` the panel of a page that is connected. A place in the
program is the number of the stop it was reached by (`TopFrame` is what a stack
trace finds); a DAP request and its response are one step. Any number of PUTs of a
file's breakpoints may be in progress (`InProgress`): each finds the rows it deletes
(`seen`), commits, reads its own rows back and announces its own lines, with steps of
the others in between. `lines` is the set of changes whose rows are in the table. Two
ghosts speak of the PUTs since one last began alone: `crossed`, another began before
it had ended; `missed`, one was announced while nobody listened or by a failed command.

### CollabRoom and Presence

`CollabRoom`: a document is a set of edits, an update is a set, merging is union:
this is what the CRDT library guarantees and all that the connection protocol
relies on. `up[c]` and `down[c]` are the frames on the way. A disconnect takes
effect on both sides at once: the server of the code notices up to two
heartbeats later, and may still merge updates of the old socket, which the
client sends again anyway. `_safe_send_bytes` gives up waiting after five
seconds; the frame stays in the transport's buffer, so frames are lost only with
their connection.

`Presence`: here the server does notice late. Sockets are numbered as they are
opened, each with frames in both directions; `peers` are the entries of
`RoomAwareness` with their clocks and the socket that owns them; `editor[p]` is
what page p has open and shows. A frame to a browser says of some client ids at
which clock they are and whether their cursor is there (`Cursor`); `Newer` is which
of it counts. A cursor may move any number of times as far as the events last. `openFile`, `closeTab`, `Move`, `Reconnect` are the
page's operations, `Attach`, `Serve` and `Disconnect` the server's. `marks` are
the file tree's marks on one page; a page whose project socket is down misses
them (`stale`). Timers of y-protocols (an entry is renewed after 15 s and removed
after 30 s) are left out: without them what is wrong would stay wrong longer.

### FileHistory and FileStore

`versions_to_prune`, `split_stats` and `text_edit_update` are recursive functions and
sets over sequences. `KEEP_ALL_FOR`, `KEEP_TEN_MINUTELY_FOR`, the slot and the day are
constants, of which only that a day is a number of slots is assumed. `PruneIsExact`,
`LatestIsKept`, `DaysAreKept`, `SplitIsExact` and `EditIsExact` say for one input what the
docstrings promise. `PruneKeepsHistory`, `SplitPreservesTotals` and `TextEditIsExact`
ask TLC for every history of up to three versions, every split among up to three
authors and every pair of texts of up to three characters, with scaled times (an
hour, a day and a ten-minute slot keep their order); the proofs drop these bounds.
The exact shares of the code are floats: the model has exact fractions.

`FileStore` has the checkpoint loop, which holds the lock from its first room to
its commit, one API call (`save_file`, `restore_version`, `create_snapshot`,
`restore_snapshot`, `delete_folder`) and `prune_versions`, which the loop calls
after its commit and without the lock, each in its steps, people who type, switches of author (which close a window), rooms that are
opened, hydrated and evicted, failed commits and crashes. A document is the number of its last edit and
its text, so that a restore brings back an old text as a new document. Versions
have no times here; what pruning may delete is `Prunable`. It excludes a version
that was the latest when a snapshot restore began or came later (`Recent`, with the
ghost `from`): it is less than an hour old, or the newest of the old ones and so
the one that stands for its slot. That `versions_to_prune` keeps those is
`LatestIsKept`.

### FolderTree

`parent` and `home` are the two foreign keys. A call goes through its checks one
row at a time (`CheckParent`), through the flush of a deletion, which reads what
the ORM's cascade will delete, its commit, a read (`Refresh`) and the broadcast
(`Tell`). `page` is what a page lists, `Drawn` what its tree component draws: the
files whose folder is reached from the top folders, which is the least set closed
under "listed inside of" (`Reach`).
`raced` and `crossed` remember that a move committed between another move's
check and commit; `overtaken` that two calls wrote one row while the
first one's broadcast was on its way. Every tree is an initial state.

### Membership

A call is what it reads and checks, and its commit; other calls commit in
between. The unique constraint on (project, user) makes a second insert fail
with its whole transaction (`Conflict`, `Rollback`). `top` remembers the highest
role the owner has handed out.

### AssistantRun

`request_assistant` counts a request in the window and refuses it above the limit,
`Resolve` chooses the provider, `Post` is one HTTP attempt with its retries,
`run_tool` one tool call of the reply (with any arguments), `log_request` the
commit of the log row. The file has a copy on the server and one in the tab of each
request's user; a copy is the set of updates it holds, which arrive in the others
later, in any order. `propose_edit` looks for the span in the server's copy, the
accepted proposal for its place in the tab's, whatever the tab's sync status. Lines may read
the same, which is what a proposal can confuse. An eviction of the room or a crash
takes the server's copy back to any earlier set (`FallsBack`). The ghost `edited`
says that somebody touched the span after the check, `apart` that the copies
disagreed about it at the check. Tabs have loaded the file; edits of people who asked
for nothing begin to count when they reach the server. `shown` and `timers` are the panel of
another member, `missed` the ends it will never hear of. `configure_assistant` and `update_assistant_config` change the
provider while requests run.

## 3. Runs

| Run | Result | Question | Bounds |
|---|---|---|---|
| `PipelineFaults` | pass | what is shown and recorded, the refinement, claimed runs finish, leftovers are removed | 1 compiled run, 1 worker, cancel, sweep, 2 failures of any kind, fairness |
| `PipelineDelivery` | pass | accepted runs finish, workspaces outlive threads | 1 run, 2 workers, cancel, 2 failed Redis commands, fairness |
| `QueueRace` | pass | no run handed out twice, none passed by one it outweighs, an aged one is taken | an editor's and an owner's runs, both repeated, cancels, 2 workers, 2 looks per dequeue, 2 tokens, fairness |
| `DebugSlotLockout` | pass | never locked out | 2 sessions, 2 workers, 2 failures, fairness |
| `DebugSession` | pass | panel, state key and outcome are true, the adapter has the lines of the table unless changes crossed, every session ends | 2 stops, 2 commands or changes of breakpoints, 1 failure, fairness |
| `Collab` | pass | "synced" is true, the room is loaded, edits reach everyone and are saved | 2 tabs, 1 edit, 2 failures, fairness |
| `CollabEvicted` | violation | what is synced is saved | no failure |
| `Presence` | pass | cursors and marks are true and stay | 2 pages of any of 2 users, 2 files, 3 sockets, 1 break or move |
| `FileStore` | pass | versions, credit, Saves, undo of a restore; the pure functions | 2 files, 2 edits, 2 calls, 1 failure, 4 events of these kinds together |
| `FolderTree` | pass | loops need a race, files are found, calls end | 2 folders, 1 file, 2 handlers, 3 calls, any tree at first, fairness |
| `Membership` | pass | roles come from the owner | 2 users and the owner, 1 token, 1 request, 2 calls at a time, no other bound |
| `Assistant` | pass | requests end, proposals hit what they meant, panels forget what has ended | 2 requests, one of a user with a tab, 2 steps, 1 retry, 2 tool calls, 1 edit, change or failure, any evictions, fairness |

Why the bounds are enough: the hazards are races between two actors about one
run, slot, room, row or socket, with a failure in one of them, and in the
pipeline another one in the code that handles it. Two workers are needed for
the race about a run (`PipelineDelivery`, `QueueRace`), two tabs for convergence, two handlers for a
read that is stale at the commit and a third call for one that meets what they
left, three sockets for one page that comes back while another stays. What needs
more than that is covered where there is a proof: the theorems about the
pipeline hold for any number of runs, workers and failures (what one run leaves
behind for the next one on the same worker needs two runs), and those about debug
sessions, rooms, presence, the queue, the file store, folders, roles and the assistant for
any number of stops, commands, tabs, pages, sockets, waiting runs, edits, files,
folders, users, requests, calls and failures. `Presence` needs that most: its run has one event, so that no page comes
back twice and no cursor moves while a connection breaks.

Deadlock is checked in the pipeline runs (the sweep always goes on), in the queue
run, the collaboration runs and the membership run; elsewhere the calls,
sessions or sockets are used up and the system may stop.

Fairness: request handlers, workers and sandbox threads make progress (weak
fairness); the sweep and the checkpoint loop catch every exception and go on;
runs, debug sessions and HTTP requests to a provider have time limits; a tab
reconnects for ever; Redis expires keys, browsers fire their timers; time passes
while runs run (strong fairness of `Tick`, since workers are idle in between).
Nobody has to start, cancel, type, move, close a tab or fail.

Each property has a mutant in `PROJECT.json`: a plausible mistake in the mapped
code, as an operator next to the right one, that makes TLC report the property
violated under the same configuration. The `TypeOK` of each module states the
types of its variables; where it is not a theorem it documents them.

### Finding

`CollabEvicted` expects a violation: a room can be evicted before its last edits
are saved, although its clients showed "All changes synced".

### Where the code and its documentation part

The passing runs state their properties within these limits. The models show them
with the property and the change named here:

* A worker dying (or an HDEL reply lost) between the HDEL and the claim loses
  the run: its row stays QUEUED (`AcceptedFinishes` with `FaultKinds = {"worker"}`;
  `docs/requirements.md:28`).
* Of two PUTs of one file's breakpoints neither DELETE sees the rows the other has not
  committed yet, and the file keeps the lines of both (`OneChangeHolds` in
  `DebugSession`; `breakpoints.py:46`). `docs/api.md:187` says that the body "replaces
  the file's breakpoints". And the PUT that commits first may announce last: the session
  keeps its lines while the table has the other's (`LastChangeReachesSession`;
  `breakpoints.py:96`), although `docs/api.md:188` says that a call sends the new lines
  to a running session. Two changes and no failure are enough for either.
* The server may hold the span of a proposal once while the user's tab has another
  line that reads the same, typed or removed on one side and not delivered. Accept looks
  at the tab's copy, whatever its sync status (`Editor.tsx:278`), and may replace the
  other line (`AcceptHitsTheSpan` in `AssistantRun`, one edit).
  `docs/architecture.md:81` and `:91` say that the text was checked to be there exactly
  once and that Accept replaces the span.
* Two debug sessions can run: a row that is not committed yet is taken for a
  leftover (`OneDebugSession` in `DebugSlot`; `executions.py:185`).
* A room can be saved before it is loaded, and then be loaded empty
  (`ContentIsKept` in `CollabRoom`; `checkpoint.py:85`).
* Two folder moves that check before either commits put each folder inside the
  other, and neither is drawn any more (`NoLoop` in `FolderTree`; `folders.py:18`
  says such a parent is refused). `LoopNeedsRace` says it takes such a race.
* Deleting a folder deletes the files inside that have no version, run or
  breakpoint, and fails when one has (`FilesAreKept` in `FolderTree`;
  `docs/api.md:107` says that files inside are kept and move to the root).
* `WorkspaceOutlivesThread` holds without `"docker"` in `FaultKinds`: an error of
  `kill_execution` leaves `_run_cancellable` without the join (`worker.py:109`).
* `config.py:44` says that a wait weight above one and a half role weights lets an
  aged run outscore every fresh one. For an aged C++ run it must also be above the
  language penalty (`SaturatedOutscoresFresh`); the default weights 10, 20 and 2 are.
* `AgedIsTaken` is what the capped wait term of `compute_priority` guarantees: a
  saturated run is still passed by higher roles that have waited half as long.
* `ShownFinishedIsRecorded` says nothing of an end that is not shown: the sweep
  records one without broadcasting it (`orphan_sweep.py:64`).

What the models leave out of their properties, by the way they are stated:

* Debug session: `DapClient` calls the `_closed` handlers with an empty event
  (`dap.py:110`), so `_handle_event` does not see that the adapter is gone and the
  session goes on to its limit (`ClosedEnds` is FALSE). A `stopped` event handled
  after the program ran on makes `stackTrace` fail and ends the session with an
  error. Breakpoints changed while the run is queued are missed (`missed`), those
  of two PUTs that cross may be neither's or the older ones (`crossed`; see above).
* Presence: a page announces its file once per editor (`Editor.tsx:145`), so its
  mark does not come back after a reconnect; a page that connects later does not
  learn the marks that are there; the announcement of the file before can arrive
  after the one of the file now. A page that reconnects sees idle cursors when
  they move or are renewed (`CursorsAreSeen` is about pages that stayed).
* Rooms and files: `CollabRoom` has one room, so that a failed commit loses no other
  room's version; the transaction over all rooms is in `FileStore`. `FileStore` evicts
  no room that the loop or a call holds. In the code `last_accessed` is the time of
  the last open (`manager.py:237`), so nothing prevents it; the holder then
  goes on with the evicted room's document.
* Folders: a page is connected as long as it is modelled.
* Files: restoring a version replaces text that no version has yet;
  `get_file_text` returns "" for a room that is registered and not hydrated
  (`realtime/source.py:22`); a page keeps files and subfolders it was not told
  were deleted, and of two broadcasts of one row the older may be the last.
* Membership: two users who accept one token at the same time both join
  (`docs/api.md:70` says that accepting uses it up); two requests to join at the
  same time make two pending rows; a socket keeps the role it was opened with
  (`gateway.py:234`).
* Assistant: a proposal applied after its span was edited (`edited`), or checked while
  the copies disagreed about it (`apart`), may hit another line
  that reads the same; a panel that missed AI_FINISHED and has switched files
  shows the run for ever (`AssistantPanel.tsx:139`); a request that Redis cannot
  count is let through.
* A container whose row was deleted with its project is in neither set the sweep
  removes (`orphan_sweep.py:80`); rows are not deleted in the pipeline.

## 4. Proofs

All theorems hold for any sets of executions, workers, runs, tabs, pages, sockets,
edits, users, calls, folders and files, and any number and kind of failures (but for one, which
names the kind it excludes). The assumptions are the `ASSUME`s of the modules:
"nobody" values that are not members, folders and files with different ids, and
bounds in `Nat`.

Execution (`ExecutionPipelineProofs`):

* `LifecycleAudit`, `LifecycleFinishesOnce`: the lifecycle's trails. An exact trail
  is inductive once the rows' types are known; that a run finishes once follows
  from it, since the table has no change out of a finished status.
* `PipelineTypes`: types of the pipeline.
* `PipelineInvariant` with `PipelineCancel`, `PipelineConsole`, `PipelineKill`.
  `IInv` (module `ExecutionPipelineInv`) adds to the
  types what relates the actors: what each place in a worker's code says about
  the row it claimed and about its thread, that only the claiming worker works
  on a row, that messages and the sweep's local sets speak of finished rows, and
  that what is about to be published has been committed. None of the three
  properties is inductive: that a cancel message means a finished row needs to
  know where `cancel_execution` and the sweep are when they send it, and that
  a killed run has no container needs to know that a thread that has returned
  creates none.
* `PipelineWorkspace`: as long as Docker does not fail while a container is killed
  (`"docker" \notin FaultKinds`), a thread has its workspace until it returns. Who
  starts a thread waits for it or dies with it; with a Docker error it does not,
  and the statement is false (see above).
* `PipelineImplementsLifecycle`: every step is a step of the lifecycle or leaves
  `status` and `events` alone. It needs `IInv` for the claim and the first
  event of a row. The lifecycle's rows are independent of each other, so that
  the sweep, which writes several at once, is one step of it.
* `PipelineAudit`, `PipelineFinishesOnce`: the lifecycle's two results carried over
  to the pipeline through the refinement.
* `PipelineConsoleKeeps`: no step changes a finished status that is shown, since
  what is published over it is the recorded status, the same one.
* `QueueNoSlotTwice`, `QueueTypes`: the invariant says in addition that a
  worker that is looking has looks left.
* `QueueNobodyPassed`: of the run in a worker's hands and any other that waits, it is
  inductive that the other does not outweigh it, given that the age of what does not
  wait is 0. When the run is chosen its score is the highest (this is where
  `compute_priority` enters: rank, debug bonus and penalty together are worth at most
  what `Outweighs` grants); a tick lengthens both waits up to saturation; what
  arrives later has waited less.
* `SaturatedOutscoresFresh`: the inequality between the weights for which the same
  holds of scores, with every rank, debug bonus and language.

Debug sessions (`DebugSessionProofs`): `TypeCorrect`, `OutcomeHolds`, `ClearedHolds`,
`FramesHold`, `SettledHolds`, `LinesHold`, from one inductive invariant. Its parts:

* `Control`: what each place of the worker says about the batch in its hands, the
  program and the keys; `OneOfAKind`: a batch has at most one message of each of
  the three sources.
* `Outcome`: an `exited` event on its way or recorded is the program's own exit; a stop
  that is on its way or handled was asked for.
* `Cleared`, `Frames`: how many writes must have failed for the key to be left;
  what is loaded or published about a frame is of the place the panel shows.
* `Pausing`: the last unhandled `stopped` or `continued` event says whether the
  program is stopped, and if there is none then the session knows. That is
  what makes the panel true once the queues are empty, although every single
  event may be out of date when it is handled.
* `Lines`: a PUT that no other one crosses knows which rows there are (`Alone`): its
  DELETE found all of them, and after its commit they are its own. So whenever none is
  in progress the rows are those of the change announced last, which is the last
  `setBreakpoints` on its way or with the adapter (`TableTold`).

Rooms (`CollabRoomProofs`): `TypeCorrect`, `SyncedHolds`, `AttachedHolds`. A tab shows
"synced" when its updates are acknowledged; that the server has them needs, for each
connection, that the unacknowledged updates are exactly those on their way up plus
the acks on their way down (`Counted`), that what a synced tab has is in the room
or on its way there (`Sent`), that frames from the room hold nothing the room
lacks (`Delivers`), and that a connection that is not open has nothing on the way
(`Silent`). The room's part: whoever hydrates holds the lock, and a room with a
connection that is being opened is not evicted.

Cursors and marks (`PresenceProofs`): `TypeCorrect`, `MarksHold`, `TrueMarksHold`,
`CursorsTrueHold`, `CursorsSeenHold`, from three invariants, each inductive given the
ones before.

* `Inv1` is about sockets. They are numbered as they are opened (`Numbered`); one that
  the server still serves is in use or is going to end (`Serving`); an open editor
  has the newest socket of its client id (`Editing`); a cursor the server has is owned
  by an attached socket of that id (`Owning`); a mark that is not stale has a
  connection of its user in that file, with which it will go (`Marking`). The two
  properties of the marks follow.
* `Inv2` is about clocks. What is still on its way from a replaced socket, or is owned
  by one, is two ticks behind the editor, and what comes from the socket in use is in
  order (`Ordered`); where the cursor is now is on its way to the server or there
  (`Told`). Every cursor on its way to a page (`Relaying`) or shown (`Showing`) is where
  the server has it, or a later frame on that socket ends it. Once the queues are
  empty only the first remains, and the owner's socket is one in use.
* `Inv3` is about who sees it. Nobody has been told anything of a cursor that would
  make its page's next announcement look old: nothing above its clock, or above one
  tick more once its connection has broken and the server has announced the end
  (`Bounded`). This is where the two ticks of `reannounceAwareness` are needed. A
  connection that is not attached has brought nothing (`Fresh`), and a page that stayed
  shows each cursor the server has from a connection in use, or has it in a frame on
  its way and knows nothing as new (`Seeing`).

Versions and credit (`FileStoreProofs`): `TypeCorrect`, `VersionsHold`, `CreditHolds`,
`SavesHold`, `UndoHolds`. Whoever holds the lock is alone with the open transaction and
stages a file once, so that a staged version has a number above every committed
one and a version marked as a Save is the latest. Pruning reads and deletes
without the lock: what it has read stays below the latest version and is
never marked. An edit is in one of window, pending, the transaction and the
credited ones. The undo of a restore follows a file from the safety snapshot to
its replacement: an edit made in between is in a version, which pruning keeps
since it is recent.

File history (`FileStoreProofs`): `HelpersHold`, from five theorems without bounds.

* `SplitAlwaysExact`: for any number of authors, positive weights and total. What the
  floors leave is less than the number of authors with a remainder; the authors
  sorted by remainder are numbered without gaps (`PlacesAreFilled`), so that exactly
  the leftover is handed out (`FirstPlaces`), and only to remainders above 0.
* `EditAlwaysExact`: for any two sequences over any alphabet. The longest common prefix
  and the longest common suffix behind it exist, do not overlap in either text, and what
  is left between them differs at both ends.
* `PruneAlwaysExact`, `LatestAlwaysKept`, `DaysAlwaysKept`: for any finite history with
  distinct version numbers (`IsHistory`; `VersionsHold` proves that the store's are) and
  any times. The loop's `seen` after i rows are the slots of the old rows among them. That
  a day keeps its last version through a second pruning, when its slots have become
  one, needs that a day is a number of slots (`DivisionTwice`).

The recursive functions are unfolded by a least counterexample: the set of places where
a claim fails has a least member (`Least`), and the step before it gives the contradiction.
That the functions exist at all is proved the same way (`Steps`, `Agree`,
`RecursionExists`): functions up to i agree wherever both are defined, and their union
continues them. So no induction theorem, which takes an operator, is needed.

Folders (`FolderTreeProofs`):

* `LoopNeedsRaceTheorem`: the walk of `_check_parent` is several steps, between
  which folders are created, deleted and moved. Its invariant: the folders a walk
  has seen are closed under "parent" but for the one it looks at next, and the
  folder to be moved is not among them. A loop closed by the commit would run
  through the new parent, hence stay within the seen folders, and would have been
  there before.
* `SidebarHolds`: a row that a page does not list as it is in the database is one that a
  handler has committed and is still going to send, and unless it was overtaken
  nobody sends an older state of it.
* `UsedFilesHold`: between the flush of a deletion and its commit, the set of files it
  will delete holds none that was in use.
* `DrawnHolds`: `FileTree` starts at the folders whose parent is not listed. The
  listed folders it does not reach have parents that it does not reach either;
  such a set is a loop, which the property excludes, or empty.

Membership (`MembershipProofs`): `MembershipTypes`, `OwnerStaysOwner`,
`NobodyEscalates`, `RolesChangeByOwner`. The inductive invariant adds to the types and the
two invariants what a call may carry from its check to its commit: a role it may
still hand out although its author has been demoted meanwhile (it is at most
`top`, which never falls), a user who is not the owner; and that open tokens are
at most `top` too and no pending request is the owner's.

Assistant (`AssistantRunProofs`): `TypeCorrect`, `ApplyHolds`, `ShownHolds`, `LogHolds`, from one
inductive invariant.

* `CountedOnce`: the counter of the window is at most the number of requests begun, which
  its type needs (the counter is bounded by them).
* `Holds`: a request that calls the model has a provider; there is no log row before a
  request ends, and what `Logged` says after it. Of a proposal that nobody edited
  around since the copies agreed about its span, every update of text that reads like
  it, in whatever copy, is in the user's tab, and the only such line there is the one
  that was meant (`Found`). That survives any order of deliveries (`FoundStill`): what arrives in the tab
  is not about the span, and what the server loses the tab still has. Each accepted
  proposal counts as an edit for the others.
* `Telling`: behind the start of an ended run on the channel comes its end, and a run that a
  panel shows is running, has its end on the channel, or is one the panel missed. A panel
  without a socket has nothing on its way. Messages arrive in order, which is
  what makes an end in the channel enough. `ShownIsRunning`, the safety behind `PanelForgets`, follows; it is
  proved and in no run.

Only model-checked:

* everything under fairness (`ClaimedFinishes`, `LeftoversRemoved`, `AcceptedFinishes`,
  `AgedIsTaken`, `NeverLockedOut`, `SessionEnds`, `EditReachesEveryone`, `EditIsSaved`,
  `CallsEnd`, `RequestEnds`, `PanelForgets`), which is out of the prover's reach.

Every invariant and every action property that a passing run checks is a theorem,
`WorkspaceOutlivesThread` for `FaultKinds` without `"docker"`.

## 5. Not modelled

* Presentation, logging, formats, read-only queries (search, activity, metrics),
  the contents of documents, programs and model answers, prompts.
* Tokens, passwords and key encryption (cryptography); the login limiter, a
  counter of a few lines.
* The framing of DAP messages, the expansion of single variables and the
  program's output; awareness' binary encoding and its limits against malformed
  updates.
* The deletion of projects, and of users' own rows; the first fetch of a page and
  its tabs.
* Scripts (`scripts/`): the pilot and the experiments are measurements from
  outside.

## 6. Plan

1. Composition: sockets that keep a role across a change in `Membership`; deletion
   of a project under running executions and open rooms.
2. Page state across the first fetch and a reconnect (`SessionPage.tsx`).
3. A refinement between `CollabRoom`'s checkpoints and `FileStore`'s, which today share
   the code they model and no module.
