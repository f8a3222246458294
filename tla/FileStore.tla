------------------------------ MODULE FileStore ------------------------------
(***************************************************************************)
(* The files of a project between the live rooms and the database: the     *)
(* checkpoint loop and explicit saves (realtime/checkpoint.py), restores   *)
(* of versions and snapshots (api/files.py, api/snapshots.py), the credit  *)
(* of edits to their authors (Room.close_window, take_pending), the        *)
(* thinning of old autosaves, and the deletion of a folder with its files  *)
(* (api/folders.py).                                                       *)
(*                                                                         *)
(* A document is the number of its last edit (its bytes differ after every *)
(* edit) and its text; a text is named by the edit that first typed it.    *)
(* The loop, with the pruning it starts, and one API call are in progress  *)
(* at a time, the people who type are not limited.                         *)
(***************************************************************************)
EXTENDS FileHistory

CONSTANTS Files,
          InFolder,     \* the files in the folder that may be deleted
          Edited,       \* the files that people type in, save and restore
          MaxEdits,     \* bound: edits and restores of one file
          MaxCalls,     \* bound: API calls
          MaxFaults,    \* bound: failed commits, crashes and rooms dropped
          MaxEvents     \* bound: all three together

ASSUME FileStoreAssumption ==
    /\ InFolder \subseteq Files /\ Edited \subseteq Files
    /\ MaxCalls \in Nat /\ MaxEdits \in Nat /\ MaxFaults \in Nat /\ MaxEvents \in Nat

VARIABLES
    exists,     \* the files with a row
    room,       \* room[f]: "none", "cold" (registered, not hydrated) or "live"
    doc,        \* doc[f]: room.doc
    made,       \* made[f]: edits so far
    window,     \* window[f]: edits in the open attribution window
    pending,    \* pending[f]: edits in closed windows
    credited,   \* credited[f]: edits in committed file_changes rows
    versions,   \* versions[f]: the document_versions rows
    snapshot,   \* the snapshot somebody took: file -> document; None if there is none
    safety,     \* the snapshot taken by the restore in progress
    lock,       \* checkpoint._lock: "free", "loop" or "api"
    payload,    \* what _checkpoint_room has read of the room it is at
    tx,         \* what its open transaction is going to write
    loop,       \* the checkpoint loop: the rooms it has not come to yet
    api,        \* the API call in progress
    calls,      \* API calls so far
    prune,      \* the versions that prune_versions is going to delete
    faults

roomVars  == <<room, doc, made, window, pending>>
rowVars   == <<exists, credited, versions, snapshot>>
txVars    == <<lock, payload, tx>>
vars == <<exists, room, doc, made, window, pending, credited, versions, snapshot,
          safety, lock, payload, tx, loop, api, calls, prune, faults>>

Empty == [edit |-> 0, text |-> 0]
NoTx == [rows |-> {}, marks |-> {}, shares |-> {}]
None == [f \in {} |-> Empty]
Unread == [edit |-> 0, text |-> -1]
\* since and from are ghosts: the edits and the latest versions when a restore took
\* its safety snapshot
IdleApi == [op |-> "idle", file |-> "none", text |-> 0, pc |-> "idle", todo |-> {},
            since |-> [f \in Files |-> 0], from |-> [f \in Files |-> 0]]
IdleLoop == [todo |-> {}, file |-> "none", pc |-> "idle"]

Latest(f) == CHOOSE v \in versions[f] : \A w \in versions[f] : w.n <= v.n
LatestDoc(f) == IF versions[f] = {} THEN Empty ELSE Latest(f).doc
LatestNumber(f) == IF versions[f] = {} THEN 0 ELSE Latest(f).n

\* One more edit, call or fault is within the bound
Within == calls + faults + FoldSet(LAMBDA f, n : n + made[f], 0, Files) < MaxEvents

Fault == faults < MaxFaults /\ Within /\ faults' = faults + 1
NoFault == UNCHANGED faults
-----------------------------------------------------------------------------
(* Rooms *)

\* The first connection, or a restore, registers a room and loads it later.
Register(f) == room' = [room EXCEPT ![f] = IF @ = "none" THEN "cold" ELSE @]

OpenFile(f) ==
    /\ f \in exists /\ room[f] = "none"
    /\ Register(f)
    /\ NoFault
    /\ UNCHANGED <<doc, made, window, pending, rowVars, safety, txVars, loop, api, calls, prune>>

\* open_room: the latest version, or the empty document
Hydrate(f) ==
    /\ room[f] = "cold"
    /\ room' = [room EXCEPT ![f] = "live"]
    /\ doc' = [doc EXCEPT ![f] = LatestDoc(f)]
    /\ NoFault
    /\ UNCHANGED <<made, window, pending, rowVars, safety, txVars, loop, api, calls, prune>>

\* apply_edit: the document and the attribution window
ApplyEdit(f, text) ==
    /\ made[f] < MaxEdits /\ Within
    /\ made' = [made EXCEPT ![f] = @ + 1]
    /\ doc' = [doc EXCEPT ![f] = [edit |-> made[f] + 1, text |-> text]]
    /\ window' = [window EXCEPT ![f] = @ \union {made[f] + 1}]

Type(f) ==
    /\ f \in Edited /\ room[f] = "live"
    /\ ApplyEdit(f, made[f] + 1)
    /\ NoFault
    /\ UNCHANGED <<room, pending, rowVars, safety, txVars, loop, api, calls, prune>>

\* Somebody else starts after a pause: the window so far is closed.
SwitchAuthor(f) ==
    /\ window[f] # {}
    /\ pending' = [pending EXCEPT ![f] = @ \union window[f]]
    /\ window' = [window EXCEPT ![f] = {}]
    /\ NoFault
    /\ UNCHANGED <<room, doc, made, rowVars, safety, txVars, loop, api, calls, prune>>

\* Everybody has closed the file and cleanup_unused_rooms drops its room.  A room that
\* the loop or a call holds is left alone here: they would go on with the same document.
Evict(f) ==
    /\ room[f] = "live"
    /\ api.file # f /\ loop.file # f /\ f \notin loop.todo
    /\ room' = [room EXCEPT ![f] = "none"]
    /\ doc' = [doc EXCEPT ![f] = Empty]
    /\ window' = [window EXCEPT ![f] = {}]
    /\ pending' = [pending EXCEPT ![f] = {}]
    /\ Fault
    /\ UNCHANGED <<made, rowVars, safety, txVars, loop, api, calls, prune>>
-----------------------------------------------------------------------------
(* _checkpoint_room, for the loop and for an explicit save *)

\* The payload is read, then the latest version is selected (an await).
ReadRoom(f) == payload' = doc[f]

\* "that version is now a save"
Marks(f, saving) ==
    IF saving /\ versions[f] # {} /\ LatestDoc(f) = payload /\ ~Latest(f).save
    THEN {<<f, Latest(f).n>>} ELSE {}

\* A version for a document that differs from the latest one
NewRows(f, saving) ==
    IF versions[f] = {} THEN {<<f, [n |-> 1, doc |-> payload, save |-> saving]>>}
    ELSE IF LatestDoc(f) # payload THEN {<<f, [n |-> Latest(f).n + 1, doc |-> payload, save |-> saving]>>}
    ELSE {}

\* Mutant: what is taken from pending stays there
StillPending_All(f, closed) == pending[f] \union window[f]

\* take_pending clears what it returns
StillPending(f, closed) == IF closed THEN {} ELSE pending[f]

\* The rest of _checkpoint_room; closed: the window is closed and its credit taken
StageRoom(f, saving, closed) ==
    /\ tx' = [rows   |-> tx.rows \union NewRows(f, saving),
              marks  |-> tx.marks \union Marks(f, saving),
              shares |-> tx.shares \union (IF closed THEN {f} \X (pending[f] \union window[f]) ELSE {})]
    /\ pending' = [pending EXCEPT ![f] = StillPending(f, closed)]
    /\ window' = [window EXCEPT ![f] = IF closed THEN {} ELSE @]
    /\ payload' = Unread

\* The transaction refers to files that exist: else their foreign key fails it.
TxValid == (\A r \in tx.rows : r[1] \in exists) /\ (\A s \in tx.shares : s[1] \in exists)

Committed(f) ==
    {IF <<f, v.n>> \in tx.marks THEN [v EXCEPT !.save = TRUE] ELSE v : v \in versions[f]}
      \union {r[2] : r \in {q \in tx.rows : q[1] = f}}

\* One commit for all of it, or for none; then the lock is free.
EndTx(ok) ==
    /\ ok => TxValid
    /\ versions' = IF ok THEN [f \in Files |-> Committed(f)] ELSE versions
    /\ credited' = IF ok
                   THEN [f \in Files |-> credited[f] \union {s[2] : s \in {q \in tx.shares : q[1] = f}}]
                   ELSE credited
    /\ lock' = "free"
    /\ tx' = NoTx
    /\ payload' = Unread
    /\ UNCHANGED <<exists, snapshot>>
-----------------------------------------------------------------------------
(* checkpoint_once *)

\* Mutant: the loop does not wait for a save in progress
LockFree_Any == TRUE

LockFree == lock = "free"

LoopStart ==
    /\ loop.pc = "idle" /\ prune = {}
    /\ LockFree
    /\ \E f \in Files : room[f] # "none"
    /\ lock' = "loop"
    /\ loop' = [IdleLoop EXCEPT !.pc = "read", !.todo = {f \in Files : room[f] # "none"}]
    /\ NoFault
    /\ UNCHANGED <<roomVars, rowVars, safety, payload, tx, api, calls, prune>>

LoopRead(f) ==
    /\ loop.pc = "read" /\ f \in loop.todo
    /\ ReadRoom(f)
    /\ loop' = [todo |-> loop.todo \ {f}, file |-> f, pc |-> "stage"]
    /\ NoFault
    /\ UNCHANGED <<roomVars, rowVars, safety, lock, tx, api, calls, prune>>

\* _window_due: closed windows wait to be written, or the file is idle for five
\* seconds, or the window is a minute old
LoopStage(closed) ==
    /\ loop.pc = "stage"
    /\ closed \/ window[loop.file] # {} \/ pending[loop.file] = {}
    /\ StageRoom(loop.file, FALSE, closed)
    /\ loop' = [loop EXCEPT !.file = "none", !.pc = IF loop.todo = {} THEN "commit" ELSE "read"]
    /\ NoFault
    /\ UNCHANGED <<room, doc, made, rowVars, safety, lock, api, calls, prune>>

LoopCommit ==
    /\ loop.pc = "commit"
    /\ \/ EndTx(TRUE) /\ NoFault
       \/ EndTx(FALSE) /\ Fault
       \/ EndTx(FALSE) /\ ~TxValid /\ NoFault
    /\ loop' = IdleLoop
    /\ UNCHANGED <<roomVars, safety, api, calls, prune>>
-----------------------------------------------------------------------------
(* API calls *)

NewCall == api.op = "idle" /\ calls < MaxCalls /\ Within /\ calls' = calls + 1

\* save_file: only a loaded room has more than the latest version
save_file(f) ==
    /\ NewCall
    /\ f \in exists \cap Edited /\ room[f] = "live"
    /\ api' = [IdleApi EXCEPT !.op = "save", !.file = f, !.pc = "lock"]
    /\ NoFault
    /\ UNCHANGED <<roomVars, rowVars, safety, txVars, loop, prune>>

restore_version(f, v) ==
    /\ NewCall
    /\ f \in exists \cap Edited /\ v \in versions[f]
    /\ Register(f)
    /\ api' = [IdleApi EXCEPT !.op = "version", !.file = f, !.text = v.doc.text, !.pc = "replace"]
    /\ NoFault
    /\ UNCHANGED <<doc, made, window, pending, rowVars, safety, txVars, loop, prune>>

\* Mutant: only what is saved is in a snapshot
Content_Saved(f) == LatestDoc(f)

\* The live document if the file is open, else its latest version
Content(f) == IF room[f] = "live" THEN doc[f] ELSE LatestDoc(f)

TakeSnapshot == [f \in exists |-> Content(f)]

create_snapshot ==
    /\ NewCall
    /\ snapshot = None
    /\ snapshot' = TakeSnapshot
    /\ NoFault
    /\ UNCHANGED <<roomVars, exists, credited, versions, safety, txVars, loop, api, prune>>

\* restore_snapshot: the safety snapshot is committed, then file by file
restore_snapshot ==
    /\ NewCall
    /\ snapshot # None
    /\ safety' = TakeSnapshot
    /\ api' = [IdleApi EXCEPT !.op = "snapshot", !.todo = DOMAIN snapshot, !.pc = "next",
                               !.since = made, !.from = [f \in Files |-> LatestNumber(f)]]
    /\ NoFault
    /\ UNCHANGED <<roomVars, rowVars, txVars, loop, prune>>

RestoreNext(f) ==
    /\ api.pc = "next" /\ f \in api.todo
    /\ Register(f)
    /\ api' = [api EXCEPT !.file = f, !.todo = @ \ {f}, !.pc = "replace",
                          !.text = IF f \in DOMAIN snapshot THEN snapshot[f].text ELSE 0]
    /\ NoFault
    /\ UNCHANGED <<doc, made, window, pending, rowVars, safety, txVars, loop, calls, prune>>

\* A version restore goes on to save in any case, a snapshot restore if something changed.
AfterReplace(changed) == IF changed \/ api.op = "version" THEN "lock" ELSE "next"

\* replace_text, under the room's lock; the others see it as an edit
Replace ==
    /\ api.pc = "replace"
    /\ room[api.file] = "live"
    /\ \/ /\ doc[api.file].text # api.text
          /\ ApplyEdit(api.file, api.text)
          /\ api' = [api EXCEPT !.pc = AfterReplace(TRUE)]
       \/ /\ doc[api.file].text = api.text
          /\ api' = [api EXCEPT !.pc = AfterReplace(FALSE)]
          /\ UNCHANGED <<doc, made, window>>
    /\ NoFault
    /\ UNCHANGED <<room, pending, rowVars, safety, txVars, loop, calls, prune>>

\* save_room
SaveRead ==
    /\ api.pc = "lock"
    /\ LockFree
    /\ lock' = "api"
    /\ ReadRoom(api.file)
    /\ api' = [api EXCEPT !.pc = "stage"]
    /\ NoFault
    /\ UNCHANGED <<roomVars, rowVars, safety, tx, loop, calls, prune>>

SaveStage ==
    /\ api.pc = "stage"
    /\ StageRoom(api.file, TRUE, TRUE)
    /\ api' = [api EXCEPT !.pc = "commit"]
    /\ NoFault
    /\ UNCHANGED <<room, doc, made, rowVars, safety, lock, loop, calls, prune>>

SaveCommit ==
    /\ api.pc = "commit"
    /\ \/ /\ EndTx(TRUE)
          /\ api' = IF api.op = "snapshot" THEN [api EXCEPT !.file = "none", !.pc = "next"] ELSE IdleApi
          /\ UNCHANGED safety
          /\ NoFault
       \/ /\ EndTx(FALSE)
          /\ api' = IdleApi /\ safety' = None
          /\ Fault
       \/ /\ EndTx(FALSE) /\ ~TxValid
          /\ api' = IdleApi /\ safety' = None
          /\ NoFault
    /\ UNCHANGED <<roomVars, loop, calls, prune>>

RestoreEnds ==
    /\ api.pc = "next" /\ api.todo = {}
    /\ api' = IdleApi
    /\ safety' = None
    /\ NoFault
    /\ UNCHANGED <<roomVars, rowVars, txVars, loop, calls, prune>>

\* delete_folder: the ORM deletes the files inside too, but not their versions,
\* whose file_id cannot be NULL: with one, the call fails and nothing changes.
delete_folder ==
    /\ InFolder \cap exists # {}
    /\ \A f \in InFolder : versions[f] = {}
    /\ exists' = exists \ InFolder
    /\ snapshot' = [f \in DOMAIN snapshot \ InFolder |-> snapshot[f]]
    /\ NoFault
    /\ UNCHANGED <<roomVars, credited, versions, safety, txVars, loop, api, calls, prune>>
-----------------------------------------------------------------------------
(* prune_versions, by the loop after checkpoint_once, without the lock *)

\* Mutant: the latest version is like any other
Prunable_Latest(f) == {v \in versions[f] : ~v.save}

\* A version that was the latest within the hour is kept: it is young, or the newest
\* of the old ones and stands for its slot.  A restore takes less than an hour.
Recent(f, v) == api.op = "snapshot" /\ v.n >= api.from[f]

\* The most that versions_to_prune returns: neither a save nor the latest
Prunable(f) == {v \in versions[f] : ~v.save /\ v # Latest(f) /\ ~Recent(f, v)}

PruneRead ==
    /\ loop.pc = "idle" /\ prune = {}
    /\ \E f \in Files : Prunable(f) # {} /\ prune' = {f} \X {v.n : v \in Prunable(f)}
    /\ NoFault
    /\ UNCHANGED <<roomVars, rowVars, safety, txVars, loop, api, calls>>

PruneDelete ==
    /\ prune # {}
    /\ versions' = [f \in Files |-> {v \in versions[f] : <<f, v.n>> \notin prune}]
    /\ prune' = {}
    /\ NoFault
    /\ UNCHANGED <<roomVars, exists, credited, snapshot, safety, txVars, loop, api, calls>>
-----------------------------------------------------------------------------
\* The backend dies: the rooms, the calls and what is not committed are gone.
Crash ==
    /\ Fault
    /\ room' = [f \in Files |-> "none"]
    /\ doc' = [f \in Files |-> Empty]
    /\ window' = [f \in Files |-> {}]
    /\ pending' = [f \in Files |-> {}]
    /\ lock' = "free" /\ tx' = NoTx /\ payload' = Unread
    /\ loop' = IdleLoop /\ api' = IdleApi /\ prune' = {} /\ safety' = None
    /\ UNCHANGED <<made, rowVars, calls>>

Init ==
    /\ exists = Files
    /\ room = [f \in Files |-> "none"]
    /\ doc = [f \in Files |-> Empty]
    /\ made = [f \in Files |-> 0]
    /\ window = [f \in Files |-> {}]
    /\ pending = [f \in Files |-> {}]
    /\ credited = [f \in Files |-> {}]
    /\ versions = [f \in Files |-> {}]
    /\ snapshot = None /\ safety = None
    /\ lock = "free" /\ tx = NoTx /\ payload = Unread
    /\ loop = IdleLoop /\ api = IdleApi /\ prune = {}
    /\ calls = 0 /\ faults = 0

LoopStep == LoopStart \/ (\E f \in Files : LoopRead(f)) \/ LoopStage(TRUE) \/ LoopStage(FALSE) \/ LoopCommit
ApiStep == (\E f \in Files : RestoreNext(f)) \/ Replace \/ SaveRead \/ SaveStage \/ SaveCommit \/ RestoreEnds

Next ==
    \/ \E f \in Files :
         \/ OpenFile(f) \/ Hydrate(f) \/ Type(f) \/ SwitchAuthor(f) \/ Evict(f)
         \/ save_file(f) \/ \E v \in versions[f] : restore_version(f, v)
    \/ create_snapshot \/ restore_snapshot \/ delete_folder
    \/ LoopStep \/ ApiStep
    \/ PruneRead \/ PruneDelete
    \/ Crash

Spec == Init /\ [][Next]_vars
-----------------------------------------------------------------------------
Docs == [edit : 0..MaxEdits, text : -1..MaxEdits]

\* The types of the rooms, the rows and the calls in progress
TypeOK ==
    /\ exists \subseteq Files
    /\ room \in [Files -> {"none", "cold", "live"}]
    /\ doc \in [Files -> Docs] /\ payload \in Docs
    /\ made \in [Files -> 0..MaxEdits]
    /\ \A f \in Files : window[f] \union pending[f] \union credited[f] \subseteq 1..made[f]
    /\ \A f \in Files : versions[f] \subseteq [n : Nat \ {0}, doc : Docs, save : BOOLEAN]
    /\ DOMAIN snapshot \subseteq exists /\ DOMAIN safety \subseteq Files
    /\ lock \in {"free", "loop", "api"}
    /\ loop.file \in Files \union {"none"} /\ loop.todo \subseteq Files
    /\ api.file \in Files \union {"none"} /\ api.todo \subseteq Files
    /\ prune \subseteq Files \X Nat
    /\ calls \in 0..MaxCalls /\ faults \in 0..MaxFaults

\* The pure functions meet their definitions (FileHistory) on every input within
\* the bounds; looked at once, in the initial state.
HelpersAreExact ==
    calls + faults = 0 /\ room = [f \in Files |-> "none"] =>
        PruneKeepsHistory /\ SplitPreservesTotals /\ TextEditIsExact

\* The loop and Save both number versions, one at a time: two versions of a file
\* never have the same number, which _version (scalar_one_or_none) relies on.
VersionsAreNumbered ==
    \A f \in Files : \A v, w \in versions[f] : v.n = w.n => v = w

\* "Always kept: the latest version, every Save": pruning reads and deletes
\* without the lock, while a save turns the latest autosave into a Save.
SavesAreKept ==
    [][\A f \in exists' : \A v \in versions[f] :
         v.save \/ v = Latest(f) => \E w \in versions'[f] : w.n = v.n /\ w.doc = v.doc /\ (v.save => w.save)]_vars

Staged(f) == {s[2] : s \in {q \in tx.shares : q[1] = f}}

\* Each edit is credited to its author at most once, however saves, the loop,
\* author switches and failed commits interleave; and none is forgotten unless a
\* commit failed, a room was dropped or a room is open for a deleted file.
CreditedOnce ==
    \A f \in Files :
        /\ window[f] \cap pending[f] = {}
        /\ (window[f] \union pending[f]) \cap (Staged(f) \union credited[f]) = {}
        /\ Staged(f) \cap credited[f] = {}
        /\ faults = 0 /\ exists = Files =>
             1..made[f] = window[f] \union pending[f] \union Staged(f) \union credited[f]

\* "so a restore can be undone": a text that a snapshot restore replaces is in the
\* safety snapshot or in a version, unless it was typed after the safety snapshot.
RestoreCanBeUndone ==
    [][\A f \in Files :
         api.op = "snapshot" /\ api.pc = "replace" /\ api.file = f /\ doc'[f] # doc[f] /\ api'.pc = "lock" =>
            \/ f \in DOMAIN safety /\ doc[f].text = safety[f].text
            \/ \E v \in versions[f] : v.doc.text = doc[f].text
            \/ doc[f].edit > api.since[f]
            \/ doc[f] = Empty]_vars
=============================================================================
