------------------------------ MODULE CollabRoom ------------------------------
(***************************************************************************)
(* Collaborative editing of one file: the browser's connection             *)
(* (frontend/src/lib/ws.ts, connectCollab), the gateway and its room       *)
(* (realtime/gateway.py, manager.py, rooms.py), and the checkpoints that   *)
(* make the room durable (realtime/checkpoint.py).                         *)
(*                                                                         *)
(* A document is the set of edits merged into it: a CRDT update is a set   *)
(* of edits and applying it is union, which is what Yjs and pycrdt promise *)
(* (merging is commutative and idempotent).  Everybody here may edit.      *)
(***************************************************************************)
EXTENDS Naturals, Sequences, FiniteSets

CONSTANTS Clients,      \* browser tabs
          Edits,        \* edits that may be typed, each once
          Base,         \* what the file's latest version contains at the start
          Nobody,       \* room.lock is free
          FaultKinds,   \* subset of {"net", "db", "crash", "shutdown"}
          MaxFaults

ASSUME CollabAssumption ==
    /\ Base \cap Edits = {}
    /\ Nobody \notin Clients
    /\ MaxFaults \in Nat

VARIABLES
    tab,        \* the clients whose tab has the file open
    doc,        \* doc[c]: the tab's Y.Doc
    typed,      \* edits made so far
    sock,       \* sock[c]: "off", "lock", "select", "load" (in open_room), "open"
    synced,     \* synced[c]: this socket has delivered the server's state
    unacked,    \* unacked[c]: updates sent on this socket and not acknowledged
    up, down,   \* frames on the way to the server and to the client
    registered, \* the room is in RoomManager._rooms
    text,       \* room.doc
    hydrated,   \* room.hydrated
    lock,       \* who holds room.lock across an await
    loaded,     \* what the holder's SELECT has returned
    warm,       \* room.last_accessed is less than ttl_seconds ago
    latest,     \* the file's latest row in document_versions
    ckpc,       \* checkpoint_once: "idle" or "commit"
    payload,    \* the version it is about to commit
    faults

tabVars  == <<tab, doc, typed>>
sockVars == <<sock, synced, unacked, up, down>>
roomVars == <<registered, text, hydrated, warm>>
openVars == <<lock, loaded>>
ckVars   == <<latest, ckpc, payload>>
vars == <<tab, doc, typed, sock, synced, unacked, up, down, registered, text, hydrated,
          warm, lock, loaded, latest, ckpc, payload, faults>>

Fault(kind) == kind \in FaultKinds /\ faults < MaxFaults /\ faults' = faults + 1
NoFault == UNCHANGED faults

\* room.connections
Attached == {c \in Clients : sock[c] = "open"}
-----------------------------------------------------------------------------
(* The browser: connectCollab *)

OpenTab(c) ==
    /\ c \notin tab
    /\ tab' = tab \union {c}
    /\ NoFault
    /\ UNCHANGED <<doc, typed, sockVars, roomVars, openVars, ckVars>>

\* sendUpdate: one message, counted until its ack
SendUpdate(c, u) ==
    /\ up' = [up EXCEPT ![c] = Append(@, u)]
    /\ unacked' = [unacked EXCEPT ![c] = @ + 1]

\* A local edit: sent at once on a synced connection, else it stays in the doc.
Type(c, e) ==
    /\ c \in tab
    /\ e \in Edits \ typed
    /\ doc' = [doc EXCEPT ![c] = @ \union {e}]
    /\ typed' = typed \union {e}
    /\ IF synced[c] /\ sock[c] = "open"
       THEN SendUpdate(c, {e})
       ELSE UNCHANGED <<up, unacked>>
    /\ NoFault
    /\ UNCHANGED <<tab, sock, synced, down, roomVars, openVars, ckVars>>

\* Mutant: the server's state is loaded and nothing is sent back
Missing_None(c, u) == {}

\* What the client has and the server's first frame has not
Missing(c, u) == doc[c] \ u

\* A binary frame is merged.  The first one on a socket is the server's whole
\* document: the client answers with what is missing there.
ReceiveUpdate(c) ==
    /\ down[c] # <<>> /\ Head(down[c]).op = "update"
    /\ LET u == Head(down[c]).edits
       IN  /\ doc' = [doc EXCEPT ![c] = @ \union u]
           /\ synced' = [synced EXCEPT ![c] = TRUE]
           /\ IF ~synced[c] /\ Missing(c, u) # {}
              THEN SendUpdate(c, Missing(c, u))
              ELSE UNCHANGED <<up, unacked>>
    /\ down' = [down EXCEPT ![c] = Tail(@)]
    /\ NoFault
    /\ UNCHANGED <<tab, typed, sock, roomVars, openVars, ckVars>>

ReceiveAck(c) ==
    /\ down[c] # <<>> /\ Head(down[c]).op = "ack"
    /\ unacked' = [unacked EXCEPT ![c] = IF @ > 0 THEN @ - 1 ELSE 0]
    /\ down' = [down EXCEPT ![c] = Tail(@)]
    /\ NoFault
    /\ UNCHANGED <<tabVars, sock, synced, up, roomVars, openVars, ckVars>>

\* Nothing on the way, nothing counted: a socket that is closed
Closed(S) ==
    /\ sock' = [c \in Clients |-> IF c \in S THEN "off" ELSE sock[c]]
    /\ synced' = [c \in Clients |-> synced[c] /\ c \notin S]
    /\ unacked' = [c \in Clients |-> IF c \in S THEN 0 ELSE unacked[c]]
    /\ up' = [c \in Clients |-> IF c \in S THEN <<>> ELSE up[c]]
    /\ down' = [c \in Clients |-> IF c \in S THEN <<>> ELSE down[c]]

\* The connection dies with what is on the way; the tab keeps its document.
Drop(c) ==
    /\ sock[c] = "open"
    /\ Fault("net")
    /\ Closed({c})
    /\ UNCHANGED <<tabVars, roomVars, openVars, ckVars>>

\* The tab is closed, and its document gone; the server detaches the socket.
CloseTab(c) ==
    /\ c \in tab
    /\ sock[c] \in {"off", "open"}
    /\ tab' = tab \ {c}
    /\ doc' = [doc EXCEPT ![c] = {}]
    /\ Closed({c})
    /\ NoFault
    /\ UNCHANGED <<typed, roomVars, openVars, ckVars>>
-----------------------------------------------------------------------------
(* collab_socket, up to the first frame: open_room and attach *)

\* A (re)connection: get_or_create_room registers an empty room, not hydrated.
Connect(c) ==
    /\ c \in tab
    /\ sock[c] = "off"
    /\ sock' = [sock EXCEPT ![c] = "lock"]
    /\ registered' = TRUE
    /\ warm' = TRUE
    /\ NoFault
    /\ UNCHANGED <<tabVars, synced, unacked, up, down, text, hydrated, openVars, ckVars>>

\* The room's document, as a binary frame
FirstFrame(content) == [op |-> "update", edits |-> content]

\* attach, and the first frame
Attach(c, content) ==
    /\ sock' = [sock EXCEPT ![c] = "open"]
    /\ down' = [down EXCEPT ![c] = <<FirstFrame(content)>>]

\* open_room has the lock: the first one loads the document, holding the lock.
OpenLocked(c) ==
    /\ sock[c] = "lock"
    /\ lock = Nobody
    /\ \/ /\ hydrated
          /\ Attach(c, text)
          /\ UNCHANGED lock
       \/ /\ ~hydrated
          /\ lock' = c
          /\ sock' = [sock EXCEPT ![c] = "select"]
          /\ UNCHANGED down
    /\ NoFault
    /\ UNCHANGED <<tabVars, synced, unacked, up, roomVars, loaded, ckVars>>

OpenSelect(c) ==
    /\ sock[c] = "select"
    /\ loaded' = latest
    /\ sock' = [sock EXCEPT ![c] = "load"]
    /\ NoFault
    /\ UNCHANGED <<tabVars, synced, unacked, up, down, roomVars, lock, ckVars>>

OpenLoad(c) ==
    /\ sock[c] = "load"
    /\ text' = loaded
    /\ hydrated' = TRUE
    /\ lock' = Nobody
    /\ loaded' = {}
    /\ Attach(c, loaded)
    /\ NoFault
    /\ UNCHANGED <<tabVars, synced, unacked, up, registered, warm, ckVars>>

\* The SELECT fails: the socket is closed, the room stays as it is.
OpenFails(c) ==
    /\ sock[c] = "select"
    /\ Fault("db")
    /\ Closed({c})
    /\ lock' = Nobody
    /\ UNCHANGED <<tabVars, roomVars, loaded, ckVars>>
-----------------------------------------------------------------------------
(* collab_socket: the message loop *)

\* Mutant: the update is sent back to its sender only
Receivers_Sender(c) == {c}

\* broadcast(..., exclude=ws)
Receivers(c) == Attached \ {c}

\* op "update": apply_edit under the lock, broadcast to the others, ack
ServerUpdate(c) ==
    /\ sock[c] = "open"
    /\ lock = Nobody
    /\ up[c] # <<>>
    /\ text' = text \union Head(up[c])
    /\ up' = [up EXCEPT ![c] = Tail(@)]
    /\ down' = [d \in Clients |->
                  LET frames == IF d \in Receivers(c)
                                THEN <<[op |-> "update", edits |-> Head(up[c])]>> ELSE <<>>
                      ack    == IF d = c THEN <<[op |-> "ack", edits |-> {}]>> ELSE <<>>
                  IN  down[d] \o frames \o ack]
    /\ NoFault
    /\ UNCHANGED <<tabVars, sock, synced, unacked, registered, hydrated, warm, openVars, ckVars>>
-----------------------------------------------------------------------------
(* RoomManager.cleanup_loop *)

\* ttl_seconds pass without an open: neither an edit nor a disconnect counts as
\* an access.  open_room takes much less.
Cool ==
    /\ warm
    /\ \A c \in Clients : sock[c] \in {"off", "open"}
    /\ warm' = FALSE
    /\ NoFault
    /\ UNCHANGED <<tabVars, sockVars, registered, text, hydrated, openVars, ckVars>>

\* The room is gone; the next open makes a new, empty one.
Forget == registered' = FALSE /\ text' = {} /\ hydrated' = FALSE /\ warm' = FALSE

\* Mutant: only the time of the last access counts
Unused_Old == registered /\ ~warm

Unused == registered /\ Attached = {} /\ ~warm

cleanup_unused_rooms ==
    /\ Unused
    /\ Forget
    /\ NoFault
    /\ UNCHANGED <<tabVars, sockVars, openVars, ckVars>>
-----------------------------------------------------------------------------
(* checkpoint_once: every five seconds, for every room that is registered *)

\* Mutant: only the first version of a file is ever written
Changed_Never == latest = {}

\* latest.snapshot_bytes != payload
Changed == latest # text

CheckpointRead ==
    /\ ckpc = "idle"
    /\ registered
    /\ Changed
    /\ payload' = text
    /\ ckpc' = "commit"
    /\ NoFault
    /\ UNCHANGED <<tabVars, sockVars, roomVars, openVars, latest>>

CheckpointCommit ==
    /\ ckpc = "commit"
    /\ \/ latest' = payload /\ NoFault
       \/ UNCHANGED latest /\ Fault("db")
    /\ ckpc' = "idle"
    /\ payload' = {}
    /\ UNCHANGED <<tabVars, sockVars, roomVars, openVars>>
-----------------------------------------------------------------------------
\* The backend stops: every socket is closed, every room is gone.
Stop ==
    /\ Closed(Clients)
    /\ Forget
    /\ lock' = Nobody
    /\ loaded' = {}
    /\ ckpc' = "idle"
    /\ payload' = {}

Crash ==
    /\ Fault("crash")
    /\ Stop
    /\ UNCHANGED <<tabVars, latest>>

\* lifespan: the loops are cancelled, then a last checkpoint_once
Shutdown ==
    /\ Fault("shutdown")
    /\ Stop
    /\ latest' = IF registered /\ Changed THEN text ELSE latest
    /\ UNCHANGED tabVars
-----------------------------------------------------------------------------
Init ==
    /\ tab = {} /\ typed = {}
    /\ doc = [c \in Clients |-> {}]
    /\ sock = [c \in Clients |-> "off"]
    /\ synced = [c \in Clients |-> FALSE]
    /\ unacked = [c \in Clients |-> 0]
    /\ up = [c \in Clients |-> <<>>]
    /\ down = [c \in Clients |-> <<>>]
    /\ registered = FALSE /\ text = {} /\ hydrated = FALSE /\ warm = FALSE
    /\ lock = Nobody /\ loaded = {}
    /\ latest = Base /\ ckpc = "idle" /\ payload = {}
    /\ faults = 0

ConnectionStep(c) ==
    \/ Connect(c) \/ OpenLocked(c) \/ OpenSelect(c) \/ OpenLoad(c)
    \/ ReceiveUpdate(c) \/ ReceiveAck(c) \/ ServerUpdate(c)

CheckpointStep == CheckpointRead \/ CheckpointCommit

Next ==
    \/ \E c \in Clients :
         \/ OpenTab(c) \/ CloseTab(c) \/ Drop(c) \/ OpenFails(c)
         \/ ConnectionStep(c)
         \/ \E e \in Edits : Type(c, e)
    \/ Cool \/ cleanup_unused_rooms
    \/ CheckpointStep
    \/ Crash \/ Shutdown

Spec == Init /\ [][Next]_vars

\* A tab that is open reconnects (with backoff, for ever), frames that are not
\* lost arrive in order, and the checkpoint loop goes on after any exception.
Fairness ==
    /\ \A c \in Clients : /\ WF_vars(Connect(c) \/ OpenLocked(c) \/ OpenSelect(c) \/ OpenLoad(c))
                          /\ WF_vars(ReceiveUpdate(c) \/ ReceiveAck(c))
                          /\ WF_vars(ServerUpdate(c))
    /\ WF_vars(CheckpointStep)

FairSpec == Spec /\ Fairness
-----------------------------------------------------------------------------
Content == SUBSET (Edits \union Base)

Frame == [op : {"update", "ack"}, edits : Content]

\* The types of the room, the connections, the tabs and the frames between them
TypeOK ==
    /\ tab \subseteq Clients /\ typed \subseteq Edits
    /\ doc \in [Clients -> Content]
    /\ sock \in [Clients -> {"off", "lock", "select", "load", "open"}]
    /\ synced \in [Clients -> BOOLEAN]
    /\ unacked \in [Clients -> Nat]
    /\ up \in [Clients -> Seq(Content)]
    /\ down \in [Clients -> Seq(Frame)]
    /\ registered \in BOOLEAN /\ hydrated \in BOOLEAN /\ warm \in BOOLEAN
    /\ text \in Content /\ loaded \in Content /\ latest \in Content /\ payload \in Content
    /\ lock \in Clients \union {Nobody}
    /\ ckpc \in {"idle", "commit"}
    /\ faults \in 0..MaxFaults

\* SyncStatus "synced": the server's state has arrived and no ack is missing
StatusSynced(c) == sock[c] = "open" /\ synced[c] /\ unacked[c] = 0

\* "synced: the server has everything typed here": whatever was lost in flight on
\* earlier sockets, a tab that shows it has nothing the room lacks.
SyncedMeansServerHas ==
    \A c \in Clients : StatusSynced(c) => doc[c] \subseteq text

\* The room that clients are attached to is the one a new client will find: it is
\* hydrated before the first attach and not dropped before the last detach.
AttachedRoomIsLoaded ==
    Attached # {} => registered /\ hydrated

\* Nothing typed in a tab that stays open is lost: in the end every open tab has
\* it, whatever connections drop and however often the backend restarts.
EditReachesEveryone ==
    \A c \in Clients, e \in Edits :
        (e \in doc[c]) ~> (c \notin tab \/ \A d \in tab : e \in doc[d])

\* ... and it gets into a version.
EditIsSaved ==
    \A c \in Clients, e \in Edits : (e \in doc[c]) ~> (c \notin tab \/ e \in latest)

\* "All changes synced (everyone has them, and they're saved within a few
\* seconds)" (docs/user-guide.md), also if the tab is closed then
SyncedIsSaved ==
    \A c \in Clients, e \in Edits : (e \in doc[c] /\ StatusSynced(c)) ~> e \in latest

\* open_room: the live room, once loaded, has what the file's versions had.
ContentIsKept == hydrated => Base \subseteq text
=============================================================================
