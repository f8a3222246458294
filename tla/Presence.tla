------------------------------ MODULE Presence ------------------------------
(***************************************************************************)
(* Who is where: the cursors in a file and the marks in the file tree.     *)
(* Each page of a browser has one project socket (connectProject,          *)
(* project_socket) and, while a file is on show, one file socket after the *)
(* other (connectCollab, collab_socket). The server keeps the cursors of   *)
(* every room (RoomAwareness) and relays them; the file tree's marks are   *)
(* only relayed: every page gets the same, and nothing else depends on     *)
(* when, so one page's marks are kept, as of the step that broadcasts.     *)
(*                                                                         *)
(* Sockets are numbered as they are opened. A client id is the number of   *)
(* the first socket of its editor. Where a cursor stands is told apart by  *)
(* the clock of its announcement. A browser announces only its own cursor, *)
(* so accept's checks against other users' ids never apply.                *)
(***************************************************************************)
EXTENDS Naturals, Sequences, SequencesExt

CONSTANTS Pages, Users, Files,
          NoFile,
          MaxSockets,   \* bound: file sockets
          MaxEvents     \* bound: connections that break, and moves of a cursor

ASSUME PresenceAssumption ==
    /\ NoFile \notin Files
    /\ MaxSockets \in Nat /\ MaxEvents \in Nat

VARIABLES
    user,     \* whose page it is
    editor,   \* the file on show at each page, and its connection
    socket,   \* the file sockets, both ends
    peers,    \* RoomAwareness.peers, by client id; the room is that of the id
    marks,    \* SessionPage's presence at one of the pages: the file each user is in
    stale,    \* the users it has missed something about, its project socket being down
    used, happened

vars == <<user, editor, socket, peers, marks, stale, used, happened>>

Ids == 1..MaxSockets
NoSocket == 0
Nobody == [i \in Ids |-> 0]      \* no cursor is shown, no clock is known

NoEditor == [file |-> NoFile, id |-> NoSocket, ws |-> NoSocket, told |-> FALSE, clock |-> 0, shown |-> Nobody, known |-> Nobody]

Unused == [page |-> NoFile, file |-> NoFile, id |-> NoSocket,
           phase |-> "unused", broken |-> FALSE, up |-> <<>>, down |-> <<>>]

\* The bound on events: while there is a socket left to connect again with
Event == happened < MaxEvents /\ used < MaxSockets /\ happened' = happened + 1

SameFile(p, q) == p # q /\ editor[p].file = editor[q].file /\ editor[p].file # NoFile
NoPeer == [clock |-> 0, ws |-> NoSocket]
Here(k, f) == socket[k].phase = "attached" /\ socket[k].file = f
-----------------------------------------------------------------------------
(* The browser's end of a file socket *)

Announce(clock, on) == [op |-> "awareness_update", clock |-> clock, on |-> on]
Bye == [op |-> "disconnect"]
InFile == [op |-> "project_presence"]

\* What is sent on a connection that is broken goes nowhere.
Sends(S, ed, msgs) ==
    IF ed.ws # NoSocket /\ ~S[ed.ws].broken
    THEN [S EXCEPT ![ed.ws].up = @ \o msgs]
    ELSE S

\* connect: the server accepts before anything else, so the page announces its cursor first.
Connects(S, k, p, f, id, msgs) ==
    [S EXCEPT ![k] = [page |-> p, file |-> f, id |-> id, phase |-> "accepted", broken |-> FALSE, up |-> msgs, down |-> <<>>]]

\* close(): the removal of the cursor, then the socket's end
Closes(ed) ==
    LET S == Sends(socket, ed, <<Announce(ed.clock + 1, FALSE)>>)
    IN  IF ed.ws = NoSocket \/ S[ed.ws].broken THEN S ELSE [S EXCEPT ![ed.ws].up = Append(@, Bye)]

\* The effect of Editor: a document and a connection for the file on show
Mounted(f, k) == [file |-> f, id |-> k, ws |-> k, told |-> FALSE, clock |-> 1, shown |-> Nobody, known |-> Nobody]

\* Another file is shown: the old connection is closed before the new one is made.
openFile(p, f) ==
    /\ f # editor[p].file
    /\ used < MaxSockets
    /\ used' = used + 1
    /\ editor' = [editor EXCEPT ![p] = Mounted(f, used')]
    /\ socket' = Connects(Closes(editor[p]), used', p, f, used', <<Announce(1, TRUE)>>)
    /\ UNCHANGED <<user, peers, marks, stale, happened>>

\* The last tab is closed: no file is on show. (With other tabs, one of them is opened.)
closeTab(p) ==
    /\ editor[p].file # NoFile
    /\ editor' = [editor EXCEPT ![p] = NoEditor]
    /\ socket' = Closes(editor[p])
    /\ UNCHANGED <<user, peers, marks, stale, used, happened>>

\* setLocalState: the cursor moves, or is renewed after 15 seconds.
Move(p) ==
    /\ Event /\ editor[p].file # NoFile
    /\ editor' = [editor EXCEPT ![p].clock = @ + 1]
    /\ socket' = Sends(socket, editor[p], <<Announce(editor[p].clock + 1, TRUE)>>)
    /\ UNCHANGED <<user, peers, marks, stale, used>>

\* applyAwarenessUpdate of y-protocols: newer entries count, and a removal at the clock that is shown
Newer(ed, m) == {i \in DOMAIN m : /\ i # ed.id
                                  /\ \/ ed.known[i] < m[i].clock
                                     \/ ed.known[i] = m[i].clock /\ ~m[i].on /\ ed.shown[i] # 0}

Applied(ed, m) ==
    [ed EXCEPT !.known = [i \in Ids |-> IF i \in Newer(ed, m) THEN m[i].clock ELSE @[i]],
               !.shown = [i \in Ids |-> IF i \in Newer(ed, m) THEN IF m[i].on THEN m[i].clock ELSE 0 ELSE @[i]]]

\* The first message is the document, with the cursors that are there: the page then
\* tells the project which file it is in, once for each editor.
OnMessage(p) ==
    LET ed == editor[p]  k == editor[p].ws IN
    /\ k # NoSocket /\ socket[k].down # <<>>
    /\ LET m == Head(socket[k].down)
           S == [socket EXCEPT ![k].down = Tail(@)]
       IN  /\ editor' = [editor EXCEPT ![p] = [Applied(ed, m) EXCEPT !.told = TRUE]]
           /\ socket' = IF ed.told THEN S ELSE Sends(S, ed, <<InFile>>)
    /\ UNCHANGED <<user, peers, marks, stale, used, happened>>

\* Mutant: a reconnect announces one tick ahead
reannounceAwareness_OneTick(clock) == <<Announce(clock + 1, TRUE)>>

\* Two ticks ahead: the server may have announced the removal at one.
reannounceAwareness(clock) == <<Announce(clock + 1, TRUE), Announce(clock + 2, TRUE)>>

\* The page learns that its socket is closed: the others' cursors go (their clocks are still
\* known), and after a while it connects again.
Reconnect(p) ==
    LET ed == editor[p]
        msgs == reannounceAwareness(ed.clock)
    IN  /\ ed.ws # NoSocket /\ socket[ed.ws].broken /\ used < MaxSockets
        /\ used' = used + 1
        /\ editor' = [editor EXCEPT ![p] = [ed EXCEPT !.ws = used', !.shown = Nobody, !.clock = Last(msgs).clock]]
        /\ socket' = Connects(socket, used', p, ed.file, ed.id, msgs)
        /\ UNCHANGED <<user, peers, marks, stale, happened>>

\* The network: some of what was sent arrives, and the server learns of the end in its own
\* time, from the socket or from its heartbeat. So does a tab that crashes.
Break(k) ==
    /\ socket[k].phase \in {"accepted", "attached"} /\ ~socket[k].broken
    /\ ~Contains(socket[k].up, Bye) /\ Event
    /\ \E n \in 0..Len(socket[k].up) :
         socket' = [socket EXCEPT ![k].broken = TRUE, ![k].down = <<>>,
                                  ![k].up = Append(SubSeq(@, 1, n), Bye)]
    /\ UNCHANGED <<user, editor, peers, marks, stale, used>>
-----------------------------------------------------------------------------
(* The server's end *)

\* A message to the browsers: what is new about each of some client ids
Cursor(clock, on) == [clock |-> clock, on |-> on]

\* Connection.send: the queue has no limit, and its writer drops what cannot be sent.
Queued(s, m) == IF s.broken THEN s ELSE [s EXCEPT !.down = Append(@, m)]

\* broadcast(room, m, exclude = k)
Broadcast(S, f, m, k) ==
    [j \in Ids |-> IF j # k /\ S[j].phase = "attached" /\ S[j].file = f THEN Queued(S[j], m) ELSE S[j]]

snapshot(k) ==
    LET others == {i \in Ids : peers[i].ws \notin {NoSocket, k} /\ socket[i].file = socket[k].file}
    IN  [i \in others |-> Cursor(peers[i].clock, TRUE)]

\* open_room and attach are over: the document and the cursors that are there
Attach(k) ==
    /\ socket[k].phase = "accepted"
    /\ socket' = [socket EXCEPT ![k] = Queued([@ EXCEPT !.phase = "attached"], snapshot(k))]
    /\ UNCHANGED <<user, editor, peers, marks, stale, used, happened>>

\* An older announcement arriving late, on a socket that was replaced
Late(peer, m) == peer.ws # NoSocket /\ m.clock < peer.clock

\* RoomAwareness.accept, and the relay to the others
accept(k, m) ==
    LET i == socket[k].id
        taken == ~Late(peers[i], m) /\ (m.on \/ peers[i].ws # NoSocket)
        S == [socket EXCEPT ![k].up = Tail(@)]
    IN  /\ peers' = IF taken THEN [peers EXCEPT ![i] = IF m.on THEN [clock |-> m.clock, ws |-> k] ELSE NoPeer] ELSE peers
        /\ socket' = IF taken THEN Broadcast(S, socket[k].file, [x \in {i} |-> Cursor(m.clock, m.on)], k) ELSE S
        /\ UNCHANGED <<marks, stale, happened>>

\* Mutant: a member is in no file as soon as one is left
StillThere_Never(now, m) == FALSE

\* "ignore it if they have since opened another one"
StillThere(now, m) == m.left # NoFile /\ now # m.left

Mark(u, f, left) == [user |-> u, file |-> f, left |-> left]

\* What SessionPage makes of a project_presence message
onStructuralUpdate(seen, m) ==
    IF m.file = NoFile /\ StillThere(seen[m.user], m) THEN seen ELSE [seen EXCEPT ![m.user] = m.file]

\* The page's project socket is attached and brings it.
Reaches(m) ==
    /\ marks' = onStructuralUpdate(marks, m)
    /\ stale' = IF m.file # NoFile THEN stale \ {m.user} ELSE stale
    /\ UNCHANGED happened

\* The page's project socket is down, and when it is back nobody asks for the marks.
Misses(m) ==
    /\ Event /\ onStructuralUpdate(marks, m) # marks
    /\ stale' = stale \union {m.user}
    /\ UNCHANGED marks

broadcast_to_project(m) == Reaches(m) \/ Misses(m)

OwnerOf(k) == user[socket[k].page]

\* Mutant: asked before the connection is taken out of the room
has_user_Before(k) == TRUE

\* Another tab of the same user is in the room.
has_user(k) == \E j \in Ids \ {k} : Here(j, socket[k].file) /\ OwnerOf(j) = OwnerOf(k)

\* Mutant: the cursors are forgotten without a word
drop_Silent(k) == [i \in {} |-> Cursor(0, FALSE)]

\* The cursors socket k owns, taken away one tick after they were announced
drop(k) == [i \in {j \in Ids : peers[j].ws = k} |-> Cursor(peers[i].clock + 1, FALSE)]

Forget(k) == [i \in Ids |-> IF peers[i].ws = k THEN NoPeer ELSE peers[i]]

\* detach: the socket is out of the room, what was still queued for it is not sent.
Detached(k) == [socket EXCEPT ![k].phase = "gone", ![k].up = <<>>, ![k].down = <<>>]

\* The finally block: detach, drop, and the mark in the tree
Disconnect(k) ==
    LET gone == drop(k)
        S == Detached(k)
    IN  /\ peers' = Forget(k)
        /\ socket' = IF DOMAIN gone = {} THEN S ELSE Broadcast(S, socket[k].file, gone, NoSocket)
        /\ IF has_user(k) THEN UNCHANGED <<marks, stale, happened>>
           ELSE broadcast_to_project(Mark(OwnerOf(k), NoFile, socket[k].file))

\* The receive loop of collab_socket
Serve(k) ==
    /\ socket[k].phase = "attached" /\ socket[k].up # <<>>
    /\ LET m == Head(socket[k].up) IN
         \/ m.op = "awareness_update" /\ accept(k, m)
         \/ /\ m.op = "project_presence"
            /\ broadcast_to_project(Mark(OwnerOf(k), socket[k].file, NoFile))
            /\ socket' = [socket EXCEPT ![k].up = Tail(@)]
            /\ UNCHANGED peers
         \/ m.op = "disconnect" /\ Disconnect(k)
    /\ UNCHANGED <<user, editor, used>>
-----------------------------------------------------------------------------
Init ==
    /\ user \in [Pages -> Users]
    /\ editor = [p \in Pages |-> NoEditor]
    /\ socket = [k \in Ids |-> Unused]
    /\ peers = [i \in Ids |-> NoPeer]
    /\ marks = [u \in Users |-> NoFile]
    /\ stale = {}
    /\ used = 0 /\ happened = 0

Next ==
    \/ \E p \in Pages :
         \/ \E f \in Files : openFile(p, f)
         \/ closeTab(p) \/ Move(p) \/ OnMessage(p) \/ Reconnect(p)
    \/ \E k \in Ids : Break(k) \/ Attach(k) \/ Serve(k)

Spec == Init /\ [][Next]_vars
-----------------------------------------------------------------------------
Up == [op : {"awareness_update"}, clock : Nat, on : BOOLEAN] \union {Bye, InFile}
Down == UNION {[S -> [clock : Nat, on : BOOLEAN]] : S \in SUBSET Ids}
Page == [file : Files \union {NoFile}, id : 0..MaxSockets, ws : 0..MaxSockets, told : BOOLEAN, clock : Nat,
         shown : [Ids -> Nat], known : [Ids -> Nat]]
Socket == [page : Pages \union {NoFile}, file : Files \union {NoFile}, id : 0..MaxSockets,
           phase : {"unused", "accepted", "attached", "gone"}, broken : BOOLEAN, up : Seq(Up), down : Seq(Down)]

\* The types of the pages, the sockets with what is on its way, the cursors and the marks
TypeOK ==
    /\ user \in [Pages -> Users] /\ editor \in [Pages -> Page] /\ socket \in [Ids -> Socket]
    /\ peers \in [Ids -> [clock : Nat, ws : 0..MaxSockets]]
    /\ marks \in [Users -> Files \union {NoFile}] /\ stale \subseteq Users
    /\ used \in 0..MaxSockets /\ happened \in 0..MaxEvents

\* Everything sent has been handled, and every editor is connected.
Settled ==
    /\ \A k \in Ids : socket[k].phase # "accepted" /\ socket[k].up = <<>> /\ socket[k].down = <<>>
    /\ \A p \in Pages : editor[p].file # NoFile => ~socket[editor[p].ws].broken

\* "No goodbye needed from the client: a crashed tab loses its cursor too"
\* (collab_socket), and a socket that dies late takes nothing from the one that
\* replaced it: each cursor on a screen is that of an editor that has the file
\* open, where it is now.
CursorsAreTrue ==
    Settled => \A p \in Pages, i \in Ids : editor[p].shown[i] # 0 =>
        \E q \in Pages : SameFile(p, q) /\ editor[q].id = i /\ editor[q].clock = editor[p].shown[i]

\* The cursors of a file's editors are all seen by an editor whose connection never
\* broke: those that were there before, and those that lost their connection and
\* came back ("puts the cursor back at once", reannounceAwareness).
CursorsAreSeen ==
    Settled => \A p, q \in Pages : SameFile(p, q) /\ editor[p].ws = editor[p].id => editor[p].shown[editor[q].id] # 0

\* The file tree shows nobody in a file that they do not have open, in whatever
\* order the server learned of the files they opened and left, in one tab or two;
\* a page that was offline may have missed that they left.
MarksAreTrue ==
    Settled => \A u \in Users \ stale : marks[u] # NoFile =>
        \E q \in Pages : user[q] = u /\ editor[q].file = marks[u]

\* "``left_file_id`` lets clients ignore this if the user has meanwhile opened
\* another file" (collab_socket), and a second tab keeps the mark of the first:
\* a mark that is true, of a file whose connection is attached and never broke,
\* is not erased. (A late announcement of the file before can replace it.)
TrueMarksStay ==
    [][\A q \in Pages :
        LET ed == editor[q] IN
        /\ ed.file # NoFile /\ ed.ws = ed.id /\ Here(ed.ws, ed.file) /\ ~socket[ed.ws].broken
        /\ marks[user[q]] = ed.file /\ editor'[q].file = ed.file
        => marks'[user[q]] # NoFile]_vars
=============================================================================
