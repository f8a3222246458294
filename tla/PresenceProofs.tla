---------------------------- MODULE PresenceProofs ----------------------------
(***************************************************************************)
(* For any pages, users, files, sockets and events: once everything sent   *)
(* has been handled, the cursors and the marks on the pages are true, and  *)
(* the cursors of a file's editors are seen.                               *)
(***************************************************************************)
EXTENDS Presence, TLAPS

Open(p) == editor[p].file # NoFile
Served(k) == socket[k].phase \in {"accepted", "attached"}

\* The browser has said goodbye, or the network has.
EndsIn(u) == \E n \in 1..Len(u) : u[n] = Bye
Ends(k) == EndsIn(socket[k].up)

\* The connection of the page that opened it
Current(k) == ~socket[k].broken /\ editor[socket[k].page].ws = k

\* Socket k of page p, for client id i
Of(k, p, f, i) == socket[k].page = p /\ socket[k].file = f /\ socket[k].id = i

\* Sockets are numbered as they are opened, and those of an editor are after its first.
NumberedAt(k) ==
    /\ k > used => socket[k] = Unused
    /\ k <= used => /\ socket[k].page \in Pages /\ socket[k].file \in Files /\ socket[k].id \in 1..k
                    /\ socket[k].phase # "unused"
                    /\ Of(socket[k].id, socket[k].page, socket[k].file, socket[k].id)

Numbered == \A k \in Ids : NumberedAt(k)

\* The server's end: a socket that nobody uses any more is going to end.
ServingAt(k) ==
    /\ Served(k) => Ends(k) \/ Current(k)
    /\ socket[k].phase = "gone" => socket[k].up = <<>>
    /\ socket[k].broken \/ socket[k].phase # "attached" => socket[k].down = <<>>

Serving == \A k \in Ids : ServingAt(k)

\* The page's end
EditingAt(p) ==
    /\ ~Open(p) => editor[p] = NoEditor
    /\ Open(p) =>
          /\ editor[p].ws \in 1..used /\ editor[p].clock > 0 /\ editor[p].id # NoSocket
          /\ Of(editor[p].ws, p, editor[p].file, editor[p].id)
          /\ ~socket[editor[p].ws].broken => Served(editor[p].ws) /\ ~Ends(editor[p].ws)
          /\ \A k \in 1..used : socket[k].id = editor[p].id => k <= editor[p].ws

Editing == \A p \in Pages : EditingAt(p)

\* Whose cursors the server has
Owning == \A i \in Ids : peers[i].ws # NoSocket =>
              peers[i].ws \in 1..used /\ socket[peers[i].ws].phase = "attached" /\ socket[peers[i].ws].id = i

\* A mark has a connection that it will go with.
Marking == \A u \in Users \ stale : marks[u] # NoFile => \E k \in 1..used : Here(k, marks[u]) /\ OwnerOf(k) = u

Inv1 == TypeOK /\ Numbered /\ Serving /\ Editing /\ Owning /\ Marking

Announces(m) == m.op = "awareness_update"

\* What is announced in u is a cursor, up to clock c.
Until(u, c) == \A n \in 1..Len(u) : Announces(u[n]) => u[n].on /\ u[n].clock <= c

\* .. after clock c
After(u, c) == \A n \in 1..Len(u) : Announces(u[n]) => c < u[n].clock

Rising(u) == \A n, m \in 1..Len(u) : n < m /\ Announces(u[n]) /\ Announces(u[m]) => u[n].clock < u[m].clock

\* What is on its way from sockets that were replaced is older than the cursor by two ticks,
\* and what is on its way from the one in use comes in order.
Ordered(p) ==
    LET i == editor[p].id  c == editor[p].clock  j == editor[p].ws IN
    Open(p) =>
        /\ \A k \in 1..used : socket[k].id = i => Until(socket[k].up, c) /\ (k # j => Until(socket[k].up, c - 2))
        /\ Rising(socket[j].up)
        /\ peers[i].ws # NoSocket => peers[i].clock <= c
        /\ peers[i].ws \notin {NoSocket, j} => peers[i].clock + 2 <= c
        /\ peers[i].ws = j => After(socket[j].up, peers[i].clock)

Now(c) == Announce(c, TRUE)
Waits(u, c) == \E n \in 1..Len(u) : u[n] = Now(c)
Pending(p) == Waits(socket[editor[p].ws].up, editor[p].clock)
Known(p) == peers[editor[p].id] = [clock |-> editor[p].clock, ws |-> editor[p].ws]

\* Where the cursor is now is on its way to the server, or there.
Told(p) == Open(p) /\ ~socket[editor[p].ws].broken => Pending(p) \/ Known(p)

\* The server has the cursor, at v.
Stands(peer, v) == peer.ws # NoSocket /\ peer.clock = v

Supersedes(m, i, v) == i \in DOMAIN m /\ (m[i].clock > v \/ (m[i].clock = v /\ ~m[i].on))

\* One of the messages d after the n-th ends the cursor at v.
Overtaken(d, n, i, v) == \E m \in (n + 1)..Len(d) : Supersedes(d[m], i, v)

\* A cursor at v is where the server has it, or is going to be told that it is not.
Answered(d, n, i, v) == Stands(peers[i], v) \/ Overtaken(d, n, i, v)

\* So is each cursor on its way to a browser
RelayingAt(k) ==
    \A n \in 1..Len(socket[k].down) : \A i \in DOMAIN socket[k].down[n] :
        /\ i \in 1..used /\ socket[i].file = socket[k].file
        /\ i # socket[k].id /\ socket[k].down[n][i].on => Answered(socket[k].down, n, i, socket[k].down[n][i].clock)

\* .. and each that is shown.
ShowingAt(p) ==
    \A i \in Ids : editor[p].shown[i] # 0 =>
        /\ editor[p].known[i] = editor[p].shown[i]
        /\ i # editor[p].id /\ i <= used /\ socket[i].file = editor[p].file
        /\ socket[editor[p].ws].phase # "accepted"
        /\ ~socket[editor[p].ws].broken => Answered(socket[editor[p].ws].down, 0, i, editor[p].shown[i])

Relaying == \A k \in Ids : RelayingAt(k)
Showing == \A p \in Pages : ShowingAt(p)

Clocks(p) == Ordered(p) /\ Told(p)

Inv2 == (\A p \in Pages : Clocks(p)) /\ Relaying /\ Showing

\* A cursor that is there, at clock c
At(c) == Cursor(c, TRUE)
Cursors == [clock : Nat, on : BOOLEAN]

\* What others may have been told of the cursor of page q: nothing newer, unless its connection has
\* broken and the server has announced the end; nothing as new, while where it is now is on its way.
Allowed(q) ==
    LET c == editor[q].clock IN
    {x \in Cursors : IF socket[editor[q].ws].broken THEN x.clock <= c + 1
                     ELSE IF Pending(q) THEN x.clock < c
                     ELSE x.clock < c \/ (x.clock = c /\ x.on)}

\* What the messages d say of client id i
Says(d, i) == {d[n][i] : n \in {m \in 1..Len(d) : i \in DOMAIN d[m]}}

Bounded(q) ==
    LET i == editor[q].id IN
    Open(q) => /\ \A p \in Pages : At(editor[p].known[i]) \in Allowed(q)
               /\ \A k \in Ids : Says(socket[k].down, i) \subseteq Allowed(q)

\* Client ids that are not used yet, and connections that have brought nothing yet
Fresh(p) ==
    /\ \A i \in Ids : i > used => editor[p].known[i] = 0
    /\ Open(p) /\ editor[p].ws = editor[p].id /\ socket[editor[p].ws].phase = "accepted" => editor[p].known = Nobody

\* The connection of page p has been there since its editor is.
Stayed(p) == Open(p) /\ editor[p].ws = editor[p].id /\ Here(editor[p].ws, editor[p].file) /\ ~socket[editor[p].ws].broken

\* Page p sees the cursor of page q, or is going to.
Sees(p, q) ==
    LET i == editor[q].id  c == editor[q].clock IN
    \/ editor[p].shown[i] = c
    \/ editor[p].known[i] < c /\ At(c) \in Says(socket[editor[p].ws].down, i)

\* Page p, which has been there all the time, has the file open that page q has.
Watching(p, q) == SameFile(p, q) /\ Stayed(p) /\ ~socket[editor[q].ws].broken /\ Known(q)

Seeing(p, q) == Watching(p, q) => Sees(p, q)

Inv3 == \A p \in Pages : Bounded(p) /\ Fresh(p) /\ \A q \in Pages : Seeing(p, q)
-----------------------------------------------------------------------------
(* Queues *)

\* What is sent goes to the end.
LEMMA Grow ==
    ASSUME NEW S, NEW s \in Seq(S), NEW x \in S
    PROVE  /\ s \o <<x>> = Append(s, x) /\ Append(s, x) \in Seq(S) /\ Append(s, x) # <<>>
           /\ Len(s) \in Nat /\ Len(Append(s, x)) = Len(s) + 1
           /\ Append(s, x)[Len(s) + 1] = x
           /\ \A n \in 1..Len(s) : Append(s, x)[n] = s[n]
  OBVIOUS

\* What is received is taken from the front.
LEMMA Shrink ==
    ASSUME NEW S, NEW s \in Seq(S), s # <<>>
    PROVE  /\ Tail(s) \in Seq(S) /\ Head(s) = s[1] /\ s[1] \in S
           /\ Len(s) \in Nat \ {0} /\ Len(Tail(s)) = Len(s) - 1 /\ 1 \in 1..Len(s)
           /\ \A n \in 1..Len(Tail(s)) : n + 1 \in 1..Len(s) /\ Tail(s)[n] = s[n + 1]
           /\ \A n \in 1..Len(s) : n # 1 => n - 1 \in 1..Len(Tail(s)) /\ Tail(s)[n - 1] = s[n]
  OBVIOUS

LEMMA None == \A S : <<>> \in Seq(S) /\ Len(<<>>) = 0
  OBVIOUS

LEMMA One == ASSUME NEW S, NEW x \in S PROVE <<x>> \in Seq(S) /\ Len(<<x>>) = 1 /\ <<x>>[1] = x
  OBVIOUS

LEMMA Two ==
    ASSUME NEW S, NEW x \in S, NEW y \in S
    PROVE  <<x, y>> \in Seq(S) /\ Len(<<x, y>>) = 2 /\ <<x, y>>[1] = x /\ <<x, y>>[2] = y
  OBVIOUS

\* What arrives before a connection breaks
LEMMA Arriving ==
    ASSUME NEW S, NEW s \in Seq(S), NEW n \in 0..Len(s)
    PROVE  /\ SubSeq(s, 1, n) \in Seq(S) /\ Len(SubSeq(s, 1, n)) = n
           /\ \A m \in 1..n : m \in 1..Len(s) /\ SubSeq(s, 1, n)[m] = s[m]
  OBVIOUS

LEMMA Messages ==
    /\ Bye \in Up /\ InFile \in Up
    /\ \A c \in Nat : Announce(c, TRUE) \in Up /\ Announces(Announce(c, TRUE)) /\ Announce(c, TRUE).clock = c /\ Announce(c, TRUE).on
    /\ \A c \in Nat : Announce(c, FALSE) \in Up /\ Announces(Announce(c, FALSE)) /\ Announce(c, FALSE).clock = c /\ ~Announce(c, FALSE).on
    /\ ~Announces(Bye) /\ ~Announces(InFile)
    /\ \A c \in Nat : Announce(c, TRUE) # Bye /\ Announce(c, FALSE) # Bye
    /\ InFile # Bye
    /\ \A m \in Up : Announces(m) => m.clock \in Nat /\ m.on \in BOOLEAN /\ m = Announce(m.clock, m.on)
    /\ \A m \in Up : m.op = "disconnect" => m = Bye
    /\ \A m \in Up : m.op = "project_presence" => m = InFile
    /\ Bye.op = "disconnect" /\ InFile.op = "project_presence"
  BY DEF Bye, InFile, Up, Announce, Announces

LEMMA NowIs == \A c \in Nat : Now(c) \in Up /\ Announces(Now(c)) /\ Now(c).clock = c /\ Now(c).on /\ Now(c) # Bye
  BY DEF Now, Announce, Announces, Up, Bye

LEMMA UpdateType ==
    ASSUME NEW m \in Down
    PROVE  DOMAIN m \subseteq Ids /\ \A i \in DOMAIN m : m[i].clock \in Nat /\ m[i].on \in BOOLEAN
  BY DEF Down

LEMMA UpdateIs ==
    ASSUME NEW S \in SUBSET Ids, NEW m, m \in [S -> [clock : Nat, on : BOOLEAN]]
    PROVE  m \in Down
  BY DEF Down
-----------------------------------------------------------------------------
(* What each action does, socket by socket *)

Keeps(s, t) == s.page = t.page /\ s.file = t.file /\ s.id = t.id /\ s.phase = t.phase /\ s.broken = t.broken

LEMMA SocketFields ==
    ASSUME NEW s \in Socket
    PROVE  /\ s.page \in Pages \union {NoFile} /\ s.file \in Files \union {NoFile} /\ s.id \in 0..MaxSockets
           /\ s.phase \in {"unused", "accepted", "attached", "gone"} /\ s.broken \in BOOLEAN
           /\ s.up \in Seq(Up) /\ s.down \in Seq(Down)
  BY DEF Socket

WithUp(S, k, u) == [S EXCEPT ![k].up = u]
WithDown(S, k, d) == [S EXCEPT ![k].down = d]

\* A queue of a socket changes, and nothing else.
LEMMA SetUp ==
    ASSUME NEW S \in [Ids -> Socket], NEW k \in Ids, NEW u \in Seq(Up)
    PROVE  LET T == WithUp(S, k, u) IN
           /\ T \in [Ids -> Socket] /\ Keeps(T[k], S[k]) /\ T[k].up = u /\ T[k].down = S[k].down
           /\ \A j \in Ids \ {k} : T[j] = S[j]
  BY DEF WithUp, WithDown, Keeps, Socket

LEMMA SetDown ==
    ASSUME NEW S \in [Ids -> Socket], NEW k \in Ids, NEW d \in Seq(Down)
    PROVE  LET T == WithDown(S, k, d) IN
           /\ T \in [Ids -> Socket] /\ Keeps(T[k], S[k]) /\ T[k].up = S[k].up /\ T[k].down = d
           /\ \A j \in Ids \ {k} : T[j] = S[j]
  BY DEF WithUp, WithDown, Keeps, Socket

\* One message from a browser
LEMMA SendsOne ==
    ASSUME NEW S \in [Ids -> Socket], NEW ed, ed.ws \in Ids, NEW x \in Up
    PROVE  LET T == Sends(S, ed, <<x>>) IN
           /\ T \in [Ids -> Socket]
           /\ \A j \in Ids : /\ Keeps(T[j], S[j]) /\ T[j].down = S[j].down
                             /\ T[j].up = IF j = ed.ws /\ ~S[j].broken THEN Append(S[j].up, x) ELSE S[j].up
                             /\ j # ed.ws => T[j] = S[j]
<1> DEFINE k == ed.ws
<1>1. k \in Ids /\ k # NoSocket /\ S[k] \in Socket
  BY DEF Ids, NoSocket
<1>2. S[k].up \in Seq(Up)
  BY <1>1, SocketFields
<1>3. S[k].up \o <<x>> = Append(S[k].up, x) /\ Append(S[k].up, x) \in Seq(Up)
  BY <1>2, Grow
<1>4. CASE S[k].broken
  <2>1. Sends(S, ed, <<x>>) = S
    BY <1>4 DEF Sends
  <2>2. \A j \in Ids : ~(j = ed.ws /\ ~S[j].broken)
    BY <1>4
  <2> QED BY <2>1, <2>2 DEF Keeps
<1>5. CASE ~S[k].broken
  <2>1. Sends(S, ed, <<x>>) = [S EXCEPT ![k].up = S[k].up \o <<x>>]
    BY <1>1, <1>5 DEF Sends
  <2> DEFINE u == Append(S[k].up, x)
             T == WithUp(S, k, u)
  <2>2. Sends(S, ed, <<x>>) = T /\ u \in Seq(Up)
    BY <2>1, <1>3 DEF WithUp
  <2> HIDE DEF u
  <2>3. T \in [Ids -> Socket] /\ Keeps(T[k], S[k]) /\ T[k].up = u /\ T[k].down = S[k].down
        /\ \A j \in Ids \ {k} : T[j] = S[j]
    BY <1>1, <2>2, SetUp
  <2> HIDE DEF T
  <2> QED BY <2>2, <2>3, <1>5 DEF Keeps, u
<1> QED BY <1>4, <1>5

\* close(): the connection that page p leaves behind
Leaves(p, k, t) ==
    /\ Keeps(t, socket[k]) /\ t.down = socket[k].down
    /\ t.up = IF k = editor[p].ws /\ ~socket[k].broken
              THEN Append(Append(socket[k].up, Announce(editor[p].clock + 1, FALSE)), Bye) ELSE socket[k].up
    /\ k # editor[p].ws => t = socket[k]

LEMMA PageFields ==
    ASSUME NEW ed \in Page
    PROVE  /\ ed.file \in Files \union {NoFile} /\ ed.id \in 0..MaxSockets /\ ed.ws \in 0..MaxSockets
           /\ ed.clock \in Nat /\ ed.shown \in [Ids -> Nat] /\ ed.known \in [Ids -> Nat] /\ ed.told \in BOOLEAN
  BY DEF Page

LEMMA ClosesEffect ==
    ASSUME TypeOK, NEW p \in Pages
    PROVE  Closes(editor[p]) \in [Ids -> Socket] /\ \A k \in Ids : Leaves(p, k, Closes(editor[p])[k])
<1> DEFINE ed == editor[p]
           m == Announce(ed.clock + 1, FALSE)
           S == Sends(socket, ed, <<m>>)
<1>1. socket \in [Ids -> Socket] /\ ed \in Page
  BY DEF TypeOK
<1>2. ed.clock + 1 \in Nat /\ ed.ws \in 0..MaxSockets
  BY <1>1, PageFields
<1>3. m \in Up /\ Bye \in Up
  BY <1>2, Messages
<1>4. CASE ed.ws = NoSocket
  <2>1. Closes(ed) = socket
    BY <1>4 DEF Closes, Sends
  <2>2. \A k \in Ids : k # ed.ws
    BY <1>4 DEF Ids, NoSocket
  <2> QED BY <2>1, <2>2, <1>1 DEF Leaves, Keeps
<1>5. CASE ed.ws # NoSocket
  <2>1. ed.ws \in Ids
    BY <1>2, <1>5, PresenceAssumption DEF Ids, NoSocket
  <2> HIDE DEF m
  <2>2. /\ S \in [Ids -> Socket]
        /\ \A j \in Ids : /\ Keeps(S[j], socket[j]) /\ S[j].down = socket[j].down
                          /\ S[j].up = IF j = ed.ws /\ ~socket[j].broken THEN Append(socket[j].up, m) ELSE socket[j].up
                          /\ j # ed.ws => S[j] = socket[j]
    BY <1>1, <1>3, <2>1, SendsOne
  <2>3. S[ed.ws].broken = socket[ed.ws].broken
    BY <2>1, <2>2 DEF Keeps
  <2>4. CASE socket[ed.ws].broken
    <3>1. Closes(ed) = S
      BY <2>3, <2>4 DEF Closes, m
    <3> QED BY <3>1, <2>2, <2>4 DEF Leaves, m
  <2>5. CASE ~socket[ed.ws].broken
    <3> DEFINE u == Append(S[ed.ws].up, Bye)
               T == WithUp(S, ed.ws, u)
    <3>1. Closes(ed) = T
      BY <2>3, <2>5, <1>5 DEF Closes, WithUp, m
    <3>2. S[ed.ws] \in Socket
      BY <2>1, <2>2
    <3>3. S[ed.ws].up \in Seq(Up)
      BY <3>2, SocketFields
    <3>4. u \in Seq(Up) /\ u = Append(S[ed.ws].up, Bye) /\ ed.ws \in Ids /\ S \in [Ids -> Socket]
      BY <2>1, <2>2, <3>3, <1>3, Grow
    <3> HIDE DEF S, u
    <3>5. /\ T \in [Ids -> Socket] /\ Keeps(T[ed.ws], S[ed.ws]) /\ T[ed.ws].up = u /\ T[ed.ws].down = S[ed.ws].down
          /\ \A j \in Ids \ {ed.ws} : T[j] = S[j]
      <4> DEFINE w == ed.ws
      <4>1. u \in Seq(Up) /\ w \in Ids /\ S \in [Ids -> Socket]
        BY <3>4
      <4> HIDE DEF w
      <4>2. LET Set == WithUp(S, w, u) IN
            /\ Set \in [Ids -> Socket] /\ Keeps(Set[w], S[w]) /\ Set[w].up = u /\ Set[w].down = S[w].down
            /\ \A j \in Ids \ {w} : Set[j] = S[j]
        BY <4>1, SetUp
      <4> QED BY <4>2 DEF w
    <3> HIDE DEF T
    <3>6. T[ed.ws].up = Append(Append(socket[ed.ws].up, m), Bye) /\ Keeps(T[ed.ws], socket[ed.ws]) /\ T[ed.ws].down = socket[ed.ws].down
      <4>1. Keeps(S[ed.ws], socket[ed.ws]) /\ S[ed.ws].down = socket[ed.ws].down /\ S[ed.ws].up = Append(socket[ed.ws].up, m)
        BY <2>1, <2>2, <2>5
      <4>2. Keeps(T[ed.ws], S[ed.ws]) /\ T[ed.ws].up = Append(S[ed.ws].up, Bye) /\ T[ed.ws].down = S[ed.ws].down
        BY <3>4, <3>5
      <4> QED BY <4>1, <4>2 DEF Keeps
    <3>7. \A k \in Ids \ {ed.ws} : T[k] = socket[k]
      BY <3>5, <2>2
    <3>8. ASSUME NEW k \in Ids PROVE Leaves(p, k, T[k])
      <4>1. CASE k = ed.ws
        BY <4>1, <3>6, <2>5 DEF Leaves, m
      <4>2. CASE k # ed.ws
        BY <4>2, <3>7 DEF Leaves, Keeps
      <4> QED BY <4>1, <4>2
    <3> QED BY <3>1, <3>5, <3>8
  <2> QED BY <2>4, <2>5
<1> QED BY <1>4, <1>5

\* A connection as it is made
New(t, p, f, i) ==
    t.page = p /\ t.file = f /\ t.id = i /\ t.phase = "accepted" /\ ~t.broken /\ t.down = <<>>

Numbers == 0..MaxSockets

LEMMA ConnectsEffect ==
    ASSUME NEW S \in [Ids -> Socket], NEW k \in Ids, NEW p \in Pages, NEW f \in Files, NEW i \in Numbers, NEW u \in Seq(Up)
    PROVE  LET T == Connects(S, k, p, f, i, u) IN
           /\ T \in [Ids -> Socket] /\ New(T[k], p, f, i) /\ T[k].up = u
           /\ \A j \in Ids \ {k} : T[j] = S[j]
<1>1. [page |-> p, file |-> f, id |-> i, phase |-> "accepted", broken |-> FALSE, up |-> u, down |-> <<>>] \in Socket
  BY None DEF Socket, Numbers
<1> QED BY <1>1 DEF Connects, New

Others(p) == \A q \in Pages \ {p} : editor'[q] = editor[q]

LEMMA OpenEffect ==
    ASSUME TypeOK, NEW p \in Pages, NEW f \in Files, openFile(p, f)
    PROVE  LET n == used + 1 IN
           /\ used < MaxSockets /\ n \in Ids /\ used' = n /\ f # editor[p].file
           /\ socket' \in [Ids -> Socket] /\ editor' \in [Pages -> Page] /\ Others(p)
           /\ New(socket'[n], p, f, n) /\ socket'[n].up = <<Now(1)>>
           /\ \A k \in Ids \ {n} : Leaves(p, k, socket'[k])
           /\ LET ed == editor'[p] IN
              ed.file = f /\ ed.id = n /\ ed.ws = n /\ ed.clock = 1 /\ ed.shown = Nobody /\ ed.known = Nobody /\ ed.told = FALSE
           /\ UNCHANGED <<user, peers, marks, stale, happened>>
<1> DEFINE n == used + 1
           hello == <<Now(1)>>
<1>1. used \in Nat /\ MaxSockets \in Nat /\ used < MaxSockets /\ used' = n /\ n \in Ids /\ n \in 0..MaxSockets
  BY PresenceAssumption DEF TypeOK, openFile, Ids
<1>2. hello \in Seq(Up)
  BY NowIs, One
<1>3. socket' = Connects(Closes(editor[p]), n, p, f, n, hello)
  BY <1>1 DEF openFile, Now
<1>4. Closes(editor[p]) \in [Ids -> Socket] /\ \A k \in Ids : Leaves(p, k, Closes(editor[p])[k])
  BY ClosesEffect
<1> HIDE DEF hello
<1>5. /\ socket' \in [Ids -> Socket] /\ New(socket'[n], p, f, n) /\ socket'[n].up = hello
      /\ \A j \in Ids \ {n} : socket'[j] = Closes(editor[p])[j]
  <2>1. n \in Numbers
    BY <1>1 DEF Numbers
  <2> QED BY <1>1, <1>2, <1>3, <1>4, <2>1, ConnectsEffect
<1>6. Mounted(f, n) = [file |-> f, id |-> n, ws |-> n, told |-> FALSE, clock |-> 1, shown |-> Nobody, known |-> Nobody]
  BY DEF Mounted, NoEditor
<1>7. Nobody \in [Ids -> Nat]
  BY DEF Nobody
<1>8. Mounted(f, n) \in Page
  <2>1. [file |-> f, id |-> n, ws |-> n, told |-> FALSE, clock |-> 1, shown |-> Nobody, known |-> Nobody] \in Page
    BY <1>1, <1>7 DEF Page
  <2> QED BY <2>1, <1>6
<1>9. editor' = [editor EXCEPT ![p] = Mounted(f, n)] /\ editor \in [Pages -> Page]
  BY <1>1 DEF openFile, TypeOK
<1>10. editor' \in [Pages -> Page] /\ editor'[p] = Mounted(f, n) /\ Others(p)
  BY <1>8, <1>9 DEF Others
<1>11. \A k \in Ids \ {n} : Leaves(p, k, socket'[k])
  BY <1>4, <1>5
<1>12. UNCHANGED <<user, peers, marks, stale, happened>> /\ f # editor[p].file
  BY DEF openFile
<1>13. LET ed == editor'[p] IN
       ed.file = f /\ ed.id = n /\ ed.ws = n /\ ed.clock = 1 /\ ed.shown = Nobody /\ ed.known = Nobody /\ ed.told = FALSE
  BY <1>6, <1>10
<1> QED BY <1>1, <1>5, <1>10, <1>11, <1>12, <1>13 DEF hello

LEMMA CloseEffect ==
    ASSUME TypeOK, NEW p \in Pages, closeTab(p)
    PROVE  /\ Open(p) /\ socket' \in [Ids -> Socket] /\ editor' \in [Pages -> Page] /\ Others(p) /\ editor'[p] = NoEditor
           /\ \A k \in Ids : Leaves(p, k, socket'[k])
           /\ UNCHANGED <<user, peers, marks, stale, used, happened>>
<1>1. socket' = Closes(editor[p]) /\ editor' = [editor EXCEPT ![p] = NoEditor] /\ editor \in [Pages -> Page] /\ Open(p)
      /\ UNCHANGED <<user, peers, marks, stale, used, happened>>
  BY DEF closeTab, TypeOK, Open
<1>2. NoEditor \in Page
  BY PresenceAssumption DEF NoEditor, Page, Nobody, NoSocket
<1>3. socket' \in [Ids -> Socket] /\ \A k \in Ids : Leaves(p, k, socket'[k])
  BY <1>1, ClosesEffect
<1> QED BY <1>1, <1>2, <1>3 DEF Others

\* A page keeps its file, its client id and its connection.
Stays(p) == editor'[p].file = editor[p].file /\ editor'[p].id = editor[p].id /\ editor'[p].ws = editor[p].ws

\* A connection of an editor
LEMMA Connection ==
    ASSUME Inv1, NEW p \in Pages, editor[p].ws # NoSocket \/ Open(p)
    PROVE  /\ Open(p) /\ editor[p].ws \in 1..used /\ editor[p].ws \in Ids /\ editor[p].clock \in Nat \ {0}
           /\ editor[p].id \in Ids /\ editor[p].id \in 1..editor[p].ws
           /\ Of(editor[p].ws, p, editor[p].file, editor[p].id)
<1>1. used \in 0..MaxSockets /\ MaxSockets \in Nat /\ editor[p] \in Page
  BY PresenceAssumption DEF Inv1, TypeOK
<1>2. Open(p)
  BY DEF Inv1, Editing, EditingAt, NoEditor
<1>3. editor[p].ws \in 1..used /\ editor[p].clock > 0 /\ Of(editor[p].ws, p, editor[p].file, editor[p].id)
  BY <1>2 DEF Inv1, Editing, EditingAt
<1>4. editor[p].ws \in Ids /\ editor[p].ws <= used
  BY <1>1, <1>3 DEF Ids
<1>5. socket[editor[p].ws].id \in 1..editor[p].ws
  BY <1>4 DEF Inv1, Numbered, NumberedAt
<1> QED BY <1>1, <1>2, <1>3, <1>4, <1>5, PageFields DEF Of, Ids

LEMMA MoveEffect ==
    ASSUME Inv1, NEW p \in Pages, Move(p)
    PROVE  /\ Open(p) /\ socket' \in [Ids -> Socket] /\ editor' \in [Pages -> Page] /\ Others(p) /\ Stays(p)
           /\ editor'[p].clock = editor[p].clock + 1 /\ editor'[p].shown = editor[p].shown /\ editor'[p].known = editor[p].known
           /\ \A k \in Ids : /\ Keeps(socket'[k], socket[k]) /\ socket'[k].down = socket[k].down
                             /\ socket'[k].up = IF k = editor[p].ws /\ ~socket[k].broken
                                                THEN Append(socket[k].up, Now(editor[p].clock + 1)) ELSE socket[k].up
                             /\ k # editor[p].ws => socket'[k] = socket[k]
           /\ happened' \in 0..MaxEvents /\ UNCHANGED <<user, peers, marks, stale, used>>
<1> DEFINE m == Now(editor[p].clock + 1)
<1>1. /\ socket' = Sends(socket, editor[p], <<m>>) /\ editor' = [editor EXCEPT ![p].clock = @ + 1] /\ Open(p)
      /\ UNCHANGED <<user, peers, marks, stale, used>> /\ happened' = happened + 1 /\ happened < MaxEvents
  BY DEF Move, Event, Open, Now
<1>2. editor \in [Pages -> Page] /\ socket \in [Ids -> Socket] /\ happened \in 0..MaxEvents /\ MaxEvents \in Nat
  BY PresenceAssumption DEF Inv1, TypeOK
<1>3. editor[p].ws \in Ids /\ editor[p].clock + 1 \in Nat
  BY <1>1, Connection
<1>4. m \in Up
  BY <1>3, NowIs
<1>5. /\ editor' \in [Pages -> Page] /\ Others(p) /\ Stays(p)
      /\ editor'[p].clock = editor[p].clock + 1 /\ editor'[p].shown = editor[p].shown /\ editor'[p].known = editor[p].known
  <2>1. editor[p] \in Page
    BY <1>2
  <2>2. editor' = [editor EXCEPT ![p] = [editor[p] EXCEPT !.clock = editor[p].clock + 1]]
    BY <1>1
  <2>3. [editor[p] EXCEPT !.clock = editor[p].clock + 1] \in Page
    BY <2>1, <1>3 DEF Page
  <2> QED BY <1>2, <2>1, <2>2, <2>3 DEF Others, Stays, Page
<1> HIDE DEF m
<1>6. LET T == Sends(socket, editor[p], <<m>>) IN
      /\ T \in [Ids -> Socket]
      /\ \A j \in Ids : /\ Keeps(T[j], socket[j]) /\ T[j].down = socket[j].down
                        /\ T[j].up = IF j = editor[p].ws /\ ~socket[j].broken THEN Append(socket[j].up, m) ELSE socket[j].up
                        /\ j # editor[p].ws => T[j] = socket[j]
  BY <1>2, <1>3, <1>4, SendsOne
<1>7. /\ socket' \in [Ids -> Socket]
      /\ \A k \in Ids : /\ Keeps(socket'[k], socket[k]) /\ socket'[k].down = socket[k].down
                        /\ socket'[k].up = IF k = editor[p].ws /\ ~socket[k].broken THEN Append(socket[k].up, m) ELSE socket[k].up
                        /\ k # editor[p].ws => socket'[k] = socket[k]
  BY <1>1, <1>6
<1>8. happened' \in 0..MaxEvents
  BY <1>1, <1>2
<1> QED BY <1>1, <1>5, <1>7, <1>8 DEF m

LEMMA MessageEffect ==
    ASSUME Inv1, NEW p \in Pages, OnMessage(p)
    PROVE  LET k == editor[p].ws  m == socket[k].down[1] IN
           /\ Open(p) /\ socket' \in [Ids -> Socket] /\ editor' \in [Pages -> Page] /\ Others(p) /\ Stays(p)
           /\ editor'[p].clock = editor[p].clock
           /\ \A i \in Ids :
                 /\ editor'[p].known[i] = IF i \in Newer(editor[p], m) THEN m[i].clock ELSE editor[p].known[i]
                 /\ editor'[p].shown[i] = IF i \in Newer(editor[p], m) THEN IF m[i].on THEN m[i].clock ELSE 0 ELSE editor[p].shown[i]
           /\ socket[k].down # <<>> /\ ~socket[k].broken /\ socket[k].phase = "attached"
           /\ Keeps(socket'[k], socket[k]) /\ socket'[k].down = Tail(socket[k].down)
           /\ socket'[k].up = socket[k].up \/ socket'[k].up = Append(socket[k].up, InFile)
           /\ \A j \in Ids \ {k} : socket'[j] = socket[j]
           /\ UNCHANGED <<user, peers, marks, stale, used, happened>>
<1> DEFINE k == editor[p].ws
           S == WithDown(socket, k, Tail(socket[k].down))
           ed == editor[p]
           m == socket[k].down[1]
<1>1. /\ k # NoSocket /\ socket[k].down # <<>>
      /\ editor' = [editor EXCEPT ![p] = [Applied(ed, Head(socket[k].down)) EXCEPT !.told = TRUE]]
      /\ socket' = IF ed.told THEN S ELSE Sends(S, ed, <<InFile>>)
      /\ UNCHANGED <<user, peers, marks, stale, used, happened>>
  BY DEF OnMessage, WithDown
<1>2. Open(p) /\ k \in Ids
  BY <1>1, Connection
<1>3. editor \in [Pages -> Page] /\ socket \in [Ids -> Socket] /\ ed \in Page /\ socket[k] \in Socket
  BY <1>2 DEF Inv1, TypeOK
<1>4. socket[k].down \in Seq(Down)
  BY <1>3, SocketFields
<1>5. Tail(socket[k].down) \in Seq(Down) /\ Head(socket[k].down) = m /\ m \in Down
  BY <1>1, <1>4, Shrink
<1>6. ~socket[k].broken /\ socket[k].phase = "attached"
  BY <1>1, <1>2 DEF Inv1, Serving, ServingAt
<1>7. /\ S \in [Ids -> Socket] /\ Keeps(S[k], socket[k]) /\ S[k].up = socket[k].up /\ S[k].down = Tail(socket[k].down)
      /\ \A j \in Ids \ {k} : S[j] = socket[j]
  <2> DEFINE rest == Tail(socket[k].down)
  <2>1. rest \in Seq(Down) /\ k \in Ids /\ socket \in [Ids -> Socket]
    BY <1>2, <1>3, <1>5
  <2> HIDE DEF rest
  <2>2. LET T == WithDown(socket, k, rest) IN
        /\ T \in [Ids -> Socket] /\ Keeps(T[k], socket[k]) /\ T[k].up = socket[k].up /\ T[k].down = rest
        /\ \A j \in Ids \ {k} : T[j] = socket[j]
    BY <2>1, SetDown
  <2> QED BY <2>2 DEF rest
<1>8. /\ socket' \in [Ids -> Socket] /\ Keeps(socket'[k], socket[k]) /\ socket'[k].down = Tail(socket[k].down)
      /\ socket'[k].up = socket[k].up \/ socket'[k].up = Append(socket[k].up, InFile)
      /\ \A j \in Ids \ {k} : socket'[j] = socket[j]
  <2> HIDE DEF S
  <2>1. CASE ed.told
    BY <2>1, <1>1, <1>7
  <2>2. CASE ~ed.told
    <3> DEFINE T == Sends(S, ed, <<InFile>>)
    <3>1. InFile \in Up /\ ed.ws \in Ids /\ S \in [Ids -> Socket]
      BY <1>2, <1>7, Messages
    <3>2. /\ T \in [Ids -> Socket]
          /\ \A j \in Ids : /\ Keeps(T[j], S[j]) /\ T[j].down = S[j].down
                            /\ T[j].up = IF j = ed.ws /\ ~S[j].broken THEN Append(S[j].up, InFile) ELSE S[j].up
                            /\ j # ed.ws => T[j] = S[j]
      BY <3>1, SendsOne
    <3>3. socket' = T
      BY <2>2, <1>1
    <3> HIDE DEF T
    <3>4. Keeps(T[k], S[k]) /\ T[k].down = S[k].down /\ (T[k].up = S[k].up \/ T[k].up = Append(S[k].up, InFile))
      BY <1>2, <3>2
    <3>5. \A j \in Ids \ {k} : T[j] = S[j]
      BY <3>2
    <3> QED BY <3>2, <3>3, <3>4, <3>5, <1>7 DEF Keeps
  <2> QED BY <2>1, <2>2
<1> DEFINE known == [i \in Ids |-> IF i \in Newer(ed, m) THEN m[i].clock ELSE ed.known[i]]
           shown == [i \in Ids |-> IF i \in Newer(ed, m) THEN IF m[i].on THEN m[i].clock ELSE 0 ELSE ed.shown[i]]
           e == [Applied(ed, m) EXCEPT !.told = TRUE]
<1>9. known \in [Ids -> Nat] /\ shown \in [Ids -> Nat]
  <2>1. ed.known \in [Ids -> Nat] /\ ed.shown \in [Ids -> Nat]
    BY <1>3, PageFields
  <2>2. \A i \in Newer(ed, m) : m[i].clock \in Nat /\ m[i].on \in BOOLEAN
    BY <1>5, UpdateType DEF Newer
  <2> QED BY <2>1, <2>2
<1>10. /\ e.file = ed.file /\ e.id = ed.id /\ e.ws = ed.ws /\ e.clock = ed.clock /\ e.known = known /\ e.shown = shown /\ e \in Page
  <2> HIDE DEF m
  <2>1. Applied(ed, m) = [ed EXCEPT !.known = known, !.shown = shown]
    BY <1>3 DEF Applied, Page
  <2> HIDE DEF known, shown
  <2> QED BY <1>3, <1>9, <2>1 DEF Page
<1> HIDE DEF e
<1>11. editor' \in [Pages -> Page] /\ Others(p) /\ editor'[p] = e
  BY <1>1, <1>3, <1>5, <1>10 DEF Others, e
<1>12. \A i \in Ids :
          /\ e.known[i] = IF i \in Newer(ed, m) THEN m[i].clock ELSE ed.known[i]
          /\ e.shown[i] = IF i \in Newer(ed, m) THEN IF m[i].on THEN m[i].clock ELSE 0 ELSE ed.shown[i]
  BY <1>10
<1>13. Stays(p)
  BY <1>10, <1>11 DEF Stays
<1> HIDE DEF S, m, known, shown
<1>14. editor'[p].clock = ed.clock
  BY <1>10, <1>11
<1>15. \A i \in Ids :
          /\ editor'[p].known[i] = IF i \in Newer(ed, m) THEN m[i].clock ELSE ed.known[i]
          /\ editor'[p].shown[i] = IF i \in Newer(ed, m) THEN IF m[i].on THEN m[i].clock ELSE 0 ELSE ed.shown[i]
  BY <1>11, <1>12
<1> HIDE DEF e
<1> QED BY <1>1, <1>2, <1>6, <1>8, <1>11, <1>13, <1>14, <1>15 DEF m

LEMMA ReconnectEffect ==
    ASSUME Inv1, NEW p \in Pages, Reconnect(p)
    PROVE  LET n == used + 1  c == editor[p].clock IN
           /\ Open(p) /\ socket[editor[p].ws].broken /\ used < MaxSockets /\ n \in Ids /\ used' = n
           /\ socket' \in [Ids -> Socket] /\ editor' \in [Pages -> Page] /\ Others(p)
           /\ New(socket'[n], p, editor[p].file, editor[p].id) /\ socket'[n].up = <<Now(c + 1), Now(c + 2)>>
           /\ \A k \in Ids \ {n} : socket'[k] = socket[k]
           /\ LET ed == editor'[p] IN
              /\ ed.file = editor[p].file /\ ed.id = editor[p].id /\ ed.ws = n
              /\ ed.clock = c + 2 /\ ed.shown = Nobody /\ ed.known = editor[p].known
           /\ UNCHANGED <<user, peers, marks, stale, happened>>
<1> DEFINE n == used + 1
           ed == editor[p]
           c == editor[p].clock
           msgs == reannounceAwareness(c)
           e == [ed EXCEPT !.ws = n, !.shown = Nobody, !.clock = c + 2]
<1>1. Open(p) /\ socket[ed.ws].broken /\ used < MaxSockets /\ used' = n
  BY Connection DEF Reconnect
<1>2. /\ used \in Nat /\ MaxSockets \in Nat /\ editor \in [Pages -> Page] /\ socket \in [Ids -> Socket] /\ ed \in Page
      /\ n \in Ids /\ n \in 0..MaxSockets
  BY <1>1, PresenceAssumption DEF Inv1, TypeOK, Ids
<1>3. ed.file \in Files /\ ed.id \in 0..MaxSockets /\ c + 1 \in Nat /\ c + 2 \in Nat
  BY <1>1, <1>2, PageFields DEF Open
<1>4. Now(c + 1) \in Up /\ Now(c + 2) \in Up /\ Now(c + 2).clock = c + 2
  BY <1>3, NowIs
<1>5. msgs \in Seq(Up) /\ Last(msgs).clock = c + 2
  <2> DEFINE a == Now(c + 1)
             b == Now(c + 2)
  <2>1. msgs = <<a, b>>
    BY DEF reannounceAwareness, Now
  <2> HIDE DEF a, b, msgs
  <2>2. Len(msgs) = 2 /\ msgs[2] = b /\ msgs \in Seq(Up)
    BY <2>1, <1>4, Two DEF a, b
  <2>3. Last(msgs) = b
    BY <2>2 DEF Last
  <2> QED BY <2>2, <2>3, <1>4 DEF b
<1>6. socket' = Connects(socket, n, p, ed.file, ed.id, msgs)
  BY <1>1 DEF Reconnect
<1>7. editor' = [editor EXCEPT ![p] = [ed EXCEPT !.ws = n, !.shown = Nobody, !.clock = Last(msgs).clock]]
      /\ UNCHANGED <<user, peers, marks, stale, happened>>
  BY <1>1 DEF Reconnect
<1>8. editor' = [editor EXCEPT ![p] = e]
  BY <1>5, <1>7
<1>9. e \in Page /\ e.file = ed.file /\ e.id = ed.id /\ e.ws = n /\ e.clock = c + 2 /\ e.shown = Nobody /\ e.known = ed.known
  <2>1. Nobody \in [Ids -> Nat]
    BY DEF Nobody
  <2> QED BY <2>1, <1>2, <1>3 DEF Page
<1> HIDE DEF e, msgs
<1>10. editor' \in [Pages -> Page] /\ Others(p) /\ editor'[p] = e
  BY <1>2, <1>8, <1>9 DEF Others
<1>11. /\ socket' \in [Ids -> Socket] /\ New(socket'[n], p, ed.file, ed.id) /\ socket'[n].up = msgs
       /\ \A j \in Ids \ {n} : socket'[j] = socket[j]
  <2>1. ed.id \in Numbers
    BY <1>3 DEF Numbers
  <2>2. n \in Ids /\ socket \in [Ids -> Socket] /\ msgs \in Seq(Up) /\ ed.file \in Files
    BY <1>2, <1>3, <1>5
  <2> HIDE DEF n, ed, c
  <2> QED BY <1>6, <2>1, <2>2, ConnectsEffect
<1>12. msgs = <<Now(c + 1), Now(c + 2)>>
  BY DEF reannounceAwareness, Now, msgs
<1> QED BY <1>1, <1>2, <1>7, <1>9, <1>10, <1>11, <1>12

\* A connection that breaks
Breaks(s, t) ==
    /\ t.page = s.page /\ t.file = s.file /\ t.id = s.id /\ t.phase = s.phase
    /\ ~s.broken /\ t.broken /\ t.down = <<>>
    /\ \E n \in 0..Len(s.up) : t.up = Append(SubSeq(s.up, 1, n), Bye)

LEMMA BreakEffect ==
    ASSUME TypeOK, NEW k \in Ids, Break(k)
    PROVE  /\ socket' \in [Ids -> Socket] /\ Served(k) /\ Breaks(socket[k], socket'[k])
           /\ \A j \in Ids \ {k} : socket'[j] = socket[j]
           /\ happened' \in 0..MaxEvents /\ UNCHANGED <<user, editor, peers, marks, stale, used>>
<1>1. socket \in [Ids -> Socket] /\ socket[k] \in Socket /\ happened \in 0..MaxEvents /\ MaxEvents \in Nat
  BY PresenceAssumption DEF TypeOK
<1>2. PICK n \in 0..Len(socket[k].up) :
         socket' = [socket EXCEPT ![k].broken = TRUE, ![k].down = <<>>, ![k].up = Append(SubSeq(socket[k].up, 1, n), Bye)]
  BY DEF Break
<1>3. socket[k].up \in Seq(Up)
  BY <1>1, SocketFields
<1>4. SubSeq(socket[k].up, 1, n) \in Seq(Up)
  BY <1>3, Arriving
<1> DEFINE u == Append(SubSeq(socket[k].up, 1, n), Bye)
           s == socket[k]
           t == [s EXCEPT !.broken = TRUE, !.down = <<>>, !.up = u]
<1>5. u \in Seq(Up)
  BY <1>4, Messages, Grow
<1>6. socket' = [socket EXCEPT ![k] = t]
  BY <1>1, <1>2
<1>7. Served(k) /\ ~s.broken /\ UNCHANGED <<user, editor, peers, marks, stale, used>> /\ happened' = happened + 1 /\ happened < MaxEvents
  BY DEF Break, Event, Served
<1>8. /\ t.page = s.page /\ t.file = s.file /\ t.id = s.id /\ t.phase = s.phase /\ t.broken /\ t.down = <<>> /\ t.up = u
      /\ t \in Socket
  <2> HIDE DEF u
  <2> QED BY <1>1, <1>5, None DEF Socket
<1>9. Breaks(s, t)
  BY <1>2, <1>7, <1>8 DEF Breaks
<1> HIDE DEF t
<1> QED BY <1>1, <1>6, <1>7, <1>8, <1>9

\* A socket to which m is queued
Gets(s, m, t) ==
    Keeps(t, s) /\ t.up = s.up /\ (s.broken => t = s) /\ t.down = IF s.broken THEN s.down ELSE Append(s.down, m)

LEMMA QueuedEffect ==
    ASSUME NEW s \in Socket, NEW m \in Down
    PROVE  Queued(s, m) \in Socket /\ Gets(s, m, Queued(s, m))
<1>1. s.down \in Seq(Down)
  BY SocketFields
<1> DEFINE d == Append(s.down, m)
<1>2. d \in Seq(Down)
  BY <1>1, Grow
<1>3. Queued(s, m) = IF s.broken THEN s ELSE [s EXCEPT !.down = d]
  BY DEF Queued
<1> HIDE DEF d
<1>4. CASE s.broken
  BY <1>3, <1>4 DEF Gets, Keeps
<1>5. CASE ~s.broken
  <2>1. [s EXCEPT !.down = d] \in Socket
    BY <1>2 DEF Socket
  <2>2. LET t == [s EXCEPT !.down = d] IN Keeps(t, s) /\ t.up = s.up /\ t.down = d
    BY DEF Keeps, Socket
  <2> QED BY <1>3, <1>5, <2>1, <2>2 DEF Gets, d
<1> QED BY <1>4, <1>5

LEMMA SnapshotType ==
    ASSUME TypeOK, NEW k \in Ids
    PROVE  /\ snapshot(k) \in Down
           /\ \A i \in Ids : i \in DOMAIN snapshot(k) <=> peers[i].ws \notin {NoSocket, k} /\ socket[i].file = socket[k].file
           /\ \A i \in DOMAIN snapshot(k) : i \in Ids /\ snapshot(k)[i] = Cursor(peers[i].clock, TRUE)
<1> DEFINE others == {i \in Ids : peers[i].ws \notin {NoSocket, k} /\ socket[i].file = socket[k].file}
<1>1. snapshot(k) = [i \in others |-> Cursor(peers[i].clock, TRUE)]
  BY DEF snapshot
<1>2. \A i \in Ids : peers[i].clock \in Nat
  BY DEF TypeOK
<1>3. snapshot(k) \in [others -> [clock : Nat, on : BOOLEAN]]
  BY <1>1, <1>2 DEF Cursor
<1>4. snapshot(k) \in Down
  BY <1>3 DEF Down
<1> QED BY <1>1, <1>4

LEMMA AttachEffect ==
    ASSUME TypeOK, NEW k \in Ids, Attach(k)
    PROVE  /\ socket' \in [Ids -> Socket] /\ socket[k].phase = "accepted" /\ socket'[k].phase = "attached"
           /\ socket'[k].page = socket[k].page /\ socket'[k].file = socket[k].file /\ socket'[k].id = socket[k].id
           /\ socket'[k].broken = socket[k].broken /\ socket'[k].up = socket[k].up
           /\ socket'[k].down = IF socket[k].broken THEN socket[k].down ELSE Append(socket[k].down, snapshot(k))
           /\ \A j \in Ids \ {k} : socket'[j] = socket[j]
           /\ UNCHANGED <<user, editor, peers, marks, stale, used, happened>>
<1> DEFINE s == [socket[k] EXCEPT !.phase = "attached"]
<1>1. socket \in [Ids -> Socket] /\ socket[k] \in Socket
  BY DEF TypeOK
<1>2. s \in Socket /\ s.page = socket[k].page /\ s.file = socket[k].file /\ s.id = socket[k].id /\ s.phase = "attached"
      /\ s.broken = socket[k].broken /\ s.up = socket[k].up /\ s.down = socket[k].down
  BY <1>1 DEF Socket
<1>3. socket' = [socket EXCEPT ![k] = Queued(s, snapshot(k))] /\ socket[k].phase = "accepted"
      /\ UNCHANGED <<user, editor, peers, marks, stale, used, happened>>
  BY DEF Attach
<1> HIDE DEF s
<1>4. Queued(s, snapshot(k)) \in Socket /\ Gets(s, snapshot(k), Queued(s, snapshot(k)))
  BY <1>2, SnapshotType, QueuedEffect
<1> QED BY <1>1, <1>2, <1>3, <1>4 DEF Gets, Keeps

\* A socket while m is relayed to the others of file f, without socket k
Hears(s, j, f, m, k, t) ==
    /\ Keeps(t, s) /\ t.up = s.up
    /\ t.down = IF j # k /\ s.phase = "attached" /\ s.file = f /\ ~s.broken THEN Append(s.down, m) ELSE s.down
    /\ ~(j # k /\ s.phase = "attached" /\ s.file = f /\ ~s.broken) => t = s

LEMMA BroadcastEffect ==
    ASSUME NEW S \in [Ids -> Socket], NEW f, NEW m \in Down, NEW k
    PROVE  LET T == Broadcast(S, f, m, k) IN
           T \in [Ids -> Socket] /\ \A j \in Ids : Hears(S[j], j, f, m, k, T[j])
<1> DEFINE T == Broadcast(S, f, m, k)
<1>1. T = [j \in Ids |-> IF j # k /\ S[j].phase = "attached" /\ S[j].file = f THEN Queued(S[j], m) ELSE S[j]]
  BY DEF Broadcast
<1> HIDE DEF T
<1>2. ASSUME NEW j \in Ids PROVE T[j] \in Socket /\ Hears(S[j], j, f, m, k, T[j])
  <2>1. S[j] \in Socket
    OBVIOUS
  <2>2. CASE j # k /\ S[j].phase = "attached" /\ S[j].file = f
    <3>1. T[j] = Queued(S[j], m)
      BY <1>1, <2>2
    <3> QED BY <2>1, <2>2, <3>1, QueuedEffect DEF Gets, Hears
  <2>3. CASE ~(j # k /\ S[j].phase = "attached" /\ S[j].file = f)
    <3>1. T[j] = S[j]
      BY <1>1, <2>3
    <3> QED BY <2>1, <2>3, <3>1 DEF Hears, Keeps
  <2> QED BY <2>2, <2>3
<1> QED BY <1>1, <1>2 DEF T

\* A message that is about one cursor
About(i, c) == [x \in {i} |-> c]

LEMMA AboutIs ==
    ASSUME NEW i \in Ids, NEW c \in Nat, NEW on \in BOOLEAN
    PROVE  About(i, Cursor(c, on)) \in Down /\ DOMAIN About(i, Cursor(c, on)) = {i} /\ About(i, Cursor(c, on))[i] = Cursor(c, on)
<1>1. About(i, Cursor(c, on)) \in [{i} -> [clock : Nat, on : BOOLEAN]]
  BY DEF About, Cursor
<1>2. About(i, Cursor(c, on)) \in Down
  BY <1>1 DEF Down
<1> QED BY <1>2 DEF About

Taken(k, m) == ~Late(peers[socket[k].id], m) /\ (m.on \/ peers[socket[k].id].ws # NoSocket)

Listens(j, k) == socket[j].phase = "attached" /\ socket[j].file = socket[k].file /\ ~socket[j].broken

\* Handling the head of what is on its way to the server
Handling(k) == k \in Ids /\ socket[k].phase = "attached" /\ socket[k].up # <<>>

LEMMA Handled ==
    ASSUME Inv1, NEW k, Handling(k)
    PROVE  LET u == socket[k].up IN
           /\ k \in 1..used /\ socket \in [Ids -> Socket] /\ peers \in [Ids -> [clock : Nat, ws : 0..MaxSockets]]
           /\ socket[k] \in Socket /\ u \in Seq(Up) /\ Head(u) = u[1] /\ u[1] \in Up /\ Tail(u) \in Seq(Up)
           /\ socket[k].id \in Ids /\ socket[k].page \in Pages /\ socket[k].file \in Files /\ k # NoSocket
<1>1. socket \in [Ids -> Socket] /\ socket[k] \in Socket /\ used \in 0..MaxSockets /\ MaxSockets \in Nat /\ k \in 1..MaxSockets
      /\ peers \in [Ids -> [clock : Nat, ws : 0..MaxSockets]]
  BY PresenceAssumption DEF Inv1, TypeOK, Handling, Ids
<1>2. socket[k].up \in Seq(Up)
  BY <1>1, SocketFields
<1>3. k <= used
  BY <1>1 DEF Inv1, Numbered, NumberedAt, Handling, Unused
<1>4. socket[k].id \in 1..k /\ socket[k].page \in Pages /\ socket[k].file \in Files
  BY <1>3 DEF Inv1, Numbered, NumberedAt, Handling
<1>5. socket[k].up # <<>> /\ socket[k].id \in Ids /\ k # NoSocket
  BY <1>1, <1>4 DEF Ids, Handling, NoSocket
<1> HIDE DEF Handling
<1>6. LET u == socket[k].up IN Head(u) = u[1] /\ u[1] \in Up /\ Tail(u) \in Seq(Up)
  BY <1>2, <1>5, Shrink
<1> QED BY <1>1, <1>2, <1>3, <1>4, <1>5, <1>6

\* What the others are told of the head of the queue
News(k) == About(socket[k].id, Cursor(socket[k].up[1].clock, socket[k].up[1].on))

LEMMA AcceptSockets ==
    ASSUME Inv1, NEW k, Handling(k), Announces(Head(socket[k].up)), accept(k, Head(socket[k].up))
    PROVE  /\ socket' \in [Ids -> Socket] /\ socket'[k].up = Tail(socket[k].up)
           /\ \A j \in Ids : /\ Keeps(socket'[j], socket[j])
                             /\ j # k => socket'[j].up = socket[j].up
                             /\ socket'[j].down = IF Taken(k, socket[k].up[1]) /\ j # k /\ Listens(j, k)
                                                  THEN Append(socket[j].down, News(k)) ELSE socket[j].down
                             /\ j # k /\ ~Listens(j, k) => socket'[j] = socket[j]
<1> DEFINE m == socket[k].up[1]
           i == socket[k].id
           S == WithUp(socket, k, Tail(socket[k].up))
           f == socket[k].file
           a == About(i, Cursor(m.clock, m.on))
<1>1. /\ k \in Ids /\ socket \in [Ids -> Socket] /\ peers \in [Ids -> [clock : Nat, ws : 0..MaxSockets]]
      /\ Head(socket[k].up) = m /\ m \in Up /\ Tail(socket[k].up) \in Seq(Up) /\ i \in Ids
  BY Handled DEF Handling
<1>2. Announces(m) /\ m.clock \in Nat /\ m.on \in BOOLEAN
  BY <1>1, Messages
<1>3. /\ S \in [Ids -> Socket] /\ Keeps(S[k], socket[k]) /\ S[k].up = Tail(socket[k].up) /\ S[k].down = socket[k].down
      /\ \A j \in Ids \ {k} : S[j] = socket[j]
  <2> DEFINE rest == Tail(socket[k].up)
  <2>1. rest \in Seq(Up) /\ k \in Ids /\ socket \in [Ids -> Socket]
    BY <1>1
  <2> HIDE DEF rest
  <2>2. LET T == WithUp(socket, k, rest) IN
        /\ T \in [Ids -> Socket] /\ Keeps(T[k], socket[k]) /\ T[k].up = rest /\ T[k].down = socket[k].down
        /\ \A j \in Ids \ {k} : T[j] = socket[j]
    BY <2>1, SetUp
  <2> QED BY <2>2 DEF rest
<1>4. socket' = IF Taken(k, m) THEN Broadcast(S, f, a, k) ELSE S
  BY <1>1 DEF accept, Taken, About, WithUp
<1>5. a \in Down
  BY <1>1, <1>2, AboutIs
<1> HIDE DEF S, a, m
<1>6. LET T == Broadcast(S, f, a, k) IN T \in [Ids -> Socket] /\ \A j \in Ids : Hears(S[j], j, f, a, k, T[j])
  BY <1>3, <1>5, BroadcastEffect
<1>7. socket' \in [Ids -> Socket] /\ socket'[k].up = Tail(socket[k].up)
      /\ \A j \in Ids : /\ Keeps(socket'[j], socket[j])
                        /\ j # k => socket'[j].up = socket[j].up
                        /\ socket'[j].down = IF Taken(k, m) /\ j # k /\ Listens(j, k) THEN Append(socket[j].down, a) ELSE socket[j].down
                        /\ j # k /\ ~Listens(j, k) => socket'[j] = socket[j]
  <2>1. CASE Taken(k, m)
    <3>1. socket' \in [Ids -> Socket] /\ \A j \in Ids : Hears(S[j], j, f, a, k, socket'[j])
      BY <2>1, <1>4, <1>6
    <3>2. socket'[k].up = Tail(socket[k].up) /\ Keeps(socket'[k], socket[k]) /\ socket'[k].down = socket[k].down
      BY <3>1, <1>1, <1>3 DEF Hears, Keeps
    <3>3. ASSUME NEW j \in Ids \ {k}
          PROVE  /\ Keeps(socket'[j], socket[j]) /\ socket'[j].up = socket[j].up
                 /\ socket'[j].down = IF Listens(j, k) THEN Append(socket[j].down, a) ELSE socket[j].down
                 /\ ~Listens(j, k) => socket'[j] = socket[j]
      BY <3>1, <3>3, <1>3 DEF Hears, Keeps, Listens
    <3> QED BY <2>1, <3>1, <3>2, <3>3
  <2>2. CASE ~Taken(k, m)
    BY <2>2, <1>1, <1>3, <1>4 DEF Keeps
  <2> QED BY <2>1, <2>2
<1>8. a = News(k)
  BY DEF a, m, News
<1> QED BY <1>7, <1>8 DEF m

LEMMA AcceptPeers ==
    ASSUME Inv1, NEW k, Handling(k), Announces(Head(socket[k].up)), accept(k, Head(socket[k].up))
    PROVE  LET m == socket[k].up[1]  i == socket[k].id IN
           /\ Announces(m) /\ m \in Up /\ m.clock \in Nat /\ m.on \in BOOLEAN
           /\ peers' \in [Ids -> [clock : Nat, ws : 0..MaxSockets]]
           /\ \A x \in Ids \ {i} : peers'[x] = peers[x]
           /\ peers'[i] = IF Taken(k, m) THEN IF m.on THEN [clock |-> m.clock, ws |-> k] ELSE NoPeer ELSE peers[i]
           /\ UNCHANGED <<marks, stale, happened>>
<1> DEFINE m == socket[k].up[1]
           i == socket[k].id
<1>1. k \in Ids /\ peers \in [Ids -> [clock : Nat, ws : 0..MaxSockets]] /\ Head(socket[k].up) = m /\ m \in Up /\ i \in Ids
  BY Handled DEF Handling
<1>2. Announces(m) /\ m.clock \in Nat /\ m.on \in BOOLEAN
  BY <1>1, Messages
<1>3. /\ peers' = IF Taken(k, m) THEN [peers EXCEPT ![i] = IF m.on THEN [clock |-> m.clock, ws |-> k] ELSE NoPeer] ELSE peers
      /\ UNCHANGED <<marks, stale, happened>>
  BY <1>1 DEF accept, Taken
<1> HIDE DEF m
<1>4. peers' \in [Ids -> [clock : Nat, ws : 0..MaxSockets]]
      /\ (\A x \in Ids \ {i} : peers'[x] = peers[x])
      /\ peers'[i] = IF Taken(k, m) THEN IF m.on THEN [clock |-> m.clock, ws |-> k] ELSE NoPeer ELSE peers[i]
  <2>1. k \in 0..MaxSockets /\ NoPeer \in [clock : Nat, ws : 0..MaxSockets]
    BY <1>1, PresenceAssumption DEF Ids, NoPeer, NoSocket
  <2>2. [clock |-> m.clock, ws |-> k] \in [clock : Nat, ws : 0..MaxSockets]
    BY <1>2, <2>1
  <2> QED BY <1>1, <1>3, <2>1, <2>2
<1> QED BY <1>1, <1>2, <1>3, <1>4 DEF m

LEMMA PresenceEffect ==
    ASSUME Inv1, NEW k, Handling(k), socket' = [socket EXCEPT ![k].up = Tail(@)]
    PROVE  /\ socket' \in [Ids -> Socket] /\ Keeps(socket'[k], socket[k])
           /\ socket'[k].up = Tail(socket[k].up) /\ socket'[k].down = socket[k].down
           /\ \A j \in Ids \ {k} : socket'[j] = socket[j]
<1>1. k \in Ids /\ socket \in [Ids -> Socket] /\ Tail(socket[k].up) \in Seq(Up)
  BY Handled DEF Handling
<1> DEFINE rest == Tail(socket[k].up)
<1>2. socket' = WithUp(socket, k, rest)
  BY DEF WithUp
<1>3. rest \in Seq(Up)
  BY <1>1
<1> HIDE DEF rest
<1>4. LET T == WithUp(socket, k, rest) IN
      /\ T \in [Ids -> Socket] /\ Keeps(T[k], socket[k]) /\ T[k].up = rest /\ T[k].down = socket[k].down
      /\ \A j \in Ids \ {k} : T[j] = socket[j]
  BY <1>1, <1>3, SetUp
<1> QED BY <1>2, <1>4 DEF rest

LEMMA DropType ==
    ASSUME TypeOK, NEW k \in Ids
    PROVE  /\ drop(k) \in Down
           /\ \A i \in Ids : i \in DOMAIN drop(k) <=> peers[i].ws = k
           /\ \A i \in DOMAIN drop(k) : i \in Ids /\ drop(k)[i] = Cursor(peers[i].clock + 1, FALSE)
<1> DEFINE own == {j \in Ids : peers[j].ws = k}
<1>1. drop(k) = [i \in own |-> Cursor(peers[i].clock + 1, FALSE)]
  BY DEF drop
<1>2. \A i \in Ids : peers[i].clock + 1 \in Nat
  BY DEF TypeOK
<1>3. drop(k) \in [own -> [clock : Nat, on : BOOLEAN]]
  BY <1>1, <1>2 DEF Cursor
<1>4. drop(k) \in Down
  BY <1>3 DEF Down
<1> QED BY <1>1, <1>4

LEMMA DisconnectEffect ==
    ASSUME Inv1, NEW k, Handling(k), Disconnect(k)
    PROVE  /\ socket' \in [Ids -> Socket]
           /\ socket'[k].page = socket[k].page /\ socket'[k].file = socket[k].file /\ socket'[k].id = socket[k].id
           /\ socket'[k].phase = "gone" /\ socket'[k].up = <<>> /\ socket'[k].down = <<>> /\ socket'[k].broken = socket[k].broken
           /\ \A j \in Ids \ {k} :
                 /\ Keeps(socket'[j], socket[j]) /\ socket'[j].up = socket[j].up
                 /\ socket'[j].down = IF DOMAIN drop(k) # {} /\ Listens(j, k) THEN Append(socket[j].down, drop(k)) ELSE socket[j].down
                 /\ ~Listens(j, k) => socket'[j] = socket[j]
           /\ peers' \in [Ids -> [clock : Nat, ws : 0..MaxSockets]]
           /\ \A i \in Ids : peers'[i] = IF peers[i].ws = k THEN NoPeer ELSE peers[i]
           /\ IF has_user(k) THEN UNCHANGED <<marks, stale, happened>>
              ELSE broadcast_to_project(Mark(OwnerOf(k), NoFile, socket[k].file))
<1> DEFINE S == Detached(k)
           f == socket[k].file
           gone == drop(k)
<1>1. k \in Ids /\ socket \in [Ids -> Socket] /\ socket[k] \in Socket /\ peers \in [Ids -> [clock : Nat, ws : 0..MaxSockets]]
  BY Handled DEF Handling
<1>2. /\ peers' = Forget(k) /\ socket' = IF DOMAIN gone = {} THEN S ELSE Broadcast(S, f, gone, NoSocket)
      /\ IF has_user(k) THEN UNCHANGED <<marks, stale, happened>> ELSE broadcast_to_project(Mark(OwnerOf(k), NoFile, socket[k].file))
  BY DEF Disconnect
<1>3. /\ S \in [Ids -> Socket] /\ \A j \in Ids \ {k} : S[j] = socket[j]
      /\ S[k].page = socket[k].page /\ S[k].file = socket[k].file /\ S[k].id = socket[k].id
      /\ S[k].phase = "gone" /\ S[k].up = <<>> /\ S[k].down = <<>> /\ S[k].broken = socket[k].broken
  BY <1>1, None DEF Detached, Socket
<1>4. gone \in Down
  BY <1>1, DropType DEF Inv1
<1>5. LET T == Broadcast(S, f, gone, NoSocket) IN T \in [Ids -> Socket] /\ \A j \in Ids : Hears(S[j], j, f, gone, NoSocket, T[j])
  BY <1>3, <1>4, BroadcastEffect
<1>6. \A j \in Ids : j # NoSocket
  BY DEF Ids, NoSocket
<1> HIDE DEF S, gone
<1>7. /\ socket' \in [Ids -> Socket]
      /\ socket'[k].page = socket[k].page /\ socket'[k].file = socket[k].file /\ socket'[k].id = socket[k].id
      /\ socket'[k].phase = "gone" /\ socket'[k].up = <<>> /\ socket'[k].down = <<>> /\ socket'[k].broken = socket[k].broken
      /\ \A j \in Ids \ {k} :
            /\ Keeps(socket'[j], socket[j]) /\ socket'[j].up = socket[j].up
            /\ socket'[j].down = IF DOMAIN gone # {} /\ Listens(j, k) THEN Append(socket[j].down, gone) ELSE socket[j].down
            /\ ~Listens(j, k) => socket'[j] = socket[j]
  <2>1. CASE DOMAIN gone = {}
    BY <2>1, <1>2, <1>3 DEF Keeps
  <2>2. CASE DOMAIN gone # {}
    <3>1. socket' \in [Ids -> Socket] /\ \A j \in Ids : Hears(S[j], j, f, gone, NoSocket, socket'[j])
      BY <2>2, <1>2, <1>5
    <3>2. /\ socket'[k].page = socket[k].page /\ socket'[k].file = socket[k].file /\ socket'[k].id = socket[k].id
          /\ socket'[k].phase = "gone" /\ socket'[k].up = <<>> /\ socket'[k].down = <<>> /\ socket'[k].broken = socket[k].broken
      BY <3>1, <1>1, <1>3 DEF Hears, Keeps
    <3>3. ASSUME NEW j \in Ids \ {k}
          PROVE  /\ Keeps(socket'[j], socket[j]) /\ socket'[j].up = socket[j].up
                 /\ socket'[j].down = IF Listens(j, k) THEN Append(socket[j].down, gone) ELSE socket[j].down
                 /\ ~Listens(j, k) => socket'[j] = socket[j]
      BY <3>1, <3>3, <1>3, <1>6 DEF Hears, Keeps, Listens
    <3> QED BY <2>2, <3>1, <3>2, <3>3
  <2> QED BY <2>1, <2>2
<1>8. /\ peers' \in [Ids -> [clock : Nat, ws : 0..MaxSockets]]
      /\ \A i \in Ids : peers'[i] = IF peers[i].ws = k THEN NoPeer ELSE peers[i]
  <2>1. NoPeer \in [clock : Nat, ws : 0..MaxSockets]
    BY PresenceAssumption DEF NoPeer, NoSocket
  <2>2. peers' = [i \in Ids |-> IF peers[i].ws = k THEN NoPeer ELSE peers[i]]
    BY <1>2 DEF Forget
  <2> QED BY <1>1, <2>1, <2>2
<1> QED BY <1>2, <1>7, <1>8 DEF gone
-----------------------------------------------------------------------------
(* The first invariant *)

LEMMA EndsOf ==
    /\ ~EndsIn(<<>>)
    /\ \A u \in Seq(Up), x \in Up : EndsIn(Append(u, x)) <=> EndsIn(u) \/ x = Bye
    /\ \A u \in Seq(Up) : u # <<>> => (EndsIn(u) <=> u[1] = Bye \/ EndsIn(Tail(u)))
    /\ \A x \in Up : EndsIn(<<x>>) <=> x = Bye
    /\ \A x, y \in Up : EndsIn(<<x, y>>) <=> x = Bye \/ y = Bye
<1>1. ~EndsIn(<<>>)
  BY DEF EndsIn
<1>2. ASSUME NEW u \in Seq(Up), NEW x \in Up PROVE EndsIn(Append(u, x)) <=> EndsIn(u) \/ x = Bye
  <2>1. Len(u) \in Nat /\ Len(Append(u, x)) = Len(u) + 1 /\ Append(u, x)[Len(u) + 1] = x /\ \A n \in 1..Len(u) : Append(u, x)[n] = u[n]
    BY Grow
  <2> QED BY <2>1 DEF EndsIn
<1>3. ASSUME NEW u \in Seq(Up), u # <<>> PROVE EndsIn(u) <=> u[1] = Bye \/ EndsIn(Tail(u))
  <2>1. /\ Len(u) \in Nat \ {0} /\ Len(Tail(u)) = Len(u) - 1 /\ 1 \in 1..Len(u)
        /\ \A n \in 1..Len(Tail(u)) : n + 1 \in 1..Len(u) /\ Tail(u)[n] = u[n + 1]
        /\ \A n \in 1..Len(u) : n # 1 => n - 1 \in 1..Len(Tail(u)) /\ Tail(u)[n - 1] = u[n]
    BY <1>3, Shrink
  <2>2. ASSUME NEW n \in 1..Len(u), u[n] = Bye, n # 1 PROVE EndsIn(Tail(u))
    <3>1. n - 1 \in 1..Len(Tail(u)) /\ Tail(u)[n - 1] = Bye
      BY <2>1, <2>2
    <3> QED BY <3>1 DEF EndsIn
  <2>3. ASSUME NEW n \in 1..Len(Tail(u)), Tail(u)[n] = Bye PROVE EndsIn(u)
    <3>1. n + 1 \in 1..Len(u) /\ u[n + 1] = Bye
      BY <2>1, <2>3
    <3> QED BY <3>1 DEF EndsIn
  <2> QED BY <2>1, <2>2, <2>3 DEF EndsIn
<1>4. ASSUME NEW x \in Up PROVE EndsIn(<<x>>) <=> x = Bye
  <2>1. Len(<<x>>) = 1 /\ <<x>>[1] = x
    BY One
  <2> QED BY <2>1 DEF EndsIn
<1>5. ASSUME NEW x \in Up, NEW y \in Up PROVE EndsIn(<<x, y>>) <=> x = Bye \/ y = Bye
  <2>1. Len(<<x, y>>) = 2 /\ <<x, y>>[1] = x /\ <<x, y>>[2] = y
    BY Two
  <2> QED BY <2>1 DEF EndsIn
<1> QED BY <1>1, <1>2, <1>3, <1>4, <1>5

Named(s, t) == t.page = s.page /\ t.file = s.file /\ t.id = s.id

\* Every socket stays what it is; a new one may come.
LEMMA NumberedStays ==
    ASSUME Inv1, TypeOK', used' \in {used, used + 1},
           \A k \in Ids : k <= used => Named(socket[k], socket'[k]) /\ socket'[k].phase # "unused",
           \A k \in Ids : k > used' => socket'[k] = socket[k],
           used' = used + 1 => /\ socket'[used'].page \in Pages /\ socket'[used'].file \in Files /\ socket'[used'].phase # "unused"
                               /\ \/ socket'[used'].id = used'
                                  \/ socket'[used'].id \in 1..used
                                     /\ Of(socket'[used'].id, socket'[used'].page, socket'[used'].file, socket'[used'].id)
    PROVE  Numbered'
<1>1. used \in 0..MaxSockets /\ used' \in 0..MaxSockets /\ MaxSockets \in Nat
  BY PresenceAssumption DEF Inv1, TypeOK
<1>2. ASSUME NEW k \in Ids PROVE NumberedAt(k)'
  <2>1. k \in 1..MaxSockets
    BY DEF Ids
  <2>2. CASE k > used'
    BY <1>1, <2>1, <2>2 DEF Inv1, Numbered, NumberedAt
  <2>3. CASE k <= used
    <3>1. NumberedAt(k)
      BY DEF Inv1, Numbered
    <3>2. socket[k].id \in Ids /\ socket[k].id <= used /\ socket[k].id \in 1..k
      BY <1>1, <2>1, <2>3, <3>1 DEF NumberedAt, Ids
    <3> QED BY <1>1, <2>1, <2>3, <3>1, <3>2 DEF NumberedAt, Named, Of
  <2>4. CASE k = used + 1 /\ used' = used + 1
    <3>1. CASE socket'[used'].id = used'
      BY <1>1, <2>1, <2>4, <3>1 DEF NumberedAt, Of
    <3>2. CASE /\ socket'[used'].id \in 1..used
               /\ Of(socket'[used'].id, socket'[used'].page, socket'[used'].file, socket'[used'].id)
      <4>1. socket'[used'].id \in Ids /\ socket'[used'].id <= used
        BY <1>1, <3>2 DEF Ids
      <4> QED BY <1>1, <2>1, <2>4, <3>2, <4>1 DEF NumberedAt, Named, Of
    <3> QED BY <2>4, <3>1, <3>2
  <2> QED BY <1>1, <2>1, <2>2, <2>3, <2>4
<1> QED BY <1>2 DEF Numbered

\* While every attached socket stays so, cursors and marks have what they need.
LEMMA MarkingStays ==
    ASSUME Inv1, TypeOK', used' \in {used, used + 1}, UNCHANGED <<user, marks, stale>>,
           \A k \in Ids : k <= used => Named(socket[k], socket'[k]) /\ (socket[k].phase = "attached" => socket'[k].phase = "attached")
    PROVE  Marking'
<1>1. used \in 0..MaxSockets /\ used' \in 0..MaxSockets /\ MaxSockets \in Nat
  BY PresenceAssumption DEF Inv1, TypeOK
<1> SUFFICES ASSUME NEW u \in Users \ stale, marks[u] # NoFile PROVE \E k \in 1..used' : Here(k, marks[u])' /\ OwnerOf(k)' = u
  BY DEF Marking
<1>2. PICK k \in 1..used : Here(k, marks[u]) /\ OwnerOf(k) = u
  BY DEF Inv1, Marking
<1>3. k \in Ids /\ k <= used /\ k \in 1..used'
  BY <1>1 DEF Ids
<1>4. Here(k, marks[u])' /\ OwnerOf(k)' = u
  BY <1>2, <1>3 DEF Here, OwnerOf, Named
<1> QED BY <1>3, <1>4

LEMMA AttachedStay ==
    ASSUME Inv1, TypeOK', used' \in {used, used + 1}, UNCHANGED <<user, peers, marks, stale>>,
           \A k \in Ids : k <= used => Named(socket[k], socket'[k]) /\ (socket[k].phase = "attached" => socket'[k].phase = "attached")
    PROVE  Owning' /\ Marking'
<1>1. used \in 0..MaxSockets /\ used' \in 0..MaxSockets /\ MaxSockets \in Nat
  BY PresenceAssumption DEF Inv1, TypeOK
<1>2. Owning'
  BY <1>1 DEF Inv1, Owning, Named, Ids
<1> QED BY <1>2, MarkingStays

\* A page whose editor and connection are left alone
LEMMA EditingStays ==
    ASSUME Inv1, TypeOK', used' \in {used, used + 1}, NEW q \in Pages, editor'[q] = editor[q],
           \A k \in Ids : k <= used => Named(socket[k], socket'[k]),
           used' = used + 1 /\ Open(q) => socket'[used'].id # editor[q].id,
           LET k == editor[q].ws IN
           Open(q) /\ ~socket'[k].broken => ~socket[k].broken /\ (Served(k) => Served(k)') /\ (~Ends(k) => ~Ends(k)')
    PROVE  EditingAt(q)'
<1>1. used \in 0..MaxSockets /\ used' \in 0..MaxSockets /\ MaxSockets \in Nat /\ EditingAt(q)
  BY PresenceAssumption DEF Inv1, TypeOK, Editing
<1>2. CASE ~Open(q)
  BY <1>1, <1>2 DEF EditingAt, Open
<1>3. CASE Open(q)
  <2>1. /\ editor[q].ws \in 1..used /\ editor[q].ws \in Ids /\ editor[q].ws <= used /\ editor[q].id # NoSocket /\ editor[q].clock > 0
        /\ Of(editor[q].ws, q, editor[q].file, editor[q].id)
    BY <1>1, <1>3 DEF EditingAt, Ids
  <2>2. editor[q].ws \in 1..used' /\ Of(editor[q].ws, q, editor[q].file, editor[q].id)'
    BY <1>1, <2>1 DEF Of, Named
  <2>3. ~socket'[editor[q].ws].broken => Served(editor[q].ws)' /\ ~Ends(editor[q].ws)'
    BY <1>1, <1>3 DEF EditingAt
  <2>4. ASSUME NEW k \in 1..used', socket'[k].id = editor[q].id PROVE k <= editor[q].ws
    <3>1. CASE k <= used
      <4>1. k \in Ids /\ k \in 1..used
        BY <1>1, <3>1 DEF Ids
      <4>2. socket[k].id = editor[q].id
        BY <2>4, <3>1, <4>1 DEF Named
      <4> QED BY <1>1, <1>3, <4>1, <4>2 DEF EditingAt
    <3>2. CASE k = used' /\ used' = used + 1
      BY <1>3, <2>4, <3>2
    <3> QED BY <1>1, <3>1, <3>2
  <2> QED BY <1>3, <2>1, <2>2, <2>3, <2>4 DEF EditingAt, Open
<1> QED BY <1>2, <1>3

LEMMA InitInv1 == Init => Inv1
<1> SUFFICES ASSUME Init PROVE Inv1
  OBVIOUS
<1>1. MaxSockets \in Nat /\ MaxEvents \in Nat
  BY PresenceAssumption
<1>2. NoEditor \in Page /\ Unused \in Socket
  BY <1>1, None DEF NoEditor, Page, Nobody, NoSocket, Unused, Socket
<1>3. TypeOK
  BY <1>1, <1>2 DEF Init, TypeOK, NoPeer, NoSocket
<1>4. Numbered
  BY <1>1 DEF Init, Numbered, NumberedAt, Ids
<1>5. Serving
  BY DEF Init, Serving, ServingAt, Unused, Served
<1>6. Editing
  BY DEF Init, Editing, EditingAt, Open, NoEditor
<1>7. Owning /\ Marking
  BY DEF Init, Owning, Marking, NoPeer
<1> QED BY <1>3, <1>4, <1>5, <1>6, <1>7 DEF Inv1

\* What the sockets of a page that closes or changes its connection become
LEMMA LeavesFields ==
    ASSUME Inv1, NEW p \in Pages, NEW k \in Ids, NEW t, Leaves(p, k, t)
    PROVE  /\ Keeps(t, socket[k]) /\ t.down = socket[k].down
           /\ k = editor[p].ws /\ ~socket[k].broken => EndsIn(t.up)
           /\ ~(k = editor[p].ws /\ ~socket[k].broken) => t.up = socket[k].up
<1>1. socket[k] \in Socket /\ editor[p] \in Page
  BY DEF Inv1, TypeOK
<1>2. socket[k].up \in Seq(Up) /\ editor[p].clock + 1 \in Nat
  BY <1>1, SocketFields, PageFields
<1> DEFINE m == Announce(editor[p].clock + 1, FALSE)
<1>3. m \in Up /\ Bye \in Up
  BY <1>2, Messages
<1>4. Leaves(p, k, t)
  OBVIOUS
<1>5. k = editor[p].ws /\ ~socket[k].broken => t.up = Append(Append(socket[k].up, m), Bye)
  BY <1>4 DEF Leaves
<1> HIDE DEF m
<1>6. Append(socket[k].up, m) \in Seq(Up)
  BY <1>2, <1>3, Grow
<1>7. EndsIn(Append(Append(socket[k].up, m), Bye))
  BY <1>3, <1>6, EndsOf
<1> QED BY <1>4, <1>5, <1>7 DEF Leaves

\* The server's end of a socket that is left alone, or left by its page
LEMMA ServingLeft ==
    ASSUME Inv1, NEW p \in Pages, Others(p), NEW k \in Ids, Leaves(p, k, socket'[k])
    PROVE  ServingAt(k)'
<1>1. /\ Keeps(socket'[k], socket[k]) /\ socket'[k].down = socket[k].down
      /\ k = editor[p].ws /\ ~socket[k].broken => EndsIn(socket'[k].up)
      /\ ~(k = editor[p].ws /\ ~socket[k].broken) => socket'[k].up = socket[k].up
  BY LeavesFields
<1>2. ServingAt(k)
  BY DEF Inv1, Serving
<1>3. used \in 0..MaxSockets /\ k \in 1..MaxSockets /\ MaxSockets \in Nat
  BY PresenceAssumption DEF Inv1, TypeOK, Ids
<1>4. CASE k = editor[p].ws /\ ~socket[k].broken
  <2>1. Open(p)
    BY <1>3, <1>4, Connection DEF NoSocket
  <2>2. Served(k)
    BY <1>4, <2>1 DEF Inv1, Editing, EditingAt
  <2> QED BY <1>1, <1>2, <1>4, <2>2 DEF ServingAt, Ends, Served, Keeps
<1>5. CASE ~(k = editor[p].ws /\ ~socket[k].broken)
  <2>1. Served(k) /\ ~Ends(k) => Current(k)
    BY <1>2 DEF ServingAt
  <2>2. Served(k) => k <= used
    BY <1>3 DEF Inv1, Numbered, NumberedAt, Served, Unused
  <2>3. k <= used => socket[k].page \in Pages
    BY DEF Inv1, Numbered, NumberedAt
  <2>4. Served(k) /\ Current(k) => Current(k)'
    BY <1>1, <1>5, <2>2, <2>3 DEF Current, Keeps, Others
  <2> QED BY <1>1, <1>2, <1>5, <2>1, <2>4 DEF ServingAt, Ends, Served, Keeps
<1> QED BY <1>4, <1>5

LEMMA OpenInv1 ==
    ASSUME Inv1, NEW p \in Pages, NEW f \in Files, openFile(p, f)
    PROVE  Inv1'
<1> DEFINE n == used + 1
<1>1. /\ used < MaxSockets /\ n \in Ids /\ used' = n /\ f # editor[p].file
      /\ socket' \in [Ids -> Socket] /\ editor' \in [Pages -> Page] /\ Others(p)
      /\ New(socket'[n], p, f, n) /\ socket'[n].up = <<Now(1)>>
      /\ \A k \in Ids \ {n} : Leaves(p, k, socket'[k])
      /\ UNCHANGED <<user, peers, marks, stale, happened>>
  BY OpenEffect DEF Inv1
<1>2. LET ed == editor'[p] IN ed.file = f /\ ed.id = n /\ ed.ws = n /\ ed.clock = 1
  BY OpenEffect DEF Inv1
<1>3. used \in 0..MaxSockets /\ MaxSockets \in Nat /\ used' \in {used, used + 1} /\ used' \in 0..MaxSockets
  BY <1>1, PresenceAssumption DEF Inv1, TypeOK
<1>4. TypeOK'
  BY <1>1, <1>3 DEF Inv1, TypeOK
<1>5. \A k \in Ids : k # n => Keeps(socket'[k], socket[k]) /\ (k # editor[p].ws => socket'[k] = socket[k])
  BY <1>1 DEF Leaves
<1>6. Numbered'
  <2>1. \A k \in Ids : k <= used => Named(socket[k], socket'[k]) /\ socket'[k].phase # "unused"
    BY <1>3, <1>5 DEF Inv1, Numbered, NumberedAt, Named, Keeps, Ids
  <2>2. ASSUME NEW k \in Ids, k > used' PROVE socket'[k] = socket[k]
    <3>1. k # n /\ k # editor[p].ws
      BY <1>1, <1>3, <2>2, Connection DEF NoSocket, Ids
    <3> QED BY <1>5, <3>1
  <2>3. /\ socket'[used'].page \in Pages /\ socket'[used'].file \in Files /\ socket'[used'].phase # "unused"
        /\ socket'[used'].id = used'
    BY <1>1 DEF New
  <2> QED BY <1>3, <1>4, <2>1, <2>2, <2>3, NumberedStays
<1>7. Owning' /\ Marking'
  BY <1>1, <1>3, <1>4, <1>5, AttachedStay DEF Named, Keeps, Ids
<1>8. ASSUME NEW k \in Ids PROVE ServingAt(k)'
  <2>1. CASE k = n
    <3>1. Current(k)' /\ socket'[k].down = <<>> /\ socket'[k].phase = "accepted"
      BY <1>1, <1>2, <2>1 DEF Current, New
    <3> QED BY <3>1 DEF ServingAt
  <2>2. CASE k # n
    BY <1>1, <2>2, ServingLeft
  <2> QED BY <2>1, <2>2
<1>9. ASSUME NEW q \in Pages PROVE EditingAt(q)'
  <2>1. CASE q = p
    <3>1. n \in 1..used' /\ n > 0 /\ n # NoSocket
      BY <1>1, <1>3 DEF NoSocket
    <3>2. socket'[n].page = p /\ socket'[n].file = f /\ socket'[n].id = n /\ socket'[n].phase = "accepted"
      BY <1>1 DEF New
    <3>3. ~EndsIn(socket'[n].up)
      <4>1. Now(1) \in Up /\ Now(1) # Bye
        BY NowIs
      <4> QED BY <1>1, <4>1, EndsOf
    <3>4. editor'[p].file # NoFile /\ editor'[p].clock > 0
      BY <1>2, PresenceAssumption
    <3>5. \A k \in 1..used' : k <= n
      BY <1>1, <1>3
    <3>6. Of(editor[p].ws, p, editor[p].file, editor[p].id)'
      BY <1>2, <3>2 DEF Of
    <3>7. Served(editor[p].ws)' /\ ~Ends(editor[p].ws)'
      BY <1>2, <3>2, <3>3 DEF Served, Ends
    <3> QED BY <1>2, <2>1, <3>1, <3>4, <3>5, <3>6, <3>7 DEF EditingAt, Open
  <2>2. CASE q # p
    <3> DEFINE k == editor[q].ws
    <3>1. editor'[q] = editor[q]
      BY <1>1, <2>2 DEF Others
    <3>2. \A j \in Ids : j <= used => Named(socket[j], socket'[j])
      BY <1>3, <1>5 DEF Named, Keeps, Ids
    <3>3. Open(q) => k \in Ids /\ k # n /\ k # editor[p].ws /\ editor[q].id # n
      <4>1. Open(q) => k \in 1..used /\ k \in Ids /\ socket[k].page = q /\ editor[q].id \in 1..k
        BY Connection DEF Of
      <4>2. editor[p].ws # NoSocket => socket[editor[p].ws].page = p
        BY Connection DEF Of
      <4> QED BY <1>3, <2>2, <4>1, <4>2 DEF NoSocket
    <3>4. Open(q) => socket'[k] = socket[k]
      BY <1>5, <3>3
    <3>5. Open(q) /\ ~socket'[k].broken => ~socket[k].broken /\ (Served(k) => Served(k)') /\ (~Ends(k) => ~Ends(k)')
      BY <3>1, <3>4 DEF Served, Ends
    <3>6. Open(q) => socket'[used'].id # editor[q].id
      BY <1>1, <3>3 DEF New
    <3> QED BY <1>3, <1>4, <3>1, <3>2, <3>5, <3>6, EditingStays
  <2> QED BY <2>1, <2>2
<1> QED BY <1>4, <1>6, <1>7, <1>8, <1>9 DEF Inv1, Serving, Editing

\* The connections of two pages are two.
LEMMA Apart ==
    ASSUME Inv1, NEW p \in Pages, NEW q \in Pages, p # q, Open(q)
    PROVE  editor[q].ws \in Ids /\ editor[q].ws # editor[p].ws
<1>1. editor[q].ws \in Ids /\ socket[editor[q].ws].page = q /\ editor[q].ws # NoSocket
  BY Connection DEF Of, NoSocket
<1>2. editor[p].ws # NoSocket => socket[editor[p].ws].page = p
  BY Connection DEF Of
<1> QED BY <1>1, <1>2

LEMMA CloseInv1 ==
    ASSUME Inv1, NEW p \in Pages, closeTab(p)
    PROVE  Inv1'
<1>1. /\ Open(p) /\ socket' \in [Ids -> Socket] /\ editor' \in [Pages -> Page] /\ Others(p) /\ editor'[p] = NoEditor
      /\ \A k \in Ids : Leaves(p, k, socket'[k])
      /\ UNCHANGED <<user, peers, marks, stale, used, happened>>
  BY CloseEffect DEF Inv1
<1>2. TypeOK' /\ used' \in {used, used + 1} /\ used' # used + 1
  BY <1>1 DEF Inv1, TypeOK
<1>3. \A k \in Ids : Keeps(socket'[k], socket[k]) /\ (k # editor[p].ws => socket'[k] = socket[k])
  BY <1>1 DEF Leaves
<1>4. Numbered'
  <2>1. \A k \in Ids : k <= used => Named(socket[k], socket'[k]) /\ socket'[k].phase # "unused"
    BY <1>3 DEF Inv1, Numbered, NumberedAt, Named, Keeps
  <2>2. ASSUME NEW k \in Ids, k > used' PROVE socket'[k] = socket[k]
    <3>1. k # editor[p].ws
      BY <1>1, <2>2, Connection DEF Inv1, TypeOK
    <3> QED BY <1>3, <3>1
  <2> QED BY <1>2, <2>1, <2>2, NumberedStays
<1>5. Owning' /\ Marking'
  BY <1>1, <1>2, <1>3, AttachedStay DEF Named, Keeps
<1>6. ASSUME NEW k \in Ids PROVE ServingAt(k)'
  BY <1>1, ServingLeft
<1>7. ASSUME NEW q \in Pages PROVE EditingAt(q)'
  <2>1. CASE q = p
    BY <1>1, <2>1 DEF EditingAt, Open, NoEditor
  <2>2. CASE q # p
    <3> DEFINE k == editor[q].ws
    <3>1. editor'[q] = editor[q]
      BY <1>1, <2>2 DEF Others
    <3>2. Open(q) => socket'[k] = socket[k]
      BY <1>3, <2>2, Apart
    <3>3. Open(q) /\ ~socket'[k].broken => ~socket[k].broken /\ (Served(k) => Served(k)') /\ (~Ends(k) => ~Ends(k)')
      BY <3>1, <3>2 DEF Served, Ends
    <3>4. \A j \in Ids : j <= used => Named(socket[j], socket'[j])
      BY <1>3 DEF Named, Keeps
    <3> QED BY <1>2, <3>1, <3>3, <3>4, EditingStays
  <2> QED BY <2>1, <2>2
<1> QED BY <1>2, <1>4, <1>5, <1>6, <1>7 DEF Inv1, Serving, Editing

\* Messages come and go on the connection of a page, but for its end.
LEMMA QueuesInv1 ==
    ASSUME Inv1, NEW p \in Pages, Open(p), Stays(p), Others(p), editor' \in [Pages -> Page], socket' \in [Ids -> Socket],
           editor'[p].clock \in {editor[p].clock, editor[p].clock + 1},
           \A k \in Ids : /\ Keeps(socket'[k], socket[k]) /\ (k # editor[p].ws => socket'[k] = socket[k])
                          /\ EndsIn(socket'[k].up) <=> EndsIn(socket[k].up)
                          /\ socket[k].broken \/ socket[k].phase # "attached" => socket'[k].down = socket[k].down
                          /\ socket[k].broken \/ ~Served(k) => socket'[k].up = socket[k].up,
           happened' \in 0..MaxEvents, UNCHANGED <<user, peers, marks, stale, used>>
    PROVE  Inv1'
<1>1. TypeOK' /\ used' \in {used, used + 1} /\ used' # used + 1
  BY DEF Inv1, TypeOK
<1>2. \A k \in Ids : /\ Keeps(socket'[k], socket[k]) /\ (k # editor[p].ws => socket'[k] = socket[k])
                     /\ EndsIn(socket'[k].up) <=> EndsIn(socket[k].up)
                     /\ socket[k].broken \/ socket[k].phase # "attached" => socket'[k].down = socket[k].down
                     /\ socket[k].broken \/ ~Served(k) => socket'[k].up = socket[k].up
  OBVIOUS
<1>3. /\ editor[p].ws \in 1..used /\ editor[p].clock \in Nat \ {0} /\ used \in 0..MaxSockets /\ MaxSockets \in Nat
      /\ editor[p].ws \in Ids
  BY Connection, PresenceAssumption DEF Inv1, TypeOK
<1>4. Numbered'
  <2>1. \A k \in Ids : k <= used => Named(socket[k], socket'[k]) /\ socket'[k].phase # "unused"
    BY <1>2 DEF Inv1, Numbered, NumberedAt, Named, Keeps
  <2>2. \A k \in Ids : k > used' => socket'[k] = socket[k]
    BY <1>2, <1>3
  <2> QED BY <1>1, <2>1, <2>2, NumberedStays
<1>5. Owning' /\ Marking'
  BY <1>1, <1>2, AttachedStay DEF Named, Keeps
<1>6. ASSUME NEW k \in Ids PROVE ServingAt(k)'
  <2>1. ServingAt(k)
    BY DEF Inv1, Serving
  <2>2. Served(k) => k <= used /\ socket[k].page \in Pages
    BY <1>3 DEF Inv1, Numbered, NumberedAt, Served, Unused, Ids
  <2>3. Served(k) /\ Current(k) => Current(k)'
    BY <1>2, <2>2 DEF Current, Keeps, Others, Stays
  <2>4. socket[k].phase = "gone" => ~Served(k)
    BY DEF Served
  <2> QED BY <1>2, <2>1, <2>3, <2>4 DEF ServingAt, Served, Ends, Keeps
<1>7. ASSUME NEW q \in Pages PROVE EditingAt(q)'
  <2>1. EditingAt(q) /\ EditingAt(p)
    BY DEF Inv1, Editing
  <2>2. CASE q = p
    <3>1. Of(editor[p].ws, p, editor[p].file, editor[p].id)'
      BY <1>2, <1>3, Connection DEF Of, Keeps, Stays
    <3>2. ~socket'[editor[p].ws].broken => socket'[editor[p].ws].phase \in {"accepted", "attached"} /\ ~EndsIn(socket'[editor[p].ws].up)
      BY <1>2, <1>3, <2>1 DEF EditingAt, Keeps, Served, Ends
    <3>3. \A k \in 1..used : socket'[k].id = editor[p].id => k <= editor[p].ws
      <4>1. \A k \in 1..used : k \in Ids
        BY <1>3 DEF Ids
      <4> QED BY <1>2, <2>1, <4>1 DEF EditingAt, Keeps
    <3>4. editor'[p].clock > 0
      BY <1>3
    <3>5. UNCHANGED used /\ Open(p) /\ Stays(p)
      OBVIOUS
    <3> QED BY <1>3, <2>1, <2>2, <3>1, <3>2, <3>3, <3>4, <3>5 DEF EditingAt, Open, Served, Ends, Stays
  <2>3. CASE q # p
    <3> DEFINE k == editor[q].ws
    <3>1. editor'[q] = editor[q]
      BY <2>3 DEF Others
    <3>2. Open(q) => socket'[k] = socket[k]
      BY <1>2, <2>3, Apart
    <3>3. Open(q) /\ ~socket'[k].broken => ~socket[k].broken /\ (Served(k) => Served(k)') /\ (~Ends(k) => ~Ends(k)')
      BY <3>1, <3>2 DEF Served, Ends
    <3>4. \A j \in Ids : j <= used => Named(socket[j], socket'[j])
      BY <1>2 DEF Named, Keeps
    <3> QED BY <1>1, <3>1, <3>3, <3>4, EditingStays
  <2> QED BY <2>2, <2>3
<1> QED BY <1>1, <1>4, <1>5, <1>6, <1>7 DEF Inv1, Serving, Editing

LEMMA MoveInv1 ==
    ASSUME Inv1, NEW p \in Pages, Move(p)
    PROVE  Inv1'
<1> DEFINE m == Now(editor[p].clock + 1)
<1>1. /\ Open(p) /\ socket' \in [Ids -> Socket] /\ editor' \in [Pages -> Page] /\ Others(p) /\ Stays(p)
      /\ editor'[p].clock = editor[p].clock + 1
      /\ \A k \in Ids : /\ Keeps(socket'[k], socket[k]) /\ socket'[k].down = socket[k].down
                        /\ socket'[k].up = IF k = editor[p].ws /\ ~socket[k].broken THEN Append(socket[k].up, m) ELSE socket[k].up
                        /\ k # editor[p].ws => socket'[k] = socket[k]
      /\ happened' \in 0..MaxEvents /\ UNCHANGED <<user, peers, marks, stale, used>>
  BY MoveEffect
<1>2. editor[p].ws \in Ids /\ editor[p].clock + 1 \in Nat
  BY <1>1, Connection
<1>3. m \in Up /\ m # Bye
  BY <1>2, NowIs
<1> HIDE DEF m
<1>4. ASSUME NEW k \in Ids
      PROVE  /\ k # editor[p].ws => socket'[k] = socket[k]
             /\ EndsIn(socket'[k].up) <=> EndsIn(socket[k].up)
             /\ socket[k].broken \/ ~Served(k) => socket'[k].up = socket[k].up
  <2>1. socket[k] \in Socket
    BY DEF Inv1, TypeOK
  <2>2. socket[k].up \in Seq(Up)
    BY <2>1, SocketFields
  <2>3. EndsIn(Append(socket[k].up, m)) <=> EndsIn(socket[k].up)
    BY <1>3, <2>2, EndsOf
  <2>4. k = editor[p].ws /\ ~socket[k].broken => Served(k)
    BY <1>1 DEF Inv1, Editing, EditingAt
  <2> QED BY <1>1, <2>3, <2>4
<1> QED BY <1>1, <1>4, QueuesInv1

LEMMA MessageInv1 ==
    ASSUME Inv1, NEW p \in Pages, OnMessage(p)
    PROVE  Inv1'
<1> DEFINE k == editor[p].ws
<1>1. /\ Open(p) /\ socket' \in [Ids -> Socket] /\ editor' \in [Pages -> Page] /\ Others(p) /\ Stays(p)
      /\ editor'[p].clock = editor[p].clock
      /\ ~socket[k].broken /\ socket[k].phase = "attached"
      /\ Keeps(socket'[k], socket[k])
      /\ socket'[k].up = socket[k].up \/ socket'[k].up = Append(socket[k].up, InFile)
      /\ \A j \in Ids \ {k} : socket'[j] = socket[j]
      /\ UNCHANGED <<user, peers, marks, stale, used, happened>>
  BY MessageEffect
<1>2. k \in Ids /\ happened' \in 0..MaxEvents
  BY <1>1, Connection DEF Inv1, TypeOK
<1>3. socket[k] \in Socket
  BY <1>2 DEF Inv1, TypeOK
<1>4. socket[k].up \in Seq(Up)
  BY <1>3, SocketFields
<1>5. EndsIn(Append(socket[k].up, InFile)) <=> EndsIn(socket[k].up)
  BY <1>4, EndsOf, Messages
<1>6. \A j \in Ids : /\ Keeps(socket'[j], socket[j]) /\ (j # k => socket'[j] = socket[j])
                     /\ EndsIn(socket'[j].up) <=> EndsIn(socket[j].up)
                     /\ socket[j].broken \/ socket[j].phase # "attached" => socket'[j].down = socket[j].down
                     /\ socket[j].broken \/ ~Served(j) => socket'[j].up = socket[j].up
  BY <1>1, <1>2, <1>5 DEF Keeps, Served
<1> QED BY <1>1, <1>2, <1>6, QueuesInv1

LEMMA ReconnectInv1 ==
    ASSUME Inv1, NEW p \in Pages, Reconnect(p)
    PROVE  Inv1'
<1> DEFINE n == used + 1
           o == editor[p].ws
           i == editor[p].id
<1>1. /\ Open(p) /\ socket[o].broken /\ used < MaxSockets /\ n \in Ids /\ used' = n
      /\ socket' \in [Ids -> Socket] /\ editor' \in [Pages -> Page] /\ Others(p)
      /\ New(socket'[n], p, editor[p].file, i) /\ socket'[n].up = <<Now(editor[p].clock + 1), Now(editor[p].clock + 2)>>
      /\ \A k \in Ids \ {n} : socket'[k] = socket[k]
      /\ UNCHANGED <<user, peers, marks, stale, happened>>
  BY ReconnectEffect
<1>2. LET ed == editor'[p] IN ed.file = editor[p].file /\ ed.id = i /\ ed.ws = n /\ ed.clock = editor[p].clock + 2
  BY ReconnectEffect
<1>3. used \in 0..MaxSockets /\ MaxSockets \in Nat /\ used' \in {used, used + 1} /\ used' \in 0..MaxSockets /\ used' = used + 1
  BY <1>1, PresenceAssumption DEF Inv1, TypeOK
<1>4. TypeOK'
  BY <1>1, <1>3 DEF Inv1, TypeOK
<1>5. o \in 1..used /\ o \in Ids /\ i \in 1..used /\ i \in Ids /\ editor[p].clock \in Nat \ {0} /\ editor[p].file \in Files
      /\ Of(o, p, editor[p].file, i)
  <2>1. o \in 1..used /\ o \in Ids /\ i \in 1..o /\ i \in Ids /\ editor[p].clock \in Nat \ {0} /\ Of(o, p, editor[p].file, i)
    BY <1>1, Connection
  <2> QED BY <1>1, <1>3, <2>1, PageFields DEF Inv1, TypeOK, Open
<1>6. Of(i, p, editor[p].file, i)
  BY <1>5 DEF Inv1, Numbered, NumberedAt, Of
<1>7. Numbered'
  <2>1. \A k \in Ids : k <= used => Named(socket[k], socket'[k]) /\ socket'[k].phase # "unused"
    BY <1>1, <1>3 DEF Inv1, Numbered, NumberedAt, Named, Ids
  <2>2. \A k \in Ids : k > used' => socket'[k] = socket[k]
    BY <1>1, <1>3 DEF Ids
  <2>3. i # n /\ socket'[i] = socket[i]
    BY <1>1, <1>3, <1>5
  <2>4. /\ socket'[used'].page \in Pages /\ socket'[used'].file \in Files /\ socket'[used'].phase # "unused"
        /\ socket'[used'].id \in 1..used
        /\ Of(socket'[used'].id, socket'[used'].page, socket'[used'].file, socket'[used'].id)
    BY <1>1, <1>5, <1>6 DEF New, Of
  <2> QED BY <1>3, <1>4, <2>1, <2>2, <2>4, NumberedStays
<1>8. Owning' /\ Marking'
  BY <1>1, <1>3, <1>4, AttachedStay DEF Named, Ids
<1>9. ASSUME NEW k \in Ids PROVE ServingAt(k)'
  <2>1. CASE k = n
    <3>1. Current(k)' /\ socket'[k].down = <<>> /\ socket'[k].phase = "accepted"
      BY <1>1, <1>2, <2>1 DEF Current, New
    <3> QED BY <3>1 DEF ServingAt
  <2>2. CASE k # n
    <3>1. ServingAt(k) /\ socket'[k] = socket[k]
      BY <1>1, <2>2 DEF Inv1, Serving
    <3>2. Served(k) => socket[k].page \in Pages
      BY <1>3 DEF Inv1, Numbered, NumberedAt, Served, Unused, Ids
    <3>3. Served(k) /\ Current(k) => Current(k)'
      BY <1>1, <3>1, <3>2 DEF Current, Others
    <3> QED BY <3>1, <3>3 DEF ServingAt, Served, Ends
  <2> QED BY <2>1, <2>2
<1>10. ASSUME NEW q \in Pages PROVE EditingAt(q)'
  <2>1. CASE q = p
    <3>1. n \in 1..used' /\ i # NoSocket
      BY <1>1, <1>3, <1>5 DEF NoSocket
    <3>2. ~EndsIn(socket'[n].up)
      <4> DEFINE a == Now(editor[p].clock + 1)
                 b == Now(editor[p].clock + 2)
      <4>1. editor[p].clock + 1 \in Nat /\ editor[p].clock + 2 \in Nat
        BY <1>5
      <4>2. a \in Up /\ b \in Up /\ a # Bye /\ b # Bye
        BY <4>1, NowIs
      <4>3. socket'[n].up = <<a, b>>
        BY <1>1
      <4> HIDE DEF a, b
      <4> QED BY <4>2, <4>3, EndsOf
    <3>3. editor'[p].file # NoFile /\ editor'[p].clock > 0
      BY <1>2, <1>5, PresenceAssumption
    <3>4. \A k \in 1..used' : k <= n
      BY <1>1, <1>3
    <3>5. Of(editor[p].ws, p, editor[p].file, editor[p].id)'
      BY <1>1, <1>2 DEF Of, New
    <3>6. Served(editor[p].ws)' /\ ~Ends(editor[p].ws)'
      BY <1>1, <1>2, <3>2 DEF Served, Ends, New
    <3> QED BY <1>2, <2>1, <3>1, <3>3, <3>4, <3>5, <3>6 DEF EditingAt, Open
  <2>2. CASE q # p
    <3> DEFINE k == editor[q].ws
    <3>1. editor'[q] = editor[q]
      BY <1>1, <2>2 DEF Others
    <3>2. \A j \in Ids : j <= used => Named(socket[j], socket'[j])
      BY <1>1, <1>3 DEF Named, Ids
    <3>3. Open(q) => k \in Ids /\ k # n
      BY <1>3, Connection
    <3>4. Open(q) /\ ~socket'[k].broken => ~socket[k].broken /\ (Served(k) => Served(k)') /\ (~Ends(k) => ~Ends(k)')
      BY <1>1, <3>1, <3>3 DEF Served, Ends
    <3>5. Open(q) => i # editor[q].id
      <4>1. ASSUME Open(q) PROVE k \in Ids /\ k <= used /\ socket[k].page = q /\ socket[k].id = editor[q].id
        BY <1>3, <4>1, Connection DEF Of
      <4>2. ASSUME Open(q) PROVE socket[editor[q].id].page = q
        BY <4>1, <4>2 DEF Inv1, Numbered, NumberedAt, Of
      <4> QED BY <1>6, <2>2, <4>2 DEF Of
    <3>6. Open(q) => socket'[used'].id # editor[q].id
      BY <1>1, <3>5 DEF New
    <3> QED BY <1>3, <1>4, <3>1, <3>2, <3>4, <3>6, EditingStays
  <2> QED BY <2>1, <2>2
<1> QED BY <1>4, <1>7, <1>8, <1>9, <1>10 DEF Inv1, Serving, Editing

\* A step that leaves the pages alone
LEMMA PagesStay ==
    ASSUME Inv1, TypeOK', UNCHANGED <<editor, used>>,
           \A k \in Ids : /\ Named(socket[k], socket'[k]) /\ (socket[k].phase = "unused" => socket'[k] = socket[k])
                          /\ socket[k].phase # "unused" => socket'[k].phase # "unused",
           \A k \in Ids : ~socket'[k].broken => ~socket[k].broken /\ (Served(k) /\ ~Ends(k) => Served(k)' /\ ~Ends(k)')
    PROVE  Numbered' /\ Editing'
<1>1. used \in 0..MaxSockets /\ MaxSockets \in Nat /\ used' \in {used, used + 1} /\ used' # used + 1
  BY PresenceAssumption DEF Inv1, TypeOK
<1>2. \A k \in Ids : k > used => socket[k].phase = "unused"
  BY DEF Inv1, Numbered, NumberedAt, Unused
<1>3. \A k \in Ids : k <= used => socket[k].phase # "unused"
  BY DEF Inv1, Numbered, NumberedAt
<1>4. Numbered'
  BY <1>1, <1>2, <1>3, NumberedStays
<1>5. ASSUME NEW q \in Pages PROVE EditingAt(q)'
  <2>1. EditingAt(q)
    BY DEF Inv1, Editing
  <2>2. Open(q) => editor[q].ws \in Ids
    BY Connection
  <2>3. \A k \in 1..used : k \in Ids
    BY <1>1 DEF Ids
  <2> QED BY <2>1, <2>2, <2>3 DEF EditingAt, Open, Named, Of
<1> QED BY <1>4, <1>5 DEF Editing

LEMMA BreakInv1 ==
    ASSUME Inv1, NEW k \in Ids, Break(k)
    PROVE  Inv1'
<1>1. /\ socket' \in [Ids -> Socket] /\ Served(k) /\ Breaks(socket[k], socket'[k])
      /\ \A j \in Ids \ {k} : socket'[j] = socket[j]
      /\ happened' \in 0..MaxEvents /\ UNCHANGED <<user, editor, peers, marks, stale, used>>
  BY BreakEffect DEF Inv1
<1>2. TypeOK' /\ used' \in {used, used + 1}
  BY <1>1 DEF Inv1, TypeOK
<1>3. Numbered' /\ Editing'
  BY <1>1, <1>2, PagesStay DEF Breaks, Named, Served, Ends
<1>4. Owning' /\ Marking'
  BY <1>1, <1>2, AttachedStay DEF Named, Breaks
<1>5. Ends(k)'
  <2>1. socket[k] \in Socket
    BY DEF Inv1, TypeOK
  <2>2. socket[k].up \in Seq(Up)
    BY <2>1, SocketFields
  <2>3. PICK n \in 0..Len(socket[k].up) : socket'[k].up = Append(SubSeq(socket[k].up, 1, n), Bye)
    BY <1>1 DEF Breaks
  <2>4. SubSeq(socket[k].up, 1, n) \in Seq(Up)
    BY <2>2, Arriving
  <2>5. EndsIn(Append(SubSeq(socket[k].up, 1, n), Bye))
    BY <2>4, EndsOf, Messages
  <2> QED BY <2>3, <2>5 DEF Ends
<1>6. ASSUME NEW j \in Ids PROVE ServingAt(j)'
  <2>1. ServingAt(j)
    BY DEF Inv1, Serving
  <2>2. CASE j = k
    BY <1>1, <1>5, <2>1, <2>2 DEF ServingAt, Breaks, Served
  <2>3. CASE j # k
    BY <1>1, <2>1, <2>3 DEF ServingAt, Served, Ends, Current
  <2> QED BY <2>2, <2>3
<1> QED BY <1>2, <1>3, <1>4, <1>6 DEF Inv1, Serving

LEMMA AttachInv1 ==
    ASSUME Inv1, NEW k \in Ids, Attach(k)
    PROVE  Inv1'
<1>1. /\ socket' \in [Ids -> Socket] /\ socket[k].phase = "accepted" /\ socket'[k].phase = "attached"
      /\ socket'[k].page = socket[k].page /\ socket'[k].file = socket[k].file /\ socket'[k].id = socket[k].id
      /\ socket'[k].broken = socket[k].broken /\ socket'[k].up = socket[k].up
      /\ socket[k].broken => socket'[k].down = socket[k].down
      /\ \A j \in Ids \ {k} : socket'[j] = socket[j]
      /\ UNCHANGED <<user, editor, peers, marks, stale, used, happened>>
  BY AttachEffect DEF Inv1
<1>2. TypeOK' /\ used' \in {used, used + 1}
  BY <1>1 DEF Inv1, TypeOK
<1>3. Numbered' /\ Editing'
  BY <1>1, <1>2, PagesStay DEF Named, Served, Ends
<1>4. Owning' /\ Marking'
  BY <1>1, <1>2, AttachedStay DEF Named
<1>5. ASSUME NEW j \in Ids PROVE ServingAt(j)'
  <2>1. ServingAt(j)
    BY DEF Inv1, Serving
  <2>2. CASE j = k
    BY <1>1, <2>1, <2>2 DEF ServingAt, Served, Ends, Current
  <2>3. CASE j # k
    BY <1>1, <2>1, <2>3 DEF ServingAt, Served, Ends, Current
  <2> QED BY <2>2, <2>3
<1> QED BY <1>2, <1>3, <1>4, <1>5 DEF Inv1, Serving

\* The server handles a message of socket k, and relays or not.
LEMMA RelayInv1 ==
    ASSUME Inv1, NEW k, Handling(k), Head(socket[k].up) # Bye, socket' \in [Ids -> Socket], UNCHANGED <<user, editor, used>>,
           socket'[k].up = Tail(socket[k].up),
           \A j \in Ids : /\ Keeps(socket'[j], socket[j]) /\ (j # k => socket'[j].up = socket[j].up)
                          /\ ~(socket[j].phase = "attached" /\ ~socket[j].broken) => socket'[j].down = socket[j].down
                          /\ socket[j].phase = "unused" => socket'[j] = socket[j],
           TypeOK'
    PROVE  Numbered' /\ Serving' /\ Editing'
<1>1. EndsIn(socket'[k].up) <=> EndsIn(socket[k].up)
  <2>1. socket[k].up \in Seq(Up) /\ Head(socket[k].up) = socket[k].up[1] /\ socket[k].up # <<>>
    BY Handled DEF Handling
  <2> QED BY <2>1, EndsOf
<1>2. \A j \in Ids : EndsIn(socket'[j].up) <=> EndsIn(socket[j].up)
  BY <1>1
<1>3. Numbered' /\ Editing'
  BY <1>2, PagesStay DEF Keeps, Named, Served, Ends
<1>4. ASSUME NEW j \in Ids PROVE ServingAt(j)'
  <2>1. ServingAt(j)
    BY DEF Inv1, Serving
  <2>2. socket[j].phase = "gone" => j # k
    BY DEF Handling
  <2> QED BY <1>2, <2>1, <2>2 DEF ServingAt, Served, Ends, Current, Keeps
<1> QED BY <1>3, <1>4 DEF Serving

LEMMA AcceptInv1 ==
    ASSUME Inv1, NEW k, Handling(k), Announces(Head(socket[k].up)), accept(k, Head(socket[k].up)), UNCHANGED <<user, editor, used>>
    PROVE  Inv1'
<1> DEFINE m == socket[k].up[1]
           i == socket[k].id
<1>1. /\ socket' \in [Ids -> Socket] /\ socket'[k].up = Tail(socket[k].up)
      /\ \A j \in Ids : /\ Keeps(socket'[j], socket[j])
                        /\ j # k => socket'[j].up = socket[j].up
                        /\ ~Listens(j, k) => socket'[j].down = socket[j].down
                        /\ j # k /\ ~Listens(j, k) => socket'[j] = socket[j]
      /\ peers' \in [Ids -> [clock : Nat, ws : 0..MaxSockets]]
      /\ \A x \in Ids \ {i} : peers'[x] = peers[x]
      /\ peers'[i] = peers[i] \/ peers'[i] = [clock |-> m.clock, ws |-> k] \/ peers'[i] = NoPeer
      /\ UNCHANGED <<marks, stale, happened>>
  BY AcceptSockets, AcceptPeers
<1>2. Head(socket[k].up) # Bye
  BY Messages
<1>3. TypeOK'
  BY <1>1 DEF Inv1, TypeOK
<1>4. \A j \in Ids : ~(socket[j].phase = "attached" /\ ~socket[j].broken) => socket'[j].down = socket[j].down
  BY <1>1 DEF Listens
<1>5. \A j \in Ids : socket[j].phase = "unused" => socket'[j] = socket[j]
  BY <1>1 DEF Handling, Listens
<1>6. Numbered' /\ Serving' /\ Editing'
  BY <1>1, <1>2, <1>3, <1>4, <1>5, RelayInv1
<1>7. used \in 0..MaxSockets /\ MaxSockets \in Nat /\ k \in 1..used /\ i \in Ids /\ \A j \in 1..used : j \in Ids
  BY Handled, PresenceAssumption DEF Inv1, TypeOK, Ids
<1>8. Owning'
  <2> SUFFICES ASSUME NEW x \in Ids, peers'[x].ws # NoSocket
               PROVE  peers'[x].ws \in 1..used /\ socket'[peers'[x].ws].phase = "attached" /\ socket'[peers'[x].ws].id = x
    BY DEF Owning
  <2>1. CASE peers'[x] = peers[x]
    BY <1>1, <1>7, <2>1 DEF Inv1, Owning, Keeps
  <2>2. CASE peers'[x] # peers[x]
    <3>1. x = i /\ peers'[x].ws = k
      BY <1>1, <2>2 DEF NoPeer
    <3> QED BY <1>1, <1>7, <3>1 DEF Keeps, Handling
  <2> QED BY <2>1, <2>2
<1>9. Marking'
  BY <1>1, <1>3, MarkingStays DEF Named, Keeps
<1> QED BY <1>3, <1>6, <1>8, <1>9 DEF Inv1

\* Marks come and go with the connections they are for.
LEMMA MarksArrive ==
    ASSUME TypeOK, NEW u \in Users, NEW f \in Files \union {NoFile}, NEW left \in Files \union {NoFile}, broadcast_to_project(Mark(u, f, left))
    PROVE  /\ marks' \in [Users -> Files \union {NoFile}] /\ stale' \subseteq Users /\ happened' \in 0..MaxEvents
           /\ f # NoFile => stale \subseteq stale' \union {u}
           /\ f = NoFile => stale \subseteq stale'
           /\ \A v \in Users : marks'[v] = marks[v] \/ (v = u /\ marks'[v] = f /\ (f = NoFile /\ left # NoFile => marks[v] = left))
           /\ u \in stale /\ u \notin stale' => marks'[u] = f
           /\ f = NoFile /\ left # NoFile /\ u \notin stale' /\ marks'[u] # NoFile => marks'[u] = marks[u] /\ marks[u] # left
<1> DEFINE m == Mark(u, f, left)
<1>1. m.user = u /\ m.file = f /\ m.left = left
  BY DEF Mark
<1>2. marks \in [Users -> Files \union {NoFile}] /\ stale \subseteq Users /\ happened \in 0..MaxEvents /\ MaxEvents \in Nat
  BY PresenceAssumption DEF TypeOK
<1> HIDE DEF m
<1>3. CASE Reaches(m)
  <2>1. marks' = onStructuralUpdate(marks, m) /\ happened' = happened /\ stale' = IF f # NoFile THEN stale \ {u} ELSE stale
    BY <1>1, <1>3 DEF Reaches
  <2>2. CASE f = NoFile /\ left # NoFile /\ marks[u] # left
    <3>1. marks' = marks
      BY <1>1, <2>1, <2>2 DEF onStructuralUpdate, StillThere
    <3>2. stale' = stale
      BY <2>1, <2>2
    <3> QED BY <1>2, <2>1, <2>2, <3>1, <3>2
  <2>3. CASE ~(f = NoFile /\ left # NoFile /\ marks[u] # left)
    <3>1. marks' = [marks EXCEPT ![u] = f]
      BY <1>1, <2>1, <2>3 DEF onStructuralUpdate, StillThere
    <3>2. \A v \in Users : marks'[v] = IF v = u THEN f ELSE marks[v]
      BY <1>2, <3>1
    <3>3. marks' \in [Users -> Files \union {NoFile}]
      BY <1>2, <3>1
    <3>4. stale' \subseteq Users /\ (f # NoFile => stale \subseteq stale' \union {u}) /\ (f = NoFile => stale \subseteq stale')
      BY <1>2, <2>1
    <3>5. \A v \in Users : marks'[v] = marks[v] \/ (v = u /\ marks'[v] = f /\ (f = NoFile /\ left # NoFile => marks[v] = left))
      BY <2>3, <3>2
    <3>6. marks'[u] = f /\ happened' \in 0..MaxEvents
      BY <1>2, <2>1, <3>2
    <3> QED BY <3>3, <3>4, <3>5, <3>6
  <2> QED BY <2>2, <2>3
<1>4. CASE Misses(m)
  <2>1. marks' = marks /\ stale' = stale \union {u} /\ happened' = happened + 1 /\ happened < MaxEvents
    BY <1>1, <1>4 DEF Misses, Event
  <2> QED BY <1>2, <2>1
<1> QED BY <1>3, <1>4 DEF broadcast_to_project, m

LEMMA PresenceInv1 ==
    ASSUME Inv1, NEW k, Handling(k), Head(socket[k].up).op = "project_presence",
           broadcast_to_project(Mark(OwnerOf(k), socket[k].file, NoFile)), socket' = [socket EXCEPT ![k].up = Tail(@)],
           UNCHANGED <<user, editor, used, peers>>
    PROVE  Inv1'
<1>1. /\ socket' \in [Ids -> Socket] /\ Keeps(socket'[k], socket[k])
      /\ socket'[k].up = Tail(socket[k].up) /\ socket'[k].down = socket[k].down
      /\ \A j \in Ids \ {k} : socket'[j] = socket[j]
  BY PresenceEffect
<1>2. /\ k \in 1..used /\ k \in Ids /\ socket[k].page \in Pages /\ socket[k].file \in Files /\ Head(socket[k].up) \in Up
      /\ socket[k].phase = "attached" /\ k # NoSocket
  BY Handled DEF Handling
<1>3. OwnerOf(k) \in Users /\ socket[k].file # NoFile
  BY <1>2, PresenceAssumption DEF Inv1, TypeOK, OwnerOf
<1>4. /\ marks' \in [Users -> Files \union {NoFile}] /\ stale' \subseteq Users /\ happened' \in 0..MaxEvents
      /\ stale \subseteq stale' \union {OwnerOf(k)}
      /\ OwnerOf(k) \in stale /\ OwnerOf(k) \notin stale' => marks'[OwnerOf(k)] = socket[k].file
      /\ \A v \in Users \ stale' : marks'[v] = marks[v] \/ (v = OwnerOf(k) /\ marks'[v] = socket[k].file)
  BY <1>2, <1>3, MarksArrive DEF Inv1
<1>5. TypeOK'
  BY <1>1, <1>4 DEF Inv1, TypeOK
<1>6. Head(socket[k].up) # Bye
  BY Messages
<1>7. \A j \in Ids : Keeps(socket'[j], socket[j]) /\ (j # k => socket'[j] = socket[j]) /\ socket'[j].down = socket[j].down
  BY <1>1 DEF Keeps
<1>8. Numbered' /\ Serving' /\ Editing'
  BY <1>1, <1>2, <1>5, <1>6, <1>7, RelayInv1
<1>9. used \in 0..MaxSockets /\ MaxSockets \in Nat /\ \A j \in 1..used : j \in Ids
  BY PresenceAssumption DEF Inv1, TypeOK, Ids
<1>10. Owning'
  BY <1>7, <1>9 DEF Inv1, Owning, Keeps
<1>11. Marking'
  <2> SUFFICES ASSUME NEW v \in Users \ stale', marks'[v] # NoFile
               PROVE  \E j \in 1..used : socket'[j].phase = "attached" /\ socket'[j].file = marks'[v] /\ user[socket'[j].page] = v
    BY DEF Marking, Here, OwnerOf
  <2>1. CASE v = OwnerOf(k) /\ marks'[v] = socket[k].file
    BY <1>2, <1>7, <2>1 DEF OwnerOf, Keeps
  <2>2. CASE marks'[v] = marks[v] /\ v \notin stale
    <3>1. PICK j \in 1..used : Here(j, marks[v]) /\ OwnerOf(j) = v
      BY <2>2 DEF Inv1, Marking
    <3> QED BY <1>7, <1>9, <2>2, <3>1 DEF Here, OwnerOf, Keeps
  <2>3. v \in stale => v = OwnerOf(k)
    BY <1>4
  <2>4. CASE v \in stale /\ marks'[v] # socket[k].file
    BY <1>4, <2>3, <2>4
  <2> QED BY <1>4, <2>1, <2>2, <2>3, <2>4
<1> QED BY <1>5, <1>8, <1>10, <1>11 DEF Inv1

LEMMA DisconnectInv1 ==
    ASSUME Inv1, NEW k, Handling(k), Head(socket[k].up).op = "disconnect", Disconnect(k), UNCHANGED <<user, editor, used>>
    PROVE  Inv1'
<1>1. /\ socket' \in [Ids -> Socket]
      /\ socket'[k].page = socket[k].page /\ socket'[k].file = socket[k].file /\ socket'[k].id = socket[k].id
      /\ socket'[k].phase = "gone" /\ socket'[k].up = <<>> /\ socket'[k].down = <<>> /\ socket'[k].broken = socket[k].broken
      /\ \A j \in Ids \ {k} : /\ Keeps(socket'[j], socket[j]) /\ socket'[j].up = socket[j].up
                              /\ ~Listens(j, k) => socket'[j] = socket[j]
      /\ peers' \in [Ids -> [clock : Nat, ws : 0..MaxSockets]]
      /\ \A i \in Ids : peers'[i] = IF peers[i].ws = k THEN NoPeer ELSE peers[i]
      /\ IF has_user(k) THEN UNCHANGED <<marks, stale, happened>>
         ELSE broadcast_to_project(Mark(OwnerOf(k), NoFile, socket[k].file))
  BY DisconnectEffect
<1>2. /\ k \in 1..used /\ k \in Ids /\ socket[k].page \in Pages /\ socket[k].file \in Files /\ Head(socket[k].up) \in Up
      /\ socket[k].phase = "attached" /\ k # NoSocket /\ Head(socket[k].up) = socket[k].up[1] /\ socket[k].up \in Seq(Up) /\ socket[k].up # <<>>
  BY Handled DEF Handling
<1>3. OwnerOf(k) \in Users /\ socket[k].file # NoFile
  BY <1>2, PresenceAssumption DEF Inv1, TypeOK, OwnerOf
<1>4. Ends(k)
  BY <1>2, Messages, EndsOf DEF Ends
<1>5. NoFile \in Files \union {NoFile} /\ socket[k].file \in Files \union {NoFile}
  BY <1>2
<1>6. ~has_user(k) =>
         /\ marks' \in [Users -> Files \union {NoFile}] /\ stale' \subseteq Users /\ happened' \in 0..MaxEvents
         /\ stale \subseteq stale'
         /\ \A v \in Users : marks'[v] = marks[v] \/ marks'[v] = NoFile
         /\ OwnerOf(k) \notin stale' /\ marks'[OwnerOf(k)] # NoFile => marks[OwnerOf(k)] # socket[k].file
  <2> SUFFICES ASSUME ~has_user(k)
               PROVE  /\ marks' \in [Users -> Files \union {NoFile}] /\ stale' \subseteq Users /\ happened' \in 0..MaxEvents
                      /\ stale \subseteq stale'
                      /\ \A v \in Users : marks'[v] = marks[v] \/ marks'[v] = NoFile
                      /\ OwnerOf(k) \notin stale' /\ marks'[OwnerOf(k)] # NoFile => marks[OwnerOf(k)] # socket[k].file
    OBVIOUS
  <2>1. broadcast_to_project(Mark(OwnerOf(k), NoFile, socket[k].file)) /\ TypeOK
    BY <1>1 DEF Inv1
  <2> QED BY <1>3, <1>5, <2>1, MarksArrive
<1>7. TypeOK'
  BY <1>1, <1>6 DEF Inv1, TypeOK
<1>8. \A j \in Ids : /\ Named(socket[j], socket'[j]) /\ (socket[j].phase = "unused" => socket'[j] = socket[j])
                     /\ socket[j].phase # "unused" => socket'[j].phase # "unused"
  BY <1>1, <1>2 DEF Named, Keeps, Listens
<1>9. \A j \in Ids : ~socket'[j].broken => ~socket[j].broken /\ (Served(j) /\ ~Ends(j) => Served(j)' /\ ~Ends(j)')
  BY <1>1, <1>4 DEF Keeps, Served, Ends
<1>10. Numbered' /\ Editing'
  BY <1>7, <1>8, <1>9, PagesStay
<1>11. ASSUME NEW j \in Ids PROVE ServingAt(j)'
  <2>1. ServingAt(j)
    BY DEF Inv1, Serving
  <2>2. CASE j = k
    BY <1>1, <2>2 DEF ServingAt, Served
  <2>3. CASE j # k
    BY <1>1, <2>1, <2>3 DEF ServingAt, Served, Ends, Current, Keeps, Listens
  <2> QED BY <2>2, <2>3
<1>12. used \in 0..MaxSockets /\ MaxSockets \in Nat /\ \A j \in 1..used : j \in Ids
  BY PresenceAssumption DEF Inv1, TypeOK, Ids
<1>13. \A j \in 1..used : j # k => /\ socket'[j].phase = socket[j].phase /\ socket'[j].file = socket[j].file
                                   /\ socket'[j].id = socket[j].id /\ socket'[j].page = socket[j].page
  <2>1. \A j \in Ids \ {k} : Keeps(socket'[j], socket[j])
    BY <1>1
  <2> QED BY <1>12, <2>1 DEF Keeps
<1>14. Owning'
  <2> SUFFICES ASSUME NEW i \in Ids, peers'[i].ws # NoSocket
               PROVE  peers'[i].ws \in 1..used /\ socket'[peers'[i].ws].phase = "attached" /\ socket'[peers'[i].ws].id = i
    BY DEF Owning
  <2>1. peers'[i] = IF peers[i].ws = k THEN NoPeer ELSE peers[i]
    BY <1>1
  <2>2. peers'[i] = peers[i] /\ peers[i].ws # k
    BY <2>1 DEF NoPeer
  <2>3. peers[i].ws \in 1..used /\ socket[peers[i].ws].phase = "attached" /\ socket[peers[i].ws].id = i
    BY <2>2 DEF Inv1, Owning
  <2> QED BY <1>13, <2>2, <2>3
<1>15. Marking'
  <2> SUFFICES ASSUME NEW v \in Users \ stale', marks'[v] # NoFile
               PROVE  \E j \in 1..used : socket'[j].phase = "attached" /\ socket'[j].file = marks'[v] /\ user[socket'[j].page] = v
    BY DEF Marking, Here, OwnerOf
  <2>1. marks'[v] = marks[v] /\ v \notin stale
    BY <1>1, <1>6
  <2>2. PICK j \in 1..used : Here(j, marks[v]) /\ OwnerOf(j) = v
    BY <2>1 DEF Inv1, Marking
  <2>3. CASE j # k
    BY <1>13, <2>1, <2>2, <2>3 DEF Here, OwnerOf
  <2>4. CASE j = k
    <3>1. v = OwnerOf(k) /\ marks[v] = socket[k].file
      BY <2>2, <2>4 DEF Here
    <3>2. has_user(k)
      BY <1>6, <3>1
    <3>3. PICK l \in Ids \ {k} : Here(l, socket[k].file) /\ OwnerOf(l) = OwnerOf(k)
      BY <3>2 DEF has_user
    <3>4. l \in 1..used
      BY <1>12, <3>3 DEF Inv1, Numbered, NumberedAt, Here, Unused, Ids
    <3> QED BY <1>13, <2>1, <3>1, <3>3, <3>4 DEF Here, OwnerOf
  <2> QED BY <2>3, <2>4
<1> QED BY <1>7, <1>10, <1>11, <1>14, <1>15 DEF Inv1, Serving

\* The cases of the receive loop
LEMMA ServeCases ==
    ASSUME Inv1, NEW k \in Ids, Serve(k)
    PROVE  /\ Handling(k) /\ UNCHANGED <<user, editor, used>>
           /\ \/ Announces(Head(socket[k].up)) /\ accept(k, Head(socket[k].up))
              \/ /\ Head(socket[k].up).op = "project_presence"
                 /\ broadcast_to_project(Mark(OwnerOf(k), socket[k].file, NoFile))
                 /\ socket' = [socket EXCEPT ![k].up = Tail(@)] /\ UNCHANGED peers
              \/ Head(socket[k].up).op = "disconnect" /\ Disconnect(k)
  BY DEF Serve, Handling, Announces

LEMMA ServeInv1 ==
    ASSUME Inv1, NEW k \in Ids, Serve(k)
    PROVE  Inv1'
<1>1. Handling(k) /\ UNCHANGED <<user, editor, used>>
  BY ServeCases
<1>2. CASE Announces(Head(socket[k].up)) /\ accept(k, Head(socket[k].up))
  BY <1>1, <1>2, AcceptInv1
<1>3. CASE /\ Head(socket[k].up).op = "project_presence"
           /\ broadcast_to_project(Mark(OwnerOf(k), socket[k].file, NoFile))
           /\ socket' = [socket EXCEPT ![k].up = Tail(@)] /\ UNCHANGED peers
  BY <1>1, <1>3, PresenceInv1
<1>4. CASE Head(socket[k].up).op = "disconnect" /\ Disconnect(k)
  BY <1>1, <1>4, DisconnectInv1
<1> QED BY <1>2, <1>3, <1>4, ServeCases

LEMMA Inv1Stutter == Inv1 /\ UNCHANGED vars => Inv1'
<1> SUFFICES ASSUME Inv1, UNCHANGED vars PROVE Inv1'
  OBVIOUS
<1>1. UNCHANGED <<user, editor, socket, peers, marks, stale, used, happened>>
  BY DEF vars
<1>2. TypeOK'
  BY <1>1 DEF Inv1, TypeOK
<1>3. used' \in {used, used + 1} /\ used' # used + 1
  BY <1>1 DEF Inv1, TypeOK
<1>4. Numbered' /\ Editing'
  BY <1>1, <1>2, PagesStay DEF Named, Served, Ends
<1>5. Owning' /\ Marking'
  BY <1>1, <1>2, <1>3, AttachedStay DEF Named
<1>6. Serving'
  BY <1>1 DEF Inv1, Serving, ServingAt, Served, Ends, Current
<1> QED BY <1>2, <1>4, <1>5, <1>6 DEF Inv1

LEMMA Inv1Step == Inv1 /\ [Next]_vars => Inv1'
<1> SUFFICES ASSUME Inv1, [Next]_vars PROVE Inv1'
  OBVIOUS
<1>1. ASSUME NEW p \in Pages, NEW f \in Files, openFile(p, f) PROVE Inv1'
  BY <1>1, OpenInv1
<1>2. ASSUME NEW p \in Pages, closeTab(p) PROVE Inv1'
  BY <1>2, CloseInv1
<1>3. ASSUME NEW p \in Pages, Move(p) PROVE Inv1'
  BY <1>3, MoveInv1
<1>4. ASSUME NEW p \in Pages, OnMessage(p) PROVE Inv1'
  BY <1>4, MessageInv1
<1>5. ASSUME NEW p \in Pages, Reconnect(p) PROVE Inv1'
  BY <1>5, ReconnectInv1
<1>6. ASSUME NEW k \in Ids, Break(k) PROVE Inv1'
  BY <1>6, BreakInv1
<1>7. ASSUME NEW k \in Ids, Attach(k) PROVE Inv1'
  BY <1>7, AttachInv1
<1>8. ASSUME NEW k \in Ids, Serve(k) PROVE Inv1'
  BY <1>8, ServeInv1
<1>9. CASE UNCHANGED vars
  BY <1>9, Inv1Stutter
<1> QED BY <1>1, <1>2, <1>3, <1>4, <1>5, <1>6, <1>7, <1>8, <1>9 DEF Next

LEMMA Inv1Holds == Spec => []Inv1
  BY InitInv1, Inv1Step, PTL DEF Spec

\* The types of the pages, the sockets with what is on its way, the cursors and the marks
THEOREM TypeCorrect == Spec => []TypeOK
<1>1. Inv1 => TypeOK
  BY DEF Inv1
<1> QED BY <1>1, Inv1Holds, PTL

\* A mark stands with a connection; once everything sent has been handled, that
\* connection is the one of a page that has the file open.
LEMMA MarksFromInv1 == Inv1 => MarksAreTrue
<1> SUFFICES ASSUME Inv1, Settled, NEW u \in Users \ stale, marks[u] # NoFile
             PROVE  \E q \in Pages : user[q] = u /\ editor[q].file = marks[u]
  BY DEF MarksAreTrue
<1>1. PICK k \in 1..used : Here(k, marks[u]) /\ OwnerOf(k) = u
  BY DEF Inv1, Marking
<1>2. k \in Ids /\ k <= used /\ k # NoSocket
  BY <1>1, PresenceAssumption DEF Inv1, TypeOK, Ids, NoSocket
<1>3. ~Ends(k)
  BY <1>2, EndsOf DEF Settled, Ends
<1>4. Current(k)
  BY <1>1, <1>2, <1>3 DEF Inv1, Serving, ServingAt, Served, Here
<1> DEFINE q == socket[k].page
<1>5. q \in Pages
  BY <1>2 DEF Inv1, Numbered, NumberedAt
<1>6. editor[q].ws = k
  BY <1>4 DEF Current
<1>7. Of(k, q, editor[q].file, editor[q].id)
  BY <1>2, <1>5, <1>6, Connection
<1> QED BY <1>1, <1>5, <1>7 DEF Here, OwnerOf, Of

\* The file tree shows nobody in a file that they do not have open, whatever the order in
\* which the server learns of what was opened and left (MarksAreTrue, of the run presence).
THEOREM MarksHold == Spec => []MarksAreTrue
  BY MarksFromInv1, Inv1Holds, PTL

\* Whose mark a step takes away, left the file on its last connection.
LEMMA MarkStays ==
    ASSUME Inv1, [Next]_vars, NEW q \in Pages, editor[q].file # NoFile, Here(editor[q].ws, editor[q].file),
           ~socket[editor[q].ws].broken, marks[user[q]] = editor[q].file
    PROVE  marks'[user[q]] # NoFile
<1> DEFINE j == editor[q].ws
           u == user[q]
<1>1. u \in Users /\ marks[u] # NoFile
  BY DEF Inv1, TypeOK
<1>2. j \in Ids /\ socket[j].page = q /\ ~Ends(j)
  BY Connection DEF Open, Of, Inv1, Editing, EditingAt
<1>3. CASE marks' = marks
  BY <1>1, <1>3
<1>4. ASSUME NEW k \in Ids, Serve(k) PROVE marks'[u] # NoFile
  <2>1. Handling(k)
    BY <1>4, ServeCases
  <2>2. /\ socket[k].page \in Pages /\ socket[k].file \in Files /\ socket[k].up \in Seq(Up) /\ Head(socket[k].up) = socket[k].up[1]
        /\ Head(socket[k].up) \in Up /\ socket[k].up # <<>>
    BY <2>1, Handled DEF Handling
  <2>3. OwnerOf(k) \in Users /\ socket[k].file # NoFile
    BY <2>2, PresenceAssumption DEF Inv1, TypeOK, OwnerOf
  <2>4. CASE Announces(Head(socket[k].up)) /\ accept(k, Head(socket[k].up))
    BY <1>3, <2>4 DEF accept
  <2>5. CASE broadcast_to_project(Mark(OwnerOf(k), socket[k].file, NoFile))
    <3>1. \A v \in Users : marks'[v] = marks[v] \/ marks'[v] = socket[k].file
      BY <2>2, <2>3, <2>5, MarksArrive DEF Inv1
    <3> QED BY <1>1, <2>3, <3>1
  <2>6. CASE Head(socket[k].up).op = "disconnect" /\ Disconnect(k)
    <3>1. Ends(k)
      BY <2>2, <2>6, Messages, EndsOf DEF Ends
    <3>2. j # k
      BY <1>2, <3>1
    <3>3. CASE has_user(k)
      BY <1>3, <2>6, <3>3 DEF Disconnect
    <3>4. CASE ~has_user(k)
      <4>1. broadcast_to_project(Mark(OwnerOf(k), NoFile, socket[k].file))
        BY <2>6, <3>4 DEF Disconnect
      <4>2. NoFile \in Files \union {NoFile} /\ socket[k].file \in Files \union {NoFile} /\ TypeOK
        BY <2>2 DEF Inv1
      <4>3. \A v \in Users : marks'[v] = marks[v] \/ (v = OwnerOf(k) /\ marks[v] = socket[k].file)
        BY <2>3, <4>1, <4>2, MarksArrive
      <4>4. ~(u = OwnerOf(k) /\ editor[q].file = socket[k].file)
        BY <1>2, <3>2, <3>4 DEF has_user, OwnerOf
      <4> QED BY <1>1, <4>3, <4>4
    <3> QED BY <3>3, <3>4
  <2> QED BY <1>4, <2>4, <2>5, <2>6, ServeCases
<1>5. ASSUME NEW p \in Pages PROVE (\E f \in Files : openFile(p, f)) \/ closeTab(p) \/ Move(p) \/ OnMessage(p) \/ Reconnect(p) => marks' = marks
  BY DEF openFile, closeTab, Move, OnMessage, Reconnect
<1>6. ASSUME NEW k \in Ids PROVE Break(k) \/ Attach(k) => marks' = marks
  BY DEF Break, Attach
<1> QED BY <1>3, <1>4, <1>5, <1>6 DEF Next, vars

\* A mark that is true is not erased by a connection that ends late, or by another tab
\* of the same user (TrueMarksStay, of the run presence).
THEOREM TrueMarksHold == Spec => TrueMarksStay
<1>1. Inv1 /\ [Next]_vars =>
      [\A q \in Pages :
        LET ed == editor[q] IN
        /\ ed.file # NoFile /\ ed.ws = ed.id /\ Here(ed.ws, ed.file) /\ ~socket[ed.ws].broken
        /\ marks[user[q]] = ed.file /\ editor'[q].file = ed.file
        => marks'[user[q]] # NoFile]_vars
  BY MarkStays
<1> QED BY <1>1, Inv1Holds, PTL DEF Spec, TrueMarksStay
-----------------------------------------------------------------------------
(* The second invariant: clocks *)

\* What becomes of what is on its way, when nothing is announced
Less(v, u) ==
    \/ v = u \/ v = <<>> \/ (u # <<>> /\ v = Tail(u))
    \/ \E x \in Up : ~Announces(x) /\ v = Append(u, x)
    \/ \E n \in 0..Len(u) : v = Append(SubSeq(u, 1, n), Bye)

\* Each announcement of v is one of u, and they are in the same order.
Within(v, u) ==
    \E d \in {0, 1} : \A n \in 1..Len(v) : Announces(v[n]) => n + d \in 1..Len(u) /\ v[n] = u[n + d]

LEMMA LessWithin ==
    ASSUME NEW u \in Seq(Up), NEW v, Less(v, u)
    PROVE  Within(v, u) /\ Len(v) \in Nat /\ Len(u) \in Nat
<1>0. Len(u) \in Nat
  BY Grow, Messages
<1>1. CASE v = u
  BY <1>0, <1>1 DEF Within
<1>2. CASE v = <<>>
  BY <1>0, <1>2, None DEF Within
<1>3. CASE u # <<>> /\ v = Tail(u)
  <2>1. Len(u) \in Nat \ {0} /\ Len(v) = Len(u) - 1 /\ \A n \in 1..Len(v) : n + 1 \in 1..Len(u) /\ v[n] = u[n + 1]
    BY <1>3, Shrink
  <2> QED BY <2>1 DEF Within
<1>4. ASSUME NEW x \in Up, ~Announces(x), v = Append(u, x) PROVE Within(v, u) /\ Len(v) \in Nat
  <2>1. Len(u) \in Nat /\ Len(v) = Len(u) + 1 /\ v[Len(u) + 1] = x /\ \A n \in 1..Len(u) : v[n] = u[n]
    BY <1>4, Grow
  <2>2. \A n \in 1..Len(v) : Announces(v[n]) => n + 0 \in 1..Len(u) /\ v[n] = u[n + 0]
    BY <1>4, <2>1
  <2> QED BY <2>1, <2>2 DEF Within
<1>5. ASSUME NEW n \in 0..Len(u), v = Append(SubSeq(u, 1, n), Bye) PROVE Within(v, u) /\ Len(v) \in Nat
  <2> DEFINE w == SubSeq(u, 1, n)
  <2>1. w \in Seq(Up) /\ Len(w) = n /\ \A m \in 1..n : m \in 1..Len(u) /\ w[m] = u[m]
    BY Arriving
  <2>2. Bye \in Up /\ ~Announces(Bye)
    BY Messages
  <2> HIDE DEF w
  <2>3. Len(v) = n + 1 /\ v[n + 1] = Bye /\ \A m \in 1..n : v[m] = w[m]
    BY <1>5, <2>1, <2>2, Grow DEF w
  <2>4. \A m \in 1..Len(v) : Announces(v[m]) => m + 0 \in 1..Len(u) /\ v[m] = u[m + 0]
    BY <1>0, <2>1, <2>2, <2>3
  <2> QED BY <1>0, <2>3, <2>4 DEF Within
<1> QED BY <1>0, <1>1, <1>2, <1>3, <1>4, <1>5 DEF Less

LEMMA LessKeeps ==
    ASSUME NEW u \in Seq(Up), NEW v, Less(v, u)
    PROVE  /\ \A c \in Int : Until(u, c) => Until(v, c)
           /\ \A c \in Int : After(u, c) => After(v, c)
           /\ Rising(u) => Rising(v)
<1>1. Within(v, u) /\ Len(v) \in Nat /\ Len(u) \in Nat
  BY LessWithin
<1>2. PICK d \in {0, 1} : \A n \in 1..Len(v) : Announces(v[n]) => n + d \in 1..Len(u) /\ v[n] = u[n + d]
  BY <1>1 DEF Within
<1>3. ASSUME NEW c \in Int PROVE (Until(u, c) => Until(v, c)) /\ (After(u, c) => After(v, c))
  BY <1>2 DEF Until, After
<1>4. Rising(u) => Rising(v)
  <2> SUFFICES ASSUME Rising(u), NEW n \in 1..Len(v), NEW m \in 1..Len(v), n < m, Announces(v[n]), Announces(v[m])
               PROVE  v[n].clock < v[m].clock
    BY DEF Rising
  <2>1. n + d \in 1..Len(u) /\ m + d \in 1..Len(u) /\ n + d < m + d /\ v[n] = u[n + d] /\ v[m] = u[m + d]
    BY <1>1, <1>2
  <2> QED BY <2>1 DEF Rising
<1> QED BY <1>3, <1>4

\* A cursor is announced after the others.
LEMMA AnnounceLast ==
    ASSUME NEW u \in Seq(Up), NEW c \in Nat
    PROVE  LET v == Append(u, Now(c + 1)) IN
           /\ Until(u, c) => Until(v, c + 1)
           /\ Until(u, c) /\ Rising(u) => Rising(v)
           /\ \A b \in Int : After(u, b) /\ b <= c => After(v, b)
           /\ Waits(v, c + 1)
<1> DEFINE x == Now(c + 1)
           v == Append(u, x)
<1>0. c + 1 \in Nat
  OBVIOUS
<1>1. x \in Up /\ Announces(x) /\ x.clock = c + 1 /\ x.on
  BY <1>0, NowIs
<1> HIDE DEF x
<1>2. Len(u) \in Nat /\ Len(v) = Len(u) + 1 /\ v[Len(u) + 1] = x /\ \A n \in 1..Len(u) : v[n] = u[n] /\ u[n] \in Up
  BY <1>1, Grow
<1>3. \A n \in 1..Len(u) : Announces(u[n]) => u[n].clock \in Nat
  BY <1>2, Messages
<1> HIDE DEF v
<1>4. Until(u, c) => Until(v, c + 1)
  BY <1>1, <1>2, <1>3 DEF Until
<1>5. Until(u, c) /\ Rising(u) => Rising(v)
  <2> SUFFICES ASSUME Until(u, c), Rising(u), NEW n \in 1..Len(v), NEW m \in 1..Len(v), n < m, Announces(v[n]), Announces(v[m])
               PROVE  v[n].clock < v[m].clock
    BY DEF Rising
  <2>1. n \in 1..Len(u) /\ v[n] = u[n] /\ u[n].clock <= c /\ u[n].clock \in Nat
    BY <1>2, <1>3 DEF Until
  <2>2. CASE m \in 1..Len(u)
    BY <1>2, <2>1, <2>2 DEF Rising
  <2>3. CASE m = Len(u) + 1
    BY <1>1, <1>2, <2>1, <2>3
  <2> QED BY <1>2, <2>2, <2>3
<1>6. \A b \in Int : After(u, b) /\ b <= c => After(v, b)
  BY <1>1, <1>2, <1>3 DEF After
<1>7. Waits(v, c + 1)
  BY <1>2 DEF Waits, x
<1> QED BY <1>4, <1>5, <1>6, <1>7 DEF v, x

\* The first announcement of a connection
LEMMA AnnounceOnce ==
    ASSUME NEW c \in Nat
    PROVE  LET v == <<Now(c)>> IN Until(v, c) /\ Rising(v) /\ Waits(v, c)
<1> DEFINE x == Now(c)
<1>1. x \in Up /\ Announces(x) /\ x.clock = c /\ x.on
  BY NowIs
<1> HIDE DEF x
<1>2. Len(<<x>>) = 1 /\ <<x>>[1] = x
  BY One
<1>3. Until(<<x>>, c) /\ Rising(<<x>>) /\ Waits(<<x>>, c)
  BY <1>1, <1>2 DEF Until, Rising, Waits, x
<1> QED BY <1>3 DEF x

LEMMA AnnounceTwice ==
    ASSUME NEW c \in Nat
    PROVE  LET v == <<Now(c + 1), Now(c + 2)>> IN Until(v, c + 2) /\ Rising(v) /\ Waits(v, c + 2)
<1> DEFINE x == Now(c + 1)
           y == Now(c + 2)
           v == <<x, y>>
<1>0. c + 1 \in Nat /\ c + 2 \in Nat
  OBVIOUS
<1>1. x \in Up /\ Announces(x) /\ x.clock = c + 1 /\ x.on /\ y \in Up /\ Announces(y) /\ y.clock = c + 2 /\ y.on
  BY <1>0, NowIs
<1> HIDE DEF x, y
<1>2. Len(v) = 2 /\ v[1] = x /\ v[2] = y
  BY Two
<1> HIDE DEF v
<1>3. Until(v, c + 2) /\ Rising(v) /\ Waits(v, c + 2)
  <2>1. \A n \in 1..Len(v) : (n = 1 /\ v[n] = x) \/ (n = 2 /\ v[n] = y)
    BY <1>2
  <2>2. Until(v, c + 2)
    BY <1>1, <2>1 DEF Until
  <2>3. Rising(v)
    BY <1>1, <2>1 DEF Rising
  <2>4. Waits(v, c + 2)
    BY <1>2 DEF Waits, y
  <2> QED BY <2>2, <2>3, <2>4
<1> QED BY <1>3 DEF v, x, y

\* The sockets of a client id are those of one page.
LEMMA IdPage ==
    ASSUME Inv1, NEW q \in Pages, Open(q), NEW k \in 1..used, socket[k].id = editor[q].id
    PROVE  socket[k].page = q /\ socket[k].file = editor[q].file
<1>1. used \in 0..MaxSockets /\ MaxSockets \in Nat
  BY PresenceAssumption DEF Inv1, TypeOK
<1>2. k \in Ids /\ k <= used
  BY <1>1 DEF Ids
<1>3. Of(socket[k].id, socket[k].page, socket[k].file, socket[k].id)
  BY <1>2 DEF Inv1, Numbered, NumberedAt
<1> DEFINE j == editor[q].ws
<1>4. j \in Ids /\ j \in 1..used /\ Of(j, q, editor[q].file, editor[q].id)
  BY Connection
<1>5. j <= used
  BY <1>1, <1>4
<1>6. Of(socket[j].id, socket[j].page, socket[j].file, socket[j].id)
  BY <1>4, <1>5 DEF Inv1, Numbered, NumberedAt
<1> QED BY <1>3, <1>4, <1>6 DEF Of

LEMMA IdsApart ==
    ASSUME Inv1, NEW p \in Pages, NEW q \in Pages, p # q, Open(p), Open(q)
    PROVE  editor[p].id # editor[q].id
<1>1. editor[p].ws \in 1..used /\ socket[editor[p].ws].page = p /\ socket[editor[p].ws].id = editor[p].id
  BY Connection DEF Of
<1> QED BY <1>1, IdPage

\* A page whose cursor is not announced
LEMMA OrderedStays ==
    ASSUME Inv1, TypeOK', NEW q \in Pages, Ordered(q), Stays(q), editor'[q].clock = editor[q].clock, used' \in {used, used + 1},
           \A k \in Ids : k <= used => /\ socket'[k].id = socket[k].id
                                       /\ Open(q) /\ socket[k].id = editor[q].id => Less(socket'[k].up, socket[k].up),
           used' = used + 1 /\ Open(q) => socket'[used'].id # editor[q].id,
           Open(q) => \/ peers'[editor[q].id] = peers[editor[q].id] \/ peers'[editor[q].id] = NoPeer
                      \/ LET peer == peers'[editor[q].id] IN
                         /\ peer.clock <= editor[q].clock /\ (peer.ws # editor[q].ws => peer.clock + 2 <= editor[q].clock)
                         /\ peer.ws = editor[q].ws => After(socket'[editor[q].ws].up, peer.clock)
    PROVE  Ordered(q)'
<1>1. used \in 0..MaxSockets /\ used' \in 0..MaxSockets /\ MaxSockets \in Nat
  BY PresenceAssumption DEF Inv1, TypeOK
<1> SUFFICES ASSUME Open(q) PROVE Ordered(q)'
  BY DEF Ordered, Open, Stays
<1> DEFINE i == editor[q].id
           c == editor[q].clock
           j == editor[q].ws
<1>2. i \in Ids /\ c \in Nat /\ c - 2 \in Int /\ j \in Ids /\ j \in 1..used /\ socket[j].id = i
  BY Connection DEF Of
<1>3. editor'[q].file = editor[q].file /\ editor'[q].id = i /\ editor'[q].clock = c /\ editor'[q].ws = j
  BY DEF Stays
<1>4. ASSUME NEW k \in 1..used, socket[k].id = i
      PROVE  /\ \A b \in Int : (Until(socket[k].up, b) => Until(socket'[k].up, b)) /\ (After(socket[k].up, b) => After(socket'[k].up, b))
             /\ Rising(socket[k].up) => Rising(socket'[k].up)
  <2>1. k \in Ids /\ k <= used
    BY <1>1 DEF Ids
  <2>2. socket[k] \in Socket /\ Less(socket'[k].up, socket[k].up)
    BY <1>4, <2>1 DEF Inv1, TypeOK
  <2>3. socket[k].up \in Seq(Up)
    BY <2>2, SocketFields
  <2> QED BY <2>2, <2>3, LessKeeps
<1>5. ASSUME NEW k \in 1..used', socket'[k].id = i PROVE k \in 1..used /\ socket[k].id = i
  <2>1. CASE k = used + 1 /\ used' = used + 1
    BY <1>5, <2>1
  <2>2. CASE k <= used
    <3>1. k \in Ids
      BY <1>1, <2>2 DEF Ids
    <3> QED BY <1>1, <1>5, <2>2, <3>1
  <2> QED BY <1>1, <2>1, <2>2
<1>6. \A k \in 1..used : socket[k].id = i => Until(socket[k].up, c) /\ (k # j => Until(socket[k].up, c - 2))
  BY DEF Ordered
<1>7. \A k \in 1..used' : socket'[k].id = i => Until(socket'[k].up, c) /\ (k # j => Until(socket'[k].up, c - 2))
  <2> TAKE k \in 1..used'
  <2> HAVE socket'[k].id = i
  <2>1. k \in 1..used /\ socket[k].id = i
    BY <1>5
  <2> HIDE DEF i, c, j
  <2>2. Until(socket[k].up, c) /\ (k # j => Until(socket[k].up, c - 2))
    BY <1>6, <2>1
  <2>3. c \in Int /\ c - 2 \in Int
    BY <1>2
  <2> QED BY <1>4, <2>1, <2>2, <2>3
<1>8. Rising(socket'[j].up)
  BY <1>2, <1>4 DEF Ordered
<1>9. CASE peers'[i] = peers[i]
  <2>1. peers[i].clock \in Int
    BY <1>2 DEF Inv1, TypeOK
  <2>2. peers[i].ws = j => After(socket'[j].up, peers[i].clock)
    BY <1>2, <1>4, <2>1 DEF Ordered
  <2> QED BY <1>3, <1>7, <1>8, <1>9, <2>2 DEF Ordered, Open
<1>10. CASE peers'[i] = NoPeer
  <2>1. peers'[i].ws = NoSocket /\ j # NoSocket
    BY <1>2, <1>10 DEF NoPeer, NoSocket
  <2> QED BY <1>3, <1>7, <1>8, <2>1 DEF Ordered, Open
<1>11. CASE /\ peers'[i].clock <= c /\ (peers'[i].ws # j => peers'[i].clock + 2 <= c)
            /\ peers'[i].ws = j => After(socket'[j].up, peers'[i].clock)
  BY <1>3, <1>7, <1>8, <1>11 DEF Ordered, Open
<1> QED BY <1>9, <1>10, <1>11

LEMMA WaitsOn ==
    ASSUME NEW u \in Seq(Up), NEW c \in Nat, Waits(u, c)
    PROVE  /\ \A x \in Up : Waits(Append(u, x), c)
           /\ u # <<>> /\ (u[1] # Now(c) => Waits(Tail(u), c))
<1>1. PICK n \in 1..Len(u) : u[n] = Now(c)
  BY DEF Waits
<1>2. ASSUME NEW x \in Up PROVE Waits(Append(u, x), c)
  <2>1. Len(u) \in Nat /\ Len(Append(u, x)) = Len(u) + 1 /\ Append(u, x)[n] = u[n]
    BY Grow
  <2>2. n \in 1..Len(Append(u, x))
    BY <2>1
  <2> QED BY <1>1, <2>1, <2>2 DEF Waits
<1>3. u # <<>>
  BY <1>1, None
<1>4. ASSUME u[1] # Now(c) PROVE Waits(Tail(u), c)
  <2>1. n - 1 \in 1..Len(Tail(u)) /\ Tail(u)[n - 1] = u[n]
    BY <1>1, <1>3, <1>4, Shrink
  <2> QED BY <1>1, <2>1 DEF Waits
<1> QED BY <1>2, <1>3, <1>4

\* A page whose cursor stays where it is, and whose connection and cursor the step does not touch
LEMMA ToldStays ==
    ASSUME Inv1, NEW q \in Pages, Told(q), Stays(q), editor'[q].clock = editor[q].clock,
           LET j == editor[q].ws IN
           Open(q) /\ ~socket'[j].broken =>
               /\ ~socket[j].broken
               /\ Waits(socket[j].up, editor[q].clock) => Waits(socket'[j].up, editor[q].clock) \/ Known(q)'
               /\ Known(q) => Known(q)'
    PROVE  Told(q)'
<1> SUFFICES ASSUME Open(q), ~socket'[editor[q].ws].broken PROVE Pending(q)' \/ Known(q)'
  BY DEF Told, Stays, Open
<1>1. CASE Pending(q)
  BY <1>1 DEF Pending, Stays
<1>2. CASE Known(q)
  BY <1>2
<1> QED BY <1>1, <1>2 DEF Told

\* The other pages' sockets
LEMMA OtherClocks ==
    ASSUME Inv1, TypeOK', NEW q \in Pages, Clocks(q), editor'[q] = editor[q], UNCHANGED peers, used' \in {used, used + 1},
           \A k \in Ids : k <= used => Named(socket[k], socket'[k]) /\ (Open(q) /\ socket[k].page = q => socket'[k].up = socket[k].up),
           \A k \in Ids : k <= used /\ socket[k].page = q => (socket[k].broken => socket'[k].broken),
           used' = used + 1 /\ Open(q) => socket'[used'].id # editor[q].id
    PROVE  Clocks(q)'
<1>1. used \in 0..MaxSockets /\ MaxSockets \in Nat
  BY PresenceAssumption DEF Inv1, TypeOK
<1>2. Stays(q) /\ editor'[q].clock = editor[q].clock
  BY DEF Stays
<1>3. ASSUME NEW k \in Ids, k <= used
      PROVE  socket'[k].id = socket[k].id /\ (Open(q) /\ socket[k].id = editor[q].id => Less(socket'[k].up, socket[k].up))
  <2>1. k \in 1..used
    BY <1>1, <1>3 DEF Ids
  <2>2. Open(q) /\ socket[k].id = editor[q].id => socket[k].page = q
    BY <2>1, IdPage
  <2> QED BY <1>3, <2>2 DEF Less, Named
<1>4. Ordered(q)'
  BY <1>2, <1>3, OrderedStays DEF Clocks
<1>5. Told(q)'
  <2>1. Open(q) => editor[q].ws \in Ids /\ editor[q].ws <= used /\ socket[editor[q].ws].page = q
    BY <1>1, Connection DEF Of
  <2>2. Known(q) => Known(q)'
    BY DEF Known
  <2> QED BY <1>2, <2>1, <2>2, ToldStays DEF Clocks
<1> QED BY <1>4, <1>5 DEF Clocks

\* The sockets that a page leaves behind are its own.
LEMMA LeftClocks ==
    ASSUME Inv1, TypeOK', NEW p \in Pages, NEW q \in Pages, p # q, Clocks(q), editor'[q] = editor[q], UNCHANGED peers, used' \in {used, used + 1},
           \A k \in Ids : k <= used => Leaves(p, k, socket'[k]),
           used' = used + 1 /\ Open(q) => socket'[used'].id # editor[q].id
    PROVE  Clocks(q)'
<1>1. ASSUME NEW k \in Ids, k <= used
      PROVE  /\ Named(socket[k], socket'[k]) /\ (socket[k].page = q => socket'[k].up = socket[k].up)
             /\ socket[k].broken => socket'[k].broken
  <2>1. Keeps(socket'[k], socket[k]) /\ (k # editor[p].ws => socket'[k] = socket[k])
    BY <1>1 DEF Leaves
  <2>2. k = editor[p].ws => socket[k].page = p
    BY Connection DEF Of, Ids, NoSocket
  <2> QED BY <2>1, <2>2 DEF Keeps, Named
<1> QED BY <1>1, OtherClocks

LEMMA OpenClocks ==
    ASSUME Inv1, Inv1', NEW p \in Pages, NEW f \in Files, openFile(p, f), NEW q \in Pages, Clocks(q)
    PROVE  Clocks(q)'
<1> DEFINE n == used + 1
<1>1. /\ used' = n /\ n \in Ids /\ Others(p) /\ New(socket'[n], p, f, n) /\ socket'[n].up = <<Now(1)>>
      /\ \A k \in Ids \ {n} : Leaves(p, k, socket'[k])
      /\ editor'[p].id = n /\ editor'[p].ws = n /\ editor'[p].clock = 1 /\ UNCHANGED peers
  BY OpenEffect DEF Inv1
<1>2. used \in 0..MaxSockets /\ MaxSockets \in Nat
  BY PresenceAssumption DEF Inv1, TypeOK
<1>3. \A k \in Ids : k <= used => k # n /\ Leaves(p, k, socket'[k]) /\ socket[k].id \in 1..k
  BY <1>1, <1>2 DEF Inv1, Numbered, NumberedAt
<1>4. CASE q # p
  <2>1. editor'[q] = editor[q]
    BY <1>1, <1>4 DEF Others
  <2>2. Open(q) => editor[q].id \in 1..editor[q].ws /\ editor[q].ws \in 1..used
    BY Connection
  <2>3. Open(q) => socket'[used'].id # editor[q].id
    BY <1>1, <1>2, <2>2 DEF New
  <2>4. TypeOK'
    BY DEF Inv1
  <2> QED BY <1>1, <1>3, <1>4, <2>1, <2>3, <2>4, LeftClocks
<1>5. CASE q = p
  <2>1. \A k \in 1..n : socket'[k].id = n => k = n
    <3> SUFFICES ASSUME NEW k \in 1..n, k # n PROVE socket'[k].id # n
      OBVIOUS
    <3>1. k \in Ids /\ k <= used
      BY <1>2 DEF Ids
    <3>2. Keeps(socket'[k], socket[k]) /\ socket[k].id \in 1..k
      BY <1>3, <3>1 DEF Leaves
    <3> QED BY <1>2, <3>1, <3>2 DEF Keeps
  <2>2. peers'[n].ws = NoSocket
    <3> SUFFICES ASSUME peers[n].ws # NoSocket PROVE FALSE
      BY <1>1
    <3> DEFINE w == peers[n].ws
    <3>1. w \in 1..used /\ socket[w].id = n
      BY <1>1 DEF Inv1, Owning
    <3>2. w \in Ids /\ w <= used
      BY <1>2, <3>1 DEF Ids
    <3> QED BY <1>2, <1>3, <3>1, <3>2
  <2>3. Until(socket'[n].up, 1) /\ Rising(socket'[n].up) /\ Waits(socket'[n].up, 1)
    BY <1>1, AnnounceOnce
  <2>4. n # NoSocket
    BY <1>2 DEF NoSocket
  <2> HIDE DEF n
  <2>5. Ordered(p)'
    BY <1>1, <2>1, <2>2, <2>3, <2>4 DEF Ordered
  <2>6. Told(p)'
    BY <1>1, <2>3 DEF Told, Pending
  <2> QED BY <1>5, <2>5, <2>6 DEF Clocks
<1> QED BY <1>4, <1>5

LEMMA CloseClocks ==
    ASSUME Inv1, Inv1', NEW p \in Pages, closeTab(p), NEW q \in Pages, Clocks(q)
    PROVE  Clocks(q)'
<1>1. Others(p) /\ editor'[p] = NoEditor /\ (\A k \in Ids : Leaves(p, k, socket'[k])) /\ UNCHANGED <<peers, used>>
  BY CloseEffect DEF Inv1
<1>2. used \in Nat
  BY PresenceAssumption DEF Inv1, TypeOK
<1>3. CASE q # p
  <2>1. editor'[q] = editor[q] /\ TypeOK'
    BY <1>1, <1>3 DEF Others, Inv1
  <2>2. used' # used + 1
    BY <1>1, <1>2
  <2> QED BY <1>1, <1>3, <2>1, <2>2, LeftClocks
<1>4. CASE q = p
  <2>1. ~Open(p)'
    BY <1>1 DEF Open, NoEditor
  <2> QED BY <1>4, <2>1 DEF Clocks, Ordered, Told
<1> QED BY <1>3, <1>4

LEMMA RisingAfter ==
    ASSUME NEW u \in Seq(Up), u # <<>>, Rising(u), Announces(u[1])
    PROVE  After(Tail(u), u[1].clock)
<1>1. /\ Len(u) \in Nat \ {0} /\ Len(Tail(u)) = Len(u) - 1 /\ 1 \in 1..Len(u)
      /\ \A n \in 1..Len(Tail(u)) : n + 1 \in 1..Len(u) /\ Tail(u)[n] = u[n + 1]
  BY Shrink
<1> SUFFICES ASSUME NEW n \in 1..Len(Tail(u)), Announces(Tail(u)[n]) PROVE u[1].clock < Tail(u)[n].clock
  BY DEF After
<1>2. n + 1 \in 1..Len(u) /\ 1 < n + 1 /\ Tail(u)[n] = u[n + 1]
  BY <1>1
<1> QED BY <1>1, <1>2 DEF Rising

LEMMA UntilLater ==
    ASSUME NEW u \in Seq(Up), NEW c \in Int, NEW b \in Int, c <= b, Until(u, c)
    PROVE  Until(u, b)
<1>1. Len(u) \in Nat /\ \A n \in 1..Len(u) : u[n] \in Up
  BY Grow, Messages
<1>2. \A n \in 1..Len(u) : Announces(u[n]) => u[n].clock \in Nat
  BY <1>1, Messages
<1> QED BY <1>1, <1>2 DEF Until

LEMMA MoveClocks ==
    ASSUME Inv1, Inv1', NEW p \in Pages, Move(p), NEW q \in Pages, Clocks(q)
    PROVE  Clocks(q)'
<1> DEFINE j == editor[p].ws
           i == editor[p].id
           c == editor[p].clock
<1>1. /\ Open(p) /\ Others(p) /\ Stays(p) /\ editor'[p].clock = c + 1
      /\ \A k \in Ids : /\ Keeps(socket'[k], socket[k])
                        /\ socket'[k].up = IF k = j /\ ~socket[k].broken THEN Append(socket[k].up, Now(c + 1)) ELSE socket[k].up
                        /\ k # j => socket'[k] = socket[k]
      /\ UNCHANGED <<peers, used>>
  BY MoveEffect
<1>2. used \in 0..MaxSockets /\ MaxSockets \in Nat /\ used' # used + 1 /\ used' \in {used, used + 1}
  BY <1>1, PresenceAssumption DEF Inv1, TypeOK
<1>3. j \in Ids /\ j \in 1..used /\ c \in Nat /\ i \in Ids /\ socket[j].page = p /\ socket[j].id = i
  BY <1>1, Connection DEF Of
<1>4. CASE q # p
  <2>1. editor'[q] = editor[q] /\ TypeOK'
    BY <1>1, <1>4 DEF Others, Inv1
  <2>2. ASSUME NEW k \in Ids PROVE Named(socket[k], socket'[k]) /\ socket'[k].broken = socket[k].broken
    BY <1>1 DEF Keeps, Named
  <2>3. ASSUME NEW k \in Ids, socket[k].page = q PROVE socket'[k].up = socket[k].up
    BY <1>1, <1>3, <1>4, <2>3
  <2> QED BY <1>1, <1>2, <2>1, <2>2, <2>3, OtherClocks
<1>5. CASE q = p
  <2>1. editor'[p].ws = j /\ editor'[p].id = i /\ editor'[p].clock = c + 1 /\ editor'[p].file = editor[p].file
    BY <1>1 DEF Stays
  <2>2. ASSUME NEW k \in 1..used, socket[k].id = i
        PROVE  Until(socket'[k].up, c + 1) /\ (k # j => Until(socket'[k].up, (c + 1) - 2))
    <3>1. k \in Ids
      BY <1>2 DEF Ids
    <3>2. socket[k] \in Socket
      BY <3>1 DEF Inv1, TypeOK
    <3>3. socket[k].up \in Seq(Up)
      BY <3>2, SocketFields
    <3>4. Until(socket[k].up, c) /\ (k # j => Until(socket[k].up, c - 2))
      BY <1>1, <1>5, <2>2 DEF Clocks, Ordered
    <3>5. c - 2 \in Int /\ (c + 1) - 2 \in Int /\ c + 1 \in Int /\ c \in Int /\ c - 2 <= (c + 1) - 2 /\ c <= c + 1
      BY <1>3
    <3>6. Until(socket[k].up, c + 1) /\ (k # j => Until(socket[k].up, (c + 1) - 2))
      <4> HIDE DEF c, j
      <4> QED BY <3>3, <3>4, <3>5, UntilLater
    <3>7. CASE k = j /\ ~socket[k].broken
      <4> HIDE DEF c
      <4> QED BY <1>1, <1>3, <3>1, <3>3, <3>4, <3>7, AnnounceLast
    <3>8. CASE ~(k = j /\ ~socket[k].broken)
      BY <1>1, <3>1, <3>6, <3>8
    <3> QED BY <3>7, <3>8
  <2>3. socket[j] \in Socket
    BY <1>3 DEF Inv1, TypeOK
  <2>4. socket[j].up \in Seq(Up)
    BY <2>3, SocketFields
  <2>5. Until(socket[j].up, c) /\ Rising(socket[j].up)
    BY <1>1, <1>3, <1>5 DEF Clocks, Ordered
  <2>6. peers[i].clock \in Nat
    BY <1>3 DEF Inv1, TypeOK
  <2>7. peers[i].ws = j => After(socket[j].up, peers[i].clock) /\ peers[i].clock <= c
    BY <1>1, <1>3, <1>5 DEF Clocks, Ordered, NoSocket, Ids
  <2>8. /\ Rising(socket'[j].up) /\ (peers[i].ws = j => After(socket'[j].up, peers[i].clock))
        /\ ~socket'[j].broken => Waits(socket'[j].up, c + 1)
    <3>1. CASE ~socket[j].broken
      <4>1. socket'[j].up = Append(socket[j].up, Now(c + 1))
        BY <1>1, <1>3, <3>1
      <4>2. peers[i].clock \in Int
        BY <2>6
      <4> HIDE DEF c, j, i
      <4> QED BY <1>3, <2>4, <2>5, <2>7, <4>1, <4>2, AnnounceLast
    <3>2. CASE socket[j].broken
      BY <1>1, <1>3, <2>5, <2>7, <3>2 DEF Keeps
    <3> QED BY <3>1, <3>2
  <2>9. \A k \in 1..used : socket'[k].id = socket[k].id
    BY <1>1, <1>2 DEF Keeps, Ids
  <2>10. (peers[i].ws # NoSocket => peers[i].clock <= c) /\ (peers[i].ws \notin {NoSocket, j} => peers[i].clock + 2 <= c)
    BY <1>1, <1>5 DEF Clocks, Ordered
  <2>11. (peers[i].ws # NoSocket => peers[i].clock <= c + 1) /\ (peers[i].ws \notin {NoSocket, j} => peers[i].clock + 2 <= c + 1)
    BY <1>3, <2>6, <2>10
  <2> HIDE DEF c, j, i
  <2>12. Ordered(p)'
    BY <1>1, <2>1, <2>2, <2>8, <2>9, <2>11 DEF Ordered
  <2>13. Told(p)'
    BY <2>1, <2>8 DEF Told, Pending
  <2> QED BY <1>5, <2>12, <2>13 DEF Clocks
<1> QED BY <1>4, <1>5

LEMMA MessageClocks ==
    ASSUME Inv1, Inv1', NEW p \in Pages, OnMessage(p), NEW q \in Pages, Clocks(q)
    PROVE  Clocks(q)'
<1> DEFINE j == editor[p].ws
<1>1. /\ Open(p) /\ Others(p) /\ Stays(p) /\ editor'[p].clock = editor[p].clock
      /\ Keeps(socket'[j], socket[j])
      /\ socket'[j].up = socket[j].up \/ socket'[j].up = Append(socket[j].up, InFile)
      /\ \A k \in Ids \ {j} : socket'[k] = socket[k]
      /\ UNCHANGED <<peers, used>>
  <2>1. Open(p) /\ Others(p) /\ Stays(p) /\ editor'[p].clock = editor[p].clock
    BY MessageEffect
  <2>2. Keeps(socket'[j], socket[j]) /\ (\A k \in Ids \ {j} : socket'[k] = socket[k]) /\ UNCHANGED <<peers, used>>
    BY MessageEffect
  <2>3. socket'[j].up = socket[j].up \/ socket'[j].up = Append(socket[j].up, InFile)
    BY MessageEffect
  <2> QED BY <2>1, <2>2, <2>3
<1>2. used \in Nat /\ used' # used + 1 /\ used' \in {used, used + 1} /\ TypeOK'
  BY <1>1, PresenceAssumption DEF Inv1, TypeOK
<1>3. j \in Ids /\ socket[j].page = p /\ editor[p].clock \in Nat
  BY <1>1, Connection DEF Of
<1>4. \A k \in Ids : Named(socket[k], socket'[k]) /\ socket'[k].broken = socket[k].broken
  BY <1>1, <1>3 DEF Keeps, Named
<1>5. CASE q # p
  <2>1. editor'[q] = editor[q]
    BY <1>1, <1>5 DEF Others
  <2>2. \A k \in Ids : socket[k].page = q => socket'[k].up = socket[k].up
    BY <1>1, <1>3, <1>5
  <2> QED BY <1>1, <1>2, <1>4, <2>1, <2>2, OtherClocks
<1>6. CASE q = p
  <2>1. InFile \in Up /\ ~Announces(InFile)
    BY Messages
  <2>2. \A k \in Ids : socket'[k].id = socket[k].id /\ Less(socket'[k].up, socket[k].up)
    BY <1>1, <1>4, <2>1 DEF Less, Named
  <2>3. Ordered(p)'
    BY <1>1, <1>2, <1>6, <2>2, OrderedStays DEF Clocks
  <2>4. socket[j] \in Socket
    BY <1>3 DEF Inv1, TypeOK
  <2>5. socket[j].up \in Seq(Up)
    BY <2>4, SocketFields
  <2>6. Waits(socket[j].up, editor[p].clock) => Waits(socket'[j].up, editor[p].clock)
    BY <1>1, <1>3, <2>1, <2>5, WaitsOn
  <2>7. Known(p) => Known(p)'
    BY <1>1 DEF Known, Stays
  <2>8. Told(p)'
    BY <1>1, <1>3, <1>4, <1>6, <2>6, <2>7, ToldStays DEF Clocks
  <2> QED BY <1>6, <2>3, <2>8 DEF Clocks
<1> QED BY <1>5, <1>6

LEMMA ReconnectClocks ==
    ASSUME Inv1, Inv1', NEW p \in Pages, Reconnect(p), NEW q \in Pages, Clocks(q)
    PROVE  Clocks(q)'
<1> DEFINE n == used + 1
           i == editor[p].id
           c == editor[p].clock
<1>1. /\ Open(p) /\ n \in Ids /\ used' = n /\ Others(p)
      /\ New(socket'[n], p, editor[p].file, i) /\ socket'[n].up = <<Now(c + 1), Now(c + 2)>>
      /\ \A k \in Ids \ {n} : socket'[k] = socket[k]
      /\ editor'[p].id = i /\ editor'[p].ws = n /\ editor'[p].clock = c + 2
      /\ UNCHANGED peers
  BY ReconnectEffect
<1>2. used \in 0..MaxSockets /\ MaxSockets \in Nat /\ used' \in {used, used + 1} /\ TypeOK'
  BY <1>1, PresenceAssumption DEF Inv1, TypeOK
<1>3. i \in Ids /\ c \in Nat
  BY <1>1, Connection
<1>4. \A k \in Ids : k <= used => socket'[k] = socket[k]
  BY <1>1, <1>2
<1>5. CASE q # p
  <2>1. editor'[q] = editor[q]
    BY <1>1, <1>5 DEF Others
  <2>2. Open(q) => socket'[used'].id # editor[q].id
    BY <1>1, <1>5, IdsApart DEF New
  <2> QED BY <1>1, <1>2, <1>4, <2>1, <2>2, OtherClocks DEF Named
<1>6. CASE q = p
  <2>1. Until(socket'[n].up, c + 2) /\ Rising(socket'[n].up) /\ Waits(socket'[n].up, c + 2)
    <3> HIDE DEF c, n
    <3> QED BY <1>1, <1>3, AnnounceTwice
  <2>2. ASSUME NEW k \in 1..n, socket'[k].id = i, k # n
        PROVE  Until(socket'[k].up, c + 2) /\ Until(socket'[k].up, (c + 2) - 2)
    <3>1. k \in Ids /\ k \in 1..used
      BY <1>2, <2>2 DEF Ids
    <3>2. socket'[k] = socket[k] /\ socket[k] \in Socket
      BY <1>1, <2>2, <3>1 DEF Inv1, TypeOK
    <3>3. socket[k].up \in Seq(Up) /\ socket[k].id = i
      BY <2>2, <3>2, SocketFields
    <3>4. Until(socket[k].up, c)
      BY <1>1, <1>6, <3>1, <3>3 DEF Clocks, Ordered
    <3>5. c + 2 \in Int /\ c \in Int /\ c <= c + 2 /\ (c + 2) - 2 = c
      BY <1>3
    <3> HIDE DEF c
    <3> QED BY <3>2, <3>3, <3>4, <3>5, UntilLater
  <2>3. peers[i].clock \in Nat /\ peers[i].ws # n
    <3>1. peers[i].ws # NoSocket => peers[i].ws \in 1..used
      BY <1>3 DEF Inv1, Owning
    <3>2. n \notin 1..used /\ n # NoSocket
      BY <1>2 DEF NoSocket
    <3> QED BY <1>3, <3>1, <3>2 DEF Inv1, TypeOK
  <2>4. peers[i].ws # NoSocket => peers[i].clock <= c + 2 /\ peers[i].clock + 2 <= c + 2
    <3>1. peers[i].ws # NoSocket => peers[i].clock <= c
      BY <1>1, <1>6 DEF Clocks, Ordered
    <3> QED BY <1>3, <2>3, <3>1
  <2> HIDE DEF n, c, i
  <2>5. Ordered(p)'
    BY <1>1, <2>1, <2>2, <2>3, <2>4 DEF Ordered
  <2>6. Told(p)'
    BY <1>1, <2>1 DEF Told, Pending
  <2> QED BY <1>6, <2>5, <2>6 DEF Clocks
<1> QED BY <1>5, <1>6

LEMMA BreakClocks ==
    ASSUME Inv1, Inv1', NEW k \in Ids, Break(k), NEW q \in Pages, Clocks(q)
    PROVE  Clocks(q)'
<1>1. Breaks(socket[k], socket'[k]) /\ (\A j \in Ids \ {k} : socket'[j] = socket[j]) /\ UNCHANGED <<editor, peers, used>>
  BY BreakEffect DEF Inv1
<1>2. used \in Nat /\ used' # used + 1 /\ used' \in {used, used + 1} /\ TypeOK'
  BY <1>1, PresenceAssumption DEF Inv1, TypeOK
<1>3. Less(socket'[k].up, socket[k].up) /\ socket'[k].id = socket[k].id /\ socket'[k].broken
  BY <1>1 DEF Breaks, Less
<1>4. \A j \in Ids : Less(socket'[j].up, socket[j].up) /\ socket'[j].id = socket[j].id
  BY <1>1, <1>3 DEF Less
<1>5. Stays(q) /\ editor'[q].clock = editor[q].clock
  BY <1>1 DEF Stays
<1>6. Ordered(q)'
  BY <1>1, <1>2, <1>4, <1>5, OrderedStays DEF Clocks
<1>7. Open(q) => editor[q].ws \in Ids
  BY Connection
<1>8. Open(q) /\ ~socket'[editor[q].ws].broken => socket'[editor[q].ws] = socket[editor[q].ws]
  BY <1>1, <1>3, <1>7
<1>9. Known(q) => Known(q)'
  BY <1>1 DEF Known
<1>10. Told(q)'
  BY <1>5, <1>8, <1>9, ToldStays DEF Clocks
<1> QED BY <1>6, <1>10 DEF Clocks

LEMMA AttachClocks ==
    ASSUME Inv1, Inv1', NEW k \in Ids, Attach(k), NEW q \in Pages, Clocks(q)
    PROVE  Clocks(q)'
<1>1. /\ socket'[k].page = socket[k].page /\ socket'[k].file = socket[k].file /\ socket'[k].id = socket[k].id
      /\ socket'[k].broken = socket[k].broken /\ socket'[k].up = socket[k].up
      /\ (\A j \in Ids \ {k} : socket'[j] = socket[j]) /\ UNCHANGED <<editor, peers, used>>
  BY AttachEffect DEF Inv1
<1>2. used \in Nat /\ used' # used + 1 /\ used' \in {used, used + 1} /\ TypeOK' /\ editor'[q] = editor[q]
  BY <1>1, PresenceAssumption DEF Inv1, TypeOK
<1>3. \A j \in Ids : Named(socket[j], socket'[j]) /\ socket'[j].up = socket[j].up /\ socket'[j].broken = socket[j].broken
  BY <1>1 DEF Named
<1> QED BY <1>1, <1>2, <1>3, OtherClocks

LEMMA AcceptClocks ==
    ASSUME Inv1, Inv1', NEW k, Handling(k), Announces(Head(socket[k].up)), accept(k, Head(socket[k].up)), UNCHANGED <<editor, used>>,
           NEW q \in Pages, Clocks(q)
    PROVE  Clocks(q)'
<1> DEFINE u == socket[k].up
           m == u[1]
           i == socket[k].id
           j == editor[q].ws
           c == editor[q].clock
<1>1. /\ Announces(m) /\ m \in Up /\ m.clock \in Nat /\ m.on \in BOOLEAN
      /\ socket'[k].up = Tail(u)
      /\ \A n \in Ids : Keeps(socket'[n], socket[n]) /\ (n # k => socket'[n].up = socket[n].up)
      /\ \A x \in Ids \ {i} : peers'[x] = peers[x]
      /\ peers'[i] = IF Taken(k, m) THEN IF m.on THEN [clock |-> m.clock, ws |-> k] ELSE NoPeer ELSE peers[i]
  BY AcceptSockets, AcceptPeers
<1>2. k \in Ids /\ k \in 1..used /\ u \in Seq(Up) /\ u # <<>> /\ i \in Ids /\ k # NoSocket
  BY Handled DEF Handling
<1>3. used \in Nat /\ used' # used + 1 /\ used' \in {used, used + 1} /\ TypeOK' /\ Stays(q) /\ editor'[q].clock = c
  BY PresenceAssumption DEF Inv1, TypeOK, Stays
<1>4. \A n \in Ids : Less(socket'[n].up, socket[n].up) /\ socket'[n].id = socket[n].id /\ socket'[n].broken = socket[n].broken
  BY <1>1, <1>2 DEF Less, Keeps
<1>5. CASE ~Open(q)
  BY <1>3, <1>5 DEF Clocks, Ordered, Told, Open, Stays
<1>6. CASE Open(q) /\ editor[q].id # i
  <2>1. editor[q].id \in Ids /\ j \in Ids /\ socket[j].id = editor[q].id
    BY <1>6, Connection DEF Of
  <2>2. peers'[editor[q].id] = peers[editor[q].id]
    BY <1>1, <1>6, <2>1
  <2>3. Ordered(q)'
    BY <1>3, <1>4, <2>2, OrderedStays DEF Clocks
  <2>4. Known(q) => Known(q)'
    BY <2>2 DEF Known
  <2>5. socket'[j].up = socket[j].up
    BY <1>1, <1>6, <2>1
  <2>6. Told(q)'
    BY <1>3, <1>4, <2>1, <2>4, <2>5, ToldStays DEF Clocks
  <2> QED BY <2>3, <2>6 DEF Clocks
<1>7. CASE Open(q) /\ editor[q].id = i
  <2>1. j \in Ids /\ j \in 1..used /\ socket[j].id = i /\ c \in Nat /\ j # NoSocket
    BY <1>7, Connection DEF Of, Ids, NoSocket
  <2>2. 1 \in 1..Len(u)
    BY <1>2, Shrink
  <2>3. Until(u, c) /\ (k # j => Until(u, c - 2))
    BY <1>2, <1>7 DEF Clocks, Ordered
  <2>4. m.on /\ m.clock <= c /\ (k # j => m.clock <= c - 2)
    BY <1>1, <2>2, <2>3 DEF Until
  <2>5. peers[i].clock \in Nat
    BY <1>2 DEF Inv1, TypeOK
  <2>6. (peers[i].ws # NoSocket => peers[i].clock <= c) /\ (peers[i].ws = j => After(socket[j].up, peers[i].clock))
    BY <1>7 DEF Clocks, Ordered
  <2>7. Waits(u, c) /\ m # Now(c) => Waits(Tail(u), c)
    <3> HIDE DEF c, u
    <3> QED BY <1>2, <2>1, WaitsOn
  <2>8. Now(c).clock = c
    BY <2>1, NowIs
  <2>9. CASE ~Taken(k, m)
    <3>1. peers'[i] = peers[i]
      BY <1>1, <2>9
    <3>2. Ordered(q)'
      BY <1>3, <1>4, <1>7, <3>1, OrderedStays DEF Clocks
    <3>3. peers[i].ws # NoSocket /\ m.clock < peers[i].clock
      BY <2>4, <2>9 DEF Taken, Late
    <3>4. m # Now(c)
      BY <1>1, <2>1, <2>5, <2>6, <2>8, <3>3
    <3>5. Waits(socket[j].up, c) => Waits(socket'[j].up, c)
      BY <1>1, <2>1, <2>7, <3>4
    <3>6. Known(q) => Known(q)'
      BY <1>7, <3>1 DEF Known
    <3>7. Told(q)'
      BY <1>3, <1>4, <2>1, <3>5, <3>6, ToldStays DEF Clocks
    <3> QED BY <3>2, <3>7 DEF Clocks
  <2>10. CASE Taken(k, m)
    <3>1. peers'[i] = [clock |-> m.clock, ws |-> k]
      BY <1>1, <2>4, <2>10
    <3>2. peers'[i].clock = m.clock /\ peers'[i].ws = k
      BY <3>1
    <3>3. k = j => After(socket'[j].up, m.clock)
      <4>1. k = j => Rising(u)
        BY <1>7 DEF Clocks, Ordered
      <4> QED BY <1>1, <1>2, <4>1, RisingAfter
    <3>4. m.clock <= c /\ (k # j => m.clock + 2 <= c)
      BY <1>1, <2>1, <2>4
    <3>5. Ordered(q)'
      BY <1>3, <1>4, <1>7, <3>2, <3>3, <3>4, OrderedStays DEF Clocks
    <3>6. ~Known(q)
      <4> SUFFICES ASSUME Known(q) PROVE FALSE
        OBVIOUS
      <4>1. peers[i].clock = c /\ peers[i].ws = j
        BY <1>7 DEF Known
      <4>2. CASE k = j
        <5>1. c < m.clock
          BY <1>1, <2>2, <2>6, <4>1, <4>2 DEF After
        <5> QED BY <1>1, <2>1, <2>4, <5>1
      <4>3. CASE k # j
        <5>1. m.clock < c
          BY <1>1, <2>1, <3>4, <4>3
        <5> QED BY <2>1, <2>10, <4>1, <5>1 DEF Taken, Late
      <4> QED BY <4>2, <4>3
    <3>7. Waits(socket[j].up, c) => Waits(socket'[j].up, c) \/ Known(q)'
      <4>1. CASE k # j
        BY <1>1, <2>1, <4>1
      <4>2. CASE k = j /\ m = Now(c)
        <5>1. editor'[q] = editor[q]
          OBVIOUS
        <5> QED BY <1>7, <2>8, <3>1, <4>2, <5>1 DEF Known
      <4>3. CASE k = j /\ m # Now(c)
        BY <1>1, <2>7, <4>3
      <4> QED BY <4>1, <4>2, <4>3
    <3>8. Told(q)'
      BY <1>3, <1>4, <2>1, <3>6, <3>7, ToldStays DEF Clocks
    <3> QED BY <3>5, <3>8 DEF Clocks
  <2> QED BY <2>9, <2>10
<1> QED BY <1>5, <1>6, <1>7

LEMMA PresenceClocks ==
    ASSUME Inv1, Inv1', NEW k, Handling(k), Head(socket[k].up).op = "project_presence",
           socket' = [socket EXCEPT ![k].up = Tail(@)], UNCHANGED <<editor, used, peers>>, NEW q \in Pages, Clocks(q)
    PROVE  Clocks(q)'
<1> DEFINE u == socket[k].up
           j == editor[q].ws
           c == editor[q].clock
<1>1. Keeps(socket'[k], socket[k]) /\ socket'[k].up = Tail(u) /\ \A n \in Ids \ {k} : socket'[n] = socket[n]
  BY PresenceEffect
<1>2. k \in Ids /\ u \in Seq(Up) /\ u # <<>> /\ u[1] \in Up /\ Head(u) = u[1]
  BY Handled DEF Handling
<1>3. used \in Nat /\ used' # used + 1 /\ used' \in {used, used + 1} /\ TypeOK' /\ Stays(q) /\ editor'[q].clock = c
  BY PresenceAssumption DEF Inv1, TypeOK, Stays
<1>4. \A n \in Ids : Less(socket'[n].up, socket[n].up) /\ socket'[n].id = socket[n].id /\ socket'[n].broken = socket[n].broken
  BY <1>1, <1>2 DEF Less, Keeps
<1>5. Ordered(q)'
  BY <1>3, <1>4, OrderedStays DEF Clocks
<1>6. u[1] = InFile /\ ~Announces(InFile)
  BY <1>2, Messages
<1>7. Open(q) => c \in Nat /\ j \in Ids
  BY Connection
<1>8. Open(q) => Announces(Now(c))
  BY <1>7, NowIs
<1>9. Open(q) /\ Waits(socket[j].up, c) => Waits(socket'[j].up, c)
  <2>1. CASE j = k
    <3> HIDE DEF c, u
    <3>1. Open(q) /\ Waits(u, c) => Waits(Tail(u), c)
      BY <1>2, <1>6, <1>7, <1>8, WaitsOn
    <3> QED BY <1>1, <2>1, <3>1 DEF u
  <2>2. CASE j # k
    BY <1>1, <1>7, <2>2
  <2> QED BY <2>1, <2>2
<1>10. Known(q) => Known(q)'
  BY DEF Known
<1>11. Told(q)'
  BY <1>3, <1>4, <1>7, <1>9, <1>10, ToldStays DEF Clocks
<1> QED BY <1>5, <1>11 DEF Clocks

LEMMA DisconnectClocks ==
    ASSUME Inv1, Inv1', NEW k, Handling(k), Head(socket[k].up).op = "disconnect", Disconnect(k), UNCHANGED <<editor, used>>,
           NEW q \in Pages, Clocks(q)
    PROVE  Clocks(q)'
<1> DEFINE j == editor[q].ws
           c == editor[q].clock
<1>1. /\ socket'[k].id = socket[k].id /\ socket'[k].up = <<>> /\ socket'[k].broken = socket[k].broken
      /\ \A n \in Ids \ {k} : Keeps(socket'[n], socket[n]) /\ socket'[n].up = socket[n].up
      /\ \A i \in Ids : peers'[i] = IF peers[i].ws = k THEN NoPeer ELSE peers[i]
  BY DisconnectEffect
<1>2. k \in Ids /\ socket[k].up \in Seq(Up) /\ socket[k].up # <<>> /\ socket[k].up[1] \in Up /\ Head(socket[k].up) = socket[k].up[1]
  BY Handled DEF Handling
<1>3. used \in Nat /\ used' # used + 1 /\ used' \in {used, used + 1} /\ TypeOK' /\ Stays(q) /\ editor'[q].clock = c
  BY PresenceAssumption DEF Inv1, TypeOK, Stays
<1>4. \A n \in Ids : Less(socket'[n].up, socket[n].up) /\ socket'[n].id = socket[n].id /\ socket'[n].broken = socket[n].broken
  BY <1>1, <1>2 DEF Less, Keeps
<1>5. Open(q) => editor[q].id \in Ids /\ j \in Ids
  BY Connection
<1>6. Ordered(q)'
  BY <1>1, <1>3, <1>4, <1>5, OrderedStays DEF Clocks
<1>7. Ends(k)
  BY <1>2, Messages, EndsOf DEF Ends
<1>8. Open(q) /\ ~socket[j].broken => j # k
  BY <1>7 DEF Inv1, Editing, EditingAt
<1>9. Open(q) /\ ~socket[j].broken => socket'[j].up = socket[j].up
  BY <1>1, <1>5, <1>8
<1>10. Open(q) /\ ~socket[j].broken /\ Known(q) => Known(q)'
  <2> SUFFICES ASSUME Open(q), ~socket[j].broken, Known(q) PROVE Known(q)'
    OBVIOUS
  <2>1. peers[editor[q].id].ws = j
    BY DEF Known
  <2>2. peers'[editor[q].id] = peers[editor[q].id]
    BY <1>1, <1>5, <1>8, <2>1
  <2> QED BY <2>2 DEF Known
<1>11. Told(q)'
  BY <1>3, <1>4, <1>5, <1>9, <1>10, ToldStays DEF Clocks
<1> QED BY <1>6, <1>11 DEF Clocks
-----------------------------------------------------------------------------
(* The second invariant: what is on its way to the browsers, and what they show *)

LEMMA OvertakenOf ==
    ASSUME NEW d \in Seq(Down), NEW i, NEW v
    PROVE  /\ \A n \in Nat, x \in Down : Overtaken(d, n, i, v) => Overtaken(Append(d, x), n, i, v)
           /\ \A n \in 0..Len(d), x \in Down : Supersedes(x, i, v) => Overtaken(Append(d, x), n, i, v)
           /\ \A n \in 1..Len(d) : Overtaken(d, n, i, v) => Overtaken(Tail(d), n - 1, i, v)
           /\ Overtaken(d, 0, i, v) => Supersedes(d[1], i, v) \/ Overtaken(Tail(d), 0, i, v)
<1>1. ASSUME NEW n \in Nat, NEW x \in Down, Overtaken(d, n, i, v) PROVE Overtaken(Append(d, x), n, i, v)
  <2>1. PICK m \in (n + 1)..Len(d) : Supersedes(d[m], i, v)
    BY <1>1 DEF Overtaken
  <2>2. Len(d) \in Nat /\ Len(Append(d, x)) = Len(d) + 1 /\ \A j \in 1..Len(d) : Append(d, x)[j] = d[j]
    BY Grow
  <2>3. m \in 1..Len(d) /\ m \in (n + 1)..Len(Append(d, x))
    BY <2>1, <2>2
  <2> QED BY <2>1, <2>2, <2>3 DEF Overtaken
<1>2. ASSUME NEW n \in 0..Len(d), NEW x \in Down, Supersedes(x, i, v) PROVE Overtaken(Append(d, x), n, i, v)
  <2>1. Len(d) \in Nat /\ Len(Append(d, x)) = Len(d) + 1 /\ Append(d, x)[Len(d) + 1] = x
    BY Grow
  <2>2. Len(d) + 1 \in (n + 1)..Len(Append(d, x))
    BY <2>1
  <2> QED BY <1>2, <2>1, <2>2 DEF Overtaken
<1>3. ASSUME NEW n \in Nat, NEW m \in (n + 1)..Len(d), Supersedes(d[m], i, v), m # 1
      PROVE  /\ m - 1 \in 1..Len(Tail(d)) /\ Supersedes(Tail(d)[m - 1], i, v)
             /\ n # 0 => Overtaken(Tail(d), n - 1, i, v)
             /\ n = 0 => Overtaken(Tail(d), 0, i, v)
  <2>1. Len(d) \in Nat /\ m \in 1..Len(d)
    BY <1>3, Grow, Shrink
  <2>2. d # <<>>
    BY <2>1, None
  <2>3. m - 1 \in 1..Len(Tail(d)) /\ Tail(d)[m - 1] = d[m] /\ Len(Tail(d)) = Len(d) - 1
    BY <1>3, <2>1, <2>2, Shrink
  <2>4. n # 0 => m - 1 \in ((n - 1) + 1)..Len(Tail(d))
    BY <2>1, <2>3
  <2>5. n # 0 => Overtaken(Tail(d), n - 1, i, v)
    BY <1>3, <2>3, <2>4 DEF Overtaken
  <2>6. Overtaken(Tail(d), 0, i, v)
    <3>1. m - 1 \in (0 + 1)..Len(Tail(d)) /\ Supersedes(Tail(d)[m - 1], i, v)
      BY <1>3, <2>3
    <3> QED BY <3>1 DEF Overtaken
  <2> QED BY <1>3, <2>3, <2>5, <2>6
<1>4. ASSUME NEW n \in 1..Len(d), Overtaken(d, n, i, v) PROVE Overtaken(Tail(d), n - 1, i, v)
  <2>1. PICK m \in (n + 1)..Len(d) : Supersedes(d[m], i, v)
    BY <1>4 DEF Overtaken
  <2>2. m # 1 /\ n \in Nat /\ n # 0
    OBVIOUS
  <2> QED BY <1>3, <2>1, <2>2
<1>5. ASSUME Overtaken(d, 0, i, v), ~Supersedes(d[1], i, v) PROVE Overtaken(Tail(d), 0, i, v)
  <2>1. PICK m \in (0 + 1)..Len(d) : Supersedes(d[m], i, v)
    BY <1>5 DEF Overtaken
  <2>2. m # 1
    BY <1>5, <2>1
  <2> QED BY <1>3, <2>1, <2>2
<1> QED BY <1>1, <1>2, <1>4, <1>5

\* What a step sends to a browser is where the server has the cursors,
Sound(x, k) == \A i \in DOMAIN x : /\ i \in 1..used /\ socket[i].file = socket[k].file
                                   /\ i # socket[k].id /\ x[i].on => Stands(peers'[i], x[i].clock)

\* .. and it says of each cursor that is no more where it was.
Follows(k) ==
    /\ \/ socket'[k].down = socket[k].down
       \/ \E x \in Down : socket'[k].down = Append(socket[k].down, x) /\ Sound(x, k)
    /\ \A i \in 1..used, v \in Nat : socket[i].file = socket[k].file /\ i # socket[k].id /\ Stands(peers[i], v) =>
          Stands(peers'[i], v) \/ \E x \in Down : socket'[k].down = Append(socket[k].down, x) /\ Supersedes(x, i, v)

SameNames == used' \in {used, used + 1} /\ \A k \in 1..used : Named(socket[k], socket'[k])

LEMMA AnsweredStays ==
    ASSUME Inv1, NEW k \in 1..used, Follows(k), NEW i \in 1..used, NEW v \in Nat, NEW n \in 0..Len(socket[k].down),
           socket[i].file = socket[k].file, i # socket[k].id, Answered(socket[k].down, n, i, v)
    PROVE  Stands(peers'[i], v) \/ Overtaken(socket'[k].down, n, i, v)
<1> DEFINE d == socket[k].down
           e == socket'[k].down
<1>1. k \in Ids
  BY PresenceAssumption DEF Inv1, TypeOK, Ids
<1>2. socket[k] \in Socket
  BY <1>1 DEF Inv1, TypeOK
<1>3. d \in Seq(Down)
  BY <1>2, SocketFields
<1>4. n \in Nat
  OBVIOUS
<1>5. CASE Stands(peers[i], v)
  <2>1. CASE Stands(peers'[i], v)
    BY <2>1
  <2>2. ASSUME NEW x \in Down, e = Append(d, x), Supersedes(x, i, v) PROVE Overtaken(e, n, i, v)
    BY <1>3, <2>2, OvertakenOf
  <2> QED BY <1>5, <2>1, <2>2 DEF Follows
<1>6. CASE Overtaken(d, n, i, v)
  <2>1. CASE e = d
    BY <1>6, <2>1
  <2>2. ASSUME NEW x \in Down, e = Append(d, x) PROVE Overtaken(e, n, i, v)
    BY <1>3, <1>4, <1>6, <2>2, OvertakenOf
  <2> QED BY <2>1, <2>2 DEF Follows
<1> QED BY <1>5, <1>6 DEF Answered

LEMMA RelayingFollows ==
    ASSUME Inv1, TypeOK', SameNames, NEW k \in 1..used, RelayingAt(k), Follows(k)
    PROVE  RelayingAt(k)'
<1> DEFINE d == socket[k].down
           e == socket'[k].down
<1>1. used \in 0..MaxSockets /\ used' \in Nat /\ k \in Ids
  BY PresenceAssumption DEF Inv1, TypeOK, Ids, SameNames
<1>2. socket[k] \in Socket
  BY <1>1 DEF Inv1, TypeOK
<1>3. d \in Seq(Down)
  BY <1>2, SocketFields
<1>4. \A i \in 1..used : i \in 1..used' /\ socket'[i].file = socket[i].file /\ socket'[i].id = socket[i].id
  BY <1>1 DEF SameNames, Named
<1>5. socket'[k].file = socket[k].file /\ socket'[k].id = socket[k].id
  BY <1>4
<1>6. ASSUME NEW n \in 1..Len(d), n \in 1..Len(e), e[n] = d[n], NEW i \in DOMAIN e[n]
      PROVE  /\ i \in 1..used' /\ socket'[i].file = socket'[k].file
             /\ i # socket'[k].id /\ e[n][i].on => Stands(peers'[i], e[n][i].clock) \/ Overtaken(e, n, i, e[n][i].clock)
  <2>1. /\ i \in 1..used /\ socket[i].file = socket[k].file
        /\ i # socket[k].id /\ d[n][i].on => Answered(d, n, i, d[n][i].clock)
    BY <1>6 DEF RelayingAt
  <2>2. d[n] \in Down
    BY <1>3
  <2>3. d[n][i].clock \in Nat
    BY <1>6, <2>2, UpdateType
  <2>4. n \in 0..Len(d)
    OBVIOUS
  <2>5. i # socket[k].id /\ d[n][i].on => Stands(peers'[i], d[n][i].clock) \/ Overtaken(e, n, i, d[n][i].clock)
    BY <2>1, <2>3, <2>4, AnsweredStays
  <2> QED BY <1>4, <1>5, <1>6, <2>1, <2>5
<1>7. CASE e = d
  <2>1. \A n \in 1..Len(e) : \A i \in DOMAIN e[n] :
             /\ i \in 1..used' /\ socket'[i].file = socket'[k].file
             /\ i # socket'[k].id /\ e[n][i].on => Stands(peers'[i], e[n][i].clock) \/ Overtaken(e, n, i, e[n][i].clock)
    BY <1>6, <1>7
  <2> QED BY <2>1 DEF RelayingAt, Answered
<1>8. ASSUME NEW x \in Down, e = Append(d, x), Sound(x, k) PROVE RelayingAt(k)'
  <2>1. Len(d) \in Nat /\ Len(e) = Len(d) + 1 /\ e[Len(d) + 1] = x /\ \A n \in 1..Len(d) : e[n] = d[n]
    BY <1>3, <1>8, Grow
  <2>2. ASSUME NEW n \in 1..Len(e), NEW i \in DOMAIN e[n]
        PROVE  /\ i \in 1..used' /\ socket'[i].file = socket'[k].file
               /\ i # socket'[k].id /\ e[n][i].on => Stands(peers'[i], e[n][i].clock) \/ Overtaken(e, n, i, e[n][i].clock)
    <3>1. CASE n \in 1..Len(d)
      <4>1. e[n] = d[n]
        BY <2>1, <3>1
      <4> QED BY <1>6, <2>2, <3>1, <4>1
    <3>2. CASE n = Len(d) + 1
      <4>1. e[n] = x
        BY <2>1, <3>2
      <4>2. i \in 1..used /\ socket[i].file = socket[k].file /\ (i # socket[k].id /\ x[i].on => Stands(peers'[i], x[i].clock))
        BY <1>8, <2>2, <4>1 DEF Sound
      <4> QED BY <1>4, <1>5, <4>1, <4>2
    <3>3. n \in 1..Len(d) \/ n = Len(d) + 1
      <4>1. Len(d) \in Nat /\ n \in 1..(Len(d) + 1)
        BY <2>1
      <4> QED BY <4>1
    <3> QED BY <3>1, <3>2, <3>3
  <2> QED BY <2>2 DEF RelayingAt, Answered
<1> QED BY <1>7, <1>8 DEF Follows

LEMMA RelayingEmpty == ASSUME NEW k, socket'[k].down = <<>> PROVE RelayingAt(k)'
<1>1. Len(socket'[k].down) = 0
  BY None
<1> QED BY <1>1 DEF RelayingAt

\* A page that gets nothing in the step
LEMMA ShowingFollows ==
    ASSUME Inv1, TypeOK', SameNames, NEW p \in Pages, ShowingAt(p), Stays(p),
           editor'[p].shown = editor[p].shown, editor'[p].known = editor[p].known,
           Open(p) => LET k == editor[p].ws IN
                      /\ socket[k].phase # "accepted" => socket'[k].phase # "accepted" /\ (~socket'[k].broken => ~socket[k].broken /\ Follows(k))
    PROVE  ShowingAt(p)'
<1> SUFFICES ASSUME NEW i \in Ids, editor'[p].shown[i] # 0
             PROVE  /\ editor'[p].known[i] = editor'[p].shown[i]
                    /\ i # editor'[p].id /\ i <= used' /\ socket'[i].file = editor'[p].file
                    /\ socket'[editor'[p].ws].phase # "accepted"
                    /\ ~socket'[editor'[p].ws].broken =>
                          Stands(peers'[i], editor'[p].shown[i]) \/ Overtaken(socket'[editor'[p].ws].down, 0, i, editor'[p].shown[i])
  BY DEF ShowingAt, Answered
<1> DEFINE k == editor[p].ws
           v == editor[p].shown[i]
<1>1. /\ v # 0 /\ editor[p].known[i] = v /\ i # editor[p].id /\ i <= used /\ socket[i].file = editor[p].file
      /\ socket[k].phase # "accepted" /\ (~socket[k].broken => Answered(socket[k].down, 0, i, v))
  BY DEF ShowingAt
<1>2. editor'[p].id = editor[p].id /\ editor'[p].file = editor[p].file /\ editor'[p].ws = k
  BY DEF Stays
<1>3. used \in Nat /\ used' \in Nat /\ used <= used' /\ i \in 1..used
  BY <1>1, PresenceAssumption DEF Inv1, TypeOK, SameNames, Ids
<1>4. socket'[i].file = socket[i].file
  BY <1>3 DEF SameNames, Named
<1>5. editor[p] \in Page
  BY DEF Inv1, TypeOK
<1>6. v \in Nat
  BY <1>5, PageFields
<1>7. Open(p)
  <2>1. ~Open(p) => editor[p].shown = Nobody
    BY DEF Inv1, Editing, EditingAt, NoEditor
  <2> QED BY <1>1, <2>1 DEF Nobody
<1>8. k \in 1..used /\ k \in Ids /\ socket[k].file = editor[p].file /\ socket[k].id = editor[p].id
  BY <1>7, Connection DEF Of
<1>9. ~socket'[k].broken => Stands(peers'[i], v) \/ Overtaken(socket'[k].down, 0, i, v)
  <2> SUFFICES ASSUME ~socket'[k].broken PROVE Stands(peers'[i], v) \/ Overtaken(socket'[k].down, 0, i, v)
    OBVIOUS
  <2>1. Follows(k) /\ Answered(socket[k].down, 0, i, v)
    BY <1>1, <1>7
  <2>2. socket[k] \in Socket
    BY <1>8 DEF Inv1, TypeOK
  <2>3. socket[k].down \in Seq(Down)
    BY <2>2, SocketFields
  <2>4. Len(socket[k].down) \in Nat
    BY <2>3
  <2>5. 0 \in 0..Len(socket[k].down)
    BY <2>4
  <2> QED BY <1>1, <1>3, <1>6, <1>8, <2>1, <2>5, AnsweredStays
<1>10. socket'[k].phase # "accepted" /\ i <= used'
  BY <1>1, <1>3, <1>7
<1> QED BY <1>1, <1>2, <1>4, <1>9, <1>10

LEMMA ShowingNone == ASSUME NEW p \in Pages, editor'[p].shown = Nobody PROVE ShowingAt(p)'
  BY DEF ShowingAt, Nobody

LEMMA UsedIds ==
    Inv1 => /\ used \in 0..MaxSockets /\ MaxSockets \in Nat
            /\ \A k \in 1..used : k \in Ids /\ k <= used
            /\ \A k \in Ids : k <= used => k \in 1..used
  BY PresenceAssumption DEF Inv1, TypeOK, Ids

LEMMA FollowsStill ==
    ASSUME NEW k, peers' = peers, socket'[k].down = socket[k].down
    PROVE  Follows(k)
  BY DEF Follows

\* Sockets that are not opened yet
LEMMA RelayingUsed ==
    ASSUME Inv1, Inv1', SameNames, \A k \in 1..used : RelayingAt(k)', used' = used + 1 => socket'[used'].down = <<>>
    PROVE  Relaying'
<1>1. used \in Nat /\ used' \in {used, used + 1}
  BY UsedIds DEF SameNames
<1> SUFFICES ASSUME NEW k \in Ids PROVE RelayingAt(k)'
  BY DEF Relaying
<1>2. CASE k <= used
  BY <1>2, UsedIds
<1>3. CASE k = used'
  BY <1>1, <1>2, <1>3, RelayingEmpty
<1>4. CASE k > used'
  <2>1. socket'[k] = Unused
    BY <1>4 DEF Inv1, Numbered, NumberedAt
  <2> QED BY <2>1, RelayingEmpty DEF Unused
<1> QED BY <1>1, <1>2, <1>3, <1>4 DEF Ids

\* Nothing is sent to the browsers.
LEMMA StillViews ==
    ASSUME Inv1, Inv1', SameNames, UNCHANGED peers, Relaying, Showing,
           \A k \in 1..used : socket'[k].down = socket[k].down /\ socket'[k].phase = socket[k].phase /\ socket'[k].broken = socket[k].broken,
           used' = used + 1 => socket'[used'].down = <<>>,
           NEW p \in Pages, Others(p), ShowingAt(p)'
    PROVE  Relaying' /\ Showing'
<1>1. \A k \in 1..used : Follows(k)
  BY FollowsStill
<1>2. TypeOK'
  BY DEF Inv1
<1>3. ASSUME NEW k \in 1..used PROVE RelayingAt(k)'
  BY <1>1, <1>2, <1>3, UsedIds, RelayingFollows DEF Relaying
<1>4. Relaying'
  BY <1>3, RelayingUsed
<1>5. ASSUME NEW q \in Pages, q # p PROVE ShowingAt(q)'
  <2>1. Stays(q) /\ editor'[q].shown = editor[q].shown /\ editor'[q].known = editor[q].known
    BY <1>5 DEF Others, Stays
  <2>2. Open(q) => editor[q].ws \in 1..used
    BY Connection
  <2> QED BY <1>1, <1>2, <2>1, <2>2, ShowingFollows DEF Showing
<1> QED BY <1>4, <1>5 DEF Showing

LEMMA OpenViews ==
    ASSUME Inv1, Inv1', NEW p \in Pages, NEW f \in Files, openFile(p, f), Relaying, Showing
    PROVE  Relaying' /\ Showing'
<1> DEFINE n == used + 1
<1>1. /\ used' = n /\ Others(p) /\ socket'[n].down = <<>> /\ editor'[p].shown = Nobody /\ UNCHANGED peers
      /\ \A k \in Ids \ {n} : Leaves(p, k, socket'[k])
  BY OpenEffect DEF New, Inv1
<1>2. \A k \in 1..used : k \in Ids \ {n}
  BY UsedIds
<1>3. \A k \in 1..used : Keeps(socket'[k], socket[k]) /\ socket'[k].down = socket[k].down
  BY <1>1, <1>2 DEF Leaves
<1>4. SameNames
  BY <1>1, <1>3 DEF SameNames, Keeps, Named
<1>5. ShowingAt(p)'
  BY <1>1, ShowingNone
<1> QED BY <1>1, <1>3, <1>4, <1>5, StillViews DEF Keeps

LEMMA CloseViews ==
    ASSUME Inv1, Inv1', NEW p \in Pages, closeTab(p), Relaying, Showing
    PROVE  Relaying' /\ Showing'
<1>1. Others(p) /\ editor'[p] = NoEditor /\ UNCHANGED <<peers, used>> /\ \A k \in Ids : Leaves(p, k, socket'[k])
  BY CloseEffect DEF Inv1
<1>2. \A k \in 1..used : Keeps(socket'[k], socket[k]) /\ socket'[k].down = socket[k].down
  BY <1>1, UsedIds DEF Leaves
<1>3. SameNames /\ used' # used + 1
  BY <1>1, <1>2, UsedIds DEF SameNames, Keeps, Named
<1>4. ShowingAt(p)'
  BY <1>1, ShowingNone DEF NoEditor
<1> QED BY <1>1, <1>2, <1>3, <1>4, StillViews DEF Keeps

LEMMA MoveViews ==
    ASSUME Inv1, Inv1', NEW p \in Pages, Move(p), Relaying, Showing
    PROVE  Relaying' /\ Showing'
<1>1. /\ Open(p) /\ Others(p) /\ Stays(p) /\ editor'[p].shown = editor[p].shown /\ editor'[p].known = editor[p].known
      /\ UNCHANGED <<peers, used>> /\ \A k \in Ids : Keeps(socket'[k], socket[k]) /\ socket'[k].down = socket[k].down
  BY MoveEffect
<1>2. \A k \in 1..used : Keeps(socket'[k], socket[k]) /\ socket'[k].down = socket[k].down
  BY <1>1, UsedIds
<1>3. SameNames /\ used' # used + 1 /\ TypeOK'
  BY <1>1, <1>2, UsedIds DEF SameNames, Keeps, Named, Inv1
<1>4. editor[p].ws \in 1..used
  BY <1>1, Connection
<1>5. Follows(editor[p].ws)
  BY <1>1, <1>2, <1>4, FollowsStill
<1>6. ShowingAt(p)'
  BY <1>1, <1>2, <1>3, <1>4, <1>5, ShowingFollows DEF Showing, Keeps
<1> QED BY <1>1, <1>2, <1>3, <1>6, StillViews DEF Keeps

LEMMA ReconnectViews ==
    ASSUME Inv1, Inv1', NEW p \in Pages, Reconnect(p), Relaying, Showing
    PROVE  Relaying' /\ Showing'
<1> DEFINE n == used + 1
<1>1. /\ used' = n /\ Others(p) /\ socket'[n].down = <<>> /\ editor'[p].shown = Nobody /\ UNCHANGED peers
      /\ \A k \in Ids \ {n} : socket'[k] = socket[k]
  BY ReconnectEffect DEF New
<1>2. \A k \in 1..used : k \in Ids \ {n}
  BY UsedIds
<1>3. \A k \in 1..used : socket'[k] = socket[k]
  BY <1>1, <1>2
<1>4. SameNames
  BY <1>1, <1>3 DEF SameNames, Named
<1>5. ShowingAt(p)'
  BY <1>1, ShowingNone
<1> QED BY <1>1, <1>3, <1>4, <1>5, StillViews

\* The first message to a socket has been handled.
LEMMA RelayingShrinks ==
    ASSUME Inv1, SameNames, UNCHANGED <<used, peers>>, NEW k \in 1..used, RelayingAt(k), socket[k].down # <<>>, socket'[k].down = Tail(socket[k].down)
    PROVE  RelayingAt(k)'
<1> DEFINE d == socket[k].down
           e == Tail(d)
<1>1. socket[k] \in Socket
  BY UsedIds DEF Inv1, TypeOK
<1>2. d \in Seq(Down)
  BY <1>1, SocketFields
<1>3. Len(d) \in Nat /\ \A n \in 1..Len(e) : n + 1 \in 1..Len(d) /\ e[n] = d[n + 1]
  BY <1>2, Shrink
<1>4. \A i \in 1..used : socket'[i].file = socket[i].file /\ socket'[i].id = socket[i].id
  BY DEF SameNames, Named
<1> SUFFICES ASSUME NEW n \in 1..Len(e), NEW i \in DOMAIN e[n]
             PROVE  /\ i \in 1..used /\ socket'[i].file = socket'[k].file
                    /\ i # socket'[k].id /\ e[n][i].on => Stands(peers[i], e[n][i].clock) \/ Overtaken(e, n, i, e[n][i].clock)
  BY DEF RelayingAt, Answered
<1>5. n + 1 \in 1..Len(d) /\ e[n] = d[n + 1] /\ n \in Nat /\ (n + 1) - 1 = n
  BY <1>3
<1>6. /\ i \in 1..used /\ socket[i].file = socket[k].file
      /\ i # socket[k].id /\ e[n][i].on => Answered(d, n + 1, i, e[n][i].clock)
  BY <1>5 DEF RelayingAt
<1>7. Overtaken(d, n + 1, i, e[n][i].clock) => Overtaken(e, n, i, e[n][i].clock)
  <2> DEFINE v == e[n][i].clock
             b == n + 1
  <2>1. b \in 1..Len(d) /\ b - 1 = n
    BY <1>5
  <2> HIDE DEF v, b, d
  <2>2. Overtaken(d, b, i, v) => Overtaken(Tail(d), b - 1, i, v)
    BY <1>2, <2>1, OvertakenOf
  <2> QED BY <2>1, <2>2 DEF v, b
<1> QED BY <1>4, <1>6, <1>7 DEF Answered

LEMMA MessageViews ==
    ASSUME Inv1, Inv1', NEW p \in Pages, OnMessage(p), Relaying, Showing
    PROVE  Relaying' /\ Showing'
<1> DEFINE k == editor[p].ws
           d == socket[k].down
           m == d[1]
<1>1. /\ Open(p) /\ Others(p) /\ Stays(p)
      /\ \A i \in Ids :
            /\ editor'[p].known[i] = IF i \in Newer(editor[p], m) THEN m[i].clock ELSE editor[p].known[i]
            /\ editor'[p].shown[i] = IF i \in Newer(editor[p], m) THEN IF m[i].on THEN m[i].clock ELSE 0 ELSE editor[p].shown[i]
      /\ d # <<>> /\ ~socket[k].broken /\ socket[k].phase = "attached"
      /\ Keeps(socket'[k], socket[k]) /\ socket'[k].down = Tail(d)
      /\ \A j \in Ids \ {k} : socket'[j] = socket[j]
      /\ UNCHANGED <<peers, used>>
  <2>1. Open(p) /\ Others(p) /\ Stays(p) /\ d # <<>> /\ ~socket[k].broken /\ socket[k].phase = "attached"
    BY MessageEffect
  <2>2. \A i \in Ids :
           /\ editor'[p].known[i] = IF i \in Newer(editor[p], m) THEN m[i].clock ELSE editor[p].known[i]
           /\ editor'[p].shown[i] = IF i \in Newer(editor[p], m) THEN IF m[i].on THEN m[i].clock ELSE 0 ELSE editor[p].shown[i]
    BY MessageEffect
  <2>3. /\ Keeps(socket'[k], socket[k]) /\ socket'[k].down = Tail(d)
        /\ \A j \in Ids \ {k} : socket'[j] = socket[j]
        /\ UNCHANGED <<peers, used>>
    BY MessageEffect
  <2> QED BY <2>1, <2>2, <2>3
<1>2. k \in 1..used /\ k \in Ids /\ socket[k].file = editor[p].file /\ socket[k].id = editor[p].id
  BY <1>1, Connection DEF Of
<1>3. \A j \in 1..used : Keeps(socket'[j], socket[j])
  BY <1>1, <1>2, UsedIds DEF Keeps
<1>4. SameNames /\ used' # used + 1 /\ TypeOK'
  <2>1. used' = used /\ used \in Nat /\ TypeOK'
    BY <1>1, UsedIds DEF Inv1
  <2> QED BY <1>3, <2>1 DEF SameNames, Keeps, Named
<1>5. ASSUME NEW j \in 1..used, j # k PROVE socket'[j] = socket[j] /\ Follows(j)
  <2>1. socket'[j] = socket[j] /\ peers' = peers
    BY <1>1, <1>5, UsedIds
  <2> QED BY <2>1, FollowsStill
<1>6. \A j \in 1..used : RelayingAt(j)
  BY UsedIds DEF Relaying
<1>7. ASSUME NEW j \in 1..used PROVE RelayingAt(j)'
  <2>1. CASE j = k
    BY <1>1, <1>2, <1>4, <1>6, <2>1, RelayingShrinks
  <2>2. CASE j # k
    BY <1>4, <1>5, <1>6, <2>2, RelayingFollows
  <2> QED BY <2>1, <2>2
<1>8. Relaying'
  BY <1>4, <1>7, RelayingUsed
<1>9. ASSUME NEW q \in Pages, q # p PROVE ShowingAt(q)'
  <2>1. Stays(q) /\ editor'[q].shown = editor[q].shown /\ editor'[q].known = editor[q].known
    BY <1>1, <1>9 DEF Others, Stays
  <2>2. Open(q) => editor[q].ws \in 1..used /\ editor[q].ws # k
    BY <1>9, Connection, Apart
  <2> QED BY <1>4, <1>5, <2>1, <2>2, ShowingFollows DEF Showing
<1>10. ShowingAt(p)'
  <2>1. socket[k] \in Socket
    BY <1>2 DEF Inv1, TypeOK
  <2>2. d \in Seq(Down)
    BY <2>1, SocketFields
  <2>3. m \in Down /\ 1 \in 1..Len(d)
    BY <1>1, <2>2, Shrink
  <2>4. editor'[p].id = editor[p].id /\ editor'[p].file = editor[p].file /\ editor'[p].ws = k
    BY <1>1 DEF Stays
  <2>5. socket'[k].phase = "attached" /\ \A i \in 1..used : socket'[i].file = socket[i].file
    BY <1>1, <1>3 DEF Keeps
  <2> SUFFICES ASSUME NEW i \in Ids, editor'[p].shown[i] # 0
               PROVE  /\ editor'[p].known[i] = editor'[p].shown[i]
                      /\ i # editor[p].id /\ i \in 1..used /\ socket[i].file = editor[p].file
                      /\ Stands(peers[i], editor'[p].shown[i]) \/ Overtaken(Tail(d), 0, i, editor'[p].shown[i])
    <3>1. used' = used /\ peers' = peers /\ socket'[k].down = Tail(d) /\ used \in Nat /\ \A i \in 1..used : i \in Ids
      BY <1>1, UsedIds
    <3> QED BY <2>4, <2>5, <3>1 DEF ShowingAt, Answered
  <2>6. CASE i \in Newer(editor[p], m)
    <3>1. editor'[p].known[i] = m[i].clock /\ editor'[p].shown[i] = m[i].clock /\ m[i].on
      BY <1>1, <2>6
    <3>2. i \in DOMAIN m /\ i # editor[p].id
      BY <2>6 DEF Newer
    <3>3. i \in 1..used /\ socket[i].file = socket[k].file /\ Answered(d, 1, i, m[i].clock)
      BY <1>2, <1>6, <2>3, <3>1, <3>2 DEF RelayingAt
    <3>4. Stands(peers[i], m[i].clock) \/ Overtaken(Tail(d), 0, i, m[i].clock)
      <4> DEFINE v == m[i].clock
      <4>1. 1 - 1 = 0
        OBVIOUS
      <4>2. Stands(peers[i], v) \/ Overtaken(d, 1, i, v)
        BY <3>3 DEF Answered
      <4> HIDE DEF v, d
      <4>3. Stands(peers[i], v) \/ Overtaken(Tail(d), 0, i, v)
        BY <2>2, <2>3, <4>1, <4>2, OvertakenOf
      <4> QED BY <4>3 DEF v
    <3> QED BY <1>2, <3>1, <3>2, <3>3, <3>4
  <2>7. CASE i \notin Newer(editor[p], m)
    <3> DEFINE v == editor[p].shown[i]
    <3>1. editor'[p].known[i] = editor[p].known[i] /\ editor'[p].shown[i] = v /\ v # 0
      BY <1>1, <2>7
    <3>2. editor[p].known[i] = v /\ i # editor[p].id /\ i <= used /\ socket[i].file = editor[p].file /\ Answered(d, 0, i, v)
      BY <1>1, <3>1 DEF Showing, ShowingAt
    <3>3. ~Supersedes(m, i, v)
      BY <2>7, <3>1, <3>2 DEF Newer, Supersedes
    <3>4. Stands(peers[i], v) \/ Overtaken(Tail(d), 0, i, v)
      <4> HIDE DEF v, d
      <4> QED BY <2>2, <3>2, <3>3, OvertakenOf DEF Answered
    <3> QED BY <3>1, <3>2, <3>4, UsedIds
  <2> QED BY <2>6, <2>7
<1> QED BY <1>8, <1>9, <1>10 DEF Showing

\* The server acts: what each socket is sent follows, or is lost with it.
LEMMA ServedViews ==
    ASSUME Inv1, Inv1', SameNames, UNCHANGED <<editor, used>>, Relaying, Showing,
           \A k \in 1..used : \/ Follows(k)
                              \/ /\ socket'[k].down = <<>>
                                 /\ socket'[k].broken \/ socket[k].phase # "attached" \/ editor[socket[k].page].ws # k,
           \A k \in 1..used : /\ socket[k].phase # "accepted" => socket'[k].phase # "accepted"
                              /\ ~socket'[k].broken => ~socket[k].broken
    PROVE  Relaying' /\ Showing'
<1>1. TypeOK' /\ used' # used + 1
  BY UsedIds DEF Inv1
<1>2. ASSUME NEW k \in 1..used PROVE RelayingAt(k)'
  BY <1>1, <1>2, UsedIds, RelayingFollows, RelayingEmpty DEF Relaying
<1>3. Relaying'
  BY <1>1, <1>2, RelayingUsed
<1>4. ASSUME NEW p \in Pages PROVE ShowingAt(p)'
  <2> DEFINE k == editor[p].ws
  <2>1. Stays(p) /\ editor'[p].shown = editor[p].shown /\ editor'[p].known = editor[p].known
    BY DEF Stays
  <2>2. Open(p) => k \in 1..used /\ socket[k].page = p
    BY Connection DEF Of
  <2>3. Open(p) /\ ~socket[k].broken /\ socket[k].phase # "accepted" => socket[k].phase = "attached"
    BY DEF Inv1, Editing, EditingAt, Served
  <2>4. Open(p) /\ socket[k].phase # "accepted" => socket'[k].phase # "accepted" /\ (~socket'[k].broken => ~socket[k].broken /\ Follows(k))
    BY <2>2, <2>3
  <2>5. ShowingAt(p)
    BY DEF Showing
  <2> QED BY <1>1, <2>1, <2>4, <2>5, ShowingFollows
<1> QED BY <1>3, <1>4 DEF Showing

LEMMA BreakViews ==
    ASSUME Inv1, Inv1', NEW k \in Ids, Break(k), Relaying, Showing
    PROVE  Relaying' /\ Showing'
<1>1. Breaks(socket[k], socket'[k]) /\ (\A j \in Ids \ {k} : socket'[j] = socket[j]) /\ UNCHANGED <<editor, peers, used>>
  BY BreakEffect DEF Inv1
<1>2. /\ Named(socket[k], socket'[k]) /\ socket'[k].phase = socket[k].phase
      /\ socket'[k].down = <<>> /\ socket'[k].broken
  BY <1>1 DEF Breaks, Named
<1>3. \A j \in 1..used : j # k => socket'[j] = socket[j] /\ Follows(j)
  BY <1>1, UsedIds, FollowsStill
<1>4. SameNames
  BY <1>1, <1>2, <1>3 DEF SameNames, Named
<1> QED BY <1>1, <1>2, <1>3, <1>4, ServedViews

\* The owner of a cursor that the server has is a socket of that client id.
LEMMA Owner ==
    ASSUME Inv1, NEW i \in Ids, peers[i].ws # NoSocket
    PROVE  LET w == peers[i].ws IN
           /\ w \in 1..used /\ w \in Ids /\ socket[w].phase = "attached" /\ socket[w].id = i /\ i \in 1..used
           /\ socket[i].file = socket[w].file /\ socket[i].page = socket[w].page
<1> DEFINE w == peers[i].ws
<1>1. w \in 1..used /\ socket[w].phase = "attached" /\ socket[w].id = i
  BY DEF Inv1, Owning
<1>2. w \in Ids /\ w <= used
  BY <1>1, UsedIds
<1>3. socket[w].id \in 1..w /\ Of(socket[w].id, socket[w].page, socket[w].file, socket[w].id)
  BY <1>2 DEF Inv1, Numbered, NumberedAt
<1>4. i \in 1..used
  BY <1>1, <1>3, UsedIds
<1> QED BY <1>1, <1>2, <1>3, <1>4 DEF Of

LEMMA AttachViews ==
    ASSUME Inv1, Inv1', NEW k \in Ids, Attach(k), Relaying, Showing
    PROVE  Relaying' /\ Showing'
<1> DEFINE x == snapshot(k)
<1>1. /\ socket[k].phase = "accepted" /\ Named(socket[k], socket'[k]) /\ socket'[k].broken = socket[k].broken
      /\ socket'[k].down = IF socket[k].broken THEN socket[k].down ELSE Append(socket[k].down, x)
      /\ (\A j \in Ids \ {k} : socket'[j] = socket[j]) /\ UNCHANGED <<editor, peers, used>>
  BY AttachEffect DEF Inv1, Named
<1>2. /\ x \in Down
      /\ \A i \in Ids : i \in DOMAIN x <=> peers[i].ws \notin {NoSocket, k} /\ socket[i].file = socket[k].file
      /\ \A i \in DOMAIN x : i \in Ids /\ x[i] = Cursor(peers[i].clock, TRUE)
  BY SnapshotType DEF Inv1
<1> HIDE DEF x
<1>3. Sound(x, k)
  <2> SUFFICES ASSUME NEW i \in DOMAIN x
               PROVE  i \in 1..used /\ socket[i].file = socket[k].file /\ Stands(peers'[i], x[i].clock)
    BY DEF Sound
  <2>1. i \in Ids /\ peers[i].ws # NoSocket /\ socket[i].file = socket[k].file /\ x[i].clock = peers[i].clock
    BY <1>2 DEF Cursor
  <2>2. i \in 1..used
    BY <2>1, Owner
  <2> QED BY <1>1, <2>1, <2>2 DEF Stands
<1>4. Follows(k)
  BY <1>1, <1>2, <1>3 DEF Follows
<1>5. \A j \in 1..used : j # k => socket'[j] = socket[j] /\ Follows(j)
  BY <1>1, UsedIds, FollowsStill
<1>6. SameNames
  BY <1>1, <1>5 DEF SameNames, Named
<1>7. \A j \in 1..used : Follows(j)
  BY <1>4, <1>5
<1>8. \A j \in 1..used : (socket[j].phase # "accepted" => socket'[j].phase = socket[j].phase) /\ socket'[j].broken = socket[j].broken
  BY <1>1, <1>5
<1> QED BY <1>1, <1>6, <1>7, <1>8, ServedViews

LEMMA PresenceViews ==
    ASSUME Inv1, Inv1', NEW k, Handling(k), socket' = [socket EXCEPT ![k].up = Tail(@)], UNCHANGED <<editor, used, peers>>, Relaying, Showing
    PROVE  Relaying' /\ Showing'
<1>1. Keeps(socket'[k], socket[k]) /\ socket'[k].down = socket[k].down /\ \A j \in Ids \ {k} : socket'[j] = socket[j]
  BY PresenceEffect
<1>2. \A j \in 1..used : Keeps(socket'[j], socket[j]) /\ socket'[j].down = socket[j].down
  BY <1>1, UsedIds DEF Keeps
<1>3. \A j \in 1..used : Follows(j)
  BY <1>2, FollowsStill
<1>4. SameNames
  BY <1>2 DEF SameNames, Keeps, Named
<1> QED BY <1>2, <1>3, <1>4, ServedViews DEF Keeps

LEMMA AcceptViews ==
    ASSUME Inv1, Inv1', NEW k, Handling(k), Announces(Head(socket[k].up)), accept(k, Head(socket[k].up)), UNCHANGED <<editor, used>>,
           Relaying, Showing
    PROVE  Relaying' /\ Showing'
<1> DEFINE m == socket[k].up[1]
           i == socket[k].id
           x == News(k)
<1>1. /\ m.clock \in Nat /\ m.on \in BOOLEAN
      /\ \A j \in Ids : /\ Keeps(socket'[j], socket[j])
                        /\ socket'[j].down = IF Taken(k, m) /\ j # k /\ Listens(j, k) THEN Append(socket[j].down, x) ELSE socket[j].down
      /\ \A j \in Ids \ {i} : peers'[j] = peers[j]
      /\ peers'[i] = IF Taken(k, m) THEN IF m.on THEN [clock |-> m.clock, ws |-> k] ELSE NoPeer ELSE peers[i]
  BY AcceptSockets, AcceptPeers
<1>2. k \in 1..used /\ k \in Ids /\ i \in Ids /\ k # NoSocket
  BY Handled DEF Handling
<1>3. x \in Down /\ DOMAIN x = {i} /\ x[i].clock = m.clock /\ (x[i].on <=> m.on)
  <2>0. x = About(i, Cursor(m.clock, m.on))
    BY DEF News
  <2> HIDE DEF i, m, x
  <2>1. x \in Down /\ DOMAIN x = {i} /\ x[i] = Cursor(m.clock, m.on)
    BY <1>1, <1>2, <2>0, AboutIs
  <2> QED BY <2>1 DEF Cursor
<1> HIDE DEF x
<1>4. i \in 1..used /\ socket[i].file = socket[k].file
  <2>1. socket[k].id \in 1..k /\ Of(socket[k].id, socket[k].page, socket[k].file, socket[k].id)
    BY <1>2, UsedIds DEF Inv1, Numbered, NumberedAt
  <2> QED BY <1>2, <2>1, UsedIds DEF Of
<1>5. SameNames
  BY <1>1, UsedIds DEF SameNames, Keeps, Named
<1>6. peers \in [Ids -> [clock : Nat, ws : 0..MaxSockets]]
  BY DEF Inv1, TypeOK
<1>7. ASSUME NEW j \in 1..used, socket[j].phase = "attached", ~socket[j].broken PROVE Follows(j)
  <2>1. j \in Ids
    BY UsedIds
  <2>2. CASE ~Taken(k, m)
    <3>1. peers' = peers
      <4>1. peers' \in [Ids -> [clock : Nat, ws : 0..MaxSockets]]
        BY DEF Inv1, TypeOK
      <4> QED BY <1>1, <1>6, <2>2, <4>1
    <3> QED BY <1>1, <2>1, <2>2, <3>1, FollowsStill
  <2>3. CASE Taken(k, m) /\ j # k /\ Listens(j, k)
    <3>1. socket'[j].down = Append(socket[j].down, x)
      BY <1>1, <2>1, <2>3
    <3>2. Sound(x, j)
      <4>1. m.on => Stands(peers'[i], m.clock)
        BY <1>1, <1>2, <2>3 DEF Stands
      <4>2. socket[i].file = socket[j].file
        BY <1>4, <2>3 DEF Listens
      <4> QED BY <1>3, <1>4, <4>1, <4>2 DEF Sound
    <3>3. ASSUME NEW v \in Nat, Stands(peers[i], v) PROVE Stands(peers'[i], v) \/ Supersedes(x, i, v)
      <4>1. peers[i].ws # NoSocket /\ peers[i].clock = v /\ ~(m.clock < v)
        BY <2>3, <3>3 DEF Taken, Late, Stands
      <4>2. CASE m.on /\ m.clock = v
        BY <1>1, <1>2, <2>3, <4>2 DEF Stands
      <4>3. CASE m.clock > v \/ ~m.on
        <5>1. m.clock > v \/ (m.clock = v /\ ~m.on)
          BY <1>1, <4>1, <4>3
        <5> QED BY <1>3, <5>1 DEF Supersedes
      <4> QED BY <1>1, <4>1, <4>2, <4>3
    <3>4. \A n \in 1..used, v \in Nat : Stands(peers[n], v) => Stands(peers'[n], v) \/ Supersedes(x, n, v)
      BY <1>1, <3>3, UsedIds
    <3> QED BY <1>3, <3>1, <3>2, <3>4 DEF Follows
  <2>4. CASE j = k
    <3>1. socket'[k].down = socket[k].down
      BY <1>1, <1>2
    <3>2. \A n \in 1..used : n # socket[k].id => peers'[n] = peers[n]
      BY <1>1, UsedIds
    <3> QED BY <2>4, <3>1, <3>2 DEF Follows
  <2>5. CASE ~Listens(j, k)
    <3>1. socket'[j].down = socket[j].down /\ socket[j].file # socket[k].file
      BY <1>1, <1>7, <2>1, <2>5 DEF Listens
    <3>2. \A n \in 1..used : socket[n].file = socket[j].file => peers'[n] = peers[n]
      BY <1>1, <1>4, <3>1, UsedIds
    <3> QED BY <3>1, <3>2 DEF Follows
  <2> QED BY <2>2, <2>3, <2>4, <2>5
<1>8. ASSUME NEW j \in 1..used, socket[j].phase # "attached" \/ socket[j].broken
      PROVE  socket'[j].down = <<>> /\ (socket'[j].broken \/ socket[j].phase # "attached")
  <2>1. socket'[j].down = socket[j].down /\ socket'[j].broken = socket[j].broken
    BY <1>1, <1>2, <1>8, UsedIds DEF Listens, Handling, Keeps
  <2> QED BY <1>8, <2>1, UsedIds DEF Inv1, Serving, ServingAt
<1>9. \A j \in 1..used : socket'[j].phase = socket[j].phase /\ socket'[j].broken = socket[j].broken
  BY <1>1, UsedIds DEF Keeps
<1> QED BY <1>5, <1>7, <1>8, <1>9, ServedViews

LEMMA DisconnectViews ==
    ASSUME Inv1, Inv1', NEW k, Handling(k), Head(socket[k].up).op = "disconnect", Disconnect(k), UNCHANGED <<editor, used>>,
           Relaying, Showing
    PROVE  Relaying' /\ Showing'
<1> DEFINE x == drop(k)
<1>1. /\ Named(socket[k], socket'[k]) /\ socket'[k].phase = "gone" /\ socket'[k].down = <<>> /\ socket'[k].broken = socket[k].broken
      /\ \A j \in Ids \ {k} :
            /\ Keeps(socket'[j], socket[j])
            /\ socket'[j].down = IF DOMAIN x # {} /\ Listens(j, k) THEN Append(socket[j].down, x) ELSE socket[j].down
      /\ \A i \in Ids : peers'[i] = IF peers[i].ws = k THEN NoPeer ELSE peers[i]
  BY DisconnectEffect DEF Named
<1>2. /\ k \in 1..used /\ k \in Ids /\ k # NoSocket
      /\ socket[k].up \in Seq(Up) /\ socket[k].up # <<>> /\ socket[k].up[1] \in Up /\ Head(socket[k].up) = socket[k].up[1]
  BY Handled DEF Handling
<1>3. /\ x \in Down
      /\ \A i \in Ids : i \in DOMAIN x <=> peers[i].ws = k
      /\ \A i \in DOMAIN x : i \in Ids /\ x[i] = Cursor(peers[i].clock + 1, FALSE)
  BY <1>2, DropType DEF Inv1
<1> HIDE DEF x
<1>4. \A i \in DOMAIN x : x[i].clock = peers[i].clock + 1 /\ ~x[i].on
  BY <1>3 DEF Cursor
<1>5. SameNames
  BY <1>1, UsedIds DEF SameNames, Keeps, Named
<1>6. peers \in [Ids -> [clock : Nat, ws : 0..MaxSockets]]
  BY DEF Inv1, TypeOK
<1>7. ASSUME NEW i \in DOMAIN x PROVE i \in 1..used /\ socket[i].file = socket[k].file /\ peers[i].ws = k
  <2>1. i \in Ids /\ peers[i].ws = k
    BY <1>3
  <2> QED BY <1>2, <2>1, Owner
<1>8. ASSUME NEW j \in 1..used, j # k, socket[j].phase = "attached", ~socket[j].broken PROVE Follows(j)
  <2>1. j \in Ids
    BY UsedIds
  <2>2. CASE DOMAIN x = {}
    <3>1. \A i \in 1..used : peers'[i] = peers[i]
      BY <1>1, <1>3, <2>2, UsedIds
    <3>2. socket'[j].down = socket[j].down
      BY <1>1, <1>8, <2>1, <2>2
    <3> QED BY <3>1, <3>2 DEF Follows
  <2>3. CASE DOMAIN x # {} /\ Listens(j, k)
    <3>1. socket'[j].down = Append(socket[j].down, x)
      BY <1>1, <1>8, <2>1, <2>3
    <3>2. Sound(x, j)
      BY <1>4, <1>7, <2>3 DEF Sound, Listens
    <3>3. ASSUME NEW i \in 1..used, NEW v \in Nat, Stands(peers[i], v) PROVE Stands(peers'[i], v) \/ Supersedes(x, i, v)
      <4>1. i \in Ids
        BY UsedIds
      <4>2. CASE peers[i].ws = k
        <5>1. i \in DOMAIN x /\ x[i].clock = v + 1
          BY <1>3, <1>4, <3>3, <4>1, <4>2 DEF Stands
        <5> QED BY <5>1 DEF Supersedes
      <4>3. CASE peers[i].ws # k
        BY <1>1, <3>3, <4>1, <4>3
      <4> QED BY <4>2, <4>3
    <3> QED BY <1>3, <3>1, <3>2, <3>3 DEF Follows
  <2>4. CASE ~Listens(j, k)
    <3>1. socket'[j].down = socket[j].down /\ socket[j].file # socket[k].file
      BY <1>1, <1>8, <2>1, <2>4 DEF Listens
    <3>2. \A i \in 1..used : socket[i].file = socket[j].file => peers'[i] = peers[i]
      BY <1>1, <1>3, <1>7, <3>1, UsedIds
    <3> QED BY <3>1, <3>2 DEF Follows
  <2> QED BY <2>2, <2>3, <2>4
<1>9. ASSUME NEW j \in 1..used, j # k, socket[j].phase # "attached" \/ socket[j].broken
      PROVE  socket'[j].down = <<>> /\ (socket'[j].broken \/ socket[j].phase # "attached")
  <2>1. socket'[j].down = socket[j].down /\ socket'[j].broken = socket[j].broken
    BY <1>1, <1>9, UsedIds DEF Listens, Keeps
  <2> QED BY <1>9, <2>1, UsedIds DEF Inv1, Serving, ServingAt
<1>10. socket'[k].broken \/ editor[socket[k].page].ws # k
  <2>1. Ends(k)
    BY <1>2, Messages, EndsOf DEF Ends
  <2>2. socket[k].page \in Pages
    BY Handled
  <2>3. editor[socket[k].page].ws = k => Open(socket[k].page)
    BY <1>2, <2>2, Connection
  <2> QED BY <1>1, <2>1, <2>2, <2>3 DEF Inv1, Editing, EditingAt
<1>11. ASSUME NEW j \in 1..used
       PROVE  /\ socket[j].phase # "accepted" => socket'[j].phase # "accepted"
              /\ ~socket'[j].broken => ~socket[j].broken
  BY <1>1, UsedIds DEF Keeps
<1> QED BY <1>1, <1>5, <1>8, <1>9, <1>10, <1>11, ServedViews
-----------------------------------------------------------------------------
(* The second invariant, and the cursors that are shown *)

LEMMA InitInv2 == Init => Inv2
<1> SUFFICES ASSUME Init PROVE Inv2
  OBVIOUS
<1>1. \A p \in Pages : editor[p] = NoEditor
  BY DEF Init
<1>2. \A k \in Ids : Len(socket[k].down) = 0
  BY None DEF Init, Unused
<1>3. \A p \in Pages : ~Open(p) /\ editor[p].shown = Nobody
  BY <1>1 DEF Open, NoEditor
<1>4. \A p \in Pages : Clocks(p)
  BY <1>3 DEF Clocks, Ordered, Told
<1>5. Relaying
  BY <1>2 DEF Relaying, RelayingAt
<1>6. Showing
  BY <1>3 DEF Showing, ShowingAt, Nobody
<1> QED BY <1>4, <1>5, <1>6 DEF Inv2

LEMMA ServeInv2 ==
    ASSUME Inv1, Inv1', Inv2, NEW k \in Ids, Serve(k)
    PROVE  Inv2'
<1>1. Handling(k) /\ UNCHANGED <<user, editor, used>>
  BY ServeCases
<1>2. (\A q \in Pages : Clocks(q)) /\ Relaying /\ Showing
  BY DEF Inv2
<1>3. CASE Announces(Head(socket[k].up)) /\ accept(k, Head(socket[k].up))
  BY <1>1, <1>2, <1>3, AcceptClocks, AcceptViews DEF Inv2
<1>4. CASE /\ Head(socket[k].up).op = "project_presence"
           /\ socket' = [socket EXCEPT ![k].up = Tail(@)] /\ UNCHANGED peers
  BY <1>1, <1>2, <1>4, PresenceClocks, PresenceViews DEF Inv2
<1>5. CASE Head(socket[k].up).op = "disconnect" /\ Disconnect(k)
  BY <1>1, <1>2, <1>5, DisconnectClocks, DisconnectViews DEF Inv2
<1> QED BY <1>3, <1>4, <1>5, ServeCases

LEMMA Inv2Stutter == Inv2 /\ UNCHANGED vars => Inv2'
<1> SUFFICES ASSUME Inv2, UNCHANGED vars PROVE Inv2'
  OBVIOUS
<1> USE DEF vars
<1>1. ASSUME NEW p \in Pages, Clocks(p) PROVE Clocks(p)'
  BY <1>1 DEF Clocks, Ordered, Told, Pending, Known, Open
<1>2. ASSUME NEW k \in Ids, RelayingAt(k) PROVE RelayingAt(k)'
  BY <1>2 DEF RelayingAt, Answered
<1>3. ASSUME NEW p \in Pages, ShowingAt(p) PROVE ShowingAt(p)'
  BY <1>3 DEF ShowingAt, Answered
<1> QED BY <1>1, <1>2, <1>3 DEF Inv2, Relaying, Showing

LEMMA Inv2Step == Inv1 /\ Inv2 /\ [Next]_vars => Inv2'
<1> SUFFICES ASSUME Inv1, Inv2, [Next]_vars PROVE Inv2'
  OBVIOUS
<1>0. Inv1' /\ (\A q \in Pages : Clocks(q)) /\ Relaying /\ Showing
  BY Inv1Step DEF Inv2
<1>1. ASSUME NEW p \in Pages, NEW f \in Files, openFile(p, f) PROVE Inv2'
  BY <1>0, <1>1, OpenClocks, OpenViews DEF Inv2
<1>2. ASSUME NEW p \in Pages, closeTab(p) PROVE Inv2'
  BY <1>0, <1>2, CloseClocks, CloseViews DEF Inv2
<1>3. ASSUME NEW p \in Pages, Move(p) PROVE Inv2'
  BY <1>0, <1>3, MoveClocks, MoveViews DEF Inv2
<1>4. ASSUME NEW p \in Pages, OnMessage(p) PROVE Inv2'
  BY <1>0, <1>4, MessageClocks, MessageViews DEF Inv2
<1>5. ASSUME NEW p \in Pages, Reconnect(p) PROVE Inv2'
  BY <1>0, <1>5, ReconnectClocks, ReconnectViews DEF Inv2
<1>6. ASSUME NEW k \in Ids, Break(k) PROVE Inv2'
  BY <1>0, <1>6, BreakClocks, BreakViews DEF Inv2
<1>7. ASSUME NEW k \in Ids, Attach(k) PROVE Inv2'
  BY <1>0, <1>7, AttachClocks, AttachViews DEF Inv2
<1>8. ASSUME NEW k \in Ids, Serve(k) PROVE Inv2'
  BY <1>0, <1>8, ServeInv2
<1>9. CASE UNCHANGED vars
  BY <1>9, Inv2Stutter
<1> QED BY <1>1, <1>2, <1>3, <1>4, <1>5, <1>6, <1>7, <1>8, <1>9 DEF Next

LEMMA Inv2Holds == Spec => []Inv2
  BY InitInv2, Inv2Step, Inv1Holds, PTL DEF Spec

\* Once everything sent has been handled, the server has a cursor only from a connection in use,
LEMMA SettledOwner ==
    ASSUME Inv1, Settled, NEW i \in Ids, peers[i].ws # NoSocket
    PROVE  \E q \in Pages : Open(q) /\ editor[q].id = i /\ editor[q].file = socket[i].file /\ ~socket[editor[q].ws].broken
<1> DEFINE w == peers[i].ws
           q == socket[w].page
<1>1. /\ w \in 1..used /\ w \in Ids /\ socket[w].phase = "attached" /\ socket[w].id = i
      /\ socket[i].file = socket[w].file
  BY Owner
<1>2. ~Ends(w)
  BY <1>1, EndsOf DEF Settled, Ends
<1>3. Current(w)
  BY <1>1, <1>2 DEF Inv1, Serving, ServingAt, Served
<1>4. q \in Pages /\ w # NoSocket
  BY <1>1, UsedIds DEF Inv1, Numbered, NumberedAt
<1>5. editor[q].ws = w /\ ~socket[w].broken
  BY <1>3 DEF Current
<1>6. Open(q) /\ Of(w, q, editor[q].file, editor[q].id)
  BY <1>4, <1>5, Connection
<1> QED BY <1>1, <1>4, <1>5, <1>6 DEF Of

\* .. and each connection in use has told it where its cursor is.
LEMMA SettledKnown ==
    ASSUME Inv1, Inv2, Settled, NEW q \in Pages, Open(q)
    PROVE  Known(q) /\ ~socket[editor[q].ws].broken
<1>1. editor[q].ws \in Ids
  BY Connection
<1>2. ~socket[editor[q].ws].broken
  BY DEF Settled, Open
<1>3. Len(socket[editor[q].ws].up) = 0
  BY <1>1, None DEF Settled
<1>4. ~Pending(q)
  BY <1>3 DEF Pending, Waits
<1> QED BY <1>2, <1>4 DEF Inv2, Clocks, Told

LEMMA CursorsFromInv2 == Inv1 /\ Inv2 => CursorsAreTrue
<1> SUFFICES ASSUME Inv1, Inv2, Settled, NEW p \in Pages, NEW i \in Ids, editor[p].shown[i] # 0
             PROVE  \E q \in Pages : SameFile(p, q) /\ editor[q].id = i /\ editor[q].clock = editor[p].shown[i]
  BY DEF CursorsAreTrue
<1> DEFINE k == editor[p].ws
           v == editor[p].shown[i]
<1>1. Open(p)
  <2>1. ~Open(p) => editor[p].shown = Nobody
    BY DEF Inv1, Editing, EditingAt, NoEditor
  <2> QED BY <2>1 DEF Nobody
<1>2. k \in Ids /\ ~socket[k].broken
  BY <1>1, Connection, SettledKnown
<1>3. i # editor[p].id /\ socket[i].file = editor[p].file /\ Answered(socket[k].down, 0, i, v)
  BY <1>2 DEF Inv2, Showing, ShowingAt
<1>4. Len(socket[k].down) = 0
  BY <1>2, None DEF Settled
<1>5. Stands(peers[i], v)
  BY <1>3, <1>4 DEF Answered, Overtaken
<1>6. PICK q \in Pages : Open(q) /\ editor[q].id = i /\ editor[q].file = socket[i].file /\ ~socket[editor[q].ws].broken
  BY <1>5, SettledOwner DEF Stands
<1>7. peers[i].clock = editor[q].clock
  <2>1. Known(q)
    BY <1>6, SettledKnown
  <2> QED BY <1>6, <2>1 DEF Known
<1>8. SameFile(p, q)
  BY <1>1, <1>3, <1>6 DEF SameFile, Open
<1> QED BY <1>5, <1>6, <1>7, <1>8 DEF Stands

\* Each cursor on a screen is that of an editor that has the file open, where it is now, whatever
\* was replaced, lost or delayed before (CursorsAreTrue, of the run presence).
THEOREM CursorsTrueHold == Spec => []CursorsAreTrue
  BY CursorsFromInv2, Inv1Holds, Inv2Holds, PTL
-----------------------------------------------------------------------------
(* The third invariant: what others may know of a cursor *)

LEMMA SaysOf ==
    ASSUME NEW d \in Seq(Down), NEW i
    PROVE  /\ Says(d, i) \subseteq Cursors
           /\ \A x \in Down : \A y : y \in Says(Append(d, x), i) <=> y \in Says(d, i) \/ (i \in DOMAIN x /\ y = x[i])
           /\ d # <<>> => \A y : y \in Says(d, i) <=> y \in Says(Tail(d), i) \/ (i \in DOMAIN d[1] /\ y = d[1][i])
<1>1. Len(d) \in Nat /\ \A n \in 1..Len(d) : d[n] \in Down
  OBVIOUS
<1>2. Says(d, i) \subseteq Cursors
  BY <1>1 DEF Says, Cursors, Down
<1>3. ASSUME NEW x \in Down, NEW y PROVE y \in Says(Append(d, x), i) <=> y \in Says(d, i) \/ (i \in DOMAIN x /\ y = x[i])
  <2> DEFINE e == Append(d, x)
  <2>1. Len(e) = Len(d) + 1 /\ e[Len(d) + 1] = x /\ \A n \in 1..Len(d) : e[n] = d[n]
    BY Grow
  <2> HIDE DEF e
  <2>2. \A n \in 1..Len(e) : (n \in 1..Len(d) /\ e[n] = d[n]) \/ e[n] = x
    BY <1>1, <2>1
  <2>3. y \in Says(e, i) => y \in Says(d, i) \/ (i \in DOMAIN x /\ y = x[i])
    BY <2>2 DEF Says
  <2>4. \A n \in 1..Len(d) : n \in 1..Len(e) /\ e[n] = d[n]
    BY <1>1, <2>1
  <2>5. y \in Says(d, i) => y \in Says(e, i)
    BY <2>4 DEF Says
  <2>6. Len(e) \in 1..Len(e) /\ e[Len(e)] = x
    BY <1>1, <2>1
  <2>7. i \in DOMAIN x /\ y = x[i] => y \in Says(e, i)
    BY <2>6 DEF Says
  <2> QED BY <2>3, <2>5, <2>7 DEF e
<1>4. ASSUME d # <<>>, NEW y PROVE y \in Says(d, i) <=> y \in Says(Tail(d), i) \/ (i \in DOMAIN d[1] /\ y = d[1][i])
  <2> DEFINE e == Tail(d)
  <2>1. /\ \A n \in 1..Len(e) : n + 1 \in 1..Len(d) /\ e[n] = d[n + 1]
        /\ \A n \in 1..Len(d) : n # 1 => n - 1 \in 1..Len(e) /\ e[n - 1] = d[n]
        /\ 1 \in 1..Len(d)
    BY <1>4, Shrink
  <2> HIDE DEF e
  <2>2. y \in Says(e, i) => y \in Says(d, i)
    BY <2>1 DEF Says
  <2>3. i \in DOMAIN d[1] /\ y = d[1][i] => y \in Says(d, i)
    BY <2>1 DEF Says
  <2>4. y \in Says(d, i) => y \in Says(e, i) \/ (i \in DOMAIN d[1] /\ y = d[1][i])
    <3> SUFFICES ASSUME NEW n \in 1..Len(d), i \in DOMAIN d[n], y = d[n][i], n # 1 PROVE y \in Says(e, i)
      BY DEF Says
    <3> QED BY <2>1 DEF Says
  <2> QED BY <2>2, <2>3, <2>4 DEF e
<1> QED BY <1>2, <1>3, <1>4

LEMMA SaysNone == \A i : Says(<<>>, i) = {}
  BY None DEF Says

LEMMA AtIs == \A c \in Nat : At(c) \in Cursors /\ At(c).clock = c /\ At(c).on
  BY DEF At, Cursor, Cursors

\* The page of q is where it was, and still announces what it announced.
LEMMA AllowedStays ==
    ASSUME Inv1, NEW q \in Pages, Open(q), Stays(q), editor'[q].clock = editor[q].clock,
           LET j == editor[q].ws IN
           ~socket'[j].broken => ~socket[j].broken /\ (Waits(socket'[j].up, editor[q].clock) => Waits(socket[j].up, editor[q].clock))
    PROVE  Allowed(q) \subseteq Allowed(q)'
<1>1. editor[q].clock \in Nat
  BY Connection
<1>2. editor'[q].ws = editor[q].ws
  BY DEF Stays
<1>3. \A x \in Cursors : x.clock \in Nat
  BY DEF Cursors
<1>4. CASE socket'[editor[q].ws].broken
  BY <1>1, <1>2, <1>3, <1>4 DEF Allowed
<1>5. CASE ~socket'[editor[q].ws].broken
  <2>1. ~socket[editor[q].ws].broken /\ (Pending(q)' => Pending(q))
    BY <1>2, <1>5 DEF Pending
  <2> QED BY <1>1, <1>2, <1>3, <1>5, <2>1 DEF Allowed
<1> QED BY <1>4, <1>5

\* Nobody knows more of q than what was on its way, or may be known.
LEMMA BoundedStays ==
    ASSUME NEW q \in Pages, Bounded(q), Open(q), Open(q)', editor'[q].id = editor[q].id, Allowed(q) \subseteq Allowed(q)',
           LET i == editor[q].id IN
           /\ \A p \in Pages : editor'[p].known[i] = editor[p].known[i] \/ At(editor'[p].known[i]) \in Allowed(q)'
           /\ \A k \in Ids : \A y \in Says(socket'[k].down, i) : y \in Says(socket[k].down, i) \/ y \in Allowed(q)'
    PROVE  Bounded(q)'
<1> DEFINE i == editor[q].id
<1>1. editor'[q].id = i
  OBVIOUS
<1>2. ASSUME NEW p \in Pages PROVE At(editor'[p].known[i]) \in Allowed(q)'
  <2>1. At(editor[p].known[i]) \in Allowed(q)
    BY DEF Bounded
  <2> QED BY <2>1
<1>3. ASSUME NEW k \in Ids PROVE Says(socket'[k].down, i) \subseteq Allowed(q)'
  <2>1. Says(socket[k].down, i) \subseteq Allowed(q)
    BY DEF Bounded
  <2> QED BY <2>1
<1> HIDE DEF i
<1> QED BY <1>1, <1>2, <1>3 DEF Bounded, At

LEMMA ZeroAllowed ==
    ASSUME Inv1, NEW q \in Pages, Open(q)
    PROVE  At(0) \in Allowed(q)
<1>1. editor[q].clock \in Nat \ {0} /\ At(0) \in Cursors /\ At(0).clock = 0
  BY Connection, AtIs
<1> QED BY <1>1 DEF Allowed

\* A page of which the step announces nothing
LEMMA BoundedOn ==
    ASSUME Inv1, NEW q \in Pages, Bounded(q), Stays(q), editor'[q].clock = editor[q].clock,
           LET i == editor[q].id  j == editor[q].ws IN
           Open(q) =>
               /\ ~socket'[j].broken => ~socket[j].broken /\ (Waits(socket'[j].up, editor[q].clock) => Waits(socket[j].up, editor[q].clock))
               /\ \A p \in Pages : editor'[p].known[i] \in {0, editor[p].known[i]} \/ At(editor'[p].known[i]) \in Allowed(q)
               /\ \A k \in Ids : \A y \in Says(socket'[k].down, i) : y \in Says(socket[k].down, i) \/ y \in Allowed(q)
    PROVE  Bounded(q)'
<1> DEFINE i == editor[q].id
<1>1. editor'[q].id = i /\ (Open(q)' <=> Open(q))
  BY DEF Stays, Open
<1> SUFFICES ASSUME Open(q) PROVE Bounded(q)'
  BY <1>1 DEF Bounded
<1>2. Allowed(q) \subseteq Allowed(q)'
  BY AllowedStays
<1>3. At(0) \in Allowed(q)
  BY ZeroAllowed
<1>4. \A p \in Pages : editor'[p].known[i] = editor[p].known[i] \/ At(editor'[p].known[i]) \in Allowed(q)'
  BY <1>2, <1>3
<1>5. \A k \in Ids : \A y \in Says(socket'[k].down, i) : y \in Says(socket[k].down, i) \/ y \in Allowed(q)'
  BY <1>2
<1> QED BY <1>1, <1>2, <1>4, <1>5, BoundedStays

\* What waits in a queue is newer than what the queue is after.
LEMMA Ahead ==
    ASSUME NEW u, NEW v, NEW c \in Nat, After(u, v), Waits(u, c)
    PROVE  v < c
<1>1. PICK n \in 1..Len(u) : u[n] = Now(c)
  BY DEF Waits
<1>2. Announces(Now(c)) /\ Now(c).clock = c
  BY NowIs
<1> QED BY <1>1, <1>2 DEF After

\* What is on its way from q is newer than what the server has.
LEMMA PendingAhead ==
    ASSUME Inv1, NEW q \in Pages, Open(q), Ordered(q), Pending(q), peers[editor[q].id].ws # NoSocket
    PROVE  peers[editor[q].id].clock < editor[q].clock
<1> DEFINE i == editor[q].id
           j == editor[q].ws
           c == editor[q].clock
           u == socket[j].up
<1>1. i \in Ids /\ j \in Ids /\ c \in Nat
  BY Connection
<1>2. peers[i].clock \in Nat
  BY <1>1 DEF Inv1, TypeOK
<1>3. CASE peers[i].ws = j
  <2>1. After(u, peers[i].clock) /\ Waits(u, c)
    BY <1>3 DEF Ordered, Pending
  <2> HIDE DEF u, c
  <2>2. peers[i].clock < c
    BY <1>1, <2>1, Ahead
  <2> QED BY <2>2 DEF c
<1>4. CASE peers[i].ws # j
  <2>1. peers[i].clock + 2 <= c
    BY <1>4 DEF Ordered
  <2> QED BY <1>1, <1>2, <2>1
<1> QED BY <1>3, <1>4

\* What the server has of q's cursor may be told.
LEMMA ServerAllowed ==
    ASSUME Inv1, NEW q \in Pages, Open(q), Ordered(q), peers[editor[q].id].ws # NoSocket
    PROVE  At(peers[editor[q].id].clock) \in Allowed(q)
<1> DEFINE v == peers[editor[q].id].clock
<1>1. editor[q].id \in Ids /\ editor[q].clock \in Nat
  BY Connection
<1>2. v \in Nat
  BY <1>1 DEF Inv1, TypeOK
<1>3. At(v) \in Cursors /\ At(v).clock = v /\ At(v).on
  BY <1>2, AtIs
<1>4. v <= editor[q].clock /\ (Pending(q) => v < editor[q].clock)
  BY PendingAhead DEF Ordered
<1> HIDE DEF v
<1>5. At(v) \in Allowed(q)
  BY <1>1, <1>2, <1>3, <1>4 DEF Allowed
<1> QED BY <1>5 DEF v

\* Nothing on its way says anything of a client id that is not used yet.
LEMMA SaysFresh ==
    ASSUME Relaying, NEW k \in Ids, NEW i \in Ids, i \notin 1..used
    PROVE  Says(socket[k].down, i) = {}
  BY DEF Relaying, RelayingAt, Says

LEMMA OpenBounded ==
    ASSUME Inv1, Inv1', Relaying, NEW p \in Pages, NEW f \in Files, openFile(p, f), \A r \in Pages : Fresh(r), NEW q \in Pages, Bounded(q)
    PROVE  Bounded(q)'
<1> DEFINE n == used + 1
<1>1. /\ used' = n /\ n \in Ids /\ Others(p) /\ New(socket'[n], p, f, n)
      /\ \A k \in Ids \ {n} : Leaves(p, k, socket'[k])
      /\ editor'[p].id = n /\ editor'[p].ws = n /\ editor'[p].clock = 1 /\ editor'[p].known = Nobody
  BY OpenEffect DEF Inv1
<1>2. used \in Nat /\ n \notin 1..used /\ n > used
  BY UsedIds
<1>3. \A k \in Ids : socket'[k].down = IF k = n THEN <<>> ELSE socket[k].down
  BY <1>1 DEF New, Leaves
<1>4. \A i \in Ids : Nobody[i] = 0
  BY DEF Nobody
<1>5. \A i \in Ids, k \in Ids : Says(socket'[k].down, i) \subseteq Says(socket[k].down, i)
  BY <1>3, SaysNone
<1>6. CASE q # p
  <2>1. editor'[q] = editor[q]
    BY <1>1, <1>6 DEF Others
  <2>2. Stays(q) /\ editor'[q].clock = editor[q].clock
    BY <2>1 DEF Stays
  <2>3. Open(q) => editor[q].id \in Ids /\ editor[q].ws \in Ids \ {n} /\ editor[q].ws # editor[p].ws
    BY <1>2, <1>6, Connection, Apart
  <2>4. Open(q) => socket'[editor[q].ws] = socket[editor[q].ws]
    BY <1>1, <2>3 DEF Leaves
  <2>5. Open(q) => \A r \in Pages : editor'[r].known[editor[q].id] \in {0, editor[r].known[editor[q].id]}
    BY <1>1, <1>4, <2>3 DEF Others
  <2> QED BY <1>5, <2>2, <2>3, <2>4, <2>5, BoundedOn
<1>7. CASE q = p
  <2>1. \A r \in Pages : editor'[r].known[n] = 0
    BY <1>1, <1>2, <1>4 DEF Others, Fresh
  <2>2. \A k \in Ids : Says(socket'[k].down, n) = {}
    BY <1>1, <1>2, <1>5, SaysFresh
  <2>3. At(0) \in Allowed(p)'
    <3>1. At(0) \in Cursors /\ At(0).clock = 0
      BY AtIs
    <3>2. ~socket'[n].broken /\ editor'[p].ws = n /\ editor'[p].clock = 1
      BY <1>1 DEF New
    <3> HIDE DEF n
    <3> QED BY <3>1, <3>2 DEF Allowed
  <2> HIDE DEF n
  <2> QED BY <1>1, <1>7, <2>1, <2>2, <2>3 DEF Bounded, At
<1> QED BY <1>6, <1>7

LEMMA CloseBounded ==
    ASSUME Inv1, Inv1', NEW p \in Pages, closeTab(p), NEW q \in Pages, Bounded(q)
    PROVE  Bounded(q)'
<1>1. Others(p) /\ editor'[p] = NoEditor /\ (\A k \in Ids : Leaves(p, k, socket'[k]))
  BY CloseEffect DEF Inv1
<1>2. \A k \in Ids : socket'[k].down = socket[k].down
  BY <1>1 DEF Leaves
<1>3. editor'[p].known = Nobody /\ (\A i \in Ids : Nobody[i] = 0) /\ ~Open(p)'
  BY <1>1 DEF NoEditor, Nobody, Open
<1>4. CASE q # p
  <2>1. editor'[q] = editor[q]
    BY <1>1, <1>4 DEF Others
  <2>2. Stays(q) /\ editor'[q].clock = editor[q].clock
    BY <2>1 DEF Stays
  <2>3. Open(q) => editor[q].id \in Ids /\ editor[q].ws \in Ids /\ editor[q].ws # editor[p].ws
    BY <1>4, Connection, Apart
  <2>4. Open(q) => socket'[editor[q].ws] = socket[editor[q].ws]
    BY <1>1, <2>3 DEF Leaves
  <2>5. Open(q) => \A r \in Pages : editor'[r].known[editor[q].id] \in {0, editor[r].known[editor[q].id]}
    BY <1>1, <1>3, <2>3 DEF Others
  <2> QED BY <1>2, <2>2, <2>3, <2>4, <2>5, BoundedOn
<1>5. CASE q = p
  BY <1>3, <1>5 DEF Bounded
<1> QED BY <1>4, <1>5

LEMMA MoveBounded ==
    ASSUME Inv1, Inv1', NEW p \in Pages, Move(p), NEW q \in Pages, Bounded(q)
    PROVE  Bounded(q)'
<1>1. /\ Open(p) /\ Others(p) /\ Stays(p) /\ editor'[p].clock = editor[p].clock + 1 /\ editor'[p].known = editor[p].known
      /\ \A k \in Ids : Keeps(socket'[k], socket[k]) /\ socket'[k].down = socket[k].down /\ (k # editor[p].ws => socket'[k] = socket[k])
  BY MoveEffect
<1>2. \A r \in Pages : editor'[r].known = editor[r].known
  BY <1>1 DEF Others
<1>3. CASE q # p
  <2>1. Stays(q) /\ editor'[q].clock = editor[q].clock
    BY <1>1, <1>3 DEF Others, Stays
  <2>2. Open(q) => socket'[editor[q].ws] = socket[editor[q].ws]
    BY <1>1, <1>3, Connection, Apart
  <2> QED BY <1>1, <1>2, <2>1, <2>2, BoundedOn
<1>4. CASE q = p
  <2> DEFINE c == editor[p].clock
             j == editor[p].ws
  <2>1. c \in Nat /\ j \in Ids
    BY <1>1, Connection
  <2>2. editor'[p].ws = j /\ editor'[p].clock = c + 1 /\ socket'[j].broken = socket[j].broken
    BY <1>1, <2>1 DEF Stays, Keeps
  <2>3. \A x \in Cursors : x.clock \in Nat
    BY DEF Cursors
  <2>4. Allowed(p) \subseteq Allowed(p)'
    <3> SUFFICES ASSUME NEW x \in Cursors, x \in Allowed(p) PROVE x \in Allowed(p)'
      BY DEF Allowed
    <3>1. CASE socket[j].broken
      <4>1. x.clock <= c + 1
        BY <3>1 DEF Allowed
      <4>2. x.clock <= (c + 1) + 1
        BY <2>1, <2>3, <4>1
      <4> QED BY <2>2, <3>1, <4>2 DEF Allowed
    <3>2. CASE ~socket[j].broken
      <4>1. x.clock < c \/ x.clock = c
        BY <3>2 DEF Allowed
      <4>2. x.clock < c + 1
        BY <2>1, <2>3, <4>1
      <4> QED BY <2>2, <3>2, <4>2 DEF Allowed
    <3> QED BY <3>1, <3>2
  <2>5. Open(p)' /\ editor'[p].id = editor[p].id
    BY <1>1 DEF Stays, Open
  <2> QED BY <1>1, <1>2, <1>4, <2>4, <2>5, BoundedStays
<1> QED BY <1>3, <1>4

LEMMA MessageBounded ==
    ASSUME Inv1, Inv1', NEW p \in Pages, OnMessage(p), NEW q \in Pages, Bounded(q)
    PROVE  Bounded(q)'
<1> DEFINE k == editor[p].ws
           d == socket[k].down
           m == d[1]
<1>1. /\ Open(p) /\ Others(p) /\ Stays(p) /\ editor'[p].clock = editor[p].clock
      /\ \A i \in Ids : editor'[p].known[i] = IF i \in Newer(editor[p], m) THEN m[i].clock ELSE editor[p].known[i]
      /\ d # <<>> /\ Keeps(socket'[k], socket[k]) /\ socket'[k].down = Tail(d)
      /\ socket'[k].up = socket[k].up \/ socket'[k].up = Append(socket[k].up, InFile)
      /\ \A j \in Ids \ {k} : socket'[j] = socket[j]
  BY MessageEffect
<1>2. k \in Ids
  BY <1>1, Connection
<1>3. socket[k] \in Socket
  BY <1>2 DEF Inv1, TypeOK
<1>4. d \in Seq(Down) /\ socket[k].up \in Seq(Up)
  BY <1>3, SocketFields
<1>5. Stays(q) /\ editor'[q].clock = editor[q].clock
  BY <1>1 DEF Others, Stays
<1> SUFFICES ASSUME Open(q) PROVE Bounded(q)'
  BY <1>5 DEF Bounded, Stays, Open
<1> DEFINE i == editor[q].id
           c == editor[q].clock
<1>6. i \in Ids /\ c \in Nat /\ editor[q].ws \in Ids
  BY Connection
<1>7. \A j \in Ids : Says(socket'[j].down, i) \subseteq Says(socket[j].down, i)
  <2>1. Says(Tail(d), i) \subseteq Says(d, i)
    BY <1>1, <1>4, SaysOf
  <2> QED BY <1>1, <1>2, <2>1
<1>8. \A r \in Pages : editor'[r].known[i] \in {0, editor[r].known[i]} \/ At(editor'[r].known[i]) \in Allowed(q)
  <2> SUFFICES ASSUME i \in Newer(editor[p], m) PROVE At(m[i].clock) \in Allowed(q)
    BY <1>1, <1>6 DEF Others
  <2>1. i \in DOMAIN m
    BY DEF Newer
  <2>2. m[i] \in Says(d, i)
    BY <1>1, <1>4, <2>1, SaysOf
  <2>3. m[i] \in Allowed(q)
    BY <1>2, <2>2 DEF Bounded
  <2> DEFINE x == m[i]
  <2>4. x \in Cursors /\ x.clock \in Nat
    BY <2>3 DEF Allowed, Cursors
  <2>5. At(x.clock) \in Cursors /\ At(x.clock).clock = x.clock /\ At(x.clock).on
    BY <2>4, AtIs
  <2>6. x \in Allowed(q)
    BY <2>3
  <2> HIDE DEF x
  <2>7. At(x.clock) \in Allowed(q)
    BY <2>5, <2>6 DEF Allowed
  <2> QED BY <2>7 DEF x
<1>9. Waits(socket'[editor[q].ws].up, c) => Waits(socket[editor[q].ws].up, c)
  <2>1. CASE editor[q].ws # k
    BY <1>1, <1>6, <2>1
  <2>2. CASE editor[q].ws = k
    <3> DEFINE u == socket[k].up
               e == Append(u, InFile)
    <3>1. InFile \in Up /\ ~Announces(InFile) /\ Announces(Now(c))
      BY <1>6, Messages, NowIs
    <3>2. Len(u) \in Nat /\ Len(e) = Len(u) + 1 /\ e[Len(u) + 1] = InFile /\ \A n \in 1..Len(u) : e[n] = u[n]
      <4>1. u \in Seq(Up) /\ InFile \in Up
        BY <1>4, <3>1
      <4> HIDE DEF u
      <4> QED BY <4>1, Grow
    <3> HIDE DEF e
    <3>3. \A n \in 1..Len(e) : e[n] = InFile \/ (n \in 1..Len(u) /\ e[n] = u[n])
      BY <3>2
    <3>4. Now(c) # InFile
      BY <3>1
    <3>5. Waits(e, c) => Waits(u, c)
      <4> HIDE DEF u, c
      <4> QED BY <3>3, <3>4 DEF Waits
    <3> QED BY <1>1, <2>2, <3>5 DEF e
  <2> QED BY <2>1, <2>2
<1>10. socket'[editor[q].ws].broken = socket[editor[q].ws].broken
  BY <1>1, <1>2, <1>6 DEF Keeps
<1> QED BY <1>5, <1>7, <1>8, <1>9, <1>10, BoundedOn

LEMMA ReconnectBounded ==
    ASSUME Inv1, Inv1', NEW p \in Pages, Reconnect(p), NEW q \in Pages, Bounded(q)
    PROVE  Bounded(q)'
<1> DEFINE n == used + 1
           c == editor[p].clock
<1>1. /\ Open(p) /\ socket[editor[p].ws].broken /\ n \in Ids /\ Others(p)
      /\ New(socket'[n], p, editor[p].file, editor[p].id)
      /\ \A k \in Ids \ {n} : socket'[k] = socket[k]
      /\ editor'[p].file = editor[p].file /\ editor'[p].id = editor[p].id /\ editor'[p].ws = n
      /\ editor'[p].clock = c + 2 /\ editor'[p].known = editor[p].known
  BY ReconnectEffect
<1>2. \A r \in Pages : editor'[r].known = editor[r].known
  BY <1>1 DEF Others
<1>3. \A k \in Ids : \A i : Says(socket'[k].down, i) \subseteq Says(socket[k].down, i)
  <2>1. socket'[n].down = <<>>
    BY <1>1 DEF New
  <2> QED BY <1>1, <2>1, SaysNone
<1>4. CASE q # p
  <2>1. Stays(q) /\ editor'[q].clock = editor[q].clock
    BY <1>1, <1>4 DEF Others, Stays
  <2>2. Open(q) => editor[q].ws \in Ids \ {n}
    BY Connection, UsedIds
  <2>3. Open(q) => socket'[editor[q].ws] = socket[editor[q].ws]
    BY <1>1, <2>2
  <2> QED BY <1>2, <1>3, <2>1, <2>3, BoundedOn
<1>5. CASE q = p
  <2>1. c \in Nat
    BY <1>1, Connection
  <2>2. ~socket'[n].broken
    BY <1>1 DEF New
  <2>3. Allowed(p) \subseteq Allowed(p)'
    <3> SUFFICES ASSUME NEW x \in Cursors, x \in Allowed(p) PROVE x \in Allowed(p)'
      BY DEF Allowed
    <3>1. x.clock <= c + 1 /\ x.clock \in Nat
      BY <1>1 DEF Allowed, Cursors
    <3>2. x.clock < c + 2
      BY <2>1, <3>1
    <3> QED BY <1>1, <2>2, <3>2 DEF Allowed
  <2>4. Open(p)'
    BY <1>1 DEF Open
  <2> QED BY <1>1, <1>2, <1>3, <1>5, <2>3, <2>4, BoundedStays
<1> QED BY <1>4, <1>5

LEMMA BreakBounded ==
    ASSUME Inv1, Inv1', NEW k \in Ids, Break(k), NEW q \in Pages, Bounded(q)
    PROVE  Bounded(q)'
<1>1. Breaks(socket[k], socket'[k]) /\ (\A j \in Ids \ {k} : socket'[j] = socket[j]) /\ UNCHANGED editor
  BY BreakEffect DEF Inv1
<1>2. Stays(q) /\ editor'[q].clock = editor[q].clock
  BY <1>1 DEF Stays
<1>3. socket'[k].down = <<>> /\ socket'[k].broken
  BY <1>1 DEF Breaks
<1>4. \A j \in Ids : \A i : Says(socket'[j].down, i) \subseteq Says(socket[j].down, i)
  BY <1>1, <1>3, SaysNone
<1>5. Open(q) /\ ~socket'[editor[q].ws].broken => socket'[editor[q].ws] = socket[editor[q].ws]
  BY <1>1, <1>3, Connection
<1> QED BY <1>1, <1>2, <1>4, <1>5, BoundedOn

LEMMA AttachBounded ==
    ASSUME Inv1, Inv1', NEW k \in Ids, Attach(k), NEW q \in Pages, Ordered(q), Bounded(q)
    PROVE  Bounded(q)'
<1> DEFINE x == snapshot(k)
<1>1. /\ socket'[k].broken = socket[k].broken /\ socket'[k].up = socket[k].up
      /\ socket'[k].down = IF socket[k].broken THEN socket[k].down ELSE Append(socket[k].down, x)
      /\ (\A j \in Ids \ {k} : socket'[j] = socket[j]) /\ UNCHANGED editor
  BY AttachEffect DEF Inv1
<1>2. /\ x \in Down
      /\ \A i \in Ids : i \in DOMAIN x <=> peers[i].ws \notin {NoSocket, k} /\ socket[i].file = socket[k].file
      /\ \A i \in DOMAIN x : i \in Ids /\ x[i] = Cursor(peers[i].clock, TRUE)
  BY SnapshotType DEF Inv1
<1> HIDE DEF x
<1>3. Stays(q) /\ editor'[q].clock = editor[q].clock
  BY <1>1 DEF Stays
<1> DEFINE i == editor[q].id
<1>4. Open(q) => i \in Ids /\ editor[q].ws \in Ids
  BY Connection
<1>5. Open(q) /\ i \in DOMAIN x => x[i] \in Allowed(q)
  BY <1>2, ServerAllowed DEF At
<1>6. socket[k] \in Socket
  BY DEF Inv1, TypeOK
<1>7. socket[k].down \in Seq(Down)
  BY <1>6, SocketFields
<1>8. ASSUME Open(q), NEW j \in Ids, NEW y \in Says(socket'[j].down, i) PROVE y \in Says(socket[j].down, i) \/ y \in Allowed(q)
  BY <1>1, <1>2, <1>5, <1>7, <1>8, SaysOf
<1>9. \A j \in Ids : socket'[j].broken = socket[j].broken /\ socket'[j].up = socket[j].up
  BY <1>1
<1> QED BY <1>1, <1>3, <1>4, <1>8, <1>9, BoundedOn

\* What a queue loses did not wait there before.
LEMMA WaitsTail ==
    ASSUME NEW u \in Seq(Up), NEW c, u # <<>>, Waits(Tail(u), c)
    PROVE  Waits(u, c)
<1>1. PICK n \in 1..Len(Tail(u)) : Tail(u)[n] = Now(c)
  BY DEF Waits
<1>2. n + 1 \in 1..Len(u) /\ Tail(u)[n] = u[n + 1]
  BY Shrink
<1> QED BY <1>1, <1>2 DEF Waits

LEMMA AcceptBounded ==
    ASSUME Inv1, Inv1', NEW k, Handling(k), Announces(Head(socket[k].up)), accept(k, Head(socket[k].up)), UNCHANGED <<editor, used>>,
           NEW q \in Pages, Ordered(q), Bounded(q)
    PROVE  Bounded(q)'
<1> DEFINE u == socket[k].up
           m == u[1]
           o == socket[k].id
           x == News(k)
           i == editor[q].id
           j == editor[q].ws
           c == editor[q].clock
<1>0. /\ \A n \in Ids : Keeps(socket'[n], socket[n])
      /\ \A n \in Ids : n # k => socket'[n].up = socket[n].up
      /\ \A n \in Ids : socket'[n].down = socket[n].down \/ socket'[n].down = Append(socket[n].down, x)
  BY AcceptSockets
<1>1. Announces(m) /\ m.clock \in Nat /\ m.on \in BOOLEAN /\ socket'[k].up = Tail(u)
  BY AcceptSockets, AcceptPeers
<1>2. k \in Ids /\ k \in 1..used /\ o \in Ids /\ u \in Seq(Up) /\ u # <<>>
  BY Handled DEF Handling
<1>3. x \in Down /\ DOMAIN x = {o} /\ x[o] = Cursor(m.clock, m.on)
  <2>1. x = About(o, Cursor(m.clock, m.on))
    BY DEF News
  <2> HIDE DEF o, m, x
  <2> QED BY <1>0, <1>1, <1>2, <2>1, AboutIs
<1> HIDE DEF x
<1>4. Stays(q) /\ editor'[q] = editor[q]
  BY DEF Stays
<1> SUFFICES ASSUME Open(q) PROVE Bounded(q)'
  BY <1>4 DEF Bounded, Open
<1>5. i \in Ids /\ j \in Ids /\ c \in Nat /\ j # NoSocket
  BY Connection DEF Ids, NoSocket
<1>6. Waits(socket'[j].up, c) => Waits(socket[j].up, c)
  <2>1. CASE j # k
    BY <1>0, <1>1, <1>5, <2>1
  <2>2. CASE j = k
    <3> HIDE DEF u, c
    <3> QED BY <1>0, <1>1, <1>2, <2>2, WaitsTail DEF u
  <2> QED BY <2>1, <2>2
<1>7. socket'[j].broken = socket[j].broken
  BY <1>0, <1>1, <1>5 DEF Keeps
<1>8. Allowed(q) \subseteq Allowed(q)'
  BY <1>4, <1>6, <1>7, AllowedStays
<1>9. i = o => x[i] \in Allowed(q)'
  <2> SUFFICES ASSUME i = o PROVE x[i] \in Allowed(q)'
    OBVIOUS
  <2>1. 1 \in 1..Len(u)
    BY <1>2, Shrink
  <2>2. Until(u, c) /\ (k # j => Until(u, c - 2))
    BY <1>2 DEF Ordered
  <2>3. m.on /\ m.clock <= c /\ (k # j => m.clock <= c - 2)
    BY <1>0, <1>1, <2>1, <2>2 DEF Until
  <2>4. Waits(socket'[j].up, c) => m.clock < c
    <3>1. CASE k # j
      BY <1>0, <1>1, <1>5, <2>3, <3>1
    <3>2. CASE k = j
      <4>1. Rising(u)
        BY <3>2 DEF Ordered
      <4>2. After(Tail(u), m.clock)
        BY <1>0, <1>1, <1>2, <4>1, RisingAfter
      <4>3. socket'[j].up = Tail(u)
        BY <1>0, <1>1, <3>2
      <4> HIDE DEF u, c, m
      <4> QED BY <1>5, <4>2, <4>3, Ahead
    <3> QED BY <3>1, <3>2
  <2>5. x[i] \in Cursors /\ x[i].clock = m.clock /\ x[i].on
    BY <1>0, <1>1, <1>3, <2>3 DEF Cursor, Cursors
  <2>6. Pending(q)' => m.clock < c
    BY <1>4, <2>4 DEF Pending
  <2>7. m.clock < c \/ m.clock = c
    BY <1>0, <1>1, <1>5, <2>3
  <2>8. m.clock <= c + 1
    BY <1>0, <1>1, <1>5, <2>3
  <2> QED BY <1>4, <2>5, <2>6, <2>7, <2>8 DEF Allowed
<1>10. ASSUME NEW n \in Ids, NEW y \in Says(socket'[n].down, i) PROVE y \in Says(socket[n].down, i) \/ y \in Allowed(q)'
  <2>1. socket[n] \in Socket
    BY DEF Inv1, TypeOK
  <2>2. socket[n].down \in Seq(Down)
    BY <2>1, SocketFields
  <2>3. socket'[n].down = socket[n].down \/ socket'[n].down = Append(socket[n].down, x)
    BY <1>0, <1>1
  <2>4. i \in DOMAIN x => x[i] \in Allowed(q)'
    BY <1>3, <1>9
  <2> HIDE DEF i
  <2>5. CASE socket'[n].down = socket[n].down
    BY <1>0, <1>10, <2>5
  <2>6. CASE socket'[n].down = Append(socket[n].down, x)
    <3>1. y \in Says(socket[n].down, i) \/ (i \in DOMAIN x /\ y = x[i])
      BY <1>3, <1>10, <2>2, <2>6, SaysOf
    <3> QED BY <2>4, <3>1
  <2> QED BY <2>3, <2>5, <2>6
<1>11. Open(q)'
  BY <1>4 DEF Open
<1> QED BY <1>4, <1>8, <1>10, <1>11, BoundedStays

LEMMA PresenceBounded ==
    ASSUME Inv1, Inv1', NEW k, Handling(k), socket' = [socket EXCEPT ![k].up = Tail(@)], UNCHANGED editor, NEW q \in Pages, Bounded(q)
    PROVE  Bounded(q)'
<1>1. Keeps(socket'[k], socket[k]) /\ socket'[k].up = Tail(socket[k].up) /\ socket'[k].down = socket[k].down
      /\ \A j \in Ids \ {k} : socket'[j] = socket[j]
  BY PresenceEffect
<1>2. k \in Ids /\ socket[k].up \in Seq(Up) /\ socket[k].up # <<>>
  BY Handled DEF Handling
<1>3. Stays(q) /\ editor'[q] = editor[q]
  BY DEF Stays
<1> DEFINE j == editor[q].ws
<1>4. \A n \in Ids : socket'[n].broken = socket[n].broken /\ socket'[n].down = socket[n].down
  BY <1>1 DEF Keeps
<1>5. Open(q) => j \in Ids
  BY Connection
<1>6. Open(q) /\ Waits(socket'[j].up, editor[q].clock) => Waits(socket[j].up, editor[q].clock)
  <2>1. CASE j # k
    BY <1>1, <1>5, <2>1
  <2>2. CASE j = k
    BY <1>1, <1>2, <2>2, WaitsTail
  <2> QED BY <2>1, <2>2
<1> QED BY <1>3, <1>4, <1>5, <1>6, BoundedOn

LEMMA DisconnectBounded ==
    ASSUME Inv1, Inv1', NEW k, Handling(k), Head(socket[k].up).op = "disconnect", Disconnect(k), UNCHANGED <<editor, used>>,
           NEW q \in Pages, Ordered(q), Bounded(q)
    PROVE  Bounded(q)'
<1> DEFINE x == drop(k)
           i == editor[q].id
           j == editor[q].ws
           c == editor[q].clock
<1>1. /\ socket'[k].up = <<>> /\ socket'[k].down = <<>> /\ socket'[k].broken = socket[k].broken
      /\ \A n \in Ids \ {k} :
            /\ Keeps(socket'[n], socket[n]) /\ socket'[n].up = socket[n].up
            /\ socket'[n].down = IF DOMAIN x # {} /\ Listens(n, k) THEN Append(socket[n].down, x) ELSE socket[n].down
  BY DisconnectEffect
<1>2. k \in Ids /\ k # NoSocket /\ socket[k].up \in Seq(Up) /\ socket[k].up # <<>> /\ socket[k].up[1] \in Up /\ Head(socket[k].up) = socket[k].up[1]
  BY Handled DEF Handling
<1>3. /\ x \in Down
      /\ \A n \in Ids : n \in DOMAIN x <=> peers[n].ws = k
      /\ \A n \in DOMAIN x : n \in Ids /\ x[n] = Cursor(peers[n].clock + 1, FALSE)
  BY <1>2, DropType DEF Inv1
<1> HIDE DEF x
<1>4. Stays(q) /\ editor'[q] = editor[q]
  BY DEF Stays
<1>5. Open(q) => i \in Ids /\ j \in Ids /\ c \in Nat
  BY Connection
<1>6. Ends(k)
  BY <1>2, Messages, EndsOf DEF Ends
<1>7. Open(q) /\ ~socket[j].broken => j # k
  BY <1>6 DEF Inv1, Editing, EditingAt
<1>8. Open(q) => socket'[j].broken = socket[j].broken
  BY <1>1, <1>5 DEF Keeps
<1>9. Open(q) /\ ~socket[j].broken => socket'[j].up = socket[j].up
  BY <1>1, <1>5, <1>7
<1>10. ASSUME Open(q), i \in DOMAIN x PROVE x[i] \in Allowed(q)
  <2> DEFINE v == peers[i].clock
  <2>1. peers[i].ws = k /\ v \in Nat /\ x[i] = Cursor(v + 1, FALSE)
    BY <1>3, <1>5, <1>10 DEF Inv1, TypeOK
  <2>2. x[i] \in Cursors /\ x[i].clock = v + 1
    BY <2>1 DEF Cursor, Cursors
  <2>3. v <= c /\ (k # j => v + 2 <= c)
    BY <1>2, <1>10, <2>1 DEF Ordered
  <2>4. CASE socket[j].broken
    <3>1. v + 1 <= c + 1
      BY <1>5, <1>10, <2>1, <2>3
    <3> QED BY <2>2, <2>4, <3>1 DEF Allowed
  <2>5. CASE ~socket[j].broken
    <3>1. v + 1 < c
      BY <1>5, <1>7, <1>10, <2>1, <2>3, <2>5
    <3> QED BY <2>2, <2>5, <3>1 DEF Allowed
  <2> QED BY <2>4, <2>5
<1>11. ASSUME Open(q), NEW n \in Ids, NEW y \in Says(socket'[n].down, i) PROVE y \in Says(socket[n].down, i) \/ y \in Allowed(q)
  <2>1. socket[n] \in Socket
    BY DEF Inv1, TypeOK
  <2>2. socket[n].down \in Seq(Down)
    BY <2>1, SocketFields
  <2>3. socket'[n].down = <<>> \/ socket'[n].down = socket[n].down \/ socket'[n].down = Append(socket[n].down, x)
    BY <1>1
  <2>4. i \in DOMAIN x => x[i] \in Allowed(q)
    BY <1>10, <1>11
  <2> HIDE DEF i
  <2>5. CASE socket'[n].down = <<>>
    BY <1>11, <2>5, SaysNone
  <2>6. CASE socket'[n].down = socket[n].down
    BY <1>11, <2>6
  <2>7. CASE socket'[n].down = Append(socket[n].down, x)
    <3>1. y \in Says(socket[n].down, i) \/ (i \in DOMAIN x /\ y = x[i])
      BY <1>3, <1>11, <2>2, <2>7, SaysOf
    <3> QED BY <2>4, <3>1
  <2> QED BY <2>3, <2>5, <2>6, <2>7
<1> QED BY <1>4, <1>8, <1>9, <1>11, BoundedOn

\* A page that gets nothing in the step
LEMMA FreshStays ==
    ASSUME Inv1, NEW p \in Pages, Fresh(p), Stays(p), editor'[p].known = editor[p].known, used' \in {used, used + 1},
           Open(p) => (socket'[editor[p].ws].phase = "accepted" => socket[editor[p].ws].phase = "accepted")
    PROVE  Fresh(p)'
<1>1. used \in Nat /\ \A i \in Ids : i > used' => i > used
  BY UsedIds DEF Ids
<1> QED BY <1>1 DEF Fresh, Stays, Open

LEMMA FreshStep ==
    ASSUME Inv1, Inv1', Relaying, [Next]_vars, NEW q \in Pages, Fresh(q)
    PROVE  Fresh(q)'
<1>0. used \in Nat
  BY UsedIds
<1>1. ASSUME NEW p \in Pages, NEW f \in Files, openFile(p, f) PROVE Fresh(q)'
  <2> DEFINE n == used + 1
  <2>1. /\ used' = n /\ Others(p) /\ editor'[p].known = Nobody /\ \A k \in Ids \ {n} : Leaves(p, k, socket'[k])
    BY <1>1, OpenEffect DEF Inv1
  <2>2. CASE q = p
    BY <2>1, <2>2 DEF Fresh, Nobody
  <2>3. CASE q # p
    <3>1. Open(q) => editor[q].ws \in Ids \ {n}
      BY Connection, UsedIds
    <3>2. Open(q) => socket'[editor[q].ws].phase = socket[editor[q].ws].phase
      BY <2>1, <3>1 DEF Leaves, Keeps
    <3> QED BY <2>1, <2>3, <3>2, FreshStays DEF Others, Stays
  <2> QED BY <2>2, <2>3
<1>2. ASSUME NEW p \in Pages, closeTab(p) PROVE Fresh(q)'
  <2>1. Others(p) /\ editor'[p] = NoEditor /\ UNCHANGED used /\ \A k \in Ids : Leaves(p, k, socket'[k])
    BY <1>2, CloseEffect DEF Inv1
  <2>2. CASE q = p
    BY <2>1, <2>2 DEF Fresh, NoEditor, Nobody, Open
  <2>3. CASE q # p
    <3>1. Open(q) => socket'[editor[q].ws].phase = socket[editor[q].ws].phase
      BY <2>1, Connection DEF Leaves, Keeps
    <3> QED BY <2>1, <2>3, <3>1, FreshStays DEF Others, Stays
  <2> QED BY <2>2, <2>3
<1>3. ASSUME NEW p \in Pages, Move(p) PROVE Fresh(q)'
  <2>1. Others(p) /\ Stays(p) /\ editor'[p].known = editor[p].known /\ UNCHANGED used /\ \A k \in Ids : Keeps(socket'[k], socket[k])
    BY <1>3, MoveEffect
  <2>2. Open(q) => socket'[editor[q].ws].phase = socket[editor[q].ws].phase
    BY <2>1, Connection DEF Keeps
  <2>3. Stays(q) /\ editor'[q].known = editor[q].known
    BY <2>1 DEF Others, Stays
  <2> QED BY <2>1, <2>2, <2>3, FreshStays
<1>4. ASSUME NEW p \in Pages, OnMessage(p) PROVE Fresh(q)'
  <2> DEFINE k == editor[p].ws
             m == socket[k].down[1]
  <2>1. /\ Open(p) /\ Others(p) /\ Stays(p) /\ UNCHANGED used /\ socket[k].down # <<>> /\ socket[k].phase = "attached"
        /\ \A i \in Ids : editor'[p].known[i] = IF i \in Newer(editor[p], m) THEN m[i].clock ELSE editor[p].known[i]
        /\ Keeps(socket'[k], socket[k]) /\ \A j \in Ids \ {k} : socket'[j] = socket[j]
    BY <1>4, MessageEffect
  <2>2. k \in Ids
    BY <2>1, Connection
  <2>3. CASE q # p
    <3>1. Open(q) => socket'[editor[q].ws].phase = socket[editor[q].ws].phase
      BY <2>1, <2>2, Connection DEF Keeps
    <3> QED BY <2>1, <2>3, <3>1, FreshStays DEF Others, Stays
  <2>4. CASE q = p
    <3>1. socket[k] \in Socket
      BY <2>2 DEF Inv1, TypeOK
    <3>2. socket[k].down \in Seq(Down)
      BY <3>1, SocketFields
    <3>3. 1 \in 1..Len(socket[k].down)
      BY <2>1, <3>2, Shrink
    <3>4. \A i \in DOMAIN m : i \in 1..used
      BY <2>2, <3>3 DEF Relaying, RelayingAt
    <3>5. \A i \in Ids : i > used => i \notin Newer(editor[p], m)
      BY <1>0, <3>4 DEF Newer
    <3>6. \A i \in Ids : i > used => editor'[p].known[i] = 0
      BY <2>1, <2>4, <3>5 DEF Fresh
    <3>7. editor'[p].ws = k /\ socket'[k].phase = "attached"
      BY <2>1 DEF Stays, Keeps
    <3> QED BY <2>1, <2>4, <3>6, <3>7 DEF Fresh
  <2> QED BY <2>3, <2>4
<1>5. ASSUME NEW p \in Pages, Reconnect(p) PROVE Fresh(q)'
  <2> DEFINE n == used + 1
  <2>1. /\ Open(p) /\ used' = n /\ Others(p) /\ editor'[p].known = editor[p].known /\ editor'[p].ws = n /\ editor'[p].id = editor[p].id
        /\ \A k \in Ids \ {n} : socket'[k] = socket[k]
    BY <1>5, ReconnectEffect
  <2>2. CASE q = p
    <3>1. editor[p].id \in 1..editor[p].ws /\ editor[p].ws \in 1..used
      BY <2>1, Connection
    <3>2. editor'[p].ws # editor'[p].id
      BY <1>0, <2>1, <3>1
    <3>3. \A i \in Ids : i > used' => i > used
      BY <1>0, <2>1 DEF Ids
    <3> QED BY <2>1, <2>2, <3>2, <3>3 DEF Fresh
  <2>3. CASE q # p
    <3>1. Open(q) => editor[q].ws \in Ids \ {n}
      BY Connection, UsedIds
    <3>2. Open(q) => socket'[editor[q].ws].phase = socket[editor[q].ws].phase
      BY <2>1, <3>1
    <3> QED BY <2>1, <2>3, <3>2, FreshStays DEF Others, Stays
  <2> QED BY <2>2, <2>3
<1>6. ASSUME UNCHANGED <<editor, used>>, \A k \in Ids : socket'[k].phase = "accepted" => socket[k].phase = "accepted" PROVE Fresh(q)'
  <2>1. Stays(q) /\ Open(q) => editor[q].ws \in Ids
    BY Connection
  <2> QED BY <1>6, <2>1, FreshStays DEF Stays
<1>7. ASSUME NEW k \in Ids, Break(k) PROVE Fresh(q)'
  BY <1>6, <1>7, BreakEffect DEF Inv1, Breaks
<1>8. ASSUME NEW k \in Ids, Attach(k) PROVE Fresh(q)'
  BY <1>6, <1>8, AttachEffect DEF Inv1
<1>9. ASSUME NEW k \in Ids, Serve(k) PROVE Fresh(q)'
  <2>1. Handling(k) /\ UNCHANGED <<user, editor, used>>
    BY <1>9, ServeCases
  <2>2. \A j \in Ids : socket'[j].phase = "accepted" => socket[j].phase = "accepted"
    <3>1. CASE Announces(Head(socket[k].up)) /\ accept(k, Head(socket[k].up))
      BY <2>1, <3>1, AcceptSockets DEF Keeps
    <3>2. CASE socket' = [socket EXCEPT ![k].up = Tail(@)]
      BY <2>1, <3>2, PresenceEffect DEF Keeps
    <3>3. CASE Disconnect(k)
      BY <2>1, <3>3, DisconnectEffect DEF Keeps
    <3> QED BY <1>9, <3>1, <3>2, <3>3, ServeCases
  <2> QED BY <1>6, <2>1, <2>2
<1>10. CASE UNCHANGED vars
  BY <1>10 DEF vars, Fresh, Open
<1> QED BY <1>1, <1>2, <1>3, <1>4, <1>5, <1>7, <1>8, <1>9, <1>10 DEF Next
-----------------------------------------------------------------------------
(* The third invariant: who sees it *)

LEMMA WatchingOpen ==
    ASSUME Inv1, NEW p \in Pages, NEW q \in Pages, Watching(p, q)
    PROVE  /\ p # q /\ Open(p) /\ Open(q)
           /\ editor[p].ws \in Ids /\ editor[p].ws \in 1..used /\ editor[q].ws \in Ids /\ editor[q].ws \in 1..used
           /\ editor[p].ws # editor[q].ws /\ editor[p].ws # NoSocket /\ editor[q].ws # NoSocket
           /\ editor[q].id \in Ids /\ editor[q].clock \in Nat \ {0} /\ editor[q].id # editor[p].id
<1>1. p # q /\ Open(p) /\ Open(q)
  BY DEF Watching, SameFile, Open
<1> QED BY <1>1, Connection, Apart, IdsApart DEF NoSocket, Ids

\* A page that sees what it saw, of a cursor that is where it was
LEMMA SeeingStays ==
    ASSUME NEW p \in Pages, NEW q \in Pages, Seeing(p, q), Watching(p, q)' => Watching(p, q),
           Watching(p, q)' =>
               /\ editor'[p].ws = editor[p].ws /\ editor'[p].shown = editor[p].shown /\ editor'[p].known = editor[p].known
               /\ editor'[q].id = editor[q].id /\ editor'[q].clock = editor[q].clock
               /\ Says(socket[editor[p].ws].down, editor[q].id) \subseteq Says(socket'[editor[p].ws].down, editor[q].id)
    PROVE  Seeing(p, q)'
<1> SUFFICES ASSUME Watching(p, q)' PROVE Sees(p, q)'
  BY DEF Seeing
<1>1. Sees(p, q)
  BY DEF Seeing
<1> DEFINE c == editor[q].clock
           i == editor[q].id
           k == editor[p].ws
<1>2. /\ editor'[p].ws = k /\ editor'[p].shown = editor[p].shown /\ editor'[p].known = editor[p].known
      /\ editor'[q].id = i /\ editor'[q].clock = c
      /\ Says(socket[k].down, i) \subseteq Says(socket'[k].down, i)
  OBVIOUS
<1>3. editor[p].shown[i] = c \/ (editor[p].known[i] < c /\ At(c) \in Says(socket[k].down, i))
  BY <1>1 DEF Sees
<1> HIDE DEF c, i, k
<1> QED BY <1>2, <1>3 DEF Sees, At

\* The connections of p and q go on, and p gets no less.
LEMMA SeeingOn ==
    ASSUME Inv1, NEW p \in Pages, NEW q \in Pages, Seeing(p, q), Stays(p), Stays(q),
           editor'[p].shown = editor[p].shown, editor'[p].known = editor[p].known, editor'[q].clock = editor[q].clock,
           Open(p) /\ Open(q) =>
               LET k == editor[p].ws  j == editor[q].ws  i == editor[q].id IN
               /\ ~socket'[k].broken /\ socket'[k].phase = "attached" =>
                      /\ ~socket[k].broken /\ socket[k].phase = "attached" /\ socket'[k].file = socket[k].file
                      /\ socket'[k].down = socket[k].down \/ \E x \in Down : socket'[k].down = Append(socket[k].down, x)
               /\ ~socket'[j].broken => ~socket[j].broken
               /\ peers'[i].ws # NoSocket => peers'[i] = peers[i]
    PROVE  Seeing(p, q)'
<1> DEFINE k == editor[p].ws
           j == editor[q].ws
           i == editor[q].id
<1>1. /\ editor'[p].ws = k /\ editor'[p].id = editor[p].id /\ editor'[p].file = editor[p].file
      /\ editor'[q].ws = j /\ editor'[q].id = i /\ editor'[q].file = editor[q].file
  BY DEF Stays
<1> SUFFICES ASSUME Watching(p, q)'
             PROVE  Watching(p, q) /\ Says(socket[k].down, i) \subseteq Says(socket'[k].down, i)
  BY <1>1, SeeingStays
<1>2. SameFile(p, q) /\ Open(p) /\ Open(q)
  BY <1>1 DEF Watching, SameFile, Open
<1>3. k \in Ids /\ j \in Ids /\ j # NoSocket
  BY <1>2, Connection DEF Ids, NoSocket
<1>4. /\ ~socket'[k].broken /\ socket'[k].phase = "attached" /\ socket'[k].file = editor[p].file /\ k = editor[p].id
      /\ ~socket'[j].broken /\ peers'[i] = [clock |-> editor[q].clock, ws |-> j]
  BY <1>1 DEF Watching, Stayed, Here, Known
<1>5. /\ ~socket[k].broken /\ socket[k].phase = "attached" /\ socket'[k].file = socket[k].file
      /\ socket'[k].down = socket[k].down \/ \E x \in Down : socket'[k].down = Append(socket[k].down, x)
  BY <1>2, <1>4
<1>6. ~socket[j].broken /\ peers'[i] = peers[i]
  BY <1>2, <1>3, <1>4
<1>7. Watching(p, q)
  BY <1>2, <1>4, <1>5, <1>6 DEF Watching, Stayed, Here, Known
<1>8. socket[k] \in Socket
  BY <1>3 DEF Inv1, TypeOK
<1>9. socket[k].down \in Seq(Down)
  BY <1>8, SocketFields
<1>10. Says(socket[k].down, i) \subseteq Says(socket'[k].down, i)
  <2>1. CASE socket'[k].down = socket[k].down
    BY <2>1
  <2>2. CASE \E x \in Down : socket'[k].down = Append(socket[k].down, x)
    <3>1. PICK x \in Down : socket'[k].down = Append(socket[k].down, x)
      BY <2>2
    <3> HIDE DEF i, k
    <3> QED BY <1>9, <3>1, SaysOf
  <2> QED BY <1>5, <2>1, <2>2
<1> QED BY <1>7, <1>10

\* A socket that is opened in the step owns no cursor yet.
LEMMA Unowned ==
    ASSUME Inv1, NEW q \in Pages, UNCHANGED peers, editor'[q].ws = used + 1, editor'[q].id \in Ids
    PROVE  ~Known(q)'
<1>1. used \in Nat /\ used + 1 \notin 1..used /\ used + 1 # NoSocket
  BY UsedIds DEF NoSocket
<1>2. Known(q)' => peers[editor'[q].id].ws = used + 1
  BY DEF Known
<1> QED BY <1>1, <1>2 DEF Inv1, Owning

LEMMA OpenSeeing ==
    ASSUME Inv1, Inv1', NEW r \in Pages, NEW f \in Files, openFile(r, f), NEW p \in Pages, NEW q \in Pages, Seeing(p, q)
    PROVE  Seeing(p, q)'
<1> DEFINE n == used + 1
<1>1. /\ n \in Ids /\ Others(r) /\ New(socket'[n], r, f, n)
      /\ \A k \in Ids \ {n} : Leaves(r, k, socket'[k])
      /\ editor'[r].id = n /\ editor'[r].ws = n /\ UNCHANGED peers
  BY OpenEffect DEF Inv1
<1>2. CASE p = r
  <2>1. socket'[n].phase = "accepted" /\ editor'[p].ws = n
    BY <1>1, <1>2 DEF New
  <2> HIDE DEF n
  <2> QED BY <2>1 DEF Seeing, Watching, Stayed, Here
<1>3. CASE q = r
  <2>1. ~Known(q)'
    BY <1>1, <1>3, Unowned
  <2> QED BY <2>1 DEF Seeing, Watching
<1>4. CASE p # r /\ q # r
  <2>1. editor'[p] = editor[p] /\ editor'[q] = editor[q]
    BY <1>1, <1>4 DEF Others
  <2>2. Open(p) => editor[p].ws \in Ids \ {n} /\ editor[p].ws # editor[r].ws
    BY <1>4, Connection, Apart, UsedIds
  <2>3. Open(q) => editor[q].ws \in Ids \ {n} /\ editor[q].ws # editor[r].ws
    BY <1>4, Connection, Apart, UsedIds
  <2>4. Open(p) => socket'[editor[p].ws] = socket[editor[p].ws]
    BY <1>1, <2>2 DEF Leaves
  <2>5. Open(q) => socket'[editor[q].ws] = socket[editor[q].ws]
    BY <1>1, <2>3 DEF Leaves
  <2> QED BY <1>1, <2>1, <2>4, <2>5, SeeingOn DEF Stays
<1> QED BY <1>2, <1>3, <1>4

LEMMA CloseSeeing ==
    ASSUME Inv1, Inv1', NEW r \in Pages, closeTab(r), NEW p \in Pages, NEW q \in Pages, Seeing(p, q)
    PROVE  Seeing(p, q)'
<1>1. Others(r) /\ editor'[r] = NoEditor /\ UNCHANGED peers /\ (\A k \in Ids : Leaves(r, k, socket'[k]))
  BY CloseEffect DEF Inv1
<1>2. CASE p = r \/ q = r
  <2>1. editor'[r].file = NoFile
    BY <1>1 DEF NoEditor
  <2> QED BY <1>2, <2>1 DEF Seeing, Watching, SameFile
<1>3. CASE p # r /\ q # r
  <2>1. editor'[p] = editor[p] /\ editor'[q] = editor[q]
    BY <1>1, <1>3 DEF Others
  <2>2. Open(p) => socket'[editor[p].ws] = socket[editor[p].ws]
    BY <1>1, <1>3, Apart DEF Leaves
  <2>3. Open(q) => socket'[editor[q].ws] = socket[editor[q].ws]
    BY <1>1, <1>3, Apart DEF Leaves
  <2> QED BY <1>1, <2>1, <2>2, <2>3, SeeingOn DEF Stays
<1> QED BY <1>2, <1>3

LEMMA MoveSeeing ==
    ASSUME Inv1, Inv1', NEW r \in Pages, Move(r), Ordered(r), NEW p \in Pages, NEW q \in Pages, Seeing(p, q)
    PROVE  Seeing(p, q)'
<1>1. /\ Open(r) /\ Others(r) /\ Stays(r) /\ editor'[r].clock = editor[r].clock + 1
      /\ editor'[r].shown = editor[r].shown /\ editor'[r].known = editor[r].known /\ UNCHANGED peers
      /\ \A k \in Ids : Keeps(socket'[k], socket[k]) /\ socket'[k].down = socket[k].down
  BY MoveEffect
<1>2. CASE q = r
  <2> DEFINE c == editor[r].clock
             i == editor[r].id
             j == editor[r].ws
  <2>1. c \in Nat /\ i \in Ids /\ j # NoSocket
    BY <1>1, Connection DEF NoSocket
  <2>2. Known(r)' => peers[i] = [clock |-> c + 1, ws |-> j]
    BY <1>1 DEF Known, Stays
  <2>3. peers[i].ws # NoSocket => peers[i].clock <= c
    BY <1>1 DEF Ordered
  <2>4. ~Known(r)'
    BY <2>1, <2>2, <2>3
  <2> QED BY <1>2, <2>4 DEF Seeing, Watching
<1>3. CASE q # r
  <2>1. Stays(p) /\ Stays(q) /\ editor'[q].clock = editor[q].clock /\ editor'[p].shown = editor[p].shown /\ editor'[p].known = editor[p].known
    BY <1>1, <1>3 DEF Others, Stays
  <2>2. Open(p) => editor[p].ws \in Ids
    BY Connection
  <2>3. Open(q) => editor[q].ws \in Ids
    BY Connection
  <2> QED BY <1>1, <2>1, <2>2, <2>3, SeeingOn DEF Keeps
<1> QED BY <1>2, <1>3

LEMMA ReconnectSeeing ==
    ASSUME Inv1, Inv1', NEW r \in Pages, Reconnect(r), NEW p \in Pages, NEW q \in Pages, Seeing(p, q)
    PROVE  Seeing(p, q)'
<1> DEFINE n == used + 1
<1>1. /\ Open(r) /\ n \in Ids /\ Others(r) /\ (\A k \in Ids \ {n} : socket'[k] = socket[k])
      /\ editor'[r].id = editor[r].id /\ editor'[r].ws = n /\ UNCHANGED peers
  BY ReconnectEffect
<1>2. editor[r].id \in 1..editor[r].ws /\ editor[r].ws \in 1..used /\ editor[r].id \in Ids
  BY <1>1, Connection
<1>3. CASE p = r
  <2>1. editor'[p].ws # editor'[p].id
    BY <1>1, <1>2, <1>3, UsedIds
  <2> QED BY <2>1 DEF Seeing, Watching, Stayed
<1>4. CASE q = r
  <2>1. ~Known(q)'
    BY <1>1, <1>2, <1>4, Unowned
  <2> QED BY <2>1 DEF Seeing, Watching
<1>5. CASE p # r /\ q # r
  <2>1. editor'[p] = editor[p] /\ editor'[q] = editor[q]
    BY <1>1, <1>5 DEF Others
  <2>2. Open(p) => editor[p].ws \in Ids \ {n}
    BY Connection, UsedIds
  <2>3. Open(q) => editor[q].ws \in Ids \ {n}
    BY Connection, UsedIds
  <2> QED BY <1>1, <2>1, <2>2, <2>3, SeeingOn DEF Stays
<1> QED BY <1>3, <1>4, <1>5

LEMMA BreakSeeing ==
    ASSUME Inv1, Inv1', NEW k \in Ids, Break(k), NEW p \in Pages, NEW q \in Pages, Seeing(p, q)
    PROVE  Seeing(p, q)'
<1>1. Breaks(socket[k], socket'[k]) /\ (\A j \in Ids \ {k} : socket'[j] = socket[j]) /\ UNCHANGED <<editor, peers>>
  BY BreakEffect DEF Inv1
<1>2. \A j \in Ids : ~socket'[j].broken => socket'[j] = socket[j]
  BY <1>1 DEF Breaks
<1>3. Open(p) => editor[p].ws \in Ids
  BY Connection
<1>4. Open(q) => editor[q].ws \in Ids
  BY Connection
<1> QED BY <1>1, <1>2, <1>3, <1>4, SeeingOn DEF Stays

LEMMA PresenceSeeing ==
    ASSUME Inv1, Inv1', NEW k, Handling(k), socket' = [socket EXCEPT ![k].up = Tail(@)], UNCHANGED <<editor, peers>>,
           NEW p \in Pages, NEW q \in Pages, Seeing(p, q)
    PROVE  Seeing(p, q)'
<1>1. \A j \in Ids : Keeps(socket'[j], socket[j]) /\ socket'[j].down = socket[j].down
  BY PresenceEffect DEF Keeps
<1>2. Open(p) => editor[p].ws \in Ids
  BY Connection
<1>3. Open(q) => editor[q].ws \in Ids
  BY Connection
<1> QED BY <1>1, <1>2, <1>3, SeeingOn DEF Stays, Keeps

LEMMA DisconnectSeeing ==
    ASSUME Inv1, Inv1', NEW k, Handling(k), Head(socket[k].up).op = "disconnect", Disconnect(k), UNCHANGED <<editor, used>>,
           NEW p \in Pages, NEW q \in Pages, Seeing(p, q)
    PROVE  Seeing(p, q)'
<1> DEFINE x == drop(k)
<1>0. \A n \in Ids \ {k} :
         /\ Keeps(socket'[n], socket[n])
         /\ socket'[n].down = IF DOMAIN x # {} /\ Listens(n, k) THEN Append(socket[n].down, x) ELSE socket[n].down
  BY DisconnectEffect
<1>1. /\ socket'[k].phase = "gone" /\ socket'[k].broken = socket[k].broken
      /\ \A i \in Ids : peers'[i] = IF peers[i].ws = k THEN NoPeer ELSE peers[i]
  BY DisconnectEffect
<1>2. k \in Ids
  BY Handled DEF Handling
<1>3. x \in Down
  BY <1>2, DropType DEF Inv1
<1> HIDE DEF x
<1>4. \A n \in Ids : socket'[n].phase = "attached" =>
         /\ socket[n].phase = "attached" /\ socket'[n].file = socket[n].file
         /\ socket'[n].down = socket[n].down \/ \E y \in Down : socket'[n].down = Append(socket[n].down, y)
  BY <1>0, <1>1, <1>2, <1>3 DEF Keeps
<1>5. \A n \in Ids : socket'[n].broken = socket[n].broken
  BY <1>0, <1>1 DEF Keeps
<1>6. \A i \in Ids : peers'[i].ws # NoSocket => peers'[i] = peers[i]
  BY <1>1 DEF NoPeer
<1>7. Open(p) => editor[p].ws \in Ids
  BY Connection
<1>8. Open(q) => editor[q].ws \in Ids /\ editor[q].id \in Ids
  BY Connection
<1> QED BY <1>4, <1>5, <1>6, <1>7, <1>8, SeeingOn DEF Stays

\* A page whose connection is new and brings what the server has
LEMMA AttachSeeing ==
    ASSUME Inv1, Inv1', NEW k \in Ids, Attach(k), NEW p \in Pages, NEW q \in Pages, Fresh(p), Seeing(p, q)
    PROVE  Seeing(p, q)'
<1> DEFINE x == snapshot(k)
           i == editor[q].id
           c == editor[q].clock
           j == editor[q].ws
<1>1. /\ socket[k].phase = "accepted" /\ socket'[k].file = socket[k].file /\ socket'[k].broken = socket[k].broken
      /\ socket'[k].down = IF socket[k].broken THEN socket[k].down ELSE Append(socket[k].down, x)
      /\ (\A n \in Ids \ {k} : socket'[n] = socket[n]) /\ UNCHANGED <<editor, peers, used>>
  BY AttachEffect DEF Inv1
<1>2. /\ x \in Down
      /\ \A n \in Ids : n \in DOMAIN x <=> peers[n].ws \notin {NoSocket, k} /\ socket[n].file = socket[k].file
      /\ \A n \in DOMAIN x : n \in Ids /\ x[n] = Cursor(peers[n].clock, TRUE)
  BY SnapshotType DEF Inv1
<1> HIDE DEF x
<1>3. Open(p) => editor[p].ws \in Ids
  BY Connection
<1>4. Open(q) => j \in Ids
  BY Connection
<1>5. CASE editor[p].ws # k
  <2>1. Open(p) => socket'[editor[p].ws] = socket[editor[p].ws]
    BY <1>1, <1>3, <1>5
  <2>2. Open(q) => socket'[j].broken = socket[j].broken
    BY <1>1, <1>4
  <2> QED BY <1>1, <2>1, <2>2, SeeingOn DEF Stays
<1>6. CASE editor[p].ws = k
  <2> SUFFICES ASSUME Watching(p, q)' PROVE Sees(p, q)'
    BY DEF Seeing
  <2>1. /\ SameFile(p, q) /\ Open(p) /\ Open(q) /\ k = editor[p].id /\ ~socket[k].broken
        /\ peers[i] = [clock |-> c, ws |-> j]
    BY <1>1, <1>6 DEF Watching, SameFile, Stayed, Open, Known
  <2>2. editor[p].known = Nobody
    BY <1>1, <1>6, <2>1 DEF Fresh
  <2>3. i \in Ids /\ c \in Nat \ {0} /\ j \in Ids /\ j # NoSocket /\ j # k
    BY <1>6, <2>1, Connection, Apart DEF SameFile, NoSocket, Ids
  <2>4. socket[k].file = editor[p].file
    BY <1>6, <2>1, Connection DEF Of
  <2>5. socket[j].file = editor[q].file
    BY <2>1, Connection DEF Of
  <2>6. socket[i].file = socket[j].file
    <3>1. peers[i].ws = j
      BY <2>1
    <3> QED BY <2>3, <3>1, Owner
  <2>7. socket[i].file = socket[k].file
    BY <2>1, <2>4, <2>5, <2>6 DEF SameFile
  <2>8. i \in DOMAIN x /\ x[i] = At(c)
    <3>1. peers[i].ws = j /\ peers[i].clock = c
      BY <2>1
    <3>2. i \in DOMAIN x
      BY <1>2, <2>3, <2>7, <3>1
    <3> QED BY <1>2, <3>1, <3>2 DEF At
  <2>9. socket[k] \in Socket
    BY DEF Inv1, TypeOK
  <2>10. socket[k].down \in Seq(Down)
    BY <2>9, SocketFields
  <2>11. At(c) \in Says(socket'[k].down, i)
    <3>1. socket'[k].down = Append(socket[k].down, x)
      BY <1>1, <2>1
    <3> HIDE DEF i, c
    <3> QED BY <1>2, <2>8, <2>10, <3>1, SaysOf
  <2>12. editor[p].known[i] < c
    BY <2>2, <2>3 DEF Nobody
  <2>13. editor'[p] = editor[p] /\ editor'[q] = editor[q]
    BY <1>1
  <2> QED BY <1>6, <2>11, <2>12, <2>13 DEF Sees, At
<1> QED BY <1>5, <1>6

\* What is relayed to a page says where the cursor is now.
LEMMA AcceptSeeing ==
    ASSUME Inv1, Inv1', NEW k, Handling(k), Announces(Head(socket[k].up)), accept(k, Head(socket[k].up)), UNCHANGED <<editor, used>>,
           NEW p \in Pages, NEW q \in Pages, Bounded(q), Seeing(p, q)
    PROVE  Seeing(p, q)'
<1> DEFINE m == socket[k].up[1]
           o == socket[k].id
           x == News(k)
           i == editor[q].id
           c == editor[q].clock
           j == editor[q].ws
           w == editor[p].ws
<1>0. /\ \A n \in Ids : Keeps(socket'[n], socket[n])
      /\ \A n \in Ids : socket'[n].down = socket[n].down \/ socket'[n].down = Append(socket[n].down, x)
  BY AcceptSockets
<1>1. \A n \in Ids : Taken(k, m) /\ n # k /\ Listens(n, k) => socket'[n].down = Append(socket[n].down, x)
  BY AcceptSockets
<1>2. Announces(m) /\ m \in Up /\ m.clock \in Nat /\ m.on \in BOOLEAN /\ (\A n \in Ids \ {o} : peers'[n] = peers[n])
      /\ (~Taken(k, m) => peers'[o] = peers[o])
  BY AcceptPeers
<1>3. Taken(k, m) => peers'[o] = IF m.on THEN [clock |-> m.clock, ws |-> k] ELSE NoPeer
  BY AcceptPeers
<1>4. k \in Ids /\ o \in Ids /\ socket[k].up \in Seq(Up) /\ socket[k].up # <<>> /\ k # NoSocket
  BY Handled DEF Handling
<1>5. x \in Down /\ DOMAIN x = {o} /\ x[o] = Cursor(m.clock, m.on)
  <2>1. x = About(o, Cursor(m.clock, m.on))
    BY DEF News
  <2> HIDE DEF o, m, x
  <2> QED BY <1>2, <1>4, <2>1, AboutIs
<1> HIDE DEF x
<1>6. Open(p) => w \in Ids
  BY Connection
<1>7. Open(q) => j \in Ids /\ i \in Ids
  BY Connection
<1>8. CASE o # i \/ ~Taken(k, m)
  <2>1. Open(q) => peers'[i] = peers[i]
    BY <1>2, <1>7, <1>8
  <2>2. Open(p) => /\ Keeps(socket'[w], socket[w])
                   /\ socket'[w].down = socket[w].down \/ \E y \in Down : socket'[w].down = Append(socket[w].down, y)
    BY <1>0, <1>5, <1>6
  <2>3. Open(q) => Keeps(socket'[j], socket[j])
    BY <1>0, <1>7
  <2> QED BY <2>1, <2>2, <2>3, SeeingOn DEF Stays, Keeps
<1>9. CASE o = i /\ Taken(k, m)
  <2> SUFFICES ASSUME Watching(p, q)' PROVE Sees(p, q)'
    BY DEF Seeing
  <2>1. /\ SameFile(p, q) /\ Open(p) /\ Open(q) /\ w = editor[p].id
        /\ peers'[i] = [clock |-> c, ws |-> j] /\ ~socket'[j].broken
        /\ socket'[w].phase = "attached" /\ ~socket'[w].broken
    BY DEF Watching, SameFile, Stayed, Here, Open, Known
  <2>2. /\ w \in Ids /\ j \in Ids /\ i \in Ids /\ c \in Nat /\ j # NoSocket /\ w # j
        /\ socket[w].file = editor[p].file /\ socket[j].file = editor[q].file
    BY <2>1, Connection, Apart DEF SameFile, Of, NoSocket, Ids
  <2>3. socket[w].phase = "attached" /\ ~socket[w].broken /\ ~socket[j].broken
    BY <1>0, <2>1, <2>2 DEF Keeps
  <2>4. m.on /\ m.clock = c /\ k = j
    <3>1. peers'[i] = IF m.on THEN [clock |-> m.clock, ws |-> k] ELSE NoPeer
      BY <1>3, <1>9
    <3>2. peers'[i].ws = j /\ peers'[i].clock = c
      BY <2>1
    <3>3. m.on
      BY <2>2, <3>1, <3>2 DEF NoPeer
    <3> QED BY <3>1, <3>2, <3>3
  <2>5. m = Now(c)
    <3>1. m = Announce(m.clock, m.on)
      BY <1>2, Messages
    <3> HIDE DEF m, c
    <3>2. m.on = TRUE
      BY <1>2, <2>4
    <3> QED BY <2>4, <3>1, <3>2 DEF Now
  <2>6. Pending(q)
    <3>1. 1 \in 1..Len(socket[k].up)
      BY <1>4, Shrink
    <3>2. Waits(socket[k].up, c)
      BY <2>5, <3>1 DEF Waits
    <3> QED BY <2>4, <3>2 DEF Pending
  <2>7. editor[p].known[i] < c
    <3>1. At(editor[p].known[i]) \in Allowed(q)
      BY <2>1 DEF Bounded
    <3>2. editor[p].known[i] \in Nat
      <4>1. editor[p] \in Page
        BY DEF Inv1, TypeOK
      <4>2. editor[p].known \in [Ids -> Nat]
        BY <4>1, PageFields
      <4> QED BY <2>2, <4>2
    <3>3. At(editor[p].known[i]).clock = editor[p].known[i]
      BY <3>2, AtIs
    <3> QED BY <2>3, <2>6, <3>1, <3>3 DEF Allowed
  <2>8. Listens(w, k) /\ w # k
    BY <2>1, <2>2, <2>3, <2>4 DEF Listens, SameFile
  <2>9. socket'[w].down = Append(socket[w].down, x)
    BY <1>1, <1>9, <2>2, <2>8
  <2>10. i \in DOMAIN x /\ x[i] = At(c)
    <3>1. m.on = TRUE
      BY <1>2, <2>4
    <3>2. DOMAIN x = {i} /\ x[i] = Cursor(m.clock, m.on)
      BY <1>5, <1>9
    <3> HIDE DEF m, c, i
    <3> QED BY <2>4, <3>1, <3>2 DEF At
  <2>11. socket[w] \in Socket
    BY <2>2 DEF Inv1, TypeOK
  <2>12. socket[w].down \in Seq(Down)
    BY <2>11, SocketFields
  <2>13. At(c) \in Says(socket'[w].down, i)
    <3> HIDE DEF i, c, w
    <3> QED BY <1>5, <2>9, <2>10, <2>12, SaysOf
  <2>14. editor'[p] = editor[p] /\ editor'[q] = editor[q]
    OBVIOUS
  <2> QED BY <2>7, <2>13, <2>14 DEF Sees, At
<1> QED BY <1>8, <1>9

\* What a page receives ends no cursor that is there.
LEMMA MessageSeeing ==
    ASSUME Inv1, Inv1', NEW r \in Pages, OnMessage(r), Showing, NEW p \in Pages, NEW q \in Pages, Bounded(q), Seeing(p, q)
    PROVE  Seeing(p, q)'
<1> DEFINE k == editor[r].ws
           d == socket[k].down
           m == d[1]
           i == editor[q].id
           c == editor[q].clock
<1>1. /\ Open(r) /\ Others(r) /\ Stays(r) /\ editor'[r].clock = editor[r].clock /\ UNCHANGED peers
      /\ d # <<>> /\ Keeps(socket'[k], socket[k]) /\ socket'[k].down = Tail(d)
      /\ \A j \in Ids \ {k} : socket'[j] = socket[j]
  BY MessageEffect
<1>2. \A n \in Ids :
         /\ editor'[r].known[n] = IF n \in Newer(editor[r], m) THEN m[n].clock ELSE editor[r].known[n]
         /\ editor'[r].shown[n] = IF n \in Newer(editor[r], m) THEN IF m[n].on THEN m[n].clock ELSE 0 ELSE editor[r].shown[n]
  BY MessageEffect
<1>3. k \in Ids
  BY <1>1, Connection
<1>4. Stays(p) /\ Stays(q) /\ editor'[q].clock = c
  BY <1>1 DEF Others, Stays
<1>5. \A j \in Ids : Keeps(socket'[j], socket[j])
  BY <1>1 DEF Keeps
<1>6. CASE p # r
  <2>1. Open(p) => editor[p].ws \in Ids /\ editor[p].ws # k
    BY <1>6, Connection, Apart
  <2>2. Open(p) => socket'[editor[p].ws] = socket[editor[p].ws]
    BY <1>1, <2>1
  <2>3. Open(q) => editor[q].ws \in Ids
    BY Connection
  <2>4. Open(q) => socket'[editor[q].ws].broken = socket[editor[q].ws].broken
    BY <1>5, <2>3 DEF Keeps
  <2>5. editor'[p] = editor[p]
    BY <1>1, <1>6 DEF Others
  <2> QED BY <1>1, <1>4, <2>2, <2>4, <2>5, SeeingOn
<1>7. CASE p = r
  <2> SUFFICES ASSUME Watching(p, q)' PROVE Sees(p, q)'
    BY DEF Seeing
  <2>1. editor'[p].ws = k /\ editor'[q].id = i /\ editor'[q].clock = c
    BY <1>4, <1>7 DEF Stays
  <2>2. Watching(p, q)
    <3>1. SameFile(p, q) /\ Open(q)
      BY <1>4 DEF Watching, SameFile, Stays, Open
    <3>2. editor[q].ws \in Ids /\ editor'[q].ws = editor[q].ws
      BY <1>4, <3>1, Connection DEF Stays
    <3>3. ~socket[editor[q].ws].broken /\ Known(q)
      BY <1>1, <1>5, <2>1, <3>2 DEF Watching, Known, Keeps
    <3>4. Stayed(p)
      BY <1>1, <1>4, <1>5, <1>3, <1>7 DEF Watching, Stayed, Here, Keeps, Stays, Open
    <3> QED BY <3>1, <3>3, <3>4 DEF Watching
  <2>3. Open(q) /\ i \in Ids /\ c \in Nat \ {0} /\ i # editor[p].id /\ ~socket[editor[q].ws].broken
    BY <2>2, WatchingOpen DEF Watching
  <2> DEFINE kn == editor[p].known[i]
             sh == editor[p].shown[i]
             new == i \in Newer(editor[p], m)
  <2>4. kn \in Nat
    <3>1. editor[p] \in Page
      BY DEF Inv1, TypeOK
    <3>2. editor[p].known \in [Ids -> Nat]
      BY <3>1, PageFields
    <3> QED BY <2>3, <3>2
  <2>5. socket[k] \in Socket
    BY <1>3 DEF Inv1, TypeOK
  <2>6. d \in Seq(Down)
    BY <2>5, SocketFields
  <2>7. ASSUME i \in DOMAIN m PROVE m[i].clock \in Nat /\ (m[i].clock < c \/ (m[i].clock = c /\ m[i].on))
    <3>1. m[i] \in Says(d, i)
      BY <1>1, <2>6, <2>7, SaysOf
    <3>2. m[i] \in Allowed(q)
      BY <1>3, <2>3, <3>1 DEF Bounded
    <3> QED BY <2>3, <3>2 DEF Allowed, Cursors
  <2>8. /\ new => i \in DOMAIN m
        /\ i \in DOMAIN m => (new <=> \/ kn < m[i].clock
                                      \/ kn = m[i].clock /\ ~m[i].on /\ sh # 0)
    BY <2>3 DEF Newer
  <2>9. new => editor'[p].known[i] = m[i].clock /\ (m[i].on => editor'[p].shown[i] = m[i].clock)
    BY <1>2, <1>7, <2>3
  <2>10. ~new => editor'[p].known[i] = kn /\ editor'[p].shown[i] = sh
    BY <1>2, <1>7, <2>3
  <2>11. CASE sh = c
    <3>1. kn = c
      BY <2>3, <2>11 DEF Showing, ShowingAt
    <3> HIDE DEF m, new, kn, sh, c
    <3>2. ~new
      BY <2>3, <2>7, <2>8, <3>1
    <3>3. editor'[p].shown[i] = c
      BY <2>10, <2>11, <3>2
    <3> QED BY <2>1, <3>3 DEF Sees
  <2>12. CASE kn < c /\ At(c) \in Says(d, i)
    <3>1. At(c) \in Says(Tail(d), i) \/ (i \in DOMAIN m /\ m[i] = At(c))
      <4> HIDE DEF i, c
      <4> QED BY <1>1, <2>6, <2>12, SaysOf
    <3>2. At(c).clock = c /\ At(c).on
      BY <2>3, AtIs
    <3>3. CASE i \in DOMAIN m /\ m[i] = At(c)
      <4>1. m[i].clock = c /\ m[i].on
        BY <3>2, <3>3
      <4> HIDE DEF m, new, kn, sh, c
      <4>2. new
        BY <2>8, <2>12, <3>3, <4>1
      <4>3. editor'[p].shown[i] = c
        BY <2>9, <4>1, <4>2
      <4> QED BY <2>1, <4>3 DEF Sees
    <3>4. CASE At(c) \in Says(Tail(d), i)
      <4>1. editor'[p].shown[i] = c \/ editor'[p].known[i] < c
        <5> HIDE DEF m, new, kn, sh, c
        <5>1. CASE new
          BY <2>7, <2>8, <2>9, <5>1
        <5>2. CASE ~new
          BY <2>10, <2>12, <5>2
        <5> QED BY <5>1, <5>2
      <4>2. At(c) \in Says(socket'[k].down, i)
        BY <1>1, <3>4
      <4> HIDE DEF c, i, k
      <4> QED BY <2>1, <4>1, <4>2 DEF Sees, At
    <3> QED BY <3>1, <3>3, <3>4
  <2>13. sh = c \/ (kn < c /\ At(c) \in Says(d, i))
    BY <1>7, <2>2 DEF Seeing, Sees
  <2> QED BY <2>11, <2>12, <2>13
<1> QED BY <1>6, <1>7
-----------------------------------------------------------------------------
(* The third invariant, and the cursors that are seen *)

LEMMA InitInv3 == Init => Inv3
<1> SUFFICES ASSUME Init, NEW p \in Pages, NEW q \in Pages PROVE Bounded(p) /\ Fresh(p) /\ Seeing(p, q)
  BY DEF Inv3
<1>1. editor[p] = NoEditor
  BY DEF Init
<1>2. ~Open(p) /\ editor[p].known = Nobody /\ editor[p].file = NoFile
  BY <1>1 DEF Open, NoEditor
<1> QED BY <1>2 DEF Bounded, Fresh, Seeing, Watching, SameFile, Nobody

LEMMA Inv3Stutter == Inv3 /\ UNCHANGED vars => Inv3'
<1> SUFFICES ASSUME Inv3, UNCHANGED vars PROVE Inv3'
  OBVIOUS
<1> USE DEF vars
<1>1. ASSUME NEW p \in Pages, Bounded(p) PROVE Bounded(p)'
  BY <1>1 DEF Bounded, Allowed, Pending, Open
<1>2. ASSUME NEW p \in Pages, Fresh(p) PROVE Fresh(p)'
  BY <1>2 DEF Fresh, Open
<1>3. ASSUME NEW p \in Pages, NEW q \in Pages, Seeing(p, q) PROVE Seeing(p, q)'
  BY <1>3 DEF Seeing, Watching, Sees, SameFile, Stayed, Here, Known, Open
<1> QED BY <1>1, <1>2, <1>3 DEF Inv3

LEMMA BoundedStep ==
    ASSUME Inv1, Inv1', Inv2, Inv3, Next, NEW q \in Pages
    PROVE  Bounded(q)'
<1>0. Bounded(q) /\ Ordered(q) /\ Relaying /\ \A r \in Pages : Fresh(r)
  BY DEF Inv2, Inv3, Clocks
<1>1. ASSUME NEW p \in Pages, NEW f \in Files, openFile(p, f) PROVE Bounded(q)'
  BY <1>0, <1>1, OpenBounded
<1>2. ASSUME NEW p \in Pages, closeTab(p) PROVE Bounded(q)'
  BY <1>0, <1>2, CloseBounded
<1>3. ASSUME NEW p \in Pages, Move(p) PROVE Bounded(q)'
  BY <1>0, <1>3, MoveBounded
<1>4. ASSUME NEW p \in Pages, OnMessage(p) PROVE Bounded(q)'
  BY <1>0, <1>4, MessageBounded
<1>5. ASSUME NEW p \in Pages, Reconnect(p) PROVE Bounded(q)'
  BY <1>0, <1>5, ReconnectBounded
<1>6. ASSUME NEW k \in Ids, Break(k) PROVE Bounded(q)'
  BY <1>0, <1>6, BreakBounded
<1>7. ASSUME NEW k \in Ids, Attach(k) PROVE Bounded(q)'
  BY <1>0, <1>7, AttachBounded
<1>8. ASSUME NEW k \in Ids, Serve(k) PROVE Bounded(q)'
  <2>1. Handling(k) /\ UNCHANGED <<user, editor, used>>
    BY <1>8, ServeCases
  <2>2. CASE Announces(Head(socket[k].up)) /\ accept(k, Head(socket[k].up))
    BY <1>0, <2>1, <2>2, AcceptBounded
  <2>3. CASE socket' = [socket EXCEPT ![k].up = Tail(@)]
    BY <1>0, <2>1, <2>3, PresenceBounded
  <2>4. CASE Head(socket[k].up).op = "disconnect" /\ Disconnect(k)
    BY <1>0, <2>1, <2>4, DisconnectBounded
  <2> QED BY <1>8, <2>2, <2>3, <2>4, ServeCases
<1> QED BY <1>1, <1>2, <1>3, <1>4, <1>5, <1>6, <1>7, <1>8 DEF Next

LEMMA SeeingStep ==
    ASSUME Inv1, Inv1', Inv2, Inv3, Next, NEW p \in Pages, NEW q \in Pages
    PROVE  Seeing(p, q)'
<1>0. Bounded(q) /\ Fresh(p) /\ Seeing(p, q) /\ Showing /\ \A r \in Pages : Ordered(r)
  BY DEF Inv2, Inv3, Clocks
<1>1. ASSUME NEW r \in Pages, NEW f \in Files, openFile(r, f) PROVE Seeing(p, q)'
  BY <1>0, <1>1, OpenSeeing
<1>2. ASSUME NEW r \in Pages, closeTab(r) PROVE Seeing(p, q)'
  BY <1>0, <1>2, CloseSeeing
<1>3. ASSUME NEW r \in Pages, Move(r) PROVE Seeing(p, q)'
  BY <1>0, <1>3, MoveSeeing
<1>4. ASSUME NEW r \in Pages, OnMessage(r) PROVE Seeing(p, q)'
  BY <1>0, <1>4, MessageSeeing
<1>5. ASSUME NEW r \in Pages, Reconnect(r) PROVE Seeing(p, q)'
  BY <1>0, <1>5, ReconnectSeeing
<1>6. ASSUME NEW k \in Ids, Break(k) PROVE Seeing(p, q)'
  BY <1>0, <1>6, BreakSeeing
<1>7. ASSUME NEW k \in Ids, Attach(k) PROVE Seeing(p, q)'
  BY <1>0, <1>7, AttachSeeing
<1>8. ASSUME NEW k \in Ids, Serve(k) PROVE Seeing(p, q)'
  <2>1. Handling(k) /\ UNCHANGED <<user, editor, used>>
    BY <1>8, ServeCases
  <2>2. CASE Announces(Head(socket[k].up)) /\ accept(k, Head(socket[k].up))
    BY <1>0, <2>1, <2>2, AcceptSeeing
  <2>3. CASE socket' = [socket EXCEPT ![k].up = Tail(@)] /\ UNCHANGED peers
    BY <1>0, <2>1, <2>3, PresenceSeeing
  <2>4. CASE Head(socket[k].up).op = "disconnect" /\ Disconnect(k)
    BY <1>0, <2>1, <2>4, DisconnectSeeing
  <2> QED BY <1>8, <2>2, <2>3, <2>4, ServeCases
<1> QED BY <1>1, <1>2, <1>3, <1>4, <1>5, <1>6, <1>7, <1>8 DEF Next

LEMMA Inv3Step == Inv1 /\ Inv2 /\ Inv3 /\ [Next]_vars => Inv3'
<1> SUFFICES ASSUME Inv1, Inv2, Inv3, [Next]_vars PROVE Inv3'
  OBVIOUS
<1>1. Inv1'
  BY Inv1Step
<1>2. CASE UNCHANGED vars
  BY <1>2, Inv3Stutter
<1>3. CASE Next
  <2>1. \A p \in Pages : Bounded(p)'
    BY <1>1, <1>3, BoundedStep
  <2>2. \A p \in Pages : Fresh(p)'
    BY <1>1, FreshStep DEF Inv2, Inv3
  <2>3. \A p \in Pages : \A q \in Pages : Seeing(p, q)'
    BY <1>1, <1>3, SeeingStep
  <2> QED BY <2>1, <2>2, <2>3 DEF Inv3
<1> QED BY <1>2, <1>3

LEMMA Inv3Holds == Spec => []Inv3
  BY InitInv3, Inv3Step, Inv1Holds, Inv2Holds, PTL DEF Spec

LEMMA SeenFromInv3 == Inv1 /\ Inv2 /\ Inv3 => CursorsAreSeen
<1> SUFFICES ASSUME Inv1, Inv2, Inv3, Settled, NEW p \in Pages, NEW q \in Pages, SameFile(p, q), editor[p].ws = editor[p].id
             PROVE  editor[p].shown[editor[q].id] # 0
  BY DEF CursorsAreSeen
<1> DEFINE k == editor[p].ws
           i == editor[q].id
<1>1. Open(p) /\ Open(q)
  BY DEF SameFile, Open
<1>2. k \in Ids /\ socket[k].file = editor[p].file /\ editor[q].clock # 0
  BY <1>1, Connection DEF Of
<1>3. ~socket[k].broken /\ Known(q) /\ ~socket[editor[q].ws].broken
  BY <1>1, SettledKnown
<1>4. socket[k].phase = "attached"
  <2>1. Served(k)
    BY <1>1, <1>3 DEF Inv1, Editing, EditingAt
  <2> QED BY <1>2, <2>1 DEF Served, Settled
<1>5. Watching(p, q)
  BY <1>1, <1>2, <1>3, <1>4 DEF Watching, Stayed, Here
<1>6. Says(socket[k].down, i) = {}
  <2>1. socket[k].down = <<>>
    BY <1>2 DEF Settled
  <2> QED BY <2>1, SaysNone
<1>7. Sees(p, q)
  BY <1>5 DEF Inv3, Seeing
<1>8. editor[p].shown[i] = editor[q].clock
  BY <1>6, <1>7 DEF Sees
<1> QED BY <1>2, <1>8

\* An editor whose connection never broke sees the cursors of the file's other editors, those that were
\* there before and those that lost their connection and came back two ticks ahead (CursorsAreSeen, of
\* the run presence).
THEOREM CursorsSeenHold == Spec => []CursorsAreSeen
  BY SeenFromInv3, Inv1Holds, Inv2Holds, Inv3Holds, PTL
=============================================================================
