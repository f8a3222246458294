-------------------------- MODULE DebugSessionProofs --------------------------
(***************************************************************************)
(* What holds of a debug session for any number of stops, commands,        *)
(* changes of the breakpoints and failures.                                *)
(***************************************************************************)
EXTENDS DebugSession, FiniteSetTheorems, TLAPS

(***************************************************************************)
(* The inductive invariant                                                 *)
(***************************************************************************)

Launching == {"subscribe", "start", "initialize", "breakpoints"}
Looping   == {"loop", "handle", "stack", "save", "resumed"}
Over      == {"unsave", "stopped", "clear", "record", "clearAgain", "done"}

\* What the worker has in its hands where it is
Control ==
    /\ pc \in Launching => program = "off" /\ adapterLines = 0
    /\ pc \in {"subscribe", "start"} => adapter = "off"
    /\ pc \in {"initialize", "breakpoints"} => adapter = "up"
    /\ pc \in Launching \union {"started"} => ~paused /\ details = 0
    /\ pc \in Launching \union {"started", "loop"} => batch = <<>>
    /\ pc \in {"handle", "stack", "save", "resumed"} => batch # <<>>
    /\ pc \in {"stack", "save"} => batch[1].name = "stopped" /\ paused
    /\ pc = "resumed" => batch[1].name = "continued" /\ ~paused /\ details = 0
    /\ pc \in Over => details = 0
    /\ program = "off" => events = <<>>
    /\ program = "killed" => adapter = "down"
    /\ details = 0 <=> detailsPc = "none"
    /\ details # 0 => paused

\* One round of the loop receives at most one message of a kind.
OneOfAKind == \A i, j \in DOMAIN batch : batch[i].kind = batch[j].kind => i = j

\* The last x of T in s is not followed by another one of T.
LastOf(s, T, x) == \E i \in DOMAIN s : s[i] = x /\ \A j \in DOMAIN s : j > i => s[j] \notin T
NoneOf(s, T) == \A i \in DOMAIN s : s[i] \notin T

InBatch(name) == \E i \in DOMAIN batch : batch[i].name = name

ExitedSent == \E i \in DOMAIN events : events[i] = "exited"
StopSent == \E i \in DOMAIN commands : commands[i].name = "stop"

\* Nobody claims an outcome that has not happened.
Outcome ==
    /\ OutcomeIsTrue
    /\ exitCode # NoCode => program = "ended" /\ exitCode = code
    /\ InBatch("exited") \/ ExitedSent => program = "ended"
    /\ (cancel \/ InBatch("cancel") \/ InBatch("stop") \/ StopSent \/ reason \in {"stopped", "cancelled"}) => asked

\* Every write that should have cleared the state and did not cost a failure.
Cleared ==
    /\ pc \in {"stopped", "clear"} /\ stored # NotPaused => faults >= 1
    /\ pc \in {"record", "clearAgain"} /\ stored # NotPaused => faults >= 2
    /\ pc = "done" /\ stored # NotPaused => faults >= 3

\* A frame the panel may ask for: of the place it shows, or of one that is left
FrameOK(c) ==
    c.name = "frame" =>
        /\ c.arg <= place
        /\ c.arg = place /\ program = "stopped" /\ ~lost => view.paused \in {place, NotPaused}

\* What the panel shows, and the frames in flight
Frames ==
    /\ view.paused \in (0..place) \union {NotPaused}
    /\ pc \in Looping /\ ~lost => view.session = This
    /\ pc \in {"clear", "record", "clearAgain", "done"} /\ ~lost => view.session = NoOne
    /\ details # 0 => details = place /\ program \in {"stopped", "killed"}
    /\ details # 0 /\ ~lost => view.paused \in {details, NotPaused}
    /\ pc = "save" => batch[1].arg \in {0, place}
    /\ pc = "save" /\ batch[1].arg # 0 => program \in {"stopped", "killed"}
    /\ pc = "save" /\ ~lost => view.paused = batch[1].arg
    /\ \A i \in DOMAIN commands : FrameOK(commands[i])
    /\ \A i \in DOMAIN batch : FrameOK(batch[i])
    /\ FrameMatchesPause

Turns == {"stopped", "continued"}

\* The last turn that is not handled yet tells whether the program is stopped.
TurnsTell ==
    \/ LastOf(events, Turns, "stopped") /\ program = "stopped"
    \/ LastOf(events, Turns, "continued") /\ program # "stopped"
    \/ NoneOf(events, Turns) /\ InBatch("stopped") /\ program = "stopped"
    \/ NoneOf(events, Turns) /\ InBatch("continued") /\ program # "stopped"
    \/ /\ NoneOf(events, Turns) /\ ~InBatch("stopped") /\ ~InBatch("continued")
       /\ paused <=> program = "stopped"

\* No turn is left to be published.
Quiet == /\ NoneOf(events, Turns)
         /\ pc = "save" \/ (~InBatch("stopped") /\ ~InBatch("continued"))

Pausing ==
    /\ adapter = "up" => TurnsTell
    /\ ~paused /\ ~lost => view.paused = NotPaused
    /\ ~paused /\ ~lost /\ pc # "resumed" => stored = NotPaused
    /\ Quiet /\ paused /\ ~lost /\ program = "stopped" =>
          /\ pc \in Looping \ {"stack"} => view.paused = place
          /\ pc \in Looping \ {"stack", "save"} => stored = place

SetLines == {c \in Command : c.name = "setBreakpoints"}
LinesCommand(n) == [name |-> "setBreakpoints", arg |-> n]

BatchLines(n) == \E i \in DOMAIN batch : batch[i].name = "setBreakpoints" /\ batch[i].arg = n

\* Change k is the last one announced: it is on its way, or with the adapter.
LinesTell(k) ==
    \/ LastOf(commands, SetLines, LinesCommand(k))
    \/ NoneOf(commands, SetLines) /\ BatchLines(k)
    \/ NoneOf(commands, SetLines) /\ ~InBatch("setBreakpoints") /\ adapterLines = k

\* What a PUT knows that no other one crosses: which rows there are
Alone ==
    /\ \A m, n \in InProgress : m = n
    /\ \A n \in Changes : put[n] = "replace" => seen[n] = lines
    /\ \A n \in Changes : put[n] \in {"refresh", "announce"} => lines = {n}

\* The rows are those of the last change announced.
TableTold == \E k \in Nat : lines = {k} /\ LinesTell(k)

Lines ==
    /\ known = 0
    /\ pc = "subscribe" => ~listening /\ commands = <<>>
    /\ pc # "subscribe" /\ InSession => listening
    /\ ~crossed => Alone
    /\ InSession /\ InProgress = {} /\ ~missed /\ ~crossed /\ adapter # "down" => TableTold

IInv == TypeOK /\ Control /\ OneOfAKind /\ Outcome /\ Cleared /\ Frames /\ Pausing /\ Lines

(***************************************************************************)
(* Sequences                                                               *)
(***************************************************************************)

\* What is sent goes to the end of its queue.
LEMMA Grow ==
    ASSUME NEW S, NEW s \in Seq(S), NEW x \in S
    PROVE  /\ s \o <<x>> = Append(s, x) /\ Append(s, x) \in Seq(S)
           /\ DOMAIN Append(s, x) = DOMAIN s \union {Len(s) + 1}
           /\ Append(s, x)[Len(s) + 1] = x
           /\ \A i \in DOMAIN s : Append(s, x)[i] = s[i] /\ i < Len(s) + 1
  OBVIOUS

LEMMA GrowTwo ==
    ASSUME NEW S, NEW s \in Seq(S), NEW x \in S, NEW y \in S
    PROVE  s \o <<x, y>> = Append(Append(s, x), y)
  OBVIOUS

LEMMA GrowNone ==
    ASSUME NEW S, NEW s \in Seq(S)
    PROVE  s \o <<>> = s
  OBVIOUS

\* What is taken comes from its front.
LEMMA Shrink ==
    ASSUME NEW S, NEW s \in Seq(S), s # <<>>
    PROVE  /\ Tail(s) \in Seq(S) /\ Head(s) = s[1] /\ s[1] \in S /\ 1 \in DOMAIN s
           /\ Len(s) \in Nat \ {0} /\ (Tail(s) = <<>> <=> ~(Len(s) > 1))
           /\ \A i \in DOMAIN Tail(s) : i + 1 \in DOMAIN s /\ i + 1 > 1 /\ Tail(s)[i] = s[i + 1]
           /\ \A i \in DOMAIN s : i # 1 => i - 1 \in DOMAIN Tail(s) /\ Tail(s)[i - 1] = s[i]
  <1>1. Len(s) \in Nat \ {0} /\ DOMAIN s = 1..Len(s)
    OBVIOUS
  <1>2. Tail(s) \in Seq(S) /\ Len(Tail(s)) = Len(s) - 1 /\ \A i \in 1..Len(Tail(s)) : Tail(s)[i] = s[i + 1]
    OBVIOUS
  <1>3. DOMAIN Tail(s) = 1..(Len(s) - 1)
    BY <1>2
  <1>4. Tail(s) = <<>> <=> ~(Len(s) > 1)
    <2>1. \A t \in Seq(S) : t = <<>> <=> Len(t) = 0
      OBVIOUS
    <2>2. Len(Tail(s)) = 0 <=> ~(Len(s) > 1)
      BY <1>1, <1>2
    <2> QED BY <1>2, <2>1, <2>2
  <1>5. \A i \in DOMAIN Tail(s) : i + 1 \in DOMAIN s /\ i + 1 > 1 /\ Tail(s)[i] = s[i + 1]
    BY <1>1, <1>2, <1>3
  <1>6. ASSUME NEW i \in DOMAIN s, i # 1 PROVE i - 1 \in DOMAIN Tail(s) /\ Tail(s)[i - 1] = s[i]
    <2>1. i - 1 \in 1..Len(Tail(s)) /\ (i - 1) + 1 = i
      BY <1>1, <1>2, <1>6
    <2>2. Tail(s)[i - 1] = s[(i - 1) + 1]
      BY <1>2, <2>1
    <2> QED BY <1>2, <1>3, <2>1, <2>2
  <1> QED BY <1>1, <1>2, <1>4, <1>5, <1>6

LEMMA LastOfGrow ==
    ASSUME NEW S, NEW s \in Seq(S), NEW x \in S, NEW T
    PROVE  /\ LastOf(Append(s, x), T, x)
           /\ x \notin T /\ NoneOf(s, T) => NoneOf(Append(s, x), T)
           /\ \A y : x \notin T /\ LastOf(s, T, y) => LastOf(Append(s, x), T, y)
  <1>1. LastOf(Append(s, x), T, x)
    BY Grow DEF LastOf
  <1>2. ASSUME x \notin T, NoneOf(s, T) PROVE NoneOf(Append(s, x), T)
    BY <1>2, Grow DEF NoneOf
  <1>3. ASSUME NEW y, x \notin T, LastOf(s, T, y) PROVE LastOf(Append(s, x), T, y)
    BY <1>3, Grow DEF LastOf
  <1> QED BY <1>1, <1>2, <1>3

LEMMA LastOfShrink ==
    ASSUME NEW S, NEW s \in Seq(S), s # <<>>, NEW T
    PROVE  /\ NoneOf(s, T) => NoneOf(Tail(s), T) /\ Head(s) \notin T
           /\ \A y : LastOf(s, T, y) =>
                 \/ LastOf(Tail(s), T, y)
                 \/ Head(s) = y /\ NoneOf(Tail(s), T)
  <1>1. ASSUME NoneOf(s, T) PROVE NoneOf(Tail(s), T) /\ Head(s) \notin T
    BY <1>1, Shrink DEF NoneOf
  <1>2. ASSUME NEW y, LastOf(s, T, y)
        PROVE  LastOf(Tail(s), T, y) \/ (Head(s) = y /\ NoneOf(Tail(s), T))
    <2>1. PICK i \in DOMAIN s : s[i] = y /\ \A j \in DOMAIN s : j > i => s[j] \notin T
      BY <1>2 DEF LastOf
    <2>2. CASE i = 1
      BY <2>1, <2>2, Shrink DEF NoneOf
    <2>3. CASE i # 1
      <3>1. i - 1 \in DOMAIN Tail(s) /\ Tail(s)[i - 1] = y
        BY <2>1, <2>3, Shrink
      <3>2. ASSUME NEW j \in DOMAIN Tail(s), j > i - 1 PROVE Tail(s)[j] \notin T
        BY <2>1, <3>2, Shrink
      <3> QED BY <3>1, <3>2 DEF LastOf
    <2> QED BY <2>2, <2>3
  <1> QED BY <1>1, <1>2

(***************************************************************************)
(* The steps' effects                                                      *)
(***************************************************************************)

\* The panel after an event
LEMMA Applied ==
    ASSUME TypeOK, NEW at
    PROVE  /\ applyDebugEvent(Event("debug_started", at)) = [session |-> This, paused |-> NotPaused, frame |-> 0]
           /\ applyDebugEvent(Event("debug_paused", at)) = [session |-> This, paused |-> at, frame |-> 0]
           /\ applyDebugEvent(Event("debug_running", at)) =
                 IF view.session = This THEN [session |-> This, paused |-> NotPaused, frame |-> 0] ELSE view
           /\ applyDebugEvent(Event("debug_frame", at)) =
                 IF view.session # This \/ view.paused = NotPaused THEN view ELSE [view EXCEPT !.frame = at]
           /\ applyDebugEvent(Event("debug_stopped", at)) = EmptyView
           /\ applyDebugEvent([session |-> Earlier, type |-> "debug_stopped", at |-> 0]) =
                 IF view.session = This THEN view ELSE EmptyView
  <1>1. view.session \in {"nobody", "this"}
    BY DEF TypeOK, This, NoOne
  <1>2. /\ ~Ignored(Event("debug_started", at))
        /\ ~Ignored(Event("debug_paused", at))
        /\ Ignored(Event("debug_running", at)) <=> view.session # This
        /\ Ignored(Event("debug_frame", at)) <=> view.session # This \/ view.paused = NotPaused
        /\ ~Ignored(Event("debug_stopped", at))
        /\ Ignored([session |-> Earlier, type |-> "debug_stopped", at |-> 0]) <=> view.session = This
    BY <1>1 DEF Ignored, Event, This, NoOne, Earlier
  <1> QED BY <1>1, <1>2 DEF applyDebugEvent, Event, EmptyView, This, NoOne, Earlier

\* One message of the batch is handled.
LEMMA Popped ==
    ASSUME TypeOK, batch # <<>>, NEW fin \in BOOLEAN, Handled(fin)
    PROVE  /\ batch' \in Seq(Item) /\ finished' \in BOOLEAN
           /\ pc' \in {"handle", "loop", "close"}
           /\ pc' = "handle" => batch' # <<>>
           /\ pc' = "loop" => batch' = <<>>
           /\ batch[1] \in Item /\ Head(batch) = batch[1] /\ 1 \in DOMAIN batch
           /\ \A i \in DOMAIN batch' : i + 1 \in DOMAIN batch /\ i + 1 # 1 /\ batch'[i] = batch[i + 1]
           /\ \A i \in DOMAIN batch : i # 1 => i - 1 \in DOMAIN batch' /\ batch'[i - 1] = batch[i]
  <1>1. batch \in Seq(Item) /\ finished \in BOOLEAN /\ batch' = Tail(batch)
    BY DEF TypeOK, Handled
  <1>2. finished' \in BOOLEAN
    BY DEF Handled
  <1>3. pc' = IF Len(batch) > 1 THEN "handle" ELSE IF finished' THEN "close" ELSE "loop"
    BY DEF Handled
  <1> QED BY <1>1, <1>2, <1>3, Shrink

LEMMA ItemFacts ==
    /\ \A x \in Item : /\ x.arg \in Nat
                       /\ x.name \in EventNames \union CommandNames \union {"cancel"}
                       /\ x.kind = "event" <=> x.name \in EventNames
                       /\ x.kind = "command" <=> x.name \in CommandNames
    /\ \A c \in Command : c.name \in CommandNames /\ c.arg \in Nat
  BY DEF Item, EventNames, CommandNames, Command

\* One round of the loop: some of what is ready, once each and in any order
LEMMA ReceiveShape ==
    ASSUME TypeOK, Receive
    PROVE  \E K \in SUBSET {"event", "command", "cancel"} :
             /\ batch' \in Seq(Item) /\ batch' # <<>>
             /\ \A k \in K : \E i \in DOMAIN batch' : batch'[i] = Received(k)
             /\ \A i \in DOMAIN batch' : \E k \in K : batch'[i] = Received(k)
             /\ OneOfAKind'
             /\ "event" \in K => events # <<>> /\ events' = Tail(events)
             /\ "event" \notin K => events' = events
             /\ "command" \in K => commands # <<>> /\ commands' = Tail(commands)
             /\ "command" \notin K => commands' = commands
             /\ "cancel" \in K => cancel
  <1>1. PICK K \in (SUBSET Ready) \ {{}} :
          /\ \E order \in SetToSeqs(K) : batch' = [i \in DOMAIN order |-> Received(order[i])]
          /\ events' = IF "event" \in K THEN Tail(events) ELSE events
          /\ commands' = IF "command" \in K THEN Tail(commands) ELSE commands
    BY DEF Receive
  <1>2. PICK order \in SetToSeqs(K) : batch' = [i \in DOMAIN order |-> Received(order[i])]
    BY <1>1
  <1>3. /\ K \subseteq {"event", "command", "cancel"} /\ K # {}
        /\ "event" \in K => events # <<>>
        /\ "command" \in K => commands # <<>>
        /\ "cancel" \in K => cancel
    BY <1>1 DEF Ready
  <1>4. PICK n \in 1..3 : /\ order \in [1..n -> K] /\ \A i, j \in 1..n : i # j => order[i] # order[j]
                          /\ \A k \in K : \E i \in 1..n : order[i] = k
    <2>0. \A a, b, c : /\ a # b => Cardinality({a, b}) = 2
                       /\ a # b /\ a # c /\ b # c => Cardinality({a, b, c}) = 3
                       /\ Cardinality({a}) = 1
      <3> SUFFICES ASSUME NEW a, NEW b, NEW c
                   PROVE  /\ a # b => Cardinality({a, b}) = 2
                          /\ a # b /\ a # c /\ b # c => Cardinality({a, b, c}) = 3
                          /\ Cardinality({a}) = 1
        OBVIOUS
      <3>1. IsFiniteSet({a}) /\ Cardinality({a}) = 1
        BY FS_Singleton
      <3>2. ASSUME a # b PROVE IsFiniteSet({a, b}) /\ Cardinality({a, b}) = 2
        <4>1. {a} \union {b} = {a, b} /\ b \notin {a}
          BY <3>2
        <4> QED BY <3>1, <4>1, FS_AddElement
      <3>3. ASSUME a # b, a # c, b # c PROVE Cardinality({a, b, c}) = 3
        <4>1. {a, b} \union {c} = {a, b, c} /\ c \notin {a, b}
          BY <3>3
        <4>2. IsFiniteSet({a, b}) /\ Cardinality({a, b}) = 2
          BY <3>2, <3>3
        <4>3. Cardinality({a, b} \union {c}) = Cardinality({a, b}) + 1
          BY <4>1, <4>2, FS_AddElement
        <4> QED BY <4>1, <4>2, <4>3
      <3> QED BY <3>1, <3>2, <3>3
    <2>1. \/ K = {"event"} \/ K = {"command"} \/ K = {"cancel"}
          \/ K = {"event", "command"} \/ K = {"event", "cancel"} \/ K = {"command", "cancel"}
          \/ K = {"event", "command", "cancel"}
      BY <1>3
    <2>2. order \in [1..Cardinality(K) -> K] /\ \A i, j \in 1..Cardinality(K) : i # j => order[i] # order[j]
      BY <1>2 DEF SetToSeqs
    <2>3. CASE K = {"event"} \/ K = {"command"} \/ K = {"cancel"}
      <3>1. Cardinality(K) = 1
        BY <2>0, <2>3
      <3>2. order[1] \in K
        BY <2>2, <3>1
      <3> QED BY <2>2, <2>3, <3>1, <3>2
    <2>4. ASSUME NEW a, NEW b, a # b, K = {a, b}
          PROVE  \E n \in 1..3 : /\ order \in [1..n -> K] /\ \A i, j \in 1..n : i # j => order[i] # order[j]
                                 /\ \A k \in K : \E i \in 1..n : order[i] = k
      <3>1. Cardinality(K) = 2
        BY <2>0, <2>4
      <3>2. order[1] \in K /\ order[2] \in K /\ order[1] # order[2] /\ 1 \in 1..2 /\ 2 \in 1..2
        BY <2>2, <3>1
      <3>3. \A k \in K : \E i \in 1..2 : order[i] = k
        BY <2>4, <3>2
      <3> QED BY <2>2, <3>1, <3>3
    <2>5. CASE K = {"event", "command", "cancel"}
      <3>0. "event" # "command" /\ "event" # "cancel" /\ "command" # "cancel"
        OBVIOUS
      <3>1. Cardinality(K) = 3
        <4>1. Cardinality({"event", "command", "cancel"}) = 3
          BY <2>0, <3>0, Zenon
        <4> QED BY <2>5, <4>1
      <3>2. /\ order[1] \in K /\ order[2] \in K /\ order[3] \in K
            /\ order[1] # order[2] /\ order[1] # order[3] /\ order[2] # order[3]
        BY <2>2, <3>1
      <3>3. \A k \in K : \E i \in 1..3 : order[i] = k
        BY <2>5, <3>2
      <3> QED BY <2>2, <3>1, <3>3
    <2> QED BY <2>1, <2>3, <2>4, <2>5
  <1>5. ASSUME NEW k \in K PROVE Received(k) \in Item /\ Received(k).kind = k
    <2>1. CASE k = "event"
      <3>1. Head(events) \in EventNames
        BY <1>3, <1>5, <2>1, Shrink DEF TypeOK
      <3> QED BY <2>1, <3>1 DEF Received, Item
    <2>2. CASE k = "command"
      <3>1. Head(commands) \in Command
        BY <1>3, <1>5, <2>2, Shrink DEF TypeOK
      <3> QED BY <2>2, <3>1 DEF Received, Item, Command
    <2>3. CASE k = "cancel"
      BY <2>3 DEF Received, Item
    <2> QED BY <1>3, <2>1, <2>2, <2>3
  <1>6. batch' = [i \in 1..n |-> Received(order[i])]
    BY <1>2, <1>4
  <1>7. batch' \in Seq(Item) /\ batch' # <<>> /\ DOMAIN batch' = 1..n
    BY <1>4, <1>5, <1>6
  <1>8. OneOfAKind'
    BY <1>4, <1>5, <1>6, <1>7 DEF OneOfAKind
  <1>9. \A k \in K : \E i \in DOMAIN batch' : batch'[i] = Received(k)
    BY <1>4, <1>6, <1>7
  <1>10. \A i \in DOMAIN batch' : \E k \in K : batch'[i] = Received(k)
    BY <1>4, <1>6, <1>7
  <1> QED BY <1>1, <1>3, <1>7, <1>8, <1>9, <1>10

USE DEF sessionVars, programVars, redisVars, lineVars, restVars, NoFault

View == [session : {NoOne, This}, paused : 0..NotPaused, frame : 0..MaxStops]

LEMMA Failures ==
    ASSUME TypeOK, NoFault \/ Fault
    PROVE  faults' \in 0..MaxFaults /\ faults' \in Nat /\ faults \in Nat /\ faults' >= faults
  BY SessionAssumption DEF TypeOK, Fault

\* A write of the state, or its failure
LEMMA Saved ==
    ASSUME TypeOK, NEW at \in 0..NotPaused, Save(at)
    PROVE  /\ stored' \in {stored, at} /\ stored' \in 0..NotPaused /\ lost' \in BOOLEAN
           /\ faults' \in 0..MaxFaults
           /\ ~lost' => ~lost /\ stored' = at
           /\ stored' # at => faults' = faults + 1
  <1>1. NoFault \/ Fault
    BY DEF Save
  <1> QED BY <1>1, Failures DEF Save, set_state, TypeOK, Fault

\* An event that reaches the panel, or is lost
LEMMA Published ==
    ASSUME TypeOK, NEW e, Publish(e), applyDebugEvent(e) \in View
    PROVE  /\ view' \in {view, applyDebugEvent(e)} /\ view' \in View /\ lost' \in BOOLEAN
           /\ faults' \in 0..MaxFaults
           /\ ~lost' => ~lost /\ view' = applyDebugEvent(e)
  <1>1. NoFault \/ Fault
    BY DEF Publish
  <1> QED BY <1>1, Failures DEF Publish, TypeOK, View

LEMMA ViewFacts ==
    ASSUME TypeOK
    PROVE  /\ \A at : applyDebugEvent(Event("debug_started", at)) \in View
           /\ \A at \in 0..NotPaused : applyDebugEvent(Event("debug_paused", at)) \in View
           /\ \A at : applyDebugEvent(Event("debug_running", at)) \in View
           /\ \A at \in 0..MaxStops : applyDebugEvent(Event("debug_frame", at)) \in View
           /\ \A at : applyDebugEvent(Event("debug_stopped", at)) \in View
           /\ applyDebugEvent([session |-> Earlier, type |-> "debug_stopped", at |-> 0]) \in View
           /\ EmptyView \in View /\ view \in View
           /\ place \in 0..NotPaused /\ 0 \in 0..NotPaused /\ NotPaused \in 0..NotPaused
           /\ \A at \in 0..MaxStops : at \in 0..NotPaused /\ at # NotPaused
  <1>1. view \in View /\ place \in 0..MaxStops /\ NotPaused \in Nat /\ NotPaused = MaxStops + 1 /\ MaxStops \in Nat
    BY SessionAssumption DEF TypeOK, View, NotPaused
  <1>2. EmptyView \in View
    BY <1>1 DEF EmptyView, View
  <1>3. \A at \in 0..MaxStops : at \in 0..NotPaused /\ at # NotPaused
    BY <1>1
  <1>4. \A at : applyDebugEvent(Event("debug_started", at)) \in View
    BY <1>1, Applied DEF View
  <1>5. \A at \in 0..NotPaused : applyDebugEvent(Event("debug_paused", at)) \in View
    BY <1>1, Applied DEF View
  <1>6. \A at : applyDebugEvent(Event("debug_running", at)) \in View
    BY <1>1, Applied DEF View
  <1>7. \A at \in 0..MaxStops : applyDebugEvent(Event("debug_frame", at)) \in View
    BY <1>1, Applied DEF View
  <1> QED BY <1>1, <1>2, <1>3, <1>4, <1>5, <1>6, <1>7, Applied

\* What the worker handles when it is not at the loop's top
LEMMA Handles ==
    ASSUME TypeOK, Control, NEW kind, NEW name, Handling(kind, name)
    PROVE  pc = "handle" /\ batch # <<>> /\ Head(batch) = batch[1] /\ batch[1] \in Item /\ 1 \in DOMAIN batch
           /\ batch[1].kind = kind /\ batch[1].name = name /\ batch[1].arg \in Nat
  <1>1. pc = "handle" /\ batch # <<>> /\ batch \in Seq(Item)
    BY DEF Handling, Control, TypeOK
  <1>2. Head(batch) = batch[1] /\ batch[1] \in Item /\ 1 \in DOMAIN batch
    BY <1>1, Shrink
  <1> QED BY <1>1, <1>2, ItemFacts DEF Handling

\* What a PUT of breakpoints does not touch, and what it sends
LEMMA PutEffect ==
    ASSUME TypeOK, NEW n \in Changes, ChangeBreakpoints(n)
    PROVE  /\ UNCHANGED <<pc, sessionVars, programVars, redisVars, view, lost, known, adapterLines, restVars>>
           /\ commands' \in {commands, Append(commands, LinesCommand(n))}
           /\ LinesCommand(n) \in Command /\ LinesCommand(n) \in SetLines /\ LinesCommand(n).name = "setBreakpoints"
           /\ put' \in [Changes -> {"idle", "replace", "refresh", "announce", "done"}]
           /\ seen' \in [Changes -> SUBSET (0..MaxChanges)]
           /\ lines' \in SUBSET (0..MaxChanges)
           /\ missed' \in BOOLEAN /\ crossed' \in BOOLEAN
           /\ NoFault \/ Fault
  <1>t. /\ n \in Nat /\ n \in 0..MaxChanges
        /\ put \in [Changes -> {"idle", "replace", "refresh", "announce", "done"}]
        /\ seen \in [Changes -> SUBSET (0..MaxChanges)] /\ lines \in SUBSET (0..MaxChanges)
        /\ missed \in BOOLEAN /\ crossed \in BOOLEAN
    BY SessionAssumption DEF TypeOK, Changes
  <1>1. LinesCommand(n) \in Command /\ LinesCommand(n) \in SetLines /\ LinesCommand(n).name = "setBreakpoints"
    BY <1>t DEF LinesCommand, SetLines, Command, CommandNames
  <1>2. CASE set_file_breakpoints(n)
    BY <1>t, <1>1, <1>2 DEF set_file_breakpoints, Replace
  <1>3. CASE Commit(n)
    BY <1>t, <1>1, <1>3 DEF Commit
  <1>4. CASE Refresh(n)
    BY <1>t, <1>1, <1>4 DEF Refresh
  <1>5. CASE Announce(n)
    <2>1. commands' \in {commands, Append(commands, LinesCommand(n))}
      BY <1>5 DEF Announce, send_command, Relay, LinesCommand
    <2>2. missed' \in BOOLEAN
      BY <1>t, <1>5 DEF Announce
    <2> QED BY <1>t, <1>1, <1>5, <2>1, <2>2 DEF Announce
  <1> QED BY <1>2, <1>3, <1>4, <1>5 DEF ChangeBreakpoints

(***************************************************************************)
(* The types                                                               *)
(***************************************************************************)

LEMMA TypeInit == Init => TypeOK
  <1> SUFFICES ASSUME Init PROVE TypeOK
    OBVIOUS
  <1>1. batch \in Seq(Item) /\ events \in Seq(EventNames) /\ commands \in Seq(Command)
    BY DEF Init
  <1>2. view \in [session : {NoOne, This}, paused : 0..NotPaused, frame : 0..MaxStops] /\ stored \in 0..NotPaused
    BY SessionAssumption DEF Init, EmptyView, NotPaused
  <1>3. /\ details \in 0..MaxStops /\ place \in 0..MaxStops /\ exitCode \in 0..NoCode /\ code \in 0..NoCode
        /\ lines \in SUBSET (0..MaxChanges) /\ known \in Nat /\ adapterLines \in Nat
        /\ sent \in 0..MaxCommands /\ faults \in 0..MaxFaults
    BY SessionAssumption DEF Init, NoCode
  <1> QED BY <1>1, <1>2, <1>3 DEF Init, TypeOK, Pcs

\* The program, the people and the messages they send
LEMMA TypeOthers ==
    ASSUME TypeOK,
           \/ Stops \/ Exits \/ HangsUp \/ EarlierStops \/ CancelRun \/ \E n \in Changes : ChangeBreakpoints(n)
           \/ \E c \in {"continue", "step", "pause", "stop", "frame"} : debug_command(c)
    PROVE  TypeOK'
  <1>f. NoFault \/ Fault
    BY PutEffect DEF Stops, Exits, HangsUp, EarlierStops, CancelRun, debug_command
  <1>g. faults' \in 0..MaxFaults
    BY <1>f, Failures
  <1>1. CASE Stops
    <2>1. events' \in Seq(EventNames)
      BY <1>1, Grow DEF Stops, Emit, TypeOK, EventNames
    <2> QED BY <1>1, <1>g, <2>1, SessionAssumption DEF Stops, TypeOK
  <1>2. CASE Exits
    <2>1. events' \in Seq(EventNames)
      BY <1>2, GrowTwo, Grow DEF Exits, Emit, TypeOK, EventNames
    <2> QED BY <1>2, <1>g, <2>1 DEF Exits, TypeOK, NoCode
  <1>3. CASE HangsUp
    <2>1. events' \in Seq(EventNames)
      BY <1>3, Grow DEF HangsUp, Emit, TypeOK, EventNames
    <2> QED BY <1>3, <1>g, <2>1 DEF HangsUp, Eof, TypeOK
  <1>4. CASE EarlierStops
    <2>1. view' \in View
      BY <1>4, ViewFacts DEF EarlierStops
    <2> QED BY <1>4, <1>g, <2>1 DEF EarlierStops, TypeOK, View
  <1>5. CASE CancelRun
    BY <1>5, <1>g DEF CancelRun, TypeOK
  <1>7. ASSUME NEW n \in Changes, ChangeBreakpoints(n) PROVE TypeOK'
    <2>2. commands' \in Seq(Command)
      <3>1. commands \in Seq(Command)
        BY DEF TypeOK
      <3> QED BY <1>7, <3>1, PutEffect, Grow
    <2>3. /\ lines' \in SUBSET (0..MaxChanges)
          /\ put' \in [Changes -> {"idle", "replace", "refresh", "announce", "done"}]
          /\ seen' \in [Changes -> SUBSET (0..MaxChanges)]
          /\ missed' \in BOOLEAN /\ crossed' \in BOOLEAN
      BY <1>7, PutEffect
    <2>4. /\ UNCHANGED <<pc, batch, finished, reason, paused, deferVars, details, detailsPc, exitCode, program, place>>
          /\ UNCHANGED <<code, adapter, events, active, stored, listening, view, lost, known, adapterLines, row, asked>>
          /\ UNCHANGED <<cancel, oldSession, sent>>
      BY <1>7, PutEffect
    <2> QED BY <1>g, <2>2, <2>3, <2>4 DEF TypeOK
  <1>8. ASSUME NEW c \in {"continue", "step", "pause", "stop", "frame"}, debug_command(c) PROVE TypeOK'
    <2>1. [name |-> c, arg |-> view.paused] \in Command
      BY SessionAssumption DEF TypeOK, Command, CommandNames, NotPaused
    <2>2. commands' \in Seq(Command)
      BY <1>8, <2>1, Grow DEF debug_command, send_command, Relay, TypeOK
    <2>3. asked' \in BOOLEAN
      BY <1>8 DEF debug_command
    <2> QED BY SMTT(30), <1>8, <1>g, <2>2, <2>3, SessionAssumption DEF debug_command, TypeOK
  <1> QED BY <1>1, <1>2, <1>3, <1>4, <1>5, <1>7, <1>8

\* The handshake, the limits, the details task and the finally blocks
LEMMA TypeWorker ==
    ASSUME TypeOK, Control,
           \/ Subscribe \/ Start \/ Initialize \/ Launch \/ Started \/ Limit
           \/ DetailsLoad \/ DetailsSave \/ DetailsPublish
           \/ Close \/ Unsave \/ Stopped \/ Clear \/ Record \/ ClearAgain
    PROVE  TypeOK'
  <1>f. NoFault \/ Fault
    BY DEF Subscribe, Start, Initialize, Launch, Started, Limit, DetailsLoad, DetailsSave, DetailsPublish,
           Close, Unsave, Stopped, Clear, Record, ClearAgain, ClearKeys, Save, Publish
  <1>g. faults' \in 0..MaxFaults
    BY <1>f, Failures
  <1>1. CASE Subscribe \/ Start \/ Initialize
    <2>1. CASE Subscribe
      BY SMTT(30), <1>g, <2>1 DEF Subscribe, TypeOK, Pcs
    <2>2. CASE Start
      BY SMTT(30), <1>g, <2>2 DEF Start, Leave, TypeOK, Pcs
    <2>3. CASE Initialize
      BY SMTT(30), <1>g, <2>3 DEF Initialize, Leave, TypeOK, Pcs
    <2> QED BY <1>1, <2>1, <2>2, <2>3
  <1>2. CASE Launch
    <2>1. /\ adapterLines' \in {adapterLines, known} /\ program' \in {program, "running"}
          /\ pc' \in {"started", "close"} /\ reason' \in {reason, "error"}
          /\ UNCHANGED <<batch, finished, paused, deferVars, details, detailsPc, exitCode, place, code, adapter, events,
                         commands, redisVars, view, lost, lineVars, restVars>>
      BY <1>2 DEF Launch, Leave, set_breakpoints
    <2>2. adapterLines' \in Nat /\ pc' \in Pcs
      BY <2>1 DEF TypeOK, Pcs
    <2>3. /\ program' \in {"off", "running", "stopped", "ended", "killed"}
          /\ reason' \in {"exited", "stopped", "timeout", "idle", "cancelled", "error"}
      BY <2>1 DEF TypeOK
    <2>4. /\ UNCHANGED <<batch, events, commands, finished, paused, deferVars, listening, active, lost, put, seen, missed, crossed>>
          /\ UNCHANGED <<asked, cancel, oldSession, details, detailsPc, place>>
          /\ UNCHANGED <<exitCode, code, adapter, stored, view, lines, known, row, sent>>
      BY <2>1 DEF redisVars, lineVars, restVars
    <2> QED BY SMTT(30), <1>g, <2>2, <2>3, <2>4 DEF TypeOK
  <1>3. CASE Started
    <2>1. view' \in View /\ lost' \in BOOLEAN
      BY SMTT(30), <1>3, Published, ViewFacts DEF Started, TypeOK
    <2>2. pc' \in {"loop", "close"} /\ reason' \in {reason, "error"}
      BY <1>3 DEF Started, Leave
    <2>3. /\ UNCHANGED <<batch, events, commands, finished, paused, deferVars, listening, active, put, seen, missed, crossed>>
          /\ UNCHANGED <<asked, cancel, oldSession, details, detailsPc, place, program, adapterLines>>
          /\ UNCHANGED <<exitCode, code, adapter, stored, lines, known, row, sent>>
      BY <1>3 DEF Started, programVars, redisVars, lineVars, restVars
    <2>4. pc' \in Pcs /\ reason' \in {"exited", "stopped", "timeout", "idle", "cancelled", "error"}
      BY <2>2 DEF TypeOK, Pcs
    <2> QED BY SMTT(30), <1>g, <2>1, <2>3, <2>4 DEF TypeOK, View
  <1>4. CASE Limit
    BY SMTT(30), <1>4, <1>g DEF Limit, Limits, Leave, TypeOK, Pcs
  <1>5. CASE DetailsLoad
    BY SMTT(30), <1>5, <1>g, SessionAssumption DEF DetailsLoad, TypeOK
  <1>6. CASE DetailsSave
    <2>1. stored' \in 0..NotPaused /\ lost' \in BOOLEAN
      BY SMTT(30), <1>6, Saved, ViewFacts DEF DetailsSave, TypeOK
    <2> QED BY SMTT(30), <1>6, <1>g, <2>1 DEF DetailsSave, TypeOK
  <1>7. CASE DetailsPublish
    <2>1. view' \in View /\ lost' \in BOOLEAN
      BY SMTT(30), <1>7, Published, ViewFacts DEF DetailsPublish, TypeOK
    <2> QED BY SMTT(30), <1>7, <1>g, <2>1, SessionAssumption DEF DetailsPublish, TypeOK, View
  <1>8. CASE Close
    BY SMTT(30), <1>8, <1>g, SessionAssumption DEF Close, CancelDetails, Stop, TypeOK, Pcs
  <1>9. CASE Unsave
    <2>1. stored' \in 0..NotPaused /\ lost' \in BOOLEAN
      BY <1>9, Saved, ViewFacts DEF Unsave
    <2> QED BY SMTT(30), <1>9, <1>g, <2>1 DEF Unsave, TypeOK, Pcs
  <1>10. CASE Stopped
    <2>1. view' \in View /\ lost' \in BOOLEAN
      BY <1>10, Published, ViewFacts DEF Stopped
    <2> QED BY SMTT(30), <1>10, <1>g, <2>1 DEF Stopped, TypeOK, Pcs, View
  <1>11. CASE Clear \/ ClearAgain
    <2>1. stored' \in 0..NotPaused
      BY <1>11, ViewFacts DEF Clear, ClearAgain, ClearKeys, TypeOK
    <2>2. active' \in BOOLEAN /\ listening' \in BOOLEAN /\ pc' \in Pcs
      BY <1>11 DEF Clear, ClearAgain, ClearKeys, TypeOK, Pcs
    <2>3. UNCHANGED <<sessionVars, programVars, commands, view, lost, lineVars, adapterLines, restVars>>
      BY <1>11 DEF Clear, ClearAgain
    <2> QED BY <1>g, <2>1, <2>2, <2>3 DEF TypeOK
  <1>12. CASE Record
    BY <1>12, <1>g DEF Record, TargetStatus, TypeOK, Pcs
  <1> QED BY <1>1, <1>2, <1>3, <1>4, <1>5, <1>6, <1>7, <1>8, <1>9, <1>10, <1>11, <1>12

\* The loop
LEMMA TypeLoop ==
    ASSUME TypeOK, Control, Frames,
           \/ Receive
           \/ HandleEnd \/ HandleClosed \/ HandleStopped \/ PublishPaused \/ SavePaused \/ HandleContinued \/ ClearPaused
           \/ HandleStep("continue") \/ HandleStep("step") \/ HandlePause \/ HandleFrame \/ HandleBreakpoints
    PROVE  TypeOK'
  <1>f. NoFault \/ Fault
    BY DEF Receive, HandleEnd, HandleClosed, HandleStopped, PublishPaused, SavePaused, HandleContinued, ClearPaused,
           HandleStep, HandlePause, HandleFrame, HandleBreakpoints, Save, Publish
  <1>g. faults' \in 0..MaxFaults
    BY <1>f, Failures
  <1>1. CASE Receive
    <2>1. batch' \in Seq(Item) /\ events' \in Seq(EventNames) /\ commands' \in Seq(Command)
      <3>1. events \in Seq(EventNames) /\ commands \in Seq(Command)
        BY DEF TypeOK
      <3>2. /\ batch' \in Seq(Item)
            /\ events' = events \/ (events # <<>> /\ events' = Tail(events))
            /\ commands' = commands \/ (commands # <<>> /\ commands' = Tail(commands))
        BY <1>1, ReceiveShape
      <3>3. events' \in Seq(EventNames)
        <4>1. CASE events # <<>>
          <5>1. Tail(events) \in Seq(EventNames)
            BY <3>1, <4>1, Shrink
          <5> QED BY <3>1, <3>2, <5>1
        <4>2. CASE events = <<>>
          BY <3>1, <3>2, <4>2
        <4> QED BY <4>1, <4>2
      <3>4. commands' \in Seq(Command)
        <4>1. CASE commands # <<>>
          <5>1. Tail(commands) \in Seq(Command)
            BY <3>1, <4>1, Shrink
          <5> QED BY <3>1, <3>2, <5>1
        <4>2. CASE commands = <<>>
          BY <3>1, <3>2, <4>2
        <4> QED BY <4>1, <4>2
      <3> QED BY <3>2, <3>3, <3>4
    <2>2. /\ pc' = "handle"
          /\ UNCHANGED <<finished, reason, paused, deferVars, details, detailsPc, exitCode, program, place, code, adapter>>
          /\ UNCHANGED <<listening, active, stored, view, lost, lineVars, adapterLines>>
          /\ UNCHANGED <<row, asked, cancel, oldSession, sent>>
      BY <1>1 DEF Receive, redisVars, lineVars, restVars
    <2>3. pc' \in Pcs
      BY <2>2 DEF Pcs
    <2> QED BY SMTT(30), <1>g, <2>1, <2>2, <2>3 DEF TypeOK
  <1>2. CASE HandleEnd
    <2>1. batch' \in Seq(Item) /\ finished' \in BOOLEAN /\ pc' \in Pcs
      BY <1>2, Handles, Popped DEF HandleEnd, Pcs
    <2>2. /\ reason' \in {reason, "cancelled", "stopped"} /\ exitCode' \in {exitCode, code}
          /\ UNCHANGED <<paused, deferVars, details, detailsPc, program, place, code, adapter, events, commands>>
          /\ UNCHANGED <<listening, active, stored, view, lost, lineVars, adapterLines>>
          /\ UNCHANGED <<row, asked, cancel, oldSession, sent>>
      BY <1>2 DEF HandleEnd, programVars, redisVars, lineVars, restVars
    <2>3. reason' \in {"exited", "stopped", "timeout", "idle", "cancelled", "error"} /\ exitCode' \in 0..NoCode
      BY <2>2 DEF TypeOK
    <2> QED BY SMTT(30), <1>g, <2>1, <2>2, <2>3 DEF TypeOK
  <1>3. CASE HandleClosed
    <2>1. batch' \in Seq(Item) /\ finished' \in BOOLEAN /\ pc' \in Pcs
      BY <1>3, Handles, Popped DEF HandleClosed, ClosedEnds, Pcs
    <2> QED BY <1>3, <1>g, <2>1 DEF HandleClosed, TypeOK
  <1>4. CASE HandleStopped
    BY <1>4, <1>g DEF HandleStopped, TypeOK, Pcs
  <1>5. CASE PublishPaused
    <2>0. batch # <<>> /\ batch \in Seq(Item)
      BY <1>5 DEF PublishPaused, Control, TypeOK
    <2>1. CASE /\ ~Done /\ pc' = "save"
               /\ batch' = [batch EXCEPT ![1] = PausedAt(TopFrame)]
               /\ Publish(Event("debug_paused", TopFrame))
      <3>0. TopFrame \in 0..NotPaused
        BY ViewFacts DEF TopFrame
      <3>1. batch' \in Seq(Item)
        <4>1. PausedAt(TopFrame) \in Item
          BY SessionAssumption DEF PausedAt, TopFrame, Item, EventNames, TypeOK
        <4> QED BY <2>0, <2>1, <4>1
      <3>2. view' \in View /\ lost' \in BOOLEAN
        BY <2>1, <3>0, Published, ViewFacts
      <3> QED BY SMTT(30), <1>5, <1>g, <2>1, <3>1, <3>2 DEF PublishPaused, TypeOK, Pcs, View, Leave
    <2>2. CASE Leave("error") /\ NoFault /\ UNCHANGED <<batch, view, lost>>
      BY <1>5, <1>g, <2>2 DEF PublishPaused, TypeOK, Pcs, Leave
    <2> QED BY <1>5, <2>1, <2>2 DEF PublishPaused
  <1>6. CASE SavePaused
    <2>0. batch # <<>> /\ batch \in Seq(Item)
      BY <1>6 DEF SavePaused, Control, TypeOK
    <2>1. Head(batch) = batch[1] /\ batch[1].arg \in 0..MaxStops
      BY <1>6, <2>0, Shrink, SessionAssumption DEF SavePaused, Frames, TypeOK
    <2>2. stored' \in 0..NotPaused /\ lost' \in BOOLEAN
      BY <1>6, <2>1, Saved, ViewFacts DEF SavePaused
    <2>3. batch' \in Seq(Item) /\ finished' \in BOOLEAN /\ pc' \in Pcs
      BY <1>6, <2>0, Popped DEF SavePaused, Pcs
    <2>4. details' \in {details, Head(batch).arg} /\ detailsPc' \in {detailsPc, "load"}
      BY <1>6 DEF SavePaused
    <2>5. details' \in 0..MaxStops /\ detailsPc' \in {"none", "load", "save", "publish"}
      BY <2>1, <2>4 DEF TypeOK
    <2>6. UNCHANGED <<reason, paused, deferVars, exitCode, programVars, commands, active, listening,
                      view, lineVars, adapterLines, restVars>>
      BY <1>6 DEF SavePaused
    <2> QED BY SMTT(30), <1>g, <2>2, <2>3, <2>5, <2>6 DEF TypeOK
  <1>7. CASE HandleContinued
    <2>1. batch' \in Seq(Item) /\ finished' \in BOOLEAN /\ pc' \in Pcs
      BY <1>7, Handles, Popped DEF HandleContinued, Pcs, TypeOK
    <2>2. view' \in View /\ lost' \in BOOLEAN
      BY <1>7, Published, ViewFacts DEF HandleContinued, TypeOK
    <2>3. /\ details' = 0 /\ detailsPc' = "none" /\ paused' \in BOOLEAN
          /\ UNCHANGED <<reason, deferVars, exitCode, programVars, commands, redisVars, lineVars, adapterLines, restVars>>
      BY <1>7 DEF HandleContinued, CancelDetails
    <2> QED BY <1>g, <2>1, <2>2, <2>3, SessionAssumption DEF TypeOK, View
  <1>8. CASE ClearPaused
    <2>1. batch' \in Seq(Item) /\ finished' \in BOOLEAN /\ pc' \in Pcs
      BY <1>8, Popped DEF ClearPaused, Control, Pcs
    <2>2. stored' \in 0..NotPaused /\ lost' \in BOOLEAN
      BY <1>8, Saved, ViewFacts DEF ClearPaused
    <2> QED BY SMTT(30), <1>8, <1>g, <2>1, <2>2 DEF ClearPaused, TypeOK
  <1>9. ASSUME NEW name \in {"continue", "step"}, HandleStep(name) PROVE TypeOK'
    <2>1. batch' \in Seq(Item) /\ finished' \in BOOLEAN /\ pc' \in Pcs
      BY <1>9, Handles, Popped DEF HandleStep, Pcs
    <2>2. events' \in Seq(EventNames)
      <3>1. events \in Seq(EventNames) /\ "continued" \in EventNames
        BY DEF TypeOK, EventNames
      <3>2. events' = events \/ events' = events \o <<"continued">> \/ events' = events \o <<>>
        BY <1>9 DEF HandleStep, Emit
      <3> QED BY <3>1, <3>2, Grow, GrowNone
    <2>3. deferVars' \in BOOLEAN
      BY <1>9 DEF HandleStep, TypeOK
    <2> QED BY <1>9, <1>g, <2>1, <2>2, <2>3, SessionAssumption DEF HandleStep, CancelDetails, TypeOK
  <1>10. CASE HandlePause
    <2>1. batch' \in Seq(Item) /\ finished' \in BOOLEAN /\ pc' \in Pcs
      BY <1>10, Handles, Popped DEF HandlePause, Pcs
    <2>2. /\ details' \in {0, details} /\ detailsPc' \in {detailsPc, "none"} /\ deferVars' \in BOOLEAN
          /\ UNCHANGED <<reason, paused, exitCode, programVars, commands, redisVars, view, lost, lineVars,
                         adapterLines, restVars>>
      BY <1>10 DEF HandlePause, CancelDetails, TypeOK
    <2> QED BY <1>g, <2>1, <2>2, SessionAssumption DEF TypeOK
  <1>11. CASE HandleFrame
    <2>1. batch' \in Seq(Item) /\ finished' \in BOOLEAN /\ pc' \in Pcs
      BY <1>11, Handles, Popped DEF HandleFrame, Pcs
    <2>2. view' \in View /\ lost' \in BOOLEAN
      BY <1>11, Published, ViewFacts DEF HandleFrame, TypeOK
    <2> QED BY <1>11, <1>g, <2>1, <2>2, SessionAssumption DEF HandleFrame, CancelDetails, TypeOK, View
  <1>12. CASE HandleBreakpoints
    <2>1. batch' \in Seq(Item) /\ finished' \in BOOLEAN /\ pc' \in Pcs
      BY <1>12, Handles, Popped DEF HandleBreakpoints, Pcs
    <2>2. adapterLines' \in Nat
      BY <1>12, Handles DEF HandleBreakpoints, set_breakpoints, NewLines, TypeOK
    <2> QED BY <1>12, <1>g, <2>1, <2>2 DEF HandleBreakpoints, TypeOK
  <1> QED BY <1>1, <1>2, <1>3, <1>4, <1>5, <1>6, <1>7, <1>8, <1>9, <1>10, <1>11, <1>12

LEMMA TypeStep == TypeOK /\ Control /\ Frames /\ [Next]_vars => TypeOK'
  <1> SUFFICES ASSUME TypeOK, Control, Frames, [Next]_vars PROVE TypeOK'
    OBVIOUS
  <1>1. CASE UNCHANGED vars
    BY <1>1 DEF vars, TypeOK
  <1>2. CASE Next
    BY <1>2, TypeOthers, TypeWorker, TypeLoop DEF Next, WorkerStep
  <1> QED BY <1>1, <1>2

(***************************************************************************)
(* What the worker has in its hands                                        *)
(***************************************************************************)

\* Taking one message off the batch leaves the rest as it was.
LEMMA PoppedBatch ==
    ASSUME TypeOK, OneOfAKind, batch # <<>>, NEW fin \in BOOLEAN, Handled(fin)
    PROVE  /\ OneOfAKind'
           /\ \A name : name # batch[1].name => (InBatch(name)' <=> InBatch(name))
           /\ \A name : InBatch(name)' => InBatch(name)
           /\ batch[1].name \in EventNames => \A name \in EventNames : ~InBatch(name)'
           /\ batch[1].name \in CommandNames => \A name \in CommandNames : ~InBatch(name)'
  <1>1. /\ batch \in Seq(Item) /\ batch' \in Seq(Item) /\ 1 \in DOMAIN batch /\ batch[1] \in Item
        /\ \A i \in DOMAIN batch' : i + 1 \in DOMAIN batch /\ i + 1 # 1 /\ batch'[i] = batch[i + 1]
        /\ \A i \in DOMAIN batch : i # 1 => i - 1 \in DOMAIN batch' /\ batch'[i - 1] = batch[i]
    BY Popped DEF TypeOK
  <1>2. \A i \in DOMAIN batch : batch[i] \in Item /\ i \in Nat
    BY <1>1
  <1>3. \A i \in DOMAIN batch' : i \in Nat
    BY <1>1
  <1>4. OneOfAKind'
    <2> SUFFICES ASSUME NEW i \in DOMAIN batch', NEW j \in DOMAIN batch', batch'[i].kind = batch'[j].kind
                 PROVE  i = j
      BY DEF OneOfAKind
    <2>1. i + 1 \in DOMAIN batch /\ j + 1 \in DOMAIN batch /\ batch[i + 1].kind = batch[j + 1].kind
      BY <1>1
    <2>2. i + 1 = j + 1
      BY <2>1 DEF OneOfAKind
    <2> QED BY <1>3, <2>2
  <1>5. \A name : name # batch[1].name => (InBatch(name)' <=> InBatch(name))
    <2>1. ASSUME NEW name, InBatch(name)' PROVE InBatch(name)
      BY <1>1, <2>1 DEF InBatch
    <2>2. ASSUME NEW name, name # batch[1].name, InBatch(name) PROVE InBatch(name)'
      <3>1. PICK i \in DOMAIN batch : batch[i].name = name
        BY <2>2 DEF InBatch
      <3>2. i # 1
        BY <2>2, <3>1
      <3>3. i - 1 \in DOMAIN batch' /\ batch'[i - 1].name = name
        BY <1>1, <3>1, <3>2
      <3> QED BY <3>3 DEF InBatch
    <2> QED BY <2>1, <2>2
  <1>6. \A name : InBatch(name)' => InBatch(name)
    BY <1>1 DEF InBatch
  <1>7. ASSUME NEW name, InBatch(name)'
        PROVE  \E i \in DOMAIN batch : i # 1 /\ batch[i].name = name /\ batch[i].kind # batch[1].kind
    BY <1>1, <1>7 DEF InBatch, OneOfAKind
  <1>8. ASSUME NEW name, InBatch(name)'
        PROVE  /\ batch[1].name \in EventNames => name \notin EventNames
               /\ batch[1].name \in CommandNames => name \notin CommandNames
    <2>1. PICK i \in DOMAIN batch : i # 1 /\ batch[i].name = name /\ batch[i].kind # batch[1].kind
      BY <1>7, <1>8
    <2> QED BY <1>1, <1>2, <2>1, ItemFacts
  <1> QED BY <1>4, <1>5, <1>6, <1>8

LEMMA ControlInit == Init => Control /\ OneOfAKind
  BY DEF Init, Control, OneOfAKind, Launching, Over

LEMMA ControlStep ==
    ASSUME TypeOK, Control, OneOfAKind, Next
    PROVE  Control' /\ OneOfAKind'
  <1> USE DEF Launching, Over
  <1>1. CASE \/ EarlierStops \/ CancelRun \/ \E n \in Changes : ChangeBreakpoints(n)
             \/ \E c \in {"continue", "step", "pause", "stop", "frame"} : debug_command(c)
    <2>1. UNCHANGED <<pc, sessionVars, programVars, adapterLines>>
      BY <1>1, PutEffect DEF EarlierStops, CancelRun, debug_command
    <2> QED BY <2>1 DEF Control, OneOfAKind
  <1>2. CASE Stops \/ Exits \/ HangsUp
    <2>1. /\ UNCHANGED <<pc, sessionVars, adapterLines>> /\ program # "off" /\ program' # "off"
          /\ program' = "killed" => adapter' = "down"
          /\ pc \notin Launching
      BY <1>2 DEF Stops, Exits, HangsUp, Eof, Control
    <2> QED BY <2>1 DEF Control, OneOfAKind
  <1>3. CASE Subscribe \/ Start \/ Initialize
    <2>1. CASE Subscribe
      BY <2>1 DEF Subscribe, Control, OneOfAKind
    <2>2. CASE Start
      BY <2>2 DEF Start, Leave, Control, OneOfAKind
    <2>3. CASE Initialize
      BY <2>3 DEF Initialize, Leave, Control, OneOfAKind
    <2> QED BY <1>3, <2>1, <2>2, <2>3
  <1>4. CASE Launch
    BY <1>4 DEF Launch, Leave, Control, OneOfAKind
  <1>5. CASE Started
    BY <1>5 DEF Started, Leave, Control, OneOfAKind
  <1>6. CASE Limit
    BY <1>6 DEF Limit, Leave, Control, OneOfAKind
  <1>7. CASE DetailsLoad \/ DetailsSave \/ DetailsPublish
    <2>1. /\ (details' = details /\ detailsPc # "none" /\ detailsPc' # "none") \/ (details' = 0 /\ detailsPc' = "none")
          /\ UNCHANGED <<pc, batch, paused, programVars, adapterLines>>
      BY <1>7 DEF DetailsLoad, DetailsSave, DetailsPublish
    <2> QED BY <2>1 DEF Control, OneOfAKind
  <1>8. CASE Close
    <2>1. OneOfAKind'
      BY <1>8 DEF Close, OneOfAKind
    <2> QED BY <1>8, <2>1 DEF Close, CancelDetails, Stop, Control
  <1>9. CASE Unsave \/ Stopped \/ Clear \/ Record \/ ClearAgain
    <2>1. UNCHANGED <<sessionVars, programVars>> /\ pc \in Over /\ pc' \in Over
      BY <1>9 DEF Unsave, Stopped, Clear, Record, ClearAgain
    <2> QED BY <2>1 DEF Control, OneOfAKind
  <1>10. CASE Receive
    <2>1. batch' # <<>> /\ OneOfAKind' /\ (events = <<>> => events' = <<>>)
      BY <1>10, ReceiveShape
    <2> QED BY <1>10, <2>1 DEF Receive, Control
  <1>p. ASSUME batch # <<>>, NEW fin \in BOOLEAN, Handled(fin), pc \in Looping \ {"loop"},
               details' = 0 <=> detailsPc' = "none",
               details' # 0 => paused',
               program' = "off" => program = "off" /\ events' = events,
               program' = "killed" => program = "killed",
               UNCHANGED adapter
        PROVE  Control' /\ OneOfAKind'
    <2>1. /\ pc' \in {"handle", "loop", "close"} /\ (pc' = "handle" => batch' # <<>>)
          /\ (pc' = "loop" => batch' = <<>>) /\ OneOfAKind'
      BY <1>p, Popped, PoppedBatch
    <2> QED BY <1>p, <2>1 DEF Control
  <1>11. CASE HandleEnd \/ HandleClosed
    <2>1. \E fin \in BOOLEAN : Handled(fin)
      BY <1>11 DEF HandleEnd, HandleClosed, ClosedEnds
    <2>2. pc = "handle" /\ batch # <<>>
      BY <1>11, Handles DEF HandleEnd, HandleClosed
    <2>3. UNCHANGED <<paused, details, detailsPc, programVars>>
      BY <1>11 DEF HandleEnd, HandleClosed
    <2> QED BY <1>p, <2>1, <2>2, <2>3 DEF Looping, Control
  <1>12. CASE HandleStopped
    <2>1. Handling("event", "stopped") /\ batch[1].name = "stopped" /\ batch # <<>>
      BY <1>12, Handles DEF HandleStopped
    <2> QED BY <1>12, <2>1 DEF HandleStopped, Control, OneOfAKind
  <1>13. CASE PublishPaused
    <2>1. batch \in Seq(Item) /\ batch # <<>> /\ batch[1] \in Item /\ 1 \in DOMAIN batch
      BY <1>13, Shrink DEF PublishPaused, Control, TypeOK
    <2>2. CASE pc' = "save" /\ batch' = [batch EXCEPT ![1] = PausedAt(TopFrame)]
      <3>1. batch[1].kind = "event" /\ DOMAIN batch' = DOMAIN batch /\ batch' # <<>>
        BY <1>13, <2>1, <2>2, ItemFacts DEF PublishPaused, Control, EventNames
      <3>2. batch'[1].name = "stopped" /\ \A i \in DOMAIN batch : batch'[i].kind = batch[i].kind
        BY <2>1, <2>2, <3>1 DEF PausedAt
      <3>3. OneOfAKind'
        BY <3>1, <3>2 DEF OneOfAKind
      <3> QED BY <1>13, <2>2, <3>1, <3>2, <3>3 DEF PublishPaused, Control
    <2>3. CASE Leave("error") /\ UNCHANGED batch
      BY <1>13, <2>3 DEF PublishPaused, Leave, Control, OneOfAKind
    <2> QED BY <1>13, <2>2, <2>3 DEF PublishPaused
  <1>14. CASE SavePaused
    <2>1. /\ pc = "save" /\ batch # <<>> /\ Handled(FALSE) /\ paused /\ UNCHANGED <<paused, programVars>>
          /\ details' = 0 <=> detailsPc' = "none"
      BY <1>14 DEF SavePaused, Control
    <2> QED BY <1>p, <2>1 DEF Looping
  <1>15. CASE HandleContinued
    <2>1. Handling("event", "continued") /\ batch[1].name = "continued" /\ batch # <<>> /\ pc = "handle"
      BY <1>15, Handles DEF HandleContinued
    <2>2. CASE Handled(FALSE)
      BY <1>15, <1>p, <2>1, <2>2 DEF HandleContinued, CancelDetails, Looping
    <2>3. CASE pc' = "resumed" /\ UNCHANGED batch
      BY <1>15, <2>1, <2>3 DEF HandleContinued, CancelDetails, Control, OneOfAKind
    <2> QED BY <1>15, <2>2, <2>3 DEF HandleContinued
  <1>16. CASE ClearPaused
    <2>1. /\ pc = "resumed" /\ batch # <<>> /\ Handled(FALSE) /\ UNCHANGED <<paused, details, detailsPc, programVars>>
      BY <1>16 DEF ClearPaused, Control
    <2> QED BY <1>p, <2>1 DEF Looping, Control
  <1>17. ASSUME NEW name \in {"continue", "step"}, HandleStep(name) PROVE Control' /\ OneOfAKind'
    <2>1. pc = "handle" /\ batch # <<>> /\ Handled(FALSE)
      BY <1>17, Handles DEF HandleStep
    <2>2. /\ UNCHANGED <<adapter, paused>>
          /\ program' = "off" => program = "off" /\ events' = events
          /\ program' = "killed" => program = "killed"
      BY <1>17, GrowNone DEF HandleStep, Answered, Emit, TypeOK
    <2>3. (details' = 0 /\ detailsPc' = "none") \/ UNCHANGED <<details, detailsPc>>
      BY <1>17 DEF HandleStep, CancelDetails
    <2> QED BY <1>p, <2>1, <2>2, <2>3 DEF Looping, Control
  <1>18. CASE HandlePause \/ HandleFrame \/ HandleBreakpoints
    <2>1. pc = "handle" /\ batch # <<>> /\ Handled(FALSE)
      BY <1>18, Handles DEF HandlePause, HandleFrame, HandleBreakpoints
    <2>2. /\ UNCHANGED <<paused, programVars>>
          /\ (details' = 0 /\ detailsPc' = "none") \/ UNCHANGED <<details, detailsPc>>
      BY <1>18 DEF HandlePause, HandleFrame, HandleBreakpoints, CancelDetails
    <2> QED BY <1>p, <2>1, <2>2 DEF Looping, Control
  <1> QED BY <1>1, <1>2, <1>3, <1>4, <1>5, <1>6, <1>7, <1>8, <1>9, <1>10, <1>11, <1>12, <1>13, <1>14, <1>15,
             <1>16, <1>17, <1>18
          DEF Next, WorkerStep

(***************************************************************************)
(* The outcome                                                             *)
(***************************************************************************)

LEMMA OutcomeInit == Init => Outcome
  BY DEF Init, Outcome, OutcomeIsTrue, InBatch, ExitedSent, StopSent, NoCode

\* A step that neither ends the session nor invents a message
LEMMA OutcomeFrame ==
    ASSUME Outcome, UNCHANGED <<row, code, asked, exitCode, cancel>>,
           program = "ended" => program' = "ended",
           \A name \in {"exited", "cancel", "stop"} : InBatch(name)' => InBatch(name),
           ExitedSent' => ExitedSent, StopSent' => StopSent,
           reason' \in {"stopped", "cancelled"} => reason' = reason
    PROVE  Outcome'
  BY DEF Outcome, OutcomeIsTrue

LEMMA OutcomeStep ==
    ASSUME TypeOK, Control, OneOfAKind, Outcome, Next
    PROVE  Outcome'
  <1>1. CASE EarlierStops \/ DetailsLoad \/ DetailsSave \/ DetailsPublish \/ Subscribe
             \/ Unsave \/ Stopped \/ Clear \/ ClearAgain \/ HandleStopped
    <2>1. UNCHANGED <<row, code, asked, exitCode, cancel, program, batch, events, commands, reason>>
      BY <1>1 DEF EarlierStops, DetailsLoad, DetailsSave, DetailsPublish, Subscribe,
                  Unsave, Stopped, Clear, ClearAgain, HandleStopped
    <2> QED BY <2>1 DEF Outcome, OutcomeIsTrue, InBatch, ExitedSent, StopSent
  <1>2. CASE Start \/ Initialize \/ Launch \/ Started \/ Limit
    <2>1. /\ UNCHANGED <<row, code, asked, exitCode, cancel, batch, events, commands>>
          /\ program = "ended" => program' = "ended"
          /\ reason' \in {"stopped", "cancelled"} => reason' = reason
      BY <1>2 DEF Start, Initialize, Launch, Started, Limit, Limits, Leave, Control, Launching
    <2> QED BY <2>1, OutcomeFrame DEF InBatch, ExitedSent, StopSent
  <1>3. CASE CancelRun
    BY <1>3 DEF CancelRun, Outcome, OutcomeIsTrue, InBatch, ExitedSent, StopSent
  <1>4. ASSUME NEW n \in Changes, ChangeBreakpoints(n) PROVE Outcome'
    <2>1. /\ UNCHANGED <<row, code, asked, exitCode, cancel, program, batch, events, reason>>
          /\ commands' \in {commands, Append(commands, LinesCommand(n))}
          /\ LinesCommand(n) \in Command /\ LinesCommand(n).name = "setBreakpoints"
      BY <1>4, PutEffect
    <2>2. StopSent' => StopSent
      <3>1. commands \in Seq(Command)
        BY DEF TypeOK
      <3> QED BY <2>1, <3>1, Grow DEF StopSent
    <2> QED BY <2>1, <2>2, OutcomeFrame DEF InBatch, ExitedSent
  <1>5. ASSUME NEW c \in {"continue", "step", "pause", "stop", "frame"}, debug_command(c) PROVE Outcome'
    <2>1. /\ UNCHANGED <<row, code, exitCode, cancel, program, batch, events, reason>>
          /\ commands' \in {commands, Append(commands, [name |-> c, arg |-> view.paused])}
          /\ asked' = (asked \/ c = "stop")
      BY <1>5 DEF debug_command, send_command, Relay
    <2>2. StopSent' => StopSent \/ c = "stop"
      <3>1. commands \in Seq(Command) /\ [name |-> c, arg |-> view.paused] \in Command
        BY SessionAssumption DEF TypeOK, Command, CommandNames, NotPaused
      <3> QED BY <2>1, <3>1, Grow DEF StopSent
    <2> QED BY <2>1, <2>2 DEF Outcome, OutcomeIsTrue, InBatch, ExitedSent
  <1>6. CASE Stops \/ HangsUp
    <2>1. /\ UNCHANGED <<row, code, asked, exitCode, cancel, batch, commands, reason>> /\ program # "ended"
          /\ events' = events \o <<"stopped">> \/ events' = events \o <<"_closed">>
      BY <1>6 DEF Stops, HangsUp, Emit
    <2>2. ExitedSent' => ExitedSent
      <3>1. events \in Seq(EventNames) /\ "stopped" \in EventNames /\ "_closed" \in EventNames
        BY DEF TypeOK, EventNames
      <3>2. ASSUME NEW x \in EventNames, x # "exited", events' = events \o <<x>> PROVE ExitedSent' => ExitedSent
        <4>1. events' = Append(events, x)
          BY <3>1, <3>2, Grow
        <4>2. /\ DOMAIN events' = DOMAIN events \union {Len(events) + 1} /\ events'[Len(events) + 1] = x
              /\ \A i \in DOMAIN events : events'[i] = events[i]
          BY <3>1, <4>1, Grow
        <4> QED BY <3>2, <4>2 DEF ExitedSent
      <3> QED BY <2>1, <3>1, <3>2
    <2> QED BY <2>1, <2>2, OutcomeFrame DEF InBatch, StopSent
  <1>7. CASE Exits
    <2>1. /\ UNCHANGED <<row, asked, exitCode, cancel, batch, commands, reason>> /\ program # "ended" /\ program' = "ended"
      BY <1>7 DEF Exits
    <2> QED BY <2>1 DEF Outcome, OutcomeIsTrue, InBatch, StopSent
  <1>8. CASE Receive
    <2>1. UNCHANGED <<row, code, asked, exitCode, cancel, program, reason>>
      BY <1>8 DEF Receive
    <2>2. PICK K \in SUBSET {"event", "command", "cancel"} :
             /\ \A i \in DOMAIN batch' : \E k \in K : batch'[i] = Received(k)
             /\ "event" \in K => events # <<>> /\ events' = Tail(events)
             /\ "event" \notin K => events' = events
             /\ "command" \in K => commands # <<>> /\ commands' = Tail(commands)
             /\ "command" \notin K => commands' = commands
             /\ "cancel" \in K => cancel
      BY <1>8, ReceiveShape
    <2>3. events \in Seq(EventNames) /\ commands \in Seq(Command)
      BY DEF TypeOK
    <2>4. ExitedSent' => ExitedSent
      <3>1. CASE "event" \in K
        <4>1. events # <<>> /\ events' = Tail(events)
          BY <2>2, <3>1
        <4>2. \A i \in DOMAIN events' : i + 1 \in DOMAIN events /\ events'[i] = events[i + 1]
          BY <2>3, <4>1, Shrink
        <4> QED BY <4>2 DEF ExitedSent
      <3>2. CASE "event" \notin K
        BY <2>2, <3>2 DEF ExitedSent
      <3> QED BY <3>1, <3>2
    <2>5. StopSent' => StopSent
      <3>1. CASE "command" \in K
        <4>1. commands # <<>> /\ commands' = Tail(commands)
          BY <2>2, <3>1
        <4>2. \A i \in DOMAIN commands' : i + 1 \in DOMAIN commands /\ commands'[i] = commands[i + 1]
          BY <2>3, <4>1, Shrink
        <4> QED BY <4>2 DEF StopSent
      <3>2. CASE "command" \notin K
        BY <2>2, <3>2 DEF StopSent
      <3> QED BY <3>1, <3>2
    <2>6. "event" \in K => /\ Received("event").name = events[1] /\ 1 \in DOMAIN events /\ events[1] \in EventNames
      BY <2>2, <2>3, Shrink DEF Received
    <2>7. "command" \in K => /\ Received("command").name = commands[1].name /\ 1 \in DOMAIN commands
                             /\ commands[1].name \in CommandNames
      BY <2>2, <2>3, Shrink, ItemFacts DEF Received
    <2>8. Received("cancel").name = "cancel"
      BY DEF Received
    <2>9. InBatch("exited")' => ExitedSent
      BY <2>2, <2>6, <2>7, <2>8 DEF InBatch, ExitedSent, CommandNames
    <2>10. InBatch("stop")' => StopSent
      BY <2>2, <2>6, <2>7, <2>8 DEF InBatch, StopSent, EventNames
    <2>11. InBatch("cancel")' => cancel
      BY <2>2, <2>6, <2>7, <2>8 DEF InBatch, EventNames, CommandNames
    <2> QED BY <2>1, <2>4, <2>5, <2>9, <2>10, <2>11 DEF Outcome, OutcomeIsTrue
  <1>9. CASE HandleEnd
    <2>1. /\ UNCHANGED <<row, code, asked, cancel, program, events, commands>>
          /\ batch # <<>> /\ \E fin \in BOOLEAN : Handled(fin)
      BY <1>9, Handles DEF HandleEnd
    <2>2. \A name : InBatch(name)' => InBatch(name)
      BY <2>1, PoppedBatch
    <2>3. 1 \in DOMAIN batch
      BY <2>1, Shrink DEF TypeOK
    <2>4. \/ batch[1].name \in {"cancel", "stop"} /\ UNCHANGED exitCode
          \/ batch[1].name = "exited" /\ exitCode' = code /\ UNCHANGED reason
          \/ UNCHANGED <<reason, exitCode>>
      BY <1>9, Handles DEF HandleEnd
    <2>5. batch[1].name = "exited" => InBatch("exited")
      BY <2>3 DEF InBatch
    <2>6. batch[1].name \in {"cancel", "stop"} => InBatch("cancel") \/ InBatch("stop")
      BY <2>3 DEF InBatch
    <2> QED BY <2>1, <2>2, <2>4, <2>5, <2>6 DEF Outcome, OutcomeIsTrue, ExitedSent, StopSent
  <1>10. CASE HandleClosed \/ HandlePause \/ HandleFrame \/ HandleBreakpoints
    <2>1. /\ UNCHANGED <<row, code, asked, exitCode, cancel, program, reason, events, commands>>
          /\ batch # <<>> /\ \E fin \in BOOLEAN : Handled(fin)
      BY <1>10, Handles DEF HandleClosed, ClosedEnds, HandlePause, HandleFrame, HandleBreakpoints
    <2> QED BY <2>1, PoppedBatch, OutcomeFrame DEF ExitedSent, StopSent
  <1>11. CASE SavePaused \/ ClearPaused
    <2>1. /\ UNCHANGED <<row, code, asked, exitCode, cancel, program, reason, events, commands>>
          /\ batch # <<>> /\ Handled(FALSE)
      BY <1>11 DEF SavePaused, ClearPaused, Control
    <2> QED BY <2>1, PoppedBatch, OutcomeFrame DEF ExitedSent, StopSent
  <1>12. CASE HandleContinued
    <2>1. /\ UNCHANGED <<row, code, asked, exitCode, cancel, program, reason, events, commands>>
          /\ batch # <<>> /\ (UNCHANGED batch \/ Handled(FALSE))
      BY <1>12, Handles DEF HandleContinued
    <2>2. \A name : InBatch(name)' => InBatch(name)
      BY <2>1, PoppedBatch DEF InBatch
    <2> QED BY <2>1, <2>2, OutcomeFrame DEF ExitedSent, StopSent
  <1>13. CASE PublishPaused
    <2>1. /\ UNCHANGED <<row, code, asked, exitCode, cancel, program, events, commands>>
          /\ reason' \in {reason, "error"}
          /\ batch' = batch \/ batch' = [batch EXCEPT ![1] = PausedAt(TopFrame)]
          /\ batch \in Seq(Item)
      BY <1>13 DEF PublishPaused, Leave, TypeOK
    <2>2. \A name \in {"exited", "cancel", "stop"} : InBatch(name)' => InBatch(name)
      BY <2>1 DEF InBatch, PausedAt
    <2> QED BY <2>1, <2>2, OutcomeFrame DEF ExitedSent, StopSent
  <1>14. ASSUME NEW name \in {"continue", "step"}, HandleStep(name) PROVE Outcome'
    <2>1. /\ UNCHANGED <<row, code, asked, exitCode, cancel, reason, commands>>
          /\ program = "ended" => program' = "ended"
          /\ batch # <<>> /\ Handled(FALSE)
      BY <1>14, Handles DEF HandleStep, Answered
    <2>2. ExitedSent' => ExitedSent
      <3>1. events \in Seq(EventNames) /\ "continued" \in EventNames
        BY DEF TypeOK, EventNames
      <3>2. events' = events \/ events' = events \o <<"continued">> \/ events' = events \o <<>>
        BY <1>14 DEF HandleStep, Emit
      <3> QED BY <3>1, <3>2, Grow, GrowNone DEF ExitedSent
    <2> QED BY <2>1, <2>2, PoppedBatch, OutcomeFrame DEF StopSent
  <1>15. CASE Close
    <2>1. /\ UNCHANGED <<row, code, asked, exitCode, cancel, reason>> /\ batch' = <<>> /\ events' = <<>> /\ commands' = <<>>
          /\ program = "ended" => program' = "ended"
      BY <1>15 DEF Close, Stop
    <2> QED BY <2>1, OutcomeFrame DEF InBatch, ExitedSent, StopSent
  <1>16. CASE Record
    <2>1. /\ UNCHANGED <<code, asked, exitCode, cancel, program, batch, events, commands, reason>>
          /\ row' = IF row = "running" THEN TargetStatus ELSE row
      BY <1>16 DEF Record
    <2>2. /\ reason \in {"exited", "stopped", "timeout", "idle", "cancelled", "error"}
          /\ TargetStatus = "cancelled" => reason \in {"stopped", "cancelled"}
          /\ TargetStatus = "completed" => exitCode = 0
      BY DEF TargetStatus, TypeOK
    <2>3. row' = "completed" => row = "completed" \/ exitCode = 0
      BY <2>1, <2>2
    <2>4. row' = "cancelled" => row = "cancelled" \/ reason \in {"stopped", "cancelled"}
      BY <2>1, <2>2
    <2> QED BY <2>1, <2>3, <2>4 DEF Outcome, OutcomeIsTrue, InBatch, ExitedSent, StopSent, NoCode
  <1> QED BY <1>1, <1>2, <1>3, <1>4, <1>5, <1>6, <1>7, <1>8, <1>9, <1>10, <1>11, <1>12, <1>13, <1>14, <1>15, <1>16
          DEF Next, WorkerStep

(***************************************************************************)
(* The state key                                                           *)
(***************************************************************************)

LEMMA ClearedInit == Init => Cleared
  BY DEF Init, Cleared

LEMMA ClearedStep ==
    ASSUME TypeOK, Control, Cleared, Next
    PROVE  Cleared'
  <1> USE DEF Cleared
  <1>1. CASE Unsave
    <2>1. stored' # NotPaused => faults' = faults + 1
      BY <1>1, Saved, ViewFacts DEF Unsave
    <2> QED BY <1>1, <2>1 DEF Unsave, TypeOK
  <1>2. CASE Stopped
    <2>1. faults' >= faults /\ faults \in Nat /\ faults' \in Nat
      BY <1>2, Failures DEF Stopped, Publish
    <2> QED BY <1>2, <2>1 DEF Stopped
  <1>3. CASE Clear \/ ClearAgain
    <2>1. stored' = NotPaused \/ (stored' = stored /\ faults' = faults + 1)
      BY <1>3 DEF Clear, ClearAgain, ClearKeys, Fault
    <2>2. faults \in Nat
      BY SessionAssumption DEF TypeOK
    <2> QED BY <1>3, <2>1, <2>2 DEF Clear, ClearAgain
  <1>4. CASE Record
    BY <1>4 DEF Record
  <1>5. CASE pc' \notin Over
    BY <1>5 DEF Over
  <1>6. CASE pc' = "unsave"
    BY <1>6
  <1>7. CASE UNCHANGED <<pc, stored>> /\ (NoFault \/ Fault)
    <2>1. faults' >= faults /\ faults \in Nat /\ faults' \in Nat
      BY <1>7, Failures
    <2> QED BY <1>7, <2>1
  <1>8. ASSUME \/ EarlierStops \/ CancelRun \/ (\E n \in Changes : ChangeBreakpoints(n)) \/ Stops \/ Exits \/ HangsUp
               \/ DetailsLoad \/ DetailsPublish
               \/ \E c \in {"continue", "step", "pause", "stop", "frame"} : debug_command(c)
        PROVE  UNCHANGED <<pc, stored>> /\ (NoFault \/ Fault)
    BY <1>8, PutEffect DEF EarlierStops, CancelRun, Stops, Exits, HangsUp, DetailsLoad,
                DetailsPublish, debug_command, Publish
  <1>9. ASSUME DetailsSave PROVE pc' \notin Over
    BY <1>9 DEF DetailsSave, Control
  <1>10. ASSUME Subscribe \/ Start \/ Initialize \/ Launch \/ Started \/ Limit \/ Receive \/ HandleStopped \/ PublishPaused
         PROVE  pc' \notin Over
    BY <1>10 DEF Subscribe, Start, Initialize, Launch, Started, Limit, Receive, HandleStopped, PublishPaused, Leave, Over
  <1>11. ASSUME NEW fin, Handled(fin) PROVE pc' \notin Over
    BY <1>11 DEF Handled, Over
  <1>12. ASSUME \/ HandleEnd \/ HandleClosed \/ SavePaused \/ ClearPaused \/ HandlePause \/ HandleFrame
                \/ HandleBreakpoints \/ HandleStep("continue") \/ HandleStep("step")
         PROVE  pc' \notin Over
    BY <1>11, <1>12 DEF HandleEnd, HandleClosed, SavePaused, ClearPaused, HandlePause, HandleFrame,
                        HandleBreakpoints, HandleStep
  <1>13. ASSUME HandleContinued PROVE pc' \notin Over
    BY <1>11, <1>13 DEF HandleContinued, Over
  <1>14. ASSUME Close PROVE pc' = "unsave"
    BY <1>14 DEF Close
  <1> QED BY <1>1, <1>2, <1>3, <1>4, <1>5, <1>6, <1>7, <1>8, <1>9, <1>10, <1>12, <1>13, <1>14 DEF Next, WorkerStep

(***************************************************************************)
(* The breakpoints                                                         *)
(***************************************************************************)

LEMMA LinesInit == Init => Lines
  <1> SUFFICES ASSUME Init PROVE Lines
    OBVIOUS
  <1>1. commands = <<>> /\ batch = <<>> /\ adapterLines = 0 /\ lines = {0}
    BY DEF Init
  <1>2. LinesTell(0)
    BY <1>1 DEF LinesTell, NoneOf, InBatch
  <1>3. \A n \in Changes : put[n] = "idle"
    BY DEF Init
  <1> QED BY <1>1, <1>2, <1>3 DEF Init, Lines, Alone, InProgress, TableTold

\* A step that does not touch the table and its PUTs
LEMMA LinesKeep ==
    ASSUME Lines, UNCHANGED <<lineVars>>,
           pc' = "subscribe" => pc = "subscribe" /\ UNCHANGED <<listening, commands>>,
           pc' # "subscribe" /\ InSession' => listening', InSession' => InSession,
           adapter = "down" => adapter' = "down",
           \A k \in Nat : InSession /\ adapter # "down" /\ LinesTell(k) => LinesTell(k)'
    PROVE  Lines'
  <1>1. InProgress' = InProgress /\ (Alone => Alone')
    BY DEF InProgress, Alone
  <1>2. InSession /\ adapter # "down" /\ TableTold => TableTold'
    BY DEF TableTold
  <1> QED BY <1>1, <1>2 DEF Lines

\* A step that does not touch what is sent about the breakpoints either
LEMMA LinesFrame ==
    ASSUME Lines, UNCHANGED <<lineVars, commands, listening, adapterLines>>,
           pc' = "subscribe" <=> pc = "subscribe", InSession' => InSession,
           adapter = "down" => adapter' = "down",
           \A n : BatchLines(n)' <=> BatchLines(n),
           InBatch("setBreakpoints")' <=> InBatch("setBreakpoints")
    PROVE  Lines'
  <1>1. \A k \in Nat : LinesTell(k) => LinesTell(k)'
    BY DEF LinesTell, LastOf, NoneOf
  <1>2. pc' # "subscribe" /\ InSession' => listening'
    BY DEF Lines
  <1> QED BY <1>1, <1>2, LinesKeep

\* The session is over.
LEMMA LinesOver ==
    ASSUME Lines, UNCHANGED lineVars, ~InSession', pc' # "subscribe"
    PROVE  Lines'
  <1>1. InProgress' = InProgress /\ (Alone => Alone')
    BY DEF InProgress, Alone
  <1> QED BY <1>1 DEF Lines

\* Another message than new lines is handled.
LEMMA LinesPopped ==
    ASSUME TypeOK, Control, OneOfAKind, Lines, batch # <<>>, batch[1].name # "setBreakpoints", NEW fin \in BOOLEAN, Handled(fin),
           pc \in Looping, UNCHANGED <<lineVars, commands, listening, adapterLines, adapter>>
    PROVE  Lines'
  <1>1. /\ \A i \in DOMAIN batch' : i + 1 \in DOMAIN batch /\ i + 1 # 1 /\ batch'[i] = batch[i + 1]
        /\ \A i \in DOMAIN batch : i # 1 => i - 1 \in DOMAIN batch' /\ batch'[i - 1] = batch[i]
        /\ pc' # "subscribe"
    BY Popped
  <1>2. \A n : BatchLines(n)' <=> BatchLines(n)
    BY <1>1 DEF BatchLines
  <1>3. InBatch("setBreakpoints")' <=> InBatch("setBreakpoints")
    BY PoppedBatch
  <1>4. InSession /\ pc # "subscribe"
    BY DEF InSession, Looping
  <1> QED BY <1>1, <1>2, <1>3, <1>4, LinesFrame

\* What is lost stays lost.
LEMMA Lossy ==
    ASSUME TypeOK, lost
    PROVE  /\ \A e : Publish(e) => lost'
           /\ \A at : Save(at) => lost'
           /\ HandleFrame \/ HandleContinued \/ SavePaused \/ ClearPaused => lost'
  <1>1. ASSUME NEW e, Publish(e) PROVE lost'
    BY <1>1 DEF Publish
  <1>2. ASSUME NEW at, Save(at) PROVE lost'
    BY <1>2 DEF Save
  <1>3. ASSUME HandleFrame PROVE lost'
    BY <1>1, <1>3 DEF HandleFrame
  <1>4. ASSUME HandleContinued PROVE lost'
    BY <1>1, <1>4 DEF HandleContinued
  <1>5. ASSUME SavePaused \/ ClearPaused PROVE lost'
    BY <1>2, <1>5 DEF SavePaused, ClearPaused
  <1> QED BY <1>1, <1>2, <1>3, <1>4, <1>5

LEMMA LinesStep ==
    ASSUME TypeOK, Control, OneOfAKind, Lines, Next
    PROVE  Lines'
  <1>t. /\ commands \in Seq(Command) /\ batch \in Seq(Item)
        /\ \A n \in Nat : LinesCommand(n) \in Command /\ LinesCommand(n) \in SetLines
    BY SessionAssumption DEF TypeOK, LinesCommand, SetLines, Command, CommandNames
  <1>p. DOMAIN put = Changes /\ DOMAIN seen = Changes
    BY DEF TypeOK
  <1>1. CASE Stops \/ Exits \/ HangsUp \/ EarlierStops \/ CancelRun \/ DetailsLoad \/ DetailsSave \/ DetailsPublish
    <2>1. /\ UNCHANGED <<lineVars, commands, listening, adapterLines, batch, pc>>
          /\ adapter = "down" => adapter' = "down"
      BY <1>1 DEF Stops, Exits, HangsUp, EarlierStops, CancelRun, DetailsLoad, DetailsSave, DetailsPublish, Eof,
                  Save, Publish
    <2> QED BY <2>1, LinesFrame DEF InSession, BatchLines, InBatch
  <1>2. CASE Start \/ Initialize \/ Started \/ Limit \/ HandleStopped
    <2>1. /\ UNCHANGED <<lineVars, commands, listening, adapterLines, batch>>
          /\ pc # "subscribe" /\ pc' # "subscribe" /\ InSession
          /\ adapter = "down" => adapter' = "down"
      BY <1>2 DEF Start, Initialize, Started, Limit, HandleStopped, Handling, Leave, InSession, Publish, Control
    <2> QED BY <2>1, LinesFrame DEF BatchLines, InBatch
  <1>3. CASE Launch
    <2>1. /\ UNCHANGED <<lineVars, commands, listening, adapter, batch>>
          /\ pc # "subscribe" /\ pc' # "subscribe" /\ InSession
          /\ adapterLines' = adapterLines
      BY <1>3 DEF Launch, Leave, InSession, set_breakpoints, Control, Launching, Lines
    <2> QED BY <2>1, LinesFrame DEF BatchLines, InBatch
  <1>4. CASE Subscribe
    <2>1. /\ UNCHANGED <<lineVars, commands, adapter, batch, adapterLines>>
          /\ listening' = TRUE /\ pc' = "start" /\ InSession
      BY <1>4 DEF Subscribe, InSession
    <2>2. \A k \in Nat : LinesTell(k) => LinesTell(k)'
      BY <2>1 DEF LinesTell, LastOf, NoneOf, BatchLines, InBatch
    <2> QED BY <2>1, <2>2, LinesKeep
  <1>5. CASE Close \/ Unsave \/ Stopped \/ Clear \/ Record \/ ClearAgain
    <2>1. UNCHANGED lineVars /\ pc' \in Over
      BY <1>5 DEF Close, Unsave, Stopped, Clear, Record, ClearAgain, Over
    <2> QED BY <2>1, LinesOver DEF InSession, Over
  <1>6. ASSUME NEW n \in Changes, set_file_breakpoints(n) PROVE Lines'
    <2>1. /\ UNCHANGED <<pc, known, commands, listening, lines>>
          /\ put' = [put EXCEPT ![n] = "replace"] /\ seen' = [seen EXCEPT ![n] = lines]
          /\ crossed' = (InProgress # {})
      BY <1>6 DEF set_file_breakpoints, Replace
    <2>2. put'[n] = "replace" /\ seen'[n] = lines /\ \A m \in Changes : m # n => put'[m] = put[m]
      BY <1>p, <2>1
    <2>3. InProgress' = InProgress \union {n}
      BY <2>2 DEF InProgress
    <2>4. ~crossed' => Alone'
      <3> SUFFICES ASSUME InProgress = {} PROVE Alone'
        BY <2>1
      <3>1. InProgress' = {n}
        BY <2>3
      <3>2. \A m \in Changes : put'[m] \in {"replace", "refresh", "announce"} => m = n
        BY <3>1 DEF InProgress
      <3> QED BY <2>1, <2>2, <3>1, <3>2 DEF Alone
    <2> QED BY <2>1, <2>3, <2>4 DEF Lines, InSession
  <1>7. ASSUME NEW n \in Changes, Commit(n) PROVE Lines'
    <2>1. /\ UNCHANGED <<pc, known, commands, listening, missed, crossed>>
          /\ put[n] = "replace" /\ put' = [put EXCEPT ![n] = "refresh"]
          /\ lines' = (lines \ seen[n]) \union {n}
      BY <1>7 DEF Commit
    <2>2. put'[n] = "refresh" /\ \A m \in Changes : m # n => put'[m] = put[m]
      BY <1>p, <2>1
    <2>3. InProgress' = InProgress /\ n \in InProgress'
      BY <2>1, <2>2 DEF InProgress
    <2>4. ASSUME ~crossed PROVE Alone'
      <3>1. Alone
        BY <2>4 DEF Lines
      <3>2. lines' = {n}
        BY <2>1, <3>1 DEF Alone
      <3>3. \A m \in Changes : put'[m] \in {"replace", "refresh", "announce"} => m = n
        BY <2>3, <3>1 DEF InProgress, Alone
      <3> QED BY <2>2, <2>3, <3>1, <3>2, <3>3 DEF Alone
    <2> QED BY <2>1, <2>3, <2>4 DEF Lines, InSession
  <1>16. ASSUME NEW n \in Changes, Refresh(n) PROVE Lines'
    <2>1. /\ UNCHANGED <<pc, known, commands, listening, lines, seen, crossed>>
          /\ put[n] = "refresh"
          /\ \/ put' = [put EXCEPT ![n] = "announce"]
             \/ n \notin lines /\ put' = [put EXCEPT ![n] = "done"]
             \/ missed' /\ put' = [put EXCEPT ![n] = "done"]
      BY <1>16 DEF Refresh
    <2>2. put'[n] \in {"announce", "done"} /\ \A m \in Changes : m # n => put'[m] = put[m]
      BY <1>p, <2>1
    <2>3. InProgress' \subseteq InProgress
      BY <2>1, <2>2 DEF InProgress
    <2>4. ASSUME ~crossed PROVE Alone' /\ (n \in InProgress' \/ missed')
      <3>1. Alone
        BY <2>4 DEF Lines
      <3>2. n \in lines
        BY <2>1, <3>1 DEF Alone
      <3>3. put'[n] = "announce" \/ missed'
        BY <1>p, <2>1, <3>2
      <3>4. \A m \in Changes : put'[m] # put[m] => m = n /\ put[m] = "refresh"
        BY <2>1, <2>2
      <3>5. Alone'
        BY <2>1, <2>2, <2>3, <3>1, <3>4 DEF Alone
      <3> QED BY <3>3, <3>5 DEF InProgress
    <2> QED BY <2>1, <2>4 DEF Lines, InSession
  <1>17. ASSUME NEW n \in Changes, Announce(n) PROVE Lines'
    <2>1. /\ UNCHANGED <<pc, known, adapter, batch, adapterLines, listening, lines, seen, crossed>>
          /\ put[n] = "announce" /\ put' = [put EXCEPT ![n] = "done"]
          /\ \/ /\ commands' = IF listening /\ InSession THEN Append(commands, LinesCommand(n)) ELSE commands
                /\ missed' = (missed \/ ~listening)
             \/ commands' = commands /\ missed'
      BY <1>17 DEF Announce, send_command, Relay, LinesCommand
    <2>2. put'[n] = "done" /\ \A m \in Changes : m # n => put'[m] = put[m]
      BY <1>p, <2>1
    <2>3. InProgress' \subseteq InProgress
      BY <2>1, <2>2 DEF InProgress
    <2>4. InSession' <=> InSession
      BY <2>1 DEF InSession
    <2>5. ASSUME ~crossed PROVE Alone' /\ lines = {n}
      <3>1. Alone
        BY <2>5 DEF Lines
      <3> QED BY <2>1, <2>2, <2>3, <3>1 DEF Alone
    <2>6. ASSUME InSession, ~missed', ~crossed PROVE TableTold'
      <3>1. commands' = Append(commands, LinesCommand(n))
        BY <2>1, <2>6
      <3>n. n \in Nat
        BY SessionAssumption DEF Changes
      <3>2. LastOf(commands', SetLines, LinesCommand(n))
        BY <1>t, <3>1, <3>n, LastOfGrow
      <3>3. LinesTell(n)'
        BY <3>2 DEF LinesTell, LinesCommand, SetLines, LastOf
      <3> QED BY <2>1, <2>5, <2>6, <3>n, <3>3 DEF TableTold
    <2>7. pc = "subscribe" => commands' = commands
      BY <2>1 DEF Lines
    <2> QED BY <2>1, <2>4, <2>5, <2>6, <2>7 DEF Lines
  <1>8. ASSUME NEW c \in {"continue", "step", "pause", "stop", "frame"}, debug_command(c) PROVE Lines'
    <2>1. /\ UNCHANGED <<pc, lineVars, adapter, batch, adapterLines, listening>>
          /\ commands' = IF listening /\ InSession THEN Append(commands, [name |-> c, arg |-> view.paused]) ELSE commands
      BY <1>8 DEF debug_command, send_command, Relay
    <2>2. InSession' <=> InSession
      BY <2>1 DEF InSession
    <2>3. [name |-> c, arg |-> view.paused] \in Command /\ [name |-> c, arg |-> view.paused] \notin SetLines
      BY SessionAssumption DEF TypeOK, Command, CommandNames, NotPaused, SetLines
    <2>4. /\ NoneOf(commands, SetLines) => NoneOf(commands', SetLines)
          /\ \A x : LastOf(commands, SetLines, x) => LastOf(commands', SetLines, x)
      BY <1>t, <2>1, <2>3, LastOfGrow
    <2>5. \A k \in Nat : LinesTell(k) => LinesTell(k)'
      BY <2>1, <2>4 DEF LinesTell, BatchLines, InBatch
    <2>6. pc = "subscribe" => commands' = commands
      BY <2>1 DEF Lines
    <2>7. pc # "subscribe" /\ InSession => listening
      BY DEF Lines
    <2> QED BY <2>1, <2>2, <2>5, <2>6, <2>7, LinesKeep
  <1>9. CASE Receive
    <2>1. /\ UNCHANGED <<lineVars, adapter, adapterLines, listening>>
          /\ pc = "loop" /\ pc' = "handle" /\ InSession /\ batch = <<>>
      BY <1>9 DEF Receive, InSession, Control, Launching
    <2>2. PICK K \in SUBSET {"event", "command", "cancel"} :
             /\ \A g \in K : \E i \in DOMAIN batch' : batch'[i] = Received(g)
             /\ \A i \in DOMAIN batch' : \E g \in K : batch'[i] = Received(g)
             /\ "event" \in K => events # <<>>
             /\ "command" \in K => commands # <<>> /\ commands' = Tail(commands)
             /\ "command" \notin K => commands' = commands
      BY <1>9, ReceiveShape
    <2>4. ~InBatch("setBreakpoints") /\ \A n : ~BatchLines(n)
      BY <2>1 DEF InBatch, BatchLines
    <2>5. "event" \in K => Received("event").name \in EventNames
      BY <2>2, Shrink DEF Received, TypeOK
    <2>6. Received("cancel").name = "cancel"
      BY DEF Received
    <2>7. ASSUME NEW k \in Nat, LinesTell(k) PROVE LinesTell(k)'
      <3>1. CASE "command" \notin K
        <4>1. ~InBatch("setBreakpoints")'
          BY <2>2, <2>5, <2>6, <3>1 DEF InBatch, EventNames
        <4>2. commands' = commands
          BY <2>2, <3>1
        <4> QED BY <2>1, <2>4, <2>7, <4>1, <4>2 DEF LinesTell, LastOf, NoneOf
      <3>2. CASE "command" \in K
        <4>1. commands # <<>> /\ commands' = Tail(commands) /\ Head(commands) \in Command
          BY <1>t, <2>2, <3>2, Shrink
        <4>2. Received("command").name = Head(commands).name /\ Received("command").arg = Head(commands).arg
          BY DEF Received
        <4>3. CASE NoneOf(commands, SetLines)
          <5>1. NoneOf(commands', SetLines) /\ Head(commands).name # "setBreakpoints"
            BY <1>t, <4>1, <4>3, LastOfShrink DEF SetLines
          <5>2. ~InBatch("setBreakpoints")'
            BY <2>2, <2>5, <2>6, <4>2, <5>1 DEF InBatch, EventNames
          <5>3. adapterLines = k
            <6>1. ~LastOf(commands, SetLines, LinesCommand(k))
              BY <1>t, <2>7, <4>3 DEF LastOf, NoneOf
            <6> QED BY <2>4, <2>7, <6>1 DEF LinesTell
          <5> QED BY <2>1, <5>1, <5>2, <5>3 DEF LinesTell, NoneOf
        <4>4. CASE LastOf(Tail(commands), SetLines, LinesCommand(k))
          BY <4>1, <4>4 DEF LinesTell, LastOf
        <4>5. CASE Head(commands) = LinesCommand(k) /\ NoneOf(Tail(commands), SetLines)
          <5>1. BatchLines(k)'
            BY <2>2, <3>2, <4>2, <4>5 DEF BatchLines, LinesCommand
          <5> QED BY <4>1, <4>5, <5>1 DEF LinesTell, NoneOf
        <4> QED BY <1>t, <2>7, <4>1, <4>3, <4>4, <4>5, LastOfShrink DEF LinesTell
      <3> QED BY <3>1, <3>2
    <2>8. pc # "subscribe" /\ InSession => listening
      BY DEF Lines
    <2> QED BY <2>1, <2>7, <2>8, LinesKeep
  <1>10. CASE HandleEnd \/ HandleClosed \/ HandlePause \/ HandleFrame
    <2>1. UNCHANGED <<lineVars, commands, listening, adapterLines, adapter>>
      BY <1>10 DEF HandleEnd, HandleClosed, HandlePause, HandleFrame
    <2>4. batch # <<>> /\ batch[1].name # "setBreakpoints" /\ pc \in Looping
      <3>1. pc = "handle" /\ Head(batch).name # "setBreakpoints"
        BY <1>10 DEF HandleEnd, HandleClosed, HandlePause, HandleFrame, Handling
      <3>2. batch # <<>> /\ Head(batch) = batch[1]
        BY <1>t, <3>1, Shrink DEF Control
      <3> QED BY <3>1, <3>2 DEF Looping
    <2>2. \E fin \in BOOLEAN : Handled(fin)
      BY <1>10 DEF HandleEnd, HandleClosed, ClosedEnds, HandlePause, HandleFrame
    <2> QED BY <2>1, <2>2, <2>4, LinesPopped
  <1>11. CASE SavePaused \/ ClearPaused
    <2>1. /\ UNCHANGED <<lineVars, commands, listening, adapterLines, adapter>>
          /\ batch # <<>> /\ batch[1].name # "setBreakpoints" /\ pc \in Looping /\ Handled(FALSE)
      BY <1>11 DEF SavePaused, ClearPaused, Looping, Control
    <2> QED BY <2>1, LinesPopped
  <1>12. CASE HandleContinued
    <2>1. /\ UNCHANGED <<lineVars, commands, listening, adapterLines, adapter>>
          /\ batch # <<>> /\ batch[1].name # "setBreakpoints" /\ pc = "handle"
      BY <1>12, Handles DEF HandleContinued
    <2>2. CASE Handled(FALSE)
      BY <2>1, <2>2, LinesPopped DEF Looping
    <2>3. CASE pc' = "resumed" /\ UNCHANGED batch
      BY <2>1, <2>3, LinesFrame DEF InSession, BatchLines, InBatch
    <2> QED BY <1>12, <2>2, <2>3 DEF HandleContinued
  <1>13. ASSUME NEW name \in {"continue", "step"}, HandleStep(name) PROVE Lines'
    <2>1. /\ UNCHANGED <<lineVars, commands, listening, adapterLines, adapter>>
          /\ batch # <<>> /\ batch[1].name # "setBreakpoints" /\ pc \in Looping /\ Handled(FALSE)
      BY <1>13, Handles DEF HandleStep, Looping
    <2> QED BY <2>1, LinesPopped
  <1>14. CASE PublishPaused
    <2>1. /\ UNCHANGED <<lineVars, commands, listening, adapterLines, adapter>>
          /\ pc = "stack" /\ pc' # "subscribe" /\ batch[1].name = "stopped"
          /\ batch' = batch \/ batch' = [batch EXCEPT ![1] = PausedAt(TopFrame)]
      BY <1>14 DEF PublishPaused, Leave, Publish, Control
    <2>2. DOMAIN batch' = DOMAIN batch
          /\ \A i \in DOMAIN batch : batch'[i] = batch[i] \/ (batch'[i].name = "stopped" /\ batch[i].name = "stopped")
      BY <1>t, <2>1 DEF PausedAt
    <2>3. \A n : BatchLines(n)' <=> BatchLines(n)
      BY <2>2 DEF BatchLines
    <2>4. InBatch("setBreakpoints")' <=> InBatch("setBreakpoints")
      BY <2>2 DEF InBatch
    <2> QED BY <2>1, <2>3, <2>4, LinesFrame DEF InSession
  <1>15. CASE HandleBreakpoints
    <2>1. /\ UNCHANGED <<lineVars, commands, listening, adapter>>
          /\ batch # <<>> /\ batch[1].name = "setBreakpoints" /\ pc = "handle" /\ Handled(FALSE) /\ 1 \in DOMAIN batch
          /\ adapter # "down" => adapterLines' = batch[1].arg
      BY <1>15, Handles DEF HandleBreakpoints, set_breakpoints, Done, NewLines
    <2>2. /\ ~InBatch("setBreakpoints")' /\ pc' # "subscribe"
      BY <2>1, PoppedBatch, Popped DEF CommandNames
    <2>3. InSession /\ pc # "subscribe" /\ listening
      BY <2>1 DEF InSession, Lines
    <2>4. \A n : BatchLines(n) => n = batch[1].arg
      BY <1>t, <2>1, ItemFacts DEF BatchLines, OneOfAKind, CommandNames
    <2>5. InBatch("setBreakpoints")
      BY <2>1 DEF InBatch
    <2>6. \A k \in Nat : LinesTell(k) /\ adapter # "down" => LinesTell(k)'
      BY <2>1, <2>2, <2>4, <2>5 DEF LinesTell, LastOf, NoneOf
    <2> QED BY <2>1, <2>2, <2>3, <2>6, LinesKeep
  <1> QED BY <1>1, <1>2, <1>3, <1>4, <1>5, <1>6, <1>7, <1>8, <1>9, <1>10, <1>11, <1>12, <1>13, <1>14, <1>15,
             <1>16, <1>17 DEF Next, WorkerStep, ChangeBreakpoints

(***************************************************************************)
(* The panel and the frames                                                *)
(***************************************************************************)

LEMMA FramesInit == Init => Frames
  BY SessionAssumption DEF Init, Frames, FrameMatchesPause, EmptyView, Looping

Ends == {"clear", "record", "clearAgain", "done"}

\* The places are numbers below the mark for no pause.
LEMMA PlaceFacts ==
    ASSUME TypeOK
    PROVE  /\ place \in Nat /\ place < NotPaused /\ NotPaused \in Nat /\ NotPaused = MaxStops + 1 /\ MaxStops \in Nat
           /\ details \in Nat /\ details < NotPaused /\ NotPaused # 0
           /\ view.paused \in Nat /\ view.frame \in Nat /\ view \in View
  BY SessionAssumption DEF TypeOK, NotPaused, View

\* A frame asked for stays harmless: the program goes on, or the panel shows
\* its place.
LEMMA FrameKept ==
    ASSUME TypeOK, TypeOK', NEW c, FrameOK(c), c.arg \in Nat, place' >= place, lost => lost',
           place' = place /\ program' = "stopped" => program = "stopped",
           place' = place /\ program' = "stopped" /\ ~lost' => view'.paused \in {view.paused, place, NotPaused}
    PROVE  c.name = "frame" =>
              /\ c.arg <= place'
              /\ c.arg = place' /\ program' = "stopped" /\ ~lost' => view'.paused \in {place', NotPaused}
  <1>1. place \in Nat /\ place' \in Nat
    BY PlaceFacts DEF TypeOK
  <1>2. CASE place' = place
    BY <1>1, <1>2 DEF FrameOK
  <1>3. CASE place' # place
    BY <1>1, <1>3 DEF FrameOK
  <1> QED BY <1>2, <1>3

LEMMA FramesInFlight ==
    ASSUME TypeOK, TypeOK', Frames, place' >= place, lost => lost',
           place' = place /\ program' = "stopped" => program = "stopped",
           place' = place /\ program' = "stopped" /\ ~lost' => view'.paused \in {view.paused, place, NotPaused},
           \A i \in DOMAIN commands' : commands'[i].name = "frame" => \E j \in DOMAIN commands : commands'[i] = commands[j],
           \A i \in DOMAIN batch' : batch'[i].name = "frame" =>
              \/ \E j \in DOMAIN batch : batch'[i] = batch[j]
              \/ \E j \in DOMAIN commands : batch'[i].name = commands[j].name /\ batch'[i].arg = commands[j].arg
    PROVE  /\ \A i \in DOMAIN commands' : FrameOK(commands[i])'
           /\ \A i \in DOMAIN batch' : FrameOK(batch[i])'
  <1>1. /\ \A j \in DOMAIN commands : commands[j].arg \in Nat /\ FrameOK(commands[j])
        /\ \A j \in DOMAIN batch : batch[j].arg \in Nat /\ FrameOK(batch[j])
    <2>1. \A S : \A s \in Seq(S) : \A j \in DOMAIN s : s[j] \in S
      OBVIOUS
    <2>2. commands \in Seq(Command) /\ batch \in Seq(Item)
      BY DEF TypeOK
    <2>3. (\A j \in DOMAIN commands : commands[j] \in Command) /\ (\A j \in DOMAIN batch : batch[j] \in Item)
      BY <2>1, <2>2
    <2> QED BY <2>3, ItemFacts DEF Frames
  <1>2. \A j \in DOMAIN commands : commands[j].name = "frame" =>
              /\ commands[j].arg <= place'
              /\ commands[j].arg = place' /\ program' = "stopped" /\ ~lost' => view'.paused \in {place', NotPaused}
    BY <1>1, FrameKept
  <1>3. \A j \in DOMAIN batch : batch[j].name = "frame" =>
              /\ batch[j].arg <= place'
              /\ batch[j].arg = place' /\ program' = "stopped" /\ ~lost' => view'.paused \in {place', NotPaused}
    BY <1>1, FrameKept
  <1>4. ASSUME NEW i \in DOMAIN commands' PROVE FrameOK(commands[i])'
    <2> SUFFICES ASSUME commands'[i].name = "frame"
                 PROVE  /\ commands'[i].arg <= place'
                        /\ commands'[i].arg = place' /\ program' = "stopped" /\ ~lost' => view'.paused \in {place', NotPaused}
      BY DEF FrameOK, NotPaused
    <2>1. PICK j \in DOMAIN commands : commands'[i] = commands[j]
      OBVIOUS
    <2> QED BY <1>2, <2>1
  <1>5. ASSUME NEW i \in DOMAIN batch' PROVE FrameOK(batch[i])'
    <2> SUFFICES ASSUME batch'[i].name = "frame"
                 PROVE  /\ batch'[i].arg <= place'
                        /\ batch'[i].arg = place' /\ program' = "stopped" /\ ~lost' => view'.paused \in {place', NotPaused}
      BY DEF FrameOK, NotPaused
    <2> QED BY <1>2, <1>3
  <1> QED BY <1>4, <1>5

\* A step that leaves the panel and the place alone
LEMMA FramesSame ==
    ASSUME TypeOK, TypeOK', Control, Frames, UNCHANGED <<view, place>>, lost => lost',
           program' = "stopped" => program = "stopped",
           details' # 0 => details' = details /\ program' \in {"stopped", "killed"},
           pc' = "save" => pc = "save" /\ batch' = batch /\ (program \in {"stopped", "killed"} => program' \in {"stopped", "killed"}),
           pc' \in Looping => pc \in Looping, pc' \in Ends => pc \in Ends,
           \A i \in DOMAIN commands' : commands'[i].name = "frame" => \E j \in DOMAIN commands : commands'[i] = commands[j],
           \A i \in DOMAIN batch' : batch'[i].name = "frame" =>
              \/ \E j \in DOMAIN batch : batch'[i] = batch[j]
              \/ \E j \in DOMAIN commands : batch'[i].name = commands[j].name /\ batch'[i].arg = commands[j].arg
    PROVE  Frames'
  <1>1. /\ \A i \in DOMAIN commands' : FrameOK(commands[i])'
        /\ \A i \in DOMAIN batch' : FrameOK(batch[i])'
    <2>1. place' >= place /\ view'.paused = view.paused
      BY PlaceFacts
    <2> QED BY <2>1, FramesInFlight
  <1>2. FrameMatchesPause'
    BY DEF Frames, FrameMatchesPause
  <1> QED BY <1>1, <1>2 DEF Frames, Ends

\* What is left of the batch was there before.
LEMMA PoppedFrames ==
    ASSUME TypeOK, batch # <<>>, NEW fin \in BOOLEAN, Handled(fin)
    PROVE  /\ \A i \in DOMAIN batch' : \E j \in DOMAIN batch : batch'[i] = batch[j]
           /\ pc' \in {"handle", "loop", "close"}
  BY Popped

LEMMA FramesStepSame ==
    ASSUME TypeOK, TypeOK', Control, Frames,
           \/ CancelRun \/ (\E n \in Changes : ChangeBreakpoints(n)) \/ Exits \/ HangsUp
           \/ Subscribe \/ Start \/ Initialize \/ Launch \/ Limit \/ Receive
           \/ HandleEnd \/ HandleClosed \/ HandleStopped \/ HandlePause \/ HandleBreakpoints
           \/ HandleStep("continue") \/ HandleStep("step")
           \/ DetailsLoad \/ DetailsSave \/ ClearPaused
           \/ Close \/ Unsave \/ Clear \/ Record \/ ClearAgain
    PROVE  Frames'
  <1>t. commands \in Seq(Command) /\ batch \in Seq(Item)
    BY DEF TypeOK
  <1>1. CASE CancelRun \/ Exits \/ HangsUp \/ DetailsLoad \/ DetailsSave
    <2>1. /\ UNCHANGED <<view, place, pc, batch, commands>>
          /\ program' = "stopped" => program = "stopped"
          /\ program \in {"stopped", "killed"} => program' \in {"stopped", "killed"}
          /\ details' \in {0, details}
      BY <1>1 DEF CancelRun, Exits, HangsUp, DetailsLoad, DetailsSave
    <2>2. lost => lost'
      BY <1>1, Lossy DEF CancelRun, Exits, HangsUp, DetailsLoad, DetailsSave
    <2>3. details' # 0 => details' = details /\ program' \in {"stopped", "killed"}
      BY <2>1 DEF Frames
    <2> QED BY <2>1, <2>2, <2>3, FramesSame
  <1>2. ASSUME NEW n \in Changes, ChangeBreakpoints(n) PROVE Frames'
    <2>1. /\ UNCHANGED <<view, place, pc, batch, program, details>>
          /\ commands' \in {commands, Append(commands, LinesCommand(n))}
          /\ LinesCommand(n) \in Command /\ LinesCommand(n).name = "setBreakpoints"
      BY <1>2, PutEffect
    <2>2. lost => lost'
      BY <1>2, PutEffect
    <2>3. \A i \in DOMAIN commands' : commands'[i].name = "frame" => \E j \in DOMAIN commands : commands'[i] = commands[j]
      BY <1>t, <2>1, Grow
    <2>4. details' # 0 => details' = details /\ program' \in {"stopped", "killed"}
      BY <2>1 DEF Frames
    <2> QED BY <2>1, <2>2, <2>3, <2>4, FramesSame
  <1>3. CASE Subscribe \/ Start \/ Initialize \/ Launch
    <2>1. /\ UNCHANGED <<view, place, batch, commands, details, lost>>
          /\ program' = "stopped" => program = "stopped"
          /\ pc \in Launching /\ pc' \notin Looping /\ pc' \notin Ends
      BY <1>3 DEF Subscribe, Start, Initialize, Launch, Leave, Launching, Looping, Ends
    <2>2. details' = 0 /\ pc' # "save"
      BY <2>1 DEF Control, Looping
    <2> QED BY <2>1, <2>2, FramesSame
  <1>4. CASE Limit \/ HandleStopped
    <2>1. /\ UNCHANGED <<view, place, batch, commands, details, lost, program>>
          /\ pc \in Looping /\ pc' # "save" /\ pc' \notin Ends
      BY <1>4 DEF Limit, HandleStopped, Handling, Leave, Looping, Ends
    <2>2. details' # 0 => details' = details /\ program' \in {"stopped", "killed"}
      BY <2>1 DEF Frames
    <2> QED BY <2>1, <2>2, FramesSame
  <1>5. CASE Receive
    <2>1. /\ UNCHANGED <<view, place, details, lost, program>>
          /\ pc \in Looping /\ pc' = "handle"
      BY <1>5 DEF Receive, Looping
    <2>2. PICK K \in SUBSET {"event", "command", "cancel"} :
             /\ \A i \in DOMAIN batch' : \E k \in K : batch'[i] = Received(k)
             /\ "event" \in K => events # <<>>
             /\ "command" \in K => commands # <<>> /\ commands' = Tail(commands)
             /\ "command" \notin K => commands' = commands
      BY <1>5, ReceiveShape
    <2>3. \A i \in DOMAIN commands' : \E j \in DOMAIN commands : commands'[i] = commands[j]
      <3>1. CASE "command" \in K
        <4>1. commands # <<>> /\ commands' = Tail(commands)
          BY <2>2, <3>1
        <4> QED BY <1>t, <4>1, Shrink
      <3>2. CASE "command" \notin K
        BY <2>2, <3>2
      <3> QED BY <3>1, <3>2
    <2>4. "event" \in K => Received("event").name \in EventNames
      BY <2>2, Shrink DEF Received, TypeOK
    <2>5. Received("cancel").name = "cancel"
      BY DEF Received
    <2>6. "command" \in K => /\ 1 \in DOMAIN commands /\ Received("command").name = commands[1].name
                             /\ Received("command").arg = commands[1].arg
      BY <1>t, <2>2, Shrink DEF Received
    <2>7. \A i \in DOMAIN batch' : batch'[i].name = "frame" =>
             \E j \in DOMAIN commands : batch'[i].name = commands[j].name /\ batch'[i].arg = commands[j].arg
      BY <2>2, <2>4, <2>5, <2>6 DEF EventNames
    <2>8. details' # 0 => details' = details /\ program' \in {"stopped", "killed"}
      BY <2>1 DEF Frames
    <2>9. pc' # "save" /\ pc' \notin Ends
      BY <2>1 DEF Ends
    <2> QED BY <2>1, <2>3, <2>7, <2>8, <2>9, FramesSame
  <1>6. CASE HandleEnd \/ HandleClosed \/ HandlePause \/ HandleBreakpoints
    <2>1. UNCHANGED <<view, place, lost, program, commands>> /\ details' \in {0, details}
      BY <1>6 DEF HandleEnd, HandleClosed, HandlePause, HandleBreakpoints, CancelDetails
    <2>2. pc = "handle" /\ batch # <<>> /\ \E fin \in BOOLEAN : Handled(fin)
      BY <1>6, Handles DEF HandleEnd, HandleClosed, HandlePause, HandleBreakpoints, ClosedEnds
    <2>3. \A i \in DOMAIN batch' : \E j \in DOMAIN batch : batch'[i] = batch[j]
      BY <2>2, PoppedFrames
    <2>4. pc' # "save" /\ pc' \notin Ends /\ pc \in Looping
      BY <2>2, PoppedFrames DEF Ends, Looping
    <2>5. details' # 0 => details' = details /\ program' \in {"stopped", "killed"}
      BY <2>1 DEF Frames
    <2> QED BY <2>1, <2>3, <2>4, <2>5, FramesSame
  <1>7. ASSUME NEW name \in {"continue", "step"}, HandleStep(name) PROVE Frames'
    <2>1. /\ UNCHANGED <<view, place, lost, commands>>
          /\ program' = "stopped" => program = "stopped"
          /\ details' = 0 \/ UNCHANGED <<details, program>>
      BY <1>7 DEF HandleStep, CancelDetails
    <2>2. pc = "handle" /\ batch # <<>> /\ Handled(FALSE)
      BY <1>7, Handles DEF HandleStep
    <2>3. \A i \in DOMAIN batch' : \E j \in DOMAIN batch : batch'[i] = batch[j]
      BY <2>2, PoppedFrames
    <2>4. pc' # "save" /\ pc' \notin Ends /\ pc \in Looping
      BY <2>2, PoppedFrames DEF Ends, Looping
    <2>5. details' # 0 => details' = details /\ program' \in {"stopped", "killed"}
      BY <2>1 DEF Frames
    <2> QED BY <2>1, <2>3, <2>4, <2>5, FramesSame
  <1>8. CASE ClearPaused
    <2>1. UNCHANGED <<view, place, commands, program, details>> /\ pc = "resumed" /\ batch # <<>> /\ Handled(FALSE)
      BY <1>8 DEF ClearPaused, Control
    <2>2. lost => lost'
      BY <1>8, Lossy
    <2>3. \A i \in DOMAIN batch' : \E j \in DOMAIN batch : batch'[i] = batch[j]
      BY <2>1, PoppedFrames
    <2>4. pc' # "save" /\ pc' \notin Ends /\ pc \in Looping
      BY <2>1, PoppedFrames DEF Ends, Looping
    <2>5. details' # 0 => details' = details /\ program' \in {"stopped", "killed"}
      BY <2>1 DEF Frames
    <2> QED BY <2>1, <2>2, <2>3, <2>4, <2>5, FramesSame
  <1>9. CASE Close
    <2>1. /\ UNCHANGED <<view, place, lost>> /\ details' = 0 /\ batch' = <<>> /\ commands' = <<>>
          /\ program' # "stopped" /\ pc' = "unsave"
      BY <1>9 DEF Close, CancelDetails, Stop
    <2>2. pc' # "save" /\ pc' \notin Ends /\ pc' \notin Looping /\ DOMAIN batch' = {} /\ DOMAIN commands' = {}
      BY <2>1 DEF Ends, Looping
    <2> QED BY <2>1, <2>2, FramesSame
  <1>10. CASE Unsave \/ Clear \/ Record \/ ClearAgain
    <2>1. /\ UNCHANGED <<view, place, batch, commands, program, details>> /\ pc' \notin Looping /\ pc' # "save"
          /\ pc' \in Ends => pc \in Ends
      BY <1>10 DEF Unsave, Clear, Record, ClearAgain, Ends, Looping
    <2>2. lost => lost'
      BY <1>10, Lossy DEF Unsave, Clear, Record, ClearAgain
    <2>5. details' # 0 => details' = details /\ program' \in {"stopped", "killed"}
      BY <2>1 DEF Frames
    <2> QED BY <2>1, <2>2, <2>5, FramesSame
  <1> QED BY <1>1, <1>2, <1>3, <1>4, <1>5, <1>6, <1>7, <1>8, <1>9, <1>10

\* The other steps: the program stops, a frame is asked for, the panel changes
LEMMA FramesStep ==
    ASSUME TypeOK, TypeOK', Control, Control', Frames, Next
    PROVE  Frames'
  <1>t. /\ commands \in Seq(Command) /\ batch \in Seq(Item)
        /\ place \in Nat /\ place < NotPaused /\ place' \in Nat /\ place' < NotPaused /\ NotPaused \in Nat
        /\ \A x \in Nat : x >= x
    <2>1. place' \in 0..MaxStops /\ MaxStops \in Nat
      BY SessionAssumption DEF TypeOK
    <2>2. commands \in Seq(Command) /\ batch \in Seq(Item)
      BY DEF TypeOK
    <2> QED BY <2>1, <2>2, PlaceFacts
  <1>f. /\ view.paused \in (0..place) \union {NotPaused}
        /\ pc \in Looping /\ ~lost => view.session = This
        /\ pc \in Ends /\ ~lost => view.session = NoOne
        /\ details # 0 => details = place /\ program \in {"stopped", "killed"}
        /\ details # 0 /\ ~lost => view.paused \in {details, NotPaused}
        /\ pc = "save" => batch[1].arg \in {0, place}
        /\ pc = "save" /\ batch[1].arg # 0 => program \in {"stopped", "killed"}
        /\ pc = "save" /\ ~lost => view.paused = batch[1].arg
        /\ FrameMatchesPause
    BY DEF Frames, Ends
  <1> DEFINE Flight == /\ \A i \in DOMAIN commands' : FrameOK(commands[i])'
                       /\ \A i \in DOMAIN batch' : FrameOK(batch[i])'
  <1>1. CASE Stops
    <2>1. /\ UNCHANGED <<view, pc, batch, commands, details, lost>> /\ place' = place + 1
          /\ program = "running"
      BY <1>1 DEF Stops
    <2>2. place' >= place /\ place' # place
      BY <1>t, <2>1
    <2>3. Flight
      BY <2>1, <2>2, FramesInFlight
    <2>4. view'.paused \in (0..place') \union {NotPaused}
      BY <1>t, <1>f, <2>1, <2>2
    <2>5. details' = 0 /\ (pc = "save" => batch'[1].arg = 0)
      BY <1>f, <2>1
    <2> QED BY <1>f, <2>1, <2>3, <2>4, <2>5 DEF Frames, FrameMatchesPause, Ends
  <1>2. ASSUME NEW c \in {"continue", "step", "pause", "stop", "frame"}, debug_command(c) PROVE Frames'
    <2> DEFINE cmd == [name |-> c, arg |-> view.paused]
    <2>1. /\ UNCHANGED <<view, pc, batch, details, lost, place, program>>
          /\ c = "frame" => view.paused \in 1..MaxStops
          /\ commands' \in {commands, Append(commands, cmd)}
      BY <1>2 DEF debug_command, send_command, Relay
    <2>2. cmd \in Command
      BY PlaceFacts DEF Command, CommandNames
    <2>3. cmd.name = "frame" => cmd.arg <= place' /\ cmd.arg = view'.paused
      <3>1. ASSUME c = "frame" PROVE cmd.arg <= place'
        <4>1. view.paused \in 0..place
          BY <1>f, <2>1, <3>1, PlaceFacts
        <4> QED BY <2>1, <4>1
      <3>2. cmd.arg = view'.paused /\ cmd.name = c
        BY <2>1
      <3> QED BY <3>1, <3>2
    <2>5. \A i \in DOMAIN commands' : commands'[i] = cmd \/ \E j \in DOMAIN commands : commands'[i] = commands[j]
      BY <1>t, <2>1, <2>2, Grow
    <2>6. \A i \in DOMAIN commands' : FrameOK(commands[i])'
      <3> SUFFICES ASSUME NEW i \in DOMAIN commands' PROVE FrameOK(commands[i])'
        OBVIOUS
      <3>1. CASE commands'[i] = cmd
        BY <2>3, <3>1 DEF FrameOK
      <3>2. CASE commands'[i] # cmd
        <4>1. PICK j \in DOMAIN commands : commands'[i] = commands[j]
          BY <2>5, <3>2
        <4>2. FrameOK(commands[j])
          BY DEF Frames
        <4> QED BY <2>1, <4>1, <4>2 DEF FrameOK
      <3> QED BY <3>1, <3>2
    <2>7. \A i \in DOMAIN batch' : FrameOK(batch[i])'
      BY <2>1 DEF Frames, FrameOK
    <2> QED BY <1>f, <2>1, <2>6, <2>7 DEF Frames, FrameMatchesPause, Ends
  <1>3. CASE EarlierStops
    <2>1. /\ UNCHANGED <<pc, batch, details, lost, place, program, commands>>
          /\ view' = IF view.session = This THEN view ELSE EmptyView
      BY <1>3, Applied DEF EarlierStops
    <2>2. EmptyView.session = NoOne /\ EmptyView.paused = NotPaused /\ EmptyView.frame = 0 /\ This # NoOne
      BY DEF EmptyView, This, NoOne
    <2>3. view'.paused \in {view.paused, NotPaused} /\ place' >= place
      BY <1>t, <2>1, <2>2
    <2>4. Flight
      BY <2>1, <2>3, FramesInFlight
    <2>5. FrameMatchesPause' /\ (pc \in Looping /\ ~lost => view' = view) /\ (view.session = NoOne => view'.session = NoOne)
      BY <1>f, <2>1, <2>2 DEF FrameMatchesPause
    <2>6. pc = "save" => pc \in Looping
      BY DEF Looping
    <2> QED BY <1>f, <2>1, <2>3, <2>4, <2>5, <2>6 DEF Frames, Ends
  <1>4. CASE Started
    <2>1. /\ UNCHANGED <<batch, details, place, program, commands>> /\ pc = "started" /\ pc' \in {"loop", "close"}
          /\ details = 0
      BY <1>4 DEF Started, Leave, Control
    <2>2. CASE pc' = "loop"
      <3>1. Publish(Event("debug_started", 0))
        BY <1>4, <2>2 DEF Started, Leave
      <3>2. /\ view' \in {view, [session |-> This, paused |-> NotPaused, frame |-> 0]} /\ (lost => lost')
            /\ ~lost' => view' = [session |-> This, paused |-> NotPaused, frame |-> 0]
        BY <3>1, Published, ViewFacts, Applied, Lossy
      <3>3. view'.paused \in {view.paused, NotPaused} /\ place' >= place
        BY <1>t, <2>1, <3>2
      <3>4. Flight
        BY <2>1, <3>2, <3>3, FramesInFlight
      <3>5. FrameMatchesPause' /\ (~lost' => view'.session = This) /\ pc' \notin Ends
        BY <2>2, <3>2 DEF FrameMatchesPause, Ends
      <3> QED BY <1>f, <2>1, <2>2, <3>3, <3>4, <3>5 DEF Frames, Ends
    <2>3. CASE pc' = "close"
      <3>1. UNCHANGED <<view, lost>>
        BY <1>4, <2>3 DEF Started, Leave
      <3>2. pc' \notin Looping /\ pc' \notin Ends /\ pc' # "save" /\ details' = 0
        BY <2>1, <2>3 DEF Looping, Ends
      <3> QED BY <2>1, <3>1, <3>2, FramesSame
    <2> QED BY <2>1, <2>2, <2>3
  <1>5. CASE PublishPaused
    <2>1. UNCHANGED <<details, place, program, commands, adapter>> /\ pc = "stack" /\ pc' \in {"save", "close"}
      BY <1>5 DEF PublishPaused, Leave
    <2>2. CASE pc' = "save"
      <3>1. /\ ~Done /\ batch' = [batch EXCEPT ![1] = PausedAt(TopFrame)]
            /\ Publish(Event("debug_paused", TopFrame))
        BY <1>5, <2>2 DEF PublishPaused, Leave
      <3>2. TopFrame \in {0, place} /\ (TopFrame # 0 => program = "stopped") /\ (program = "stopped" => TopFrame = place)
        BY DEF TopFrame
      <3>3. /\ view' \in {view, [session |-> This, paused |-> TopFrame, frame |-> 0]} /\ (lost => lost')
            /\ ~lost' => view' = [session |-> This, paused |-> TopFrame, frame |-> 0]
        BY <3>1, <3>2, Published, ViewFacts, Applied, Lossy
      <3>4. view'.paused \in {view.paused, TopFrame} /\ place' >= place
        BY <1>t, <2>1, <3>3
      <3>5. 1 \in DOMAIN batch
        BY <1>t, <2>1, Shrink DEF Control
      <3>6. /\ batch'[1].name = "stopped" /\ batch'[1].arg = TopFrame /\ DOMAIN batch' = DOMAIN batch
            /\ \A i \in DOMAIN batch' : i # 1 => batch'[i] = batch[i]
        BY <1>t, <3>1, <3>5 DEF PausedAt
      <3>7. \A i \in DOMAIN batch' : batch'[i].name = "frame" => \E j \in DOMAIN batch : batch'[i] = batch[j]
        BY <3>6
      <3>8. Flight
        BY <2>1, <3>2, <3>3, <3>4, <3>7, FramesInFlight
      <3>9. program # "killed"
        BY <3>1 DEF Control, Done
      <3>10. FrameMatchesPause' /\ pc' \notin Ends
        BY <2>2, <3>3 DEF FrameMatchesPause, Ends
      <3>11. view'.paused \in (0..place') \union {NotPaused}
        BY <1>t, <1>f, <2>1, <3>2, <3>4
      <3>12. ~lost' => view'.session = This /\ view'.paused = TopFrame
        BY <3>3
      <3>13. details' # 0 => details' = place' /\ program' = "stopped" /\ (~lost' => view'.paused = details')
        BY <1>f, <2>1, <3>2, <3>9, <3>12
      <3> QED BY <2>1, <2>2, <3>2, <3>6, <3>8, <3>10, <3>11, <3>12, <3>13 DEF Frames, Ends
    <2>3. CASE pc' = "close"
      <3>1. UNCHANGED <<view, lost, batch>>
        BY <1>5, <2>3 DEF PublishPaused, Leave
      <3>2. pc' \notin Looping /\ pc' \notin Ends /\ pc' # "save"
        BY <2>1, <2>3 DEF Looping, Ends
      <3> QED BY <1>f, <2>1, <3>1, <3>2, FramesSame
    <2> QED BY <2>1, <2>2, <2>3
  <1>6. CASE SavePaused
    <2>1. UNCHANGED <<view, place, program, commands>> /\ pc = "save" /\ batch # <<>> /\ Handled(FALSE)
      BY <1>6 DEF SavePaused, Control
    <2>2. batch[1] = Head(batch) /\ (details' = details \/ (details' = batch[1].arg /\ batch[1].arg # 0))
      BY <1>t, <1>6, <2>1, Shrink DEF SavePaused
    <2>3. lost => lost'
      BY <1>6, Lossy
    <2>4. (\A i \in DOMAIN batch' : \E j \in DOMAIN batch : batch'[i] = batch[j]) /\ pc' \in {"handle", "loop", "close"}
      BY <2>1, PoppedFrames
    <2>5. Flight
      BY <1>t, <2>1, <2>3, <2>4, FramesInFlight
    <2>6. pc' # "save" /\ pc' \notin Ends /\ pc \in Looping
      BY <2>1, <2>4 DEF Ends, Looping
    <2>7. /\ details' # 0 => details' = place' /\ program' \in {"stopped", "killed"}
          /\ details' # 0 /\ ~lost' => view'.paused \in {details', NotPaused}
      BY <1>f, <2>1, <2>2, <2>3
    <2>8. view'.paused \in (0..place') \union {NotPaused} /\ FrameMatchesPause' /\ (~lost' => view'.session = This)
      BY <1>f, <2>1, <2>3, <2>6 DEF FrameMatchesPause
    <2> QED BY <2>5, <2>6, <2>7, <2>8 DEF Frames, Ends
  <1>7. CASE HandleContinued
    <2>1. UNCHANGED <<place, program, commands>> /\ details' = 0 /\ pc = "handle" /\ batch # <<>>
      BY <1>7, Handles DEF HandleContinued, CancelDetails
    <2>2. /\ view' \in {view, [session |-> This, paused |-> NotPaused, frame |-> 0]} /\ (lost => lost')
          /\ ~lost' /\ view.session = This => view'.session = This
      <3>1. CASE UNCHANGED <<view, lost>>
        BY <3>1
      <3>2. CASE Publish(Event("debug_running", 0))
        BY <3>2, Published, ViewFacts, Applied, Lossy
      <3> QED BY <1>7, <3>1, <3>2 DEF HandleContinued
    <2>3. (\A i \in DOMAIN batch' : \E j \in DOMAIN batch : batch'[i] = batch[j]) /\ pc' \in {"handle", "loop", "close", "resumed"}
      <3>1. CASE Handled(FALSE)
        BY <2>1, <3>1, PoppedFrames
      <3>2. CASE pc' = "resumed" /\ batch' = batch
        BY <3>2
      <3> QED BY <1>7, <3>1, <3>2 DEF HandleContinued
    <2>4. view'.paused \in {view.paused, NotPaused}
      BY <2>2
    <2>5. Flight
      BY <1>t, <2>1, <2>2, <2>3, <2>4, FramesInFlight
    <2>6. pc' # "save" /\ pc' \notin Ends /\ pc \in Looping
      BY <2>1, <2>3 DEF Ends, Looping
    <2>7. view'.paused \in (0..place') \union {NotPaused} /\ FrameMatchesPause' /\ (~lost' => view'.session = This)
      BY <1>f, <2>1, <2>2, <2>6 DEF FrameMatchesPause
    <2> QED BY <2>1, <2>5, <2>6, <2>7 DEF Frames, Ends
  <1>8. CASE DetailsPublish
    <2>1. UNCHANGED <<place, program, commands, pc, batch>> /\ details' = 0 /\ Publish(Event("debug_frame", details))
          /\ details # 0 /\ details \in 0..MaxStops
      BY <1>8 DEF DetailsPublish, Control, TypeOK
    <2>2. /\ view' = view \/ (view.paused # NotPaused /\ view' = [view EXCEPT !.frame = details])
          /\ lost => lost'
      BY <2>1, Published, ViewFacts, Applied, Lossy
    <2>3. /\ view'.paused = view.paused /\ view'.session = view.session
          /\ view'.frame = view.frame \/ (view.paused # NotPaused /\ view'.frame = details)
      BY <2>2, PlaceFacts DEF View
    <2>4. Flight
      BY <1>t, <2>1, <2>2, <2>3, FramesInFlight
    <2>5. FrameMatchesPause'
      BY <1>f, <2>1, <2>2, <2>3 DEF FrameMatchesPause
    <2> QED BY <1>f, <2>1, <2>2, <2>3, <2>4, <2>5 DEF Frames, Ends
  <1>9. CASE HandleFrame
    <2>1. /\ UNCHANGED <<place, program, commands>> /\ details' = 0 /\ pc = "handle" /\ batch # <<>> /\ Handled(FALSE)
          /\ batch[1].name = "frame" /\ Head(batch) = batch[1] /\ 1 \in DOMAIN batch
      BY <1>9, Handles DEF HandleFrame, CancelDetails
    <2>2. /\ \/ view' = view
             \/ view.paused # NotPaused /\ view' = [view EXCEPT !.frame = place] /\ place = batch[1].arg /\ program = "stopped"
          /\ lost => lost'
      <3>1. CASE UNCHANGED <<view, lost>>
        BY <3>1
      <3>2. CASE frame_scopes(Head(batch).arg) /\ Publish(Event("debug_frame", place))
        <4>1. place \in 0..MaxStops
          BY DEF TypeOK
        <4> QED BY <2>1, <3>2, <4>1, Published, ViewFacts, Applied, Lossy DEF frame_scopes, Answered
      <3> QED BY <1>9, <3>1, <3>2 DEF HandleFrame
    <2>3. view'.paused = view.paused /\ view'.session = view.session
          /\ (view'.frame = view.frame \/ (view.paused # NotPaused /\ view'.frame = place /\ place = batch[1].arg /\ program = "stopped"))
      BY <2>2, PlaceFacts DEF View
    <2>4. (\A i \in DOMAIN batch' : \E j \in DOMAIN batch : batch'[i] = batch[j]) /\ pc' \in {"handle", "loop", "close"}
      BY <2>1, PoppedFrames
    <2>5. Flight
      BY <1>t, <2>1, <2>2, <2>3, <2>4, FramesInFlight
    <2>6. FrameOK(batch[1])
      BY <2>1 DEF Frames
    <2>7. FrameMatchesPause'
      BY <1>f, <2>1, <2>2, <2>3, <2>6 DEF FrameMatchesPause, FrameOK
    <2>8. pc' # "save" /\ pc' \notin Ends /\ pc \in Looping
      BY <2>1, <2>4 DEF Ends, Looping
    <2> QED BY <1>f, <2>1, <2>2, <2>3, <2>5, <2>7, <2>8 DEF Frames, Ends
  <1>10. CASE Stopped
    <2>1. UNCHANGED <<place, program, commands, batch, details>> /\ pc = "stopped" /\ pc' = "clear"
          /\ Publish(Event("debug_stopped", 0)) /\ details = 0
      BY <1>10 DEF Stopped, Control, Over, sessionVars, programVars
    <2>2. /\ view' \in {view, EmptyView} /\ (lost => lost')
          /\ ~lost' => view' = EmptyView
      BY <2>1, Published, ViewFacts, Applied, Lossy
    <2>3. EmptyView.session = NoOne /\ EmptyView.paused = NotPaused /\ EmptyView.frame = 0
      BY DEF EmptyView
    <2>4. view'.paused \in {view.paused, NotPaused}
      BY <2>2, <2>3
    <2>5. Flight
      BY <1>t, <2>1, <2>2, <2>4, FramesInFlight
    <2>6. FrameMatchesPause' /\ (~lost' => view'.session = NoOne) /\ pc' \notin Looping
      BY <2>1, <2>2, <2>3 DEF FrameMatchesPause, Looping
    <2> QED BY <1>f, <2>1, <2>4, <2>5, <2>6 DEF Frames, Ends
  <1> QED BY <1>1, <1>2, <1>3, <1>4, <1>5, <1>6, <1>7, <1>8, <1>9, <1>10, FramesStepSame DEF Next, WorkerStep

(***************************************************************************)
(* The panel and the program                                               *)
(***************************************************************************)

LEMMA PausingInit == Init => Pausing
  BY DEF Init, Pausing, EmptyView, Looping

LEMMA TurnsSame ==
    ASSUME TurnsTell, UNCHANGED <<events, paused>>, program' = "stopped" <=> program = "stopped",
           InBatch("stopped")' <=> InBatch("stopped"), InBatch("continued")' <=> InBatch("continued")
    PROVE  TurnsTell'
  <1>1. /\ \A x : LastOf(events, Turns, x)' <=> LastOf(events, Turns, x)
        /\ NoneOf(events, Turns)' <=> NoneOf(events, Turns)
    BY DEF LastOf, NoneOf, Turns
  <1>2. CASE LastOf(events, Turns, "stopped") /\ program = "stopped"
    BY <1>1, <1>2 DEF TurnsTell
  <1>3. CASE LastOf(events, Turns, "continued") /\ program # "stopped"
    BY <1>1, <1>3 DEF TurnsTell
  <1>4. CASE /\ NoneOf(events, Turns) /\ ~InBatch("stopped") /\ ~InBatch("continued")
             /\ paused <=> program = "stopped"
    BY <1>1, <1>4 DEF TurnsTell
  <1> QED BY <1>1, <1>2, <1>3, <1>4 DEF TurnsTell

\* A step that handles no turn of the program
LEMMA PausingSame ==
    ASSUME TypeOK, Pausing, UNCHANGED <<events, paused, place>>, lost => lost', view'.paused = view.paused,
           InBatch("stopped")' <=> InBatch("stopped"), InBatch("continued")' <=> InBatch("continued"),
           adapter' = "up" => adapter = "up" /\ (program' = "stopped" <=> program = "stopped"),
           program' = "stopped" => program = "stopped",
           ~paused /\ ~lost' /\ pc' # "resumed" => stored' = NotPaused \/ (stored' = stored /\ pc # "resumed"),
           pc' \in Looping /\ paused => stored' \in {stored, place},
           pc' \in Looping \ {"stack"} => pc \in Looping \ {"stack"} /\ (pc' = "save" <=> pc = "save")
    PROVE  Pausing'
  <1>1. adapter' = "up" => TurnsTell'
    BY TurnsSame DEF Pausing
  <1>2. ~paused' /\ ~lost' => view'.paused = NotPaused
    BY DEF Pausing
  <1>3. ~paused' /\ ~lost' /\ pc' # "resumed" => stored' = NotPaused
    BY DEF Pausing
  <1>4. ASSUME Quiet', paused', ~lost', program' = "stopped", pc' \in Looping \ {"stack"}
        PROVE  view'.paused = place' /\ (pc' # "save" => stored' = place')
    <2>1. NoneOf(events, Turns)' <=> NoneOf(events, Turns)
      BY DEF NoneOf, Turns
    <2>2. Quiet
      BY <1>4, <2>1 DEF Quiet
    <2> QED BY <1>4, <2>2 DEF Pausing
  <1> QED BY <1>1, <1>2, <1>3, <1>4 DEF Pausing

\* The last turn is handled.
LEMMA TurnHandled ==
    ASSUME TypeOK, OneOfAKind, batch # <<>>, Handled(FALSE), TurnsTell, UNCHANGED <<events, program>>,
           \/ batch[1].name = "stopped" /\ paused'
           \/ batch[1].name = "continued" /\ ~paused'
    PROVE  TurnsTell' /\ ~InBatch("stopped")' /\ ~InBatch("continued")'
  <1>1. /\ batch \in Seq(Item) /\ 1 \in DOMAIN batch /\ \A i \in DOMAIN batch : batch[i] \in Item
    BY Popped DEF TypeOK
  <1>2. ~InBatch("stopped")' /\ ~InBatch("continued")'
    BY PoppedBatch DEF EventNames
  <1>3. ~(InBatch("stopped") /\ InBatch("continued"))
    <2> SUFFICES ASSUME NEW i \in DOMAIN batch, NEW j \in DOMAIN batch, batch[i].name = "stopped", batch[j].name = "continued"
                 PROVE  FALSE
      BY DEF InBatch
    <2>1. batch[i].kind = "event" /\ batch[j].kind = "event"
      BY <1>1, ItemFacts DEF EventNames
    <2>2. i = j
      BY <2>1 DEF OneOfAKind
    <2> QED BY <2>2
  <1>4. /\ \A x : LastOf(events, Turns, x)' <=> LastOf(events, Turns, x)
        /\ NoneOf(events, Turns)' <=> NoneOf(events, Turns)
    BY DEF LastOf, NoneOf, Turns
  <1>5. CASE batch[1].name = "stopped" /\ paused'
    <2>1. InBatch("stopped") /\ ~InBatch("continued")
      BY <1>1, <1>3, <1>5 DEF InBatch
    <2>2. CASE LastOf(events, Turns, "stopped") /\ program = "stopped"
      BY <1>2, <1>4, <2>2 DEF TurnsTell
    <2>3. CASE LastOf(events, Turns, "continued") /\ program # "stopped"
      BY <1>2, <1>4, <2>3 DEF TurnsTell
    <2>4. CASE NoneOf(events, Turns) /\ program = "stopped"
      BY <1>2, <1>4, <1>5, <2>4 DEF TurnsTell
    <2> QED BY <1>2, <2>1, <2>2, <2>3, <2>4 DEF TurnsTell
  <1>6. CASE batch[1].name = "continued" /\ ~paused'
    <2>1. InBatch("continued") /\ ~InBatch("stopped")
      BY <1>1, <1>3, <1>6 DEF InBatch
    <2>2. CASE LastOf(events, Turns, "stopped") /\ program = "stopped"
      BY <1>2, <1>4, <2>2 DEF TurnsTell
    <2>3. CASE LastOf(events, Turns, "continued") /\ program # "stopped"
      BY <1>2, <1>4, <2>3 DEF TurnsTell
    <2>4. CASE NoneOf(events, Turns) /\ program # "stopped"
      BY <1>2, <1>4, <1>6, <2>4 DEF TurnsTell
    <2> QED BY <1>2, <2>1, <2>2, <2>3, <2>4 DEF TurnsTell
  <1> QED BY <1>5, <1>6

\* Received turns are in the batch.
LEMMA TurnReceived ==
    ASSUME TypeOK, Control, Receive
    PROVE  /\ TurnsTell => TurnsTell'
           /\ Quiet' => Quiet
  <1>1. /\ events \in Seq(EventNames) /\ commands \in Seq(Command) /\ batch = <<>> /\ UNCHANGED <<paused, program>>
        /\ pc = "loop" /\ pc' = "handle"
    BY DEF TypeOK, Control, Receive
  <1>2. ~InBatch("stopped") /\ ~InBatch("continued")
    BY <1>1 DEF InBatch
  <1>3. PICK K \in SUBSET {"event", "command", "cancel"} :
             /\ \A k \in K : \E i \in DOMAIN batch' : batch'[i] = Received(k)
             /\ \A i \in DOMAIN batch' : \E k \in K : batch'[i] = Received(k)
             /\ "event" \in K => events # <<>> /\ events' = Tail(events)
             /\ "event" \notin K => events' = events
             /\ "command" \in K => commands # <<>>
    BY ReceiveShape
  <1>4. /\ "command" \in K => Received("command").name \in CommandNames
        /\ Received("cancel").name = "cancel"
        /\ Received("event").name = Head(events)
    <2>1. ASSUME "command" \in K PROVE Head(commands) \in Command
      BY <1>1, <1>3, <2>1, Shrink
    <2> QED BY <2>1, ItemFacts DEF Received
  <1>5. CASE "event" \notin K
    <2>1. events' = events /\ ~InBatch("stopped")' /\ ~InBatch("continued")'
      BY <1>3, <1>4, <1>5 DEF InBatch, CommandNames
    <2>2. NoneOf(events, Turns)' <=> NoneOf(events, Turns)
      BY <2>1 DEF NoneOf, Turns
    <2> QED BY <1>1, <1>2, <2>1, <2>2, TurnsSame DEF Quiet
  <1>6. CASE "event" \in K
    <2>1. events # <<>> /\ events' = Tail(events) /\ \A name \in Turns : InBatch(name)' <=> Head(events) = name
      BY <1>3, <1>4, <1>6 DEF InBatch, CommandNames, Turns
    <2>2. /\ \A x : LastOf(events, Turns, x) =>
                 \/ LastOf(events, Turns, x)'
                 \/ Head(events) = x /\ NoneOf(events, Turns)'
          /\ NoneOf(events, Turns) => NoneOf(events, Turns)' /\ Head(events) \notin Turns
      <3>1. /\ \A x : LastOf(events, Turns, x) =>
                 \/ LastOf(Tail(events), Turns, x)
                 \/ Head(events) = x /\ NoneOf(Tail(events), Turns)
            /\ NoneOf(events, Turns) => NoneOf(Tail(events), Turns) /\ Head(events) \notin Turns
        BY <1>1, <2>1, LastOfShrink
      <3>2. /\ \A x : LastOf(events, Turns, x)' <=> LastOf(Tail(events), Turns, x)
            /\ NoneOf(events, Turns)' <=> NoneOf(Tail(events), Turns)
        BY <2>1 DEF LastOf, NoneOf, Turns
      <3> QED BY <3>1, <3>2
    <2>3. "stopped" \in Turns /\ "continued" \in Turns
      BY DEF Turns
    <2>4. InBatch("stopped")' <=> Head(events) = "stopped"
      BY <2>1, <2>3
    <2>5. InBatch("continued")' <=> Head(events) = "continued"
      BY <2>1, <2>3
    <2>6. ASSUME TurnsTell PROVE TurnsTell'
      <3>1. CASE LastOf(events, Turns, "stopped") /\ program = "stopped"
        BY <1>1, <2>2, <2>4, <3>1 DEF TurnsTell
      <3>2. CASE LastOf(events, Turns, "continued") /\ program # "stopped"
        BY <1>1, <2>2, <2>5, <3>2 DEF TurnsTell
      <3>3. CASE NoneOf(events, Turns) /\ (paused <=> program = "stopped")
        <4>1. NoneOf(events, Turns)' /\ ~InBatch("stopped")' /\ ~InBatch("continued")'
          BY <2>2, <2>3, <2>4, <2>5, <3>3
        <4> QED BY <1>1, <3>3, <4>1 DEF TurnsTell
      <3> QED BY <1>2, <2>6, <3>1, <3>2, <3>3 DEF TurnsTell
    <2>7. ASSUME Quiet' PROVE Quiet
      <3>1. NoneOf(Tail(events), Turns) /\ Head(events) \notin Turns
        BY <1>1, <2>1, <2>4, <2>5, <2>7 DEF Quiet, NoneOf, Turns
      <3>2. NoneOf(events, Turns)
        <4>1. /\ Head(events) = events[1]
              /\ \A i \in DOMAIN events : i # 1 => i - 1 \in DOMAIN Tail(events) /\ Tail(events)[i - 1] = events[i]
          BY <1>1, <2>1, Shrink
        <4> QED BY <3>1, <4>1 DEF NoneOf
      <3> QED BY <1>2, <3>2 DEF Quiet
    <2> QED BY <2>6, <2>7
  <1> QED BY <1>5, <1>6

LEMMA PausingStep ==
    ASSUME TypeOK, Control, OneOfAKind, Frames, Pausing, Next
    PROVE  Pausing'
  <1>t. /\ events \in Seq(EventNames) /\ batch \in Seq(Item)
        /\ view \in View /\ place \in 0..MaxStops /\ details \in 0..MaxStops
    BY PlaceFacts DEF TypeOK
  <1>b. batch' = batch => \A name : InBatch(name)' <=> InBatch(name)
    BY DEF InBatch
  <1>1. CASE CancelRun \/ (\E n \in Changes : ChangeBreakpoints(n)) \/ DetailsLoad
             \/ (\E c \in {"continue", "step", "pause", "stop", "frame"} : debug_command(c))
    <2>1. UNCHANGED <<pc, batch, events, paused, place, view, stored, adapter, program>> /\ (lost => lost')
      BY <1>1, PutEffect DEF CancelRun, DetailsLoad, debug_command
    <2> QED BY <1>b, <2>1, PausingSame DEF Pausing
  <1>2. CASE HangsUp
    <2>1. UNCHANGED <<pc, batch, paused, place, view, stored, lost>> /\ adapter' # "up" /\ program' # "stopped"
      BY <1>2 DEF HangsUp, Eof
    <2> QED BY <2>1 DEF Pausing
  <1>3. CASE DetailsSave
    <2>1. /\ UNCHANGED <<pc, batch, events, paused, place, view, adapter, program>>
          /\ details # 0 /\ Save(details)
      BY <1>3 DEF DetailsSave, Control
    <2>2. stored' \in {stored, details} /\ (lost => lost')
      BY <2>1, Lossy DEF Save, set_state
    <2>3. details = place /\ paused
      BY <2>1 DEF Frames, Control
    <2> QED BY <1>b, <2>1, <2>2, <2>3, PausingSame
  <1>4. CASE DetailsPublish
    <2>1. /\ UNCHANGED <<pc, batch, events, paused, place, stored, adapter, program>>
          /\ Publish(Event("debug_frame", details))
      BY <1>4 DEF DetailsPublish
    <2>2. view'.paused = view.paused /\ (lost => lost')
      BY SMTT(40), <1>t, <2>1, Published, ViewFacts, Applied, Lossy DEF View
    <2> QED BY <1>b, <2>1, <2>2, PausingSame DEF Pausing
  <1>5. CASE EarlierStops
    <2>1. /\ UNCHANGED <<pc, batch, events, paused, place, stored, adapter, program, lost>>
          /\ view' = IF view.session = This THEN view ELSE EmptyView
      BY <1>5, Applied DEF EarlierStops
    <2>2. CASE view' = view
      BY <1>b, <2>1, <2>2, PausingSame DEF Pausing
    <2>3. CASE view' = EmptyView /\ view.session # This
      <3>1. view'.paused = NotPaused /\ (pc' \in Looping => lost')
        BY <2>1, <2>3 DEF EmptyView, Frames
      <3>2. TurnsTell => TurnsTell'
        BY <1>b, <2>1, TurnsSame
      <3> QED BY <2>1, <3>1, <3>2 DEF Pausing
    <2> QED BY <2>1, <2>2, <2>3
  <1>6. CASE Subscribe \/ Initialize \/ Limit \/ Launch
    <2>1. /\ UNCHANGED <<batch, events, paused, place, view, stored, adapter, lost>>
          /\ program' = "stopped" <=> program = "stopped"
          /\ pc \notin {"resumed"} /\ pc' \notin Looping
      <3>1. CASE Launch
        <4>1. program = "off"
          BY <3>1 DEF Control, Launch, Launching
        <4> QED BY <3>1, <4>1 DEF Launch, Leave, Looping
      <3> QED BY <1>6, <3>1 DEF Subscribe, Initialize, Limit, Leave, Looping
    <2> QED BY <1>b, <2>1, PausingSame
  <1>7. CASE Start
    <2>1. /\ UNCHANGED <<batch, events, paused, place, view, stored, lost, program>>
          /\ program = "off" /\ ~paused /\ batch = <<>> /\ events = <<>> /\ pc = "start" /\ pc' \notin Looping
      BY <1>7 DEF Start, Leave, Control, Launching, Looping
    <2>2. ~InBatch("stopped")' /\ ~InBatch("continued")' /\ NoneOf(events, Turns)'
      BY <2>1 DEF InBatch, NoneOf
    <2>3. TurnsTell'
      BY <2>1, <2>2 DEF TurnsTell
    <2> QED BY <2>1, <2>3 DEF Pausing
  <1>8. CASE Started
    <2>1. /\ UNCHANGED <<batch, events, paused, place, stored, adapter, program>> /\ ~paused /\ pc = "started"
      BY <1>8 DEF Started, Control
    <2>2. (lost => lost') /\ (~lost' => view'.paused = NotPaused)
      <3>1. CASE UNCHANGED <<view, lost>>
        BY <2>1, <3>1 DEF Pausing
      <3>2. CASE Publish(Event("debug_started", 0))
        BY <3>2, Published, ViewFacts, Applied, Lossy
      <3> QED BY <1>8, <3>1, <3>2 DEF Started
    <2>3. TurnsTell => TurnsTell'
      BY <1>b, <2>1, TurnsSame
    <2> QED BY <2>1, <2>2, <2>3 DEF Pausing
  <1>9. CASE Stops
    <2>1. /\ UNCHANGED <<pc, batch, paused, view, stored, adapter, lost>>
          /\ events' = Append(events, "stopped") /\ program' = "stopped"
      BY <1>9, <1>t, Grow DEF Stops, Emit, EventNames
    <2>2. LastOf(events, Turns, "stopped")'
      <3>1. LastOf(Append(events, "stopped"), Turns, "stopped")
        BY <1>t, LastOfGrow DEF EventNames
      <3> QED BY <2>1, <3>1 DEF LastOf, Turns
    <2>3. ~Quiet'
      BY <2>2 DEF Quiet, LastOf, NoneOf, Turns
    <2> QED BY <2>1, <2>2, <2>3 DEF Pausing, TurnsTell
  <1>10. CASE Exits
    <2>1. /\ UNCHANGED <<pc, batch, paused, view, stored, adapter, lost>>
          /\ program = "running" /\ program' = "ended"
          /\ events' = events \o <<"exited", "terminated">>
      BY <1>10 DEF Exits, Emit
    <2> DEFINE once == Append(events, "exited")
    <2>2. /\ "exited" \in EventNames /\ "terminated" \in EventNames
          /\ "exited" \notin Turns /\ "terminated" \notin Turns
      BY DEF EventNames, Turns
    <2>3. once \in Seq(EventNames) /\ events' = Append(once, "terminated")
      BY <1>t, <2>1, <2>2, Grow, GrowTwo
    <2>4. /\ NoneOf(events, Turns) => NoneOf(once, Turns)
          /\ LastOf(events, Turns, "continued") => LastOf(once, Turns, "continued")
      BY <1>t, <2>2, LastOfGrow
    <2> HIDE DEF once
    <2>5. /\ NoneOf(events, Turns) => NoneOf(Append(once, "terminated"), Turns)
          /\ LastOf(events, Turns, "continued") => LastOf(Append(once, "terminated"), Turns, "continued")
      BY <2>2, <2>3, <2>4, LastOfGrow
    <2>6. /\ NoneOf(events, Turns) => NoneOf(events, Turns)'
          /\ LastOf(events, Turns, "continued") => LastOf(events, Turns, "continued")'
      BY <2>3, <2>5 DEF LastOf, NoneOf, Turns
    <2>7. TurnsTell => TurnsTell'
      BY <1>b, <2>1, <2>6 DEF TurnsTell
    <2> QED BY <2>1, <2>7 DEF Pausing
  <1>11. CASE Receive
    <2>1. /\ UNCHANGED <<paused, place, view, stored, adapter, lost, program>> /\ pc = "loop" /\ pc' = "handle"
      BY <1>11 DEF Receive
    <2>2. (TurnsTell => TurnsTell') /\ (Quiet' => Quiet)
      BY <1>11, TurnReceived
    <2> QED BY <2>1, <2>2 DEF Pausing, Looping
  <1>12. CASE HandleEnd \/ HandleClosed \/ HandlePause \/ HandleBreakpoints \/ HandleFrame
    <2>1. UNCHANGED <<events, paused, place, stored, adapter, program>>
      BY <1>12 DEF HandleEnd, HandleClosed, HandlePause, HandleBreakpoints, HandleFrame
    <2>2. /\ pc = "handle" /\ batch # <<>> /\ batch[1].name \notin Turns
          /\ \E fin \in BOOLEAN : Handled(fin)
      <3>1. \E kind, name : Handling(kind, name) /\ name \notin Turns
        <4>1. \/ Handling("cancel", "cancel") \/ Handling("command", "stop")
              \/ Handling("event", "exited") \/ Handling("event", "terminated") \/ Handling("event", "_closed")
              \/ Handling("command", "pause") \/ Handling("command", "frame") \/ Handling("command", "setBreakpoints")
          BY <1>12 DEF HandleEnd, HandleClosed, HandlePause, HandleBreakpoints, HandleFrame
        <4>2. \A name \in {"cancel", "stop", "exited", "terminated", "_closed", "pause", "frame", "setBreakpoints"} : name \notin Turns
          BY DEF Turns
        <4> QED BY <4>1, <4>2
      <3>2. \E fin \in BOOLEAN : Handled(fin)
        BY <1>12 DEF HandleEnd, HandleClosed, HandlePause, HandleBreakpoints, HandleFrame, ClosedEnds
      <3> QED BY <3>1, <3>2, Handles
    <2>3. /\ InBatch("stopped")' <=> InBatch("stopped")
          /\ InBatch("continued")' <=> InBatch("continued")
          /\ pc' \in {"handle", "loop", "close"}
      BY <2>2, PoppedBatch, Popped DEF Turns
    <2>4. view'.paused = view.paused /\ (lost => lost')
      <3>1. CASE UNCHANGED <<view, lost>>
        BY <3>1
      <3>2. CASE Publish(Event("debug_frame", place))
        BY SMTT(40), <1>t, <3>2, Published, ViewFacts, Applied, Lossy DEF View
      <3> QED BY <1>12, <3>1, <3>2 DEF HandleEnd, HandleClosed, HandlePause, HandleBreakpoints, HandleFrame
    <2>5. pc' \in Looping \ {"stack"} => pc \in Looping \ {"stack"} /\ (pc' = "save" <=> pc = "save")
      BY <2>2, <2>3 DEF Looping
    <2> QED BY <2>1, <2>2, <2>3, <2>4, <2>5, PausingSame
  <1>13. ASSUME NEW name \in {"continue", "step"}, HandleStep(name) PROVE Pausing'
    <2>1. /\ UNCHANGED <<paused, place, stored, adapter, view, lost>>
          /\ \/ program' = "running" /\ events' = events \o <<"continued">>
             \/ program' = program /\ events' = events \o <<>>
             \/ UNCHANGED <<program, events>>
      BY <1>13 DEF HandleStep, Emit
    <2>2. pc = "handle" /\ batch # <<>> /\ batch[1].name \notin Turns /\ Handled(FALSE)
      BY <1>13, Handles DEF HandleStep, Turns
    <2>3. /\ InBatch("stopped")' <=> InBatch("stopped")
          /\ InBatch("continued")' <=> InBatch("continued")
          /\ pc' \in {"handle", "loop", "close"}
      BY <2>2, PoppedBatch, Popped DEF Turns
    <2>4. CASE UNCHANGED <<program, events>>
      <3>1. pc' \in Looping \ {"stack"} => pc \in Looping \ {"stack"} /\ (pc' = "save" <=> pc = "save")
        BY <2>2, <2>3 DEF Looping
      <3> QED BY <2>1, <2>2, <2>3, <2>4, <3>1, PausingSame
    <2>5. CASE program' = "running" /\ events' = events \o <<"continued">>
      <3>1. events' = Append(events, "continued") /\ LastOf(Append(events, "continued"), Turns, "continued")
        <4>1. "continued" \in EventNames
          BY DEF EventNames
        <4>2. events' = Append(events, "continued")
          BY <1>t, <2>5, <4>1, Grow
        <4>3. LastOf(Append(events, "continued"), Turns, "continued")
          BY <1>t, <4>1, LastOfGrow
        <4> QED BY <4>2, <4>3
      <3>2. LastOf(events, Turns, "continued")'
        BY <3>1 DEF LastOf, Turns
      <3>3. TurnsTell'
        BY <2>5, <3>2 DEF TurnsTell
      <3> QED BY <2>1, <2>2, <2>5, <3>3 DEF Pausing
    <2> QED BY <1>t, <2>1, <2>4, <2>5, GrowNone
  <1>14. CASE HandleStopped
    <2>1. /\ UNCHANGED <<events, batch, place, stored, adapter, program, view, lost>>
          /\ paused' = TRUE /\ pc' = "stack" /\ InBatch("stopped")
      BY <1>14, Handles DEF HandleStopped, InBatch
    <2>2. TurnsTell => TurnsTell'
      BY <1>b, <2>1 DEF TurnsTell, LastOf, NoneOf, Turns
    <2> QED BY <2>1, <2>2 DEF Pausing
  <1>15. CASE PublishPaused
    <2>1. /\ UNCHANGED <<events, paused, place, stored, adapter, program>> /\ paused
          /\ pc = "stack" /\ pc' \in {"save", "close"}
      BY <1>15 DEF PublishPaused, Leave, Control
    <2>2. CASE pc' = "close"
      <3>1. UNCHANGED <<batch, view, lost>> /\ pc' \notin Looping
        BY <1>15, <2>1, <2>2 DEF PublishPaused, Leave, Looping
      <3> QED BY <1>b, <2>1, <3>1, PausingSame
    <2>3. CASE pc' = "save"
      <3>1. /\ batch' = [batch EXCEPT ![1] = PausedAt(TopFrame)]
            /\ Publish(Event("debug_paused", TopFrame))
        BY <1>15, <2>3 DEF PublishPaused, Leave
      <3>2. TopFrame \in {0, place} /\ (program = "stopped" => TopFrame = place)
        BY DEF TopFrame
      <3>3. ~lost' => view'.paused = TopFrame
        BY <3>1, <3>2, Published, ViewFacts, Applied
      <3>4. 1 \in DOMAIN batch /\ batch[1].name = "stopped"
        BY <1>t, <2>1, Shrink DEF Control
      <3>5. DOMAIN batch' = DOMAIN batch /\ \A i \in DOMAIN batch : batch'[i].name = batch[i].name
        BY <1>t, <3>1, <3>4 DEF PausedAt
      <3>6. \A name : InBatch(name)' <=> InBatch(name)
        BY <3>5 DEF InBatch
      <3>7. TurnsTell => TurnsTell'
        BY <2>1, <3>6, TurnsSame
      <3> QED BY <2>1, <2>3, <3>2, <3>3, <3>7 DEF Pausing
    <2> QED BY <2>1, <2>2, <2>3
  <1>16. CASE SavePaused
    <2>1. /\ UNCHANGED <<events, paused, place, adapter, program, view>> /\ paused /\ pc = "save"
          /\ batch # <<>> /\ batch[1].name = "stopped" /\ Handled(FALSE) /\ Save(Head(batch).arg)
      BY <1>16 DEF SavePaused, Control
    <2>2. Head(batch) = batch[1] /\ batch[1].arg \in {0, place}
      BY <1>t, <2>1, Shrink DEF Frames
    <2>3. ~lost' => ~lost /\ stored' = batch[1].arg
      BY <2>1, <2>2, Saved, ViewFacts
    <2>4. adapter' = "up" => TurnsTell'
      BY <2>1, TurnHandled DEF Pausing
    <2>5. pc' \in {"handle", "loop", "close"}
      BY <2>1, Popped
    <2>6. NoneOf(events, Turns)' <=> NoneOf(events, Turns)
      BY <2>1 DEF NoneOf, Turns
    <2>7. ASSUME Quiet', ~lost', program' = "stopped" PROVE view'.paused = place' /\ stored' = place'
      <3>1. Quiet
        BY <2>1, <2>6, <2>7 DEF Quiet
      <3>2. view.paused = place
        BY <2>1, <2>3, <2>7, <3>1 DEF Pausing, Looping
      <3>3. view.paused = batch[1].arg
        BY <2>1, <2>3, <2>7 DEF Frames
      <3> QED BY <2>1, <2>3, <2>7, <3>2, <3>3
    <2> QED BY <2>1, <2>4, <2>5, <2>7 DEF Pausing
  <1>17. CASE HandleContinued
    <2>1. /\ UNCHANGED <<events, place, adapter, program, stored>> /\ paused' = FALSE /\ pc = "handle"
          /\ batch # <<>> /\ batch[1].name = "continued" /\ 1 \in DOMAIN batch
      BY <1>17, Handles DEF HandleContinued
    <2>2. CASE ~paused /\ Handled(FALSE) /\ UNCHANGED <<view, lost>>
      <3>1. TurnsTell => TurnsTell'
        BY <2>1, <2>2, TurnHandled
      <3> QED BY <2>1, <2>2, <3>1 DEF Pausing
    <2>3. CASE paused /\ pc' = "resumed" /\ Publish(Event("debug_running", 0)) /\ UNCHANGED batch
      <3>1. ~lost' => ~lost
        BY <2>3, Lossy DEF TypeOK
      <3>2. ~lost => view.session = This
        BY <2>1 DEF Frames, Looping
      <3>3. ~lost' => view'.paused = NotPaused
        BY <2>3, <3>1, <3>2, Published, ViewFacts, Applied
      <3>4. InBatch("continued")
        BY <2>1 DEF InBatch
      <3>5. TurnsTell => TurnsTell'
        BY <1>b, <2>1, <2>3, <3>4 DEF TurnsTell, LastOf, NoneOf, Turns
      <3> QED BY <2>1, <2>3, <3>3, <3>5 DEF Pausing
    <2> QED BY <1>17, <2>2, <2>3 DEF HandleContinued
  <1>18. CASE ClearPaused
    <2>1. /\ UNCHANGED <<events, paused, place, adapter, program, view>> /\ ~paused /\ pc = "resumed"
          /\ batch # <<>> /\ batch[1].name = "continued" /\ Handled(FALSE) /\ Save(NotPaused)
      BY <1>18 DEF ClearPaused, Control
    <2>2. ~lost' => ~lost /\ stored' = NotPaused
      BY <2>1, Saved, ViewFacts
    <2>3. TurnsTell => TurnsTell'
      BY <2>1, TurnHandled
    <2> QED BY <2>1, <2>2, <2>3 DEF Pausing
  <1>19. CASE Close \/ Unsave \/ Stopped \/ Clear \/ Record \/ ClearAgain
    <2>1. paused' = paused /\ pc' \notin Looping /\ pc # "resumed"
      BY <1>19 DEF Close, Unsave, Stopped, Clear, Record, ClearAgain, Looping, sessionVars
    <2>2. adapter' = "up" => TurnsTell'
      <3>1. CASE Close
        BY <3>1 DEF Close
      <3>2. CASE UNCHANGED <<adapter, events, batch, program>>
        BY <1>b, <2>1, <3>2, TurnsSame DEF Pausing
      <3> QED BY <1>19, <3>1, <3>2 DEF Unsave, Stopped, Clear, Record, ClearAgain, sessionVars, programVars
    <2>3. /\ lost => lost'
          /\ ~paused /\ ~lost' => view'.paused = NotPaused /\ stored' = NotPaused
      <3>1. CASE Close \/ Record
        BY <2>1, <3>1 DEF Pausing, Close, Record, redisVars
      <3>2. CASE Unsave
        <4>1. Save(NotPaused) /\ view' = view
          BY <3>2 DEF Unsave
        <4> QED BY <4>1, Saved, ViewFacts, Lossy DEF Pausing
      <3>3. CASE Stopped
        <4>1. Publish(Event("debug_stopped", 0)) /\ stored' = stored
          BY <3>3 DEF Stopped, redisVars
        <4>2. ~lost' => ~lost /\ view' = EmptyView
          BY <4>1, Published, ViewFacts, Applied
        <4> QED BY <2>1, <4>1, <4>2, Lossy DEF Pausing, EmptyView
      <3>4. CASE Clear \/ ClearAgain
        BY <2>1, <3>4 DEF Pausing, Clear, ClearAgain, ClearKeys
      <3> QED BY <1>19, <3>1, <3>2, <3>3, <3>4
    <2> QED BY <2>1, <2>2, <2>3 DEF Pausing
  <1> QED BY <1>1, <1>2, <1>3, <1>4, <1>5, <1>6, <1>7, <1>8, <1>9, <1>10, <1>11, <1>12, <1>13, <1>14, <1>15,
             <1>16, <1>17, <1>18, <1>19 DEF Next, WorkerStep

(***************************************************************************)
(* The theorems                                                            *)
(***************************************************************************)

LEMMA InvInit == Init => IInv
  BY TypeInit, ControlInit, OutcomeInit, ClearedInit, FramesInit, PausingInit, LinesInit DEF IInv

LEMMA InvStutter ==
    ASSUME IInv, UNCHANGED vars
    PROVE  IInv'
  <1>1. /\ UNCHANGED <<pc, batch, finished, reason, paused, deferVars, details, detailsPc, exitCode>>
        /\ UNCHANGED <<program, place, code, adapter, events, commands, active, stored, listening, view, lost>>
        /\ UNCHANGED <<lines, known, put, seen, missed, crossed, adapterLines, row, asked, cancel, oldSession, sent, faults>>
    BY DEF vars, sessionVars, programVars, redisVars, lineVars, restVars
  <1>2. TypeOK'
    BY TypeStep DEF IInv
  <1>3. Control' /\ OneOfAKind' /\ Cleared'
    BY <1>1 DEF IInv, Control, OneOfAKind, Cleared
  <1>4. Outcome'
    BY <1>1 DEF IInv, Outcome, OutcomeIsTrue, InBatch, ExitedSent, StopSent
  <1>5. Frames'
    BY <1>1 DEF IInv, Frames, FrameOK, FrameMatchesPause
  <1>6. Pausing'
    BY <1>1 DEF IInv, Pausing, TurnsTell, Quiet, InBatch, LastOf, NoneOf
  <1>7. Lines'
    BY <1>1, LinesFrame DEF IInv, InSession, BatchLines, InBatch
  <1> QED BY <1>2, <1>3, <1>4, <1>5, <1>6, <1>7 DEF IInv

LEMMA InvStep == IInv /\ [Next]_vars => IInv'
  <1> SUFFICES ASSUME IInv, [Next]_vars PROVE IInv'
    OBVIOUS
  <1>1. CASE Next
    <2>1. TypeOK' /\ Control' /\ OneOfAKind'
      BY <1>1, TypeStep, ControlStep DEF IInv
    <2>2. Outcome' /\ Cleared' /\ Lines'
      BY <1>1, OutcomeStep, ClearedStep, LinesStep DEF IInv
    <2>3. Frames' /\ Pausing'
      BY <1>1, <2>1, FramesStep, PausingStep DEF IInv
    <2> QED BY <2>1, <2>2, <2>3 DEF IInv
  <1>2. CASE UNCHANGED vars
    BY <1>2, InvStutter
  <1> QED BY <1>1, <1>2

LEMMA Invariant == Spec => []IInv
  BY InvInit, InvStep, PTL DEF Spec

\* The worker, the program, the panel and the breakpoint endpoint keep the types
\* of what they share: no batch is ever read at an index it does not have.
THEOREM TypeCorrect == Spec => []TypeOK
  <1>1. IInv => TypeOK
    BY DEF IInv
  <1> QED BY <1>1, Invariant, PTL

\* What _run_debug records is true, however stop, cancel, the limits and the end
\* of the program race: completed is a program that exited with code 0, and
\* cancelled is what somebody asked for.
THEOREM OutcomeHolds == Spec => []OutcomeIsTrue
  <1>1. IInv => OutcomeIsTrue
    BY DEF IInv, Outcome
  <1> QED BY <1>1, Invariant, PTL

\* DebugRun's finally block, clear_active and _run_one's finally block leave no
\* paused event in Redis, unless all three of their writes failed.
LEMMA ClearedInv == IInv => StateIsCleared
  <1> SUFFICES ASSUME IInv, pc = "done", faults < 3 PROVE stored = NotPaused
    BY DEF StateIsCleared
  <1>1. faults \in Nat
    BY SessionAssumption DEF IInv, TypeOK
  <1> QED BY <1>1 DEF IInv, Cleared

\* The same of every reachable state, for any number of failures.
THEOREM ClearedHolds == Spec => []StateIsCleared
  BY ClearedInv, Invariant, PTL

\* The variables _publish_details and the frame command publish are those of the
\* place the panel shows, for every order of steps, stops and choices of a frame.
THEOREM FramesHold == Spec => []FrameMatchesPause
  <1>1. IInv => FrameMatchesPause
    BY DEF IInv, Frames
  <1> QED BY <1>1, Invariant, PTL

\* Once its queues are empty and nothing was lost, the session, its key in Redis
\* and the panel of the browser agree with the program about whether and where
\* it is stopped; and when it is done the panel shows no session and no paused
\* event is left, but for failures of Redis.
THEOREM SettledHolds == Spec => []SettledViewIsTrue
  <1>1. ASSUME IInv, Settled, adapter = "up"
        PROVE  /\ view.session = This
               /\ paused <=> program = "stopped"
               /\ view.paused = IF paused THEN place ELSE NotPaused
               /\ stored = view.paused
    <2>1. /\ pc = "loop" /\ events = <<>> /\ batch = <<>> /\ ~lost
          /\ paused \in BOOLEAN
      BY <1>1 DEF IInv, Settled, Control, TypeOK
    <2>2. NoneOf(events, Turns) /\ ~InBatch("stopped") /\ ~InBatch("continued")
          /\ \A x : ~LastOf(events, Turns, x)
      BY <2>1 DEF NoneOf, InBatch, LastOf
    <2>3. paused <=> program = "stopped"
      BY <1>1, <2>2 DEF IInv, Pausing, TurnsTell
    <2>4. view.session = This
      BY <1>1, <2>1 DEF IInv, Frames, Looping
    <2>5. CASE paused
      <3>1. Quiet
        BY <2>2 DEF Quiet
      <3>2. view.paused = place /\ stored = place
        BY <1>1, <2>1, <2>3, <2>5, <3>1 DEF IInv, Pausing, Looping
      <3> QED BY <2>3, <2>4, <2>5, <3>2
    <2>6. CASE ~paused
      <3>1. view.paused = NotPaused /\ stored = NotPaused
        BY <1>1, <2>1, <2>6 DEF IInv, Pausing
      <3> QED BY <2>3, <2>4, <2>6, <3>1
    <2> QED BY <2>5, <2>6
  <1>2. IInv => SettledViewIsTrue
    BY <1>1, ClearedInv DEF IInv, Frames, SettledViewIsTrue
  <1> QED BY <1>2, Invariant, PTL

\* With no PUT in progress and its commands handled, a session that can be reached
\* has exactly the lines of the table, although each PUT announces its own lines some
\* steps after its commit; for any number of PUTs, unless the last ones crossed each
\* other or one of them was announced to nobody.
THEOREM LinesHold == Spec => []BreakpointsReachSession
  <1>1. ASSUME IInv, pc = "loop", InProgress = {}, commands = <<>>, ~missed, ~crossed, adapter = "up"
        PROVE  lines = {adapterLines}
    <2>1. batch = <<>>
      BY <1>1 DEF IInv, Control
    <2>2. TableTold
      BY <1>1 DEF IInv, Lines, InSession
    <2>3. \A k : ~LastOf(commands, SetLines, LinesCommand(k)) /\ ~BatchLines(k)
      BY <1>1, <2>1 DEF LastOf, BatchLines
    <2> QED BY <2>2, <2>3 DEF LinesTell, TableTold
  <1>2. IInv => BreakpointsReachSession
    BY <1>1 DEF BreakpointsReachSession
  <1> QED BY <1>2, Invariant, PTL
=============================================================================
