-------------------------- MODULE AssistantRunProofs --------------------------
(***************************************************************************)
(* AssistantRun keeps its types, and what its invariants say of accepted   *)
(* proposals, of the log and of another member's panel, whatever the model *)
(* answers, and for any requests, limits and number of failures.           *)
(***************************************************************************)
EXTENDS AssistantRun, FiniteSetTheorems, SequenceTheorems, TLAPS

Pcs == {"idle"} \union Active \union Ended
Request == [pc : Pcs, kind : Kinds \union {"none"},
            step : 0..(MaxSteps - 1), attempt : 0..MaxRetries, calls : 0..MaxCalls,
            meant : Line \union {None}, parses : BOOLEAN, applied : Line \union {None}]
Event == [op : {"AI_STARTED", "AI_FINISHED"}, r : Requests]
Entry == [ok : BOOLEAN, kind : Kinds]
Finished(r) == [op |-> "AI_FINISHED", r |-> r]

\* Where the agent loop is: after AI_STARTED, before AI_FINISHED
Working == Active \ {"resolve"}

(* The inductive invariant *)

Begun == {r \in Requests : req[r].pc # "idle"}

\* Whoever was let through is counted at most once in the window.
CountedOnce == rate.count <= Cardinality(Begun)

\* Where the copies are d, r's tab holds every update of line l's span there is, and
\* shows no line that reads the same but l.
Known(d, r, l) ==
  /\ \A c \in Copies : \A u \in d[c] : Touches(u, l) => u \in d[r]
  /\ \A m \in Visible(d[r]) : Says(m) = Says(l) => m = l

\* and so it is of the line a proposal means
Found(r) == Known(doc, r, req[r].meant)

\* What is in the handler's hands.  The provider was resolved before it is asked; a
\* proposal whose span the copies agreed about and nobody has edited still fits; what
\* was applied was offered; the log has nothing of a request before it ends, and what
\* Logged says after.
Holds(r) ==
  /\ req[r].pc \in Working => req[r].kind \in Kinds
  /\ req[r].applied # None => req[r].pc = "answered"
  /\ r \in Editors /\ HasProposal(r) /\ req[r].applied = None /\ r \notin edited \union apart => Found(r)
  /\ req[r].applied # None /\ r \notin edited \union apart => req[r].applied = req[r].meant
  /\ Logged(r)
  /\ req[r].pc \in {"idle", "lost"} \union Active => rows[r] = <<>>

\* The end of a run is on its way behind place i
Ends(i) == \E j \in DOMAIN channel : i < j /\ channel[j] = Finished(channel[i].r)

\* The panel is told of the runs of others; behind the start of a run that has ended
\* there is its end, and so it is for what is shown; without a socket nothing is on
\* its way.
Telling ==
  /\ \A i \in DOMAIN channel :
       /\ channel[i].r \notin Own
       /\ channel[i].op = "AI_STARTED" => req[channel[i].r].pc \in Working \/ Ends(i)
  /\ ~online => channel = <<>>
  /\ shown \intersect Own = {}
  /\ \A r \in shown : req[r].pc \in Working \/ Finished(r) \in Range(channel) \/ r \in missed

IInv == TypeOK /\ CountedOnce /\ (\A r \in Requests : Holds(r)) /\ Telling

(***************************************************************************)
(* What the steps of a handler do to its request                           *)
(***************************************************************************)

LEMMA Fields ==
    ASSUME NEW q \in Request
    PROVE  /\ q.pc \in Pcs /\ q.kind \in Kinds \union {"none"} /\ q.step \in 0..(MaxSteps - 1)
           /\ q.attempt \in 0..MaxRetries /\ q.calls \in 0..MaxCalls
           /\ q.meant \in Line \union {None} /\ q.parses \in BOOLEAN /\ q.applied \in Line \union {None}
  BY DEF Request

\* The places of a handler
LEMMA Places ==
    /\ Active \subseteq Pcs /\ Ended \subseteq Pcs /\ "idle" \in Pcs
    /\ "idle" \notin Active /\ "idle" \notin Ended /\ Active \intersect Ended = {}
    /\ {"resolve", "context", "chat", "tools", "log", "logerror"} = Active
    /\ {"refused", "answered", "failed", "lost"} = Ended
    /\ Active \subseteq Pcs \ {"idle"} /\ Ended \subseteq Pcs \ {"idle"}
  BY DEF Active, Ended, Pcs

LEMMA TypedReq == TypeOK => req \in [Requests -> Request]
  BY DEF TypeOK, Request, Pcs

\* A step of r's handler that goes to one of the places in pcs
Moves(r, pcs) ==
  /\ req' \in [Requests -> Request] /\ req'[r].pc \in pcs
  /\ \A s \in Requests \ {r} : req'[s] = req[s]

\* and leaves the provider and the proposal alone
Same(r) == req'[r].kind = req[r].kind /\ req'[r].meant = req[r].meant /\ req'[r].applied = req[r].applied

LEMMA UpdateReq ==
    ASSUME TypeOK, NEW r \in Requests, NEW q \in Request, req' = [req EXCEPT ![r] = q], NEW pcs, q.pc \in pcs
    PROVE  Moves(r, pcs) /\ req'[r] = q
  BY TypedReq DEF Moves

\* A handler goes on, keeping the rest
LEMMA UpdatePc ==
    ASSUME TypeOK, NEW r \in Requests, NEW c \in Pcs, req' = [req EXCEPT ![r].pc = c], NEW pcs, c \in pcs
    PROVE  Moves(r, pcs) /\ Same(r) /\ req'[r] = [req[r] EXCEPT !.pc = c]
<1> DEFINE q == [req[r] EXCEPT !.pc = c]
<1>1. req \in [Requests -> Request] /\ req[r] \in Request
  BY TypedReq
<1>2. q \in Request /\ q.pc = c /\ q.kind = req[r].kind /\ q.meant = req[r].meant /\ q.applied = req[r].applied
  BY <1>1 DEF Request
<1>3. req' = [req EXCEPT ![r] = q]
  BY <1>1
<1> HIDE DEF q
<1>4. Moves(r, pcs) /\ req'[r] = q
  BY <1>2, <1>3, UpdateReq
<1> QED BY <1>2, <1>4 DEF Same, q

LEMMA LoopEndsType ==
    ASSUME NEW q \in Request, NEW c \in Pcs
    PROVE  LET e == LoopEnds(q, c) IN
           /\ e \in Request /\ e.pc = c /\ e.kind = q.kind /\ e.meant = q.meant /\ e.applied = q.applied
<1>1. MaxSteps \in Nat \ {0} /\ MaxRetries \in Nat /\ MaxCalls \in Nat \ {0}
  BY AssistantAssumption
<1>2. 0 \in 0..(MaxSteps - 1) /\ 0 \in 0..MaxRetries /\ 0 \in 0..MaxCalls
  BY <1>1
<1> QED BY <1>2 DEF LoopEnds, Request

LEMMA UpdateEnds ==
    ASSUME TypeOK, NEW r \in Requests, NEW c \in Pcs, req' = [req EXCEPT ![r] = LoopEnds(@, c)], NEW pcs, c \in pcs
    PROVE  Moves(r, pcs) /\ Same(r)
<1> DEFINE q == LoopEnds(req[r], c)
<1>1. req \in [Requests -> Request] /\ req[r] \in Request
  BY TypedReq
<1>2. q \in Request /\ q.pc = c /\ q.kind = req[r].kind /\ q.meant = req[r].meant /\ q.applied = req[r].applied
  BY <1>1, LoopEndsType
<1>3. req' = [req EXCEPT ![r] = q]
  BY <1>1
<1> HIDE DEF q
<1>4. Moves(r, pcs) /\ req'[r] = q
  BY <1>2, <1>3, UpdateReq
<1> QED BY <1>2, <1>4 DEF Same

\* After a call the loop calls again, asks again or is over.
LEMMA AfterCallType ==
    ASSUME NEW q \in Request, q.pc = "tools"
    PROVE  LET e == AfterCall(q) IN
           /\ e \in Request /\ e.pc \in {"tools", "chat", "log"}
           /\ e.kind = q.kind /\ e.meant = q.meant /\ e.applied = q.applied
<1>1. MaxSteps \in Nat \ {0} /\ MaxRetries \in Nat /\ MaxCalls \in Nat \ {0}
  BY AssistantAssumption
<1>2. q.step \in 0..(MaxSteps - 1) /\ q.calls \in 0..MaxCalls
  BY Fields
<1>3. CASE q.calls > 1
  <2>1. q.calls - 1 \in 0..MaxCalls
    BY <1>1, <1>2, <1>3
  <2> QED BY <1>3, <2>1 DEF AfterCall, Request
<1>4. CASE ~(q.calls > 1) /\ q.step + 1 = MaxSteps
  <2>1. "log" \in Pcs
    BY DEF Pcs, Active
  <2>2. AfterCall(q) = LoopEnds(q, "log")
    BY <1>4 DEF AfterCall
  <2> QED BY <2>1, <2>2, LoopEndsType
<1>5. CASE ~(q.calls > 1) /\ q.step + 1 # MaxSteps
  <2>1. q.step + 1 \in 0..(MaxSteps - 1) /\ 0 \in 0..MaxCalls /\ "chat" \in Pcs
    BY <1>1, <1>2, <1>5 DEF Pcs, Active
  <2> QED BY <1>5, <2>1 DEF AfterCall, Request
<1> QED BY <1>3, <1>4, <1>5

LEMMA WorkingPlaces ==
    /\ Working = {"context", "chat", "tools", "log", "logerror"} /\ Working \subseteq Pcs /\ Working \subseteq Active
    /\ "idle" \notin Working /\ Working \intersect Ended = {}
  BY DEF Working, Active, Ended, Pcs

\* The loop reads the context and asks the provider.
LEMMA AskEffect ==
    ASSUME TypeOK, NEW r \in Requests, user_message(r) \/ LegacyChat(r) \/ Post(r)
    PROVE  /\ Moves(r, Working) /\ Same(r) /\ req[r].pc \in Working /\ events' \in 0..MaxEvents
           /\ UNCHANGED <<config, rate, rows, doc, panel, edited, apart>>
<1>1. events \in 0..MaxEvents /\ MaxEvents \in Nat /\ (events > 0 => events - 1 \in 0..MaxEvents)
  BY AssistantAssumption DEF TypeOK
<1>2. CASE user_message(r)
  <2>1. /\ req[r].pc = "context" /\ UNCHANGED <<config, rate, rows, doc, panel, edited, apart>>
        /\ \/ req' = [req EXCEPT ![r].pc = "chat"] /\ UNCHANGED events
           \/ events > 0 /\ events' = events - 1 /\ req' = [req EXCEPT ![r] = LoopEnds(@, "logerror")]
    BY <1>2 DEF user_message
  <2>2. CASE req' = [req EXCEPT ![r].pc = "chat"] /\ UNCHANGED events
    BY <1>1, <2>1, <2>2, UpdatePc, WorkingPlaces
  <2>3. CASE events > 0 /\ events' = events - 1 /\ req' = [req EXCEPT ![r] = LoopEnds(@, "logerror")]
    BY <1>1, <2>1, <2>3, UpdateEnds, WorkingPlaces
  <2> QED BY <2>1, <2>2, <2>3
<1>3. CASE LegacyChat(r)
  <2>1. req[r].pc = "chat" /\ UNCHANGED <<config, rate, rows, doc, panel, events, edited, apart>>
    BY <1>3 DEF LegacyChat
  <2>2. PICK pc \in {"log", "logerror"} : req' = [req EXCEPT ![r] = LoopEnds(@, pc)]
    BY <1>3 DEF LegacyChat, FlatChat, generate_completion
  <2>3. pc \in Working /\ pc \in Pcs
    BY WorkingPlaces
  <2>4. Moves(r, Working) /\ Same(r)
    BY <2>2, <2>3, UpdateEnds
  <2> QED BY <1>1, <2>1, <2>4, WorkingPlaces
<1>4. CASE Post(r)
  <2>1. req[r].pc = "chat" /\ UNCHANGED <<config, rate, rows, doc, panel, events, edited, apart>>
    BY <1>4 DEF Post
  <2>2. CASE req' = [req EXCEPT ![r] = LoopEnds(@, "log")]
    BY <1>1, <2>1, <2>2, UpdateEnds, WorkingPlaces
  <2>3. CASE req' = [req EXCEPT ![r] = LoopEnds(@, "logerror")]
    BY <1>1, <2>1, <2>3, UpdateEnds, WorkingPlaces
  <2>4. ASSUME NEW n \in 1..MaxCalls, req' = [req EXCEPT ![r].pc = "tools", ![r].attempt = 0, ![r].calls = n]
        PROVE  Moves(r, Working) /\ Same(r)
    <3> DEFINE q == [req[r] EXCEPT !.pc = "tools", !.attempt = 0, !.calls = n]
    <3>1. req \in [Requests -> Request] /\ req[r] \in Request
      BY TypedReq
    <3>2. 0 \in 0..MaxRetries /\ n \in 0..MaxCalls /\ "tools" \in Pcs
      BY AssistantAssumption DEF Pcs, Active
    <3>3. q \in Request /\ q.pc = "tools" /\ q.kind = req[r].kind /\ q.meant = req[r].meant /\ q.applied = req[r].applied
      BY <3>1, <3>2 DEF Request
    <3>4. req' = [req EXCEPT ![r] = q]
      BY <2>4, <3>1
    <3> HIDE DEF q
    <3>5. Moves(r, Working) /\ req'[r] = q
      BY <3>3, <3>4, UpdateReq, WorkingPlaces
    <3> QED BY <3>3, <3>5 DEF Same
  <2>5. ASSUME req[r].attempt < MaxRetries, req' = [req EXCEPT ![r].attempt = @ + 1] PROVE Moves(r, Working) /\ Same(r)
    <3> DEFINE q == [req[r] EXCEPT !.attempt = @ + 1]
    <3>1. req \in [Requests -> Request] /\ req[r] \in Request /\ req[r].attempt \in 0..MaxRetries
      BY TypedReq, Fields
    <3>2. req[r].attempt + 1 \in 0..MaxRetries
      BY <2>5, <3>1, AssistantAssumption
    <3>3. q \in Request /\ q.pc = "chat" /\ q.kind = req[r].kind /\ q.meant = req[r].meant /\ q.applied = req[r].applied
      BY <2>1, <3>1, <3>2 DEF Request
    <3>4. req' = [req EXCEPT ![r] = q]
      BY <2>5, <3>1
    <3> HIDE DEF q
    <3>5. Moves(r, Working) /\ req'[r] = q
      BY <3>3, <3>4, UpdateReq, WorkingPlaces
    <3> QED BY <3>3, <3>5 DEF Same
  <2>6. Moves(r, Working) /\ Same(r)
    BY <1>4, <2>2, <2>3, <2>4, <2>5 DEF Post
  <2> QED BY <1>1, <2>1, <2>6, WorkingPlaces
<1> QED BY <1>2, <1>3, <1>4

\* The lines a copy shows
LEMMA VisibleType ==
    ASSUME NEW D \in SUBSET Update, NEW l \in Visible(D)
    PROVE  l \in Line
<1>1. 1 \in 0..3 /\ 2 \in 0..3
  OBVIOUS
<1>2. Start \subseteq Line
  BY <1>1 DEF Start, Line
<1> QED BY <1>2 DEF Visible, Update

\* The tools; a proposal is of a line that nothing else reads like.
LEMMA ToolEffect ==
    ASSUME TypeOK, NEW r \in Requests, run_tool(r)
    PROVE  /\ Moves(r, Working) /\ req[r].pc = "tools" /\ events' \in 0..MaxEvents
           /\ UNCHANGED <<config, rate, rows, doc, panel>>
           /\ req'[r].kind = req[r].kind /\ req'[r].applied = req[r].applied
           /\ \/ req'[r].meant = req[r].meant /\ UNCHANGED <<edited, apart>>
              \/ /\ edited' = edited \ {r} /\ apart' = IF Undelivered(r, req'[r].meant) THEN apart \union {r} ELSE apart \ {r}
                 /\ Unique(req'[r].meant)
<1>1. events \in 0..MaxEvents /\ MaxEvents \in Nat /\ (events > 0 => events - 1 \in 0..MaxEvents)
  BY AssistantAssumption DEF TypeOK
<1>2. req[r].pc = "tools" /\ UNCHANGED <<config, rate, rows, doc, panel>> /\ (propose_edit(r) \/ OtherTool(r) \/ ToolRaises(r))
  BY DEF run_tool
<1>3. req \in [Requests -> Request] /\ req[r] \in Request
  BY TypedReq
<1>4. CASE ToolRaises(r)
  BY <1>1, <1>2, <1>4, UpdateEnds, WorkingPlaces DEF ToolRaises, Same
<1>5. CASE OtherTool(r)
  <2> DEFINE q == AfterCall(req[r])
  <2>1. q \in Request /\ q.pc \in Working /\ q.kind = req[r].kind /\ q.meant = req[r].meant /\ q.applied = req[r].applied
    BY <1>2, <1>3, AfterCallType, WorkingPlaces
  <2>2. req' = [req EXCEPT ![r] = q] /\ UNCHANGED <<edited, apart, events>>
    BY <1>3, <1>5 DEF OtherTool
  <2> HIDE DEF q
  <2>3. Moves(r, Working) /\ req'[r] = q
    BY <2>1, <2>2, UpdateReq
  <2> QED BY <1>1, <1>2, <2>1, <2>2, <2>3
<1>6. CASE propose_edit(r)
  <2>1. PICK l \in Visible(doc[Server]), ok \in BOOLEAN :
          /\ Unique(l) /\ edited' = edited \ {r} /\ UNCHANGED events
          /\ apart' = IF Undelivered(r, l) THEN apart \union {r} ELSE apart \ {r}
          /\ req' = [req EXCEPT ![r] = AfterCall([@ EXCEPT !.meant = l, !.parses = ok])]
    BY <1>6 DEF propose_edit
  <2> DEFINE p == [req[r] EXCEPT !.meant = l, !.parses = ok]
             q == AfterCall(p)
  <2>2. l \in Line
    BY VisibleType DEF TypeOK, Copies
  <2>3. p \in Request /\ p.pc = "tools" /\ p.meant = l /\ p.kind = req[r].kind /\ p.applied = req[r].applied
    BY <1>2, <1>3, <2>2 DEF Request
  <2>4. req' = [req EXCEPT ![r] = q]
    BY <1>3, <2>1
  <2> HIDE DEF p
  <2>5. q \in Request /\ q.pc \in Working /\ q.kind = p.kind /\ q.meant = p.meant /\ q.applied = p.applied
    BY <2>3, AfterCallType, WorkingPlaces
  <2> HIDE DEF q
  <2>6. Moves(r, Working) /\ req'[r] = q
    BY <2>4, <2>5, UpdateReq
  <2>7. l = req'[r].meant /\ Unique(l)
    BY <2>1, <2>3, <2>5, <2>6
  <2> QED BY <1>1, <1>2, <2>1, <2>3, <2>5, <2>6, <2>7
<1> QED BY <1>2, <1>4, <1>5, <1>6

(***************************************************************************)
(* The invariant, step by step                                             *)
(***************************************************************************)

\* A request the step does not touch
LEMMA HoldsStill ==
    ASSUME NEW s \in Requests, Holds(s), req'[s] = req[s], rows'[s] = rows[s], doc' = doc,
           s \in edited \union apart => s \in (edited \union apart)'
    PROVE  Holds(s)'
  BY DEF Holds, HasProposal, Found, Logged

\* A request in the loop, whose proposal is not touched
LEMMA HoldsWorking ==
    ASSUME NEW s \in Requests, Holds(s), req[s].pc \in Working, req'[s].pc \in Working,
           Same(s), rows'[s] = rows[s], doc' = doc, s \in edited \union apart => s \in (edited \union apart)'
    PROVE  Holds(s)'
<1>1. /\ req[s].pc \in Active /\ req'[s].pc \in Active
      /\ req'[s].pc \notin {"answered", "failed", "refused"} /\ req[s].pc # "answered"
  BY WorkingPlaces DEF Working, Ended
<1>2. req[s].kind \in Kinds /\ req[s].applied = None /\ rows[s] = <<>>
  BY <1>1 DEF Holds
<1>3. Logged(s)'
  BY <1>1 DEF Logged
<1> QED BY <1>1, <1>2, <1>3 DEF Holds, HasProposal, Found, Same

LEMMA BegunFinite ==
    ASSUME TypeOK
    PROVE  /\ IsFiniteSet(Requests) /\ IsFiniteSet(Begun) /\ Cardinality(Begun) \in Nat
           /\ Cardinality(Begun) <= Cardinality(Requests) /\ Cardinality(Requests) \in Nat
<1>1. IsFiniteSet(Requests) /\ Begun \in SUBSET Requests
  BY AssistantAssumption DEF Begun
<1> QED BY <1>1, FS_Subset, FS_CardinalityType

\* The counter does not rise, and nobody goes back to idle.
LEMMA CountedStill ==
    ASSUME IInv, rate'.count \in 0..rate.count, \A s \in Requests : req[s].pc # "idle" => req'[s].pc # "idle"
    PROVE  CountedOnce' /\ rate'.count \in 0..Cardinality(Requests)
<1>1. IsFiniteSet(Requests) /\ Begun' \in SUBSET Requests /\ Begun \in SUBSET Begun'
  BY AssistantAssumption DEF Begun
<1>2. IsFiniteSet(Begun') /\ Cardinality(Begun') <= Cardinality(Requests)
  BY <1>1, FS_Subset
<1>3. Cardinality(Begun) <= Cardinality(Begun')
  BY <1>1, <1>2, FS_Subset
<1>4. rate.count \in Nat /\ rate.count <= Cardinality(Begun)
  BY DEF IInv, TypeOK, CountedOnce
<1>5. Cardinality(Begun) \in Nat /\ Cardinality(Begun') \in Nat /\ Cardinality(Requests) \in Nat
  BY <1>1, <1>2, BegunFinite, FS_CardinalityType DEF IInv
<1>6. rate'.count \in Nat /\ rate'.count <= rate.count
  BY <1>4
<1> HIDE DEF Begun
<1> QED BY <1>2, <1>3, <1>4, <1>5, <1>6 DEF CountedOnce

\* A loop that goes on is no news to the panel.
LEMMA TellingStill ==
    ASSUME Telling, \A s \in Requests : req[s].pc \in Working => req'[s].pc \in Working, TypeOK,
           UNCHANGED panel
    PROVE  Telling'
<1>1. channel' = channel /\ online' = online /\ shown' = shown /\ missed' = missed
  BY DEF panel
<1>2. \A i \in DOMAIN channel : channel[i].r \in Requests
  <2>1. channel \in Seq(Event)
    BY DEF TypeOK, Event
  <2>2. \A i \in DOMAIN channel : channel[i] \in Event
    BY <2>1
  <2> QED BY <2>2 DEF Event
<1>3. shown \subseteq Requests
  BY DEF TypeOK
<1>4. \A r \in shown : req'[r].pc \in Working \/ Finished(r) \in Range(channel) \/ r \in missed
  BY <1>3 DEF Telling
<1>5. (\A i \in DOMAIN channel : Ends(i)' = Ends(i)) /\ DOMAIN channel' = DOMAIN channel
  BY <1>1 DEF Ends
<1>6. ASSUME NEW i \in DOMAIN channel
      PROVE  channel[i].r \notin Own /\ (channel[i].op = "AI_STARTED" => req'[channel[i].r].pc \in Working \/ Ends(i))
  BY <1>2, <1>6 DEF Telling
<1> QED BY <1>1, <1>4, <1>5, <1>6 DEF Telling

\* What the steps of a handler leave alone of the types
LEMMA TypeStill ==
    ASSUME TypeOK, req' \in [Requests -> Request], rate' \in [count : 0..Cardinality(Requests), ttl : BOOLEAN],
           events' \in 0..MaxEvents, edited' \subseteq Requests, apart' \subseteq Requests,
           UNCHANGED <<config, rows, doc, panel>>
    PROVE  TypeOK'
  BY DEF TypeOK, panel, Request, Pcs

LEMMA AskKeeps ==
    ASSUME IInv, NEW r \in Requests, user_message(r) \/ LegacyChat(r) \/ Post(r)
    PROVE  IInv'
<1>1. /\ Moves(r, Working) /\ Same(r) /\ req[r].pc \in Working /\ events' \in 0..MaxEvents
      /\ UNCHANGED <<config, rate, rows, doc, panel, edited, apart>>
  BY AskEffect DEF IInv
<1>2. TypeOK'
  BY <1>1, TypeStill DEF IInv, TypeOK, Moves
<1>3. \A s \in Requests : req[s].pc # "idle" => req'[s].pc # "idle"
  BY <1>1, WorkingPlaces DEF Moves
<1>4. rate'.count \in 0..rate.count
  BY <1>1 DEF IInv, TypeOK
<1>5. CountedOnce'
  BY <1>3, <1>4, CountedStill
<1>6. \A s \in Requests : req[s].pc \in Working => req'[s].pc \in Working
  BY <1>1, WorkingPlaces DEF Moves
<1>7. Telling'
  BY <1>1, <1>6, TellingStill DEF IInv
<1>8. ASSUME NEW s \in Requests PROVE Holds(s)'
  <2>1. CASE s = r
    BY <1>1, <2>1, HoldsWorking DEF IInv, Moves
  <2>2. CASE s # r
    BY <1>1, <2>2, HoldsStill DEF IInv, Moves
  <2> QED BY <2>1, <2>2
<1> QED BY <1>2, <1>5, <1>7, <1>8 DEF IInv

\* Two copies with the same updates of a span show the same of it.
LEMMA SameSpan ==
    ASSUME NEW D, NEW E, NEW l, NEW m \in Visible(D), Says(m) = Says(l),
           \A u : Touches(u, l) => (u \in D <=> u \in E)
    PROVE  m \in Visible(E)
<1>1. \A u : m \in u.adds \union u.removes => Touches(u, l)
  BY DEF Touches
<1> QED BY <1>1 DEF Visible

\* A span that is in the server's copy once, and that no update divides the copies
\* about, is the only one in the user's tab.
LEMMA CheckFinds ==
    ASSUME NEW r \in Editors, NEW l, Unique(l), ~Undelivered(r, l)
    PROVE  Known(doc, r, l)
<1>1. Server \in Copies /\ r \in Copies
  BY DEF Copies
<1>2. \A c \in Copies : \A u \in doc[c] : Touches(u, l) => u \in doc[Server] /\ u \in doc[r]
  BY DEF Undelivered
<1>3. \A u : Touches(u, l) => (u \in doc[r] <=> u \in doc[Server])
  BY <1>1, <1>2
<1>4. ASSUME NEW m \in Visible(doc[r]), Says(m) = Says(l) PROVE m = l
  <2>1. m \in Visible(doc[Server])
    BY <1>3, <1>4, SameSpan
  <2> QED BY <1>4, <2>1 DEF Occurrences, Unique
<1> QED BY <1>2, <1>4 DEF Known

\* As long as the tab forgets nothing and no update of the span is new, it stays so.
LEMMA FoundStill ==
    ASSUME NEW r \in Editors, NEW l, Known(doc, r, l), doc[r] \subseteq doc'[r],
           \A c \in Copies : \A u \in doc'[c] : Touches(u, l) => u \in doc[r]
    PROVE  Known(doc', r, l)
<1>1. r \in Copies
  BY DEF Copies
<1>2. \A u : Touches(u, l) => (u \in doc'[r] <=> u \in doc[r])
  BY <1>1
<1>3. ASSUME NEW m \in Visible(doc'[r]), Says(m) = Says(l) PROVE m = l
  <2>1. m \in Visible(doc[r])
    BY <1>2, <1>3, SameSpan
  <2> QED BY <1>3, <2>1 DEF Known
<1> QED BY <1>3 DEF Known

LEMMA ToolKeeps ==
    ASSUME IInv, NEW r \in Requests, run_tool(r)
    PROVE  IInv'
<1>1. /\ Moves(r, Working) /\ req[r].pc = "tools" /\ events' \in 0..MaxEvents
      /\ UNCHANGED <<config, rate, rows, doc, panel>>
      /\ req'[r].kind = req[r].kind /\ req'[r].applied = req[r].applied
      /\ \/ req'[r].meant = req[r].meant /\ UNCHANGED <<edited, apart>>
         \/ /\ edited' = edited \ {r} /\ apart' = IF Undelivered(r, req'[r].meant) THEN apart \union {r} ELSE apart \ {r}
            /\ Unique(req'[r].meant)
  BY ToolEffect DEF IInv
<1>2. TypeOK'
  BY <1>1, TypeStill DEF IInv, TypeOK, Moves
<1>3. \A s \in Requests : req[s].pc # "idle" => req'[s].pc # "idle"
  BY <1>1, WorkingPlaces DEF Moves
<1>4. rate'.count \in 0..rate.count
  BY <1>1 DEF IInv, TypeOK
<1>5. CountedOnce'
  BY <1>3, <1>4, CountedStill
<1>6. \A s \in Requests : req[s].pc \in Working => req'[s].pc \in Working
  BY <1>1, WorkingPlaces DEF Moves
<1>7. Telling'
  BY <1>1, <1>6, TellingStill DEF IInv
<1>8. ASSUME NEW s \in Requests, s # r PROVE Holds(s)'
  BY <1>1, <1>8, HoldsStill DEF IInv, Moves
<1>9. Holds(r)'
  <2>1. req[r].pc \in Working /\ req'[r].pc \in Working /\ Holds(r) /\ rows' = rows /\ doc' = doc
    BY <1>1, WorkingPlaces DEF IInv, Moves
  <2>2. CASE req'[r].meant = req[r].meant /\ UNCHANGED <<edited, apart>>
    BY <1>1, <2>1, <2>2, HoldsWorking DEF Same
  <2>3. CASE /\ edited' = edited \ {r} /\ apart' = IF Undelivered(r, req'[r].meant) THEN apart \union {r} ELSE apart \ {r}
             /\ Unique(req'[r].meant)
    <3>2. r \in Editors /\ r \notin (edited \union apart)' => Found(r)'
      <4>1. r \notin apart' => ~Undelivered(r, req'[r].meant)
        BY <2>3
      <4>2. r \in Editors /\ r \notin apart' => Known(doc, r, req'[r].meant)
        BY <2>3, <4>1, CheckFinds
      <4> QED BY <2>1, <4>2 DEF Found
    <3>3. req[r].pc \in Active /\ req'[r].pc \in Active /\ req'[r].pc \notin {"answered", "failed", "refused"} /\ req[r].pc # "answered"
      BY <2>1, WorkingPlaces DEF Working, Ended
    <3>4. req[r].kind \in Kinds /\ req[r].applied = None /\ rows[r] = <<>>
      BY <2>1, <3>3 DEF Holds
    <3>5. Logged(r)'
      BY <3>3 DEF Logged
    <3> QED BY <1>1, <2>1, <3>2, <3>4, <3>5 DEF Holds, Working
  <2> QED BY <1>1, <2>2, <2>3
<1> QED BY <1>2, <1>5, <1>7, <1>8, <1>9 DEF IInv


\* A request that goes on from where nothing is applied, on copies it does not touch
LEMMA HoldsOn ==
    ASSUME NEW s \in Requests, Holds(s), req[s].applied = None, doc' = doc,
           s \in edited \union apart => s \in (edited \union apart)',
           req'[s].meant = req[s].meant, req'[s].applied = req[s].applied, Logged(s)',
           req'[s].pc \in Working => req'[s].kind \in Kinds,
           req'[s].pc \in {"idle", "lost"} \union Active => rows'[s] = <<>>
    PROVE  Holds(s)'
  BY DEF Holds, HasProposal, Found

\* What the steps leave alone that no request is part of
LEMMA ElsewhereKeeps ==
    ASSUME IInv, UNCHANGED <<req, rows, doc, panel, edited, apart>>, events' \in 0..MaxEvents,
           config' \in [kind : Kinds \union {"none"}, active : BOOLEAN],
           rate' \in [count : 0..Cardinality(Requests), ttl : BOOLEAN], rate'.count \in 0..rate.count
    PROVE  IInv'
<1>1. TypeOK'
  BY DEF IInv, TypeOK, panel
<1>2. CountedOnce'
  BY CountedStill
<1>3. Telling'
  BY TellingStill DEF IInv
<1>4. ASSUME NEW s \in Requests PROVE Holds(s)'
  BY HoldsStill DEF IInv
<1> QED BY <1>1, <1>2, <1>3, <1>4 DEF IInv

LEMMA StutterKeeps ==
    ASSUME IInv, UNCHANGED vars
    PROVE  IInv'
<1>1. /\ UNCHANGED <<req, rows, doc, panel, edited, apart>> /\ config' = config /\ rate' = rate /\ events' = events
  BY DEF vars
<1>2. /\ events \in 0..MaxEvents /\ config \in [kind : Kinds \union {"none"}, active : BOOLEAN]
      /\ rate \in [count : 0..Cardinality(Requests), ttl : BOOLEAN]
  BY DEF IInv, TypeOK
<1>3. rate'.count \in 0..rate.count
  BY <1>1, <1>2
<1> QED BY <1>1, <1>2, <1>3, ElsewhereKeeps

\* The budget of a fault
LEMMA Budget ==
    ASSUME TypeOK, events > 0, events' = events - 1
    PROVE  events' \in 0..MaxEvents
  BY AssistantAssumption DEF TypeOK

LEMMA ConfigKeeps ==
    ASSUME IInv, NEW k \in Kinds, NEW a \in BOOLEAN, configure_assistant(k) \/ update_assistant_config(k, a)
    PROVE  IInv'
<1>1. UNCHANGED <<rate, req, rows, doc, panel, edited, apart>> /\ events > 0 /\ events' = events - 1
  BY DEF configure_assistant, update_assistant_config
<1>2. events' \in 0..MaxEvents
  BY <1>1, Budget DEF IInv
<1>3. config' \in [kind : Kinds \union {"none"}, active : BOOLEAN]
  <2>1. config \in [kind : Kinds \union {"none"}, active : BOOLEAN]
    BY DEF IInv, TypeOK
  <2> QED BY <2>1 DEF configure_assistant, update_assistant_config
<1>4. rate' \in [count : 0..Cardinality(Requests), ttl : BOOLEAN] /\ rate'.count \in 0..rate.count
  BY <1>1 DEF IInv, TypeOK
<1> QED BY <1>1, <1>2, <1>3, <1>4, ElsewhereKeeps

\* The window's key goes, and with it the count.
LEMMA ExpireKeeps ==
    ASSUME IInv, Expire
    PROVE  IInv'
<1>1. UNCHANGED <<config, req, rows, doc, panel, events, edited, apart>> /\ rate' = [count |-> 0, ttl |-> FALSE]
  BY DEF Expire
<1>2. Cardinality(Requests) \in Nat /\ rate.count \in Nat
  <2>1. TypeOK /\ rate \in [count : 0..Cardinality(Requests), ttl : BOOLEAN]
    BY DEF IInv, TypeOK
  <2> QED BY <2>1, BegunFinite
<1>3. rate' \in [count : 0..Cardinality(Requests), ttl : BOOLEAN] /\ rate'.count \in 0..rate.count
  BY <1>1, <1>2
<1>4. events' \in 0..MaxEvents /\ config' \in [kind : Kinds \union {"none"}, active : BOOLEAN]
  BY <1>1 DEF IInv, TypeOK
<1> QED BY <1>1, <1>3, <1>4, ElsewhereKeeps

\* A request is counted at most once, and it was idle until then.
LEMMA RequestCounts ==
    ASSUME IInv, NEW r \in Requests, req[r].pc = "idle", Begun' = Begun \union {r},
           rate'.count \in Nat, rate'.count <= rate.count + 1
    PROVE  CountedOnce' /\ rate'.count \in 0..Cardinality(Requests)
<1>1. IsFiniteSet(Begun) /\ IsFiniteSet(Requests) /\ Begun \union {r} \in SUBSET Requests /\ r \notin Begun
  BY BegunFinite DEF IInv, Begun
<1>2. rate.count \in Nat /\ rate.count <= Cardinality(Begun)
  BY DEF IInv, TypeOK, CountedOnce
<1> HIDE DEF Begun
<1>3. Cardinality(Begun \union {r}) = Cardinality(Begun) + 1 /\ Cardinality(Begun) \in Nat
  BY <1>1, FS_AddElement, FS_CardinalityType
<1>4. Cardinality(Begun \union {r}) <= Cardinality(Requests) /\ Cardinality(Requests) \in Nat
  BY <1>1, FS_Subset, FS_CardinalityType
<1> QED BY <1>2, <1>3, <1>4 DEF CountedOnce

LEMMA RequestKeeps ==
    ASSUME IInv, NEW r \in Requests, request_assistant(r)
    PROVE  IInv'
<1>1. /\ req[r].pc = "idle" /\ UNCHANGED <<config, rows, doc, panel, edited, apart>>
      /\ \/ /\ rate' = Counted /\ UNCHANGED events
            /\ req' = [req EXCEPT ![r].pc = IF Allowed(Counted.count) THEN "resolve" ELSE "refused"]
         \/ FailOpen(r)
  BY DEF request_assistant
<1>2. PICK c \in {"resolve", "refused"} : req' = [req EXCEPT ![r].pc = c]
  BY <1>1 DEF FailOpen
<1>3. Moves(r, {"resolve", "refused"}) /\ Same(r) /\ req'[r].pc = c
  <2>1. c \in Pcs /\ TypeOK
    BY DEF Pcs, Active, Ended, IInv
  <2>2. Moves(r, {"resolve", "refused"}) /\ Same(r) /\ req'[r] = [req[r] EXCEPT !.pc = c]
    BY <1>2, <2>1, UpdatePc
  <2>3. req[r] \in Request
    BY <2>1, TypedReq
  <2> QED BY <2>2, <2>3 DEF Request
<1>4. rate.count \in Nat /\ rate.ttl \in BOOLEAN /\ rate \in [count : 0..Cardinality(Requests), ttl : BOOLEAN]
  BY DEF IInv, TypeOK
<1>5. rate'.count \in Nat /\ rate'.count <= rate.count + 1 /\ rate' = [count |-> rate'.count, ttl |-> rate'.ttl] /\ rate'.ttl \in BOOLEAN
  <2>1. CASE rate' = Counted
    BY <1>4, <2>1 DEF Counted
  <2>2. CASE FailOpen(r)
    BY <1>4, <2>2 DEF FailOpen
  <2> QED BY <1>1, <2>1, <2>2
<1>6. Begun' = Begun \union {r}
  BY <1>3 DEF Begun, Moves
<1>7. CountedOnce' /\ rate'.count \in 0..Cardinality(Requests)
  BY <1>1, <1>5, <1>6, RequestCounts
<1>8. events' \in 0..MaxEvents
  BY <1>1, Budget DEF FailOpen, IInv, TypeOK
<1>9. TypeOK'
  <2>1. rate' \in [count : 0..Cardinality(Requests), ttl : BOOLEAN]
    BY <1>5, <1>7
  <2> QED BY <1>1, <1>3, <1>8, <2>1, TypeStill DEF IInv, TypeOK, Moves
<1>10. Telling'
  <2>1. \A s \in Requests : req[s].pc \in Working => req'[s].pc \in Working
    BY <1>1, <1>3, WorkingPlaces DEF Moves
  <2> QED BY <1>1, <2>1, TellingStill DEF IInv
<1>11. ASSUME NEW s \in Requests, s # r PROVE Holds(s)'
  BY <1>1, <1>3, <1>11, HoldsStill DEF IInv, Moves
<1>12. Holds(r)'
  <2>1. Holds(r) /\ req[r].applied = None /\ rows'[r] = <<>>
    BY <1>1 DEF IInv, Holds
  <2>2. Logged(r)'
    BY <1>3, <2>1 DEF Logged
  <2>3. req'[r].pc \notin Working
    BY <1>3 DEF Working, Active
  <2> QED BY <1>1, <1>3, <2>1, <2>2, <2>3, HoldsOn DEF Same
<1> QED BY <1>7, <1>9, <1>10, <1>11, <1>12 DEF IInv

(***************************************************************************)
(* The panel of another member                                             *)
(***************************************************************************)

PanelTyped ==
  /\ shown \subseteq Requests /\ timers \subseteq shown /\ missed \subseteq Requests
  /\ channel \in Seq(Event) /\ online \in BOOLEAN

LEMMA PanelType == TypeOK => PanelTyped
  BY DEF TypeOK, PanelTyped, Event

\* The types, when the step is one of a request and its panel
LEMMA TypeNext ==
    ASSUME TypeOK, UNCHANGED <<config, rate>>, req' \in [Requests -> Request], rows' \in [Requests -> Seq(Entry)],
           doc' \in [Copies -> SUBSET Update], PanelTyped', events' \in 0..MaxEvents,
           edited' \subseteq Requests, apart' \subseteq Requests
    PROVE  TypeOK'
  BY DEF TypeOK, PanelTyped, Event, Entry, Request, Pcs

LEMMA EventOf ==
    /\ \A r \in Requests : Finished(r) \in Event /\ [op |-> "AI_STARTED", r |-> r] \in Event
    /\ \A r : Finished(r).op = "AI_FINISHED" /\ Finished(r).r = r
    /\ \A e \in Event : e.r \in Requests /\ (e.op = "AI_STARTED" \/ e = Finished(e.r))
  BY DEF Event, Finished

\* An event that is sent is behind the others.
LEMMA Behind ==
    ASSUME NEW c \in Seq(Event), NEW e \in Event
    PROVE  /\ Append(c, e) \in Seq(Event) /\ DOMAIN Append(c, e) = 1..(Len(c) + 1)
           /\ \A i \in DOMAIN c : Append(c, e)[i] = c[i] /\ i \in DOMAIN Append(c, e) /\ i < Len(c) + 1
           /\ Append(c, e)[Len(c) + 1] = e /\ Len(c) \in Nat
           /\ \A i \in 1..(Len(c) + 1) : i \in DOMAIN c \/ i = Len(c) + 1
           /\ \A x \in Range(c) : x \in Range(Append(c, e))
           /\ e \in Range(Append(c, e))
<1>1. /\ Append(c, e) \in Seq(Event) /\ DOMAIN Append(c, e) = 1..(Len(c) + 1) /\ Len(c) \in Nat
      /\ \A i \in DOMAIN c : Append(c, e)[i] = c[i] /\ i \in DOMAIN Append(c, e) /\ i < Len(c) + 1
      /\ Append(c, e)[Len(c) + 1] = e
      /\ \A i \in 1..(Len(c) + 1) : i \in DOMAIN c \/ i = Len(c) + 1
  OBVIOUS
<1>2. Len(c) + 1 \in DOMAIN Append(c, e)
  BY <1>1
<1> QED BY <1>1, <1>2 DEF Range

\* AI_STARTED, sent when the loop begins
LEMMA Started ==
    ASSUME TypeOK, Telling, NEW r \in Requests, Broadcast("AI_STARTED", r), req'[r].pc \in Working,
           \A s \in Requests : req[s].pc \in Working => req'[s].pc \in Working
    PROVE  Telling' /\ PanelTyped'
<1>1. PanelTyped /\ channel \in Seq(Event)
  BY PanelType DEF PanelTyped
<1>2. UNCHANGED <<shown, timers, online, missed>>
  BY DEF Broadcast
<1>3. CASE ~online \/ r \in Own
  <2>1. UNCHANGED panel
    BY <1>2, <1>3 DEF Broadcast, panel
  <2>2. Telling'
    BY <2>1, TellingStill
  <2> QED BY <1>1, <2>1, <2>2 DEF PanelTyped, panel
<1>4. CASE online /\ r \notin Own
  <2> DEFINE e == [op |-> "AI_STARTED", r |-> r]
  <2>1. channel' = Append(channel, e) /\ e \in Event /\ e.r = r
    BY <1>4, EventOf DEF Broadcast
  <2> HIDE DEF e
  <2>2. /\ channel' \in Seq(Event) /\ DOMAIN channel' = 1..(Len(channel) + 1) /\ Len(channel) \in Nat
        /\ \A i \in DOMAIN channel : channel'[i] = channel[i] /\ i \in DOMAIN channel'
        /\ channel'[Len(channel) + 1] = e /\ \A i \in 1..(Len(channel) + 1) : i \in DOMAIN channel \/ i = Len(channel) + 1
        /\ \A x \in Range(channel) : x \in Range(channel')
    BY <1>1, <2>1, Behind
  <2>3. ASSUME NEW i \in DOMAIN channel', channel'[i].op = "AI_STARTED" PROVE channel'[i].r \notin Own /\ (req'[channel'[i].r].pc \in Working \/ Ends(i)')
    <3>1. CASE i = Len(channel) + 1
      BY <1>4, <2>1, <2>2, <3>1
    <3>2. CASE i \in DOMAIN channel
      <4>1. channel[i].r \in Requests /\ channel'[i] = channel[i]
        BY <1>1, <2>2, <3>2, EventOf
      <4>2. channel[i].r \notin Own /\ (req[channel[i].r].pc \in Working \/ Ends(i))
        BY <2>3, <3>2, <4>1 DEF Telling
      <4>3. Ends(i) => Ends(i)'
        BY <2>2, <4>1 DEF Ends
      <4> QED BY <4>1, <4>2, <4>3
    <3> QED BY <2>2, <3>1, <3>2
  <2>4. ASSUME NEW i \in DOMAIN channel' PROVE channel'[i].r \notin Own
    <3>1. CASE i = Len(channel) + 1
      BY <1>4, <2>1, <2>2, <3>1
    <3>2. CASE i \in DOMAIN channel
      BY <2>2, <3>2 DEF Telling
    <3> QED BY <2>2, <3>1, <3>2
  <2>5. ASSUME NEW s \in shown PROVE req'[s].pc \in Working \/ Finished(s) \in Range(channel') \/ s \in missed
    BY <1>1, <2>2 DEF Telling, PanelTyped
  <2>6. PanelTyped'
    BY <1>1, <1>2, <2>2 DEF PanelTyped
  <2> QED BY <1>2, <1>4, <2>3, <2>4, <2>5, <2>6 DEF Telling
<1> QED BY <1>3, <1>4

\* AI_FINISHED, sent when the loop is over; a panel without a socket misses it
LEMMA Over ==
    ASSUME TypeOK, Telling, NEW r \in Requests, Broadcast("AI_FINISHED", r),
           \A s \in Requests \ {r} : req[s].pc \in Working => req'[s].pc \in Working
    PROVE  Telling' /\ PanelTyped'
<1>1. PanelTyped /\ channel \in Seq(Event) /\ shown \subseteq Requests
  BY PanelType DEF PanelTyped
<1>2. UNCHANGED <<shown, timers, online>>
  BY DEF Broadcast
<1>3. CASE r \in Own
  <2>1. UNCHANGED panel
    BY <1>2, <1>3 DEF Broadcast, panel
  <2>2. ASSUME NEW i \in DOMAIN channel
        PROVE  channel[i].r \notin Own /\ (channel[i].op = "AI_STARTED" => req'[channel[i].r].pc \in Working \/ Ends(i))
    <3>1. channel[i].r \in Requests /\ channel[i].r \notin Own /\ channel[i].r # r
      BY <1>1, <1>3, EventOf DEF Telling
    <3> QED BY <3>1 DEF Telling
  <2>3. \A i \in DOMAIN channel : Ends(i)' = Ends(i)
    BY <2>1 DEF Ends, panel
  <2>4. \A s \in shown : req'[s].pc \in Working \/ Finished(s) \in Range(channel) \/ s \in missed
    BY <1>1, <1>3 DEF Telling
  <2> QED BY <1>1, <2>1, <2>2, <2>3, <2>4 DEF PanelTyped, panel, Telling
<1>4. CASE ~online /\ r \notin Own
  <2>1. channel' = channel /\ channel = <<>> /\ missed' = missed \union {r}
    BY <1>4 DEF Broadcast, Telling
  <2>2. \A s \in shown : req'[s].pc \in Working \/ Finished(s) \in Range(channel') \/ s \in missed'
    BY <1>1, <2>1 DEF Telling
  <2>3. PanelTyped'
    BY <1>1, <1>2, <2>1 DEF PanelTyped
  <2> QED BY <1>2, <2>1, <2>2, <2>3 DEF Telling
<1>5. CASE online /\ r \notin Own
  <2>1. channel' = Append(channel, Finished(r)) /\ Finished(r) \in Event /\ missed' = missed
    BY <1>5, EventOf DEF Broadcast, Finished
  <2>2. /\ channel' \in Seq(Event) /\ DOMAIN channel' = 1..(Len(channel) + 1) /\ Len(channel) \in Nat
        /\ \A i \in DOMAIN channel : channel'[i] = channel[i] /\ i \in DOMAIN channel' /\ i < Len(channel) + 1
        /\ channel'[Len(channel) + 1] = Finished(r) /\ \A i \in 1..(Len(channel) + 1) : i \in DOMAIN channel \/ i = Len(channel) + 1
        /\ \A x \in Range(channel) : x \in Range(channel')
        /\ Finished(r) \in Range(channel')
    BY <1>1, <2>1, Behind
  <2>3. ASSUME NEW i \in DOMAIN channel', channel'[i].op = "AI_STARTED" PROVE req'[channel'[i].r].pc \in Working \/ Ends(i)'
    <3>1. i # Len(channel) + 1
      BY <2>2, <2>3, EventOf
    <3>2. i \in DOMAIN channel /\ channel'[i] = channel[i] /\ channel[i].r \in Requests
      BY <1>1, <2>2, <3>1, EventOf
    <3>3. CASE channel[i].r = r
      <4>1. Len(channel) + 1 \in DOMAIN channel' /\ i < Len(channel) + 1 /\ channel'[Len(channel) + 1] = Finished(channel'[i].r)
        BY <2>2, <3>2, <3>3
      <4> QED BY <4>1 DEF Ends
    <3>4. CASE channel[i].r # r
      <4>1. req[channel[i].r].pc \in Working \/ Ends(i)
        BY <2>3, <3>2 DEF Telling
      <4>2. Ends(i) => Ends(i)'
        BY <2>2, <3>2 DEF Ends
      <4> QED BY <3>2, <3>4, <4>1, <4>2
    <3> QED BY <3>3, <3>4
  <2>4. ASSUME NEW i \in DOMAIN channel' PROVE channel'[i].r \notin Own
    <3>1. CASE i = Len(channel) + 1
      BY <1>5, <2>2, <3>1, EventOf
    <3>2. CASE i \in DOMAIN channel
      BY <2>2, <3>2 DEF Telling
    <3> QED BY <2>2, <3>1, <3>2
  <2>5. ASSUME NEW s \in shown PROVE req'[s].pc \in Working \/ Finished(s) \in Range(channel') \/ s \in missed
    BY <1>1, <2>2 DEF Telling
  <2>6. PanelTyped'
    BY <1>1, <1>2, <2>1, <2>2 DEF PanelTyped
  <2> QED BY <1>2, <1>5, <2>1, <2>3, <2>4, <2>5, <2>6 DEF Telling
<1> QED BY <1>3, <1>4, <1>5

\* A socket is lost, and what was on its way: the runs in gone, whose handlers end
\* with it, and the ends the channel held are missed.
LEMMA Lost ==
    ASSUME TypeOK, Telling, NEW gone \in SUBSET Requests, channel' = <<>>, UNCHANGED <<shown, timers>>, online' = FALSE,
           missed' = missed \union gone \union {e.r : e \in {m \in Range(channel) : m.op = "AI_FINISHED"}},
           \A s \in Requests \ Own : req[s].pc \in Working => req'[s].pc \in Working \/ s \in gone
    PROVE  Telling' /\ PanelTyped'
<1>1. PanelTyped /\ channel \in Seq(Event) /\ shown \subseteq Requests /\ Range(channel) \subseteq Event
  BY PanelType DEF PanelTyped, Range
<1>2. ASSUME NEW s \in shown PROVE req'[s].pc \in Working \/ s \in missed'
  <2>1. s \in Requests \ Own
    BY <1>1 DEF Telling
  <2>2. CASE Finished(s) \in Range(channel)
    BY <2>2, EventOf
  <2>3. CASE Finished(s) \notin Range(channel)
    BY <2>1, <2>3 DEF Telling
  <2> QED BY <2>2, <2>3
<1>3. missed' \subseteq Requests
  BY <1>1, EventOf DEF PanelTyped
<1>4. channel' \in Seq(Event) /\ DOMAIN channel' = {}
  OBVIOUS
<1>5. PanelTyped'
  BY <1>1, <1>3, <1>4 DEF PanelTyped
<1> QED BY <1>2, <1>4, <1>5 DEF Telling

\* The loop begins, or the request is refused.
LEMMA ResolveKeeps ==
    ASSUME IInv, NEW r \in Requests, Resolve(r)
    PROVE  IInv'
<1>1. req[r].pc = "resolve" /\ UNCHANGED <<config, rate, rows, doc, events, edited, apart>> /\ TypeOK /\ Telling
  BY DEF Resolve, IInv
<1>2. req \in [Requests -> Request] /\ req[r] \in Request /\ r \in Requests
  BY <1>1, TypedReq
<1>3. req[r].applied = None /\ rows[r] = <<>> /\ Holds(r)
  BY <1>1 DEF IInv, Holds, Active
<1>4. /\ req'[r].meant = req[r].meant /\ req'[r].applied = req[r].applied
      /\ req'[r].pc \in {"context", "refused"} /\ (req'[r].pc = "context" => req'[r].kind \in Kinds)
      /\ Moves(r, {"context", "refused"}) /\ Telling' /\ PanelTyped'
  <2>1. CASE Provider # "none" /\ req' = [req EXCEPT ![r].pc = "context", ![r].kind = Provider] /\ Broadcast("AI_STARTED", r)
    <3> DEFINE q == [req[r] EXCEPT !.pc = "context", !.kind = Provider]
    <3>1. config.kind \in Kinds \union {"none"}
      BY <1>1 DEF TypeOK
    <3>2. Provider \in Kinds
      BY <2>1, <3>1 DEF Provider, Kinds
    <3>3. q \in Request /\ q.pc = "context" /\ q.kind = Provider /\ q.meant = req[r].meant /\ q.applied = req[r].applied
      BY <1>2, <3>2 DEF Request, Pcs, Active
    <3>4. req' = [req EXCEPT ![r] = q]
      BY <1>2, <2>1
    <3> HIDE DEF q
    <3>5. Moves(r, {"context", "refused"}) /\ req'[r] = q
      BY <1>1, <3>3, <3>4, UpdateReq
    <3>6. req'[r].pc \in Working /\ \A s \in Requests : req[s].pc \in Working => req'[s].pc \in Working
      BY <3>3, <3>5, WorkingPlaces DEF Moves
    <3>7. Telling' /\ PanelTyped'
      BY <1>1, <2>1, <3>6, Started
    <3> QED BY <3>2, <3>3, <3>5, <3>7
  <2>2. CASE req' = [req EXCEPT ![r].pc = "refused"] /\ UNCHANGED panel
    <3>1. "refused" \in Pcs
      BY DEF Pcs, Ended
    <3>2. Moves(r, {"context", "refused"}) /\ Same(r) /\ req'[r] = [req[r] EXCEPT !.pc = "refused"]
      BY <1>1, <2>2, <3>1, UpdatePc
    <3>3. req'[r].pc = "refused"
      BY <1>2, <3>2 DEF Request
    <3>4. \A s \in Requests : req[s].pc \in Working => req'[s].pc \in Working
      BY <1>1, <3>2, WorkingPlaces DEF Moves
    <3>5. Telling'
      BY <1>1, <2>2, <3>4, TellingStill
    <3>6. PanelTyped'
      BY <1>1, <2>2, PanelType DEF PanelTyped, panel
    <3> QED BY <3>2, <3>3, <3>5, <3>6 DEF Same
  <2> QED BY <2>1, <2>2 DEF Resolve
<1>5. TypeOK'
  BY <1>1, <1>4, TypeNext DEF TypeOK, Moves, Entry
<1>6. CountedOnce'
  <2>1. \A s \in Requests : req[s].pc # "idle" => req'[s].pc # "idle"
    BY <1>4 DEF Moves
  <2>2. rate'.count \in 0..rate.count
    BY <1>1 DEF TypeOK
  <2> QED BY <2>1, <2>2, CountedStill
<1>7. ASSUME NEW s \in Requests, s # r PROVE Holds(s)'
  BY <1>1, <1>4, <1>7, HoldsStill DEF IInv, Moves
<1>8. Holds(r)'
  <2>1. Logged(r)'
    BY <1>1, <1>3, <1>4 DEF Logged
  <2>2. req'[r].pc \in Working => req'[r].kind \in Kinds
    BY <1>4 DEF Working, Active
  <2> QED BY <1>1, <1>3, <1>4, <2>1, <2>2, HoldsOn
<1> QED BY <1>4, <1>5, <1>6, <1>7, <1>8 DEF IInv

\* The end, with a row or without
LEMMA LogKeeps ==
    ASSUME IInv, NEW r \in Requests, log_request(r)
    PROVE  IInv'
<1>1. /\ req[r].pc \in {"log", "logerror"} /\ UNCHANGED <<config, rate, doc, edited, apart>> /\ TypeOK /\ Telling
      /\ Broadcast("AI_FINISHED", r)
  BY DEF log_request, IInv
<1>2. req \in [Requests -> Request] /\ req[r] \in Request /\ rows \in [Requests -> Seq(Entry)] /\ events \in 0..MaxEvents
  BY <1>1, TypedReq DEF TypeOK, Entry
<1>3. req[r].pc \in Working /\ req[r].pc \in Active
  BY <1>1, WorkingPlaces
<1>4. req[r].kind \in Kinds /\ req[r].applied = None /\ rows[r] = <<>> /\ Holds(r)
  BY <1>1, <1>3 DEF IInv, Holds
<1>5. PICK pc \in {"answered", "failed"} :
        /\ req' = [req EXCEPT ![r].pc = pc] /\ events' \in 0..MaxEvents
        /\ \/ rows' = [rows EXCEPT ![r] = Append(@, Row(r, req[r].pc = "log"))] /\ (pc = "answered" <=> req[r].pc = "log")
           \/ pc = "failed" /\ UNCHANGED rows
  <2>1. CASE /\ rows' = [rows EXCEPT ![r] = Append(@, Row(r, req[r].pc = "log"))]
             /\ req' = [req EXCEPT ![r].pc = IF @ = "log" THEN "answered" ELSE "failed"]
             /\ UNCHANGED events
    BY <1>2, <2>1
  <2>2. CASE events > 0 /\ events' = events - 1 /\ req' = [req EXCEPT ![r].pc = "failed"] /\ UNCHANGED rows
    BY <1>1, <2>2, Budget
  <2> QED BY <2>1, <2>2 DEF log_request
<1>6. pc \in Pcs
  BY DEF Pcs, Ended
<1>7. Moves(r, {"answered", "failed"}) /\ Same(r) /\ req'[r] = [req[r] EXCEPT !.pc = pc]
  BY <1>1, <1>5, <1>6, UpdatePc
<1>8. req'[r].pc = pc /\ req'[r].kind = req[r].kind
  BY <1>2, <1>7 DEF Request
<1>9. /\ rows' \in [Requests -> Seq(Entry)] /\ \A s \in Requests \ {r} : rows'[s] = rows[s]
      /\ pc = "answered" => rows'[r] = <<[ok |-> TRUE, kind |-> req[r].kind]>>
      /\ pc = "failed" => rows'[r] \in {<<>>, <<[ok |-> FALSE, kind |-> req[r].kind]>>}
  <2>1. CASE UNCHANGED rows /\ pc = "failed"
    BY <1>2, <1>4, <2>1
  <2>2. CASE rows' = [rows EXCEPT ![r] = Append(@, Row(r, req[r].pc = "log"))] /\ (pc = "answered" <=> req[r].pc = "log")
    <3> DEFINE e == Row(r, req[r].pc = "log")
    <3>1. e \in Entry
      BY <1>4 DEF Row, Entry
    <3>2. /\ pc = "answered" => e = [ok |-> TRUE, kind |-> req[r].kind]
          /\ pc = "failed" => e = [ok |-> FALSE, kind |-> req[r].kind]
      BY <2>2 DEF Row
    <3>3. rows' = [rows EXCEPT ![r] = Append(rows[r], e)]
      BY <1>2, <2>2
    <3> HIDE DEF e
    <3>4. Append(rows[r], e) = <<e>> /\ <<e>> \in Seq(Entry)
      BY <1>4, <3>1
    <3>5. rows' = [rows EXCEPT ![r] = <<e>>]
      BY <3>3, <3>4
    <3> QED BY <1>2, <3>2, <3>4, <3>5
  <2> QED BY <1>5, <2>1, <2>2
<1>10. Telling' /\ PanelTyped'
  <2>1. \A s \in Requests \ {r} : req[s].pc \in Working => req'[s].pc \in Working
    BY <1>7 DEF Moves
  <2> QED BY <1>1, <2>1, Over
<1>11. TypeOK'
  BY <1>1, <1>5, <1>7, <1>9, <1>10, TypeNext DEF TypeOK, Moves
<1>12. CountedOnce'
  <2>1. \A s \in Requests : req[s].pc # "idle" => req'[s].pc # "idle"
    BY <1>7 DEF Moves
  <2>2. rate'.count \in 0..rate.count
    BY <1>1 DEF TypeOK
  <2> QED BY <2>1, <2>2, CountedStill
<1>13. ASSUME NEW s \in Requests, s # r PROVE Holds(s)'
  BY <1>1, <1>7, <1>9, <1>13, HoldsStill DEF IInv, Moves
<1>14. Holds(r)'
  <2>1. Logged(r)'
    BY <1>5, <1>8, <1>9 DEF Logged
  <2>2. req'[r].pc \notin Working /\ req'[r].pc \notin {"idle", "lost"} \union Active
    BY <1>5, <1>8 DEF Working, Active
  <2> QED BY <1>1, <1>4, <1>7, <2>1, <2>2, HoldsOn DEF Same
<1> QED BY <1>10, <1>11, <1>12, <1>13, <1>14 DEF IInv

\* A request whose proposal, if nothing excuses it, is known as before
LEMMA HoldsFile ==
    ASSUME NEW s \in Requests, Holds(s), req'[s] = req[s], rows'[s] = rows[s],
           s \in edited \union apart => s \in (edited \union apart)',
           s \in Editors /\ HasProposal(s) /\ req[s].applied = None /\ s \notin (edited \union apart)' /\ Found(s)
             => Found(s)'
    PROVE  Holds(s)'
  BY DEF Holds, HasProposal, Logged

\* The server's copy falls back to a version of it; the tabs keep theirs.
LEMMA FallsBackTyped ==
    ASSUME TypeOK, FallsBack
    PROVE  /\ doc' \in [Copies -> SUBSET Update] /\ \A c \in Copies : doc'[c] \subseteq doc[c]
           /\ \A r \in Editors : doc'[r] = doc[r]
<1>1. PICK D \in SUBSET doc[Server] : doc' = [doc EXCEPT ![Server] = D]
  BY DEF FallsBack
<1>2. doc \in [Copies -> SUBSET Update] /\ Server \in Copies
  BY DEF TypeOK, Copies
<1>3. \A r \in Editors : r \in Copies /\ r # Server
  BY AssistantAssumption DEF Copies, Server
<1> QED BY <1>1, <1>2, <1>3

LEMMA FallsBackKeeps ==
    ASSUME TypeOK, FallsBack, NEW r \in Editors, NEW l, Known(doc, r, l)
    PROVE  Known(doc', r, l)
<1>1. (\A c \in Copies : doc'[c] \subseteq doc[c]) /\ doc'[r] = doc[r]
  BY FallsBackTyped
<1>2. \A c \in Copies : \A u \in doc'[c] : Touches(u, l) => u \in doc[r]
  BY <1>1 DEF Known
<1> QED BY <1>1, <1>2, FoundStill

LEMMA CrashKeeps ==
    ASSUME IInv, Crash
    PROVE  IInv'
<1>1. /\ UNCHANGED <<config, rate, rows, shown, timers, edited, apart>> /\ TypeOK /\ Telling /\ FallsBack
      /\ req' = [r \in Requests |-> IF req[r].pc \in Active THEN LoopEnds(req[r], "lost") ELSE req[r]]
      /\ channel' = <<>> /\ online' = FALSE
      /\ missed' = missed \union {r \in Requests \ Own : req[r].pc \in Active}
                          \union {e.r : e \in {m \in Range(channel) : m.op = "AI_FINISHED"}}
      /\ events > 0 /\ events' = events - 1
  BY DEF Crash, IInv
<1>2. req \in [Requests -> Request] /\ "lost" \in Pcs /\ "lost" # "idle"
  BY <1>1, TypedReq DEF Pcs, Ended
<1>3. ASSUME NEW s \in Requests
      PROVE  /\ req'[s] \in Request
             /\ req[s].pc \in Active => /\ req'[s].pc = "lost" /\ req'[s].kind = req[s].kind
                                        /\ req'[s].meant = req[s].meant /\ req'[s].applied = req[s].applied
             /\ req[s].pc \notin Active => req'[s] = req[s]
  <2>1. req[s] \in Request /\ (req[s].pc \in Active => req'[s] = LoopEnds(req[s], "lost")) /\ (req[s].pc \notin Active => req'[s] = req[s])
    BY <1>1, <1>2
  <2> DEFINE e == LoopEnds(req[s], "lost")
  <2>2. e \in Request /\ e.pc = "lost" /\ e.kind = req[s].kind /\ e.meant = req[s].meant /\ e.applied = req[s].applied
    BY <1>2, <2>1, LoopEndsType
  <2> HIDE DEF e
  <2> QED BY <2>1, <2>2 DEF e
<1>4. req' \in [Requests -> Request]
  <2>1. req' \in [Requests -> {req'[s] : s \in Requests}]
    BY <1>1
  <2> QED BY <1>3, <2>1
<1>5. Telling' /\ PanelTyped'
  <2> DEFINE gone == {r \in Requests \ Own : req[r].pc \in Active}
  <2>1. \A s \in Requests \ Own : req[s].pc \in Working => req'[s].pc \in Working \/ s \in gone
    BY WorkingPlaces
  <2>2. gone \in SUBSET Requests /\ missed' = missed \union gone \union {e.r : e \in {m \in Range(channel) : m.op = "AI_FINISHED"}}
    BY <1>1
  <2> HIDE DEF gone
  <2> QED BY <1>1, <2>1, <2>2, Lost
<1>6. events' \in 0..MaxEvents
  BY <1>1, Budget
<1>7. TypeOK'
  BY <1>1, <1>4, <1>5, <1>6, FallsBackTyped, TypeNext DEF TypeOK, Entry
<1>8. CountedOnce'
  <2>1. \A s \in Requests : req[s].pc # "idle" => req'[s].pc # "idle"
    BY <1>2, <1>3
  <2>2. rate'.count \in 0..rate.count
    BY <1>1 DEF TypeOK
  <2> QED BY <2>1, <2>2, CountedStill
<1>9. ASSUME NEW s \in Requests PROVE Holds(s)'
  <2>1. Holds(s) /\ rows'[s] = rows[s] /\ UNCHANGED <<edited, apart>>
    BY <1>1 DEF IInv
  <2>2. s \in Editors /\ Found(s) /\ req'[s].meant = req[s].meant => Found(s)'
    BY <1>1, FallsBackKeeps DEF Found
  <2>3. CASE req[s].pc \notin Active
    BY <1>3, <2>1, <2>2, <2>3, HoldsFile
  <2>4. CASE req[s].pc \in Active
    <3>1. req[s].applied = None /\ rows'[s] = <<>>
      BY <2>1, <2>4 DEF Holds, Active
    <3>2. Logged(s)' /\ req'[s].pc \notin Working
      BY <1>3, <2>4 DEF Logged, Working, Active
    <3> QED BY <1>3, <2>1, <2>2, <2>4, <3>1, <3>2 DEF Holds, HasProposal
  <2> QED BY <2>3, <2>4
<1> QED BY <1>5, <1>7, <1>8, <1>9 DEF IInv

(***************************************************************************)
(* The file                                                                *)
(***************************************************************************)

\* A new update, as the ghost records it, leaves known what it does not touch.
LEMMA WriteKeeps ==
    ASSUME TypeOK, NEW c \in Copies, NEW u \in Update, NEW others \in SUBSET Requests, Write(c, u, others)
    PROVE  /\ doc' \in [Copies -> SUBSET Update] /\ edited' \subseteq Requests /\ edited \subseteq edited' /\ apart' = apart
           /\ \A s \in others \intersect Editors :
                HasProposal(s) /\ req[s].applied = None /\ s \notin edited' /\ Found(s) => Known(doc', s, req[s].meant)
<1>1. /\ doc' = [doc EXCEPT ![c] = @ \union {u}] /\ UNCHANGED apart
      /\ edited' = edited \union {r \in others : HasProposal(r) /\ req[r].applied = None /\ Touches(u, req[r].meant)}
  BY DEF Write
<1>2. doc \in [Copies -> SUBSET Update] /\ edited \subseteq Requests
  BY DEF TypeOK
<1>3. \A d \in Copies : doc[d] \subseteq doc'[d] /\ \A v \in doc'[d] : v \in doc[d] \/ v = u
  BY <1>1, <1>2
<1>4. doc' \in [Copies -> SUBSET Update]
  BY <1>1, <1>2
<1>5. ASSUME NEW s \in others \intersect Editors, HasProposal(s), req[s].applied = None, s \notin edited', Found(s)
      PROVE  Known(doc', s, req[s].meant)
  <2>1. ~Touches(u, req[s].meant)
    BY <1>1, <1>5
  <2>2. s \in Copies /\ Known(doc, s, req[s].meant)
    BY <1>5 DEF Copies, Found
  <2>3. \A d \in Copies : \A v \in doc'[d] : Touches(v, req[s].meant) => v \in doc[s]
    BY <1>3, <2>1, <2>2 DEF Known
  <2> QED BY <1>3, <2>2, <2>3, FoundStill
<1> QED BY <1>1, <1>2, <1>4, <1>5

\* A step of the copies that touches no span that is known
LEMMA FileKeeps ==
    ASSUME IInv, UNCHANGED <<config, rate, req, rows, panel>>, events' \in 0..MaxEvents,
           doc' \in [Copies -> SUBSET Update], edited' \subseteq Requests, edited \subseteq edited', apart' = apart,
           \A s \in Editors : HasProposal(s) /\ req[s].applied = None /\ s \notin edited' /\ Found(s)
                             => Known(doc', s, req[s].meant)
    PROVE  IInv'
<1>1. TypeOK /\ Telling /\ apart \subseteq Requests
  BY DEF IInv, TypeOK
<1>2. TypeOK'
  BY <1>1, PanelType, TypedReq, TypeNext DEF TypeOK, PanelTyped, panel, Entry
<1>3. CountedOnce'
  <2>1. rate'.count \in 0..rate.count
    BY <1>1 DEF TypeOK
  <2> QED BY <2>1, CountedStill
<1>4. Telling'
  BY <1>1, TellingStill
<1>5. ASSUME NEW s \in Requests PROVE Holds(s)'
  <2>1. Holds(s) /\ (s \in edited \union apart => s \in (edited \union apart)')
    BY DEF IInv
  <2>2. s \in Editors /\ HasProposal(s) /\ req[s].applied = None /\ s \notin (edited \union apart)' /\ Found(s) => Found(s)'
    BY DEF Found
  <2> QED BY <2>1, <2>2, HoldsFile
<1> QED BY <1>2, <1>3, <1>4, <1>5 DEF IInv

\* Somebody types or removes a line.
LEMMA EditKeeps ==
    ASSUME IInv, NEW c \in Copies, Edit(c)
    PROVE  IInv'
<1>1. UNCHANGED <<config, rate, req, rows, panel>> /\ events > 0 /\ events' = events - 1 /\ TypeOK
  BY DEF Edit, IInv
<1>2. PICK u \in Update : Write(c, u, Requests)
  <2>1. PICK l \in Line : Write(c, [adds |-> {l}, removes |-> {}], Requests) \/ Write(c, [adds |-> {}, removes |-> {l}], Requests)
    BY DEF Edit
  <2>2. [adds |-> {l}, removes |-> {}] \in Update /\ [adds |-> {}, removes |-> {l}] \in Update
    BY DEF Update
  <2> QED BY <2>1, <2>2
<1>3. /\ doc' \in [Copies -> SUBSET Update] /\ edited' \subseteq Requests /\ edited \subseteq edited' /\ apart' = apart
      /\ \A s \in Requests \intersect Editors :
           HasProposal(s) /\ req[s].applied = None /\ s \notin edited' /\ Found(s) => Known(doc', s, req[s].meant)
  BY <1>1, <1>2, WriteKeeps
<1>4. Editors \subseteq Requests
  BY AssistantAssumption
<1>5. events' \in 0..MaxEvents
  BY <1>1, Budget
<1> QED BY <1>1, <1>3, <1>4, <1>5, FileKeeps

\* An update arrives: the tab whose span is known has it already, if it is of the span.
LEMMA DeliverKeeps ==
    ASSUME IInv, NEW from \in Copies, NEW to \in Copies, Deliver(from, to)
    PROVE  IInv'
<1>1. UNCHANGED <<config, rate, req, rows, panel, events, edited, apart>> /\ TypeOK
  BY DEF Deliver, IInv
<1>2. PICK u \in doc[from] \ doc[to] : doc' = [doc EXCEPT ![to] = @ \union {u}]
  BY DEF Deliver
<1>3. doc \in [Copies -> SUBSET Update] /\ edited \subseteq Requests /\ events \in 0..MaxEvents
  BY <1>1 DEF TypeOK
<1>4. \A d \in Copies : doc[d] \subseteq doc'[d] /\ \A v \in doc'[d] : v \in doc[d] \/ v = u
  BY <1>2, <1>3
<1>5. doc' \in [Copies -> SUBSET Update]
  BY <1>2, <1>3
<1>6. ASSUME NEW s \in Editors, Found(s) PROVE Known(doc', s, req[s].meant)
  <2>1. s \in Copies /\ Known(doc, s, req[s].meant)
    BY <1>6 DEF Copies, Found
  <2>2. \A d \in Copies : \A v \in doc'[d] : Touches(v, req[s].meant) => v \in doc[s]
    BY <1>2, <1>4, <2>1 DEF Known
  <2> QED BY <1>4, <2>1, <2>2, FoundStill
<1> QED BY <1>1, <1>3, <1>5, <1>6, FileKeeps

LEMMA DeliveriesKeep ==
    ASSUME IInv, NEW r \in Requests, sendUpdate(r) \/ OnMessage(r)
    PROVE  IInv'
<1>1. r \in Copies /\ Server \in Copies
  BY DEF sendUpdate, OnMessage, Copies
<1> QED BY <1>1, DeliverKeeps DEF sendUpdate, OnMessage

LEMMA EvictKeeps ==
    ASSUME IInv, Evict
    PROVE  IInv'
<1>1. UNCHANGED <<config, rate, req, rows, panel, events, edited, apart>> /\ FallsBack /\ TypeOK
  BY DEF Evict, IInv
<1>2. doc' \in [Copies -> SUBSET Update] /\ edited' \subseteq Requests /\ edited \subseteq edited' /\ events' \in 0..MaxEvents
  BY <1>1, FallsBackTyped DEF TypeOK
<1>3. \A s \in Editors : Found(s) => Known(doc', s, req[s].meant)
  BY <1>1, FallsBackKeeps DEF Found
<1> QED BY <1>1, <1>2, <1>3, FileKeeps

LEMMA ApplyKeeps ==
    ASSUME IInv, NEW r \in Requests, applyProposal(r)
    PROVE  IInv'
<1>1. /\ UNCHANGED <<config, rate, rows, panel, events>> /\ TypeOK /\ Telling /\ Holds(r)
      /\ req[r].pc = "answered" /\ req[r].applied = None /\ HasProposal(r)
  BY DEF applyProposal, Offered, IInv
<1>2. req \in [Requests -> Request] /\ req[r] \in Request /\ r \in Editors /\ r \in Copies
  BY <1>1, TypedReq DEF applyProposal, applyBlockedReason, Copies
<1>3. /\ Moves(r, {"answered"}) /\ req'[r].kind = req[r].kind
      /\ doc' \in [Copies -> SUBSET Update] /\ edited' \subseteq Requests /\ apart' \subseteq Requests
      /\ Holds(r)' /\ \A s \in Requests \ {r} : Holds(s)'
  <2>1. CASE req' = [req EXCEPT ![r].meant = None] /\ UNCHANGED <<doc, edited, apart>>
    <3>1. req' = [req EXCEPT ![r].meant = None] /\ UNCHANGED <<doc, edited, apart>>
      BY <2>1
    <3> DEFINE q == [req[r] EXCEPT !.meant = None]
    <3>2. q \in Request /\ q.pc = "answered" /\ q.meant = None /\ q.applied = None /\ q.kind = req[r].kind
      BY <1>1, <1>2 DEF Request
    <3>3. req' = [req EXCEPT ![r] = q]
      BY <1>2, <3>1
    <3> HIDE DEF q
    <3>4. Moves(r, {"answered"}) /\ req'[r] = q
      BY <1>1, <3>2, <3>3, UpdateReq
    <3>5. Holds(r)'
      BY <1>1, <3>2, <3>4, WorkingPlaces DEF Holds, HasProposal, Logged, Working, Active
    <3>6. ASSUME NEW s \in Requests \ {r} PROVE Holds(s)'
      BY <1>1, <3>1, <3>4, HoldsStill DEF IInv, Moves
    <3> QED BY <1>1, <3>1, <3>2, <3>4, <3>5, <3>6 DEF TypeOK
  <2>2. ASSUME NEW l \in First(r), req' = [req EXCEPT ![r].applied = l],
               Write(r, [adds |-> {[at |-> l.at, by |-> r]}, removes |-> {l}], Requests \ {r})
        PROVE  /\ Moves(r, {"answered"}) /\ req'[r].kind = req[r].kind
               /\ doc' \in [Copies -> SUBSET Update] /\ edited' \subseteq Requests /\ apart' \subseteq Requests
               /\ Holds(r)' /\ \A s \in Requests \ {r} : Holds(s)'
    <3>1. l \in Visible(doc[r]) /\ Says(l) = Says(req[r].meant)
      BY <2>2 DEF First, Occurrences
    <3>2. l \in Line
      BY <1>1, <1>2, <3>1, VisibleType DEF TypeOK
    <3>3. r \notin edited \union apart => l = req[r].meant
      BY <1>1, <1>2, <3>1 DEF Holds, Found, Known
    <3> DEFINE u == [adds |-> {[at |-> l.at, by |-> r]}, removes |-> {l}]
    <3>4. u \in Update
      BY <3>2 DEF Update, Line
    <3>5. Requests \ {r} \in SUBSET Requests /\ Write(r, u, Requests \ {r})
      BY <2>2
    <3> HIDE DEF u
    <3>6. /\ doc' \in [Copies -> SUBSET Update] /\ edited' \subseteq Requests /\ edited \subseteq edited' /\ apart' = apart
          /\ \A s \in (Requests \ {r}) \intersect Editors :
               HasProposal(s) /\ req[s].applied = None /\ s \notin edited' /\ Found(s) => Known(doc', s, req[s].meant)
      BY <1>1, <1>2, <3>4, <3>5, WriteKeeps
    <3> DEFINE q == [req[r] EXCEPT !.applied = l]
    <3>7. q \in Request /\ q.pc = "answered" /\ q.meant = req[r].meant /\ q.applied = l /\ q.kind = req[r].kind
      BY <1>1, <1>2, <3>2 DEF Request
    <3>8. req' = [req EXCEPT ![r] = q]
      BY <1>2, <2>2
    <3> HIDE DEF q
    <3>9. Moves(r, {"answered"}) /\ req'[r] = q
      BY <1>1, <3>7, <3>8, UpdateReq
    <3>10. l # None
      BY <3>2 DEF Line, None
    <3>11. Holds(r)'
      BY <1>1, <3>3, <3>6, <3>7, <3>9, <3>10, WorkingPlaces DEF Holds, Logged, Working, Active
    <3>12. ASSUME NEW s \in Requests \ {r} PROVE Holds(s)'
      <4>1. Holds(s) /\ req'[s] = req[s] /\ rows'[s] = rows[s] /\ (s \in edited \union apart => s \in (edited \union apart)')
        BY <1>1, <3>6, <3>9 DEF IInv, Moves
      <4>2. s \in Editors /\ HasProposal(s) /\ req[s].applied = None /\ s \notin (edited \union apart)' /\ Found(s) => Found(s)'
        BY <3>6, <4>1 DEF Found
      <4> QED BY <4>1, <4>2, HoldsFile
    <3> QED BY <1>1, <3>6, <3>7, <3>9, <3>11, <3>12 DEF TypeOK
  <2> QED BY <2>1, <2>2 DEF applyProposal
<1>4. TypeOK'
  BY <1>1, <1>3, PanelType, TypeNext DEF TypeOK, PanelTyped, panel, Entry, Moves
<1>5. CountedOnce'
  <2>1. \A s \in Requests : req[s].pc # "idle" => req'[s].pc # "idle"
    BY <1>3 DEF Moves
  <2>2. rate'.count \in 0..rate.count
    BY <1>1 DEF TypeOK
  <2> QED BY <2>1, <2>2, CountedStill
<1>6. Telling'
  <2>1. \A s \in Requests : req[s].pc \in Working => req'[s].pc \in Working
    BY <1>1, <1>3 DEF Moves, Working, Active
  <2> QED BY <1>1, <2>1, TellingStill
<1> QED BY <1>3, <1>4, <1>5, <1>6 DEF IInv

(***************************************************************************)
(* What happens at the panel                                               *)
(***************************************************************************)

LEMMA PanelKeeps ==
    ASSUME IInv, UNCHANGED <<config, rate, req, rows, doc, edited, apart>>, events' \in 0..MaxEvents, PanelTyped', Telling'
    PROVE  IInv'
<1>1. TypeOK'
  BY TypedReq, TypeNext DEF IInv, TypeOK, Entry
<1>2. CountedOnce'
  <2>1. rate'.count \in 0..rate.count
    BY DEF IInv, TypeOK
  <2> QED BY <2>1, CountedStill
<1>3. ASSUME NEW s \in Requests PROVE Holds(s)'
  BY HoldsStill DEF IInv
<1> QED BY <1>1, <1>2, <1>3 DEF IInv

\* The panel takes the first event.
LEMMA SubscribeKeeps ==
    ASSUME IInv, subscribeAi
    PROVE  IInv'
<1> DEFINE e == Head(channel)
<1>1. /\ channel # <<>> /\ channel' = Tail(channel) /\ UNCHANGED <<config, rate, req, rows, doc, online, missed, events, edited, apart>>
      /\ IF e.op = "AI_STARTED" THEN shown' = shown \union {e.r} /\ timers' = timers \union {e.r}
                                ELSE shown' = shown \ {e.r} /\ timers' = timers \ {e.r}
  BY DEF subscribeAi, Forget
<1>2. PanelTyped /\ channel \in Seq(Event) /\ shown \subseteq Requests /\ Telling /\ events \in 0..MaxEvents
  BY PanelType DEF PanelTyped, IInv, TypeOK
<1>3. /\ e = channel[1] /\ e \in Event /\ 1 \in DOMAIN channel /\ DOMAIN channel = 1..Len(channel) /\ Len(channel) \in Nat \ {0}
      /\ channel' \in Seq(Event) /\ DOMAIN channel' = 1..(Len(channel) - 1)
      /\ \A i \in DOMAIN channel' : i \in Nat \ {0} /\ i + 1 \in DOMAIN channel /\ channel'[i] = channel[i + 1]
  BY <1>1, <1>2
<1> HIDE DEF e
<1>4. \A i \in DOMAIN channel : i > 1 => i - 1 \in DOMAIN channel' /\ channel'[i - 1] = channel[i]
  BY <1>3
<1>5. e.r \in Requests /\ e.r \notin Own /\ (e.op = "AI_STARTED" \/ e = Finished(e.r))
  BY <1>2, <1>3, EventOf DEF Telling
<1>6. \A x \in Range(channel) : x = e \/ x \in Range(channel')
  <2> SUFFICES ASSUME NEW i \in DOMAIN channel PROVE channel[i] = e \/ channel[i] \in Range(channel')
    BY DEF Range
  <2>1. CASE i = 1
    BY <1>3, <2>1
  <2>2. CASE i > 1
    <3>1. i - 1 \in DOMAIN channel' /\ channel'[i - 1] = channel[i]
      BY <1>4, <2>2
    <3> QED BY <3>1 DEF Range
  <2> QED BY <1>3, <2>1, <2>2
<1>7. ASSUME NEW i \in DOMAIN channel'
      PROVE  channel'[i].r \notin Own /\ (channel'[i].op = "AI_STARTED" => req[channel'[i].r].pc \in Working \/ Ends(i)')
  <2>1. i + 1 \in DOMAIN channel /\ channel'[i] = channel[i + 1] /\ i \in Nat
    BY <1>3
  <2>2. channel[i + 1].r \notin Own /\ (channel[i + 1].op = "AI_STARTED" => req[channel[i + 1].r].pc \in Working \/ Ends(i + 1))
    BY <1>2, <2>1 DEF Telling
  <2>3. ASSUME Ends(i + 1) PROVE Ends(i)'
    <3>1. PICK j \in DOMAIN channel : i + 1 < j /\ channel[j] = Finished(channel[i + 1].r)
      BY <2>3 DEF Ends
    <3>2. j - 1 \in DOMAIN channel' /\ i < j - 1 /\ channel'[j - 1] = Finished(channel'[i].r)
      BY <1>3, <1>4, <2>1, <3>1
    <3> QED BY <3>2 DEF Ends
  <2> QED BY <2>1, <2>2, <2>3
<1>8. ASSUME NEW s \in shown' PROVE s \in Requests \ Own /\ (req[s].pc \in Working \/ Finished(s) \in Range(channel') \/ s \in missed)
  <2>1. CASE s \in shown /\ (e.op = "AI_STARTED" \/ s # e.r)
    <3>1. Finished(s) # e
      BY <2>1, EventOf
    <3>2. s \in Requests \ Own /\ (req[s].pc \in Working \/ Finished(s) \in Range(channel) \/ s \in missed)
      BY <1>2, <2>1 DEF Telling
    <3> QED BY <1>6, <3>1, <3>2
  <2>2. CASE e.op = "AI_STARTED" /\ s = e.r
    <3>1. req[s].pc \in Working \/ Ends(1)
      BY <1>2, <1>3, <2>2 DEF Telling
    <3>2. ASSUME Ends(1) PROVE Finished(s) \in Range(channel')
      <4>1. PICK j \in DOMAIN channel : 1 < j /\ channel[j] = Finished(s)
        BY <1>3, <2>2, <3>2 DEF Ends
      <4>2. j - 1 \in DOMAIN channel' /\ channel'[j - 1] = Finished(s)
        BY <1>3, <1>4, <4>1
      <4> QED BY <4>2 DEF Range
    <3> QED BY <1>5, <2>2, <3>1, <3>2
  <2> QED BY <1>1, <2>1, <2>2
<1>9. ~online' => channel' = <<>>
  BY <1>1, <1>2 DEF Telling
<1>10. Telling'
  BY <1>1, <1>7, <1>8, <1>9 DEF Telling
<1>11. PanelTyped'
  BY <1>1, <1>2, <1>3, <1>5 DEF PanelTyped
<1> QED BY <1>1, <1>2, <1>10, <1>11, PanelKeeps

\* What is not shown any more needs no end.
LEMMA TellingLess ==
    ASSUME Telling, PanelTyped, UNCHANGED <<req, channel, missed>>, shown' \subseteq shown, online' = online \/ online' = TRUE
    PROVE  Telling'
<1>1. \A i \in DOMAIN channel : Ends(i)' = Ends(i)
  BY DEF Ends
<1> QED BY <1>1 DEF Telling, PanelTyped

LEMMA PanelStepKeeps ==
    ASSUME IInv, (\E r \in Requests : Timeout(r)) \/ SwitchFile \/ Drop \/ Reconnect
    PROVE  IInv'
<1>1. PanelTyped /\ Telling /\ TypeOK /\ events \in 0..MaxEvents
  BY PanelType DEF IInv, TypeOK
<1>2. ASSUME NEW r \in Requests, Timeout(r) PROVE IInv'
  <2>1. /\ UNCHANGED <<config, rate, req, rows, doc, channel, online, missed, events, edited, apart>>
        /\ shown' = shown \ {r} /\ timers' = timers \ {r}
    BY <1>2 DEF Timeout, Forget
  <2>2. Telling' /\ PanelTyped'
    BY <1>1, <2>1, TellingLess DEF PanelTyped
  <2> QED BY <1>1, <2>1, <2>2, PanelKeeps
<1>3. CASE SwitchFile
  <2>1. UNCHANGED <<config, rate, req, rows, doc, shown, channel, online, missed, events, edited, apart>> /\ timers' = {}
    BY <1>3 DEF SwitchFile
  <2>2. Telling' /\ PanelTyped'
    BY <1>1, <2>1, TellingLess DEF PanelTyped
  <2> QED BY <1>1, <2>1, <2>2, PanelKeeps
<1>4. CASE Drop
  <2>1. /\ UNCHANGED <<config, rate, req, rows, doc, shown, timers, edited, apart>> /\ events > 0 /\ events' = events - 1
        /\ online' = FALSE /\ channel' = <<>>
        /\ missed' = missed \union {e.r : e \in {m \in Range(channel) : m.op = "AI_FINISHED"}}
    BY <1>4 DEF Drop
  <2>2. /\ {} \in SUBSET Requests
        /\ missed' = missed \union {} \union {e.r : e \in {m \in Range(channel) : m.op = "AI_FINISHED"}}
    BY <2>1
  <2>3. Telling' /\ PanelTyped'
    BY <1>1, <2>1, <2>2, Lost
  <2> QED BY <1>1, <2>1, <2>3, Budget, PanelKeeps
<1>5. CASE Reconnect
  <2>1. UNCHANGED <<config, rate, req, rows, doc, shown, timers, channel, missed, events, edited, apart>> /\ online' = TRUE
    BY <1>5 DEF Reconnect
  <2>2. Telling' /\ PanelTyped'
    BY <1>1, <2>1, TellingLess DEF PanelTyped
  <2> QED BY <1>1, <2>1, <2>2, PanelKeeps
<1> QED BY <1>2, <1>3, <1>4, <1>5

(***************************************************************************)
(* The theorems                                                            *)
(***************************************************************************)

LEMMA InitHolds == Init => IInv
<1> SUFFICES ASSUME Init PROVE IInv
  OBVIOUS
<1>1. /\ req = [r \in Requests |-> Fresh] /\ rows = [r \in Requests |-> <<>>] /\ doc = [c \in Copies |-> {}]
      /\ rate = [count |-> 0, ttl |-> FALSE] /\ config \in [kind : {"none", "huggingface"}, active : {TRUE}]
      /\ shown = {} /\ timers = {} /\ channel = <<>> /\ online = TRUE /\ missed = {}
      /\ events = MaxEvents /\ edited = {} /\ apart = {}
  BY DEF Init
<1>2. Fresh \in Request
  <2>1. 0 \in 0..(MaxSteps - 1) /\ 0 \in 0..MaxRetries /\ 0 \in 0..MaxCalls
    BY AssistantAssumption
  <2> QED BY <2>1 DEF Fresh, Request, Pcs
<1>3. <<>> \in Seq(Entry) /\ <<>> \in Seq(Event) /\ MaxEvents \in 0..MaxEvents
  BY AssistantAssumption
<1>4. Begun = {} /\ Cardinality(Begun) = 0 /\ Cardinality(Requests) \in Nat
  <2>1. Begun = {}
    BY <1>1 DEF Begun, Fresh
  <2>2. IsFiniteSet(Requests)
    BY AssistantAssumption
  <2> QED BY <2>1, <2>2, FS_EmptySet, FS_CardinalityType
<1>5. TypeOK
  <2>1. rate \in [count : 0..Cardinality(Requests), ttl : BOOLEAN]
    BY <1>1, <1>4
  <2>2. req \in [Requests -> Request] /\ rows \in [Requests -> Seq(Entry)]
    BY <1>1, <1>2, <1>3
  <2>3. config \in [kind : Kinds \union {"none"}, active : BOOLEAN]
    BY <1>1 DEF Kinds
  <2> QED BY <1>1, <1>3, <2>1, <2>2, <2>3 DEF TypeOK, Request, Pcs, Entry, Event
<1>6. CountedOnce
  BY <1>1, <1>4 DEF CountedOnce
<1>7. Telling
  BY <1>1 DEF Telling
<1>8. \A r \in Requests : Holds(r)
  BY <1>1 DEF Holds, Fresh, HasProposal, Logged, Working, Active
<1> QED BY <1>5, <1>6, <1>7, <1>8 DEF IInv

LEMMA NextKeeps == IInv /\ [Next]_vars => IInv'
<1> SUFFICES ASSUME IInv, [Next]_vars PROVE IInv'
  OBVIOUS
<1>1. ASSUME NEW k \in Kinds, NEW a \in BOOLEAN, configure_assistant(k) \/ update_assistant_config(k, a) PROVE IInv'
  BY <1>1, ConfigKeeps
<1>2. ASSUME NEW r \in Requests, request_assistant(r) PROVE IInv'
  BY <1>2, RequestKeeps
<1>3. ASSUME NEW r \in Requests, Resolve(r) PROVE IInv'
  BY <1>3, ResolveKeeps
<1>4. ASSUME NEW r \in Requests, user_message(r) \/ LegacyChat(r) \/ Post(r) PROVE IInv'
  BY <1>4, AskKeeps
<1>5. ASSUME NEW r \in Requests, run_tool(r) PROVE IInv'
  BY <1>5, ToolKeeps
<1>6. ASSUME NEW r \in Requests, log_request(r) PROVE IInv'
  BY <1>6, LogKeeps
<1>7. ASSUME NEW r \in Requests, applyProposal(r) PROVE IInv'
  BY <1>7, ApplyKeeps
<1>8. CASE (\E r \in Requests : Timeout(r)) \/ SwitchFile \/ Drop \/ Reconnect
  BY <1>8, PanelStepKeeps
<1>9. ASSUME NEW c \in Copies, Edit(c) PROVE IInv'
  BY <1>9, EditKeeps
<1>10. ASSUME NEW r \in Requests, sendUpdate(r) \/ OnMessage(r) PROVE IInv'
  BY <1>10, DeliveriesKeep
<1>11. TRUE \in BOOLEAN
  OBVIOUS
<1> QED BY <1>1, <1>2, <1>3, <1>4, <1>5, <1>6, <1>7, <1>8, <1>9, <1>10, <1>11, ExpireKeeps, CrashKeeps, EvictKeeps, SubscribeKeeps, StutterKeeps DEF Next

LEMMA Inductive == Spec => []IInv
  BY InitHolds, NextKeeps, PTL DEF Spec

\* A handler's fields keep their types: the counter of the window stays within the
\* requests made, the steps and tool calls of the loop within their budgets.
THEOREM TypeCorrect == Spec => []TypeOK
<1>1. IInv => TypeOK
  BY DEF IInv
<1> QED BY <1>1, Inductive, PTL

\* Accepting a proposal replaces the line the model meant, whatever the file holds,
\* is lost or on its way, when the server's copy, in which agent/tools.py finds the text
\* once, and the tab's, in which Editor.tsx replaces the first, had the same updates of
\* that span at the check and nobody has edited it since.
THEOREM ApplyHolds == Spec => []ApplyHitsWhatWasMeant
<1>1. IInv => ApplyHitsWhatWasMeant
  BY DEF IInv, Holds, ApplyHitsWhatWasMeant
<1> QED BY <1>1, Inductive, PTL

\* What another member's panel shows as running runs, or the panel will hear of its
\* end, or it missed it: an AI_FINISHED never goes before its AI_STARTED
\* (AssistantPanel.tsx).
THEOREM ShownHolds == Spec => []ShownIsRunning
<1>1. IInv => ShownIsRunning
  BY WorkingPlaces DEF IInv, Telling, ShownIsRunning, Finished
<1> QED BY <1>1, Inductive, PTL

\* The log of an ended request is one row that says how it ended and names the
\* provider that was asked, or none for one that failed (api/assistant.py).
THEOREM LogHolds == Spec => [](\A r \in Requests : Logged(r))
<1>1. IInv => \A r \in Requests : Logged(r)
  BY DEF IInv, Holds
<1> QED BY <1>1, Inductive, PTL
=============================================================================
