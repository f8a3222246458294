---------------------------- MODULE AssistantRun ----------------------------
(* The AI assistant of a project: the request handler of api/assistant.py,
   the agent loop and its tools (agent/), the choice of a provider and its
   retries (llm/), the fixed-window limit kept in Redis, the log rows, the
   proposal an editor applies in the browser (Editor.tsx) and what the panel
   of another member shows meanwhile (AssistantPanel.tsx).

   The server and the tab of each request's user have a copy of the file: the
   set of updates it holds, which arrive later in the others.  A line has a
   place and who wrote it; two lines read the same when Says gives them the
   same value, so that a copy can hold the span a proposal quotes more than
   once.  Prompts, answers, tokens and the AI_STEP events, which no state
   depends on, are left out. *)
EXTENDS Integers, Sequences, FiniteSets, Functions

CONSTANTS Requests,     \* requests to the assistant, each from a browser of its own
          Own,          \* the requests of the member whose panel is modelled
          Reviews,      \* the requests in a mode that may not edit (review, explain)
          Editors,      \* the requests whose user may edit (Editor.tsx canApply)
          ServerKey,    \* settings.mistral_api_key is set
          Limit,        \* ai_assistant_rate_limit_requests
          MaxSteps,     \* ai_agent_max_steps
          MaxRetries,   \* MistralAdapter.MAX_RETRIES
          MaxCalls,     \* bound: tool calls in one reply
          MaxEvents     \* bound: edits of the file, changes of the configuration and faults
                        \* (Redis errors, failed commits, crashes, lost sockets)

ASSUME AssistantAssumption ==
  /\ Editors \subseteq Requests /\ Own \subseteq Requests /\ "server" \notin Requests
  /\ Reviews \subseteq Requests /\ IsFiniteSet(Requests)
  /\ ServerKey \in BOOLEAN
  /\ Limit \in Nat \ {0} /\ MaxSteps \in Nat \ {0} /\ MaxRetries \in Nat
  /\ MaxCalls \in Nat \ {0} /\ MaxEvents \in Nat

VARIABLES
  config,    \* the project's row: provider kind ("none": no row) and is_active
  rate,      \* the Redis counter of the window and whether it has a TTL
  req,       \* per request: where its handler is and what it holds
  rows,      \* per request: the AIAssistantRequest rows written for it
  doc,       \* the file's shared document, per copy: the updates it holds
  shown,     \* requests of others a member's panel shows as running
  timers,    \* requests that panel holds a forget timer for
  channel,   \* events on the way to that panel
  online,    \* that panel's project socket is open
  events,    \* what is left of MaxEvents
  edited,    \* ghost: requests whose span somebody edited after it was checked
  apart,     \* ghost: requests whose span the copies disagreed about when it was checked
  missed     \* ghost: requests whose AI_FINISHED never reached the panel

panel == <<shown, timers, channel, online, missed>>
vars == <<config, rate, req, rows, doc, panel, events, edited, apart>>

Kinds == {"mistral", "huggingface"}
Mode(r) == IF r \in Reviews THEN "review" ELSE "ask"

Server == "server"
Copies == Editors \cup {Server}
Typed == "typed"
Line == [at : 0..3, by : Requests \cup {Typed}]   \* typed, or written by a proposal
None == [at |-> -1, by |-> Typed]
Says(l) == IF l.by = Typed THEN l.at % 2 ELSE 0
Start == {[at |-> 1, by |-> Typed], [at |-> 2, by |-> Typed]}

\* One transaction of a document, and the lines on show where the updates D are.
Update == [adds : SUBSET Line, removes : SUBSET Line]
Visible(D) == (Start \cup UNION {u.adds : u \in D}) \ UNION {u.removes : u \in D}

Active == {"resolve", "context", "chat", "tools", "log", "logerror"}
Ended == {"refused", "answered", "failed", "lost"}

Fresh == [pc |-> "idle", kind |-> "none", step |-> 0, attempt |-> 0,
          calls |-> 0, meant |-> None, parses |-> FALSE, applied |-> None]

Init ==
  /\ config \in [kind : {"none", "huggingface"}, active : {TRUE}]
  /\ rate = [count |-> 0, ttl |-> FALSE]
  /\ req = [r \in Requests |-> Fresh]
  /\ rows = [r \in Requests |-> <<>>]
  /\ doc = [c \in Copies |-> {}]
  /\ shown = {} /\ timers = {} /\ channel = <<>> /\ online = TRUE /\ missed = {}
  /\ events = MaxEvents
  /\ edited = {} /\ apart = {}

-----------------------------------------------------------------------------
\* The owner's configuration

\* POST /config: an existing row keeps its is_active, a new one is active.
configure_assistant(k) ==
  /\ events > 0 /\ events' = events - 1
  /\ config' = [config EXCEPT !.kind = k]
  /\ UNCHANGED <<rate, req, rows, doc, panel, edited, apart>>

\* PATCH /config: the provider and is_active are set as given; without a new
\* key nothing is validated.
update_assistant_config(k, a) ==
  /\ config.kind # "none"
  /\ events > 0 /\ events' = events - 1
  /\ config' = [kind |-> k, active |-> a]
  /\ UNCHANGED <<rate, req, rows, doc, panel, edited, apart>>

-----------------------------------------------------------------------------
\* Admission

\* The script of check_rate_limit: INCR, and EXPIRE by the first request.
Counted == [count |-> rate.count + 1, ttl |-> rate.ttl \/ rate.count = 0]

Allowed(current) == current <= Limit

\* check_rate_limit fails open: when Redis does not answer, the request is let
\* through uncounted.
FailOpen(r) ==
  /\ events > 0 /\ events' = events - 1
  /\ req' = [req EXCEPT ![r].pc = "resolve"]
  /\ UNCHANGED rate

\* A request is counted and refused with 429 above the limit.
request_assistant(r) ==
  /\ req[r].pc = "idle"
  /\ \/ /\ rate' = Counted
        /\ req' = [req EXCEPT ![r].pc = IF Allowed(Counted.count) THEN "resolve" ELSE "refused"]
        /\ UNCHANGED events
     \/ FailOpen(r)
  /\ UNCHANGED <<config, rows, doc, panel, edited, apart>>

\* The window's key expires.
Expire ==
  /\ rate.ttl
  /\ rate' = [count |-> 0, ttl |-> FALSE]
  /\ UNCHANGED <<config, req, rows, doc, panel, events, edited, apart>>

\* _broadcast_ai: the event reaches the sockets that are open; a panel takes
\* no notice of its own member's requests.
Broadcast(op, r) ==
  /\ channel' = IF online /\ r \notin Own THEN Append(channel, [op |-> op, r |-> r]) ELSE channel
  /\ missed' = IF op = "AI_FINISHED" /\ ~online /\ r \notin Own THEN missed \cup {r} ELSE missed
  /\ UNCHANGED <<shown, timers, online>>

\* The project's own configuration wins; without one the server's key is used.
Provider == IF config.kind # "none" THEN IF config.active THEN config.kind ELSE "none"
            ELSE IF ServerKey THEN "mistral" ELSE "none"

\* The file is checked and the provider resolved; then AI_STARTED is sent.
Resolve(r) ==
  /\ req[r].pc = "resolve"
  /\ \/ /\ Provider # "none"
        /\ req' = [req EXCEPT ![r].pc = "context", ![r].kind = Provider]
        /\ Broadcast("AI_STARTED", r)
     \/ /\ req' = [req EXCEPT ![r].pc = "refused"]   \* no such file, or no provider
        /\ UNCHANGED panel
  /\ UNCHANGED <<config, rate, rows, doc, events, edited, apart>>

-----------------------------------------------------------------------------
\* The agent loop

supports_tools(kind) == kind = "mistral"

\* What is left of the loop's variables when it is over.
LoopEnds(q, pc) == [q EXCEPT !.pc = pc, !.step = 0, !.attempt = 0, !.calls = 0]

\* The active file and its last run go with the question: they are read from
\* the database first, which may fail.
user_message(r) ==
  /\ req[r].pc = "context"
  /\ \/ req' = [req EXCEPT ![r].pc = "chat"] /\ UNCHANGED events
     \/ /\ events > 0 /\ events' = events - 1
        /\ req' = [req EXCEPT ![r] = LoopEnds(@, "logerror")]
  /\ UNCHANGED <<config, rate, rows, doc, panel, edited, apart>>

\* HuggingFaceAdapter: a list of texts is an answer, any other body or status
\* an error; nothing is tried again.
generate_completion == {"log", "logerror"}

\* LLMProvider.chat, for providers without tools: the conversation as one prompt
FlatChat(tools) == IF tools THEN {"logerror"} ELSE generate_completion

\* A provider without tools is asked once, with the file's text in the prompt.
LegacyChat(r) ==
  /\ req[r].pc = "chat" /\ ~supports_tools(req[r].kind)
  /\ \E pc \in FlatChat(FALSE) : req' = [req EXCEPT ![r] = LoopEnds(@, pc)]
  /\ UNCHANGED <<config, rate, rows, doc, panel, events, edited, apart>>

\* One post to the provider: the model's answer ends the loop, tool calls are
\* run, a retryable status is retried, anything else is an error (502).
Post(r) ==
  /\ req[r].pc = "chat" /\ supports_tools(req[r].kind)
  /\ \/ req' = [req EXCEPT ![r] = LoopEnds(@, "log")]
     \/ \E n \in 1..MaxCalls :
          req' = [req EXCEPT ![r].pc = "tools", ![r].attempt = 0, ![r].calls = n]
     \/ /\ req[r].attempt < MaxRetries
        /\ req' = [req EXCEPT ![r].attempt = @ + 1]
     \/ req' = [req EXCEPT ![r] = LoopEnds(@, "logerror")]
  /\ UNCHANGED <<config, rate, rows, doc, panel, events, edited, apart>>

TOOLS == {"list_files", "read_file", "get_last_execution", "check_syntax", "propose_edit"}

MODE_TOOLS(mode) ==
  IF mode = "review" THEN TOOLS \ {"propose_edit"} ELSE TOOLS

\* run_tool looks the name up again: the model may call a tool it was not offered.
Available(name, mode) == name \in MODE_TOOLS(mode)

\* Where copy c reads like line l.
Occurrences(l, c) == {m \in Visible(doc[c]) : Says(m) = Says(l)}

\* Mutant: the first place that reads like the line will do
Unique_Found(l) == Occurrences(l, Server) # {}

\* get_file_text reads the room's document, or the latest version without a room.
Unique(l) == Occurrences(l, Server) = {l}

\* Mutant: steps are not counted
AfterCall_Endless(q) ==
  IF q.calls > 1 THEN [q EXCEPT !.calls = @ - 1]
  ELSE [q EXCEPT !.calls = 0, !.pc = "chat"]

\* After the reply's last call the next step begins, or the budget is used up.
AfterCall(q) ==
  IF q.calls > 1 THEN [q EXCEPT !.calls = @ - 1]
  ELSE IF q.step + 1 = MaxSteps THEN LoopEnds(q, "log")
  ELSE [q EXCEPT !.calls = 0, !.step = @ + 1, !.pc = "chat"]

\* The update writes or removes text that reads like line l.
Touches(u, l) == \E m \in u.adds \cup u.removes : Says(m) = Says(l)

\* Some copy has an update of the span that the server or the user's tab has not.
Undelivered(r, l) ==
  /\ r \in Editors
  /\ \E c \in Copies : \E u \in doc[c] : Touches(u, l) /\ u \notin doc[Server] \cap doc[r]

\* propose_edit: the span the model quotes must be in the server's copy exactly
\* once; a proposal replaces the one before.  Whether the result parses depends
\* on it.
propose_edit(r) ==
  \E l \in Visible(doc[Server]), ok \in BOOLEAN :
    /\ Available("propose_edit", Mode(r))
    /\ Unique(l)
    /\ req' = [req EXCEPT ![r] = AfterCall([@ EXCEPT !.meant = l, !.parses = ok])]
    /\ edited' = edited \ {r}
    /\ apart' = IF Undelivered(r, l) THEN apart \cup {r} ELSE apart \ {r}
    /\ UNCHANGED events

\* The reading tools, a refused proposal and bad arguments change nothing.
OtherTool(r) ==
  /\ req' = [req EXCEPT ![r] = AfterCall(@)]
  /\ UNCHANGED <<edited, apart, events>>

\* An error that is neither a ToolError nor a TypeError ends the loop.
ToolRaises(r) ==
  /\ events > 0 /\ events' = events - 1
  /\ req' = [req EXCEPT ![r] = LoopEnds(@, "logerror")]
  /\ UNCHANGED <<edited, apart>>

run_tool(r) ==
  /\ req[r].pc = "tools"
  /\ propose_edit(r) \/ OtherTool(r) \/ ToolRaises(r)
  /\ UNCHANGED <<config, rate, rows, doc, panel>>

-----------------------------------------------------------------------------
\* The end of a request

\* The row names the provider that was asked, which the handler still holds.
Row(r, ok) == [ok |-> ok, kind |-> req[r].kind]

\* The row is committed and the answer returned; AI_FINISHED is sent in any case.
log_request(r) ==
  /\ req[r].pc \in {"log", "logerror"}
  /\ \/ /\ rows' = [rows EXCEPT ![r] = Append(@, Row(r, req[r].pc = "log"))]
        /\ req' = [req EXCEPT ![r].pc = IF @ = "log" THEN "answered" ELSE "failed"]
        /\ UNCHANGED events
     \/ /\ events > 0 /\ events' = events - 1
        /\ req' = [req EXCEPT ![r].pc = "failed"]
        /\ UNCHANGED rows
  /\ Broadcast("AI_FINISHED", r)
  /\ UNCHANGED <<config, rate, doc, edited, apart>>

\* The server's copy is the one that was saved last.
FallsBack == \E D \in SUBSET doc[Server] : doc' = [doc EXCEPT ![Server] = D]

\* The backend dies: handlers and sockets are gone, and with the rooms what was not
\* saved of the file; Redis and the database stay.
Crash ==
  /\ events > 0 /\ events' = events - 1
  /\ FallsBack
  /\ req' = [r \in Requests |-> IF req[r].pc \in Active THEN LoopEnds(req[r], "lost") ELSE req[r]]
  /\ channel' = <<>> /\ online' = FALSE
  /\ missed' = missed \cup {r \in Requests \ Own : req[r].pc \in Active}
                      \cup {e.r : e \in {m \in Range(channel) : m.op = "AI_FINISHED"}}
  /\ UNCHANGED <<config, rate, rows, shown, timers, edited, apart>>

-----------------------------------------------------------------------------
\* The file

HasProposal(r) == req[r].meant # None

\* send: the panel that asked hands the answer's proposal to its editor.
Offered(r) == req[r].pc = "answered" /\ HasProposal(r)

\* A new update in copy c; the ghost notes whose span it touches before it is applied.
Write(c, u, others) ==
  /\ doc' = [doc EXCEPT ![c] = @ \cup {u}]
  /\ edited' = edited \cup {r \in others : HasProposal(r) /\ req[r].applied = None
                                            /\ Touches(u, req[r].meant)}
  /\ UNCHANGED apart

\* A line is typed, above or below, or removed: in a tab, or by somebody else whose
\* update reaches the server.
Edit(c) ==
  /\ events > 0 /\ events' = events - 1
  /\ \E l \in Line :
       \/ /\ l.by = Typed /\ l.at \in {0, 3} /\ \A d \in Copies : \A u \in doc[d] : l \notin u.adds
          /\ Write(c, [adds |-> {l}, removes |-> {}], Requests)
       \/ l \in Visible(doc[c]) /\ Write(c, [adds |-> {}, removes |-> {l}], Requests)
  /\ UNCHANGED <<config, rate, req, rows, panel>>

\* An update arrives, as it is made or with the first exchange of a new connection.
Deliver(from, to) ==
  /\ \E u \in doc[from] \ doc[to] : doc' = [doc EXCEPT ![to] = @ \cup {u}]
  /\ UNCHANGED <<config, rate, req, rows, panel, events, edited, apart>>

sendUpdate(r) == r \in Editors /\ Deliver(r, Server)
OnMessage(r) == r \in Editors /\ Deliver(Server, r)

\* The room is evicted: the file's text is its latest version, saved or not.
Evict ==
  /\ FallsBack
  /\ UNCHANGED <<config, rate, req, rows, panel, events, edited, apart>>

applyBlockedReason(r) == r \notin Editors \/ ~req[r].parses

\* indexOf: the first place in the tab's copy that reads like the proposal's original
First(r) == {l \in Occurrences(req[r].meant, r) :
               \A m \in Occurrences(req[r].meant, r) : l.at <= m.at}

\* The user accepts: the span is replaced, or a message says it is gone.
applyProposal(r) ==
  /\ Offered(r) /\ req[r].applied = None
  /\ ~applyBlockedReason(r)
  /\ \/ /\ Occurrences(req[r].meant, r) = {}
        /\ req' = [req EXCEPT ![r].meant = None]
        /\ UNCHANGED <<doc, edited, apart>>
     \/ \E l \in First(r) :
          /\ req' = [req EXCEPT ![r].applied = l]
          /\ Write(r, [adds |-> {[at |-> l.at, by |-> r]}, removes |-> {l}], Requests \ {r})
  /\ UNCHANGED <<config, rate, rows, panel, events>>

-----------------------------------------------------------------------------
\* The panel of another member

\* Mutant: the timer is cleared and the run stays on show
Forget_TimerOnly(r) == shown' = shown /\ timers' = timers \ {r}

Forget(r) == shown' = shown \ {r} /\ timers' = timers \ {r}

\* The event handler of the panel.
subscribeAi ==
  /\ channel # <<>>
  /\ channel' = Tail(channel)
  /\ LET e == Head(channel)
     IN IF e.op = "AI_STARTED"
        THEN shown' = shown \cup {e.r} /\ timers' = timers \cup {e.r}
        ELSE Forget(e.r)
  /\ UNCHANGED <<config, rate, req, rows, doc, online, missed, events, edited, apart>>

\* ACTIVITY_TIMEOUT_MS after AI_STARTED.
Timeout(r) ==
  /\ r \in timers
  /\ Forget(r)
  /\ UNCHANGED <<config, rate, req, rows, doc, channel, online, missed, events,
                 edited, apart>>

\* The member opens another file: the effect is set up again, its clean-up
\* clears every timer and keeps what is shown.
SwitchFile ==
  /\ timers # {}
  /\ timers' = {}
  /\ UNCHANGED <<config, rate, req, rows, doc, shown, channel, online, missed, events,
                 edited, apart>>

\* The panel's socket is lost, with what was on its way, and opened again.
Drop ==
  /\ events > 0 /\ events' = events - 1
  /\ online /\ online' = FALSE
  /\ channel' = <<>>
  /\ missed' = missed \cup {e.r : e \in {m \in Range(channel) : m.op = "AI_FINISHED"}}
  /\ UNCHANGED <<config, rate, req, rows, doc, shown, timers, edited, apart>>

Reconnect ==
  /\ ~online /\ online' = TRUE
  /\ UNCHANGED <<config, rate, req, rows, doc, shown, timers, channel, missed, events,
                 edited, apart>>

-----------------------------------------------------------------------------
Handler(r) == Resolve(r) \/ user_message(r) \/ LegacyChat(r) \/ Post(r) \/ run_tool(r) \/ log_request(r)

Next ==
  \/ \E k \in Kinds : configure_assistant(k)
  \/ \E k \in Kinds, a \in BOOLEAN : update_assistant_config(k, a)
  \/ \E r \in Requests : request_assistant(r)
  \/ Expire
  \/ \E r \in Requests : Resolve(r)
  \/ \E r \in Requests : user_message(r)
  \/ \E r \in Requests : LegacyChat(r)
  \/ \E r \in Requests : Post(r)
  \/ \E r \in Requests : run_tool(r)
  \/ \E r \in Requests : log_request(r)
  \/ Crash
  \/ \E c \in Copies : Edit(c)
  \/ \E r \in Requests : sendUpdate(r)
  \/ \E r \in Requests : OnMessage(r)
  \/ Evict
  \/ \E r \in Requests : applyProposal(r)
  \/ subscribeAi
  \/ \E r \in Requests : Timeout(r)
  \/ SwitchFile
  \/ Drop
  \/ Reconnect

Spec == Init /\ [][Next]_vars

\* A handler is a task the event loop runs on, each post has a timeout of 30 s;
\* Redis expires keys, a socket delivers and browsers fire their timers.
FairSpec ==
  /\ Spec
  /\ \A r \in Requests : WF_vars(Handler(r)) /\ WF_vars(Timeout(r))
  /\ WF_vars(Expire) /\ WF_vars(subscribeAi)

-----------------------------------------------------------------------------
TypeOK ==
  /\ config \in [kind : Kinds \cup {"none"}, active : BOOLEAN]
  /\ rate \in [count : 0..Cardinality(Requests), ttl : BOOLEAN]
  /\ req \in [Requests -> [pc : {"idle"} \cup Active \cup Ended,
                           kind : Kinds \cup {"none"}, step : 0..(MaxSteps - 1),
                           attempt : 0..MaxRetries, calls : 0..MaxCalls,
                           meant : Line \cup {None}, parses : BOOLEAN,
                           applied : Line \cup {None}]]
  /\ rows \in [Requests -> Seq([ok : BOOLEAN, kind : Kinds])]
  /\ doc \in [Copies -> SUBSET Update]
  /\ shown \subseteq Requests /\ timers \subseteq shown /\ missed \subseteq Requests
  /\ channel \in Seq([op : {"AI_STARTED", "AI_FINISHED"}, r : Requests])
  /\ online \in BOOLEAN
  /\ events \in 0..MaxEvents
  /\ edited \subseteq Requests /\ apart \subseteq Requests

\* If the server and the user's tab agreed about the span when propose_edit checked
\* it, and nobody edited it since, accepting replaces the line the model meant and
\* no other that reads the same, whatever was lost or is still on its way.
ApplyHitsWhatWasMeant ==
  \A r \in Requests :
    req[r].applied # None /\ r \notin edited \cup apart => req[r].applied = req[r].meant

\* docs/architecture.md: propose_edit "checks that the text to replace exists exactly
\* once", Accept "replaces the span": the same, with no word of an edit that was in
\* one copy only when the span was checked.
AcceptHitsTheSpan ==
  \A r \in Requests :
    req[r].applied # None /\ r \notin edited => req[r].applied = req[r].meant

\* What another member's panel shows as running is running, or its end is on its
\* way to the panel; but for the runs whose end the panel missed.
ShownIsRunning ==
  \A r \in shown :
    req[r].pc \in Active \/ [op |-> "AI_FINISHED", r |-> r] \in Range(channel) \/ r \in missed

\* The log of an ended request: one row that says how it ended and names the
\* provider that was asked, whatever the configuration is by now; none for one
\* that failed before or in the commit of the row.
Logged(r) ==
  /\ req[r].pc = "answered" => rows[r] = <<[ok |-> TRUE, kind |-> req[r].kind]>>
  /\ req[r].pc = "failed" => rows[r] \in {<<>>, <<[ok |-> FALSE, kind |-> req[r].kind]>>}
  /\ req[r].pc = "refused" => rows[r] = <<>>

\* A request that was let through ends, whatever the provider answers, and is in
\* the log as it ended.
RequestEnds ==
  \A r \in Requests : (req[r].pc \in Active) ~> (req[r].pc \in Ended /\ Logged(r))

\* Another member's panel forgets a run whose AI_FINISHED it receives, and one
\* whose AI_FINISHED it missed as long as it holds the timer.
PanelForgets ==
  \A r \in Requests \ Own :
    (r \in shown) ~> (r \notin shown \/ (r \in missed /\ r \notin timers))
=============================================================================
