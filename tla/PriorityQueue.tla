----------------------------- MODULE PriorityQueue -----------------------------
(***************************************************************************)
(* The Redis queue of waiting runs (realtime/execution_queue.py): a hash   *)
(* of payloads scored anew on every look, a list that only wakes workers,  *)
(* and workers that race for the best run with HDEL.                       *)
(*                                                                         *)
(* The score depends on the time a run has waited up to                    *)
(* priority_wait_saturation_seconds, so time is kept as the age of each    *)
(* waiting run, capped at Saturation.  A run is what its payload says: a   *)
(* finished one may come again as a new request of the same kind.          *)
(***************************************************************************)
EXTENDS Naturals, FiniteSets

CONSTANTS Runs,             \* the kinds of request
          Rank,             \* Rank[r]: ROLE_RANK of the user who started r
          DebugRuns,        \* debug sessions
          CppRuns,          \* runs in C++
          Repeats,          \* runs that are requested again and again
          Cancels,          \* runs that may be cancelled while they wait
          Consumers,        \* the worker processes
          NoRun,            \* "nothing", for a worker
          RoleWeight, WaitWeight, LangPenalty,      \* Settings.priority_...
          Saturation,       \* priority_wait_saturation_seconds, in ticks
          MaxRank,          \* _MAX_ROLE_RANK
          MAX_DEQUEUE_ATTEMPTS,
          MaxTokens         \* bound on the length of QUEUE_NOTIFY_LIST

ASSUME QueueAssumption ==
    /\ Rank \in [Runs -> 0..MaxRank]
    /\ DebugRuns \subseteq Runs /\ CppRuns \subseteq Runs
    /\ Repeats \subseteq Runs /\ Cancels \subseteq Runs
    /\ NoRun \notin Runs
    /\ RoleWeight \in Nat /\ WaitWeight \in Nat /\ LangPenalty \in Nat
    /\ Saturation \in Nat \ {0} /\ MaxRank \in Nat \ {0}
    /\ MAX_DEQUEUE_ATTEMPTS \in Nat \ {0} /\ MaxTokens \in Nat \ {0}

VARIABLES
    meta,       \* the ids in QUEUE_META_HASH
    age,        \* age[r]: ticks r has waited, up to Saturation; 0 if it does not wait
    enqueuing,  \* runs whose HSET is done and whose LPUSH is not
    requested,  \* runs that have been requested at least once
    notify,     \* length of QUEUE_NOTIFY_LIST
    place,      \* worker: "block", "scan", "take" or "run"
    best,       \* worker: the id it has selected, or runs
    attempts    \* worker: looks at the hash in this dequeue

queueVars == <<meta, age, enqueuing, requested, notify, place, best, attempts>>
-----------------------------------------------------------------------------
(* compute_priority, multiplied by 2 * MaxRank * Saturation, plus the largest
   penalty so that it is a natural number; priority_debug_bonus is 1/2. *)

Scale == 2 * MaxRank * Saturation

\* Mutant: no wait term
compute_priority_NoAgeing(r) ==
    RoleWeight * Saturation * (2 * Rank[r] + IF r \in DebugRuns THEN MaxRank ELSE 0)
    + (IF r \in CppRuns THEN 0 ELSE LangPenalty * Scale)

compute_priority(r) ==
    RoleWeight * Saturation * (2 * Rank[r] + IF r \in DebugRuns THEN MaxRank ELSE 0)
    + WaitWeight * 2 * MaxRank * age[r]
    + (IF r \in CppRuns THEN 0 ELSE LangPenalty * Scale)

\* _select_highest_priority: a tie goes to the first in the order of HGETALL,
\* which Redis does not define.
Highest(r) == r \in meta /\ \A q \in meta : compute_priority(q) <= compute_priority(r)
-----------------------------------------------------------------------------
(* enqueue_execution_sync *)

Held(r) == \E w \in Consumers : best[w] = r

EnqueueHset(r) ==
    /\ r \notin meta /\ r \notin enqueuing /\ ~Held(r)
    /\ r \in Repeats \/ r \notin requested
    /\ meta' = meta \union {r}
    /\ enqueuing' = enqueuing \union {r}
    /\ requested' = requested \union {r}
    /\ UNCHANGED <<age, notify, place, best, attempts>>

EnqueueLpush(r) ==
    /\ r \in enqueuing
    /\ enqueuing' = enqueuing \ {r}
    /\ notify' = IF notify < MaxTokens THEN notify + 1 ELSE notify
    /\ UNCHANGED <<meta, age, requested, place, best, attempts>>

\* Redis fails, or the backend dies, before the LPUSH: the run waits unannounced.
LpushLost(r) ==
    /\ r \in enqueuing
    /\ enqueuing' = enqueuing \ {r}
    /\ UNCHANGED <<meta, age, requested, notify, place, best, attempts>>

\* remove_from_queue, on cancel: the token stays behind.
Remove(r) ==
    /\ r \in Cancels /\ r \in meta
    /\ meta' = meta \ {r}
    /\ age' = [age EXCEPT ![r] = 0]
    /\ UNCHANGED <<enqueuing, requested, notify, place, best, attempts>>

\* A tick is several seconds.  Runs age while some worker is busy with one: if
\* none is, what waits is taken within the tick.
Tick ==
    /\ \E w \in Consumers : place[w] = "run"
    /\ \E r \in meta : age[r] < Saturation
    /\ age' = [r \in Runs |-> IF r \in meta /\ age[r] < Saturation THEN age[r] + 1 ELSE age[r]]
    /\ UNCHANGED <<meta, enqueuing, requested, notify, place, best, attempts>>
-----------------------------------------------------------------------------
(* dequeue_execution and _pop_highest_priority *)

Wake(w) == /\ place' = [place EXCEPT ![w] = "scan"]
           /\ attempts' = [attempts EXCEPT ![w] = 0]

\* BLPOP: a token, or the timeout of a second; both lead to a look at the hash.
Block(w) ==
    /\ place[w] = "block"
    /\ notify' = IF notify > 0 THEN notify - 1 ELSE notify
    /\ Wake(w)
    /\ UNCHANGED <<meta, age, enqueuing, requested, best>>

\* HGETALL and the selection from what it returned
Scan(w) ==
    /\ place[w] = "scan"
    /\ \/ /\ meta = {}
          /\ place' = [place EXCEPT ![w] = "block"]
          /\ UNCHANGED best
       \/ \E r \in meta : /\ Highest(r)
                          /\ best' = [best EXCEPT ![w] = r]
                          /\ place' = [place EXCEPT ![w] = "take"]
    /\ UNCHANGED <<meta, age, enqueuing, requested, notify, attempts>>

\* Mutant: the number HDEL returns is not looked at
TakeWon_Always(w) == TRUE

\* HDEL returned 1
TakeWon(w) == best[w] \in meta

\* This was the last look of the dequeue
GiveUp(w) == attempts[w] + 1 = MAX_DEQUEUE_ATTEMPTS

\* HDEL: the winner runs it, a loser looks again, at most 8 times.
Take(w) ==
    /\ place[w] = "take"
    /\ meta' = meta \ {best[w]}
    /\ age' = [age EXCEPT ![best[w]] = 0]
    /\ \/ /\ TakeWon(w)
          /\ place' = [place EXCEPT ![w] = "run"]
          /\ UNCHANGED <<best, attempts>>
       \/ /\ ~TakeWon(w)
          /\ best' = [best EXCEPT ![w] = NoRun]
          /\ attempts' = [attempts EXCEPT ![w] = @ + 1]
          /\ place' = [place EXCEPT ![w] =
                      IF GiveUp(w) THEN "block" ELSE "scan"]
    /\ UNCHANGED <<enqueuing, requested, notify>>

\* _run_one has returned (or raised); the main loop dequeues again.
Finish(w) ==
    /\ place[w] = "run"
    /\ place' = [place EXCEPT ![w] = "block"]
    /\ best' = [best EXCEPT ![w] = NoRun]
    /\ UNCHANGED <<meta, age, enqueuing, requested, notify, attempts>>
-----------------------------------------------------------------------------
QueueInit ==
    /\ meta = {} /\ enqueuing = {} /\ requested = {} /\ notify = 0
    /\ age = [r \in Runs |-> 0]
    /\ place = [w \in Consumers |-> "block"]
    /\ best = [w \in Consumers |-> NoRun]
    /\ attempts = [w \in Consumers |-> 0]

ConsumerStep(w) == Block(w) \/ Scan(w) \/ Take(w) \/ Finish(w)

QueueNext ==
    \/ \E r \in Runs : EnqueueHset(r) \/ EnqueueLpush(r) \/ LpushLost(r) \/ Remove(r)
    \/ \E w \in Consumers : ConsumerStep(w)
    \/ Tick

QueueSpec == QueueInit /\ [][QueueNext]_queueVars

\* Time passes (runs are not infinitely short), and every worker goes on: a run
\* ends (the sandbox has a time limit) and BLPOP returns after a second.
QueueFairness == SF_queueVars(Tick) /\ \A w \in Consumers : WF_queueVars(ConsumerStep(w))

QueueFairSpec == QueueSpec /\ QueueFairness
-----------------------------------------------------------------------------
\* Types; in a dequeue a worker looks at most MAX_DEQUEUE_ATTEMPTS times
QueueTypeOK ==
    /\ meta \subseteq Runs /\ enqueuing \subseteq Runs /\ requested \subseteq Runs
    /\ age \in [Runs -> 0..Saturation]
    /\ notify \in 0..MaxTokens
    /\ place \in [Consumers -> {"block", "scan", "take", "run"}]
    /\ best \in [Consumers -> Runs \union {NoRun}]
    /\ attempts \in [Consumers -> 0..MAX_DEQUEUE_ATTEMPTS]

\* "No slot is ever handed out twice": of the workers that selected the same
\* run from the same look at the hash, one runs it, and it waits no longer.
NoSlotTwice ==
    \A w \in Consumers : place[w] = "run" =>
        /\ best[w] \notin meta
        /\ \A v \in Consumers \ {w} : place[v] = "run" => best[v] # best[w]

\* config.py keeps the weight of waiting above what role, debug bonus and language
\* are worth together, so that a run that has waited long enough outscores every
\* fresh one.  A wait of x ticks outweighs one of y when it outscores it whatever
\* the rest is.
Outweighs(x, y) ==
    2 * WaitWeight * x > 2 * WaitWeight * y + Saturation * (3 * RoleWeight + 2 * LangPenalty)

\* A worker decides on a look at the hash that is old by the time it takes the run:
\* others may have come, gone, aged and been taken meanwhile.  Still, what it takes
\* passes nobody whose wait outweighs its own.
NobodyIsPassed ==
    \A w \in Consumers :
        place[w] = "take" /\ best[w] \in meta => \A r \in meta : ~Outweighs(age[r], age[best[w]])

\* A run that has waited at most a quarter of what counts
Young(q) == 4 * age[q] <= Saturation

\* What the ageing term guarantees, whatever the roles: when, from some time on,
\* every other waiting run is young (the load is light), r is taken.  Without it
\* (compute_priority, config.py) fresh runs of an owner would pass r for ever.
\* Waking is only an optimisation: this holds if r's token was lost or consumed
\* by another worker.
AgedIsTaken ==
    \A r \in Runs : <>[](\A q \in meta \ {r} : Young(q)) => (r \in meta ~> r \notin meta)
=============================================================================
