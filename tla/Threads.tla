------------------------------- MODULE Threads -------------------------------
(***************************************************************************)
(* The programs about the life of threads and what they share: 11-02       *)
(* ("create"), 11-04 ("join"), 11-16 ("barrier"), 12-04 ("detach"), 12-13  *)
(* ("key"), 12-14 ("cancel"), 12-17 ("atfork") and 15-35_sem_init ("sem"). *)
(* The variable prog says which one runs, and a thread is the sequence of  *)
(* its calls.                                                              *)
(*                                                                         *)
(* The threads library is external code.  pthread_create may fail, which   *)
(* no program takes care of; a thread id that was never set is undefined.  *)
(* "child" is the only thread of the process that fork makes.              *)
(***************************************************************************)
EXTENDS Integers, Sequences, FiniteSets

Threads == {"main", "t1", "t2", "child"}

VARIABLES
    prog,       \* the program
    at,         \* at[t]: the number of t's next call
    state,      \* state[t]: "none", "failed", "runs" or "over"
    detached,   \* the threads that are detached
    joined,     \* the threads that were joined
    stale,      \* history: threads whose id was used when they were gone
    n,          \* n[t]: what t has counted, read or returns
    got,        \* got[t]: what pthread_join has returned of t
    obj,        \* the barrier or semaphore: "none", "ready", "destroyed"
    arrived,    \* the threads that have come to the barrier
    sem,        \* value of the semaphore
    value,      \* shared_data.value
    once,       \* pthread_once: "new", the thread that runs it, or "done"
    keys,       \* keys created; private_data.key is the last one
    spec,       \* spec[t]: the key under which t has set its buffer, or 0
    freed,      \* the threads for whose buffer buf_destroy was called
    cancels,    \* the threads to which pthread_cancel was sent
    seen,       \* seen[t]: what pthread_kill(t, 0) said at last
    locks,      \* locks[p]: the mutexes that are locked in the process of p
    ended       \* the process: "no", "exit" or "undefined"

life == <<state, detached, joined, stale>>
result == <<n, got>>
shared == <<obj, arrived, sem, value>>
private == <<once, keys, spec, freed>>
cancel == <<cancels, seen>>
threadsVars == <<prog, at, life, result, shared, private, cancel, locks, ended>>

CreateMain == <<"create1", "run", "exit">>
NewThread == <<"run", "end">>

JoinMain == <<"create1", "create2", "join1", "join2", "exit">>

\* The pairs of cleanup_push and cleanup_pop print at most.
JoinThread == <<"set", "run", "end">>

BarrierMain == <<"init", "create1", "create2", "barrier", "join1", "join2", "destroy", "exit">>
BarrierThread == <<"run", "barrier", "end">>

DetachMain == <<"create1", "detach1", "create2", "run", "exit">>

DetachThread == <<"detachself", "run", "end">>

KeyMain == <<"create1", "create2", "once", "buffer", "next", "until", "exit">>
KeyThread == <<"detachself", "run", "once", "buffer", "next", "until", "end">>

\* The two probes of one printf do not depend on each other.
CancelMain ==
    <<"create1", "create2", "probe1", "probe2", "probe1", "probe2", "cancel1", "probe1", "probe2",
      "probe1", "probe2", "cancel2", "probe1", "probe2", "probe1", "probe2", "probe1", "probe2", "exit">>

CancelThread == <<"detachself", "run", "loop">>

ForkMain == <<"create1", "run", "lock1", "lock2", "fork", "unlock1", "unlock2", "run", "exit">>

ForkChild == <<"unlock1", "unlock2", "run", "end">>
ForkThread == <<"detachself", "run", "loop">>

SemMain == <<"init", "create1", "wait", "next", "post", "until", "destroy", "exit">>
SemThread == <<"detachself", "run", "wait", "read", "post", "until", "end">>

Mains == [create |-> CreateMain, join |-> JoinMain, barrier |-> BarrierMain, detach |-> DetachMain,
          key |-> KeyMain, cancel |-> CancelMain, atfork |-> ForkMain, sem |-> SemMain]

Starts == [create |-> NewThread, join |-> JoinThread, barrier |-> BarrierThread, detach |-> DetachThread,
           key |-> KeyThread, cancel |-> CancelThread, atfork |-> ForkThread, sem |-> SemThread]

Body(t) == IF t = "main" THEN Mains[prog] ELSE IF t = "child" THEN ForkChild ELSE Starts[prog]

Pos(t, call) == CHOOSE i \in 1..Len(Body(t)) : Body(t)[i] = call
Passed(t, call) == \E i \in 1..(at[t] - 1) : Body(t)[i] = call

\* The value at which a thread leaves its loop, counted from its first one
\* (0, 100 and 10000 in 12-13, 0 in sem_init).
Last(t) == IF prog = "sem" THEN IF t = "main" THEN 7 ELSE 4
           ELSE IF t = "main" THEN 13 ELSE 10

ThreadsInit ==
    /\ prog \in DOMAIN Mains
    /\ at = [t \in Threads |-> 1]
    /\ state = [t \in Threads |-> IF t = "main" THEN "runs" ELSE "none"]
    /\ detached = {} /\ joined = {} /\ stale = {}
    /\ n = [t \in Threads |-> 0] /\ got = [t \in Threads |-> 0]
    /\ obj = "none" /\ arrived = {} /\ sem = 0 /\ value = 0
    /\ once = "new" /\ keys = 0 /\ spec = [t \in Threads |-> 0] /\ freed = {}
    /\ cancels = {} /\ seen = [t \in Threads |-> "alive"]
    /\ locks = [p \in {"main", "child"} |-> {}]
    /\ ended = "no"
-----------------------------------------------------------------------------
\* The end of the process ends its threads, but not those of its child.
Live(t) == state[t] = "runs" /\ (t = "child" \/ ended = "no")

Calls(t, call) == Live(t) /\ Body(t)[at[t]] = call /\ UNCHANGED prog
Step(t) == at' = [at EXCEPT ![t] = @ + 1]

\* A call that names the first or the second thread or mutex.
Of(x, first, second) == IF x \in {"t1", "1"} THEN first ELSE second

\* t makes a call that is not finished, or that changes nothing but its own part.
Goes(t, call) == Calls(t, call) /\ Step(t) /\ UNCHANGED ended

\* The thread is over, and nothing is left of it that its id could stand for.
Gone(t) == state[t] = "over" /\ t \in detached \cup joined

Run(t) ==
    /\ Goes(t, "run")
    /\ UNCHANGED <<life, result, shared, private, cancel, locks>>

\* The attribute of 12-04 makes t2 a detached thread.
Create(u) ==
    /\ Goes("main", Of(u, "create1", "create2"))
    /\ \E how \in {"runs", "failed"} : state' = [state EXCEPT ![u] = how]
    /\ detached' = IF prog = "detach" /\ u = "t2" THEN detached \cup {u} ELSE detached
    /\ UNCHANGED <<joined, stale, result, shared, private, cancel, locks>>

\* return or pthread_exit; a value under the key is given to buf_destroy.
End(t) ==
    /\ Calls(t, "end") /\ state' = [state EXCEPT ![t] = "over"]
    /\ freed' = IF spec[t] # 0 THEN freed \cup {t} ELSE freed
    /\ UNCHANGED <<at, detached, joined, stale, result, shared, once, keys, spec, cancel, locks, ended>>

Exit == Calls("main", "exit") /\ ended' = "exit"
        /\ UNCHANGED <<at, life, result, shared, private, cancel, locks>>

\* main uses an id that pthread_create has not set, or that names nothing any
\* more, and does not survive it.
NoId(u) ==
    /\ \E call \in Of(u, {"join1", "detach1", "cancel1", "probe1"}, {"join2", "cancel2", "probe2"}) : Calls("main", call)
    /\ state[u] = "failed" \/ Gone(u)
    /\ stale' = IF Gone(u) THEN stale \cup {u} ELSE stale
    /\ ended' = "undefined"
    /\ UNCHANGED <<at, state, detached, joined, result, shared, private, cancel, locks>>

\* main makes a call with the id of u, and survives it.
Uses(u, call) ==
    /\ Goes("main", call) /\ state[u] # "failed"
    /\ stale' = IF Gone(u) THEN stale \cup {u} ELSE stale
    /\ UNCHANGED <<state, shared, private, locks>>

DetachSelf(t) ==
    /\ Goes(t, "detachself") /\ detached' = detached \cup {t}
    /\ UNCHANGED <<state, joined, stale, result, shared, private, cancel, locks>>

\* Of a thread that is detached already it fails with EINVAL.
Detach ==
    /\ Uses("t1", "detach1") /\ detached' = detached \cup {"t1"}
    /\ UNCHANGED <<joined, result, cancel>>

\* Mutant of Join: the end of the thread is not waited for.
JoinNow(u) ==
    /\ Uses(u, Of(u, "join1", "join2"))
    /\ joined' = joined \cup {u} /\ got' = [got EXCEPT ![u] = n[u]]
    /\ UNCHANGED <<detached, n, cancel>>

Join(u) ==
    /\ Uses(u, Of(u, "join1", "join2")) /\ state[u] = "over"
    /\ joined' = joined \cup {u} /\ got' = [got EXCEPT ![u] = n[u]]
    /\ UNCHANGED <<detached, n, cancel>>

\* ret_val, to which the thread's result points: 5 in thread_1, 6 in thread_2.
Set(t) ==
    /\ Goes(t, "set") /\ n' = [n EXCEPT ![t] = IF t = "t1" THEN 5 ELSE 6]
    /\ UNCHANGED <<life, got, shared, private, cancel, locks>>
-----------------------------------------------------------------------------
\* Barrier and semaphore.

\* Mutant of BarrierCount: one more than there are threads.
BarrierCountFour == 4

BarrierCount == 3

InitObject ==
    /\ Goes("main", "init") /\ obj' = "ready" /\ sem' = 1
    /\ UNCHANGED <<life, result, arrived, value, private, cancel, locks>>

Destroy ==
    /\ Goes("main", "destroy") /\ obj' = "destroyed"
    /\ UNCHANGED <<life, result, arrived, sem, value, private, cancel, locks>>

Arrive(t) ==
    /\ Calls(t, "barrier") /\ t \notin arrived /\ arrived' = arrived \cup {t}
    /\ UNCHANGED <<at, life, result, obj, sem, value, private, cancel, locks, ended>>

Pass(t) ==
    /\ Goes(t, "barrier") /\ t \in arrived /\ Cardinality(arrived) >= BarrierCount
    /\ UNCHANGED <<life, result, shared, private, cancel, locks>>

\* Mutant of Wait: sem_trylock is called and what it returns is not looked at.
WaitTries(t) ==
    /\ Goes(t, "wait") /\ sem' = IF sem > 0 THEN sem - 1 ELSE 0
    /\ UNCHANGED <<life, result, obj, arrived, value, private, cancel, locks>>

\* The library's semaphore works on when it is destroyed.
Wait(t) ==
    /\ Goes(t, "wait") /\ sem > 0 /\ sem' = sem - 1
    /\ UNCHANGED <<life, result, obj, arrived, value, private, cancel, locks>>

Post(t) ==
    /\ Goes(t, "post") /\ sem' = sem + 1
    /\ UNCHANGED <<life, result, obj, arrived, value, private, cancel, locks>>

Read(t) ==
    /\ Goes(t, "read") /\ n' = [n EXCEPT ![t] = value]
    /\ UNCHANGED <<life, got, shared, private, cancel, locks>>
-----------------------------------------------------------------------------
\* Thread private data, and the loops of 12-13 and sem_init.

\* Mutant of Once: a flag that is tested before and set after the call.
OnceTwice(t) ==
    /\ Calls(t, "once") /\ UNCHANGED <<life, result, shared, spec, freed, cancel, locks, ended>>
    /\ \/ once = "new" /\ once' = t /\ UNCHANGED <<at, keys>>
       \/ once \notin {"new", "done"} /\ keys' = keys + 1 /\ once' = "done" /\ Step(t)
       \/ once = "done" /\ Step(t) /\ UNCHANGED <<once, keys>>
       \/ once \notin {"new", "done", t} /\ keys' = keys + 1 /\ Step(t) /\ UNCHANGED once

\* The first one to come calls buf_key_init; the others wait until it is done.
Once(t) ==
    /\ Calls(t, "once") /\ UNCHANGED <<life, result, shared, spec, freed, cancel, locks, ended>>
    /\ \/ once = "new" /\ once' = t /\ UNCHANGED <<at, keys>>
       \/ once = t /\ keys' = keys + 1 /\ once' = "done" /\ Step(t)
       \/ once = "done" /\ Step(t) /\ UNCHANGED <<once, keys>>

\* buf_init behind pthread_once: a thread's first buffer, if there is memory.
Buffer(t) ==
    /\ Goes(t, "buffer")
    /\ \E key \in {keys, 0} : spec' = [spec EXCEPT ![t] = key]
    /\ n' = [n EXCEPT ![t] = 0]
    /\ UNCHANGED <<life, got, shared, once, keys, freed, cancel, locks>>

\* buf_get and the increment of what it points to, if it is not a null pointer;
\* in sem_init that of the shared value.
Increment(t) ==
    /\ Calls(t, "next")
    /\ UNCHANGED <<life, got, obj, arrived, sem, private, cancel, locks>>
    /\ IF prog = "key" /\ spec[t] # keys
       THEN ended' = "undefined" /\ UNCHANGED <<at, n, value>>
       ELSE /\ Step(t) /\ UNCHANGED ended
            /\ value' = IF prog = "sem" THEN value + 1 ELSE value
            /\ n' = [n EXCEPT ![t] = IF prog = "sem" THEN value + 1 ELSE @ + 1]

Until(t) ==
    /\ Calls(t, "until")
    /\ at' = [at EXCEPT ![t] = IF n[t] >= Last(t) THEN @ + 1 ELSE Pos(t, IF prog = "sem" THEN "wait" ELSE "next")]
    /\ UNCHANGED <<life, result, shared, private, cancel, locks, ended>>
-----------------------------------------------------------------------------
\* Cancellation, and fork with its handlers.

Cancel(u) ==
    /\ Uses(u, Of(u, "cancel1", "cancel2")) /\ cancels' = cancels \cup {u}
    /\ UNCHANGED <<detached, joined, result, seen>>

\* pthread_kill(u, 0); of an id that nobody has any more it may say anything, if
\* it returns.
Probe(u) ==
    /\ Uses(u, Of(u, "probe1", "probe2"))
    /\ \E says \in {"alive", "die"} :
          /\ Gone(u) \/ says = IF state[u] = "over" THEN "die" ELSE "alive"
          /\ seen' = [seen EXCEPT ![u] = says]
    /\ UNCHANGED <<detached, joined, result, cancels>>

\* printf and sleep are cancellation points; behind the former the thread may
\* be cancelled at any moment.
Cancelled(t) ==
    /\ Live(t) /\ t \in cancels /\ Body(t)[at[t]] \in {"run", "loop"}
    /\ state' = [state EXCEPT ![t] = "over"]
    /\ UNCHANGED <<prog, at, detached, joined, stale, result, shared, private, cancel, locks, ended>>

Process(t) == IF t = "child" THEN "child" ELSE "main"

LockMutex(t, m) ==
    /\ Goes(t, Of(m, "lock1", "lock2")) /\ m \notin locks[Process(t)]
    /\ locks' = [locks EXCEPT ![Process(t)] = @ \cup {m}]
    /\ UNCHANGED <<life, result, shared, private, cancel>>

UnlockMutex(t, m) ==
    /\ Goes(t, Of(m, "unlock1", "unlock2")) /\ locks' = [locks EXCEPT ![Process(t)] = @ \ {m}]
    /\ UNCHANGED <<life, result, shared, private, cancel>>

\* The child has one thread and the mutexes as they are; when fork fails main goes
\* on, through parent_func too.
Fork ==
    /\ Goes("main", "fork")
    /\ \/ /\ state' = [state EXCEPT !["child"] = "runs"]
          /\ locks' = [locks EXCEPT !["child"] = locks["main"]]
       \/ state' = [state EXCEPT !["child"] = "failed"] /\ UNCHANGED locks
    /\ UNCHANGED <<detached, joined, stale, result, shared, private, cancel>>
-----------------------------------------------------------------------------
Thread(t) ==
    \/ Run(t) \/ End(t) \/ DetachSelf(t) \/ Set(t) \/ Arrive(t) \/ Pass(t) \/ Post(t) \/ Read(t)
    \/ Once(t) \/ Buffer(t) \/ Increment(t) \/ Until(t) \/ Cancelled(t)
    \/ \E m \in {"1", "2"} : LockMutex(t, m) \/ UnlockMutex(t, m)
    \/ t = "main" /\ (Exit \/ InitObject \/ Destroy \/ Fork \/ Detach)
    \/ t = "main" /\ \E u \in {"t1", "t2"} :
          Create(u) \/ NoId(u) \/ Join(u) \/ Cancel(u) \/ Probe(u)

\* A thread of the process waits for others, or for a cancellation.
Waits(t) == Live(t) /\ Body(t)[at[t]] \in {"barrier", "wait", "loop", "join1", "join2", "lock1", "lock2"}

Idle ==
    /\ (ended # "no" /\ state["child"] # "runs") \/ \E t \in Threads : Waits(t)
    /\ UNCHANGED threadsVars

ThreadsNext == (\E t \in Threads : Thread(t) \/ Wait(t)) \/ Idle

ThreadsSpec == ThreadsInit /\ [][ThreadsNext]_threadsVars

\* Every thread runs; the loops sleep outside of the semaphore, so a thread that
\* waits for it gets it in the end.
FairThreadsSpec == ThreadsSpec /\ \A t \in Threads : WF_threadsVars(Thread(t)) /\ SF_threadsVars(Wait(t))
-----------------------------------------------------------------------------
\* No loop counts further than its last value.
ThreadsTypeOK ==
    /\ prog \in DOMAIN Mains
    /\ at \in [Threads -> 1..Len(CancelMain)] /\ \A t \in Threads : at[t] <= Len(Body(t))
    /\ state \in [Threads -> {"none", "failed", "runs", "over"}]
    /\ detached \subseteq Threads /\ joined \subseteq Threads /\ stale \subseteq Threads
    /\ n \in [Threads -> 0..13] /\ (prog \in {"key", "sem"} => n["main"] <= Last("main"))
    /\ got \in [Threads -> {0, 5, 6}]
    /\ obj \in {"none", "ready", "destroyed"} /\ arrived \subseteq Threads
    /\ sem \in 0..1 /\ value \in 0..7
    /\ once \in Threads \cup {"new", "done"} /\ keys \in 0..3 /\ spec \in [Threads -> 0..3]
    /\ freed \subseteq Threads /\ cancels \subseteq Threads /\ seen \in [Threads -> {"alive", "die"}]
    /\ locks \in [{"main", "child"} -> SUBSET {"1", "2"}]
    /\ ended \in {"no", "exit", "undefined"}

\* The result of a thread is read when the thread is over and has set it
\* (11-04 l.63-66): main prints 5 and 6.
JoinGets == prog = "join" => \A t \in joined : state[t] = "over" /\ got[t] = IF t = "t1" THEN 5 ELSE 6

\* An id is used after its thread has gone only where the thread has detached
\* itself and main goes on to use it: pthread_detach in 12-04 l.54, and
\* pthread_kill in 12-14 l.83 of a thread that was cancelled.
StaleIds ==
    \A t \in stale : (prog = "detach" /\ t = "t1") \/ (prog = "cancel" /\ t \in cancels)

\* What a thread leaves behind is given back while the program goes on (except
\* in 11-02): it is detached or was joined when the process ends, and its
\* buffer was freed when it ended (12-13 l.25-29, l.45).
Reclaimed ==
    \A t \in {"t1", "t2"} :
        /\ ended = "exit" /\ state[t] = "over" => prog = "create" \/ t \in detached \cup joined
        /\ prog = "key" /\ state[t] = "over" => t \in freed

\* Nobody goes on behind the barrier before all three are there (11-16 l.55).
Together ==
    prog = "barrier" /\ (\E t \in Threads : Passed(t, "barrier")) => arrived = {"main", "t1", "t2"}

\* A barrier or semaphore is not used when it is destroyed, except when the
\* detached thread of sem_init has fallen behind main (l.126): it has not read
\* a value from 4 on.
UsedWhileReady ==
    obj # "ready" => \A t \in Threads :
        Live(t) /\ Body(t)[at[t]] \in {"barrier", "wait", "post"} =>
            prog = "sem" /\ t = "t1" /\ (n[t] < Last(t) \/ Body(t)[at[t]] = "post")

\* No thread looks for its buffer under a key that is not the one under which it
\* has set it (12-13 l.53-60): undefined is only the use of an id that was never
\* set or is stale, and of a buffer for which there was no memory.
OneKey ==
    /\ keys <= 1
    /\ ended = "undefined" =>
          \/ stale # {} \/ \E t \in {"t1", "t2"} : state[t] = "failed"
          \/ \E t \in Threads : prog = "key" /\ Passed(t, "buffer") /\ spec[t] = 0

\* The threads of 12-14 live until they are cancelled, and that is what main sees.
AliveUntilCancelled ==
    prog = "cancel" => \A t \in {"t1", "t2"} : state[t] = "over" \/ seen[t] = "die" => t \in cancels

\* fork leaves no mutex locked, neither in the parent nor in the child, which
\* has no thread that could unlock it later (12-17 l.21-40).
LocksFree ==
    /\ ended = "exit" => locks["main"] = {}
    /\ state["child"] = "over" => locks["child"] = {}

Guarded == IF prog = "sem" THEN {t \in Threads : state[t] = "runs" /\ Body(t)[at[t]] \in {"next", "read", "post"}} ELSE {}

Semaphore == INSTANCE Exclusion WITH Procs <- Threads, inside <- Guarded

\* The calls of the semaphore keep the two threads of sem_init apart, and the
\* semaphore goes on to do so when it has been destroyed (l.77-127).
SemExclusion == Semaphore!Spec

\* Every program ends, unless a thread that it relies on could not be created,
\* and so does the child that was forked.
Finishes ==
    /\ <>(ended # "no" \/ \E t \in {"t1", "t2"} : state[t] = "failed")
    /\ state["child"] = "runs" ~> state["child"] = "over"

\* What the threads share is there, and whole, when they use it.
Safety == ThreadsTypeOK /\ Together /\ UsedWhileReady /\ OneKey /\ LocksFree

\* What main knows of a thread, and what is left of it, when it has ended.
AfterTheEnd == JoinGets /\ StaleIds /\ Reclaimed /\ AliveUntilCancelled
=============================================================================
