---------------------------- MODULE SharedCounter ---------------------------
(***************************************************************************)
(* 11-10_pthread_mutex, 11-15_pthread_spin and 11-14_pthread_rwlock: main  *)
(* creates the threads, joins them in the same order and destroys the      *)
(* lock.  In a loop, a writer increments shared_data.value and a reader    *)
(* copies it, under the lock; then both compare the value with a limit of  *)
(* their own, without the lock, and leave or sleep and loop.               *)
(*                                                                         *)
(* A mutex, a spin lock and the write side of a rwlock admit one holder;   *)
(* the read side admits readers together.  The increment is a load and a   *)
(* store.  sleep and printf are between the check and the next lock call.  *)
(***************************************************************************)
EXTENDS Integers, FiniteSets

CONSTANTS
    N,          \* threads, created and joined as 1..N
    Writers,    \* those that increment; the others read
    Limit       \* Limit[t]: the value at which t leaves its loop

Threads == 1..N

ASSUME NAssumption == N \in Nat
ASSUME WritersAssumption == Writers # {} /\ Writers \subseteq Threads
ASSUME LimitAssumption == Limit \in [Threads -> Nat \ {0}]

VARIABLES
    value,      \* shared_data.value
    reg,        \* reg[t]: what t loaded to increment it
    ret,        \* ret[t]: the static ret of t, returned to main by join
    holders,    \* the threads that hold the lock
    pc,         \* pc[t]: the next step of t
    main        \* calls made by main: N create, N join, destroy

vars == <<value, reg, ret, holders, pc, main>>

Init ==
    /\ value = 0
    /\ reg = [t \in Threads |-> 0]
    /\ ret = [t \in Threads |-> 0]
    /\ holders = {}
    /\ pc = [t \in Threads |-> "none"]
    /\ main = 0

Goto(t, from, to) == pc[t] = from /\ pc' = [pc EXCEPT ![t] = to]

\* pthread_create
Create ==
    /\ main < N
    /\ main' = main + 1
    /\ Goto(main + 1, "none", "lock")
    /\ UNCHANGED <<value, reg, ret, holders>>

\* Mutant of Lock: the result of a trylock is not looked at.
TryLock(t) ==
    /\ t \in Writers
    /\ Goto(t, "lock", "load")
    /\ holders' = holders \cup {t}
    /\ UNCHANGED <<value, reg, ret, main>>

\* pthread_mutex_lock, pthread_spin_lock, pthread_rwlock_wrlock
Lock(t) ==
    /\ t \in Writers
    /\ Goto(t, "lock", "load")
    /\ holders = {}
    /\ holders' = {t}
    /\ UNCHANGED <<value, reg, ret, main>>

\* pthread_rwlock_rdlock
ReadLock(t) ==
    /\ t \in Threads \ Writers
    /\ Goto(t, "lock", "load")
    /\ holders \cap Writers = {}
    /\ holders' = holders \cup {t}
    /\ UNCHANGED <<value, reg, ret, main>>

\* The load of ++shared_data.value
Load(t) ==
    /\ t \in Writers
    /\ Goto(t, "load", "store")
    /\ reg' = [reg EXCEPT ![t] = value]
    /\ UNCHANGED <<value, ret, holders, main>>

\* The store of ret = ++shared_data.value
Store(t) ==
    /\ Goto(t, "store", "unlock")
    /\ value' = reg[t] + 1
    /\ ret' = [ret EXCEPT ![t] = reg[t] + 1]
    /\ UNCHANGED <<reg, holders, main>>

\* ret = shared_data.value of a reader
Copy(t) ==
    /\ t \notin Writers
    /\ Goto(t, "load", "unlock")
    /\ ret' = [ret EXCEPT ![t] = value]
    /\ UNCHANGED <<value, reg, holders, main>>

\* Mutant of Unlock: an early way out of the loop keeps the lock.
UnlockUnlessLimit(t) ==
    /\ Goto(t, "unlock", "check")
    /\ holders' = IF ret[t] >= Limit[t] THEN holders ELSE holders \ {t}
    /\ UNCHANGED <<value, reg, ret, main>>

Unlock(t) ==
    /\ Goto(t, "unlock", "check")
    /\ holders' = holders \ {t}
    /\ UNCHANGED <<value, reg, ret, main>>

\* Mutant of Check: > instead of >=.
CheckOffByOne(t) ==
    /\ Goto(t, "check", IF value > Limit[t] THEN "done" ELSE "lock")
    /\ UNCHANGED <<value, reg, ret, holders, main>>

\* if (shared_data.value >= limit) break; the lock is not held.
Check(t) ==
    /\ Goto(t, "check", IF value >= Limit[t] THEN "done" ELSE "lock")
    /\ UNCHANGED <<value, reg, ret, holders, main>>

\* Mutant of Join: the thread is detached and the join returns at once.
JoinDetached ==
    /\ main \in N..(2 * N - 1)
    /\ main' = main + 1
    /\ UNCHANGED <<value, reg, ret, holders, pc>>

\* pthread_join returns when the thread has ended.
Join ==
    /\ main \in N..(2 * N - 1)
    /\ pc[main - N + 1] = "done"
    /\ main' = main + 1
    /\ UNCHANGED <<value, reg, ret, holders, pc>>

\* pthread_mutex_destroy, then exit(0).
Destroy ==
    /\ main = 2 * N
    /\ main' = main + 1
    /\ UNCHANGED <<value, reg, ret, holders, pc>>

Ended == main > 2 * N

Step(t) ==
    \/ Lock(t) \/ ReadLock(t) \/ Load(t) \/ Store(t)
    \/ Copy(t) \/ Unlock(t) \/ Check(t)

Main == Create \/ Join \/ Destroy

Next == Main \/ (\E t \in Threads : Step(t)) \/ (Ended /\ UNCHANGED vars)

Spec == Init /\ [][Next]_vars

\* Every thread is scheduled, and a lock hands over to a waiting writer when the
\* readers that have it leave (rwlock l.74-76).
FairSpec ==
    /\ Spec
    /\ WF_vars(Main) /\ \A t \in Threads : WF_vars(Step(t))
    /\ \A t \in Writers : SF_vars(Lock(t))
-----------------------------------------------------------------------------
\* The lock, the threads and main are where their calls can put them.
TypeOK ==
    /\ value \in Nat
    /\ reg \in [Threads -> Nat]
    /\ ret \in [Threads -> Nat]
    /\ holders \subseteq Threads
    /\ pc \in [Threads -> {"none", "lock", "load", "store", "unlock", "check", "done"}]
    /\ main \in 0..(2 * N + 1)

inside == {t \in Writers : pc[t] \in {"load", "store", "unlock"}}

X == INSTANCE Exclusion WITH Procs <- Writers

\* The writers (mutex l.32-34, spin l.32-34, rwlock l.32-34) exclude one another.
LockExclusion == X!Spec

\* No increment is lost: two threads never got the same value from ++value, and
\* none got more than the counter shows.
DistinctReturns ==
    \A t, u \in Writers :
        /\ ret[t] <= value
        /\ t # u /\ ret[t] = ret[u] => ret[t] = 0

\* The check of l.37/l.57 is made without the lock, on a value that others go
\* on incrementing: the counter passes the largest limit, but by less than one
\* for every writer.
Overshoot == \E w \in Writers : value < Limit[w] + Cardinality(Writers)

\* What main prints last (l.85-86): every limit is reached and one of the
\* joined writers returns the final value of the counter.
FinalValue ==
    Ended => /\ \A t \in Threads : value >= Limit[t]
             /\ \E w \in Writers : ret[w] = value

\* The lock is destroyed only when no thread holds it or will ever ask for it.
DestroyUnused == Ended => holders = {} /\ \A t \in Threads : pc[t] = "done"

\* main gets to the end although the threads leave their loops on a value that
\* they read unlocked.
Terminates == <>Ended

\* What the threads bring back, taken together: no increment is lost, and the
\* counter stops where the last of them says it does.
Counted == DistinctReturns /\ Overshoot /\ FinalValue
=============================================================================
