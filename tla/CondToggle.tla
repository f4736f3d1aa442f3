----------------------------- MODULE CondToggle -----------------------------
(***************************************************************************)
(* 11-15_pthread_cond: thread_2 toggles my_data.cond_value under the mutex *)
(* and signals the condition after it has unlocked; thread_1 waits on the  *)
(* condition while the value is 0 and copies it when it is not.  Neither   *)
(* loop ends, so main stays in its first join.                             *)
(*                                                                         *)
(* The condition is external code: pthread_cond_wait releases the mutex    *)
(* and starts to sleep in one step, a signal wakes thread_1 if it sleeps   *)
(* and is lost otherwise, a sleeper may also wake for no reason, and it    *)
(* takes the mutex again before it returns.                                *)
(***************************************************************************)
EXTENDS Integers

VARIABLES
    value,      \* my_data.cond_value
    owner,      \* the threads that hold my_data.mutex
    pc,         \* pc[t]: the next step of t; main is thread 0
    ret         \* ret[t]: the static ret of t

condVars == <<value, owner, pc, ret>>

Threads == {1, 2}

CondInit ==
    /\ value = 0
    /\ owner = {}
    /\ pc = [t \in 0..2 |-> IF t = 0 THEN "create1" ELSE "none"]
    /\ ret = [t \in Threads |-> 0]

Goto(t, from, to) == pc[t] = from /\ pc' = [pc EXCEPT ![t] = to]

\* main creates both threads and joins thread_1, which never returns.
Create ==
    /\ \/ pc[0] = "create1" /\ pc' = [pc EXCEPT ![0] = "create2", ![1] = "lock"]
       \/ pc[0] = "create2" /\ pc' = [pc EXCEPT ![0] = "join", ![2] = "lock"]
    /\ UNCHANGED <<value, owner, ret>>

\* pthread_mutex_lock, on entry of either loop or inside pthread_cond_wait.
Lock(t) ==
    /\ \/ t = 1 /\ (Goto(t, "lock", "test") \/ Goto(t, "woken", "test"))
       \/ t = 2 /\ Goto(t, "lock", "toggle")
    /\ owner = {}
    /\ owner' = {t}
    /\ UNCHANGED <<value, ret>>

Unlock(t) ==
    /\ \/ t = 1 /\ Goto(t, "unlock", "sleep")
       \/ t = 2 /\ Goto(t, "unlock", "signal")
    /\ owner' = owner \ {t}
    /\ UNCHANGED <<value, ret>>

\* Mutant of Test: if instead of while, the value is not looked at again.
TestOnce == Goto(1, "test", "copy") /\ UNCHANGED <<value, owner, ret>>

\* while (my_data.cond_value == 0)
Test ==
    /\ Goto(1, "test", IF value = 0 THEN "wait" ELSE "copy")
    /\ UNCHANGED <<value, owner, ret>>

\* pthread_cond_wait
Wait ==
    /\ Goto(1, "wait", "asleep")
    /\ owner' = owner \ {1}
    /\ UNCHANGED <<value, ret>>

\* pthread_cond_wait wakes without a signal.
SpuriousWakeup == Goto(1, "asleep", "woken") /\ UNCHANGED <<value, owner, ret>>

\* ret = my_data.cond_value of thread_1
Copy ==
    /\ Goto(1, "copy", "unlock")
    /\ ret' = [ret EXCEPT ![1] = value]
    /\ UNCHANGED <<value, owner>>

\* Mutant of Toggle: ~cond_value without & 1.
ToggleUnmasked ==
    /\ Goto(2, "toggle", "report")
    /\ value' = -1 - value
    /\ UNCHANGED <<owner, ret>>

\* Mutant of Toggle: the value is set and never cleared.
ToggleOnce ==
    /\ Goto(2, "toggle", "report")
    /\ value' = 1
    /\ UNCHANGED <<owner, ret>>

\* my_data.cond_value = (~my_data.cond_value)&1
Toggle ==
    /\ Goto(2, "toggle", "report")
    /\ value' = 1 - value
    /\ UNCHANGED <<owner, ret>>

\* ret = my_data.cond_value of thread_2
Report ==
    /\ Goto(2, "report", "unlock")
    /\ ret' = [ret EXCEPT ![2] = value]
    /\ UNCHANGED <<value, owner>>

\* Mutant of Signal: the call is missing.
NoSignal == Goto(2, "signal", "sleep") /\ UNCHANGED <<value, owner, ret>>

\* pthread_cond_signal, the mutex not held.
Signal ==
    /\ pc[2] = "signal"
    /\ pc' = [pc EXCEPT ![2] = "sleep", ![1] = IF @ = "asleep" THEN "woken" ELSE @]
    /\ UNCHANGED <<value, owner, ret>>

\* sleep(1) and sleep(5) end.
Loop(t) == Goto(t, "sleep", "lock") /\ UNCHANGED <<value, owner, ret>>

Thread1 == Lock(1) \/ Test \/ Wait \/ Copy \/ Unlock(1) \/ Loop(1)
Thread2 == Lock(2) \/ Toggle \/ Report \/ Unlock(2) \/ Signal \/ Loop(2)

CondNext == Create \/ Thread1 \/ Thread2 \/ SpuriousWakeup

CondSpec == CondInit /\ [][CondNext]_condVars

\* The threads are scheduled; a mutex that is released again and again is
\* obtained in the end, because both loops sleep for seconds without it.
FairCondSpec ==
    /\ CondSpec
    /\ WF_condVars(Create) /\ WF_condVars(Thread1) /\ WF_condVars(Thread2)
    /\ SF_condVars(Lock(1)) /\ SF_condVars(Lock(2))
-----------------------------------------------------------------------------
\* Variables stay in range, and cond_value is one bit.
CondTypeOK ==
    /\ value \in {0, 1}
    /\ owner \subseteq Threads
    /\ pc \in [0..2 -> {"create1", "create2", "join", "none", "lock", "test", "wait",
                        "asleep", "woken", "copy", "toggle", "report", "unlock",
                        "signal", "sleep"}]
    /\ ret \in [Threads -> {0, 1}]

\* No wakeup is lost although the signal is sent after the unlock (l.78-79):
\* when thread_1 sleeps and the value is 1, thread_2 has its signal to send.
NoLostWakeup ==
    pc[1] = "asleep" /\ value = 1 => pc[2] \in {"report", "unlock", "signal"}

\* l.34-58: however often pthread_cond_wait returns for no reason or too late,
\* thread_1 takes the value only when it is 1, and it is still 1 then.
TakesOne == pc[1] = "unlock" => ret[1] = 1 /\ value = 1

\* thread_1 never sleeps for ever: the next toggle or the one after wakes it.
WakesUp == pc[1] = "asleep" ~> pc[1] = "test"

\* thread_2 is never held up by the waiting thread_1.
KeepsToggling == []<>(value = 0) /\ []<>(value = 1)

\* Neither loop comes to a stand, whatever signals are lost or late (l.29-63,
\* l.71-83).
KeepsGoing == WakesUp /\ KeepsToggling
=============================================================================
