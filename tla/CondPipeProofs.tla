-------------------------- MODULE CondPipeProofs ---------------------------
(***************************************************************************)
(* Two small programs of two parties each.                                 *)
(*                                                                         *)
(* The condition variable program: the signal after the unlock comes for   *)
(* every waiter that needs it, and no wakeup lets thread_1 take a 0.       *)
(*                                                                         *)
(* The pager on a pipe, for any number of lines and any pipe: who has      *)
(* which end of the pipe open follows from how far the two processes are,  *)
(* so that the pipe has a reader until the pager ends.                     *)
(***************************************************************************)
EXTENDS CondToggle, PipePager, TLAPS

\* Each thread is at a call of its own loop.
InLoop ==
    /\ pc[0] \in {"create1", "create2", "join"}
    /\ pc[1] \in {"none", "lock", "test", "wait", "asleep", "woken", "copy", "unlock", "sleep"}
    /\ pc[2] \in {"none", "lock", "toggle", "report", "unlock", "signal", "sleep"}
    /\ pc[1] = "none" <=> pc[0] = "create1"
    /\ pc[2] = "none" <=> pc[0] # "join"

\* The mutex is held between the lock and the unlock or the wait, by one thread.
Held ==
    /\ 1 \in owner <=> pc[1] \in {"test", "wait", "copy", "unlock"}
    /\ 2 \in owner <=> pc[2] \in {"toggle", "report", "unlock"}
    /\ ~ (1 \in owner /\ 2 \in owner)

\* What thread_1 has tested stays true as long as it holds the mutex.
Tested == (pc[1] = "wait" => value = 0) /\ (pc[1] = "copy" => value = 1)

CondInv == CondTypeOK /\ InLoop /\ Held /\ Tested /\ NoLostWakeup /\ TakesOne
-----------------------------------------------------------------------------
\* Neither thread runs, and the value is 0.
LEMMA CondInitially == CondInit => CondInv
  BY DEF CondInit, CondInv, CondTypeOK, InLoop, Held, Tested, NoLostWakeup, TakesOne, Threads

\* Every step of main keeps the invariant.
LEMMA CreateKeeps == ASSUME CondInv, Create PROVE CondInv'
  BY DEF CondInv, Create, CondTypeOK, InLoop, Held, Tested, NoLostWakeup, TakesOne, Threads

\* A thread enters or leaves the mutex, and changes nothing that it protects.
LEMMA MutexKeeps ==
    ASSUME CondInv, NEW t \in Threads, Lock(t) \/ Unlock(t) PROVE CondInv'
<1> USE DEF CondInv, CondTypeOK, InLoop, Held, Tested, NoLostWakeup, TakesOne, Threads
<1>1. CASE Lock(t) /\ t = 1
  BY <1>1 DEF Lock, Goto
<1>2. CASE Lock(t) /\ t = 2
  BY <1>2 DEF Lock, Goto
<1>3. CASE Unlock(t) /\ t = 1
  BY <1>3 DEF Unlock, Goto
<1>4. CASE Unlock(t) /\ t = 2
  BY <1>4 DEF Unlock, Goto
<1> QED BY <1>1, <1>2, <1>3, <1>4

\* The steps of thread_1 between them.
LEMMA WaiterKeeps ==
    ASSUME CondInv, Test \/ Wait \/ SpuriousWakeup \/ Copy \/ Loop(1) PROVE CondInv'
<1> USE DEF CondInv, CondTypeOK, InLoop, Held, Tested, NoLostWakeup, TakesOne, Threads
<1>1. CASE Test
  BY <1>1 DEF Test, Goto
<1>2. CASE Wait
  BY <1>2 DEF Wait, Goto
<1>3. CASE SpuriousWakeup
  BY <1>3 DEF SpuriousWakeup, Goto
<1>4. CASE Copy
  BY <1>4 DEF Copy, Goto
<1>5. CASE Loop(1)
  BY <1>5 DEF Loop, Goto
<1> QED BY <1>1, <1>2, <1>3, <1>4, <1>5

\* The steps of thread_2: a toggle to 1 is followed by the signal.
LEMMA TogglerKeeps ==
    ASSUME CondInv, Toggle \/ Report \/ Signal \/ Loop(2) PROVE CondInv'
<1> USE DEF CondInv, CondTypeOK, InLoop, Held, Tested, NoLostWakeup, TakesOne, Threads
<1>1. CASE Toggle
  <2>1. value' \in {0, 1}
    BY <1>1 DEF Toggle
  <2> QED BY <1>1, <2>1 DEF Toggle, Goto
<1>2. CASE Report
  BY <1>2 DEF Report, Goto
<1>3. CASE Signal
  BY <1>3 DEF Signal
<1>4. CASE Loop(2)
  BY <1>4 DEF Loop, Goto
<1> QED BY <1>1, <1>2, <1>3, <1>4

\* The invariant holds in every state.
LEMMA CondInvariance == CondSpec => []CondInv
<1>1. CondInv /\ [CondNext]_condVars => CondInv'
  <2> SUFFICES ASSUME CondInv, [CondNext]_condVars PROVE CondInv'
    OBVIOUS
  <2>1. CASE Create
    BY <2>1, CreateKeeps
  <2>2. CASE Thread1
    BY <2>2, MutexKeeps, WaiterKeeps DEF Thread1, Threads
  <2>3. CASE Thread2
    BY <2>3, MutexKeeps, TogglerKeeps DEF Thread2, Threads
  <2>4. CASE SpuriousWakeup
    BY <2>4, WaiterKeeps
  <2>5. CASE UNCHANGED condVars
    BY <2>5 DEF condVars, CondInv, CondTypeOK, InLoop, Held, Tested, NoLostWakeup, TakesOne
  <2> QED BY <2>1, <2>2, <2>3, <2>4, <2>5 DEF CondNext
<1> QED BY <1>1, CondInitially, PTL DEF CondSpec

\* The value is one bit, whatever ~ does to the others (l.76).
THEOREM CondTypes == CondSpec => []CondTypeOK
<1>1. CondInv => CondTypeOK
  BY DEF CondInv
<1> QED BY <1>1, CondInvariance, PTL

\* No wakeup is lost although thread_2 signals after it has unlocked.
THEOREM WakeupComes == CondSpec => []NoLostWakeup
<1>1. CondInv => NoLostWakeup
  BY DEF CondInv
<1> QED BY <1>1, CondInvariance, PTL

\* However thread_1 was woken, the value it takes is 1.
THEOREM OneTaken == CondSpec => []TakesOne
<1>1. CondInv => TakesOne
  BY DEF CondInv
<1> QED BY <1>1, CondInvariance, PTL
-----------------------------------------------------------------------------
\* The parent keeps its write end until it ends, the child drops its own first.
WriteEnds ==
    /\ "parent" \in writers <=> parent \notin Ended
    /\ "child" \in writers <=> child = "close1"

\* The parent drops its read end before it writes; the child loses the only one
\* that is left if pipe() had returned descriptor 0.
ReadEnds ==
    /\ "parent" \in readers <=> parent \in {"fork", "close"}
    /\ "child" \in readers <=>
         child \in {"close1", "dup2"} \/ (stdin /\ child \in {"exec", "page"})

\* A child exists only after fork, and the parent returns only after the child.
Order ==
    /\ parent = "fork" => child = "none"
    /\ parent = "done" => child \in {"none", "done"}

Inv == TypeOK /\ WriteEnds /\ ReadEnds /\ Order
-----------------------------------------------------------------------------
\* The pipe is new, and the parent has both ends.
LEMMA Initially == Init => Inv
  BY LinesAssumption, CapAssumption
     DEF Init, Inv, TypeOK, WriteEnds, ReadEnds, Order, Ended

\* Every step of the parent, and its death, keep the invariant.
LEMMA ParentKeeps == ASSUME Inv, Parent \/ Crash PROVE Inv'
<1> USE LinesAssumption, CapAssumption
        DEF Inv, TypeOK, WriteEnds, ReadEnds, Order, Ended, Close, ParentDies
<1>1. CASE Fork
  BY <1>1 DEF Fork
<1>2. CASE CloseRead
  BY <1>2 DEF CloseRead
<1>3. CASE Write
  BY <1>3 DEF Write
<1>4. CASE AllWritten
  BY <1>4 DEF AllWritten
<1>5. CASE SigPipe
  BY <1>5 DEF SigPipe
<1>6. CASE Reap
  BY <1>6 DEF Reap
<1>7. CASE Crash
  BY <1>7 DEF Crash
<1> QED BY <1>1, <1>2, <1>3, <1>4, <1>5, <1>6, <1>7 DEF Parent

\* So does every step of the child, the pager that it becomes, and the user.
LEMMA ChildKeeps == ASSUME Inv, Child \/ Quit PROVE Inv'
<1> USE LinesAssumption, CapAssumption
        DEF Inv, TypeOK, WriteEnds, ReadEnds, Order, Ended, Close, PagerEnds
<1>1. CASE CloseWrite
  BY <1>1 DEF CloseWrite
<1>2. CASE Redirect
  BY <1>2 DEF Redirect
<1>3. CASE Exec
  BY <1>3 DEF Exec
<1>4. CASE Page
  BY <1>4 DEF Page
<1>5. CASE EndOfInput
  BY <1>5 DEF EndOfInput
<1>6. CASE Quit
  BY <1>6 DEF Quit
<1> QED BY <1>1, <1>2, <1>3, <1>4, <1>5, <1>6 DEF Child

\* The invariant holds in every state.
LEMMA Invariance == Spec => []Inv
<1>1. Inv /\ [Next]_vars => Inv'
  <2> SUFFICES ASSUME Inv, [Next]_vars PROVE Inv'
    OBVIOUS
  <2>1. CASE UNCHANGED vars
    BY <2>1 DEF vars, Inv, TypeOK, WriteEnds, ReadEnds, Order
  <2> QED BY <2>1, ParentKeeps, ChildKeeps DEF Next, Over
<1> QED BY <1>1, Initially, PTL DEF Spec

\* The pipe is never overfull, and nothing is read that was not written.
THEOREM Types == Spec => []TypeOK
<1>1. Inv => TypeOK
  BY DEF Inv
<1> QED BY <1>1, Invariance, PTL

\* For any number of lines and any pipe: it has a reader until the pager ends,
\* unless pipe() returned descriptor 0 (l.55-57).
THEOREM ReaderStays == Spec => []ReaderUntilEnd
<1>1. Inv => ReaderUntilEnd
  BY DEF Inv, TypeOK, ReadEnds, Ended, ReaderUntilEnd
<1> QED BY <1>1, Invariance, PTL
=============================================================================
