--------------------------- MODULE PidThreadProofs --------------------------
(***************************************************************************)
(* Two components that have nothing to do with one another; their names    *)
(* are disjoint.                                                           *)
(*                                                                         *)
(* PidFile, for any set of instances and pids of any length: until a call  *)
(* fails, the daemons exclude one another and the file names the one that  *)
(* runs.                                                                   *)
(*                                                                         *)
(* Threads, for its eight programs: what the threads share is whole when   *)
(* it is used, what main knows of a thread that has ended is true, and the *)
(* semaphore excludes.                                                     *)
(***************************************************************************)
EXTENDS PidFile, Threads, SequenceTheorems, FiniteSetTheorems, TLAPS

(***************************************************************************)
(* The daemon that runs once                                               *)
(***************************************************************************)
\* Nobody is past the lock call without the lock, which has one owner.
Locked ==
    /\ \A p \in Procs : Past(p) => p \in locker
    /\ \A p, q \in locker : p = q

\* How far the owner has come with the file.
Filled ==
    \A p \in Procs :
        /\ pc[p] = "write" => content = <<>>
        /\ pc[p] = "pause" => content = Text(p)

Inv == TypeOK /\ (~failed => Locked /\ Filled)
-----------------------------------------------------------------------------
\* The bytes of a pid are a sequence, as long as the pid.
LEMMA TextIsSeq ==
    ASSUME NEW p \in Procs \cup {Old}
    PROVE  /\ Text(p) \in Seq(Procs \cup {Old})
           /\ Len(Text(p)) = Length[p] /\ Length[p] \in Nat \ {0}
<1>1. Length[p] \in Nat \ {0}
    BY LengthAssumption
<1> QED BY <1>1 DEF Text

\* Whatever the file held, it still holds bytes of processes after a write.
LEMMA OverlayIsSeq ==
    ASSUME NEW S, NEW t \in Seq(S), NEW c \in Seq(S)
    PROVE  Overlay(t, c) \in Seq(S)
<1> DEFINE len == IF Len(t) < Len(c) THEN Len(c) ELSE Len(t)
<1>1. len \in Nat
    OBVIOUS
<1>2. \A i \in 1..len : (IF i <= Len(t) THEN t[i] ELSE c[i]) \in S
    OBVIOUS
<1>3. [i \in 1..len |-> IF i <= Len(t) THEN t[i] ELSE c[i]] \in Seq(S)
    BY <1>1, <1>2
<1> QED BY <1>3 DEF Overlay

\* A pid written to an empty file is all there is in the file.
LEMMA OverlayEmpty ==
    ASSUME NEW p \in Procs
    PROVE  Overlay(Text(p), <<>>) = Text(p) /\ Text(p) \in Seq(Procs \cup {Old})
<1>1. Length[p] \in Nat \ {0} /\ Len(Text(p)) = Length[p]
    BY TextIsSeq
<1>2. Overlay(Text(p), <<>>) = [i \in 1..Length[p] |-> Text(p)[i]]
    BY <1>1 DEF Overlay
<1> QED BY <1>1, <1>2, TextIsSeq DEF Text

\* The types and the link between lock and control survive failing calls too.
LEMMA TypesPreserved == ASSUME TypeOK, [Next]_vars PROVE TypeOK'
<1> USE DEF TypeOK, Past, Goto
<1>1. \A p \in Procs : Text(p) \in Seq(Procs \cup {Old})
  <2> TAKE p \in Procs
  <2> QED BY TextIsSeq
<1>2. ASSUME NEW p \in Procs, Open(p) PROVE TypeOK'
    BY <1>2 DEF Open
<1>3. ASSUME NEW p \in Procs, Lock(p) \/ AlreadyRunning(p) \/ LockFails(p)
      PROVE  TypeOK'
    BY <1>3 DEF Lock, AlreadyRunning, LockFails
<1>4. ASSUME NEW p \in Procs, Truncate(p) PROVE TypeOK'
  <2>1. content' \in Seq(Procs \cup {Old})
    BY <1>4, EmptySeq DEF Truncate
  <2> QED BY <1>4, <2>1 DEF Truncate
<1>5. ASSUME NEW p \in Procs, WritePid(p) PROVE TypeOK'
  <2>1. Overlay(Text(p), content) \in Seq(Procs \cup {Old})
    BY <1>1, OverlayIsSeq
  <2> QED BY <1>5, <2>1 DEF WritePid
<1>6. ASSUME NEW p \in Procs, Kill(p) PROVE TypeOK'
    BY <1>6 DEF Kill
<1>7. CASE UNCHANGED vars
    BY <1>7 DEF vars
<1> QED
    BY <1>2, <1>3, <1>4, <1>5, <1>6, <1>7 DEF Next, Start, Rest

\* Until a call fails every step keeps the owner unique and the file his.
LEMMA Preserved == ASSUME Inv, [Next]_vars PROVE Inv'
<1> USE DEF Locked, Filled, Past, Goto
<1>1. TypeOK /\ TypeOK'
    BY TypesPreserved DEF Inv
<1>2. failed \/ (Locked /\ Filled)
    BY DEF Inv
<1> SUFFICES ASSUME ~failed' PROVE Locked' /\ Filled'
    BY <1>1 DEF Inv
<1>3. ~failed
    BY DEF Next, Start, Open, Lock, AlreadyRunning, LockFails, Truncate, WritePid,
           Kill, Rest, vars
<1>4. Locked /\ Filled
    BY <1>2, <1>3
<1> USE <1>4 DEF TypeOK
<1>5. ASSUME NEW p \in Procs, Open(p) PROVE Locked' /\ Filled'
    BY <1>1, <1>5 DEF Open
<1>6. ASSUME NEW p \in Procs, Lock(p) \/ AlreadyRunning(p) PROVE Locked' /\ Filled'
    BY <1>1, <1>6 DEF Lock, AlreadyRunning
<1>7. ASSUME NEW p \in Procs, Truncate(p) PROVE Locked' /\ Filled'
  <2>1. content' = <<>> /\ UNCHANGED <<locker, fd>> /\ Goto(p, "truncate", "write")
    BY <1>7 DEF Truncate
  <2>2. \A q \in Procs : pc'[q] # "pause" \/ q = p
    BY <1>1, <2>1
  <2> QED BY <1>1, <2>1, <2>2
<1>8. ASSUME NEW p \in Procs, WritePid(p) PROVE Locked' /\ Filled'
  <2>1. content = <<>> /\ Goto(p, "write", "pause") /\ UNCHANGED <<locker, fd>>
    BY <1>8 DEF WritePid
  <2>2. content' = Text(p)
    BY <1>8, <2>1, OverlayEmpty DEF WritePid
  <2>3. \A q \in Procs : q = p \/ ~Past(q)'
    BY <1>1, <2>1
  <2> QED BY <1>1, <2>1, <2>2, <2>3
<1>9. ASSUME NEW p \in Procs, Kill(p) PROVE Locked' /\ Filled'
    BY <1>1, <1>9 DEF Kill
<1>10. CASE UNCHANGED vars
    BY <1>10 DEF vars
<1> QED
    BY <1>5, <1>6, <1>7, <1>8, <1>9, <1>10 DEF Next, Start, Rest, LockFails

\* The inductive invariant.
LEMMA Invariance == Spec => []Inv
<1>1. Init => Inv
  <2> SUFFICES ASSUME Init PROVE Inv
      OBVIOUS
  <2>1. Text(Old) \in Seq(Procs \cup {Old})
    BY TextIsSeq
  <2>2. content \in Seq(Procs \cup {Old})
    BY <2>1, EmptySeq DEF Init
  <2> QED BY <2>2 DEF Init, Inv, TypeOK, Locked, Filled, Past
<1>2. Inv /\ [Next]_vars => Inv'
    BY Preserved
<1> QED BY <1>1, <1>2, PTL DEF Spec

\* Until a call fails, a running daemon's pid, and nothing else, is in the file.
THEOREM FileNames == Spec => []FileNamesDaemon
<1>1. Inv => FileNamesDaemon
    BY DEF Inv, Filled, FileNamesDaemon
<1> QED BY <1>1, Invariance, PTL

\* Only a live instance that has the file open holds the lock.
THEOREM Types == Spec => []TypeOK
<1>1. Inv => TypeOK
    BY DEF Inv
<1> QED BY <1>1, Invariance, PTL

\* Until a call fails, the instances past the lock call are never two.
THEOREM Exclusive == Spec => DaemonExclusion
<1>1. Init => X!Init
    BY DEF Init, X!Init, inside, Past
<1>2. Inv /\ Inv' /\ [Next]_vars => [X!Next]_inside
  <2> SUFFICES ASSUME Inv, Inv', [Next]_vars PROVE X!Next \/ inside' = inside
      OBVIOUS
  <2>1. inside = {} \/ \E p \in Procs : inside = {p}
    BY DEF Inv, Locked, inside
  <2>2. CASE failed'
    <3>1. inside' = {}
      BY <2>2 DEF inside
    <3> QED BY <2>1, <3>1 DEF X!Next, X!Leave
  <2>3. CASE ~failed'
    <3> USE <2>3 DEF Inv, TypeOK, Locked, inside, Past, Goto
    <3>1. ~failed
      BY DEF Next, Start, Open, Lock, AlreadyRunning, LockFails, Truncate, WritePid,
             Kill, Rest, vars
    <3> USE <3>1
    <3>2. ASSUME NEW p \in Procs, Lock(p) PROVE X!Next
      <4>1. inside = {} /\ inside' = {p}
        BY <3>2 DEF Lock
      <4> QED BY <4>1 DEF X!Next, X!Enter
    <3>3. ASSUME NEW p \in Procs, Kill(p) PROVE X!Next \/ inside' = inside
      <4>1. CASE Past(p)
        <5>1. inside = {p} /\ inside' = {}
          BY <3>3, <4>1 DEF Kill
        <5> QED BY <5>1 DEF X!Next, X!Leave
      <4>2. CASE ~Past(p)
        BY <3>3, <4>2 DEF Kill
      <4> QED BY <4>1, <4>2
    <3>4. ASSUME NEW p \in Procs, Open(p) \/ AlreadyRunning(p) \/ Truncate(p) \/ WritePid(p)
          PROVE  inside' = inside
      BY <3>4 DEF Open, AlreadyRunning, Truncate, WritePid
    <3>5. CASE UNCHANGED vars
      BY <3>5 DEF vars
    <3> QED BY <3>2, <3>3, <3>4, <3>5 DEF Next, Start, LockFails, Rest
  <2> QED BY <2>2, <2>3
<1> QED BY <1>1, <1>2, Invariance, PTL DEF Spec, X!Spec, DaemonExclusion

\* Failing calls or not, an instance exits only because another one has the lock,
\* and that one has not exited: not all are turned away.
THEOREM SomeRuns == Spec => []OneRuns
<1> DEFINE Stays == \E p \in Procs : pc[p] # "exited"
<1>1. Init => Stays
  BY ProcsAssumption DEF Init
<1>2. Inv /\ Stays /\ [Next]_vars => Stays'
  <2> SUFFICES ASSUME Inv, Stays, [Next]_vars PROVE Stays'
    OBVIOUS
  <2> USE DEF Inv, TypeOK
  <2>1. ASSUME NEW p \in Procs, AlreadyRunning(p) PROVE Stays'
    <3>1. PICK q \in locker : Past(q)
      BY <2>1 DEF AlreadyRunning
    <3>2. q \in Procs /\ pc'[q] = pc[q] /\ pc[q] # "exited"
      BY <2>1, <3>1 DEF AlreadyRunning, Goto, Past
    <3> QED BY <3>2
  <2>2. ASSUME NEW p \in Procs,
               Open(p) \/ Lock(p) \/ LockFails(p) \/ Truncate(p) \/ WritePid(p) \/ Kill(p)
        PROVE  Stays'
    <3>1. pc'[p] # "exited"
      BY <2>2 DEF Open, Lock, LockFails, Truncate, WritePid, Kill, Goto
    <3> QED BY <3>1
  <2>3. CASE UNCHANGED vars
    BY <2>3 DEF vars
  <2> QED BY <2>1, <2>2, <2>3 DEF Next, Start, Rest
<1>3. Stays => OneRuns
  BY DEF OneRuns
<1> QED BY <1>1, <1>2, <1>3, Invariance, PTL DEF Spec

(***************************************************************************)
(* Threads                                                                 *)
(*                                                                         *)
(* The invariant says of every program where its threads may be when, and  *)
(* what has been done to what they share by then.  The texts of the        *)
(* programs are used through Located alone, which says where a call stands.*)
(***************************************************************************)
\* The two threads that main creates, and those that share a barrier or a key.
Two == {"t1", "t2"}
Three == {"main", "t1", "t2"}

Progs == {"create", "join", "barrier", "detach", "key", "cancel", "atfork", "sem"}

\* The places of a text's last call.
MainLast ==
    IF prog = "create" THEN 3 ELSE IF prog \in {"join", "detach"} THEN 5 ELSE IF prog = "key" THEN 7
    ELSE IF prog \in {"barrier", "sem"} THEN 8 ELSE IF prog = "atfork" THEN 9 ELSE 19
ThreadLast == IF prog = "create" THEN 2 ELSE IF prog \in {"key", "sem"} THEN 7 ELSE 3
EndOf(t) == IF t = "main" THEN MainLast ELSE IF t = "child" THEN 4 ELSE ThreadLast

\* The variables, with the texts replaced by their lengths.
ThreadsValues ==
    /\ prog \in Progs /\ at \in [Threads -> Nat] /\ \A t \in Threads : at[t] \in 1..EndOf(t)
    /\ state \in [Threads -> {"none", "failed", "runs", "over"}]
    /\ detached \subseteq Threads /\ joined \subseteq Threads /\ stale \subseteq Threads
    /\ n \in [Threads -> 0..13] /\ got \in [Threads -> {0, 5, 6}]
    /\ obj \in {"none", "ready", "destroyed"} /\ arrived \subseteq Threads /\ sem \in 0..1 /\ value \in 0..7
    /\ once \in Threads \cup {"new", "done"} /\ keys \in 0..1 /\ spec \in [Threads -> 0..1]
    /\ freed \subseteq Threads /\ cancels \subseteq Threads /\ seen \in [Threads -> {"alive", "die"}]
    /\ locks \in [{"main", "child"} -> SUBSET {"1", "2"}]
    /\ ended \in {"no", "exit", "undefined"}

\* When a thread is created, and where it is when it is over.
Born(t) ==
    IF t = "t1" THEN at["main"] > IF prog \in {"barrier", "sem"} THEN 2 ELSE 1
    ELSE IF t = "child" THEN prog = "atfork" /\ at["main"] > 5
    ELSE prog \notin {"create", "atfork", "sem"} /\ at["main"] > IF prog \in {"barrier", "detach"} THEN 3 ELSE 2

Lives ==
    /\ state["main"] = "runs"
    /\ \A t \in Two \cup {"child"} :
          /\ state[t] # "none" <=> Born(t)
          /\ state[t] \in {"none", "failed"} => at[t] = 1
          /\ state[t] = "over" => IF prog = "cancel" THEN t \in cancels /\ at[t] > 1 ELSE at[t] = EndOf(t)
    /\ cancels \subseteq IF prog = "cancel" THEN Two ELSE {}

\* How the process has ended, if it has.
Ended ==
    /\ ended = "exit" => at["main"] = MainLast
    /\ ended = "undefined" =>
          \/ stale # {} \/ \E t \in Two : state[t] = "failed"
          \/ \E t \in Three : prog = "key" /\ at[t] > 4 /\ spec[t] = 0

\* A thread that detaches itself has done so first; an id is stale only where
\* one of two goes on without the other.
Detached ==
    /\ prog \in {"join", "barrier"} => detached = {} /\ stale = {}
    /\ prog \in {"detach", "key", "cancel", "atfork", "sem"} => \A t \in Two : at[t] > 1 => t \in detached
    /\ stale \subseteq IF prog = "detach" THEN {"t1"} ELSE IF prog = "cancel" THEN cancels ELSE {}
    /\ \A t \in Two : prog = "cancel" /\ seen[t] = "die" => t \in cancels

\* main has joined the threads that it is past; 11-04 has got their results.
JoinAt(t) == IF prog = "join" THEN IF t = "t1" THEN 3 ELSE 4 ELSE IF t = "t1" THEN 5 ELSE 6
Result(t) == IF t = "t1" THEN 5 ELSE 6

Results ==
    /\ prog \in {"join", "barrier"} =>
          /\ \A t \in Threads : t \in joined <=> t \in Two /\ at["main"] > JoinAt(t)
          /\ \A t \in joined : state[t] = "over"
    /\ prog \notin {"join", "barrier"} => joined = {}
    /\ \A t \in Threads : got[t] = IF prog = "join" /\ t \in joined THEN Result(t) ELSE 0
    /\ prog \notin {"join", "key", "sem"} => \A t \in Threads : n[t] = 0
    /\ prog = "join" => \A t \in Threads : n[t] = IF t \in Two /\ at[t] > 1 THEN Result(t) ELSE 0

\* The barrier and the semaphore are there while main is between init and destroy.
Object == prog \in {"barrier", "sem"} =>
    obj = IF at["main"] = 1 THEN "none" ELSE IF at["main"] = MainLast THEN "destroyed" ELSE "ready"

Barrier == prog = "barrier" =>
    /\ arrived \subseteq Three
    /\ at["main"] > 4 \/ (\E t \in Two : at[t] > 2) => arrived = Three

\* The key is created by the first one to come, before anybody goes on.
Key ==
    /\ prog # "key" => once = "new" /\ keys = 0 /\ \A t \in Threads : spec[t] = 0
    /\ prog = "key" =>
          /\ keys = IF once = "done" THEN 1 ELSE 0
          /\ once \notin {"new", "done"} => once \in Three
          /\ \A t \in Three :
                /\ at[t] > 3 => once = "done"
                /\ at[t] < 5 => spec[t] = 0
                /\ at[t] > 5 => spec[t] = 1
                /\ n[t] <= Last(t) /\ (at[t] < 6 => n[t] < Last(t))
                /\ state[t] = "over" => t \in freed

\* The semaphore is down while one of the two is between wait and post; main's
\* number is the shared one.
Down == prog = "sem" =>
    /\ n["main"] = value /\ (at["main"] < 5 => value < 7)
    /\ at["t1"] < 4 => n["t1"] < 4
    /\ ~(at["main"] \in {4, 5} /\ at["t1"] \in {4, 5})
    /\ sem = IF at["main"] = 1 \/ at["main"] \in {4, 5} \/ at["t1"] \in {4, 5} THEN 0 ELSE 1

\* The mutexes that main has locked, and those that the child has not unlocked.
Mutexes ==
    /\ prog # "atfork" => locks["main"] = {} /\ locks["child"] = {}
    /\ prog = "atfork" =>
          /\ locks["main"] = IF at["main"] \in {5, 6} THEN {"1", "2"} ELSE IF at["main"] = 4 THEN {"1"}
                             ELSE IF at["main"] = 7 THEN {"2"} ELSE {}
          /\ locks["child"] = IF state["child"] \in {"none", "failed"} \/ at["child"] > 2 THEN {}
                              ELSE IF at["child"] = 1 THEN {"1", "2"} ELSE {"2"}

ThreadsInv ==
    /\ ThreadsValues /\ Lives /\ Ended /\ Detached /\ Results /\ Object /\ Barrier /\ Key /\ Down /\ Mutexes
-----------------------------------------------------------------------------
\* The calls of 11-02.
LEMMA CreateTexts ==
    /\ Len(CreateMain) = 3 /\ CreateMain[1] = "create1" /\ CreateMain[2] = "run"
    /\ CreateMain[3] = "exit"
    /\ Len(NewThread) = 2 /\ NewThread[1] = "run" /\ NewThread[2] = "end"
  BY DEF CreateMain, NewThread

\* The calls of 11-04.
LEMMA JoinTexts ==
    /\ Len(JoinMain) = 5 /\ JoinMain[1] = "create1" /\ JoinMain[2] = "create2" /\ JoinMain[3] = "join1"
    /\ JoinMain[4] = "join2" /\ JoinMain[5] = "exit"
    /\ Len(JoinThread) = 3 /\ JoinThread[1] = "set" /\ JoinThread[2] = "run" /\ JoinThread[3] = "end"
  BY DEF JoinMain, JoinThread

\* The calls of 11-16.
LEMMA BarrierTexts ==
    /\ Len(BarrierMain) = 8 /\ BarrierMain[1] = "init" /\ BarrierMain[2] = "create1"
    /\ BarrierMain[3] = "create2" /\ BarrierMain[4] = "barrier" /\ BarrierMain[5] = "join1"
    /\ BarrierMain[6] = "join2" /\ BarrierMain[7] = "destroy" /\ BarrierMain[8] = "exit"
    /\ Len(BarrierThread) = 3 /\ BarrierThread[1] = "run" /\ BarrierThread[2] = "barrier"
    /\ BarrierThread[3] = "end"
  BY DEF BarrierMain, BarrierThread

\* The calls of 12-04.
LEMMA DetachTexts ==
    /\ Len(DetachMain) = 5 /\ DetachMain[1] = "create1" /\ DetachMain[2] = "detach1"
    /\ DetachMain[3] = "create2" /\ DetachMain[4] = "run" /\ DetachMain[5] = "exit"
    /\ Len(DetachThread) = 3 /\ DetachThread[1] = "detachself" /\ DetachThread[2] = "run"
    /\ DetachThread[3] = "end"
  BY DEF DetachMain, DetachThread

\* The calls of 12-13.
LEMMA KeyTexts ==
    /\ Len(KeyMain) = 7 /\ KeyMain[1] = "create1" /\ KeyMain[2] = "create2" /\ KeyMain[3] = "once"
    /\ KeyMain[4] = "buffer" /\ KeyMain[5] = "next" /\ KeyMain[6] = "until" /\ KeyMain[7] = "exit"
    /\ Len(KeyThread) = 7 /\ KeyThread[1] = "detachself" /\ KeyThread[2] = "run"
    /\ KeyThread[3] = "once" /\ KeyThread[4] = "buffer" /\ KeyThread[5] = "next"
    /\ KeyThread[6] = "until" /\ KeyThread[7] = "end"
  BY DEF KeyMain, KeyThread

\* The calls of 12-14.
LEMMA CancelTexts ==
    /\ Len(CancelMain) = 19 /\ CancelMain[1] = "create1" /\ CancelMain[2] = "create2"
    /\ CancelMain[3] = "probe1" /\ CancelMain[4] = "probe2" /\ CancelMain[5] = "probe1"
    /\ CancelMain[6] = "probe2" /\ CancelMain[7] = "cancel1" /\ CancelMain[8] = "probe1"
    /\ CancelMain[9] = "probe2" /\ CancelMain[10] = "probe1" /\ CancelMain[11] = "probe2"
    /\ CancelMain[12] = "cancel2" /\ CancelMain[13] = "probe1" /\ CancelMain[14] = "probe2"
    /\ CancelMain[15] = "probe1" /\ CancelMain[16] = "probe2" /\ CancelMain[17] = "probe1"
    /\ CancelMain[18] = "probe2" /\ CancelMain[19] = "exit"
    /\ Len(CancelThread) = 3 /\ CancelThread[1] = "detachself" /\ CancelThread[2] = "run"
    /\ CancelThread[3] = "loop"
  BY DEF CancelMain, CancelThread

\* The calls of 12-17.
LEMMA ForkTexts ==
    /\ Len(ForkMain) = 9 /\ ForkMain[1] = "create1" /\ ForkMain[2] = "run" /\ ForkMain[3] = "lock1"
    /\ ForkMain[4] = "lock2" /\ ForkMain[5] = "fork" /\ ForkMain[6] = "unlock1"
    /\ ForkMain[7] = "unlock2" /\ ForkMain[8] = "run" /\ ForkMain[9] = "exit"
    /\ Len(ForkThread) = 3 /\ ForkThread[1] = "detachself" /\ ForkThread[2] = "run"
    /\ ForkThread[3] = "loop"
  BY DEF ForkMain, ForkThread

\* The calls of 15-35_sem_init.
LEMMA SemTexts ==
    /\ Len(SemMain) = 8 /\ SemMain[1] = "init" /\ SemMain[2] = "create1" /\ SemMain[3] = "wait"
    /\ SemMain[4] = "next" /\ SemMain[5] = "post" /\ SemMain[6] = "until" /\ SemMain[7] = "destroy"
    /\ SemMain[8] = "exit"
    /\ Len(SemThread) = 7 /\ SemThread[1] = "detachself" /\ SemThread[2] = "run"
    /\ SemThread[3] = "wait" /\ SemThread[4] = "read" /\ SemThread[5] = "post" /\ SemThread[6] = "until"
    /\ SemThread[7] = "end"
  BY DEF SemMain, SemThread

\* The calls of the child that 12-17 forks.
LEMMA ChildText ==
    /\ Len(ForkChild) = 4 /\ ForkChild[1] = "unlock1" /\ ForkChild[2] = "unlock2"
    /\ ForkChild[3] = "run" /\ ForkChild[4] = "end"
  BY DEF ForkChild
-----------------------------------------------------------------------------
\* Which texts a program runs.
LEMMA Bodies ==
    ASSUME NEW t \in Threads
    PROVE
      /\ prog = "create" => Body(t) = IF t = "main" THEN CreateMain ELSE IF t = "child" THEN ForkChild ELSE NewThread
      /\ prog = "join" => Body(t) = IF t = "main" THEN JoinMain ELSE IF t = "child" THEN ForkChild ELSE JoinThread
      /\ prog = "barrier" => Body(t) = IF t = "main" THEN BarrierMain ELSE IF t = "child" THEN ForkChild ELSE BarrierThread
      /\ prog = "detach" => Body(t) = IF t = "main" THEN DetachMain ELSE IF t = "child" THEN ForkChild ELSE DetachThread
      /\ prog = "key" => Body(t) = IF t = "main" THEN KeyMain ELSE IF t = "child" THEN ForkChild ELSE KeyThread
      /\ prog = "cancel" => Body(t) = IF t = "main" THEN CancelMain ELSE IF t = "child" THEN ForkChild ELSE CancelThread
      /\ prog = "atfork" => Body(t) = IF t = "main" THEN ForkMain ELSE IF t = "child" THEN ForkChild ELSE ForkThread
      /\ prog = "sem" => Body(t) = IF t = "main" THEN SemMain ELSE IF t = "child" THEN ForkChild ELSE SemThread
<1>1. prog = "create" => Body(t) = IF t = "main" THEN CreateMain ELSE IF t = "child" THEN ForkChild ELSE NewThread
  BY DEF Body, Mains, Starts
<1>2. prog = "join" => Body(t) = IF t = "main" THEN JoinMain ELSE IF t = "child" THEN ForkChild ELSE JoinThread
  BY DEF Body, Mains, Starts
<1>3. prog = "barrier" => Body(t) = IF t = "main" THEN BarrierMain ELSE IF t = "child" THEN ForkChild ELSE BarrierThread
  BY DEF Body, Mains, Starts
<1>4. prog = "detach" => Body(t) = IF t = "main" THEN DetachMain ELSE IF t = "child" THEN ForkChild ELSE DetachThread
  BY DEF Body, Mains, Starts
<1>5. prog = "key" => Body(t) = IF t = "main" THEN KeyMain ELSE IF t = "child" THEN ForkChild ELSE KeyThread
  BY DEF Body, Mains, Starts
<1>6. prog = "cancel" => Body(t) = IF t = "main" THEN CancelMain ELSE IF t = "child" THEN ForkChild ELSE CancelThread
  BY DEF Body, Mains, Starts
<1>7. prog = "atfork" => Body(t) = IF t = "main" THEN ForkMain ELSE IF t = "child" THEN ForkChild ELSE ForkThread
  BY DEF Body, Mains, Starts
<1>8. prog = "sem" => Body(t) = IF t = "main" THEN SemMain ELSE IF t = "child" THEN ForkChild ELSE SemThread
  BY DEF Body, Mains, Starts
<1> QED BY <1>1, <1>2, <1>3, <1>4, <1>5, <1>6, <1>7, <1>8

\* The places of the last calls.
LEMMA Lasts ==
    /\ prog = "create" => MainLast = 3 /\ ThreadLast = 2
    /\ prog = "join" => MainLast = 5 /\ ThreadLast = 3
    /\ prog = "barrier" => MainLast = 8 /\ ThreadLast = 3
    /\ prog = "detach" => MainLast = 5 /\ ThreadLast = 3
    /\ prog = "key" => MainLast = 7 /\ ThreadLast = 7
    /\ prog = "cancel" => MainLast = 19 /\ ThreadLast = 3
    /\ prog = "atfork" => MainLast = 9 /\ ThreadLast = 3
    /\ prog = "sem" => MainLast = 8 /\ ThreadLast = 7
<1>1. prog = "create" => MainLast = 3 /\ ThreadLast = 2
  BY DEF MainLast, ThreadLast
<1>2. prog = "join" => MainLast = 5 /\ ThreadLast = 3
  BY DEF MainLast, ThreadLast
<1>3. prog = "barrier" => MainLast = 8 /\ ThreadLast = 3
  BY DEF MainLast, ThreadLast
<1>4. prog = "detach" => MainLast = 5 /\ ThreadLast = 3
  BY DEF MainLast, ThreadLast
<1>5. prog = "key" => MainLast = 7 /\ ThreadLast = 7
  BY DEF MainLast, ThreadLast
<1>6. prog = "cancel" => MainLast = 19 /\ ThreadLast = 3
  BY DEF MainLast, ThreadLast
<1>7. prog = "atfork" => MainLast = 9 /\ ThreadLast = 3
  BY DEF MainLast, ThreadLast
<1>8. prog = "sem" => MainLast = 8 /\ ThreadLast = 7
  BY DEF MainLast, ThreadLast
<1> QED BY <1>1, <1>2, <1>3, <1>4, <1>5, <1>6, <1>7, <1>8
\* How long the texts are.
LEMMA Lengths ==
    ASSUME prog \in Progs, NEW t \in Threads
    PROVE  Len(Body(t)) = EndOf(t) /\ EndOf(t) \in 2..19
<1>1. CASE prog = "create"
  BY <1>1, Bodies, Lasts, CreateTexts, ChildText DEF EndOf, Threads
<1>2. CASE prog = "join"
  BY <1>2, Bodies, Lasts, JoinTexts, ChildText DEF EndOf, Threads
<1>3. CASE prog = "barrier"
  BY <1>3, Bodies, Lasts, BarrierTexts, ChildText DEF EndOf, Threads
<1>4. CASE prog = "detach"
  BY <1>4, Bodies, Lasts, DetachTexts, ChildText DEF EndOf, Threads
<1>5. CASE prog = "key"
  BY <1>5, Bodies, Lasts, KeyTexts, ChildText DEF EndOf, Threads
<1>6. CASE prog = "cancel"
  BY <1>6, Bodies, Lasts, CancelTexts, ChildText DEF EndOf, Threads
<1>7. CASE prog = "atfork"
  BY <1>7, Bodies, Lasts, ForkTexts, ChildText DEF EndOf, Threads
<1>8. CASE prog = "sem"
  BY <1>8, Bodies, Lasts, SemTexts, ChildText DEF EndOf, Threads
<1> QED BY <1>1, <1>2, <1>3, <1>4, <1>5, <1>6, <1>7, <1>8 DEF Progs

\* Where each call stands.
LEMMA Located ==
    ASSUME prog \in Progs, NEW t \in Threads, at[t] \in 1..EndOf(t), NEW call, Body(t)[at[t]] = call
    PROVE
      /\ call = "run" =>
        \/ t = "main" /\ prog = "create" /\ at[t] = 2
        \/ t = "main" /\ prog = "detach" /\ at[t] = 4
        \/ t = "main" /\ prog = "atfork" /\ at[t] \in {2, 8}
        \/ t \in Two /\ prog \in {"create", "barrier"} /\ at[t] = 1
        \/ t \in Two /\ prog \in {"join", "detach", "key", "cancel", "atfork", "sem"} /\ at[t] = 2
        \/ t = "child" /\ at[t] = 3
      /\ call = "create1" =>
        \/ t = "main" /\ prog \in {"create", "join", "detach", "key", "cancel", "atfork"} /\ at[t] = 1
        \/ t = "main" /\ prog \in {"barrier", "sem"} /\ at[t] = 2
      /\ call = "create2" =>
        \/ t = "main" /\ prog \in {"join", "key", "cancel"} /\ at[t] = 2
        \/ t = "main" /\ prog \in {"barrier", "detach"} /\ at[t] = 3
      /\ call = "end" =>
        \/ t \in Two /\ prog = "create" /\ at[t] = 2
        \/ t \in Two /\ prog \in {"join", "barrier", "detach"} /\ at[t] = 3
        \/ t \in Two /\ prog \in {"key", "sem"} /\ at[t] = 7
        \/ t = "child" /\ at[t] = 4
      /\ call = "exit" =>
        \/ t = "main" /\ prog = "create" /\ at[t] = 3
        \/ t = "main" /\ prog \in {"join", "detach"} /\ at[t] = 5
        \/ t = "main" /\ prog \in {"barrier", "sem"} /\ at[t] = 8
        \/ t = "main" /\ prog = "key" /\ at[t] = 7
        \/ t = "main" /\ prog = "cancel" /\ at[t] = 19
        \/ t = "main" /\ prog = "atfork" /\ at[t] = 9
      /\ call = "join1" =>
        \/ t = "main" /\ prog = "join" /\ at[t] = 3
        \/ t = "main" /\ prog = "barrier" /\ at[t] = 5
      /\ call = "join2" =>
        \/ t = "main" /\ prog = "join" /\ at[t] = 4
        \/ t = "main" /\ prog = "barrier" /\ at[t] = 6
      /\ call = "detachself" => t \in Two /\ prog \in {"detach", "key", "cancel", "atfork", "sem"} /\ at[t] = 1
      /\ call = "detach1" => t = "main" /\ prog = "detach" /\ at[t] = 2
      /\ call = "cancel1" => t = "main" /\ prog = "cancel" /\ at[t] = 7
      /\ call = "cancel2" => t = "main" /\ prog = "cancel" /\ at[t] = 12
      /\ call = "probe1" => t = "main" /\ prog = "cancel" /\ at[t] \in {3, 5, 8, 10, 13, 15, 17}
      /\ call = "probe2" => t = "main" /\ prog = "cancel" /\ at[t] \in {4, 6, 9, 11, 14, 16, 18}
      /\ call = "set" => t \in Two /\ prog = "join" /\ at[t] = 1
      /\ call = "init" => t = "main" /\ prog \in {"barrier", "sem"} /\ at[t] = 1
      /\ call = "destroy" => t = "main" /\ prog \in {"barrier", "sem"} /\ at[t] = 7
      /\ call = "barrier" =>
        \/ t = "main" /\ prog = "barrier" /\ at[t] = 4
        \/ t \in Two /\ prog = "barrier" /\ at[t] = 2
      /\ call = "wait" =>
        \/ t = "main" /\ prog = "sem" /\ at[t] = 3
        \/ t \in Two /\ prog = "sem" /\ at[t] = 3
      /\ call = "post" =>
        \/ t = "main" /\ prog = "sem" /\ at[t] = 5
        \/ t \in Two /\ prog = "sem" /\ at[t] = 5
      /\ call = "read" => t \in Two /\ prog = "sem" /\ at[t] = 4
      /\ call = "next" =>
        \/ t = "main" /\ prog = "key" /\ at[t] = 5
        \/ t = "main" /\ prog = "sem" /\ at[t] = 4
        \/ t \in Two /\ prog = "key" /\ at[t] = 5
      /\ call = "until" =>
        \/ t = "main" /\ prog \in {"key", "sem"} /\ at[t] = 6
        \/ t \in Two /\ prog \in {"key", "sem"} /\ at[t] = 6
      /\ call = "once" =>
        \/ t = "main" /\ prog = "key" /\ at[t] = 3
        \/ t \in Two /\ prog = "key" /\ at[t] = 3
      /\ call = "buffer" =>
        \/ t = "main" /\ prog = "key" /\ at[t] = 4
        \/ t \in Two /\ prog = "key" /\ at[t] = 4
      /\ call = "lock1" => t = "main" /\ prog = "atfork" /\ at[t] = 3
      /\ call = "lock2" => t = "main" /\ prog = "atfork" /\ at[t] = 4
      /\ call = "unlock1" =>
        \/ t = "main" /\ prog = "atfork" /\ at[t] = 6
        \/ t = "child" /\ at[t] = 1
      /\ call = "unlock2" =>
        \/ t = "main" /\ prog = "atfork" /\ at[t] = 7
        \/ t = "child" /\ at[t] = 2
      /\ call = "fork" => t = "main" /\ prog = "atfork" /\ at[t] = 5
      /\ call = "loop" => t \in Two /\ prog \in {"cancel", "atfork"} /\ at[t] = 3
<1>0. t = "main" \/ t \in Two \/ t = "child"
  BY DEF Threads, Two
<1>9. CASE t = "child"
  <2>1. at[t] \in {1, 2, 3, 4}
    BY <1>9 DEF EndOf
  <2>2. ForkChild[at[t]] = call
    BY <1>9, Bodies DEF Progs
  <2> QED BY <1>9, <2>1, <2>2, ChildText
<1>1. CASE prog = "create"
  <2>1. CASE t = "main"
    <3>1. at[t] \in {1, 2, 3}
      BY <1>1, <2>1, Lasts DEF EndOf
    <3>2. CreateMain[at[t]] = call
      BY <1>1, <2>1, Bodies
    <3> QED BY <1>1, <2>1, <3>1, <3>2, CreateTexts
  <2>2. CASE t \in Two
    <3>1. at[t] \in {1, 2}
      BY <1>1, <2>2, Lasts DEF EndOf, Two
    <3>2. NewThread[at[t]] = call
      BY <1>1, <2>2, Bodies DEF Two
    <3> QED BY <1>1, <2>2, <3>1, <3>2, CreateTexts
  <2> QED BY <1>0, <1>9, <2>1, <2>2
<1>2. CASE prog = "join"
  <2>1. CASE t = "main"
    <3>1. at[t] \in {1, 2, 3, 4, 5}
      BY <1>2, <2>1, Lasts DEF EndOf
    <3>2. JoinMain[at[t]] = call
      BY <1>2, <2>1, Bodies
    <3> QED BY <1>2, <2>1, <3>1, <3>2, JoinTexts
  <2>2. CASE t \in Two
    <3>1. at[t] \in {1, 2, 3}
      BY <1>2, <2>2, Lasts DEF EndOf, Two
    <3>2. JoinThread[at[t]] = call
      BY <1>2, <2>2, Bodies DEF Two
    <3> QED BY <1>2, <2>2, <3>1, <3>2, JoinTexts
  <2> QED BY <1>0, <1>9, <2>1, <2>2
<1>3. CASE prog = "barrier"
  <2>1. CASE t = "main"
    <3>1. at[t] \in {1, 2, 3, 4, 5, 6, 7, 8}
      BY <1>3, <2>1, Lasts DEF EndOf
    <3>2. BarrierMain[at[t]] = call
      BY <1>3, <2>1, Bodies
    <3> QED BY <1>3, <2>1, <3>1, <3>2, BarrierTexts
  <2>2. CASE t \in Two
    <3>1. at[t] \in {1, 2, 3}
      BY <1>3, <2>2, Lasts DEF EndOf, Two
    <3>2. BarrierThread[at[t]] = call
      BY <1>3, <2>2, Bodies DEF Two
    <3> QED BY <1>3, <2>2, <3>1, <3>2, BarrierTexts
  <2> QED BY <1>0, <1>9, <2>1, <2>2
<1>4. CASE prog = "detach"
  <2>1. CASE t = "main"
    <3>1. at[t] \in {1, 2, 3, 4, 5}
      BY <1>4, <2>1, Lasts DEF EndOf
    <3>2. DetachMain[at[t]] = call
      BY <1>4, <2>1, Bodies
    <3> QED BY <1>4, <2>1, <3>1, <3>2, DetachTexts
  <2>2. CASE t \in Two
    <3>1. at[t] \in {1, 2, 3}
      BY <1>4, <2>2, Lasts DEF EndOf, Two
    <3>2. DetachThread[at[t]] = call
      BY <1>4, <2>2, Bodies DEF Two
    <3> QED BY <1>4, <2>2, <3>1, <3>2, DetachTexts
  <2> QED BY <1>0, <1>9, <2>1, <2>2
<1>5. CASE prog = "key"
  <2>1. CASE t = "main"
    <3>1. at[t] \in {1, 2, 3, 4, 5, 6, 7}
      BY <1>5, <2>1, Lasts DEF EndOf
    <3>2. KeyMain[at[t]] = call
      BY <1>5, <2>1, Bodies
    <3> QED BY <1>5, <2>1, <3>1, <3>2, KeyTexts
  <2>2. CASE t \in Two
    <3>1. at[t] \in {1, 2, 3, 4, 5, 6, 7}
      BY <1>5, <2>2, Lasts DEF EndOf, Two
    <3>2. KeyThread[at[t]] = call
      BY <1>5, <2>2, Bodies DEF Two
    <3> QED BY <1>5, <2>2, <3>1, <3>2, KeyTexts
  <2> QED BY <1>0, <1>9, <2>1, <2>2
<1>6. CASE prog = "cancel"
  <2>1. CASE t = "main"
    <3>1. at[t] \in {1, 2, 3, 4, 5, 6, 7, 8, 9, 10, 11, 12, 13, 14, 15, 16, 17, 18, 19}
      BY <1>6, <2>1, Lasts DEF EndOf
    <3>2. CancelMain[at[t]] = call
      BY <1>6, <2>1, Bodies
    <3> QED BY <1>6, <2>1, <3>1, <3>2, CancelTexts
  <2>2. CASE t \in Two
    <3>1. at[t] \in {1, 2, 3}
      BY <1>6, <2>2, Lasts DEF EndOf, Two
    <3>2. CancelThread[at[t]] = call
      BY <1>6, <2>2, Bodies DEF Two
    <3> QED BY <1>6, <2>2, <3>1, <3>2, CancelTexts
  <2> QED BY <1>0, <1>9, <2>1, <2>2
<1>7. CASE prog = "atfork"
  <2>1. CASE t = "main"
    <3>1. at[t] \in {1, 2, 3, 4, 5, 6, 7, 8, 9}
      BY <1>7, <2>1, Lasts DEF EndOf
    <3>2. ForkMain[at[t]] = call
      BY <1>7, <2>1, Bodies
    <3> QED BY <1>7, <2>1, <3>1, <3>2, ForkTexts
  <2>2. CASE t \in Two
    <3>1. at[t] \in {1, 2, 3}
      BY <1>7, <2>2, Lasts DEF EndOf, Two
    <3>2. ForkThread[at[t]] = call
      BY <1>7, <2>2, Bodies DEF Two
    <3> QED BY <1>7, <2>2, <3>1, <3>2, ForkTexts
  <2> QED BY <1>0, <1>9, <2>1, <2>2
<1>8. CASE prog = "sem"
  <2>1. CASE t = "main"
    <3>1. at[t] \in {1, 2, 3, 4, 5, 6, 7, 8}
      BY <1>8, <2>1, Lasts DEF EndOf
    <3>2. SemMain[at[t]] = call
      BY <1>8, <2>1, Bodies
    <3> QED BY <1>8, <2>1, <3>1, <3>2, SemTexts
  <2>2. CASE t \in Two
    <3>1. at[t] \in {1, 2, 3, 4, 5, 6, 7}
      BY <1>8, <2>2, Lasts DEF EndOf, Two
    <3>2. SemThread[at[t]] = call
      BY <1>8, <2>2, Bodies DEF Two
    <3> QED BY <1>8, <2>2, <3>1, <3>2, SemTexts
  <2> QED BY <1>0, <1>9, <2>1, <2>2
<1> QED BY <1>1, <1>2, <1>3, <1>4, <1>5, <1>6, <1>7, <1>8 DEF Progs
-----------------------------------------------------------------------------
\* What is known of a thread that makes a call.
LEMMA Calling ==
    ASSUME ThreadsInv, NEW t \in Threads, NEW call, Calls(t, call)
    PROVE  /\ prog' = prog /\ prog \in Progs /\ state[t] = "runs" /\ at[t] \in 1..EndOf(t) /\ Body(t)[at[t]] = call
           /\ t = "child" => prog = "atfork" /\ at["main"] > 5
           /\ t # "child" => ended = "no"
           /\ t \in Two => Born(t)
  BY DEF Calls, Live, ThreadsInv, ThreadsValues, Lives, Born, Two, Threads

\* A step moves one thread by one place.
LEMMA Stepped ==
    ASSUME ThreadsInv, NEW t \in Threads
    PROVE  /\ Step(t) => at' \in [Threads -> Nat] /\ at'[t] = at[t] + 1 /\ \A u \in Threads : u # t => at'[u] = at[u]
           /\ at \in [Threads -> Nat] /\ \A v \in Threads : at[v] \in Nat /\ at[v] >= 1
  BY DEF Step, ThreadsInv, ThreadsValues


\* Three threads at the barrier are all of them.
LEMMA ThreeOfThree ==
    ASSUME NEW S, S \subseteq Three, Cardinality(S) >= 3
    PROVE  S = Three
<1>1. IsFiniteSet(Three) /\ Cardinality(Three) = 3
  <2>1. IsFiniteSet({"main"}) /\ Cardinality({"main"}) = 1
    BY FS_Singleton
  <2>2. IsFiniteSet({"main", "t1"}) /\ Cardinality({"main", "t1"}) = 2
    BY <2>1, FS_AddElement, {"main"} \cup {"t1"} = {"main", "t1"}
  <2>3. {"main", "t1"} \cup {"t2"} = Three /\ "t2" \notin {"main", "t1"}
    BY DEF Three
  <2> QED BY <2>2, <2>3, FS_AddElement
<1>2. IsFiniteSet(S) /\ Cardinality(S) <= 3 /\ (Cardinality(S) = 3 => S = Three)
  BY <1>1, FS_Subset
<1>3. Cardinality(S) \in Nat
  BY <1>2, FS_CardinalityType
<1> QED BY <1>2, <1>3

\* The places to which the loops of 12-13 and sem_init go back.
LEMMA KeyPlaces ==
    ASSUME prog = "key", NEW t \in Three
    PROVE  Pos(t, "next") = 5
<1>1. /\ Len(Body(t)) = 7
      /\ \A i \in 1..7 : Body(t)[i] = "next" <=> i = 5
  <2>1. CASE t = "main"
    <3>1. Body(t) = KeyMain
      BY <2>1, Bodies DEF Threads
    <3>2. \A i \in 1..7 : i \in {1, 2, 3, 4, 5, 6, 7}
      OBVIOUS
    <3> QED BY <2>1, <3>1, <3>2, KeyTexts
  <2>2. CASE t \in Two
    <3>1. Body(t) = KeyThread /\ t # "main"
      BY <2>2, Bodies DEF Threads, Two
    <3>2. \A i \in 1..7 : i \in {1, 2, 3, 4, 5, 6, 7}
      OBVIOUS
    <3> QED BY <3>1, <3>2, KeyTexts
  <2> QED BY <2>1, <2>2 DEF Three, Two
<1> QED BY <1>1 DEF Pos

\* So in sem_init.
LEMMA SemPlaces ==
    ASSUME prog = "sem", NEW t \in Three
    PROVE  Pos(t, "wait") = 3
<1>1. /\ Len(Body(t)) = IF t = "main" THEN 8 ELSE 7
      /\ \A i \in 1..Len(Body(t)) : Body(t)[i] = "wait" <=> i = 3
  <2>1. CASE t = "main"
    <3>1. Body(t) = SemMain
      BY <2>1, Bodies DEF Threads
    <3>2. \A i \in 1..8 : i \in {1, 2, 3, 4, 5, 6, 7, 8}
      OBVIOUS
    <3> QED BY <2>1, <3>1, <3>2, SemTexts
  <2>2. CASE t \in Two
    <3>1. Body(t) = SemThread /\ t # "main"
      BY <2>2, Bodies DEF Threads, Two
    <3>2. \A i \in 1..7 : i \in {1, 2, 3, 4, 5, 6, 7}
      OBVIOUS
    <3> QED BY <3>1, <3>2, SemTexts
  <2> QED BY <2>1, <2>2 DEF Three, Two
<1> QED BY <1>1 DEF Pos


\* printf, sleep and the like move the thread and nothing else.
LEMMA RunKeeps ==
    ASSUME ThreadsInv, NEW t \in Threads, Run(t)
    PROVE  ThreadsInv'
<1>1. Calls(t, "run") /\ Step(t)
      /\ UNCHANGED <<ended, state, detached, joined, stale, n, got, obj, arrived, sem, value,
                      once, keys, spec, freed, cancels, seen, locks>>
  BY DEF Run, Goes, life, result, shared, private, cancel
<1>2. /\ prog' = prog /\ prog \in Progs /\ state[t] = "runs" /\ at[t] \in 1..EndOf(t)
      /\ t = "child" => prog = "atfork" /\ at["main"] > 5
      /\ t # "child" => ended = "no"
      /\ \/ t = "main" /\ prog = "create" /\ at[t] = 2
         \/ t = "main" /\ prog = "detach" /\ at[t] = 4
         \/ t = "main" /\ prog = "atfork" /\ at[t] \in {2, 8}
         \/ t \in Two /\ prog \in {"create", "barrier"} /\ at[t] = 1
         \/ t \in Two /\ prog \in {"join", "detach", "key", "cancel", "atfork", "sem"} /\ at[t] = 2
         \/ t = "child" /\ at[t] = 3
  BY <1>1, Calling, Located
<1>3. /\ at' \in [Threads -> Nat] /\ at'[t] = at[t] + 1
      /\ \A v \in Threads : at[v] \in Nat /\ (v # t => at'[v] = at[v])
  BY <1>1, Stepped
<1>4. ThreadsValues'
  BY <1>1, <1>2, <1>3 DEF ThreadsInv, ThreadsValues, EndOf, MainLast, ThreadLast, Two, Threads
<1>5. Lives'
  BY <1>1, <1>2, <1>3 DEF ThreadsInv, Lives, Born, EndOf, MainLast, ThreadLast, Two, Threads
<1>6. Ended'
  BY <1>1, <1>2, <1>3 DEF ThreadsInv, Ended, MainLast, Two, Three, Threads
<1>7. Detached'
  BY <1>1, <1>2, <1>3 DEF ThreadsInv, Detached, Two, Threads
<1>8. Results'
  BY <1>1, <1>2, <1>3 DEF ThreadsInv, Results, JoinAt, Result, Two, Threads
<1>9. Object'
  BY <1>1, <1>2, <1>3 DEF ThreadsInv, Object, MainLast, Two, Threads
<1>10. Barrier'
  BY <1>1, <1>2, <1>3 DEF ThreadsInv, Barrier, Two, Three, Threads
<1>11. Key'
  BY <1>1, <1>2, <1>3 DEF ThreadsInv, Key, Two, Three, Last, Threads
<1>12. Down'
  BY <1>1, <1>2, <1>3 DEF ThreadsInv, Down, Two, Threads
<1>13. Mutexes'
  BY <1>1, <1>2, <1>3 DEF ThreadsInv, Mutexes, Two, Threads
<1> QED BY <1>4, <1>5, <1>6, <1>7, <1>8, <1>9, <1>10, <1>11, <1>12, <1>13 DEF ThreadsInv

\* The thread is detached before it does anything else.
LEMMA DetachSelfKeeps ==
    ASSUME ThreadsInv, NEW t \in Threads, DetachSelf(t)
    PROVE  ThreadsInv'
<1>1. Calls(t, "detachself") /\ Step(t) /\ detached' = detached \cup {t}
      /\ UNCHANGED <<ended, state, joined, stale, n, got, obj, arrived, sem, value, once, keys,
                      spec, freed, cancels, seen, locks>>
  BY DEF DetachSelf, Goes, life, result, shared, private, cancel
<1>2. /\ prog' = prog /\ prog \in Progs /\ state[t] = "runs" /\ at[t] \in 1..EndOf(t)
      /\ t = "child" => prog = "atfork" /\ at["main"] > 5
      /\ t # "child" => ended = "no"
      /\ t \in Two /\ prog \in {"detach", "key", "cancel", "atfork", "sem"} /\ at[t] = 1
  BY <1>1, Calling, Located
<1>3. /\ at' \in [Threads -> Nat] /\ at'[t] = at[t] + 1
      /\ \A v \in Threads : at[v] \in Nat /\ (v # t => at'[v] = at[v])
  BY <1>1, Stepped
<1>4. ThreadsValues'
  BY <1>1, <1>2, <1>3 DEF ThreadsInv, ThreadsValues, EndOf, MainLast, ThreadLast, Two, Threads
<1>5. Lives'
  BY <1>1, <1>2, <1>3 DEF ThreadsInv, Lives, Born, EndOf, MainLast, ThreadLast, Two, Threads
<1>6. Ended'
  BY <1>1, <1>2, <1>3 DEF ThreadsInv, Ended, MainLast, Two, Three, Threads
<1>7. Detached'
  BY <1>1, <1>2, <1>3 DEF ThreadsInv, Detached, Two, Threads
<1>8. Results'
  BY <1>1, <1>2, <1>3 DEF ThreadsInv, Results, JoinAt, Result, Two, Threads
<1>9. Object'
  BY <1>1, <1>2, <1>3 DEF ThreadsInv, Object, MainLast, Two, Threads
<1>10. Barrier'
  BY <1>1, <1>2, <1>3 DEF ThreadsInv, Barrier, Two, Three, Threads
<1>11. Key'
  BY <1>1, <1>2, <1>3 DEF ThreadsInv, Key, Two, Three, Last, Threads
<1>12. Down'
  BY <1>1, <1>2, <1>3 DEF ThreadsInv, Down, Two, Threads
<1>13. Mutexes'
  BY <1>1, <1>2, <1>3 DEF ThreadsInv, Mutexes, Two, Threads
<1> QED BY <1>4, <1>5, <1>6, <1>7, <1>8, <1>9, <1>10, <1>11, <1>12, <1>13 DEF ThreadsInv

\* A thread is created, or is not.
LEMMA CreateKeeps ==
    ASSUME ThreadsInv, NEW u \in Two, Create(u)
    PROVE  ThreadsInv'
<1>1. /\ u = "t1" => Calls("main", "create1")
      /\ u = "t2" => Calls("main", "create2")
      /\ Step("main") /\ detached' = (IF prog = "detach" /\ u = "t2" THEN detached \cup {u} ELSE detached)
      /\ \E how \in {"runs", "failed"} : state' = [state EXCEPT ![u] = how]
      /\ UNCHANGED <<ended, joined, stale, n, got, obj, arrived, sem, value, once, keys, spec,
                      freed, cancels, seen, locks>>
  BY DEF Create, Goes, Of, Two, life, result, shared, private, cancel
<1>2. /\ prog' = prog /\ prog \in Progs /\ at["main"] \in 1..EndOf("main") /\ ended = "no"
      /\ u = "t1" => at["main"] = IF prog \in {"barrier", "sem"} THEN 2 ELSE 1
      /\ u = "t2" => /\ prog \in {"join", "key", "cancel", "barrier", "detach"}
                     /\ at["main"] = IF prog \in {"barrier", "detach"} THEN 3 ELSE 2
  <2>1. CASE u = "t1"
    BY <1>1, <2>1, Calling, Located DEF Threads
  <2>2. CASE u = "t2"
    BY <1>1, <2>2, Calling, Located DEF Threads
  <2> QED BY <2>1, <2>2 DEF Two
<1>3. /\ at' \in [Threads -> Nat] /\ at'["main"] = at["main"] + 1
      /\ \A v \in Threads : at[v] \in Nat /\ (v # "main" => at'[v] = at[v])
  BY <1>1, Stepped DEF Threads
<1>4. state[u] = "none" /\ at[u] = 1 /\ ~Born(u)
  BY <1>2 DEF ThreadsInv, Lives, Born, Two
<1>5. /\ state'[u] \in {"runs", "failed"} /\ state' \in [Threads -> {"none", "failed", "runs", "over"}]
      /\ \A v \in Threads : v # u => state'[v] = state[v]
  BY <1>1 DEF ThreadsInv, ThreadsValues, Two, Threads
<1>6. ThreadsValues'
  BY <1>1, <1>2, <1>3, <1>4, <1>5 DEF ThreadsInv, ThreadsValues, EndOf, MainLast, ThreadLast, Two, Threads
<1>7. Lives'
  BY <1>1, <1>2, <1>3, <1>4, <1>5 DEF ThreadsInv, Lives, Born, EndOf, MainLast, ThreadLast, Two, Threads
<1>8. Ended'
  BY <1>1, <1>2, <1>3, <1>4, <1>5 DEF ThreadsInv, Ended, MainLast, Two, Three, Threads
<1>9. Detached'
  BY <1>1, <1>2, <1>3, <1>4, <1>5 DEF ThreadsInv, Detached, Two, Threads
<1>10. Results'
  BY <1>1, <1>2, <1>3, <1>4, <1>5 DEF ThreadsInv, Results, JoinAt, Result, Two, Threads
<1>11. Object'
  BY <1>1, <1>2, <1>3, <1>4, <1>5 DEF ThreadsInv, Object, MainLast, Two, Threads
<1>12. Barrier'
  BY <1>1, <1>2, <1>3, <1>4, <1>5 DEF ThreadsInv, Barrier, Two, Three, Threads
<1>13. Key'
  BY <1>1, <1>2, <1>3, <1>4, <1>5 DEF ThreadsInv, Key, Two, Three, Last, Threads
<1>14. Down'
  BY <1>1, <1>2, <1>3, <1>4, <1>5 DEF ThreadsInv, Down, Two, Threads
<1>15. Mutexes'
  BY <1>1, <1>2, <1>3, <1>4, <1>5 DEF ThreadsInv, Mutexes, Two, Threads
<1> QED BY <1>6, <1>7, <1>8, <1>9, <1>10, <1>11, <1>12, <1>13, <1>14, <1>15 DEF ThreadsInv

\* A thread is over; its buffer is freed.
LEMMA EndKeeps ==
    ASSUME ThreadsInv, NEW t \in Threads, End(t)
    PROVE  ThreadsInv'
<1>1. Calls(t, "end") /\ at' = at /\ state' = [state EXCEPT ![t] = "over"] /\ freed' = (IF spec[t] # 0 THEN freed \cup {t} ELSE freed)
      /\ UNCHANGED <<ended, detached, joined, stale, n, got, obj, arrived, sem, value, once,
                      keys, spec, cancels, seen, locks>>
  BY DEF End, life, result, shared, private, cancel
<1>2. /\ prog' = prog /\ prog \in Progs /\ state[t] = "runs" /\ at[t] \in 1..EndOf(t)
      /\ t = "child" => prog = "atfork" /\ at["main"] > 5
      /\ t # "child" => ended = "no"
      /\ t # "main" /\ at[t] = EndOf(t) /\ prog # "cancel" /\ (prog = "key" => at[t] = 7)
  BY <1>1, Calling, Located DEF Two, EndOf, ThreadLast
<1>3. at \in [Threads -> Nat] /\ \A v \in Threads : at[v] \in Nat
  BY Stepped DEF Threads
<1>4. /\ state'[t] = "over" /\ state' \in [Threads -> {"none", "failed", "runs", "over"}]
      /\ \A v \in Threads : v # t => state'[v] = state[v]
  BY <1>1 DEF ThreadsInv, ThreadsValues
<1>5. ThreadsValues'
  BY <1>1, <1>2, <1>3, <1>4 DEF ThreadsInv, ThreadsValues, EndOf, MainLast, ThreadLast, Two, Threads
<1>6. Lives'
  BY <1>1, <1>2, <1>3, <1>4 DEF ThreadsInv, Lives, Born, EndOf, MainLast, ThreadLast, Two, Threads
<1>7. Ended'
  BY <1>1, <1>2, <1>3, <1>4 DEF ThreadsInv, Ended, MainLast, Two, Three, Threads
<1>8. Detached'
  BY <1>1, <1>2, <1>3, <1>4 DEF ThreadsInv, Detached, Two, Threads
<1>9. Results'
  BY <1>1, <1>2, <1>3, <1>4 DEF ThreadsInv, Results, JoinAt, Result, Two, Threads
<1>10. Object'
  BY <1>1, <1>2, <1>3, <1>4 DEF ThreadsInv, Object, MainLast, Two, Threads
<1>11. Barrier'
  BY <1>1, <1>2, <1>3, <1>4 DEF ThreadsInv, Barrier, Two, Three, Threads
<1>12. Key'
  BY <1>1, <1>2, <1>3, <1>4 DEF ThreadsInv, Key, Two, Three, Last, Threads
<1>13. Down'
  BY <1>1, <1>2, <1>3, <1>4 DEF ThreadsInv, Down, Two, Threads
<1>14. Mutexes'
  BY <1>1, <1>2, <1>3, <1>4 DEF ThreadsInv, Mutexes, Two, Threads
<1> QED BY <1>5, <1>6, <1>7, <1>8, <1>9, <1>10, <1>11, <1>12, <1>13, <1>14 DEF ThreadsInv

\* The end of the process.
LEMMA ExitKeeps ==
    ASSUME ThreadsInv, Exit
    PROVE  ThreadsInv'
<1>1. Calls("main", "exit") /\ at' = at /\ ended' = "exit"
      /\ UNCHANGED <<state, detached, joined, stale, n, got, obj, arrived, sem, value, once,
                      keys, spec, freed, cancels, seen, locks>>
  BY DEF Exit, life, result, shared, private, cancel
<1>2. /\ prog' = prog /\ prog \in Progs /\ at["main"] \in 1..EndOf("main") /\ ended = "no"
      /\ at["main"] = MainLast
  BY <1>1, Calling, Located DEF Threads, MainLast
<1>3. at \in [Threads -> Nat] /\ \A v \in Threads : at[v] \in Nat
  BY Stepped DEF Threads
<1>4. ThreadsValues'
  BY <1>1, <1>2, <1>3 DEF ThreadsInv, ThreadsValues, EndOf, MainLast, ThreadLast, Two, Threads
<1>5. Lives'
  BY <1>1, <1>2, <1>3 DEF ThreadsInv, Lives, Born, EndOf, MainLast, ThreadLast, Two, Threads
<1>6. Ended'
  BY <1>1, <1>2, <1>3 DEF ThreadsInv, Ended, MainLast, Two, Three, Threads
<1>7. Detached'
  BY <1>1, <1>2, <1>3 DEF ThreadsInv, Detached, Two, Threads
<1>8. Results'
  BY <1>1, <1>2, <1>3 DEF ThreadsInv, Results, JoinAt, Result, Two, Threads
<1>9. Object'
  BY <1>1, <1>2, <1>3 DEF ThreadsInv, Object, MainLast, Two, Threads
<1>10. Barrier'
  BY <1>1, <1>2, <1>3 DEF ThreadsInv, Barrier, Two, Three, Threads
<1>11. Key'
  BY <1>1, <1>2, <1>3 DEF ThreadsInv, Key, Two, Three, Last, Threads
<1>12. Down'
  BY <1>1, <1>2, <1>3 DEF ThreadsInv, Down, Two, Threads
<1>13. Mutexes'
  BY <1>1, <1>2, <1>3 DEF ThreadsInv, Mutexes, Two, Threads
<1> QED BY <1>4, <1>5, <1>6, <1>7, <1>8, <1>9, <1>10, <1>11, <1>12, <1>13 DEF ThreadsInv

\* The use of an id that was not set needs a thread that was not created; that of
\* a stale one comes in 12-04 and 12-14 only.
LEMMA NoIdKeeps ==
    ASSUME ThreadsInv, NEW u \in Two, NoId(u)
    PROVE  ThreadsInv'
<1>1. /\ prog' = prog /\ at' = at /\ ended' = "undefined"
      /\ state[u] = "failed" \/ Gone(u)
      /\ stale' = (IF Gone(u) THEN stale \cup {u} ELSE stale)
      /\ UNCHANGED <<state, detached, joined, n, got, obj, arrived, sem, value, once,
                      keys, spec, freed, cancels, seen, locks>>
  BY DEF NoId, Calls, life, result, shared, private, cancel
<1>2. /\ ended = "no" /\ prog \in Progs
      /\ \/ prog \in {"join", "barrier"} /\ at["main"] = JoinAt(u)
         \/ prog = "detach" /\ u = "t1"
         \/ prog = "cancel"
  <2>1. PICK call \in Of(u, {"join1", "detach1", "cancel1", "probe1"}, {"join2", "cancel2", "probe2"}) :
            Calls("main", call)
    BY DEF NoId
  <2>2. /\ prog \in Progs /\ at["main"] \in 1..EndOf("main") /\ ended = "no"
        /\ Body("main")[at["main"]] = call
    BY <2>1, Calling DEF Calls, Threads
  <2>3. CASE u = "t1"
    <3>1. call \in {"join1", "detach1", "cancel1", "probe1"}
      BY <2>1, <2>3 DEF Of
    <3> QED BY <2>2, <2>3, <3>1, Located DEF Threads, JoinAt
  <2>4. CASE u = "t2"
    <3>1. call \in {"join2", "cancel2", "probe2"}
      BY <2>1, <2>4 DEF Of
    <3> QED BY <2>2, <2>4, <3>1, Located DEF Threads, JoinAt
  <2> QED BY <2>3, <2>4 DEF Two
<1>3. at \in [Threads -> Nat] /\ \A t \in Threads : at[t] \in Nat
  BY Stepped DEF Threads
<1>14. /\ stale' = stale /\ state[u] = "failed"
       \/ /\ stale' = stale \cup {u}
          /\ \/ prog = "detach" /\ u = "t1"
             \/ prog = "cancel" /\ u \in cancels
  <2>1. ASSUME Gone(u)
        PROVE  (prog = "detach" /\ u = "t1") \/ (prog = "cancel" /\ u \in cancels)
    <3>1. ASSUME prog \in {"join", "barrier"} PROVE FALSE
      BY <1>2, <1>3, <2>1, <3>1 DEF ThreadsInv, Detached, Results, Gone, Two, Threads
    <3>2. prog = "cancel" => u \in cancels
      BY <2>1 DEF ThreadsInv, Lives, Gone
    <3> QED BY <1>2, <3>1, <3>2
  <2> QED BY <1>1, <2>1
<1>4. ThreadsValues'
  BY <1>1, <1>2, <1>3, <1>14 DEF ThreadsInv, ThreadsValues, EndOf, MainLast, ThreadLast, Two, Threads
<1>5. Lives'
  BY <1>1, <1>2, <1>3, <1>14 DEF ThreadsInv, Lives, Born, EndOf, MainLast, ThreadLast, Two, Threads
<1>6. Ended'
  BY <1>1, <1>2, <1>3, <1>14 DEF ThreadsInv, Ended, MainLast, Two, Three, Threads
<1>7. Detached'
  BY <1>1, <1>2, <1>3, <1>14 DEF ThreadsInv, Detached, Two, Threads
<1>8. Results'
  BY <1>1, <1>2, <1>3, <1>14 DEF ThreadsInv, Results, JoinAt, Result, Two, Threads
<1>9. Object'
  BY <1>1, <1>2, <1>3, <1>14 DEF ThreadsInv, Object, MainLast, Two, Threads
<1>10. Barrier'
  BY <1>1, <1>2, <1>3, <1>14 DEF ThreadsInv, Barrier, Two, Three, Threads
<1>11. Key'
  BY <1>1, <1>2, <1>3, <1>14 DEF ThreadsInv, Key, Two, Three, Last, Threads
<1>12. Down'
  BY <1>1, <1>2, <1>3, <1>14 DEF ThreadsInv, Down, Two, Threads
<1>13. Mutexes'
  BY <1>1, <1>2, <1>3, <1>14 DEF ThreadsInv, Mutexes, Two, Threads
<1> QED BY <1>4, <1>5, <1>6, <1>7, <1>8, <1>9, <1>10, <1>11, <1>12, <1>13 DEF ThreadsInv

\* 12-04 detaches a thread that may have detached itself and be over.
LEMMA DetachKeeps ==
    ASSUME ThreadsInv, Detach
    PROVE  ThreadsInv'
<1>1. Calls("main", "detach1") /\ Step("main") /\ detached' = detached \cup {"t1"}
      /\ stale' \in {stale, stale \cup {"t1"}}
      /\ UNCHANGED <<ended, state, joined, n, got, obj, arrived, sem, value, once, keys, spec,
                      freed, cancels, seen, locks>>
  BY DEF Detach, Uses, Goes, life, result, shared, private, cancel
<1>2. /\ prog' = prog /\ prog \in Progs /\ at["main"] \in 1..EndOf("main") /\ ended = "no"
      /\ prog = "detach" /\ at["main"] = 2
  BY <1>1, Calling, Located DEF Threads
<1>3. /\ at' \in [Threads -> Nat] /\ at'["main"] = at["main"] + 1
      /\ \A v \in Threads : at[v] \in Nat /\ (v # "main" => at'[v] = at[v])
  BY <1>1, Stepped DEF Threads
<1>4. ThreadsValues'
  BY <1>1, <1>2, <1>3 DEF ThreadsInv, ThreadsValues, EndOf, MainLast, ThreadLast, Two, Threads
<1>5. Lives'
  BY <1>1, <1>2, <1>3 DEF ThreadsInv, Lives, Born, EndOf, MainLast, ThreadLast, Two, Threads
<1>6. Ended'
  BY <1>1, <1>2, <1>3 DEF ThreadsInv, Ended, MainLast, Two, Three, Threads
<1>7. Detached'
  BY <1>1, <1>2, <1>3 DEF ThreadsInv, Detached, Two, Threads
<1>8. Results'
  BY <1>1, <1>2, <1>3 DEF ThreadsInv, Results, JoinAt, Result, Two, Threads
<1>9. Object'
  BY <1>1, <1>2, <1>3 DEF ThreadsInv, Object, MainLast, Two, Threads
<1>10. Barrier'
  BY <1>1, <1>2, <1>3 DEF ThreadsInv, Barrier, Two, Three, Threads
<1>11. Key'
  BY <1>1, <1>2, <1>3 DEF ThreadsInv, Key, Two, Three, Last, Threads
<1>12. Down'
  BY <1>1, <1>2, <1>3 DEF ThreadsInv, Down, Two, Threads
<1>13. Mutexes'
  BY <1>1, <1>2, <1>3 DEF ThreadsInv, Mutexes, Two, Threads
<1> QED BY <1>4, <1>5, <1>6, <1>7, <1>8, <1>9, <1>10, <1>11, <1>12, <1>13 DEF ThreadsInv

\* A thread is joined once, when it is over, and main gets what it has set.
LEMMA JoinKeeps ==
    ASSUME ThreadsInv, NEW u \in Two, Join(u)
    PROVE  ThreadsInv'
<1>1. /\ u = "t1" => Calls("main", "join1")
      /\ u = "t2" => Calls("main", "join2")
      /\ Step("main") /\ state[u] = "over" /\ stale' = (IF Gone(u) THEN stale \cup {u} ELSE stale)
      /\ joined' = joined \cup {u} /\ got' = [got EXCEPT ![u] = n[u]]
      /\ UNCHANGED <<ended, state, detached, n, obj, arrived, sem, value, once, keys, spec,
                      freed, cancels, seen, locks>>
  BY DEF Join, Uses, Goes, Of, Two, life, result, shared, private, cancel
<1>2. /\ prog' = prog /\ prog \in Progs /\ at["main"] \in 1..EndOf("main") /\ ended = "no"
      /\ prog \in {"join", "barrier"}
      /\ at["main"] = IF prog = "join" THEN IF u = "t1" THEN 3 ELSE 4 ELSE IF u = "t1" THEN 5 ELSE 6
  <2>1. CASE u = "t1"
    BY <1>1, <2>1, Calling, Located DEF Threads
  <2>2. CASE u = "t2"
    BY <1>1, <2>2, Calling, Located DEF Threads
  <2> QED BY <2>1, <2>2 DEF Two
<1>3. /\ at' \in [Threads -> Nat] /\ at'["main"] = at["main"] + 1
      /\ \A v \in Threads : at[v] \in Nat /\ (v # "main" => at'[v] = at[v])
  BY <1>1, Stepped DEF Threads
<1>4. u \in Threads /\ u \notin joined /\ u \notin detached /\ stale' = stale
  <2>1. u \in Threads /\ detached = {}
    BY <1>2 DEF ThreadsInv, Detached, Two, Threads
  <2>2. u \notin joined
    BY <1>2, <2>1 DEF ThreadsInv, Results, JoinAt, Two
  <2> QED BY <1>1, <2>1, <2>2 DEF Gone
<1>5. n[u] = IF prog = "join" THEN Result(u) ELSE 0
  <2>1. at[u] = EndOf(u) /\ u \in Threads
    BY <1>1, <1>2 DEF ThreadsInv, Lives, Two, Threads
  <2>2. prog = "join" => at[u] = 3
    BY <2>1 DEF EndOf, ThreadLast, Two
  <2> QED BY <1>2, <2>1, <2>2 DEF ThreadsInv, Results
<1>6. /\ got' \in [Threads -> {0, 5, 6}]
      /\ got'[u] = IF prog = "join" THEN Result(u) ELSE 0
      /\ \A t \in Threads : t # u => got'[t] = got[t]
  BY <1>1, <1>4, <1>5 DEF ThreadsInv, ThreadsValues, Result
<1>7. ThreadsValues'
  BY <1>1, <1>2, <1>3, <1>4, <1>5, <1>6 DEF ThreadsInv, ThreadsValues, EndOf, MainLast, ThreadLast, Two, Threads
<1>8. Lives'
  BY <1>1, <1>2, <1>3, <1>4, <1>5, <1>6 DEF ThreadsInv, Lives, Born, EndOf, MainLast, ThreadLast, Two, Threads
<1>9. Ended'
  BY <1>1, <1>2, <1>3, <1>4, <1>5, <1>6 DEF ThreadsInv, Ended, MainLast, Two, Three, Threads
<1>10. Detached'
  BY <1>1, <1>2, <1>3, <1>4, <1>5, <1>6 DEF ThreadsInv, Detached, Two, Threads
<1>11. Results'
  <2>1. \A t \in Threads : t \in joined' <=> t \in Two /\ at'["main"] > JoinAt(t)
    <3>1. \A t \in Threads : t \in joined <=> t \in Two /\ at["main"] > JoinAt(t)
      BY <1>2 DEF ThreadsInv, Results
    <3>2. CASE prog = "join"
      BY <1>1, <1>2, <1>3, <3>1, <3>2 DEF JoinAt, Two, Threads
    <3>3. CASE prog = "barrier"
      BY <1>1, <1>2, <1>3, <3>1, <3>3 DEF JoinAt, Two, Threads
    <3> QED BY <1>2, <3>2, <3>3
  <2>2. \A t \in Threads : JoinAt(t)' = JoinAt(t)
    BY <1>2 DEF JoinAt
  <2>3. \A t \in Threads : got'[t] = IF prog = "join" /\ t \in joined' THEN Result(t) ELSE 0
    BY <1>1, <1>2, <1>4, <1>6 DEF ThreadsInv, Results
  <2>4. \A t \in joined' : state[t] = "over"
    BY <1>1, <1>2 DEF ThreadsInv, Results
  <2>5. prog = "join" => \A t \in Threads : n[t] = IF t \in Two /\ at'[t] > 1 THEN Result(t) ELSE 0
    <3>1. \A t \in Two : t \in Threads /\ at'[t] = at[t]
      BY <1>3 DEF Two, Threads
    <3> QED BY <3>1 DEF ThreadsInv, Results
  <2>6. /\ n' = n /\ state' = state /\ prog' = prog /\ \A t \in Threads : Result(t)' = Result(t)
        /\ prog = "barrier" => \A t \in Threads : n[t] = 0
    BY <1>1, <1>2 DEF ThreadsInv, Results, Result
  <2> QED BY <1>2, <2>1, <2>2, <2>3, <2>4, <2>5, <2>6 DEF Results
<1>12. Object'
  BY <1>1, <1>2, <1>3, <1>4, <1>5, <1>6 DEF ThreadsInv, Object, MainLast, Two, Threads
<1>13. Barrier'
  BY <1>1, <1>2, <1>3, <1>4, <1>5, <1>6 DEF ThreadsInv, Barrier, Two, Three, Threads
<1>14. Key'
  BY <1>1, <1>2, <1>3, <1>4, <1>5, <1>6 DEF ThreadsInv, Key, Two, Three, Last, Threads
<1>15. Down'
  BY <1>1, <1>2, <1>3, <1>4, <1>5, <1>6 DEF ThreadsInv, Down, Two, Threads
<1>16. Mutexes'
  BY <1>1, <1>2, <1>3, <1>4, <1>5, <1>6 DEF ThreadsInv, Mutexes, Two, Threads
<1> QED BY <1>7, <1>8, <1>9, <1>10, <1>11, <1>12, <1>13, <1>14, <1>15, <1>16 DEF ThreadsInv

\* A thread may be cancelled when it is gone by an earlier cancellation only.
LEMMA CancelKeeps ==
    ASSUME ThreadsInv, NEW u \in Two, Cancel(u)
    PROVE  ThreadsInv'
<1>1. /\ u = "t1" => Calls("main", "cancel1")
      /\ u = "t2" => Calls("main", "cancel2")
      /\ Step("main") /\ cancels' = cancels \cup {u} /\ stale' \in {stale, stale \cup {u}}
      /\ UNCHANGED <<ended, state, detached, joined, n, got, obj, arrived, sem, value, once,
                      keys, spec, freed, seen, locks>>
  BY DEF Cancel, Uses, Goes, Of, Two, life, result, shared, private, cancel
<1>2. /\ prog' = prog /\ prog \in Progs /\ at["main"] \in 1..EndOf("main") /\ ended = "no"
      /\ prog = "cancel"  /\ at["main"] \in {7, 12}
  <2>1. CASE u = "t1"
    BY <1>1, <2>1, Calling, Located DEF Threads
  <2>2. CASE u = "t2"
    BY <1>1, <2>2, Calling, Located DEF Threads
  <2> QED BY <2>1, <2>2 DEF Two
<1>3. /\ at' \in [Threads -> Nat] /\ at'["main"] = at["main"] + 1
      /\ \A v \in Threads : at[v] \in Nat /\ (v # "main" => at'[v] = at[v])
  BY <1>1, Stepped DEF Threads
<1>4. ThreadsValues'
  BY <1>1, <1>2, <1>3 DEF ThreadsInv, ThreadsValues, EndOf, MainLast, ThreadLast, Two, Threads
<1>5. Lives'
  BY <1>1, <1>2, <1>3 DEF ThreadsInv, Lives, Born, EndOf, MainLast, ThreadLast, Two, Threads
<1>6. Ended'
  BY <1>1, <1>2, <1>3 DEF ThreadsInv, Ended, MainLast, Two, Three, Threads
<1>7. Detached'
  BY <1>1, <1>2, <1>3 DEF ThreadsInv, Detached, Two, Threads
<1>8. Results'
  BY <1>1, <1>2, <1>3 DEF ThreadsInv, Results, JoinAt, Result, Two, Threads
<1>9. Object'
  BY <1>1, <1>2, <1>3 DEF ThreadsInv, Object, MainLast, Two, Threads
<1>10. Barrier'
  BY <1>1, <1>2, <1>3 DEF ThreadsInv, Barrier, Two, Three, Threads
<1>11. Key'
  BY <1>1, <1>2, <1>3 DEF ThreadsInv, Key, Two, Three, Last, Threads
<1>12. Down'
  BY <1>1, <1>2, <1>3 DEF ThreadsInv, Down, Two, Threads
<1>13. Mutexes'
  BY <1>1, <1>2, <1>3 DEF ThreadsInv, Mutexes, Two, Threads
<1> QED BY <1>4, <1>5, <1>6, <1>7, <1>8, <1>9, <1>10, <1>11, <1>12, <1>13 DEF ThreadsInv

\* What main sees of a thread that was not cancelled is that it lives.
LEMMA ProbeKeeps ==
    ASSUME ThreadsInv, NEW u \in Two, Probe(u)
    PROVE  ThreadsInv'
<1>1. /\ u = "t1" => Calls("main", "probe1")
      /\ u = "t2" => Calls("main", "probe2")
      /\ Step("main") /\ stale' = (IF Gone(u) THEN stale \cup {u} ELSE stale)
      /\ \E says \in {"alive", "die"} :
            /\ Gone(u) \/ says = IF state[u] = "over" THEN "die" ELSE "alive"
            /\ seen' = [seen EXCEPT ![u] = says]
      /\ UNCHANGED <<ended, state, detached, joined, n, got, obj, arrived, sem, value, once,
                      keys, spec, freed, cancels, locks>>
  BY DEF Probe, Uses, Goes, Of, Two, life, result, shared, private, cancel
<1>2. /\ prog' = prog /\ prog \in Progs /\ at["main"] \in 1..EndOf("main") /\ ended = "no"
      /\ prog = "cancel" /\ at["main"] \in 3..18
  <2>1. CASE u = "t1"
    BY <1>1, <2>1, Calling, Located DEF Threads
  <2>2. CASE u = "t2"
    BY <1>1, <2>2, Calling, Located DEF Threads
  <2> QED BY <2>1, <2>2 DEF Two
<1>3. /\ at' \in [Threads -> Nat] /\ at'["main"] = at["main"] + 1
      /\ \A v \in Threads : at[v] \in Nat /\ (v # "main" => at'[v] = at[v])
  BY <1>1, Stepped DEF Threads
<1>4. /\ stale' \subseteq stale \cup cancels
      /\ seen' \in [Threads -> {"alive", "die"}] /\ \A t \in Two : seen'[t] = "die" => seen[t] = "die" \/ t \in cancels
  <2>1. Gone(u) \/ state[u] = "over" => u \in cancels
    BY <1>2 DEF ThreadsInv, Lives, Gone
  <2> QED BY <1>1, <2>1 DEF ThreadsInv, ThreadsValues, Two, Threads
<1>5. ThreadsValues'
  BY <1>1, <1>2, <1>3, <1>4 DEF ThreadsInv, ThreadsValues, EndOf, MainLast, ThreadLast, Two, Threads
<1>6. Lives'
  BY <1>1, <1>2, <1>3, <1>4 DEF ThreadsInv, Lives, Born, EndOf, MainLast, ThreadLast, Two, Threads
<1>7. Ended'
  BY <1>1, <1>2, <1>3, <1>4 DEF ThreadsInv, Ended, MainLast, Two, Three, Threads
<1>8. Detached'
  BY <1>1, <1>2, <1>3, <1>4 DEF ThreadsInv, Detached, Two, Threads
<1>9. Results'
  BY <1>1, <1>2, <1>3, <1>4 DEF ThreadsInv, Results, JoinAt, Result, Two, Threads
<1>10. Object'
  BY <1>1, <1>2, <1>3, <1>4 DEF ThreadsInv, Object, MainLast, Two, Threads
<1>11. Barrier'
  BY <1>1, <1>2, <1>3, <1>4 DEF ThreadsInv, Barrier, Two, Three, Threads
<1>12. Key'
  BY <1>1, <1>2, <1>3, <1>4 DEF ThreadsInv, Key, Two, Three, Last, Threads
<1>13. Down'
  BY <1>1, <1>2, <1>3, <1>4 DEF ThreadsInv, Down, Two, Threads
<1>14. Mutexes'
  BY <1>1, <1>2, <1>3, <1>4 DEF ThreadsInv, Mutexes, Two, Threads
<1> QED BY <1>5, <1>6, <1>7, <1>8, <1>9, <1>10, <1>11, <1>12, <1>13, <1>14 DEF ThreadsInv

\* The value that 11-04 returns is set first.
LEMMA SetKeeps ==
    ASSUME ThreadsInv, NEW t \in Threads, Set(t)
    PROVE  ThreadsInv'
<1>1. Calls(t, "set") /\ Step(t) /\ n' = [n EXCEPT ![t] = IF t = "t1" THEN 5 ELSE 6]
      /\ UNCHANGED <<ended, state, detached, joined, stale, got, obj, arrived, sem, value, once,
                      keys, spec, freed, cancels, seen, locks>>
  BY DEF Set, Goes, life, result, shared, private, cancel
<1>2. /\ prog' = prog /\ prog \in Progs /\ state[t] = "runs" /\ at[t] \in 1..EndOf(t)
      /\ t = "child" => prog = "atfork" /\ at["main"] > 5
      /\ t # "child" => ended = "no"
      /\ t \in Two /\ prog = "join" /\ at[t] = 1
  BY <1>1, Calling, Located
<1>3. /\ at' \in [Threads -> Nat] /\ at'[t] = at[t] + 1
      /\ \A v \in Threads : at[v] \in Nat /\ (v # t => at'[v] = at[v])
  BY <1>1, Stepped
<1>4. /\ at'["main"] = at["main"] /\ \A u \in Two : u \in Threads /\ (at'[u] > 1 <=> u = t \/ at[u] > 1)
      /\ n' \in [Threads -> 0..13] /\ \A u \in Threads : n'[u] = IF u = t THEN Result(t) ELSE n[u]
  BY <1>1, <1>2, <1>3 DEF ThreadsInv, ThreadsValues, Result, Two, Threads
<1>5. ThreadsValues'
  BY <1>1, <1>2, <1>3, <1>4 DEF ThreadsInv, ThreadsValues, EndOf, MainLast, ThreadLast, Two, Threads
<1>6. Lives'
  BY <1>1, <1>2, <1>3, <1>4 DEF ThreadsInv, Lives, Born, EndOf, MainLast, ThreadLast, Two, Threads
<1>7. Ended'
  BY <1>1, <1>2, <1>3, <1>4 DEF ThreadsInv, Ended, MainLast, Two, Three, Threads
<1>8. Detached'
  BY <1>1, <1>2, <1>3, <1>4 DEF ThreadsInv, Detached, Two, Threads
<1>9. Results'
  <2>1. \A u \in Threads : JoinAt(u)' = JoinAt(u) /\ Result(u)' = Result(u)
    BY <1>2 DEF JoinAt, Result
  <2>2. \A u \in Threads : n'[u] = IF u \in Two /\ at'[u] > 1 THEN Result(u) ELSE 0
    BY <1>2, <1>4 DEF ThreadsInv, Results
  <2>3. joined' = joined /\ got' = got /\ state' = state /\ prog' = prog
    BY <1>1, <1>2
  <2> QED BY <1>2, <1>4, <2>1, <2>2, <2>3 DEF ThreadsInv, Results
<1>10. Object'
  BY <1>1, <1>2, <1>3, <1>4 DEF ThreadsInv, Object, MainLast, Two, Threads
<1>11. Barrier'
  BY <1>1, <1>2, <1>3, <1>4 DEF ThreadsInv, Barrier, Two, Three, Threads
<1>12. Key'
  BY <1>1, <1>2, <1>3, <1>4 DEF ThreadsInv, Key, Two, Three, Last, Threads
<1>13. Down'
  BY <1>1, <1>2, <1>3, <1>4 DEF ThreadsInv, Down, Two, Threads
<1>14. Mutexes'
  BY <1>1, <1>2, <1>3, <1>4 DEF ThreadsInv, Mutexes, Two, Threads
<1> QED BY <1>5, <1>6, <1>7, <1>8, <1>9, <1>10, <1>11, <1>12, <1>13, <1>14 DEF ThreadsInv

\* The barrier or semaphore is made before the threads are.
LEMMA InitKeeps ==
    ASSUME ThreadsInv, InitObject
    PROVE  ThreadsInv'
<1>1. Calls("main", "init") /\ Step("main") /\ obj' = "ready" /\ sem' = 1
      /\ UNCHANGED <<ended, state, detached, joined, stale, n, got, arrived, value, once, keys,
                      spec, freed, cancels, seen, locks>>
  BY DEF InitObject, Goes, life, result, shared, private, cancel
<1>2. /\ prog' = prog /\ prog \in Progs /\ at["main"] \in 1..EndOf("main") /\ ended = "no"
      /\ prog \in {"barrier", "sem"} /\ at["main"] = 1
  BY <1>1, Calling, Located DEF Threads
<1>3. /\ at' \in [Threads -> Nat] /\ at'["main"] = at["main"] + 1
      /\ \A v \in Threads : at[v] \in Nat /\ (v # "main" => at'[v] = at[v])
      /\ at'["main"] = 2
  BY <1>1, <1>2, Stepped DEF Threads
<1>4. \A t \in Two : state[t] = "none" /\ at[t] = 1
  <2>1. \A t \in Two : ~Born(t)
    BY <1>2 DEF Born, Two
  <2> QED BY <2>1 DEF ThreadsInv, Lives
<1>5. ThreadsValues'
  BY <1>1, <1>2, <1>3, <1>4 DEF ThreadsInv, ThreadsValues, EndOf, MainLast, ThreadLast, Two, Threads
<1>6. Lives'
  BY <1>1, <1>2, <1>3, <1>4 DEF ThreadsInv, Lives, Born, EndOf, MainLast, ThreadLast, Two, Threads
<1>7. Ended'
  BY <1>1, <1>2, <1>3, <1>4 DEF ThreadsInv, Ended, MainLast, Two, Three, Threads
<1>8. Detached'
  BY <1>1, <1>2, <1>3, <1>4 DEF ThreadsInv, Detached, Two, Threads
<1>9. Results'
  <2>1. joined = {}
    BY <1>2 DEF ThreadsInv, ThreadsValues, Results, JoinAt, Two
  <2>2. \A t \in Two : ~(at'["main"] > JoinAt(t))
    BY <1>2, <1>3 DEF JoinAt, Two
  <2>3. \A t \in Two : JoinAt(t)' = JoinAt(t)
    BY <1>2 DEF JoinAt
  <2> QED BY <1>1, <1>2, <1>3, <2>1, <2>2, <2>3 DEF ThreadsInv, Results
<1>10. Object'
  BY <1>1, <1>2, <1>3, <1>4 DEF ThreadsInv, Object, MainLast, Two, Threads
<1>11. Barrier'
  BY <1>1, <1>2, <1>3, <1>4 DEF ThreadsInv, Barrier, Two, Three, Threads
<1>12. Key'
  BY <1>1, <1>2, <1>3, <1>4 DEF ThreadsInv, Key, Two, Three, Last, Threads
<1>13. Down'
  BY <1>1, <1>2, <1>3, <1>4 DEF ThreadsInv, Down, Two, Threads
<1>14. Mutexes'
  BY <1>1, <1>2, <1>3, <1>4 DEF ThreadsInv, Mutexes, Two, Threads
<1> QED BY <1>5, <1>6, <1>7, <1>8, <1>9, <1>10, <1>11, <1>12, <1>13, <1>14 DEF ThreadsInv

\* It is destroyed in the last but one call.
LEMMA DestroyKeeps ==
    ASSUME ThreadsInv, Destroy
    PROVE  ThreadsInv'
<1>1. Calls("main", "destroy") /\ Step("main") /\ obj' = "destroyed"
      /\ UNCHANGED <<ended, state, detached, joined, stale, n, got, arrived, sem, value, once,
                      keys, spec, freed, cancels, seen, locks>>
  BY DEF Destroy, Goes, life, result, shared, private, cancel
<1>2. /\ prog' = prog /\ prog \in Progs /\ at["main"] \in 1..EndOf("main") /\ ended = "no"
      /\ prog \in {"barrier", "sem"} /\ at["main"] = 7
  BY <1>1, Calling, Located DEF Threads
<1>3. /\ at' \in [Threads -> Nat] /\ at'["main"] = at["main"] + 1
      /\ \A v \in Threads : at[v] \in Nat /\ (v # "main" => at'[v] = at[v])
      /\ at'["main"] = 8
  BY <1>1, <1>2, Stepped DEF Threads
<1>4. ThreadsValues'
  BY <1>1, <1>2, <1>3 DEF ThreadsInv, ThreadsValues, EndOf, MainLast, ThreadLast, Two, Threads
<1>5. Lives'
  BY <1>1, <1>2, <1>3 DEF ThreadsInv, Lives, Born, EndOf, MainLast, ThreadLast, Two, Threads
<1>6. Ended'
  BY <1>1, <1>2, <1>3 DEF ThreadsInv, Ended, MainLast, Two, Three, Threads
<1>7. Detached'
  BY <1>1, <1>2, <1>3 DEF ThreadsInv, Detached, Two, Threads
<1>8. Results'
  <2>1. \A t \in Two : JoinAt(t)' = JoinAt(t) /\ (prog = "barrier" => at["main"] > JoinAt(t) /\ at'["main"] > JoinAt(t))
    BY <1>2, <1>3 DEF JoinAt, Two
  <2> QED BY <1>1, <1>2, <1>3, <2>1 DEF ThreadsInv, Results
<1>9. Object'
  BY <1>1, <1>2, <1>3 DEF ThreadsInv, Object, MainLast, Two, Threads
<1>10. Barrier'
  BY <1>1, <1>2, <1>3 DEF ThreadsInv, Barrier, Two, Three, Threads
<1>11. Key'
  BY <1>1, <1>2, <1>3 DEF ThreadsInv, Key, Two, Three, Last, Threads
<1>12. Down'
  BY <1>1, <1>2, <1>3 DEF ThreadsInv, Down, Two, Threads
<1>13. Mutexes'
  BY <1>1, <1>2, <1>3 DEF ThreadsInv, Mutexes, Two, Threads
<1> QED BY <1>4, <1>5, <1>6, <1>7, <1>8, <1>9, <1>10, <1>11, <1>12, <1>13 DEF ThreadsInv

\* A thread comes to the barrier.
LEMMA ArriveKeeps ==
    ASSUME ThreadsInv, NEW t \in Threads, Arrive(t)
    PROVE  ThreadsInv'
<1>1. Calls(t, "barrier") /\ at' = at /\ arrived' = arrived \cup {t}
      /\ UNCHANGED <<ended, state, detached, joined, stale, n, got, obj, sem, value, once, keys,
                      spec, freed, cancels, seen, locks>>
  BY DEF Arrive, life, result, shared, private, cancel
<1>2. /\ prog' = prog /\ prog \in Progs /\ state[t] = "runs" /\ at[t] \in 1..EndOf(t)
      /\ t = "child" => prog = "atfork" /\ at["main"] > 5
      /\ t # "child" => ended = "no"
      /\ t \in Three /\ prog = "barrier"
  BY <1>1, Calling, Located DEF Three, Two
<1>3. at \in [Threads -> Nat] /\ \A v \in Threads : at[v] \in Nat
  BY Stepped DEF Threads
<1>4. ThreadsValues'
  BY <1>1, <1>2, <1>3 DEF ThreadsInv, ThreadsValues, EndOf, MainLast, ThreadLast, Two, Threads
<1>5. Lives'
  BY <1>1, <1>2, <1>3 DEF ThreadsInv, Lives, Born, EndOf, MainLast, ThreadLast, Two, Threads
<1>6. Ended'
  BY <1>1, <1>2, <1>3 DEF ThreadsInv, Ended, MainLast, Two, Three, Threads
<1>7. Detached'
  BY <1>1, <1>2, <1>3 DEF ThreadsInv, Detached, Two, Threads
<1>8. Results'
  BY <1>1, <1>2, <1>3 DEF ThreadsInv, Results, JoinAt, Result, Two, Threads
<1>9. Object'
  BY <1>1, <1>2, <1>3 DEF ThreadsInv, Object, MainLast, Two, Threads
<1>10. Barrier'
  BY <1>1, <1>2, <1>3 DEF ThreadsInv, Barrier, Two, Three, Threads
<1>11. Key'
  BY <1>1, <1>2, <1>3 DEF ThreadsInv, Key, Two, Three, Last, Threads
<1>12. Down'
  BY <1>1, <1>2, <1>3 DEF ThreadsInv, Down, Two, Threads
<1>13. Mutexes'
  BY <1>1, <1>2, <1>3 DEF ThreadsInv, Mutexes, Two, Threads
<1> QED BY <1>4, <1>5, <1>6, <1>7, <1>8, <1>9, <1>10, <1>11, <1>12, <1>13 DEF ThreadsInv

\* It goes on when all three have come.
LEMMA PassKeeps ==
    ASSUME ThreadsInv, NEW t \in Threads, Pass(t)
    PROVE  ThreadsInv'
<1>1. Calls(t, "barrier") /\ Step(t) /\ Cardinality(arrived) >= 3
      /\ UNCHANGED <<ended, state, detached, joined, stale, n, got, obj, arrived, sem, value,
                      once, keys, spec, freed, cancels, seen, locks>>
  BY DEF Pass, Goes, BarrierCount, life, result, shared, private, cancel
<1>2. /\ prog' = prog /\ prog \in Progs /\ state[t] = "runs" /\ at[t] \in 1..EndOf(t)
      /\ t = "child" => prog = "atfork" /\ at["main"] > 5
      /\ t # "child" => ended = "no"
      /\ t \in Three /\ prog = "barrier"
      /\ t = "main" => at[t] = 4
      /\ t # "main" => at[t] = 2
  BY <1>1, Calling, Located DEF Three, Two
<1>3. /\ at' \in [Threads -> Nat] /\ at'[t] = at[t] + 1
      /\ \A v \in Threads : at[v] \in Nat /\ (v # t => at'[v] = at[v])
  BY <1>1, Stepped
<1>4. arrived = Three
  BY <1>1, <1>2, ThreeOfThree DEF ThreadsInv, Barrier
<1>5. ThreadsValues'
  BY <1>1, <1>2, <1>3, <1>4 DEF ThreadsInv, ThreadsValues, EndOf, MainLast, ThreadLast, Two, Threads
<1>6. Lives'
  BY <1>1, <1>2, <1>3, <1>4 DEF ThreadsInv, Lives, Born, EndOf, MainLast, ThreadLast, Two, Threads
<1>7. Ended'
  BY <1>1, <1>2, <1>3, <1>4 DEF ThreadsInv, Ended, MainLast, Two, Three, Threads
<1>8. Detached'
  BY <1>1, <1>2, <1>3, <1>4 DEF ThreadsInv, Detached, Two, Threads
<1>9. Results'
  BY <1>1, <1>2, <1>3, <1>4 DEF ThreadsInv, Results, JoinAt, Result, Two, Threads
<1>10. Object'
  BY <1>1, <1>2, <1>3, <1>4 DEF ThreadsInv, Object, MainLast, Two, Threads
<1>11. Barrier'
  BY <1>1, <1>2, <1>3, <1>4 DEF ThreadsInv, Barrier, Two, Three, Threads
<1>12. Key'
  BY <1>1, <1>2, <1>3, <1>4 DEF ThreadsInv, Key, Two, Three, Last, Threads
<1>13. Down'
  BY <1>1, <1>2, <1>3, <1>4 DEF ThreadsInv, Down, Two, Threads
<1>14. Mutexes'
  BY <1>1, <1>2, <1>3, <1>4 DEF ThreadsInv, Mutexes, Two, Threads
<1> QED BY <1>5, <1>6, <1>7, <1>8, <1>9, <1>10, <1>11, <1>12, <1>13, <1>14 DEF ThreadsInv

\* The semaphore goes down before its thread goes on.
LEMMA WaitKeeps ==
    ASSUME ThreadsInv, NEW t \in Threads, Wait(t)
    PROVE  ThreadsInv'
<1>1. Calls(t, "wait") /\ Step(t) /\ sem > 0 /\ sem' = sem - 1
      /\ UNCHANGED <<ended, state, detached, joined, stale, n, got, obj, arrived, value, once,
                      keys, spec, freed, cancels, seen, locks>>
  BY DEF Wait, Goes, life, result, shared, private, cancel
<1>2. /\ prog' = prog /\ prog \in Progs /\ state[t] = "runs" /\ at[t] \in 1..EndOf(t)
      /\ t = "child" => prog = "atfork" /\ at["main"] > 5
      /\ t # "child" => ended = "no"
      /\ prog = "sem" /\ t \in {"main", "t1"} /\ at[t] = 3
  <2>1. PICK call : Calls(t, call) /\ call \in {"wait", "post", "read"}
    BY <1>1
  <2>2. prog = "sem"
    BY <2>1, Calling, Located
  <2>3. t # "t2"
    BY <2>1, <2>2, Calling DEF Born, Two
  <2> QED BY <1>1, <2>3, Calling, Located DEF Two
<1>3. /\ at' \in [Threads -> Nat] /\ at'[t] = at[t] + 1
      /\ \A v \in Threads : at[v] \in Nat /\ (v # t => at'[v] = at[v])
      /\ at'[t] = 4
  BY <1>1, <1>2, Stepped
<1>4. sem = 1 /\ sem' = 0
  BY <1>1 DEF ThreadsInv, ThreadsValues
<1>5. ThreadsValues'
  BY <1>1, <1>2, <1>3, <1>4 DEF ThreadsInv, ThreadsValues, EndOf, MainLast, ThreadLast, Two, Threads
<1>6. Lives'
  BY <1>1, <1>2, <1>3, <1>4 DEF ThreadsInv, Lives, Born, EndOf, MainLast, ThreadLast, Two, Threads
<1>7. Ended'
  BY <1>1, <1>2, <1>3, <1>4 DEF ThreadsInv, Ended, MainLast, Two, Three, Threads
<1>8. Detached'
  BY <1>1, <1>2, <1>3, <1>4 DEF ThreadsInv, Detached, Two, Threads
<1>9. Results'
  BY <1>1, <1>2, <1>3, <1>4 DEF ThreadsInv, Results, JoinAt, Result, Two, Threads
<1>10. Object'
  BY <1>1, <1>2, <1>3, <1>4 DEF ThreadsInv, Object, MainLast, Two, Threads
<1>11. Barrier'
  BY <1>1, <1>2, <1>3, <1>4 DEF ThreadsInv, Barrier, Two, Three, Threads
<1>12. Key'
  BY <1>1, <1>2, <1>3, <1>4 DEF ThreadsInv, Key, Two, Three, Last, Threads
<1>13. Down'
  BY <1>1, <1>2, <1>3, <1>4 DEF ThreadsInv, Down, Two, Threads
<1>14. Mutexes'
  BY <1>1, <1>2, <1>3, <1>4 DEF ThreadsInv, Mutexes, Two, Threads
<1> QED BY <1>5, <1>6, <1>7, <1>8, <1>9, <1>10, <1>11, <1>12, <1>13, <1>14 DEF ThreadsInv

\* It goes up only when it was down.
LEMMA PostKeeps ==
    ASSUME ThreadsInv, NEW t \in Threads, Post(t)
    PROVE  ThreadsInv'
<1>1. Calls(t, "post") /\ Step(t) /\ sem' = sem + 1
      /\ UNCHANGED <<ended, state, detached, joined, stale, n, got, obj, arrived, value, once,
                      keys, spec, freed, cancels, seen, locks>>
  BY DEF Post, Goes, life, result, shared, private, cancel
<1>2. /\ prog' = prog /\ prog \in Progs /\ state[t] = "runs" /\ at[t] \in 1..EndOf(t)
      /\ t = "child" => prog = "atfork" /\ at["main"] > 5
      /\ t # "child" => ended = "no"
      /\ prog = "sem" /\ t \in {"main", "t1"} /\ at[t] = 5
  <2>1. PICK call : Calls(t, call) /\ call \in {"wait", "post", "read"}
    BY <1>1
  <2>2. prog = "sem"
    BY <2>1, Calling, Located
  <2>3. t # "t2"
    BY <2>1, <2>2, Calling DEF Born, Two
  <2> QED BY <1>1, <2>3, Calling, Located DEF Two
<1>3. /\ at' \in [Threads -> Nat] /\ at'[t] = at[t] + 1
      /\ \A v \in Threads : at[v] \in Nat /\ (v # t => at'[v] = at[v])
      /\ at'[t] = 6
  BY <1>1, <1>2, Stepped
<1>4. sem = 0 /\ sem' = 1
  BY <1>1, <1>2 DEF ThreadsInv, Down
<1>5. ThreadsValues'
  BY <1>1, <1>2, <1>3, <1>4 DEF ThreadsInv, ThreadsValues, EndOf, MainLast, ThreadLast, Two, Threads
<1>6. Lives'
  BY <1>1, <1>2, <1>3, <1>4 DEF ThreadsInv, Lives, Born, EndOf, MainLast, ThreadLast, Two, Threads
<1>7. Ended'
  BY <1>1, <1>2, <1>3, <1>4 DEF ThreadsInv, Ended, MainLast, Two, Three, Threads
<1>8. Detached'
  BY <1>1, <1>2, <1>3, <1>4 DEF ThreadsInv, Detached, Two, Threads
<1>9. Results'
  BY <1>1, <1>2, <1>3, <1>4 DEF ThreadsInv, Results, JoinAt, Result, Two, Threads
<1>10. Object'
  BY <1>1, <1>2, <1>3, <1>4 DEF ThreadsInv, Object, MainLast, Two, Threads
<1>11. Barrier'
  BY <1>1, <1>2, <1>3, <1>4 DEF ThreadsInv, Barrier, Two, Three, Threads
<1>12. Key'
  BY <1>1, <1>2, <1>3, <1>4 DEF ThreadsInv, Key, Two, Three, Last, Threads
<1>13. Down'
  <2>1. CASE t = "main"
    BY <1>1, <1>2, <1>3, <1>4, <2>1 DEF ThreadsInv, Down, Threads
  <2>2. CASE t = "t1"
    <3>1. at["main"] > 2
      BY <1>1, <1>2, <2>2, Calling DEF Born, Two
    <3> QED BY <1>1, <1>2, <1>3, <1>4, <2>2, <3>1 DEF ThreadsInv, Down, Threads
  <2> QED BY <1>2, <2>1, <2>2
<1>14. Mutexes'
  BY <1>1, <1>2, <1>3, <1>4 DEF ThreadsInv, Mutexes, Two, Threads
<1> QED BY <1>5, <1>6, <1>7, <1>8, <1>9, <1>10, <1>11, <1>12, <1>13, <1>14 DEF ThreadsInv

\* The thread reads what main has counted.
LEMMA ReadKeeps ==
    ASSUME ThreadsInv, NEW t \in Threads, Read(t)
    PROVE  ThreadsInv'
<1>1. Calls(t, "read") /\ Step(t) /\ n' = [n EXCEPT ![t] = value]
      /\ UNCHANGED <<ended, state, detached, joined, stale, got, obj, arrived, sem, value, once,
                      keys, spec, freed, cancels, seen, locks>>
  BY DEF Read, Goes, life, result, shared, private, cancel
<1>2. /\ prog' = prog /\ prog \in Progs /\ state[t] = "runs" /\ at[t] \in 1..EndOf(t)
      /\ t = "child" => prog = "atfork" /\ at["main"] > 5
      /\ t # "child" => ended = "no"
      /\ prog = "sem" /\ t = "t1" /\ at[t] = 4
  <2>1. PICK call : Calls(t, call) /\ call \in {"wait", "post", "read"}
    BY <1>1
  <2>2. prog = "sem"
    BY <2>1, Calling, Located
  <2>3. t # "t2"
    BY <2>1, <2>2, Calling DEF Born, Two
  <2> QED BY <1>1, <2>3, Calling, Located DEF Two
<1>3. /\ at' \in [Threads -> Nat] /\ at'[t] = at[t] + 1
      /\ \A v \in Threads : at[v] \in Nat /\ (v # t => at'[v] = at[v])
      /\ at'[t] = 5
  BY <1>1, <1>2, Stepped
<1>4. /\ n' \in [Threads -> 0..13] /\ \A u \in Threads : u # t => n'[u] = n[u]
  BY <1>1 DEF ThreadsInv, ThreadsValues
<1>5. ThreadsValues'
  BY <1>1, <1>2, <1>3, <1>4 DEF ThreadsInv, ThreadsValues, EndOf, MainLast, ThreadLast, Two, Threads
<1>6. Lives'
  BY <1>1, <1>2, <1>3, <1>4 DEF ThreadsInv, Lives, Born, EndOf, MainLast, ThreadLast, Two, Threads
<1>7. Ended'
  BY <1>1, <1>2, <1>3, <1>4 DEF ThreadsInv, Ended, MainLast, Two, Three, Threads
<1>8. Detached'
  BY <1>1, <1>2, <1>3, <1>4 DEF ThreadsInv, Detached, Two, Threads
<1>9. Results'
  BY <1>1, <1>2, <1>3, <1>4 DEF ThreadsInv, Results, JoinAt, Result, Two, Threads
<1>10. Object'
  BY <1>1, <1>2, <1>3, <1>4 DEF ThreadsInv, Object, MainLast, Two, Threads
<1>11. Barrier'
  BY <1>1, <1>2, <1>3, <1>4 DEF ThreadsInv, Barrier, Two, Three, Threads
<1>12. Key'
  BY <1>1, <1>2, <1>3, <1>4 DEF ThreadsInv, Key, Two, Three, Last, Threads
<1>13. Down'
  BY <1>1, <1>2, <1>3, <1>4 DEF ThreadsInv, Down, Two, Threads
<1>14. Mutexes'
  BY <1>1, <1>2, <1>3, <1>4 DEF ThreadsInv, Mutexes, Two, Threads
<1> QED BY <1>5, <1>6, <1>7, <1>8, <1>9, <1>10, <1>11, <1>12, <1>13, <1>14 DEF ThreadsInv

\* The key is created once, before anybody goes on.
LEMMA OnceKeeps ==
    ASSUME ThreadsInv, NEW t \in Threads, Once(t)
    PROVE  ThreadsInv'
<1>1. /\ Calls(t, "once")
      /\ UNCHANGED <<ended, state, detached, joined, stale, n, got, obj, arrived, sem, value,
                      spec, freed, cancels, seen, locks>>
      /\ \/ once = "new" /\ once' = t /\ at' = at /\ keys' = keys
         \/ once = t /\ keys' = keys + 1 /\ once' = "done" /\ Step(t)
         \/ once = "done" /\ Step(t) /\ once' = once /\ keys' = keys
  BY DEF Once, life, result, shared, private, cancel
<1>2. /\ prog' = prog /\ prog \in Progs /\ state[t] = "runs" /\ at[t] \in 1..EndOf(t)
      /\ t = "child" => prog = "atfork" /\ at["main"] > 5
      /\ t # "child" => ended = "no"
      /\ prog = "key" /\ t \in Three /\ at[t] = 3
  BY <1>1, Calling, Located DEF Two, Three
<1>3. /\ at' \in [Threads -> Nat]
      /\ \A v \in Threads : at[v] \in Nat /\ (v # t => at'[v] = at[v])
      /\ once \notin Threads \/ once \in Three
      /\ \/ once = "new" /\ once' = t /\ at'[t] = 3 /\ keys = 0 /\ keys' = 0
         \/ once = t /\ once' = "done" /\ at'[t] = 4 /\ keys = 0 /\ keys' = 1
         \/ once = "done" /\ once' = "done" /\ at'[t] = 4 /\ keys = 1 /\ keys' = 1
  BY <1>1, <1>2, Stepped DEF ThreadsInv, Key, Threads, Three
<1>4. ThreadsValues'
  BY <1>1, <1>2, <1>3 DEF ThreadsInv, ThreadsValues, EndOf, MainLast, ThreadLast, Two, Threads
<1>5. Lives'
  BY <1>1, <1>2, <1>3 DEF ThreadsInv, Lives, Born, EndOf, MainLast, ThreadLast, Two, Threads
<1>6. Ended'
  BY <1>1, <1>2, <1>3 DEF ThreadsInv, Ended, MainLast, Two, Three, Threads
<1>7. Detached'
  BY <1>1, <1>2, <1>3 DEF ThreadsInv, Detached, Two, Threads
<1>8. Results'
  BY <1>1, <1>2, <1>3 DEF ThreadsInv, Results, JoinAt, Result, Two, Threads
<1>9. Object'
  BY <1>1, <1>2, <1>3 DEF ThreadsInv, Object, MainLast, Two, Threads
<1>10. Barrier'
  BY <1>1, <1>2, <1>3 DEF ThreadsInv, Barrier, Two, Three, Threads
<1>11. Key'
  BY <1>1, <1>2, <1>3 DEF ThreadsInv, Key, Two, Three, Last, Threads
<1>12. Down'
  BY <1>1, <1>2, <1>3 DEF ThreadsInv, Down, Two, Threads
<1>13. Mutexes'
  BY <1>1, <1>2, <1>3 DEF ThreadsInv, Mutexes, Two, Threads
<1> QED BY <1>4, <1>5, <1>6, <1>7, <1>8, <1>9, <1>10, <1>11, <1>12, <1>13 DEF ThreadsInv

\* A thread sets its buffer under the one key, or has none.
LEMMA BufferKeeps ==
    ASSUME ThreadsInv, NEW t \in Threads, Buffer(t)
    PROVE  ThreadsInv'
<1>1. /\ Calls(t, "buffer") /\ Step(t)
      /\ \E key \in {keys, 0} : spec' = [spec EXCEPT ![t] = key]
      /\ n' = [n EXCEPT ![t] = 0]
      /\ UNCHANGED <<ended, state, detached, joined, stale, got, obj, arrived, sem, value, once,
                      keys, freed, cancels, seen, locks>>
  BY DEF Buffer, Goes, life, result, shared, private, cancel
<1>2. /\ prog' = prog /\ prog \in Progs /\ state[t] = "runs" /\ at[t] \in 1..EndOf(t)
      /\ t = "child" => prog = "atfork" /\ at["main"] > 5
      /\ t # "child" => ended = "no"
      /\ prog = "key" /\ t \in Three /\ at[t] = 4 /\ keys = 1 /\ once = "done"
  <2>1. prog = "key" /\ t \in Three /\ at[t] = 4
    BY <1>1, Calling, Located DEF Two, Three
  <2> QED BY <1>1, <2>1, Calling DEF ThreadsInv, Key
<1>3. /\ at' \in [Threads -> Nat] /\ at'[t] = at[t] + 1
      /\ \A v \in Threads : at[v] \in Nat /\ (v # t => at'[v] = at[v])
      /\ at'[t] = 5
  BY <1>1, <1>2, Stepped
<1>4. /\ spec' \in [Threads -> 0..1] /\ n' \in [Threads -> 0..13] /\ n'[t] = 0
      /\ \A u \in Threads : u # t => spec'[u] = spec[u] /\ n'[u] = n[u]
  BY <1>1, <1>2 DEF ThreadsInv, ThreadsValues
<1>5. ThreadsValues'
  BY <1>1, <1>2, <1>3, <1>4 DEF ThreadsInv, ThreadsValues, EndOf, MainLast, ThreadLast, Two, Threads
<1>6. Lives'
  BY <1>1, <1>2, <1>3, <1>4 DEF ThreadsInv, Lives, Born, EndOf, MainLast, ThreadLast, Two, Threads
<1>7. Ended'
  BY <1>1, <1>2, <1>3, <1>4 DEF ThreadsInv, Ended, MainLast, Two, Three, Threads
<1>8. Detached'
  BY <1>1, <1>2, <1>3, <1>4 DEF ThreadsInv, Detached, Two, Threads
<1>9. Results'
  BY <1>1, <1>2, <1>3, <1>4 DEF ThreadsInv, Results, JoinAt, Result, Two, Threads
<1>10. Object'
  BY <1>1, <1>2, <1>3, <1>4 DEF ThreadsInv, Object, MainLast, Two, Threads
<1>11. Barrier'
  BY <1>1, <1>2, <1>3, <1>4 DEF ThreadsInv, Barrier, Two, Three, Threads
<1>12. Key'
  BY <1>1, <1>2, <1>3, <1>4 DEF ThreadsInv, Key, Two, Three, Last, Threads
<1>13. Down'
  BY <1>1, <1>2, <1>3, <1>4 DEF ThreadsInv, Down, Two, Threads
<1>14. Mutexes'
  BY <1>1, <1>2, <1>3, <1>4 DEF ThreadsInv, Mutexes, Two, Threads
<1> QED BY <1>5, <1>6, <1>7, <1>8, <1>9, <1>10, <1>11, <1>12, <1>13, <1>14 DEF ThreadsInv

\* The number that is counted up is its own buffer's, or the shared one.
LEMMA IncrementKeeps ==
    ASSUME ThreadsInv, NEW t \in Threads, Increment(t)
    PROVE  ThreadsInv'
<1>1. /\ Calls(t, "next")
      /\ UNCHANGED <<state, detached, joined, stale, got, obj, arrived, sem, once, keys, spec,
                      freed, cancels, seen, locks>>
      /\ IF prog = "key" /\ spec[t] # keys
         THEN ended' = "undefined" /\ at' = at /\ n' = n /\ value' = value
         ELSE /\ Step(t) /\ ended' = ended /\ value' = (IF prog = "sem" THEN value + 1 ELSE value)
              /\ n' = [n EXCEPT ![t] = IF prog = "sem" THEN value + 1 ELSE @ + 1]
  BY DEF Increment, life, result, shared, private, cancel
<1>2. /\ prog' = prog /\ prog \in Progs /\ state[t] = "runs" /\ at[t] \in 1..EndOf(t)
      /\ t = "child" => prog = "atfork" /\ at["main"] > 5
      /\ t # "child" => ended = "no"
      /\ \/ prog = "sem" /\ t = "main" /\ at[t] = 4 /\ value < 7
         \/ prog = "key" /\ t \in Three /\ at[t] = 5 /\ keys = 1 /\ n[t] < Last(t)
  <2>1. \/ prog = "sem" /\ t = "main" /\ at[t] = 4
        \/ prog = "key" /\ t \in Three /\ at[t] = 5
    BY <1>1, Calling, Located DEF Two, Three
  <2> QED BY <1>1, <2>1, Calling DEF ThreadsInv, Key, Down
<1>3. /\ at' \in [Threads -> Nat]
      /\ \A v \in Threads : at[v] \in Nat /\ (v # t => at'[v] = at[v])
      /\ \/ prog = "key" /\ spec[t] = 0 /\ ended' = "undefined" /\ at' = at /\ n' = n /\ value' = value
         \/ /\ prog = "key" /\ spec[t] = 1 /\ ended' = ended /\ at'[t] = 6
            /\ n' = [n EXCEPT ![t] = @ + 1] /\ value' = value
         \/ /\ prog = "sem" /\ ended' = ended /\ at'[t] = 5
            /\ n' = [n EXCEPT ![t] = value + 1] /\ value' = value + 1
  <2>1. spec[t] \in 0..1
    BY DEF ThreadsInv, ThreadsValues
  <2> QED BY <1>1, <1>2, <2>1, Stepped
<1>4. /\ n' \in [Threads -> 0..13] /\ \A u \in Threads : u # t => n'[u] = n[u]
      /\ n'[t] = IF prog = "sem" THEN value' ELSE IF at'[t] = 6 THEN n[t] + 1 ELSE n[t]
      /\ prog = "key" => n'[t] \in Nat /\ n'[t] <= Last(t) /\ Last(t)' = Last(t)
  <2>1. (\A u \in Threads : n[u] \in 0..13) /\ value \in 0..7
    BY DEF ThreadsInv, ThreadsValues
  <2>2. Last(t) \in {4, 7, 10, 13} /\ Last(t)' = Last(t)
    BY <1>2 DEF Last
  <2>3. n'[t] \in 0..13 /\ n' = [n EXCEPT ![t] = n'[t]]
    BY <1>2, <1>3, <2>1, <2>2 DEF ThreadsInv, ThreadsValues
  <2>4. CASE prog = "sem"
    BY <1>2, <1>3, <2>1, <2>3, <2>4 DEF ThreadsInv, ThreadsValues
  <2>5. CASE prog = "key"
    BY <1>2, <1>3, <2>1, <2>2, <2>3, <2>5 DEF ThreadsInv, ThreadsValues
  <2> QED BY <1>2, <2>4, <2>5
<1>5. ThreadsValues'
  BY <1>1, <1>2, <1>3, <1>4 DEF ThreadsInv, ThreadsValues, EndOf, MainLast, ThreadLast, Two, Threads
<1>6. Lives'
  BY <1>1, <1>2, <1>3, <1>4 DEF ThreadsInv, Lives, Born, EndOf, MainLast, ThreadLast, Two, Threads
<1>7. Ended'
  BY <1>1, <1>2, <1>3, <1>4 DEF ThreadsInv, Ended, MainLast, Two, Three, Threads
<1>8. Detached'
  BY <1>1, <1>2, <1>3, <1>4 DEF ThreadsInv, Detached, Two, Threads
<1>9. Results'
  BY <1>1, <1>2, <1>3, <1>4 DEF ThreadsInv, Results, JoinAt, Result, Two, Threads
<1>10. Object'
  BY <1>1, <1>2, <1>3, <1>4 DEF ThreadsInv, Object, MainLast, Two, Threads
<1>11. Barrier'
  BY <1>1, <1>2, <1>3, <1>4 DEF ThreadsInv, Barrier, Two, Three, Threads
<1>12. Key'
  <2>1. CASE prog = "key"
    <3>1. \A u \in Three : Last(u)' = Last(u) /\ u \in Threads
      BY <1>2 DEF Last, Three, Threads
    <3> QED BY <1>1, <1>2, <1>3, <1>4, <2>1, <3>1 DEF ThreadsInv, Key
  <2>2. CASE prog = "sem"
    BY <1>1, <1>2, <1>3, <2>2 DEF ThreadsInv, Key
  <2> QED BY <1>2, <2>1, <2>2
<1>13. Down'
  BY <1>1, <1>2, <1>3, <1>4 DEF ThreadsInv, Down, Two, Threads
<1>14. Mutexes'
  BY <1>1, <1>2, <1>3, <1>4 DEF ThreadsInv, Mutexes, Two, Threads
<1> QED BY <1>5, <1>6, <1>7, <1>8, <1>9, <1>10, <1>11, <1>12, <1>13, <1>14 DEF ThreadsInv

\* The loops begin again at the number that is counted up, or at the semaphore.
LEMMA UntilKeeps ==
    ASSUME ThreadsInv, NEW t \in Threads, Until(t)
    PROVE  ThreadsInv'
<1>1. /\ Calls(t, "until")
      /\ UNCHANGED <<ended, state, detached, joined, stale, n, got, obj, arrived, sem, value,
                      once, keys, spec, freed, cancels, seen, locks>>
      /\ at' = [at EXCEPT ![t] = IF n[t] >= Last(t) THEN @ + 1 ELSE Pos(t, IF prog = "sem" THEN "wait" ELSE "next")]
  BY DEF Until, life, result, shared, private, cancel
<1>2. /\ prog' = prog /\ prog \in Progs /\ state[t] = "runs" /\ at[t] \in 1..EndOf(t)
      /\ t = "child" => prog = "atfork" /\ at["main"] > 5
      /\ t # "child" => ended = "no"
      /\ \/ prog = "sem" /\ t \in {"main", "t1"}
         \/ prog = "key" /\ t \in Three
      /\ at[t] = 6
  <2>1. prog \in {"sem", "key"}
    BY <1>1, Calling, Located
  <2>2. prog = "sem" => t # "t2"
    BY <1>1, Calling DEF Born, Two
  <2> QED BY <1>1, <2>1, <2>2, Calling, Located DEF Two, Three
<1>3. /\ at' \in [Threads -> Nat]
      /\ \A v \in Threads : at[v] \in Nat /\ (v # t => at'[v] = at[v])
      /\ at'[t] = IF n[t] >= Last(t) THEN 7 ELSE IF prog = "sem" THEN 3 ELSE 5
  <2>1. prog = "sem" => Pos(t, "wait") = 3
    BY <1>2, SemPlaces DEF Three
  <2>2. prog = "key" => Pos(t, "next") = 5
    BY <1>2, KeyPlaces
  <2> QED BY <1>1, <1>2, <2>1, <2>2, Stepped
<1>4. n[t] \in 0..13 /\ Last(t) \in {4, 7, 10, 13} /\ (prog = "sem" => Last(t) = IF t = "main" THEN 7 ELSE 4)
  BY DEF ThreadsInv, ThreadsValues, Last
<1>5. ThreadsValues'
  BY <1>1, <1>2, <1>3, <1>4 DEF ThreadsInv, ThreadsValues, EndOf, MainLast, ThreadLast, Two, Threads
<1>6. Lives'
  BY <1>1, <1>2, <1>3, <1>4 DEF ThreadsInv, Lives, Born, EndOf, MainLast, ThreadLast, Two, Threads
<1>7. Ended'
  BY <1>1, <1>2, <1>3, <1>4 DEF ThreadsInv, Ended, MainLast, Two, Three, Threads
<1>8. Detached'
  BY <1>1, <1>2, <1>3, <1>4 DEF ThreadsInv, Detached, Two, Threads
<1>9. Results'
  BY <1>1, <1>2, <1>3, <1>4 DEF ThreadsInv, Results, JoinAt, Result, Two, Threads
<1>10. Object'
  BY <1>1, <1>2, <1>3, <1>4 DEF ThreadsInv, Object, MainLast, Two, Threads
<1>11. Barrier'
  BY <1>1, <1>2, <1>3, <1>4 DEF ThreadsInv, Barrier, Two, Three, Threads
<1>12. Key'
  BY <1>1, <1>2, <1>3, <1>4 DEF ThreadsInv, Key, Two, Three, Last, Threads
<1>13. Down'
  <2>1. CASE prog = "sem" /\ t = "main"
    BY <1>1, <1>2, <1>3, <1>4, <2>1 DEF ThreadsInv, Down, Threads
  <2>2. CASE prog = "sem" /\ t = "t1"
    BY <1>1, <1>2, <1>3, <1>4, <2>2 DEF ThreadsInv, Down, Threads
  <2>3. CASE prog = "key"
    BY <1>2, <2>3 DEF Down
  <2> QED BY <1>2, <2>1, <2>2, <2>3
<1>14. Mutexes'
  BY <1>1, <1>2, <1>3, <1>4 DEF ThreadsInv, Mutexes, Two, Threads
<1> QED BY <1>5, <1>6, <1>7, <1>8, <1>9, <1>10, <1>11, <1>12, <1>13, <1>14 DEF ThreadsInv

\* A thread that was cancelled is over.
LEMMA CancelledKeeps ==
    ASSUME ThreadsInv, NEW t \in Threads, Cancelled(t)
    PROVE  ThreadsInv'
<1>1. /\ state[t] = "runs" /\ t \in cancels /\ prog' = prog /\ at' = at
      /\ state' = [state EXCEPT ![t] = "over"]
      /\ Body(t)[at[t]] \in {"run", "loop"}
      /\ UNCHANGED <<ended, detached, joined, stale, n, got, obj, arrived, sem, value, once,
                      keys, spec, freed, cancels, seen, locks>>
  BY DEF Cancelled, Live, life, result, shared, private, cancel
<1>2. prog \in Progs /\ prog = "cancel" /\ t \in Two /\ at[t] \in 1..EndOf(t) /\ at[t] > 1
  <2>1. prog \in Progs /\ prog = "cancel" /\ t \in Two /\ at[t] \in 1..EndOf(t)
    BY <1>1 DEF ThreadsInv, ThreadsValues, Lives
  <2> QED BY <1>1, <2>1, Located DEF Two
<1>3. at \in [Threads -> Nat] /\ \A v \in Threads : at[v] \in Nat
  BY Stepped DEF Threads
<1>4. /\ state' \in [Threads -> {"none", "failed", "runs", "over"}] /\ state'[t] = "over"
      /\ \A u \in Threads : u # t => state'[u] = state[u]
  BY <1>1 DEF ThreadsInv, ThreadsValues
<1>5. ThreadsValues'
  BY <1>1, <1>2, <1>3, <1>4 DEF ThreadsInv, ThreadsValues, EndOf, MainLast, ThreadLast, Two, Threads
<1>6. Lives'
  BY <1>1, <1>2, <1>3, <1>4 DEF ThreadsInv, Lives, Born, EndOf, MainLast, ThreadLast, Two, Threads
<1>7. Ended'
  BY <1>1, <1>2, <1>3, <1>4 DEF ThreadsInv, Ended, MainLast, Two, Three, Threads
<1>8. Detached'
  BY <1>1, <1>2, <1>3, <1>4 DEF ThreadsInv, Detached, Two, Threads
<1>9. Results'
  BY <1>1, <1>2, <1>3, <1>4 DEF ThreadsInv, Results, JoinAt, Result, Two, Threads
<1>10. Object'
  BY <1>1, <1>2, <1>3, <1>4 DEF ThreadsInv, Object, MainLast, Two, Threads
<1>11. Barrier'
  BY <1>1, <1>2, <1>3, <1>4 DEF ThreadsInv, Barrier, Two, Three, Threads
<1>12. Key'
  BY <1>1, <1>2, <1>3, <1>4 DEF ThreadsInv, Key, Two, Three, Last, Threads
<1>13. Down'
  BY <1>1, <1>2, <1>3, <1>4 DEF ThreadsInv, Down, Two, Threads
<1>14. Mutexes'
  BY <1>1, <1>2, <1>3, <1>4 DEF ThreadsInv, Mutexes, Two, Threads
<1> QED BY <1>5, <1>6, <1>7, <1>8, <1>9, <1>10, <1>11, <1>12, <1>13, <1>14 DEF ThreadsInv

\* The mutexes are locked in their order, by main alone.
LEMMA LockKeeps ==
    ASSUME ThreadsInv, NEW t \in Threads, NEW m \in {"1", "2"}, LockMutex(t, m)
    PROVE  ThreadsInv'
<1>1. /\ m = "1" => Calls(t, "lock1")
      /\ m = "2" => Calls(t, "lock2")
      /\ Step(t) /\ locks' = [locks EXCEPT ![Process(t)] = @ \cup {m}]
      /\ UNCHANGED <<ended, state, detached, joined, stale, n, got, obj, arrived, sem, value,
                      once, keys, spec, freed, cancels, seen>>
  BY DEF LockMutex, Goes, Of, life, result, shared, private, cancel
<1>2. /\ prog' = prog /\ prog \in Progs /\ state[t] = "runs" /\ at[t] \in 1..EndOf(t)
      /\ t = "child" => prog = "atfork" /\ at["main"] > 5
      /\ t # "child" => ended = "no"
      /\ t = "main" /\ prog = "atfork" /\ at[t] = IF m = "1" THEN 3 ELSE 4
  <2>1. CASE m = "1"
    BY <1>1, <2>1, Calling, Located
  <2>2. CASE m = "2"
    BY <1>1, <2>2, Calling, Located
  <2> QED BY <2>1, <2>2
<1>3. /\ at' \in [Threads -> Nat] /\ at'[t] = at[t] + 1
      /\ \A v \in Threads : at[v] \in Nat /\ (v # t => at'[v] = at[v])
  BY <1>1, Stepped
<1>4. /\ locks' \in [{"main", "child"} -> SUBSET {"1", "2"}]
      /\ locks'["main"] = locks["main"] \cup {m} /\ locks'["child"] = locks["child"]
  BY <1>1, <1>2 DEF ThreadsInv, ThreadsValues, Process
<1>5. ThreadsValues'
  BY <1>1, <1>2, <1>3, <1>4 DEF ThreadsInv, ThreadsValues, EndOf, MainLast, ThreadLast, Two, Threads
<1>6. Lives'
  BY <1>1, <1>2, <1>3, <1>4 DEF ThreadsInv, Lives, Born, EndOf, MainLast, ThreadLast, Two, Threads
<1>7. Ended'
  BY <1>1, <1>2, <1>3, <1>4 DEF ThreadsInv, Ended, MainLast, Two, Three, Threads
<1>8. Detached'
  BY <1>1, <1>2, <1>3, <1>4 DEF ThreadsInv, Detached, Two, Threads
<1>9. Results'
  BY <1>1, <1>2, <1>3, <1>4 DEF ThreadsInv, Results, JoinAt, Result, Two, Threads
<1>10. Object'
  BY <1>1, <1>2, <1>3, <1>4 DEF ThreadsInv, Object, MainLast, Two, Threads
<1>11. Barrier'
  BY <1>1, <1>2, <1>3, <1>4 DEF ThreadsInv, Barrier, Two, Three, Threads
<1>12. Key'
  BY <1>1, <1>2, <1>3, <1>4 DEF ThreadsInv, Key, Two, Three, Last, Threads
<1>13. Down'
  BY <1>1, <1>2, <1>3, <1>4 DEF ThreadsInv, Down, Two, Threads
<1>14. Mutexes'
  <2>1. CASE m = "1"
    BY <1>1, <1>2, <1>3, <1>4, <2>1 DEF ThreadsInv, Mutexes, Process, Threads
  <2>2. CASE m = "2"
    BY <1>1, <1>2, <1>3, <1>4, <2>2 DEF ThreadsInv, Mutexes, Process, Threads
  <2> QED BY <2>1, <2>2
<1> QED BY <1>5, <1>6, <1>7, <1>8, <1>9, <1>10, <1>11, <1>12, <1>13, <1>14 DEF ThreadsInv

\* They are unlocked on both sides of the fork.
LEMMA UnlockKeeps ==
    ASSUME ThreadsInv, NEW t \in Threads, NEW m \in {"1", "2"}, UnlockMutex(t, m)
    PROVE  ThreadsInv'
<1>1. /\ m = "1" => Calls(t, "unlock1")
      /\ m = "2" => Calls(t, "unlock2")
      /\ Step(t) /\ locks' = [locks EXCEPT ![Process(t)] = @ \ {m}]
      /\ UNCHANGED <<ended, state, detached, joined, stale, n, got, obj, arrived, sem, value,
                      once, keys, spec, freed, cancels, seen>>
  BY DEF UnlockMutex, Goes, Of, life, result, shared, private, cancel
<1>2. /\ prog' = prog /\ prog \in Progs /\ state[t] = "runs" /\ at[t] \in 1..EndOf(t)
      /\ t = "child" => prog = "atfork" /\ at["main"] > 5
      /\ t # "child" => ended = "no"
      /\ prog = "atfork"
      /\ \/ t = "main" /\ at[t] = IF m = "1" THEN 6 ELSE 7
         \/ t = "child" /\ at[t] = IF m = "1" THEN 1 ELSE 2
  <2>1. CASE m = "1"
    BY <1>1, <2>1, Calling, Located
  <2>2. CASE m = "2"
    BY <1>1, <2>2, Calling, Located
  <2> QED BY <2>1, <2>2
<1>3. /\ at' \in [Threads -> Nat] /\ at'[t] = at[t] + 1
      /\ \A v \in Threads : at[v] \in Nat /\ (v # t => at'[v] = at[v])
  BY <1>1, Stepped
<1>4. /\ locks' \in [{"main", "child"} -> SUBSET {"1", "2"}]
      /\ locks'[Process(t)] = locks[Process(t)] \ {m}
      /\ \A p \in {"main", "child"} : p # Process(t) => locks'[p] = locks[p]
  BY <1>1 DEF ThreadsInv, ThreadsValues, Process
<1>5. ThreadsValues'
  BY <1>1, <1>2, <1>3, <1>4 DEF ThreadsInv, ThreadsValues, EndOf, MainLast, ThreadLast, Two, Threads
<1>6. Lives'
  BY <1>1, <1>2, <1>3, <1>4 DEF ThreadsInv, Lives, Born, EndOf, MainLast, ThreadLast, Two, Threads
<1>7. Ended'
  BY <1>1, <1>2, <1>3, <1>4 DEF ThreadsInv, Ended, MainLast, Two, Three, Threads
<1>8. Detached'
  BY <1>1, <1>2, <1>3, <1>4 DEF ThreadsInv, Detached, Two, Threads
<1>9. Results'
  BY <1>1, <1>2, <1>3, <1>4 DEF ThreadsInv, Results, JoinAt, Result, Two, Threads
<1>10. Object'
  BY <1>1, <1>2, <1>3, <1>4 DEF ThreadsInv, Object, MainLast, Two, Threads
<1>11. Barrier'
  BY <1>1, <1>2, <1>3, <1>4 DEF ThreadsInv, Barrier, Two, Three, Threads
<1>12. Key'
  BY <1>1, <1>2, <1>3, <1>4 DEF ThreadsInv, Key, Two, Three, Last, Threads
<1>13. Down'
  BY <1>1, <1>2, <1>3, <1>4 DEF ThreadsInv, Down, Two, Threads
<1>14. Mutexes'
  <2>1. {"1", "2"} \ {"1"} = {"2"} /\ {"2"} \ {"2"} = {}
    OBVIOUS
  <2>2. CASE t = "main"
    <3>1. locks'["child"] = locks["child"] /\ at'["child"] = at["child"] /\ state' = state
      BY <1>1, <1>3, <1>4, <2>2 DEF Process, Threads
    <3>2. CASE m = "1"
      <4>1. locks'["main"] = {"2"} /\ at'["main"] = 7
        BY <1>2, <1>3, <1>4, <2>1, <2>2, <3>2 DEF ThreadsInv, Mutexes, Process
      <4> QED BY <1>2, <3>1, <4>1 DEF ThreadsInv, Mutexes
    <3>3. CASE m = "2"
      <4>1. locks'["main"] = {} /\ at'["main"] = 8
        BY <1>2, <1>3, <1>4, <2>1, <2>2, <3>3 DEF ThreadsInv, Mutexes, Process
      <4> QED BY <1>2, <3>1, <4>1 DEF ThreadsInv, Mutexes
    <3> QED BY <3>2, <3>3
  <2>3. CASE t = "child"
    <3>1. locks'["main"] = locks["main"] /\ at'["main"] = at["main"] /\ state' = state /\ state["child"] = "runs"
      BY <1>1, <1>2, <1>3, <1>4, <2>3 DEF Process, Threads, Calls, Live
    <3>2. CASE m = "1"
      <4>1. locks'["child"] = {"2"} /\ at'["child"] = 2
        BY <1>2, <1>3, <1>4, <2>1, <2>3, <3>1, <3>2 DEF ThreadsInv, Mutexes, Process
      <4> QED BY <1>2, <3>1, <4>1 DEF ThreadsInv, Mutexes
    <3>3. CASE m = "2"
      <4>1. locks'["child"] = {} /\ at'["child"] = 3
        BY <1>2, <1>3, <1>4, <2>1, <2>3, <3>1, <3>3 DEF ThreadsInv, Mutexes, Process
      <4> QED BY <1>2, <3>1, <4>1 DEF ThreadsInv, Mutexes
    <3> QED BY <3>2, <3>3
  <2> QED BY <1>2, <2>2, <2>3
<1> QED BY <1>5, <1>6, <1>7, <1>8, <1>9, <1>10, <1>11, <1>12, <1>13, <1>14 DEF ThreadsInv

\* The child starts with both mutexes locked, or there is none.
LEMMA ForkKeeps ==
    ASSUME ThreadsInv, Fork
    PROVE  ThreadsInv'
<1>1. /\ Calls("main", "fork")
      /\ Step("main")
      /\ \/ /\ state' = [state EXCEPT !["child"] = "runs"]
            /\ locks' = [locks EXCEPT !["child"] = locks["main"]]
         \/ state' = [state EXCEPT !["child"] = "failed"] /\ locks' = locks
      /\ UNCHANGED <<ended, detached, joined, stale, n, got, obj, arrived, sem, value, once,
                      keys, spec, freed, cancels, seen>>
  BY DEF Fork, Goes, life, result, shared, private, cancel
<1>2. /\ prog' = prog /\ prog \in Progs /\ at["main"] \in 1..EndOf("main") /\ ended = "no"
      /\ prog = "atfork" /\ at["main"] = 5
  BY <1>1, Calling, Located DEF Threads
<1>3. /\ at' \in [Threads -> Nat] /\ at'["main"] = at["main"] + 1
      /\ \A v \in Threads : at[v] \in Nat /\ (v # "main" => at'[v] = at[v])
      /\ at'["main"] = 6
  BY <1>1, <1>2, Stepped DEF Threads
<1>4. /\ state' \in [Threads -> {"none", "failed", "runs", "over"}] /\ at["child"] = 1
      /\ \A u \in Threads : u # "child" => state'[u] = state[u]
      /\ locks' \in [{"main", "child"} -> SUBSET {"1", "2"}] /\ locks'["main"] = {"1", "2"}
      /\ \/ state'["child"] = "runs" /\ locks'["child"] = {"1", "2"}
         \/ state'["child"] = "failed" /\ locks'["child"] = {}
  BY <1>1, <1>2 DEF ThreadsInv, ThreadsValues, Lives, Born, Mutexes, Two, Threads
<1>5. ThreadsValues'
  BY <1>1, <1>2, <1>3, <1>4 DEF ThreadsInv, ThreadsValues, EndOf, MainLast, ThreadLast, Two, Threads
<1>6. Lives'
  BY <1>1, <1>2, <1>3, <1>4 DEF ThreadsInv, Lives, Born, EndOf, MainLast, ThreadLast, Two, Threads
<1>7. Ended'
  BY <1>1, <1>2, <1>3, <1>4 DEF ThreadsInv, Ended, MainLast, Two, Three, Threads
<1>8. Detached'
  BY <1>1, <1>2, <1>3, <1>4 DEF ThreadsInv, Detached, Two, Threads
<1>9. Results'
  BY <1>1, <1>2, <1>3, <1>4 DEF ThreadsInv, Results, JoinAt, Result, Two, Threads
<1>10. Object'
  BY <1>1, <1>2, <1>3, <1>4 DEF ThreadsInv, Object, MainLast, Two, Threads
<1>11. Barrier'
  BY <1>1, <1>2, <1>3, <1>4 DEF ThreadsInv, Barrier, Two, Three, Threads
<1>12. Key'
  BY <1>1, <1>2, <1>3, <1>4 DEF ThreadsInv, Key, Two, Three, Last, Threads
<1>13. Down'
  BY <1>1, <1>2, <1>3, <1>4 DEF ThreadsInv, Down, Two, Threads
<1>14. Mutexes'
  BY <1>1, <1>2, <1>3, <1>4 DEF ThreadsInv, Mutexes, Two, Threads
<1> QED BY <1>5, <1>6, <1>7, <1>8, <1>9, <1>10, <1>11, <1>12, <1>13, <1>14 DEF ThreadsInv
-----------------------------------------------------------------------------
\* The programs are those that have a text for main.
LEMMA Programs == DOMAIN Mains = Progs
  BY DEF Mains, Progs

\* The initial state of every program is one of the invariant.
LEMMA ThreadsStart == ThreadsInit => ThreadsInv
<1> SUFFICES ASSUME ThreadsInit PROVE ThreadsInv
  OBVIOUS
<1> USE DEF ThreadsInit
<1>1. prog \in Progs
  BY Programs
<1>2. \A t \in Threads : EndOf(t) \in 2..19
  BY <1>1, Lengths
<1>3. MainLast \in 3..19
  BY <1>1 DEF MainLast
<1>4. ThreadsValues
  BY <1>1, <1>2 DEF ThreadsValues, Threads
<1>5. Lives
  BY <1>1 DEF Lives, Born, Two, Threads
<1>6. Results
  BY <1>1 DEF Results, JoinAt, Two, Threads
<1>7. Object
  BY <1>1, <1>3 DEF Object, Threads
<1>8. Key
  BY <1>1 DEF Key, Three, Last, Threads
<1>9. Ended /\ Detached /\ Barrier
  BY <1>3 DEF Ended, Detached, Barrier, Two, Three, Threads
<1>10. Down /\ Mutexes
  BY DEF Down, Mutexes, Threads
<1> QED BY <1>4, <1>5, <1>6, <1>7, <1>8, <1>9, <1>10 DEF ThreadsInv

\* Every step of every program keeps the invariant.
LEMMA ThreadsStep == ThreadsInv /\ [ThreadsNext]_threadsVars => ThreadsInv'
<1> SUFFICES ASSUME ThreadsInv, [ThreadsNext]_threadsVars PROVE ThreadsInv'
  OBVIOUS
<1>1. ASSUME UNCHANGED threadsVars PROVE ThreadsInv'
  BY <1>1 DEF threadsVars, life, result, shared, private, cancel, ThreadsInv, ThreadsValues, Lives, Ended,
     Detached, Results, Object, Barrier, Key, Down, Mutexes, Born, EndOf, MainLast, ThreadLast, JoinAt,
     Result, Last
<1>2. ASSUME NEW t \in Threads, Thread(t) PROVE ThreadsInv'
  <2>1. CASE Run(t) \/ End(t) \/ DetachSelf(t) \/ Set(t) \/ Arrive(t) \/ Pass(t) \/ Post(t) \/ Read(t)
    BY <2>1, RunKeeps, EndKeeps, DetachSelfKeeps, SetKeeps, ArriveKeeps, PassKeeps, PostKeeps, ReadKeeps
  <2>2. CASE Once(t) \/ Buffer(t) \/ Increment(t) \/ Until(t) \/ Cancelled(t)
    BY <2>2, OnceKeeps, BufferKeeps, IncrementKeeps, UntilKeeps, CancelledKeeps
  <2>3. CASE \E m \in {"1", "2"} : LockMutex(t, m) \/ UnlockMutex(t, m)
    BY <2>3, LockKeeps, UnlockKeeps
  <2>4. CASE Exit \/ InitObject \/ Destroy \/ Fork \/ Detach
    BY <2>4, ExitKeeps, InitKeeps, DestroyKeeps, ForkKeeps, DetachKeeps
  <2>5. CASE \E u \in {"t1", "t2"} : Create(u) \/ NoId(u) \/ Join(u) \/ Cancel(u) \/ Probe(u)
    BY <2>5, CreateKeeps, NoIdKeeps, JoinKeeps, CancelKeeps, ProbeKeeps DEF Two
  <2> QED BY <1>2, <2>1, <2>2, <2>3, <2>4, <2>5 DEF Thread
<1> QED BY <1>1, <1>2, WaitKeeps DEF ThreadsNext, Idle

\* The invariant of all programs about threads.
THEOREM ThreadsInvariance == ThreadsSpec => []ThreadsInv
  BY ThreadsStart, ThreadsStep, PTL DEF ThreadsSpec

\* A place within a text of at most 19 calls is one of 1..19.
LEMMA Within ==
    ASSUME NEW place, NEW length, NEW end, end \in 2..19, length = end, place \in 1..end
    PROVE  place \in 1..19 /\ place <= length
  OBVIOUS

\* Nobody passes the barrier before all three threads are there, a barrier or
\* semaphore is there while it is used, there is one key, and no mutex stays locked
\* behind fork: what the threads share is there, and whole, when they use it.
THEOREM SharedIsWhole == ThreadsSpec => []Safety
<1>1. ThreadsInv => ThreadsTypeOK
  <2> SUFFICES ASSUME ThreadsInv PROVE ThreadsTypeOK
    OBVIOUS
  <2>1. prog \in Progs /\ \A t \in Threads : at[t] \in 1..EndOf(t)
    BY DEF ThreadsInv, ThreadsValues
  <2>2. \A t \in Threads : Len(Body(t)) = EndOf(t) /\ EndOf(t) \in 2..19
    BY <2>1, Lengths
  <2>3. Len(CancelMain) = 19
    BY CancelTexts
  <2>4. /\ at \in [Threads -> 1..Len(CancelMain)]
        /\ \A t \in Threads : at[t] <= Len(Body(t))
    <3>1. at \in [Threads -> Nat]
      BY DEF ThreadsInv, ThreadsValues
    <3>2. ASSUME NEW t \in Threads PROVE at[t] \in 1..19 /\ at[t] <= Len(Body(t))
      <4>1. /\ at[t] \in 1..EndOf(t)
            /\ Len(Body(t)) = EndOf(t)
            /\ EndOf(t) \in 2..19
        BY <2>1, <2>2
      <4> QED BY <4>1, Within, Zenon
    <3>3. at \in [Threads -> 1..19]
      BY <3>1, <3>2
    <3> QED BY <2>3, <3>2, <3>3
  <2>5. prog \in {"key", "sem"} => n["main"] <= Last("main")
    BY DEF ThreadsInv, ThreadsValues, Key, Down, Last, Three
  <2>6. keys \in 0..3 /\ spec \in [Threads -> 0..3]
    BY DEF ThreadsInv, ThreadsValues
  <2> QED BY <2>1, <2>4, <2>5, <2>6, Programs DEF ThreadsInv, ThreadsValues, ThreadsTypeOK
<1>2. ThreadsInv => Together
  <2> SUFFICES ASSUME ThreadsInv, prog = "barrier", NEW t \in Threads, Passed(t, "barrier")
               PROVE  arrived = {"main", "t1", "t2"}
    BY DEF Together
  <2>1. PICK i \in 1..(at[t] - 1) : Body(t)[i] = "barrier"
    BY DEF Passed
  <2>2. at[t] \in Nat /\ at[t] \in 1..EndOf(t)
    BY DEF ThreadsInv, ThreadsValues
  <2>3. CASE t = "main"
    <3>1. i \in 1..8 /\ BarrierMain[i] = "barrier"
      BY <2>1, <2>2, <2>3, Bodies, Lasts DEF EndOf
    <3>2. i = 4
      BY <3>1, BarrierTexts
    <3> QED BY <2>1, <2>2, <2>3, <3>2 DEF ThreadsInv, Barrier, Three
  <2>4. CASE t \in Two
    <3>1. i \in 1..3 /\ BarrierThread[i] = "barrier"
      BY <2>1, <2>2, <2>4, Bodies, Lasts DEF EndOf, Two
    <3>2. i = 2
      BY <3>1, BarrierTexts
    <3> QED BY <2>1, <2>2, <2>4, <3>2 DEF ThreadsInv, Barrier, Three
  <2>5. t # "child"
    BY <2>1, <2>2 DEF ThreadsInv, Lives, Born, Two
  <2> QED BY <2>3, <2>4, <2>5 DEF Threads, Two
<1>3. ThreadsInv => UsedWhileReady
  <2> SUFFICES ASSUME ThreadsInv, obj # "ready", NEW t \in Threads, Live(t),
                      NEW call \in {"barrier", "wait", "post"}, Body(t)[at[t]] = call
               PROVE  prog = "sem" /\ t = "t1" /\ (n[t] < Last(t) \/ call = "post")
    BY DEF UsedWhileReady
  <2>1. prog \in Progs /\ at[t] \in 1..EndOf(t) /\ state[t] = "runs" /\ at["main"] \in 1..EndOf("main")
    BY DEF ThreadsInv, ThreadsValues, Live, Threads
  <2>2. /\ t = "main" /\ prog = "barrier" => at[t] = 4
        /\ t = "main" /\ prog = "sem" => at[t] \in {3, 5}
        /\ t \in Two /\ prog = "sem" => at[t] = IF call = "post" THEN 5 ELSE 3
        /\ prog \in {"barrier", "sem"} /\ t \in Two \cup {"main"}
    BY <2>1, Located DEF Two
  <2>3. t \in Two => Born(t)
    BY <2>1 DEF ThreadsInv, Lives
  <2>4. CASE prog = "barrier"
    <3>1. at["main"] \in {1, 8}
      BY <2>1, <2>4, Lasts DEF ThreadsInv, Object, MainLast
    <3>2. t \in Two /\ at["main"] = 8
      BY <2>2, <2>3, <2>4, <3>1 DEF Born, Two
    <3>3. t \in joined
      BY <2>4, <3>2 DEF ThreadsInv, Results, JoinAt
    <3> QED BY <2>1, <2>4, <3>3 DEF ThreadsInv, Results
  <2>5. CASE prog = "sem"
    <3>1. at["main"] \in {1, 8}
      BY <2>1, <2>5, Lasts DEF ThreadsInv, Object, MainLast
    <3>2. t = "t1"
      BY <2>2, <2>3, <2>5, <3>1 DEF Born, Two
    <3>3. call = "post" \/ n[t] < Last(t)
      BY <2>2, <2>5, <3>2 DEF ThreadsInv, Down, Last, Two
    <3> QED BY <2>5, <3>2, <3>3
  <2> QED BY <2>2, <2>4, <2>5
<1>4. ThreadsInv => OneKey
  <2> SUFFICES ASSUME ThreadsInv PROVE OneKey
    OBVIOUS
  <2>1. ASSUME prog = "key", NEW t \in Three, at[t] > 4 PROVE t \in Threads /\ Passed(t, "buffer")
    <3>1. Body(t)[4] = "buffer" /\ t \in Threads
      BY <2>1, Bodies, KeyTexts DEF Three, Threads
    <3>2. 4 \in 1..(at[t] - 1)
      BY <2>1, <3>1 DEF ThreadsInv, ThreadsValues
    <3> QED BY <3>1, <3>2 DEF Passed
  <2>2. keys <= 1
    BY DEF ThreadsInv, ThreadsValues
  <2>3. Three \subseteq Threads
    BY DEF Three, Threads
  <2> QED BY <2>1, <2>2, <2>3 DEF ThreadsInv, Ended, OneKey, Two
<1>5. ThreadsInv => LocksFree
  <2> SUFFICES ASSUME ThreadsInv PROVE LocksFree
    OBVIOUS
  <2>1. ended = "exit" => locks["main"] = {}
    BY DEF ThreadsInv, Ended, MainLast, Mutexes
  <2>2. state["child"] = "over" => at["child"] = 4
    BY DEF ThreadsInv, Lives, Born, EndOf
  <2> QED BY <2>1, <2>2 DEF ThreadsInv, Mutexes, LocksFree
<1> QED BY <1>1, <1>2, <1>3, <1>4, <1>5, ThreadsInvariance, PTL DEF Safety

\* A result is read of a thread that is over, and is the one it has set; an id is
\* used of a thread that is gone only where 12-04 and 12-14 do so; what a thread
\* leaves is given back; main sees a thread die only when it was cancelled.
THEOREM KnownAtTheEnd == ThreadsSpec => []AfterTheEnd
<1>1. ThreadsInv => JoinGets
  <2> SUFFICES ASSUME ThreadsInv, prog = "join", NEW t \in joined
               PROVE  state[t] = "over" /\ got[t] = Result(t)
    BY DEF JoinGets, Result
  <2> QED BY DEF ThreadsInv, ThreadsValues, Results
<1>2. ThreadsInv => StaleIds
  BY DEF ThreadsInv, Detached, StaleIds
<1>3. ThreadsInv => Reclaimed
  <2> SUFFICES ASSUME ThreadsInv, NEW t \in Two, state[t] = "over"
               PROVE  /\ ended = "exit" => prog = "create" \/ t \in detached \cup joined
                      /\ prog = "key" => t \in freed
    BY DEF Reclaimed, Two
  <2>1. prog \in Progs /\ t \in Threads
    BY DEF ThreadsInv, ThreadsValues, Two, Threads
  <2>2. prog = "key" => t \in freed
    BY DEF ThreadsInv, Key, Two, Three
  <2>3. ASSUME ended = "exit", prog \in {"join", "barrier"} PROVE t \in joined
    <3>1. at["main"] = IF prog = "join" THEN 5 ELSE 8
      BY <2>3 DEF ThreadsInv, Ended, MainLast
    <3>2. JoinAt(t) < at["main"]
      BY <2>3, <3>1 DEF JoinAt
    <3> QED BY <2>1, <2>3, <3>1, <3>2 DEF ThreadsInv, Results, JoinAt
  <2>4. ASSUME prog \in {"detach", "key", "cancel", "atfork", "sem"} PROVE t \in detached
    <3>1. at[t] > 1
      BY <2>4 DEF ThreadsInv, Lives, EndOf, ThreadLast, Two
    <3> QED BY <2>4, <3>1 DEF ThreadsInv, Detached
  <2> QED BY <2>1, <2>2, <2>3, <2>4 DEF Progs
<1>4. ThreadsInv => AliveUntilCancelled
  BY DEF ThreadsInv, Lives, Detached, AliveUntilCancelled, Two
<1> QED BY <1>1, <1>2, <1>3, <1>4, ThreadsInvariance, PTL DEF AfterTheEnd

\* A step moves one thread.
LEMMA OneMoves ==
    ASSUME ThreadsInv, [ThreadsNext]_threadsVars
    PROVE  prog' = prog /\ \E t \in Threads : \A u \in Threads : u # t => at'[u] = at[u]
<1>1. ASSUME NEW t \in Threads, prog' = prog, at' = at \/ Step(t) \/ \E i : at' = [at EXCEPT ![t] = i]
      PROVE  prog' = prog /\ \E x \in Threads : \A u \in Threads : u # x => at'[u] = at[u]
  BY <1>1 DEF Step, ThreadsInv, ThreadsValues
<1>2. "main" \in Threads
  BY DEF Threads
<1>3. CASE UNCHANGED threadsVars \/ Idle
  BY <1>1, <1>2, <1>3 DEF threadsVars, Idle
<1>4. ASSUME NEW t \in Threads, Thread(t) \/ Wait(t)
      PROVE  prog' = prog /\ \E x \in Threads : \A u \in Threads : u # x => at'[u] = at[u]
  <2>1. CASE Run(t) \/ DetachSelf(t) \/ Set(t) \/ Pass(t) \/ Post(t) \/ Read(t) \/ Buffer(t) \/ Wait(t)
    BY <1>1, <2>1 DEF Run, DetachSelf, Set, Pass, Post, Read, Buffer, Wait, Goes, Calls
  <2>2. CASE End(t) \/ Arrive(t) \/ Cancelled(t)
    BY <1>1, <2>2 DEF End, Arrive, Cancelled, Calls
  <2>3. CASE Once(t) \/ Increment(t)
    BY <1>1, <2>3 DEF Once, Increment, Calls
  <2>4. CASE Until(t)
    <3>1. prog' = prog /\ \E i : at' = [at EXCEPT ![t] = i]
      BY <2>4 DEF Until, Calls, ThreadsInv, ThreadsValues
    <3> QED BY <1>1, <3>1
  <2>5. CASE \E m \in {"1", "2"} : LockMutex(t, m) \/ UnlockMutex(t, m)
    BY <1>1, <2>5 DEF LockMutex, UnlockMutex, Goes, Calls
  <2>6. CASE Exit \/ InitObject \/ Destroy \/ Fork \/ Detach
    BY <1>1, <1>2, <2>6 DEF Exit, InitObject, Destroy, Fork, Detach, Uses, Goes, Calls
  <2>7. CASE \E u \in {"t1", "t2"} : Create(u) \/ NoId(u) \/ Join(u) \/ Cancel(u) \/ Probe(u)
    BY <1>1, <1>2, <2>7 DEF Create, NoId, Join, Cancel, Probe, Uses, Goes, Calls
  <2> QED BY <1>4, <2>1, <2>2, <2>3, <2>4, <2>5, <2>6, <2>7 DEF Thread
<1> QED BY <1>3, <1>4 DEF ThreadsNext

\* The threads of sem_init that have the semaphore are behind "wait" and not behind "post".
LEMMA GuardedPlaces ==
    ASSUME ThreadsInv, NEW t \in Threads
    PROVE  t \in Guarded <=> prog = "sem" /\ t \in {"main", "t1"} /\ at[t] \in {4, 5}
<1>1. prog \in Progs /\ at[t] \in 1..EndOf(t)
  BY DEF ThreadsInv, ThreadsValues
<1>2. ASSUME t \in Guarded PROVE prog = "sem" /\ t \in {"main", "t1"} /\ at[t] \in {4, 5}
  <2>1. prog = "sem" /\ state[t] = "runs" /\ Body(t)[at[t]] \in {"next", "read", "post"}
    BY <1>2 DEF Guarded
  <2>2. t \in {"main", "t1"}
    BY <2>1 DEF ThreadsInv, Lives, Born, Two, Threads
  <2>3. at[t] \in {4, 5}
    BY <1>1, <2>1, Located
  <2> QED BY <2>1, <2>2, <2>3
<1>3. ASSUME prog = "sem", t \in {"main", "t1"}, at[t] \in {4, 5} PROVE t \in Guarded
  <2>1. state[t] = "runs"
    BY <1>3 DEF ThreadsInv, ThreadsValues, Lives, EndOf, ThreadLast, Two
  <2>2. Body(t) = IF t = "main" THEN SemMain ELSE SemThread
    BY <1>3, Bodies
  <2>3. Body(t)[at[t]] \in {"next", "read", "post"}
    BY <1>3, <2>2, SemTexts
  <2> QED BY <1>3, <2>1, <2>3 DEF Guarded
<1> QED BY <1>2, <1>3

\* sem_wait and sem_post keep the two threads of sem_init apart, whatever else they
\* do, and go on to do so behind sem_destroy.
THEOREM SemaphoreExcludes == ThreadsSpec => SemExclusion
<1>1. ThreadsInit => Semaphore!Init
  <2>1. ThreadsInit => \A t \in Threads : t \notin Guarded
    BY ThreadsStart, GuardedPlaces DEF ThreadsInit
  <2>2. Guarded \subseteq Threads
    BY DEF Guarded
  <2> QED BY <2>1, <2>2 DEF Semaphore!Init
<1> DEFINE In(t) == prog = "sem" /\ t \in {"main", "t1"} /\ at[t] \in {4, 5}
<1>2. ThreadsInv => \A t \in Threads : t \in Guarded <=> In(t)
  BY GuardedPlaces
<1>3. (ThreadsInv => \A t \in Threads : t \in Guarded <=> In(t))'
  BY <1>2, PTL
<1>4. ThreadsInv /\ ThreadsInv' /\ [ThreadsNext]_threadsVars => [Semaphore!Next]_Guarded
  <2> SUFFICES ASSUME ThreadsInv, ThreadsInv', [ThreadsNext]_threadsVars PROVE Semaphore!Next \/ Guarded' = Guarded
    OBVIOUS
  <2>1. \A t \in Threads : t \in Guarded <=> In(t)
    BY <1>2
  <2>2. \A t \in Threads : t \in Guarded' <=> In(t)'
    BY <1>3
  <2>3. Guarded \subseteq {"main", "t1"} /\ ~({"main", "t1"} \subseteq Guarded)
    BY <2>1 DEF ThreadsInv, Down, Guarded, Threads
  <2>4. Guarded' \subseteq {"main", "t1"} /\ ~({"main", "t1"} \subseteq Guarded')
    BY <2>2 DEF ThreadsInv, Down, Guarded, Threads
  <2>5. \E t \in Threads : \A u \in Threads : u # t => (u \in Guarded' <=> u \in Guarded)
    BY <2>1, <2>2, OneMoves
  <2>6. Guarded = {} \/ Guarded = {"main"} \/ Guarded = {"t1"}
    BY <2>3
  <2>7. Guarded' = {} \/ Guarded' = {"main"} \/ Guarded' = {"t1"}
    BY <2>4
  <2>8. Guarded = Guarded' \/ Guarded = {} \/ Guarded' = {}
    BY <2>5, <2>6, <2>7 DEF Threads
  <2> QED BY <2>6, <2>7, <2>8 DEF Semaphore!Next, Semaphore!Enter, Semaphore!Leave, Threads
<1> QED BY <1>1, <1>4, ThreadsInvariance, PTL DEF ThreadsSpec, Semaphore!Spec, SemExclusion
=============================================================================
