-------------------------- MODULE AppendLockProofs --------------------------
(***************************************************************************)
(* For any set of processes and any number of rounds: the offsets of the   *)
(* file stay within Rounds, granted locks exclude one another, and as long *)
(* as no open has emptied the file under them nobody waits in a circle.    *)
(***************************************************************************)
EXTENDS AppendLock, TLAPS

\* A byte is locked by one process at most.
Disjoint == \A p, q \in Procs : p # q => held[p] \cap held[q] = {}

\* A granted lock reaches to the largest offset until it is released.
TopHeld == \A p \in inside : Rounds \in held[p]

\* A process writes at most one byte per round.
Progress ==
    \A p \in Procs :
        /\ pc[p] \in {"open", "lock", "wait", "write"} => pos[p] <= round[p]
        /\ pc[p] = "unlock" => pos[p] <= round[p] + 1
        /\ pc[p] \in {"open", "lock", "wait", "write", "unlock"} => round[p] < Rounds
        /\ ~fd[p] => pos[p] = 0
        /\ pc[p] = "open" => pos[p] = 0

\* What p has locked ends before the end of the file, or begins there or before
\* and has no end.  When p waits, it ends before what p waits for.
Behind ==
    ~late => \A p \in Procs :
        /\ \/ \A b \in held[p] : b < size
           \/ ToEOF(size) \subseteq held[p]
        /\ pc[p] = "wait" => want[p] <= size /\ \A b \in held[p] : b < want[p]

Inv == TypeOK /\ Disjoint /\ TopHeld /\ Progress /\ Behind
-----------------------------------------------------------------------------
\* Every variable keeps its type: no offset ever exceeds the number of rounds.
LEMMA Typing == TypeOK /\ Progress /\ [Next]_vars => TypeOK' /\ Progress'
<1> SUFFICES ASSUME TypeOK, Progress, [Next]_vars
             PROVE  TypeOK' /\ Progress'
    OBVIOUS
<1> USE RoundsAssumption DEF TypeOK, Progress, Bytes, Goto, ToEOF
<1>1. ASSUME NEW p \in Procs, OpenSucceeds(p) PROVE TypeOK' /\ Progress'
  <2>1. TypeOK'
    BY <1>1 DEF OpenSucceeds
  <2>2. Progress'
    BY <1>1 DEF OpenSucceeds
  <2> QED BY <2>1, <2>2
<1>2. ASSUME NEW p \in Procs, OpenFails(p) PROVE TypeOK' /\ Progress'
  <2>1. TypeOK'
    BY <1>2 DEF OpenFails, file
  <2>2. Progress'
    BY <1>2 DEF OpenFails, file
  <2> QED BY <2>1, <2>2
<1>a. ASSUME NEW p \in Procs, NEW start, Grant(p, start) \/ Refuse(p)
      PROVE  /\ held' \in [Procs -> SUBSET Bytes] /\ granted' \in [Procs -> BOOLEAN]
             /\ pc' = [pc EXCEPT ![p] = "write"]
  <2>1. held[p] \cup ToEOF(start) \in SUBSET Bytes
    OBVIOUS
  <2>2. held' \in [Procs -> SUBSET Bytes]
    BY <1>a, <2>1 DEF Grant, Refuse
  <2>3. granted' \in [Procs -> BOOLEAN] /\ pc' = [pc EXCEPT ![p] = "write"]
    BY <1>a DEF Grant, Refuse
  <2> QED BY <2>2, <2>3
<1>3. ASSUME NEW p \in Procs, Lock(p) PROVE TypeOK' /\ Progress'
  <2>1. /\ held' \in [Procs -> SUBSET Bytes] /\ granted' \in [Procs -> BOOLEAN]
        /\ \/ pc' = [pc EXCEPT ![p] = "write"]
           \/ pc' = [pc EXCEPT ![p] = "wait"]
    BY <1>3, <1>a DEF Lock
  <2>2. /\ pc[p] = "lock" /\ want' \in [Procs -> 0..Rounds]
        /\ UNCHANGED <<size, fd, pos, round, late>>
    BY <1>3 DEF Lock, file
  <2>3. TypeOK'
    BY <2>1, <2>2
  <2>4. Progress'
    BY <2>1, <2>2
  <2> QED BY <2>3, <2>4
<1>4. ASSUME NEW p \in Procs, Wake(p) PROVE TypeOK' /\ Progress'
  <2>1. /\ held' \in [Procs -> SUBSET Bytes] /\ granted' \in [Procs -> BOOLEAN]
        /\ pc' = [pc EXCEPT ![p] = "write"]
    BY <1>4, <1>a DEF Wake
  <2>2. /\ pc[p] = "wait" /\ want' \in [Procs -> 0..Rounds]
        /\ UNCHANGED <<size, fd, pos, round, late>>
    BY <1>4 DEF Wake, file
  <2>3. TypeOK'
    BY <2>1, <2>2
  <2>4. Progress'
    BY <2>1, <2>2
  <2> QED BY <2>3, <2>4
<1>5. ASSUME NEW p \in Procs, Write(p) PROVE TypeOK' /\ Progress'
  <2>1. TypeOK'
    BY <1>5 DEF Write
  <2>2. Progress'
    BY <1>5 DEF Write
  <2> QED BY <2>1, <2>2
<1>6. ASSUME NEW p \in Procs, WriteFails(p) PROVE TypeOK' /\ Progress'
  <2>1. TypeOK'
    BY <1>6 DEF WriteFails, file
  <2>2. Progress'
    BY <1>6 DEF WriteFails, file
  <2> QED BY <2>1, <2>2
<1>7. ASSUME NEW p \in Procs, Unlock(p) PROVE TypeOK' /\ Progress'
  <2>1. TypeOK'
    BY <1>7 DEF Unlock, Release, file
  <2>2. Progress'
    BY <1>7 DEF Unlock, Release, file
  <2> QED BY <2>1, <2>2
<1>8. ASSUME NEW p \in Procs, Exit(p) \/ Kill(p) PROVE TypeOK' /\ Progress'
  <2>1. End(p)
    BY <1>8 DEF Exit, Kill
  <2>2. held' \in [Procs -> SUBSET Bytes] /\ pc' \in [Procs -> {"open", "lock", "wait", "write", "unlock", "exit", "done"}]
    BY <2>1 DEF End
  <2>3. fd' \in [Procs -> BOOLEAN] /\ granted' \in [Procs -> BOOLEAN]
    BY <2>1 DEF End
  <2>4. pos' \in [Procs -> 0..Rounds] /\ round' \in [Procs -> 0..Rounds] /\ want' \in [Procs -> 0..Rounds]
    BY <2>1 DEF End
  <2>5. size' \in 0..Rounds /\ late' \in BOOLEAN
    BY <2>1 DEF End, file
  <2>6. TypeOK'
    BY <2>2, <2>3, <2>4, <2>5
  <2>7. Progress'
    BY <2>1 DEF End, file
  <2> QED BY <2>6, <2>7
<1>9. CASE UNCHANGED vars
    BY <1>9 DEF vars
<1> QED
    BY <1>1, <1>2, <1>3, <1>4, <1>5, <1>6, <1>7, <1>8, <1>9
       DEF Next, Step, Finished

\* Giving locks back, or leaving the section, disturbs no granted lock.
LEMMA Shrinking ==
    ASSUME Disjoint, TopHeld,
           \A q \in Procs : held'[q] \subseteq held[q],
           \A q \in inside' : q \in inside /\ held'[q] = held[q]
    PROVE  Disjoint' /\ TopHeld'
<1>1. Disjoint'
    BY DEF Disjoint
<1>2. TopHeld'
    BY DEF TopHeld
<1> QED BY <1>1, <1>2

\* Locks are disjoint, and one that was granted reaches to the top.
LEMMA Locking ==
    TypeOK /\ Disjoint /\ TopHeld /\ [Next]_vars => Disjoint' /\ TopHeld'
<1> SUFFICES ASSUME TypeOK, Disjoint, TopHeld, [Next]_vars
             PROVE  Disjoint' /\ TopHeld'
    OBVIOUS
<1> USE DEF Goto
<1>h. held \in [Procs -> SUBSET Bytes]
    BY DEF TypeOK
<1>l. pc \in [Procs -> {"open", "lock", "wait", "write", "unlock", "exit", "done"}]
    BY DEF TypeOK
<1>g. granted \in [Procs -> BOOLEAN]
    BY DEF TypeOK
<1>w. size \in 0..Rounds /\ want \in [Procs -> 0..Rounds]
    BY DEF TypeOK
<1>1. ASSUME NEW p \in Procs, UNCHANGED <<held, granted>>, Goto(p, pc'[p]),
             pc[p] \in {"write", "unlock"} \/ pc'[p] \notin {"write", "unlock"}
      PROVE  Disjoint' /\ TopHeld'
    BY <1>1, <1>l, Shrinking DEF inside
<1>2. ASSUME NEW p \in Procs, NEW start \in 0..Rounds, Grant(p, start)
      PROVE  Disjoint' /\ TopHeld'
  <2>1. \A q \in Procs \ {p} : held[q] \cap ToEOF(start) = {}
    BY <1>2 DEF Grant, CanLock, Blocks
  <2>2. held'[p] = held[p] \cup ToEOF(start) /\ \A q \in Procs \ {p} : held'[q] = held[q]
    BY <1>2, <1>h DEF Grant
  <2>3. Disjoint'
    BY <2>1, <2>2 DEF Disjoint
  <2>4. Rounds \in ToEOF(start)
    BY RoundsAssumption DEF ToEOF, Bytes
  <2>5. \A q \in inside' : q = p \/ q \in inside
    BY <1>2, <1>l, <1>g DEF Grant, inside
  <2>6. TopHeld'
    <3>1. ASSUME NEW q \in inside', q # p PROVE Rounds \in held'[q]
      BY <2>2, <2>5, <3>1 DEF TopHeld, inside
    <3> QED BY <2>2, <2>4, <3>1 DEF TopHeld
  <2> QED BY <2>3, <2>6
<1>3. ASSUME NEW p \in Procs, Refuse(p) PROVE Disjoint' /\ TopHeld'
  <2>1. \A q \in inside' : q \in inside
    BY <1>3, <1>l, <1>g DEF Refuse, inside
  <2> QED BY <1>3, <2>1, Shrinking DEF Refuse
<1>4. ASSUME NEW p \in Procs, held' = [held EXCEPT ![p] = {}], Goto(p, "done"),
             granted' = [granted EXCEPT ![p] = FALSE]
      PROVE  Disjoint' /\ TopHeld'
  <2>1. \A q \in inside' : q \in inside /\ q # p
    BY <1>4, <1>l, <1>g DEF inside
  <2>2. \A q \in Procs : held'[q] = IF q = p THEN {} ELSE held[q]
    BY <1>4, <1>h
  <2> QED BY <2>1, <2>2, Shrinking DEF inside
<1>5. ASSUME NEW p \in Procs, OpenSucceeds(p) \/ OpenFails(p)
      PROVE  Disjoint' /\ TopHeld'
    BY <1>1, <1>5, <1>l DEF OpenSucceeds, OpenFails
<1>6. ASSUME NEW p \in Procs, Lock(p) PROVE Disjoint' /\ TopHeld'
  <2>1. ASSUME Goto(p, "wait"), UNCHANGED <<held, granted>>
        PROVE  Disjoint' /\ TopHeld'
    BY <1>1, <1>l, <2>1
  <2> QED BY <1>2, <1>3, <1>6, <1>w, <2>1 DEF Lock
<1>7. ASSUME NEW p \in Procs, Wake(p) PROVE Disjoint' /\ TopHeld'
  <2>1. want[p] \in 0..Rounds
    BY <1>w
  <2> QED BY <1>2, <1>3, <1>7, <2>1 DEF Wake
<1>8. ASSUME NEW p \in Procs, Write(p) \/ WriteFails(p)
      PROVE  Disjoint' /\ TopHeld'
  <2>1. pc[p] = "write" /\ Goto(p, "unlock") /\ UNCHANGED <<held, granted>>
    BY <1>8 DEF Write, WriteFails
  <2> QED BY <1>1, <1>l, <2>1
<1>9. ASSUME NEW p \in Procs, Unlock(p) PROVE Disjoint' /\ TopHeld'
  <2>1. held'[p] \subseteq held[p] /\ \A q \in Procs \ {p} : held'[q] = held[q]
    BY <1>9, <1>h DEF Unlock, Release
  <2>2. pc'[p] \in {"lock", "exit"} /\ \A q \in Procs \ {p} : pc'[q] = pc[q]
    BY <1>9, <1>l DEF Unlock
  <2>3. \A q \in Procs \ {p} : granted'[q] = granted[q]
    BY <1>9, <1>g DEF Unlock
  <2>4. \A q \in inside' : q \in inside /\ q # p
    BY <2>2, <2>3 DEF inside
  <2> QED BY <2>1, <2>4, Shrinking DEF inside
<1>10. ASSUME NEW p \in Procs, Exit(p) \/ Kill(p) PROVE Disjoint' /\ TopHeld'
    BY <1>4, <1>10 DEF Exit, Kill, End
<1>11. CASE UNCHANGED vars
    BY <1>11, Shrinking DEF vars, inside
<1> QED
    BY <1>5, <1>6, <1>7, <1>8, <1>9, <1>10, <1>11 DEF Next, Step, Finished

\* Until the file is emptied, locks stay behind its end or reach over it.
LEMMA Keeping ==
    TypeOK /\ TypeOK' /\ Disjoint /\ Progress /\ Behind /\ [Next]_vars => Behind'
<1> SUFFICES ASSUME TypeOK, TypeOK', Disjoint, Progress, Behind, [Next]_vars, ~late'
             PROVE  Behind'
    BY DEF Behind
<1> USE DEF Goto
<1>h. held \in [Procs -> SUBSET Bytes] /\ want \in [Procs -> 0..Rounds]
    BY DEF TypeOK
<1>l. pc \in [Procs -> {"open", "lock", "wait", "write", "unlock", "exit", "done"}]
    BY DEF TypeOK
<1>s. size \in Int /\ size' \in Int /\ size <= Rounds /\ size' <= Rounds /\ Rounds \in Int
    BY RoundsAssumption DEF TypeOK
<1>b. \A p \in Procs : \A b \in held[p] : b \in Int
    BY <1>h, <1>s DEF Bytes
<1>r. late \in BOOLEAN
    BY DEF TypeOK
<1>t. ~late
    BY <1>r DEF Next, Step, OpenSucceeds, OpenFails, Lock, Wake, Write, WriteFails,
           Unlock, Exit, Kill, End, Finished, vars, file
<1>u. size <= size'
  <2>1. ASSUME NEW p \in Procs, OpenSucceeds(p) PROVE size <= size'
    <3>1. late' = (late \/ size > 0) /\ size' = 0
      BY <2>1 DEF OpenSucceeds
    <3>2. ~(size > 0)
      BY <3>1, Zenon
    <3> QED BY <3>1, <3>2, <1>s
  <2>2. ASSUME NEW p \in Procs, Write(p) PROVE size <= size'
    <3>1. pos[p] \in Int
      BY DEF TypeOK
    <3> QED BY <2>2, <3>1, <1>s DEF Write
  <2> QED
    BY <2>1, <2>2, <1>s
       DEF Next, Step, OpenFails, Lock, Wake, WriteFails, Unlock, Exit, Kill, End,
           Finished, vars, file
<1>f. ToEOF(size') \subseteq ToEOF(size)
    BY <1>s, <1>u DEF ToEOF, Bytes
\* One process, as it was.
<1>1. ASSUME NEW p \in Procs, held'[p] = held[p],
             pc'[p] = "wait" => pc[p] = "wait" /\ want'[p] = want[p]
      PROVE  /\ \/ \A b \in held'[p] : b < size'
                \/ ToEOF(size') \subseteq held'[p]
             /\ pc'[p] = "wait" => want'[p] <= size' /\ \A b \in held'[p] : b < want'[p]
  <2>1. CASE \A b \in held[p] : b < size
    <3>1. \A b \in held'[p] : b < size'
      BY <1>1, <1>b, <1>s, <1>u, <2>1
    <3>2. want[p] \in Int
      BY <1>h, <1>s
    <3> QED BY <1>1, <1>t, <1>s, <1>u, <3>1, <3>2 DEF Behind
  <2>2. CASE ToEOF(size) \subseteq held[p]
    <3>1. ToEOF(size') \subseteq held'[p]
      BY <1>1, <1>f, <2>2
    <3>2. want[p] \in Int
      BY <1>h, <1>s
    <3> QED BY <1>1, <1>t, <1>s, <1>u, <3>1, <3>2 DEF Behind
  <2> QED BY <1>t, <2>1, <2>2 DEF Behind
\* One process that does not wait has changed.
<1>2. ASSUME NEW p \in Procs, pc'[p] # "wait",
             \/ \A b \in held'[p] : b < size'
             \/ ToEOF(size') \subseteq held'[p],
             \A q \in Procs \ {p} : pc'[q] = pc[q] /\ held'[q] = held[q] /\ want'[q] = want[q]
      PROVE  Behind'
  <2>1. ASSUME NEW q \in Procs
        PROVE  /\ \/ \A b \in held'[q] : b < size'
                  \/ ToEOF(size') \subseteq held'[q]
               /\ pc'[q] = "wait" => want'[q] <= size' /\ \A b \in held'[q] : b < want'[q]
    <3>1. CASE q = p
      BY <1>2, <3>1
    <3>2. CASE q # p
      BY <1>1, <1>2, <3>2
    <3> QED BY <3>1, <3>2
  <2> QED BY <2>1 DEF Behind, ToEOF, Bytes
<1>3. ASSUME NEW p \in Procs, UNCHANGED <<held, want>>, Goto(p, pc'[p]), pc'[p] # "wait"
      PROVE  Behind'
  <2>1. \/ \A b \in held'[p] : b < size'
        \/ ToEOF(size') \subseteq held'[p]
    BY <1>1, <1>3
  <2> QED BY <1>2, <1>3, <1>l, <2>1
<1>4. ASSUME NEW p \in Procs, NEW start \in 0..Rounds, Grant(p, start), start <= size,
             UNCHANGED size, want' = want \/ want' = [want EXCEPT ![p] = 0]
      PROVE  Behind'
  <2>1. held'[p] = held[p] \cup ToEOF(start)
    BY <1>4, <1>h DEF Grant
  <2>2. ToEOF(size') \subseteq held'[p]
    BY <1>4, <1>s, <2>1 DEF ToEOF, Bytes
  <2>3. pc'[p] # "wait"
    BY <1>4, <1>l DEF Grant
  <2>4. \A q \in Procs \ {p} : pc'[q] = pc[q] /\ held'[q] = held[q] /\ want'[q] = want[q]
    BY <1>4, <1>h, <1>l DEF Grant
  <2> QED BY <1>2, <2>2, <2>3, <2>4
<1>5. ASSUME NEW p \in Procs, Refuse(p), want' = want \/ want' = [want EXCEPT ![p] = 0]
      PROVE  Behind'
  <2>1. pc'[p] # "wait" /\ held' = held
    BY <1>5, <1>l DEF Refuse
  <2>2. \/ \A b \in held'[p] : b < size'
        \/ ToEOF(size') \subseteq held'[p]
    BY <1>1, <2>1
  <2>3. \A q \in Procs \ {p} : pc'[q] = pc[q] /\ held'[q] = held[q] /\ want'[q] = want[q]
    BY <1>5, <1>h, <1>l DEF Refuse
  <2> QED BY <1>2, <2>1, <2>2, <2>3
\* Who must wait has nothing at or behind the end: it would have it alone.
<1>6. ASSUME NEW p \in Procs, ~CanLock(p, size), Goto(p, "wait"), UNCHANGED <<held, size>>,
             want' = [want EXCEPT ![p] = size]
      PROVE  Behind'
  <2>1. \A b \in held[p] : b < size
    <3>1. ASSUME ToEOF(size) \subseteq held[p] PROVE FALSE
      <4>1. ASSUME NEW q \in Procs, q # p PROVE held[q] \cap ToEOF(size) = {}
        BY <3>1, <4>1 DEF Disjoint
      <4> QED BY <1>6, <4>1 DEF CanLock, Blocks
    <3> QED BY <1>t, <3>1 DEF Behind
  <2>2. pc'[p] = "wait" /\ want'[p] = size
    BY <1>6, <1>l, <1>h
  <2>3. ASSUME NEW q \in Procs
        PROVE  /\ \/ \A b \in held'[q] : b < size'
                  \/ ToEOF(size') \subseteq held'[q]
               /\ pc'[q] = "wait" => want'[q] <= size' /\ \A b \in held'[q] : b < want'[q]
    <3>1. CASE q = p
      BY <1>6, <1>s, <2>1, <2>2, <3>1
    <3>2. CASE q # p
      <4>1. held'[q] = held[q] /\ pc'[q] = pc[q] /\ want'[q] = want[q]
        BY <1>6, <1>l, <1>h, <3>2
      <4> QED BY <1>1, <4>1
    <3> QED BY <3>1, <3>2
  <2> QED BY <2>3 DEF Behind, ToEOF, Bytes
<1>7. ASSUME NEW p \in Procs, OpenSucceeds(p) \/ OpenFails(p) \/ Write(p) \/ WriteFails(p)
      PROVE  Behind'
  <2>1. UNCHANGED <<held, want>> /\ \E label \in {"lock", "unlock"} : Goto(p, label)
    BY <1>7 DEF OpenSucceeds, OpenFails, Write, WriteFails
  <2>2. Goto(p, pc'[p]) /\ pc'[p] # "wait"
    BY <2>1, <1>l
  <2> QED BY <1>3, <2>1, <2>2
<1>8. ASSUME NEW p \in Procs, Lock(p) PROVE Behind'
  <2>1. size' = size /\ size \in 0..Rounds /\ size <= size
    BY <1>8, <1>s DEF Lock, file, TypeOK
  <2> QED BY <1>4, <1>5, <1>6, <1>8, <2>1 DEF Lock
<1>9. ASSUME NEW p \in Procs, Wake(p) PROVE Behind'
  <2>1. size' = size /\ want[p] \in 0..Rounds /\ want[p] <= size
    BY <1>9, <1>t, <1>h DEF Wake, file, Behind
  <2> QED BY <1>4, <1>5, <1>9, <2>1 DEF Wake
<1>10. ASSUME NEW p \in Procs, Unlock(p) PROVE Behind'
  <2>1. pc'[p] # "wait" /\ UNCHANGED <<size, want>>
    BY <1>10, <1>l DEF Unlock, file
  <2>2. \/ \A b \in held'[p] : b < size'
        \/ ToEOF(size') \subseteq held'[p]
    <3>1. CASE held'[p] = held[p]
      BY <1>1, <2>1, <3>1
    <3>2. CASE size > 0 /\ held'[p] = held[p] \ ToEOF(size - 1)
      <4>1. ASSUME NEW b \in held'[p] PROVE b < size'
        <5>1. b \in held[p] /\ b \in Bytes /\ b \in Int
          BY <1>h, <1>b, <3>2
        <5>2. ~ (b >= size - 1)
          BY <3>2, <5>1 DEF ToEOF
        <5> QED BY <1>s, <2>1, <5>1, <5>2
      <4> QED BY <4>1
    <3> QED BY <1>10, <1>h, <3>1, <3>2 DEF Unlock, Release
  <2>3. \A q \in Procs \ {p} : pc'[q] = pc[q] /\ held'[q] = held[q] /\ want'[q] = want[q]
    BY <1>10, <1>h, <1>l, <2>1 DEF Unlock, Release
  <2> QED BY <1>2, <2>1, <2>2, <2>3
<1>11. ASSUME NEW p \in Procs, Exit(p) \/ Kill(p) PROVE Behind'
  <2>1. pc'[p] # "wait" /\ held'[p] = {}
    BY <1>11, <1>l, <1>h DEF Exit, Kill, End
  <2>2. \A q \in Procs \ {p} : pc'[q] = pc[q] /\ held'[q] = held[q] /\ want'[q] = want[q]
    BY <1>11, <1>h, <1>l DEF Exit, Kill, End
  <2> QED BY <1>2, <2>1, <2>2
<1>12. CASE UNCHANGED vars
  BY <1>t, <1>12 DEF vars, Behind, ToEOF, Bytes
<1> QED
    BY <1>7, <1>8, <1>9, <1>10, <1>11, <1>12 DEF Next, Step, Finished
-----------------------------------------------------------------------------
\* The inductive invariant: types, locks, progress and what lies behind the end.
THEOREM Invariance == Spec => []Inv
<1>1. Init => Inv
  <2> SUFFICES ASSUME Init PROVE Inv
    OBVIOUS
  <2>0. Rounds \in Nat /\ Rounds > 0
    BY RoundsAssumption
  <2>1. /\ size = 0
        /\ pos = [p \in Procs |-> 0] /\ round = [p \in Procs |-> 0] /\ want = [p \in Procs |-> 0]
        /\ held = [p \in Procs |-> {}] /\ pc = [p \in Procs |-> "open"]
        /\ fd = [p \in Procs |-> FALSE] /\ granted = [p \in Procs |-> FALSE]
    BY DEF Init
  <2>2. late \in BOOLEAN
    BY Zenon DEF Init
  <2>3. TypeOK
    BY <2>0, <2>1, <2>2 DEF TypeOK, Bytes
  <2>4. Disjoint /\ TopHeld /\ Behind
    BY DEF Init, Disjoint, TopHeld, inside, Behind
  <2>5. Progress
    <3> SUFFICES ASSUME NEW p \in Procs
                 PROVE  /\ pos[p] = 0 /\ pos[p] <= round[p] /\ round[p] < Rounds
                        /\ pc[p] # "unlock"
      BY DEF Progress
    <3>1. pos[p] = 0 /\ round[p] = 0 /\ pc[p] = "open"
      BY <2>1
    <3> QED BY <2>0, <3>1
  <2> QED BY <2>3, <2>4, <2>5 DEF Inv
<1>2. Inv /\ [Next]_vars => Inv'
    BY Typing, Locking, Keeping DEF Inv
<1> QED BY <1>1, <1>2, PTL DEF Spec

\* No process ever reaches an offset beyond its number of rounds, so the file
\* never has more than Rounds bytes however many processes append to it.
THEOREM Types == Spec => []TypeOK
<1>1. Inv => TypeOK
    BY DEF Inv
<1> QED BY <1>1, Invariance, PTL

\* Processes whose lock call returned 0 exclude one another until they unlock.
THEOREM Exclusive == Spec => GrantedExclusion
<1>1. Init => X!Init
    BY DEF Init, X!Init, inside
<1>2. Inv /\ [Next]_vars => [X!Next]_inside
  <2> SUFFICES ASSUME Inv, [Next]_vars PROVE X!Next \/ inside' = inside
      OBVIOUS
  <2> USE DEF Inv, TypeOK, Goto
  <2>1. ASSUME NEW p \in inside, NEW q \in inside PROVE p = q
      BY <2>1 DEF TopHeld, Disjoint, inside
  <2>2. ASSUME NEW p \in Procs, inside' = inside \ {p}
        PROVE  X!Next \/ inside' = inside
    <3>1. CASE p \in inside
      <4>1. inside = {p}
        BY <2>1, <3>1
      <4>2. inside' = {}
        BY <2>2, <4>1
      <4> QED BY <4>1, <4>2 DEF X!Next, X!Leave
    <3> QED BY <2>2, <3>1
  <2>3. ASSUME NEW p \in Procs, NEW start \in 0..Rounds, Grant(p, start),
               pc[p] \in {"lock", "wait"}
        PROVE  X!Next
    <3>1. \A q \in inside : q # p
      BY <2>3 DEF inside
    <3>2. inside = {}
      <4>1. Rounds \in ToEOF(start)
        BY RoundsAssumption DEF ToEOF, Bytes
      <4>2. \A q \in Procs \ {p} : held[q] \cap ToEOF(start) = {}
        BY <2>3 DEF Grant, CanLock, Blocks
      <4> QED BY <3>1, <4>1, <4>2 DEF TopHeld, inside
    <3>3. inside' = {p}
      BY <2>3, <3>2 DEF Grant, inside
    <3> QED BY <3>2, <3>3 DEF X!Next, X!Enter
  <2>4. ASSUME NEW p \in Procs, Refuse(p), pc[p] \in {"lock", "wait"}
        PROVE  inside' = inside
    BY <2>4 DEF Refuse, inside
  <2>5. ASSUME NEW p \in Procs, OpenSucceeds(p) \/ OpenFails(p)
        PROVE  inside' = inside
    BY <2>5 DEF OpenSucceeds, OpenFails, inside
  <2>6. ASSUME NEW p \in Procs, Lock(p) PROVE X!Next \/ inside' = inside
    <3>1. ASSUME pc[p] = "lock", Goto(p, "wait"), UNCHANGED granted
          PROVE  inside' = inside
      BY <3>1 DEF inside
    <3> QED BY <2>3, <2>4, <2>6, <3>1 DEF Lock
  <2>7. ASSUME NEW p \in Procs, Wake(p) PROVE X!Next \/ inside' = inside
    BY <2>3, <2>4, <2>7 DEF Wake
  <2>8. ASSUME NEW p \in Procs, Write(p) \/ WriteFails(p)
        PROVE  inside' = inside
    BY <2>8 DEF Write, WriteFails, inside
  <2>9. ASSUME NEW p \in Procs, Unlock(p) \/ Exit(p) \/ Kill(p)
        PROVE  inside' = inside \ {p}
    BY <2>9 DEF Unlock, Exit, Kill, End, inside
  <2>10. CASE UNCHANGED vars
    BY <2>10 DEF vars, inside
  <2> QED
    BY <2>2, <2>5, <2>6, <2>7, <2>8, <2>9, <2>10 DEF Next, Step, Finished
<1> QED BY <1>1, <1>2, Invariance, PTL DEF Spec, X!Spec, GrantedExclusion

\* As long as no open has emptied a file with bytes, blocked requests never wait
\* for one another in a circle, for any number of processes and rounds: who waits
\* has locked only what lies before the start of its request, and a new request
\* starts at the end of the file, so it is blocked by nobody who waits.
THEOREM NoCycle == Spec => []AcyclicUnlessLate
<1> DEFINE Cycle(W) ==
      \A p \in W : pc[p] = "wait" /\ \E q \in W : Blocks(q, p, want[p])
<1>1. AcyclicUnlessLate <=> (~late => \A W \in (SUBSET Procs) \ {{}} : ~Cycle(W))
  BY DEF AcyclicUnlessLate
<1>2. Init => AcyclicUnlessLate
  BY DEF Init, AcyclicUnlessLate
<1>3. Inv /\ Inv' /\ AcyclicUnlessLate /\ [Next]_vars => AcyclicUnlessLate'
  <2> SUFFICES ASSUME Inv, Inv', AcyclicUnlessLate, [Next]_vars, ~late'
               PROVE  AcyclicUnlessLate'
    BY DEF AcyclicUnlessLate
  <2> SUFFICES ASSUME NEW W \in (SUBSET Procs) \ {{}}, Cycle(W)' PROVE FALSE
    BY DEF AcyclicUnlessLate
  <2> USE DEF Goto
  <2>l. /\ pc \in [Procs -> {"open", "lock", "wait", "write", "unlock", "exit", "done"}]
        /\ late \in BOOLEAN
    BY DEF Inv, TypeOK
  <2>h. held \in [Procs -> SUBSET Bytes] /\ want \in [Procs -> 0..Rounds]
    BY DEF Inv, TypeOK
  <2>t. ~late
    BY <2>l DEF Next, Step, OpenSucceeds, OpenFails, Lock, Wake, Write, WriteFails,
           Unlock, Exit, Kill, End, Finished, vars, file
  <2>c. ~Cycle(W)
    BY <1>1, <2>t
  \* A process that does not wait is in no circle, and the others are as before.
  <2>1. ASSUME NEW p \in Procs, pc'[p] # "wait",
               \A q \in Procs \ {p} : pc'[q] = pc[q] /\ held'[q] = held[q] /\ want'[q] = want[q]
        PROVE  FALSE
    <3>1. p \notin W
      BY <2>1
    <3>2. \A q \in W : pc'[q] = pc[q] /\ held'[q] = held[q] /\ want'[q] = want[q]
      BY <2>1, <3>1
    <3>3. \A q, r \in W : Blocks(r, q, want[q])' => Blocks(r, q, want[q])
      BY <3>2 DEF Blocks, ToEOF, Bytes
    <3> QED BY <2>c, <3>2, <3>3
  \* Who begins to wait asks for what begins at the end, behind all that the
  \* others in the circle have.
  <2>2. ASSUME NEW p \in Procs, pc[p] = "lock", Goto(p, "wait"), UNCHANGED <<held, size>>,
               want' = [want EXCEPT ![p] = size]
        PROVE  FALSE
    <3>1. \A q \in Procs \ {p} : pc'[q] = pc[q] /\ want'[q] = want[q]
      BY <2>2, <2>l, <2>h
    <3>2. want'[p] = size
      BY <2>2, <2>h
    <3>3. CASE p \notin W
      <4>1. \A q, r \in W : Blocks(r, q, want[q])' => Blocks(r, q, want[q])
        BY <2>2, <3>1, <3>3 DEF Blocks, ToEOF, Bytes
      <4>2. \A q \in W : pc[q] = "wait"
        BY <3>1, <3>3
      <4> QED BY <2>c, <4>1, <4>2
    <3>4. CASE p \in W
      <4>1. PICK q \in W : Blocks(q, p, want[p])'
        BY <3>4
      <4>2. PICK b \in held'[q] : b \in Bytes /\ b >= want'[p]
        BY <4>1 DEF Blocks, ToEOF, Bytes
      <4>3. b < want'[q] /\ want'[q] <= size'
        BY <2>2, <4>2 DEF Inv, Behind
      <4>4. b \in Int /\ want'[q] \in Int /\ size' \in Int
        BY <4>2, RoundsAssumption DEF Bytes, Inv, TypeOK
      <4> QED BY <2>2, <3>2, <4>2, <4>3, <4>4
    <3> QED BY <3>3, <3>4
  <2>3. ASSUME NEW p \in Procs, OpenSucceeds(p) \/ OpenFails(p) \/ Write(p) \/ WriteFails(p)
        PROVE  FALSE
    BY <2>1, <2>3, <2>l DEF OpenSucceeds, OpenFails, Write, WriteFails
  <2>4. ASSUME NEW p \in Procs, NEW start, Grant(p, start) \/ Refuse(p),
               want' = want \/ want' = [want EXCEPT ![p] = 0]
        PROVE  FALSE
    BY <2>1, <2>4, <2>l, <2>h DEF Grant, Refuse
  <2>5. ASSUME NEW p \in Procs, Lock(p) PROVE FALSE
    BY <2>2, <2>4, <2>5 DEF Lock, file
  <2>6. ASSUME NEW p \in Procs, Wake(p) PROVE FALSE
    BY <2>4, <2>6 DEF Wake
  <2>7. ASSUME NEW p \in Procs, Unlock(p) PROVE FALSE
    <3>1. pc'[p] # "wait" /\ UNCHANGED want
      BY <2>7, <2>l DEF Unlock
    <3>2. \A q \in Procs \ {p} : pc'[q] = pc[q] /\ held'[q] = held[q]
      BY <2>7, <2>l, <2>h DEF Unlock, Release
    <3> QED BY <2>1, <3>1, <3>2
  <2>8. ASSUME NEW p \in Procs, Exit(p) \/ Kill(p) PROVE FALSE
    <3>1. pc'[p] # "wait"
      BY <2>8, <2>l DEF Exit, Kill, End
    <3>2. \A q \in Procs \ {p} : pc'[q] = pc[q] /\ held'[q] = held[q] /\ want'[q] = want[q]
      BY <2>8, <2>l, <2>h DEF Exit, Kill, End
    <3> QED BY <2>1, <3>1, <3>2
  <2>9. CASE UNCHANGED vars
    BY <2>9, <2>c DEF vars, Blocks, ToEOF, Bytes
  <2> QED
    BY <2>3, <2>5, <2>6, <2>7, <2>8, <2>9 DEF Next, Step, Finished
<1> QED BY <1>2, <1>3, Invariance, PTL DEF Spec
=============================================================================
