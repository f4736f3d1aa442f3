--------------------------- MODULE SemSocketProofs ---------------------------
(***************************************************************************)
(* Two components that have nothing to do with one another; their names    *)
(* are disjoint.                                                           *)
(*                                                                         *)
(* SemShm, for any number of rounds, and for any number of runs one after  *)
(* another: until a lock fails on the set, the semaphore excludes and is   *)
(* undone to the right value, through kills and failing unlocks; as long   *)
(* as nothing has gone wrong the child never prints half a text.           *)
(*                                                                         *)
(* ClientServer, for the three programs: as long as nothing has gone wrong *)
(* nobody dies of SIGPIPE and no connection is reset, the UNIX domain path *)
(* is removed, and no client ends before the server has said "quit".       *)
(***************************************************************************)
EXTENDS SemShm, ClientServer, TLAPS

(***************************************************************************)
(* System V semaphore and shared memory                                    *)
(***************************************************************************)
\* A process does not have more to be undone than it has made turns, and nothing
\* when it has ended.
Settled ==
    \A p \in Procs :
        /\ undo[p] <= Rounds - i[p]
        /\ pc[p] \in Ended => undo[p] = 0

\* A process with an id is on the set that exists, and locks with it; the parent
\* removes the set when the child has ended.
OnSet ==
    /\ \A p \in Procs :
        /\ semid[p] /\ pc[p] \notin Ended \cup {"shmctl"} => set
        /\ ~barged /\ InSection(p) => locked[p] = semid[p]
        /\ locked[p] => semid[p] /\ pc[p] # "semget"
    /\ pc["parent"] \in {"semctl", "shmctl", "done"} => pc["child"] \in Ended

\* Without a set there is no value, and nothing to be undone; until a lock fails
\* the value is 0 or 1.
Value ==
    /\ ~set => sem = 0 /\ \A p \in Procs : undo[p] = 0
    /\ ~barged => sem <= 1

Inv == TypeOK /\ UndoBalance /\ Settled /\ OnSet /\ Value
-----------------------------------------------------------------------------
\* Rounds and SemMax are numbers, and a process that is not p is the other one.
LEMMA Basics ==
    /\ Rounds \in Nat /\ Rounds >= 1 /\ SemMax \in Nat /\ SemMax >= Rounds
    /\ "parent" \in Procs /\ "child" \in Procs
    /\ \A p, q \in Procs : p # q => {p, q} = {"parent", "child"}
    BY RoundsAssumption, SemMaxAssumption DEF Procs

\* The end of a process gives back what it holds and nothing of the other one's.
LEMMA Undoing ==
    ASSUME Inv, NEW p \in Procs, NEW q \in Procs, p # q, Undo(p)
    PROVE  /\ sem' \in 0..SemMax /\ undo' \in [Procs -> Int]
           /\ undo'[p] = 0 /\ undo'[q] = undo[q]
           /\ undo[q] <= sem'
           /\ ~barged => sem' = undo[q]
<1> USE Basics
<1>1. sem \in 0..SemMax /\ undo[p] \in Int /\ undo[q] \in Int /\ undo \in [Procs -> Int] /\ i[q] \in 0..Rounds
  BY DEF Inv, TypeOK
<1>2. undo[p] + undo[q] <= sem /\ undo[q] <= Rounds - i[q]
  <2>1. undo["parent"] + undo["child"] = undo[p] + undo[q]
    BY <1>1 DEF Procs
  <2> QED BY <2>1 DEF Inv, UndoBalance, Settled
<1>3. ~barged => undo[p] \in {0, 1} /\ undo[q] \in {0, 1} /\ sem = undo[p] + undo[q]
  <2>1. undo["parent"] + undo["child"] = undo[p] + undo[q]
    BY <1>1 DEF Procs
  <2> QED BY <2>1 DEF Inv, UndoBalance
<1>4. undo' \in [Procs -> Int] /\ undo'[p] = 0 /\ undo'[q] = undo[q]
  BY <1>1 DEF Undo
<1>5. sem' = IF sem < undo[p] THEN 0 ELSE IF sem - undo[p] > SemMax THEN SemMax ELSE sem - undo[p]
  BY DEF Undo
<1>6. sem' \in 0..SemMax /\ undo[q] <= sem'
  BY <1>1, <1>2, <1>5
<1>7. ~barged => sem' = undo[q]
  BY <1>1, <1>3, <1>5
<1> QED BY <1>4, <1>6, <1>7

\* So it keeps the invariant.
LEMMA Ending ==
    ASSUME Inv, NEW p \in Procs, Undo(p),
           pc' = [pc EXCEPT ![p] = "done"] \/ pc' = [pc EXCEPT ![p] = "killed"],
           p = "parent" /\ pc' = [pc EXCEPT ![p] = "done"] => pc["child"] \in Ended,
           UNCHANGED <<set, semid, mem, locked, i, barged>>, calm' \in BOOLEAN,
           shm' \in BOOLEAN,
           buf' \in {"none", "cleared", "copied", "whole"}
    PROVE  Inv'
<1>1. PICK q \in Procs : p # q
  BY DEF Procs
<1>2. /\ sem' \in 0..SemMax /\ undo' \in [Procs -> Int]
      /\ undo'[p] = 0 /\ undo'[q] = undo[q]
      /\ undo[q] <= sem' /\ (~barged => sem' = undo[q])
  BY <1>1, Undoing
<1>3. pc'[p] \in Ended /\ pc'[q] = pc[q] /\ \A r \in Procs : r = p \/ r = q
  BY <1>1 DEF Inv, TypeOK, Ended, Procs
<1>4. pc' \in [Procs -> {"semget", "shmget", "lock", "clear", "copy", "stamp",
                         "print", "unlock", "semctl", "shmctl"} \cup Ended]
  BY DEF Inv, TypeOK, Ended
<1>5. TypeOK'
  BY <1>2, <1>4 DEF Inv, TypeOK
<1>6. UndoBalance'
  <2>1. undo'["parent"] + undo'["child"] = undo[q]
    <3>1. undo[q] \in Int
      BY DEF Inv, TypeOK
    <3> QED BY <1>1, <1>2, <3>1 DEF Procs
  <2>2. \A r \in Procs : undo'[r] = IF r = p THEN 0 ELSE undo[r]
    BY <1>2, <1>3
  <2>3. ~Keeps(p)'
    BY <1>3 DEF Keeps
  <2>4. Keeps(q)' = Keeps(q)
    BY <1>3 DEF Keeps, Ended
  <2>5. ~barged => undo[q] = IF Keeps(q) THEN 1 ELSE 0
    BY DEF Inv, UndoBalance
  <2>6. barged' = barged
    OBVIOUS
  <2>7. ~barged' => \A r \in Procs : undo'[r] = IF Keeps(r)' THEN 1 ELSE 0
    BY <1>2, <1>3, <2>3, <2>4, <2>5, <2>6
  <2> QED BY <1>2, <2>1, <2>6, <2>7 DEF UndoBalance
<1>7. Settled'
  <2>1. undo'[p] <= Rounds - i[p]
    BY <1>2, Basics DEF Inv, TypeOK
  <2>2. undo'[q] <= Rounds - i[q] /\ (pc'[q] \in Ended => undo'[q] = 0)
    BY <1>2, <1>3 DEF Inv, Settled
  <2> QED BY <1>2, <1>3, <2>1, <2>2 DEF Settled, Ended
<1>8. OnSet'
  BY <1>3, <1>4 DEF Inv, TypeOK, OnSet, InSection, Ended, Procs
<1>9. Value'
  <2>1. ASSUME ~set PROVE sem' = 0 /\ undo'[p] = 0 /\ undo'[q] = 0
    <3>1. sem = 0 /\ undo[p] = 0 /\ undo[q] = 0
      BY <2>1 DEF Inv, Value
    <3> QED BY <1>2, <3>1, Basics DEF Undo
  <2>2. ~barged => undo[q] \in {0, 1}
    BY DEF Inv, UndoBalance
  <2> QED BY <1>2, <1>3, <2>1, <2>2 DEF Value
<1> QED BY <1>5, <1>6, <1>7, <1>8, <1>9 DEF Inv

\* A step that leaves semaphore, undo values and locks alone.
LEMMA Apart ==
    ASSUME Inv, UNCHANGED <<sem, undo, locked, i, barged>>, set => set', TypeOK', OnSet',
           \A p \in Procs : pc'[p] \in Ended <=> pc[p] \in Ended
    PROVE  Inv'
  BY DEF Inv, UndoBalance, Settled, Keeps, Value

\* sem_lock that works, or that fails on an id of -1.
LEMMA Locking ==
    ASSUME Inv, NEW p \in Procs, SemLock(p)
    PROVE  Inv'
<1>1. PICK q \in Procs : p # q
  BY DEF Procs
<1>2. \A r \in Procs : r = p \/ r = q
  BY <1>1 DEF Procs
<1>3. /\ pc[p] = "lock" /\ pc' = [pc EXCEPT ![p] = Critical(p)] /\ Critical(p) \in {"clear", "print"}
      /\ i[p] > 0 /\ i' = [i EXCEPT ![p] = i[p] - 1]
      /\ locked' = [locked EXCEPT ![p] = semid[p]]
      /\ UNCHANGED <<set, shm, buf, semid, mem, calm, barged>>
  BY DEF SemLock, Turn, Goto, Critical
<1>4. semid[p] => sem = 0 /\ sem' = 1 /\ undo' = [undo EXCEPT ![p] = undo[p] + 1]
  BY DEF SemLock
<1>5. ~semid[p] => sem' = sem /\ undo' = undo
  BY DEF SemLock
<1>6. /\ sem \in 0..SemMax /\ undo \in [Procs -> Int] /\ undo[p] \in Int /\ undo[q] \in Int
      /\ i[p] \in 0..Rounds /\ i[q] \in 0..Rounds /\ semid[p] \in BOOLEAN
  BY DEF Inv, TypeOK
<1>7. TypeOK'
  <2>1. i' \in [Procs -> 0..Rounds]
    BY <1>3, <1>6, Basics DEF Inv, TypeOK
  <2>2. sem' \in 0..SemMax /\ undo' \in [Procs -> Int]
    BY <1>4, <1>5, <1>6, Basics
  <2>3. locked' \in [Procs -> BOOLEAN]
    BY <1>3, <1>6 DEF Inv, TypeOK
  <2> QED BY <1>3, <2>1, <2>2, <2>3 DEF Inv, TypeOK
<1>8. /\ pc'[p] = Critical(p) /\ pc'[q] = pc[q] /\ i'[p] = i[p] - 1 /\ i'[q] = i[q]
      /\ locked'[p] = semid[p] /\ locked'[q] = locked[q]
  BY <1>1, <1>3 DEF Inv, TypeOK
<1>9. undo["parent"] + undo["child"] = undo[p] + undo[q] /\ undo'["parent"] + undo'["child"] = undo'[p] + undo'[q]
  <2>1. undo'[p] \in Int /\ undo'[q] \in Int
    BY <1>7 DEF TypeOK
  <2> QED BY <1>1, <1>6, <2>1 DEF Procs
<1>10. undo'[q] = undo[q] /\ undo'[p] = undo[p] + (IF semid[p] THEN 1 ELSE 0)
  BY <1>1, <1>4, <1>5, <1>6
<1>11. undo[p] + undo[q] <= sem
  BY <1>9 DEF Inv, UndoBalance
<1>12. Keeps(q)' = Keeps(q) /\ Keeps(p)' = semid[p]
  <2>1. pc'[p] \notin Ended
    BY <1>3, <1>8 DEF Ended
  <2>2. locked[q] \in BOOLEAN /\ locked'[q] = locked[q] /\ pc'[q] = pc[q] /\ locked'[p] = semid[p]
    BY <1>8 DEF Inv, TypeOK
  <2>3. Keeps(p)' <=> semid[p]
    BY <2>1, <2>2 DEF Keeps
  <2>4. Keeps(q)' <=> Keeps(q)
    BY <2>2 DEF Keeps
  <2> QED BY <1>6, <2>3, <2>4, Zenon DEF Keeps
<1>13. UndoBalance'
  <2>1. undo'["parent"] + undo'["child"] <= sem'
    BY <1>4, <1>5, <1>6, <1>9, <1>10, <1>11
  <2>2. ASSUME ~barged
        PROVE  /\ undo'[p] = (IF Keeps(p)' THEN 1 ELSE 0) /\ undo'[q] = (IF Keeps(q)' THEN 1 ELSE 0)
               /\ sem' = undo'[p] + undo'[q]
    <3>1. /\ undo[p] = IF Keeps(p) THEN 1 ELSE 0
          /\ undo[q] = IF Keeps(q) THEN 1 ELSE 0
          /\ sem = undo[p] + undo[q]
      BY <1>9, <2>2 DEF Inv, UndoBalance
    <3>2. CASE semid[p]
      <4>1. undo[p] = 0 /\ undo[q] = 0
        BY <1>4, <3>1, <3>2
      <4> QED BY <1>4, <1>10, <1>12, <3>1, <3>2, <4>1
    <3>3. CASE ~semid[p]
      <4>1. ~Keeps(p)
        BY <3>3 DEF Inv, OnSet, Keeps
      <4> QED BY <1>5, <1>10, <1>12, <3>1, <3>3, <4>1
    <3> QED BY <3>2, <3>3
  <2>3. barged' = barged
    BY <1>3
  <2> QED BY <1>2, <1>9, <2>1, <2>2, <2>3 DEF UndoBalance
<1>14. Settled'
  <2>1. undo'[p] <= Rounds - i'[p]
    <3>1. undo[p] <= Rounds - i[p]
      BY DEF Inv, Settled
    <3> QED BY <1>6, <1>8, <1>10, <3>1, Basics
  <2>2. undo'[q] <= Rounds - i'[q] /\ (pc'[q] \in Ended => undo'[q] = 0)
    BY <1>8, <1>10 DEF Inv, Settled
  <2> QED BY <1>2, <1>3, <1>8, <2>1, <2>2 DEF Settled, Ended
<1>15. OnSet'
  BY <1>2, <1>3, <1>8 DEF Inv, TypeOK, OnSet, InSection, Ended, Procs
<1>16. Value'
  <2>1. semid[p] => set
    BY <1>3 DEF Inv, OnSet, Ended
  <2> QED BY <1>3, <1>4, <1>5, <1>6, <2>1 DEF Inv, Value
<1> QED BY <1>7, <1>13, <1>14, <1>15, <1>16 DEF Inv

\* sem_unlock that works, on what p or another process has added, or that fails on -1.
LEMMA Unlocking ==
    ASSUME Inv, NEW p \in Procs, SemUnlock(p)
    PROVE  Inv'
<1>1. PICK q \in Procs : p # q
  BY DEF Procs
<1>2. \A r \in Procs : r = p \/ r = q
  BY <1>1 DEF Procs
<1>3. /\ pc[p] = "unlock" /\ pc' = [pc EXCEPT ![p] = "lock"]
      /\ locked' = [locked EXCEPT ![p] = FALSE]
      /\ UNCHANGED <<set, shm, buf, semid, mem, i, calm, barged>>
  BY DEF SemUnlock, Goto
<1>4. semid[p] => sem > 0 /\ sem' = sem - 1 /\ undo' = [undo EXCEPT ![p] = undo[p] - 1]
  BY DEF SemUnlock
<1>5. ~semid[p] => sem' = sem /\ undo' = undo
  BY DEF SemUnlock
<1>6. /\ sem \in 0..SemMax /\ undo \in [Procs -> Int] /\ undo[p] \in Int /\ undo[q] \in Int
      /\ i[p] \in 0..Rounds /\ i[q] \in 0..Rounds /\ semid[p] \in BOOLEAN
  BY DEF Inv, TypeOK
<1>7. TypeOK'
  <2>1. sem' \in 0..SemMax /\ undo' \in [Procs -> Int]
    BY <1>4, <1>5, <1>6, Basics
  <2> QED BY <1>3, <2>1 DEF Inv, TypeOK
<1>8. pc'[p] = "lock" /\ pc'[q] = pc[q] /\ ~locked'[p] /\ locked'[q] = locked[q]
  BY <1>1, <1>3 DEF Inv, TypeOK
<1>9. undo["parent"] + undo["child"] = undo[p] + undo[q] /\ undo'["parent"] + undo'["child"] = undo'[p] + undo'[q]
  <2>1. undo'[p] \in Int /\ undo'[q] \in Int
    BY <1>7 DEF TypeOK
  <2> QED BY <1>1, <1>6, <2>1 DEF Procs
<1>10. undo'[q] = undo[q] /\ undo'[p] = undo[p] - (IF semid[p] THEN 1 ELSE 0)
  BY <1>1, <1>4, <1>5, <1>6
<1>11. undo[p] + undo[q] <= sem
  BY <1>9 DEF Inv, UndoBalance
<1>12. Keeps(q)' = Keeps(q) /\ ~Keeps(p)'
  BY <1>8 DEF Keeps
<1>13. UndoBalance'
  <2>1. undo'["parent"] + undo'["child"] <= sem'
    BY <1>4, <1>5, <1>6, <1>9, <1>10, <1>11
  <2>2. ASSUME ~barged
        PROVE  /\ undo'[p] = (IF Keeps(p)' THEN 1 ELSE 0) /\ undo'[q] = (IF Keeps(q)' THEN 1 ELSE 0)
               /\ sem' = undo'[p] + undo'[q]
    <3>1. /\ undo[p] = IF Keeps(p) THEN 1 ELSE 0
          /\ undo[q] = IF Keeps(q) THEN 1 ELSE 0
          /\ sem = undo[p] + undo[q]
      BY <1>9, <2>2 DEF Inv, UndoBalance
    <3>2. Keeps(p) <=> semid[p]
      BY <1>3, <2>2 DEF Inv, OnSet, InSection, Keeps, Ended
    <3> QED BY <1>4, <1>5, <1>6, <1>10, <1>12, <3>1, <3>2
  <2>3. barged' = barged
    BY <1>3
  <2> QED BY <1>2, <1>9, <2>1, <2>2, <2>3 DEF UndoBalance
<1>14. Settled'
  <2>1. undo'[p] <= Rounds - i'[p]
    <3>1. undo[p] <= Rounds - i[p]
      BY DEF Inv, Settled
    <3> QED BY <1>3, <1>6, <1>10, <3>1, Basics
  <2>2. undo'[q] <= Rounds - i'[q] /\ (pc'[q] \in Ended => undo'[q] = 0)
    BY <1>3, <1>8, <1>10 DEF Inv, Settled
  <2> QED BY <1>2, <1>8, <2>1, <2>2 DEF Settled, Ended
<1>15. OnSet'
  BY <1>2, <1>3, <1>8 DEF Inv, TypeOK, OnSet, InSection, Ended, Procs
<1>16. Value'
  <2>1. semid[p] => set
    BY <1>3 DEF Inv, OnSet, Ended
  <2> QED BY <1>3, <1>4, <1>5, <1>6, <2>1 DEF Inv, Value
<1> QED BY <1>7, <1>13, <1>14, <1>15, <1>16 DEF Inv

\* A semop that fails on a valid id: the section is entered without the lock, or
\* left with it.
LEMMA Failing ==
    ASSUME Inv, NEW p \in Procs, LockFails(p) \/ UnlockFails(p)
    PROVE  Inv'
<1> USE DEF Goto, ipc
<1>1. CASE LockFails(p)
  <2>1. /\ pc[p] = "lock" /\ pc' = [pc EXCEPT ![p] = Critical(p)] /\ Critical(p) \in {"clear", "print"}
        /\ i[p] > 0 /\ i' = [i EXCEPT ![p] = i[p] - 1]
        /\ locked' = [locked EXCEPT ![p] = FALSE] /\ barged' = TRUE
        /\ UNCHANGED <<set, sem, undo, shm, buf, semid, mem, calm>>
    BY <1>1 DEF LockFails, Turn, Critical
  <2>2. i[p] \in 0..Rounds
    BY DEF Inv, TypeOK
  <2>3. TypeOK'
    <3>1. i' \in [Procs -> 0..Rounds]
      BY <2>1, <2>2, Basics DEF Inv, TypeOK
    <3> QED BY <2>1, <3>1 DEF Inv, TypeOK
  <2>4. UndoBalance'
    BY <2>1 DEF Inv, UndoBalance
  <2>5. Settled'
    <3>1. ASSUME NEW r \in Procs
          PROVE  undo'[r] <= Rounds - i'[r] /\ (pc'[r] \in Ended => undo'[r] = 0)
      <4>1. undo[r] <= Rounds - i[r] /\ undo[r] \in Int /\ i[r] \in 0..Rounds
        BY DEF Inv, Settled, TypeOK
      <4>2. i'[r] = i[r] \/ i'[r] = i[r] - 1
        BY <2>1 DEF Inv, TypeOK
      <4>3. pc'[r] \in Ended => pc[r] \in Ended
        BY <2>1 DEF Inv, TypeOK, Ended
      <4> QED BY <2>1, <4>1, <4>2, <4>3, Basics DEF Inv, Settled
    <3> QED BY <3>1 DEF Settled
  <2>6. OnSet'
    BY <2>1 DEF Inv, TypeOK, OnSet, InSection, Ended, Procs
  <2>7. Value'
    BY <2>1 DEF Inv, Value
  <2> QED BY <2>3, <2>4, <2>5, <2>6, <2>7 DEF Inv
<1>2. CASE UnlockFails(p)
  <2>1. /\ pc[p] = "unlock" /\ pc' = [pc EXCEPT ![p] = "lock"]
        /\ UNCHANGED <<set, sem, undo, shm, buf, semid, mem, locked, i, calm, barged>>
    BY <1>2 DEF UnlockFails
  <2>2. TypeOK'
    BY <2>1 DEF Inv, TypeOK
  <2>3. OnSet'
    BY <2>1 DEF Inv, TypeOK, OnSet, InSection, Ended, Procs
  <2>4. \A r \in Procs : pc'[r] \in Ended <=> pc[r] \in Ended
    BY <2>1 DEF Inv, TypeOK, Ended
  <2> QED BY <2>1, <2>2, <2>3, <2>4, Apart
<1> QED BY <1>1, <1>2

\* Every step keeps the semaphore equal to what its holders have added.
LEMMA Preserved == ASSUME Inv, [Next]_vars PROVE Inv'
<1> USE DEF Goto, ipc
<1>1. ASSUME CreateSet \/ CreateMemory \/ OpenSet \/ OpenMemory \/ Fill \/ Show \/ Await
      PROVE  Inv'
  <2>1. UNCHANGED <<undo, locked, i, barged>>
    BY <1>1 DEF CreateSet, CreateMemory, OpenSet, OpenMemory, Fill, Show, Await
  <2>2. sem' = sem
    <3>1. CASE CreateSet
      <4>1. CASE set
        BY <3>1, <4>1 DEF CreateSet
      <4>2. CASE ~set
        BY <3>1, <4>2 DEF CreateSet, Inv, Value
      <4> QED BY <4>1, <4>2
    <3> QED BY <1>1, <3>1 DEF CreateMemory, OpenSet, OpenMemory, Fill, Show, Await
  <2>3. TypeOK'
    BY <1>1, <2>1, <2>2
       DEF Inv, TypeOK, Procs, CreateSet, CreateMemory, OpenSet, OpenMemory, Fill, Show, Await
  <2>4. OnSet'
    BY <1>1, <2>1
       DEF Inv, TypeOK, OnSet, InSection, Ended, Procs,
           CreateSet, CreateMemory, OpenSet, OpenMemory, Fill, Show, Await
  <2>5. \A p \in Procs : pc'[p] \in Ended <=> pc[p] \in Ended
    BY <1>1 DEF Inv, TypeOK, Ended, Procs,
           CreateSet, CreateMemory, OpenSet, OpenMemory, Fill, Show, Await
  <2>6. set => set'
    BY <1>1 DEF CreateSet, CreateMemory, OpenSet, OpenMemory, Fill, Show, Await
  <2> QED BY <2>1, <2>2, <2>3, <2>4, <2>5, <2>6, Apart
<1>2. ASSUME NEW p \in Procs, Die(p), calm' \in BOOLEAN PROVE Inv'
  BY <1>2, Ending DEF Die, Inv, TypeOK, Procs, Ended
<1>3. CASE ChildExits
  BY <1>3, Ending DEF ChildExits, Inv, TypeOK, Procs, Ended
<1>4. CASE RemoveSet
  <2>1. pc["parent"] = "semctl" /\ pc' = [pc EXCEPT !["parent"] = "shmctl"]
    BY <1>4 DEF RemoveSet
  <2>2. UNCHANGED <<shm, buf, semid, mem, i, calm>>
    BY <1>4 DEF RemoveSet
  <2>3. \A p \in Procs : pc'[p] \in Ended <=> pc[p] \in Ended
    BY <2>1 DEF Inv, TypeOK, Ended
  <2>4. CASE semid["parent"]
    <3>1. /\ set' = FALSE /\ sem' = 0 /\ undo' = [p \in Procs |-> 0]
          /\ locked' = [p \in Procs |-> FALSE] /\ barged' = FALSE
      BY <1>4, <2>4 DEF RemoveSet
    <3>2. TypeOK'
      <4>1. sem' \in 0..SemMax /\ undo' \in [Procs -> Int] /\ locked' \in [Procs -> BOOLEAN]
        BY <3>1, Basics
      <4>2. set' \in BOOLEAN /\ barged' \in BOOLEAN
        BY <3>1
      <4> QED BY <2>1, <2>2, <4>1, <4>2 DEF Inv, TypeOK
    <3>3. UndoBalance'
      BY <3>1, Basics DEF UndoBalance, Keeps
    <3>4. Settled'
      <4>1. ASSUME NEW p \in Procs PROVE 0 <= Rounds - i[p]
        BY Basics DEF Inv, TypeOK
      <4> QED BY <2>2, <3>1, <4>1 DEF Settled
    <3>5. OnSet'
      <4>1. pc["child"] \in Ended /\ pc'["child"] \in Ended
        BY <2>1 DEF Inv, OnSet, TypeOK, Ended, Procs
      <4> QED BY <2>1, <2>2, <3>1, <4>1 DEF Inv, TypeOK, OnSet, InSection, Ended, Procs
    <3>6. Value'
      BY <3>1 DEF Value
    <3> QED BY <3>2, <3>3, <3>4, <3>5, <3>6 DEF Inv
  <2>5. CASE ~semid["parent"]
    <3>1. UNCHANGED <<set, sem, undo, locked, barged>>
      BY <1>4, <2>5 DEF RemoveSet
    <3>2. TypeOK'
      BY <2>1, <2>2, <3>1 DEF Inv, TypeOK
    <3>3. OnSet'
      BY <2>1, <2>2, <3>1 DEF Inv, TypeOK, OnSet, InSection, Ended, Procs
    <3> QED BY <2>2, <2>3, <3>1, <3>2, <3>3, Apart
  <2> QED BY <2>4, <2>5
<1>5. CASE RemoveMemory
  <2>1. pc["child"] \in Ended
    BY <1>5 DEF RemoveMemory, Inv, OnSet
  <2> QED BY <1>5, <2>1, Ending DEF RemoveMemory, Inv, TypeOK, Procs, Ended
<1>6. CASE Restart
  <2>1. UNCHANGED <<set, sem, undo, shm, buf, calm, barged>>
    BY <1>6 DEF Restart
  <2>2. \A p \in Procs : pc[p] \in Ended /\ pc'[p] = "semget" /\ ~semid'[p] /\ ~locked'[p] /\ i'[p] = Rounds
    BY <1>6 DEF Restart
  <2>3. TypeOK'
    <3>1. i' \in [Procs -> 0..Rounds]
      BY <1>6, Basics DEF Restart
    <3>2. pc' \in [Procs -> {"semget"}]
      BY <1>6 DEF Restart
    <3> QED BY <1>6, <2>1, <3>1, <3>2 DEF Restart, Inv, TypeOK
  <2>4. UndoBalance'
    <3>1. \A p \in Procs : ~Keeps(p) /\ ~Keeps(p)'
      BY <2>2 DEF Keeps
    <3> QED BY <2>1, <3>1 DEF Inv, UndoBalance
  <2>5. Settled'
    <3>1. \A p \in Procs : undo[p] = 0
      BY <2>2 DEF Inv, Settled
    <3> QED BY <2>1, <2>2, <3>1, Basics DEF Settled, Ended
  <2>6. OnSet'
    BY <2>2 DEF OnSet, InSection, Ended, Procs
  <2>7. Value'
    BY <2>1 DEF Inv, Value
  <2> QED BY <2>3, <2>4, <2>5, <2>6, <2>7 DEF Inv
<1>7. CASE UNCHANGED vars
  BY <1>7 DEF vars, Inv, TypeOK, UndoBalance, Keeps, Settled, OnSet, InSection, Value
<1> QED
  <2>1. CASE Parent
    BY <1>1, <1>4, <1>5, <2>1, Locking, Unlocking DEF Parent, Procs
  <2>2. CASE Child
    <3>1. Segfault => Inv'
      <4>1. Segfault => Die("child") /\ calm' = calm
        BY DEF Segfault
      <4> QED BY <1>2, <4>1 DEF Inv, TypeOK, Procs
    <3> QED BY <1>1, <1>3, <2>2, <3>1, Locking, Unlocking DEF Child, Procs
  <2>3. CASE \E p \in Procs : Trouble(p)
    BY <1>2, <2>3, Failing DEF Trouble, Kill
  <2> QED BY <1>6, <1>7, <2>1, <2>2, <2>3 DEF Next

\* The inductive invariant.
LEMMA Invariance == Spec => []Inv
<1>1. Init => Inv
  <2> SUFFICES ASSUME Init PROVE Inv
      OBVIOUS
  <2>1. TypeOK
    <3>1. i \in [Procs -> 0..Rounds]
      BY Basics DEF Init
    <3>2. undo \in [Procs -> Int] /\ sem \in 0..SemMax
      BY Basics DEF Init
    <3>3. pc \in [Procs -> {"semget"}]
      BY DEF Init
    <3> QED BY <3>1, <3>2, <3>3 DEF Init, TypeOK
  <2>2. UndoBalance
    BY Basics DEF Init, UndoBalance, Keeps
  <2>3. Settled
    BY Basics DEF Init, Settled, Ended
  <2>4. OnSet
    BY DEF Init, OnSet, InSection, Procs
  <2>5. Value
    BY DEF Init, Value
  <2> QED BY <2>1, <2>2, <2>3, <2>4, <2>5 DEF Inv
<1>2. Inv /\ [Next]_vars => Inv'
    BY Preserved
<1> QED BY <1>1, <1>2, PTL DEF Spec

\* Types are kept, whatever fails: the value stays between 0 and SemMax.
THEOREM Types == Spec => []TypeOK
<1>1. Inv => TypeOK
    BY DEF Inv
<1> QED BY <1>1, Invariance, PTL

\* Until a lock fails, kills and exits undo exactly what the ended process had
\* taken; after that too, never what the other one has added.
THEOREM UndoExact == Spec => []UndoBalance
<1>1. Inv => UndoBalance
    BY DEF Inv
<1> QED BY <1>1, Invariance, PTL

\* Of two processes one is inside at most.
LEMMA OneHolder == Inv => inside = {} \/ \E p \in Procs : inside = {p}
<1> SUFFICES ASSUME Inv, NEW p \in inside, NEW q \in inside, p # q PROVE FALSE
  BY DEF inside
<1>1. p \in Procs /\ q \in Procs /\ ~barged /\ Keeps(p) /\ Keeps(q)
  BY DEF inside, Keeps, InSection, Ended
<1>2. undo[p] = 1 /\ undo[q] = 1 /\ sem = undo["parent"] + undo["child"]
  BY <1>1 DEF Inv, UndoBalance
<1>3. undo["parent"] = 1 /\ undo["child"] = 1
  BY <1>1, <1>2 DEF Procs
<1> QED BY <1>1, <1>2, <1>3 DEF Inv, Value

\* Processes whose sem_lock succeeded exclude one another until a lock fails on
\* the set, in this run of the program and over all that follow a crash.
THEOREM Exclusive == Spec => SemExclusion
<1>1. Init => X!Init
    BY DEF Init, X!Init, inside, InSection, Procs
<1>h. Inv => inside = {} \/ \E p \in Procs : inside = {p}
    BY OneHolder
<1>2. Inv /\ Inv' /\ [Next]_vars => [X!Next]_inside
  <2> SUFFICES ASSUME Inv, Inv', [Next]_vars PROVE X!Next \/ inside' = inside
      OBVIOUS
  <2>1. inside = {} \/ \E p \in Procs : inside = {p}
    BY OneHolder
  <2>2. inside' = {} \/ \E p \in Procs : inside' = {p}
    <3>1. (Inv => inside = {} \/ \E p \in Procs : inside = {p})'
      BY <1>h, PTL
    <3> QED BY <3>1
  <2>3. inside \subseteq inside' \/ inside' \subseteq inside
    <3> USE DEF inside, InSection, Goto
    <3>1. ASSUME NEW p \in Procs, barged' = barged,
                 \A q \in Procs : q # p => pc'[q] = pc[q] /\ locked'[q] = locked[q]
          PROVE  inside \subseteq inside' \/ inside' \subseteq inside
      BY <3>1
    <3>2. CASE Restart
      <4>1. inside = {} /\ inside' = {}
        BY <3>2 DEF Restart, Ended
      <4> QED BY <4>1
    <3>3. CASE Parent
      <4>1. CASE RemoveSet
        <5>1. inside = {}
          BY <4>1 DEF RemoveSet, Inv, OnSet, Ended, Procs
        <5> QED BY <5>1
      <4>2. CASE ~RemoveSet
        <5>1. /\ \A q \in Procs : q # "parent" => pc'[q] = pc[q] /\ locked'[q] = locked[q]
              /\ barged' = barged
          BY <3>3, <4>2 DEF Inv, TypeOK, Procs, Parent, CreateSet, CreateMemory, Fill, Await,
               RemoveMemory, SemLock, Turn, SemUnlock
        <5> QED BY <3>1, <5>1 DEF Procs
      <4> QED BY <4>1, <4>2
    <3>4. CASE Child
      <4>1. /\ \A q \in Procs : q # "child" => pc'[q] = pc[q] /\ locked'[q] = locked[q]
            /\ barged' = barged
        BY <3>4 DEF Inv, TypeOK, Procs, Child, OpenSet, OpenMemory, Show, Segfault, Die, ChildExits,
                    SemLock, Turn, SemUnlock
      <4> QED BY <3>1, <4>1 DEF Procs
    <3>5. ASSUME NEW p \in Procs, Kill(p) \/ UnlockFails(p)
          PROVE  inside \subseteq inside' \/ inside' \subseteq inside
      <4>1. /\ \A q \in Procs : q # p => pc'[q] = pc[q] /\ locked'[q] = locked[q]
            /\ barged' = barged
        BY <3>5 DEF Inv, TypeOK, Kill, Die, UnlockFails
      <4> QED BY <3>1, <4>1
    <3>6. ASSUME NEW p \in Procs, LockFails(p) PROVE inside' = {}
      BY <3>6 DEF LockFails
    <3>7. CASE UNCHANGED vars
      BY <3>7 DEF vars
    <3> QED BY <3>2, <3>3, <3>4, <3>5, <3>6, <3>7 DEF Next, Trouble
  <2> QED BY <2>1, <2>2, <2>3 DEF X!Next, X!Enter, X!Leave
<1> QED BY <1>1, <1>2, Invariance, PTL DEF Spec, X!Spec, SemExclusion
-----------------------------------------------------------------------------
\* As long as nothing has gone wrong, both use the semaphore and the memory, and
\* the text is half written only inside the parent's section.
Ready ==
    /\ pc["parent"] \notin {"semget", "killed"} => semid["parent"]
    /\ pc["parent"] \notin Ended \cup {"semget", "shmget", "shmctl"} => set /\ shm
    /\ pc["child"] # "semget" => pc["parent"] \notin {"semget", "shmget"}
    /\ pc["parent"] \in {"semctl", "shmctl", "done"} => pc["child"] \in Ended
    /\ pc["parent"] # "killed"
    /\ pc["child"] \notin Ended \cup {"semget"} => semid["child"]
    /\ pc["child"] \notin Ended \cup {"semget", "shmget"} => mem

Whole ==
    /\ buf = "cleared" => pc["parent"] = "copy"
    /\ buf = "copied" => pc["parent"] = "stamp"

Own ==
    /\ pc["parent"] \notin {"print"}
    /\ pc["child"] \notin {"clear", "copy", "stamp", "semctl", "shmctl"}

\* The steps after which nothing has gone wrong keep the semaphore and the memory in use.
LEMMA ReadyPreserved ==
    ASSUME Inv, calm, calm', Ready, Own, Whole, [Next]_vars
    PROVE  Ready' /\ Own' /\ Whole'
<1> USE DEF Inv, TypeOK, Ready, Own, Whole, Procs, Ended, Goto, ipc
<1>1. CASE CreateSet
    BY <1>1 DEF CreateSet
<1>2. CASE CreateMemory
  <2>1. pc' = [pc EXCEPT !["parent"] = "lock"] /\ pc["parent"] = "shmget" /\ shm'
    BY <1>2 DEF CreateMemory
  <2>2. UNCHANGED <<set, semid, mem>>
    BY <1>2 DEF CreateMemory
  <2>3. Ready' /\ Own'
    BY <2>1, <2>2 DEF OnSet
  <2>4. buf' \notin {"cleared", "copied"}
    BY <1>2 DEF CreateMemory
  <2> QED BY <2>3, <2>4
<1>3. CASE OpenSet
    BY <1>3 DEF OpenSet
<1>4. CASE OpenMemory
    BY <1>4 DEF OpenMemory
<1>5. ASSUME NEW p \in Procs, Turn(p) PROVE Ready' /\ Own' /\ Whole'
    BY <1>5 DEF Turn, Critical
<1>6. CASE Fill \/ Show
    BY <1>6 DEF Fill, Show
<1>7. ASSUME NEW p \in Procs, SemUnlock(p) \/ UnlockFails(p) PROVE Ready' /\ Own' /\ Whole'
    BY <1>7 DEF SemUnlock, UnlockFails
<1>8. CASE ChildExits
    BY <1>8 DEF ChildExits
<1>9. CASE Segfault
    BY <1>9 DEF Segfault
<1>10. CASE Await
    BY <1>10 DEF Await
<1>11. CASE RemoveSet
    BY <1>11 DEF RemoveSet
<1>12. CASE RemoveMemory
    BY <1>12 DEF RemoveMemory
<1>13. CASE Restart
    BY <1>13 DEF Restart
<1>14. CASE UNCHANGED vars
    BY <1>14 DEF vars
<1>15. ASSUME NEW p \in Procs, Trouble(p) PROVE Ready' /\ Own' /\ Whole'
    BY <1>5, <1>7, <1>15 DEF Trouble, Kill, LockFails
<1> QED
    BY <1>1, <1>2, <1>3, <1>4, <1>5, <1>6, <1>7, <1>8, <1>9, <1>10, <1>11,
       <1>12, <1>13, <1>14, <1>15 DEF Next, Parent, Child, SemLock

\* What has gone wrong has gone wrong for ever.
LEMMA CalmBefore == ASSUME [Next]_vars, calm' PROVE calm
    BY DEF Next, Parent, Child, Trouble, CreateSet, CreateMemory, OpenSet, OpenMemory, SemLock,
           Turn, LockFails, SemUnlock, UnlockFails, Fill, Show, ChildExits, Segfault, Kill, Await,
           RemoveSet, RemoveMemory, Restart, ipc, vars

\* The child prints the parent's text or nothing yet.
THEOREM Prints == Spec => []PrintsWhole
<1> DEFINE J == calm => Ready /\ Own /\ Whole
<1>1. Init => J
    BY DEF Init, Ready, Own, Whole, Procs, Ended
<1>2. Inv /\ J /\ [Next]_vars => J'
    BY ReadyPreserved, CalmBefore
<1>3. Inv /\ J => PrintsWhole
  <2> SUFFICES ASSUME Inv, Ready, Own, Whole, pc["child"] = "print", ~barged
               PROVE  buf \in {"none", "whole"}
      BY DEF PrintsWhole
  <2>1. "child" \in inside
    BY DEF Ready, Inv, OnSet, InSection, inside, Procs, Ended
  <2>2. pc["parent"] \in {"copy", "stamp"} => "parent" \in inside
    BY DEF Ready, Inv, OnSet, InSection, inside, Procs, Ended
  <2>3. "parent" \notin inside
    BY <2>1, OneHolder
  <2> QED BY <2>2, <2>3 DEF Whole, Inv, TypeOK
<1> QED BY <1>1, <1>2, <1>3, Invariance, PTL DEF Spec

\* A parent that had the set and ended by itself has removed set and memory, those
\* that an earlier run left included.
THEOREM Cleans == Spec => []NothingLeft
<1> DEFINE Removed ==
      /\ pc["parent"] \in {"semctl", "shmctl", "done"} => pc["child"] \in Ended
      /\ pc["parent"] \in {"shmctl", "done"} /\ semid["parent"] => ~set
      /\ pc["parent"] = "done" => ~shm
<1>1. Init => Removed
  BY DEF Init, Procs
<1>2. Inv /\ Removed /\ [Next]_vars => Removed'
  <2> SUFFICES ASSUME Inv, Removed, [Next]_vars PROVE Removed'
    OBVIOUS
  <2> USE DEF Inv, TypeOK, Procs, Ended, Goto, ipc
  <2>1. CASE Await \/ RemoveSet \/ RemoveMemory
    BY <2>1 DEF Await, RemoveSet, RemoveMemory
  <2>2. CASE CreateSet \/ CreateMemory \/ Fill
    BY <2>2 DEF CreateSet, CreateMemory, Fill
  <2>3. ASSUME NEW p \in Procs, Turn(p) \/ SemUnlock(p) \/ UnlockFails(p) PROVE Removed'
    BY <2>3 DEF Turn, SemUnlock, UnlockFails, Critical
  <2>4. CASE OpenSet \/ OpenMemory \/ Show
    BY <2>4 DEF OpenSet, OpenMemory, Show
  <2>5. CASE ChildExits \/ Segfault \/ \E p \in Procs : Kill(p)
    BY <2>5 DEF ChildExits, Segfault, Kill, Die
  <2>6. CASE Restart
    BY <2>6 DEF Restart
  <2>7. CASE UNCHANGED vars
    BY <2>7 DEF vars
  <2> QED BY <2>1, <2>2, <2>3, <2>4, <2>5, <2>6, <2>7 DEF Next, Parent, Child, Trouble, SemLock, LockFails
<1>3. Inv /\ Removed => NothingLeft
  BY DEF NothingLeft, Procs
<1> QED BY <1>1, <1>2, <1>3, Invariance, PTL DEF Spec
-----------------------------------------------------------------------------
(***************************************************************************)
(* TCP, UNIX domain and UDP sessions                                       *)
(***************************************************************************)
\* The next call of either side.
cli == at["client"]
srv == at["server"]

Words == {"text", "qu", "it", "quit"}
Stream == proto # "udp"

\* The places of the client's recv, of the server's "quit", and of its last call.
RecvAt == IF Stream THEN 3 ELSE 2
QuitAt == IF proto = "tcp" THEN 5 ELSE IF proto = "unix" THEN 6 ELSE 4
LastCall == IF proto = "tcp" THEN 7 ELSE IF proto = "unix" THEN 10 ELSE 6

\* The variables, with the texts replaced by their lengths.
SessionValues ==
    /\ proto \in Protos /\ path \in {"free", "stale", "bound"}
    /\ link \in {"none", "open", "ended", "reset", "broken"}
    /\ up \in 0..4 /\ down \in Seq(Words)
    /\ at \in [Sides -> Nat] /\ cli \in 1..(RecvAt + 2) /\ srv \in 1..(LastCall + 1)
    /\ dead \subseteq Sides /\ trouble \in BOOLEAN

\* Only a stream that has connected has a link.
Linked == ~Stream \/ cli = 1 => link = "none"

\* How many messages the server has not sent yet, the two halves of "quit" included.
Unsaid ==
    IF proto = "tcp" THEN IF srv <= 4 THEN 3 ELSE IF srv = 5 THEN 2 ELSE 0
    ELSE IF proto = "unix" THEN IF srv <= 6 THEN 1 ELSE 0
    ELSE IF srv <= 3 THEN 2 ELSE IF srv = 4 THEN 1 ELSE 0

\* Every request but the first is sent for a message that was read.
Budget ==
    link \in {"none", "open"} => up + (IF cli < RecvAt THEN 1 ELSE 0) + Len(down) + Unsaid <= 4

\* Nobody has a part of "quit" that was not sent.
Sealed ==
    /\ cli > RecvAt => srv > QuitAt
    /\ \A n \in 1..Len(down) : down[n] # "text" => srv > QuitAt

\* While nobody was killed: the TCP server keeps the connection, and the UNIX
\* domain server drops it behind a "quit" that the client waits for.
Calm ==
    ~trouble =>
        /\ dead = {}
        /\ proto = "tcp" => link \in {"none", "open"}
        /\ proto = "unix" =>
              /\ link \in {"none", "open", "broken"} /\ (link = "broken" => srv > 7)
              /\ srv <= 6 => down = <<>>
              /\ up > 0 \/ srv >= 6 => cli >= 3
              /\ srv > 6 /\ cli = 3 => down = <<"quit">>

\* The last call removes the path.
Unlinked == proto = "unix" /\ srv > 10 => path = "free"

SessionInv == SessionValues /\ Linked /\ Budget /\ Sealed /\ Calm /\ Unlinked
-----------------------------------------------------------------------------
-----------------------------------------------------------------------------
\* One text behind another.
LEMMA Joined ==
    ASSUME NEW S, NEW a \in Seq(S), NEW b \in Seq(S)
    PROVE  /\ a \o b \in Seq(S) /\ Len(a \o b) = Len(a) + Len(b) /\ Len(a) \in Nat /\ Len(b) \in Nat
           /\ \A n \in 1..Len(a) : (a \o b)[n] = a[n]
           /\ \A n \in 1..Len(b) : (a \o b)[Len(a) + n] = b[n]
  OBVIOUS

Names == {"bind", "listen", "accept", "text", "quit", "shut", "wait", "recv", "unlink", "hangup"}

\* The calls of the TCP server.
LEMMA TcpText ==
    /\ Len(TcpMain) = 7
    /\ TcpMain[1] = "bind" /\ TcpMain[2] = "listen" /\ TcpMain[3] = "accept" /\ TcpMain[4] = "text"
    /\ TcpMain[5] = "quit" /\ TcpMain[6] = "shut" /\ TcpMain[7] = "wait"
<1> DEFINE a == TcpServer
           b == <<"wait">>
<1>0. a \in Seq(Names) /\ b \in Seq(Names)
  BY DEF TcpServer, Names
<1>1. Len(a) = 6
  BY DEF TcpServer
<1>2. a[1] = "bind" /\ a[2] = "listen" /\ a[3] = "accept" /\ a[4] = "text" /\ a[5] = "quit" /\ a[6] = "shut"
  BY DEF TcpServer
<1>3. Len(b) = 1 /\ b[1] = "wait"
  OBVIOUS
<1>4. TcpMain = a \o b
  BY DEF TcpMain
<1> HIDE DEF a, b
<1>5. /\ Len(TcpMain) = Len(a) + Len(b)
      /\ \A n \in 1..Len(a) : TcpMain[n] = a[n]
      /\ \A n \in 1..Len(b) : TcpMain[Len(a) + n] = b[n]
  BY <1>0, <1>4, Joined
<1> QED BY <1>1, <1>2, <1>3, <1>5

\* The calls of the UDP server.
LEMMA UdpText ==
    /\ Len(UdpMain) = 6
    /\ UdpMain[1] = "bind" /\ UdpMain[2] = "recv" /\ UdpMain[3] = "text" /\ UdpMain[4] = "quit"
    /\ UdpMain[5] = "shut" /\ UdpMain[6] = "wait"
<1> DEFINE a == UdpServer
           b == <<"wait">>
<1>0. a \in Seq(Names) /\ b \in Seq(Names)
  BY DEF UdpServer, Names
<1>1. Len(a) = 5
  BY DEF UdpServer
<1>2. a[1] = "bind" /\ a[2] = "recv" /\ a[3] = "text" /\ a[4] = "quit" /\ a[5] = "shut"
  BY DEF UdpServer
<1>3. Len(b) = 1 /\ b[1] = "wait"
  OBVIOUS
<1>4. UdpMain = a \o b
  BY DEF UdpMain
<1> HIDE DEF a, b
<1>5. /\ Len(UdpMain) = Len(a) + Len(b)
      /\ \A n \in 1..Len(a) : UdpMain[n] = a[n]
      /\ \A n \in 1..Len(b) : UdpMain[Len(a) + n] = b[n]
  BY <1>0, <1>4, Joined
<1> QED BY <1>1, <1>2, <1>3, <1>5

\* The calls of the UNIX domain server.
LEMMA UnixText ==
    /\ Len(UnixMain) = 10
    /\ UnixMain[1] = "unlink" /\ UnixMain[2] = "bind" /\ UnixMain[3] = "listen" /\ UnixMain[4] = "accept"
    /\ UnixMain[5] = "recv" /\ UnixMain[6] = "quit" /\ UnixMain[7] = "hangup" /\ UnixMain[8] = "shut"
    /\ UnixMain[9] = "wait" /\ UnixMain[10] = "unlink"
<1> DEFINE a == <<"unlink">>
           m == UnixServer
           b == <<"wait", "unlink">>
<1>0. a \in Seq(Names) /\ m \in Seq(Names) /\ b \in Seq(Names)
  BY DEF UnixServer, Names
<1>1. Len(m) = 7
  BY DEF UnixServer
<1>2. /\ m[1] = "bind" /\ m[2] = "listen" /\ m[3] = "accept" /\ m[4] = "recv" /\ m[5] = "quit"
      /\ m[6] = "hangup" /\ m[7] = "shut"
  BY DEF UnixServer
<1>3. Len(a) = 1 /\ a[1] = "unlink" /\ Len(b) = 2 /\ b[1] = "wait" /\ b[2] = "unlink"
  OBVIOUS
<1>4. UnixMain = (a \o m) \o b
  BY DEF UnixMain
<1> HIDE DEF a, b, m
<1> DEFINE l == a \o m
<1>5. /\ l \in Seq(Names) /\ Len(l) = Len(a) + Len(m)
      /\ \A n \in 1..Len(a) : l[n] = a[n]
      /\ \A n \in 1..Len(m) : l[Len(a) + n] = m[n]
  BY <1>0, Joined
<1> HIDE DEF l
<1>6. /\ Len(UnixMain) = Len(l) + Len(b)
      /\ \A n \in 1..Len(l) : UnixMain[n] = l[n]
      /\ \A n \in 1..Len(b) : UnixMain[Len(l) + n] = b[n]
  BY <1>0, <1>4, <1>5, Joined DEF l
<1>7. /\ l[1] = "unlink" /\ l[2] = "bind" /\ l[3] = "listen" /\ l[4] = "accept"
      /\ l[5] = "recv" /\ l[6] = "quit" /\ l[7] = "hangup" /\ l[8] = "shut" /\ Len(l) = 8
  BY <1>1, <1>2, <1>3, <1>5
<1> QED BY <1>3, <1>6, <1>7

\* How long the texts are.
LEMMA TextLengths ==
    proto \in Protos => Len(Text("client")) = RecvAt + 1 /\ Len(Text("server")) = LastCall
<1>1. CASE proto = "tcp"
  BY <1>1, TcpText DEF Text, TcpClient, RecvAt, LastCall, Stream
<1>2. CASE proto = "unix"
  BY <1>2, UnixText DEF Text, UnixClient, RecvAt, LastCall, Stream
<1>3. CASE proto = "udp"
  BY <1>3, UdpText DEF Text, UdpClient, RecvAt, LastCall, Stream
<1> QED BY <1>1, <1>2, <1>3 DEF Protos

\* A side that is gone has made its last call, or is dead.
LEMMA GoneIs ==
    ASSUME proto \in Protos
    PROVE  /\ Gone("client") <=> "client" \in dead \/ cli > RecvAt + 1
           /\ Gone("server") <=> "server" \in dead \/ srv > LastCall
  BY TextLengths DEF Gone, cli, srv

\* Where the calls of the client are.
LEMMA ClientCalls ==
    ASSUME SessionInv, NEW call, Calls("client", call)
    PROVE  /\ "client" \notin dead /\ cli \in 1..(RecvAt + 1)
           /\ call = "connect" => Stream /\ cli = 1
           /\ call = "send" => cli = RecvAt - 1
           /\ call = "recv" => cli = RecvAt
           /\ call = "close" => cli = RecvAt + 1
<1>1. proto \in Protos /\ cli \in 1..(RecvAt + 2) /\ Text("client")[cli] = call /\ ~Gone("client")
  BY DEF SessionInv, SessionValues, Calls, cli
<1>2. "client" \notin dead /\ cli \in 1..(RecvAt + 1)
  BY <1>1, GoneIs DEF RecvAt
<1>3. CASE Stream
  <2>1. cli = 1 \/ cli = 2 \/ cli = 3 \/ cli = 4
    BY <1>2, <1>3 DEF RecvAt
  <2>2. Text("client") = <<"connect", "send", "recv", "close">>
    BY <1>1, <1>3 DEF Text, Stream, Protos, TcpClient, UnixClient
  <2> QED BY <1>1, <1>2, <1>3, <2>1, <2>2 DEF RecvAt
<1>4. CASE ~Stream
  <2>1. cli = 1 \/ cli = 2 \/ cli = 3
    BY <1>2, <1>4 DEF RecvAt
  <2>2. Text("client") = <<"send", "recv", "close">>
    BY <1>1, <1>4 DEF Text, Stream, Protos, UdpClient
  <2> QED BY <1>1, <1>2, <1>4, <2>1, <2>2 DEF RecvAt
<1> QED BY <1>3, <1>4

\* Where the calls of the server are.
LEMMA ServerCalls ==
    ASSUME SessionInv, NEW call, Calls("server", call)
    PROVE  /\ "server" \notin dead /\ srv \in 1..LastCall
           /\ call = "unlink" => proto = "unix" /\ srv \in {1, 10}
           /\ call = "bind" => (proto = "unix" /\ srv = 2) \/ (proto # "unix" /\ srv = 1)
           /\ call = "listen" => (proto = "unix" /\ srv = 3) \/ (proto = "tcp" /\ srv = 2)
           /\ call = "accept" => (proto = "unix" /\ srv = 4) \/ (proto = "tcp" /\ srv = 3)
           /\ call = "recv" => (proto = "unix" /\ srv = 5) \/ (proto = "udp" /\ srv = 2)
           /\ call = "text" => (proto = "tcp" /\ srv = 4) \/ (proto = "udp" /\ srv = 3)
           /\ call = "quit" => srv = QuitAt
           /\ call = "hangup" => proto = "unix" /\ srv = 7
           /\ call = "shut" => (proto # "unix" /\ srv = LastCall - 1) \/ (proto = "unix" /\ srv = 8)
           /\ call = "wait" => (proto # "unix" /\ srv = LastCall) \/ (proto = "unix" /\ srv = 9)
<1>1. proto \in Protos /\ srv \in 1..(LastCall + 1) /\ Text("server")[srv] = call /\ ~Gone("server")
  BY DEF SessionInv, SessionValues, Calls, srv
<1>2. "server" \notin dead /\ srv \in 1..LastCall
  BY <1>1, GoneIs DEF LastCall
<1>3. CASE proto = "tcp"
  <2>1. srv = 1 \/ srv = 2 \/ srv = 3 \/ srv = 4 \/ srv = 5 \/ srv = 6 \/ srv = 7
    BY <1>2, <1>3 DEF LastCall
  <2>2. TcpMain[srv] = call
    BY <1>1, <1>3 DEF Text
  <2> QED BY <1>2, <1>3, <2>1, <2>2, TcpText DEF LastCall, QuitAt
<1>4. CASE proto = "unix"
  <2>1. srv = 1 \/ srv = 2 \/ srv = 3 \/ srv = 4 \/ srv = 5 \/ srv = 6 \/ srv = 7 \/ srv = 8 \/ srv = 9 \/ srv = 10
    BY <1>2, <1>4 DEF LastCall
  <2>2. UnixMain[srv] = call
    BY <1>1, <1>4 DEF Text
  <2> QED BY <1>2, <1>4, <2>1, <2>2, UnixText DEF LastCall, QuitAt
<1>5. CASE proto = "udp"
  <2>1. srv = 1 \/ srv = 2 \/ srv = 3 \/ srv = 4 \/ srv = 5 \/ srv = 6
    BY <1>2, <1>5 DEF LastCall
  <2>2. UdpMain[srv] = call
    BY <1>1, <1>5 DEF Text
  <2> QED BY <1>2, <1>5, <2>1, <2>2, UdpText DEF LastCall, QuitAt
<1> QED BY <1>1, <1>3, <1>4, <1>5 DEF Protos

\* Where the two sides are after a step of one of them.
LEMMA Stepped ==
    ASSUME SessionInv
    PROVE  /\ Step("client", 1) => at' \in [Sides -> Nat] /\ cli' = cli + 1 /\ srv' = srv
           /\ Step("client", -1) /\ cli > 1 => at' \in [Sides -> Nat] /\ cli' = cli - 1 /\ srv' = srv
           /\ Step("server", 1) => at' \in [Sides -> Nat] /\ srv' = srv + 1 /\ cli' = cli
           /\ UNCHANGED at => at' \in [Sides -> Nat] /\ srv' = srv /\ cli' = cli
           /\ cli \in Nat /\ srv \in Nat /\ cli >= 1 /\ srv >= 1
           /\ Len(down) \in Nat /\ up \in Nat /\ proto \in Protos
<1>1. at \in [Sides -> Nat] /\ cli >= 1 /\ srv >= 1 /\ down \in Seq(Words) /\ up \in Nat /\ proto \in Protos
  BY DEF SessionInv, SessionValues
<1>2. cli \in Nat /\ srv \in Nat
  BY <1>1 DEF cli, srv, Sides
<1>3. Step("client", 1) => at' \in [Sides -> Nat] /\ cli' = cli + 1 /\ srv' = srv
  BY <1>1 DEF Step, cli, srv, Sides
<1>4. Step("client", -1) /\ cli > 1 => at' \in [Sides -> Nat] /\ cli' = cli - 1 /\ srv' = srv
  <2>1. cli > 1 => cli + (-1) \in Nat /\ cli + (-1) = cli - 1
    BY <1>2
  <2> QED BY <1>1, <2>1 DEF Step, cli, srv, Sides
<1>5. Step("server", 1) => at' \in [Sides -> Nat] /\ srv' = srv + 1 /\ cli' = cli
  BY <1>1 DEF Step, cli, srv, Sides
<1> QED BY <1>1, <1>2, <1>3, <1>4, <1>5 DEF cli, srv

\* What one call of the client reads and leaves was there before.
LEMMA ReadIs ==
    ASSUME SessionInv, down # <<>>, NEW r \in Reads
    PROVE  /\ r[2] \in Seq(Words) /\ Len(r[2]) < Len(down)
           /\ \A n \in 1..Len(r[2]) : \E j \in 1..Len(down) : r[2][n] = down[j]
           /\ \A n \in 1..Len(r[1]) : \E j \in 1..Len(down) : r[1][n] = down[j]
           /\ proto = "unix" => r[1] = down /\ Len(r[2]) = 0
<1>0. down \in Seq(Words) /\ Len(down) \in Nat
  BY DEF SessionInv, SessionValues
<1>1. CASE proto = "udp"
  <2>1. PICK n \in 1..Len(down) : r = << <<down[n]>>, SubSeq(down, 1, n - 1) \o SubSeq(down, n + 1, Len(down))>>
    BY <1>1 DEF Reads
  <2> DEFINE a == SubSeq(down, 1, n - 1)
             b == SubSeq(down, n + 1, Len(down))
  <2>2. a \in Seq(Words) /\ Len(a) = n - 1 /\ \A k \in 1..Len(a) : k \in 1..Len(down) /\ a[k] = down[k]
    BY <1>0
  <2>3. b \in Seq(Words) /\ Len(b) = Len(down) - n /\ \A k \in 1..Len(b) : k + n \in 1..Len(down) /\ b[k] = down[k + n]
    BY <1>0
  <2>4. r[1] = <<down[n]>> /\ r[2] = a \o b
    BY <2>1
  <2> HIDE DEF a, b
  <2>5. /\ a \o b \in Seq(Words) /\ Len(a \o b) = Len(a) + Len(b) /\ Len(a) \in Nat /\ Len(b) \in Nat
        /\ \A k \in 1..Len(a) : (a \o b)[k] = a[k]
        /\ \A k \in 1..Len(b) : (a \o b)[Len(a) + k] = b[k]
    <3>1. a \in Seq(Words) /\ b \in Seq(Words)
      BY <2>2, <2>3
    <3> QED BY <3>1, Joined
  <2>6. ASSUME NEW k \in 1..Len(r[2]) PROVE \E j \in 1..Len(down) : r[2][k] = down[j]
    <3>1. CASE k \in 1..Len(a)
      BY <2>2, <2>4, <2>5, <3>1
    <3>2. CASE k \notin 1..Len(a)
      <4>1. k - Len(a) \in 1..Len(b) /\ k = Len(a) + (k - Len(a))
        BY <2>4, <2>5, <3>2
      <4>2. r[2][k] = b[k - Len(a)]
        BY <2>4, <2>5, <4>1
      <4>3. (k - Len(a)) + n \in 1..Len(down) /\ r[2][k] = down[(k - Len(a)) + n]
        BY <2>3, <4>1, <4>2
      <4> QED BY <4>3
    <3> QED BY <3>1, <3>2
  <2>7. \A k \in 1..Len(r[1]) : \E j \in 1..Len(down) : r[1][k] = down[j]
    BY <2>4
  <2>8. Len(r[2]) < Len(down)
    BY <1>0, <2>2, <2>3, <2>4, <2>5
  <2> QED BY <1>1, <2>4, <2>5, <2>6, <2>7, <2>8
<1>2. CASE proto # "udp"
  <2>1. PICK n \in 1..Len(down) : r = <<SubSeq(down, 1, n), SubSeq(down, n + 1, Len(down))>> /\ (proto = "unix" => n = Len(down))
    <3>1. CASE proto = "tcp"
      BY <1>2, <3>1 DEF Reads
    <3>2. CASE proto = "unix"
      <4>1. r = <<SubSeq(down, 1, Len(down)), SubSeq(down, Len(down) + 1, Len(down))>>
        BY <1>2, <3>2 DEF Reads
      <4>2. Len(down) \in 1..Len(down)
        BY <1>0
      <4> QED BY <4>1, <4>2
    <3> QED BY <1>2, <3>1, <3>2 DEF SessionInv, SessionValues, Protos
  <2> QED BY <1>0, <2>1
<1> QED BY <1>1, <1>2

\* The places of the calls depend on the program alone.
LEMMA Fixed ==
    ASSUME proto' = proto
    PROVE  RecvAt' = RecvAt /\ QuitAt' = QuitAt /\ LastCall' = LastCall /\ Stream' = Stream
  BY DEF RecvAt, QuitAt, LastCall, Stream

\* unlink, bind, listen, accept, shut and wait: the server is behind no message
\* that it was not behind before.
LEMMA PathKeeps ==
    ASSUME SessionInv, Unlink \/ Bind \/ Listen \/ Accept \/ Shut \/ Wait
    PROVE  SessionInv'
<1>1. UNCHANGED <<proto, link, up, down, dead, trouble>> /\ Step("server", 1) /\ path' \in {path, "free", "bound"}
  BY DEF Unlink, Bind, Listen, Accept, Shut, Wait
<1>2. /\ "server" \notin dead /\ srv \in 1..LastCall
      /\ proto = "tcp" => srv \in {1, 2, 3, 6, 7}
      /\ proto = "unix" => srv \in {1, 2, 3, 4, 8, 9, 10}
      /\ proto = "udp" => srv \in {1, 5, 6}
      /\ proto = "unix" /\ srv = 10 => path' = "free"
  <2>0. proto \in Protos
    BY DEF SessionInv, SessionValues
  <2>1. CASE Unlink
    <3>1. Calls("server", "unlink") /\ path' = "free"
      BY <2>1 DEF Unlink
    <3> QED BY <2>0, <3>1, ServerCalls DEF Protos, LastCall
  <2>2. CASE Bind
    <3>1. Calls("server", "bind")
      BY <2>2 DEF Bind
    <3> QED BY <2>0, <3>1, ServerCalls DEF Protos, LastCall
  <2>3. CASE Listen
    <3>1. Calls("server", "listen")
      BY <2>3 DEF Listen
    <3> QED BY <2>0, <3>1, ServerCalls DEF Protos, LastCall
  <2>4. CASE Accept
    <3>1. Calls("server", "accept")
      BY <2>4 DEF Accept
    <3> QED BY <2>0, <3>1, ServerCalls DEF Protos, LastCall
  <2>5. CASE Shut
    <3>1. Calls("server", "shut")
      BY <2>5 DEF Shut
    <3> QED BY <2>0, <3>1, ServerCalls DEF Protos, LastCall
  <2>6. CASE Wait
    <3>1. Calls("server", "wait")
      BY <2>6 DEF Wait
    <3> QED BY <2>0, <3>1, ServerCalls DEF Protos, LastCall
  <2> QED BY <1>1, <2>1, <2>2, <2>3, <2>4, <2>5, <2>6
<1>3. at' \in [Sides -> Nat] /\ srv' = srv + 1 /\ cli' = cli /\ srv \in Nat
  BY <1>1, Stepped
<1>4. RecvAt' = RecvAt /\ QuitAt' = QuitAt /\ LastCall' = LastCall /\ Stream' = Stream
  BY <1>1, Fixed
<1>5. SessionValues'
  BY <1>1, <1>2, <1>3, <1>4 DEF SessionInv, SessionValues, LastCall
<1>6. Linked'
  BY <1>1, <1>3, <1>4 DEF SessionInv, Linked
<1>7. Unsaid' = Unsaid
  BY <1>1, <1>2, <1>3 DEF Unsaid, SessionInv, SessionValues, Protos
<1>8. Budget'
  BY <1>1, <1>3, <1>4, <1>7 DEF SessionInv, Budget
<1>9. Sealed'
  BY <1>1, <1>3, <1>4 DEF SessionInv, Sealed, QuitAt
<1>10. Calm'
  BY <1>1, <1>2, <1>3 DEF SessionInv, Calm
<1>11. Unlinked'
  BY <1>1, <1>2, <1>3 DEF SessionInv, Unlinked
<1> QED BY <1>5, <1>6, <1>8, <1>9, <1>10, <1>11 DEF SessionInv

\* connect makes the link, close leaves it as it is.
LEMMA ConnectKeeps ==
    ASSUME SessionInv, Connect \/ CloseClient
    PROVE  SessionInv'
<1>1. /\ UNCHANGED <<proto, path, up, down, dead, trouble>> /\ Step("client", 1) /\ link' \in {link, "open"}
      /\ Connect => link' = "open"
      /\ CloseClient => link' = link
  BY DEF Connect, CloseClient
<1>2. /\ \/ Stream /\ cli = 1 /\ link' = "open"
         \/ cli = RecvAt + 1 /\ link' = link
      /\ "client" \notin dead
  <2>1. CASE Connect
    <3>1. Calls("client", "connect")
      BY <2>1 DEF Connect
    <3> QED BY <1>1, <2>1, <3>1, ClientCalls
  <2>2. CASE CloseClient
    <3>1. Calls("client", "close")
      BY <2>2 DEF CloseClient
    <3> QED BY <1>1, <2>2, <3>1, ClientCalls
  <2> QED BY <2>1, <2>2
<1>3. at' \in [Sides -> Nat] /\ cli' = cli + 1 /\ srv' = srv /\ cli \in Nat
  BY <1>1, Stepped
<1>4. RecvAt' = RecvAt /\ QuitAt' = QuitAt /\ LastCall' = LastCall /\ Stream' = Stream
  BY <1>1, Fixed
<1>5. SessionValues'
  BY <1>1, <1>2, <1>3, <1>4 DEF SessionInv, SessionValues, RecvAt
<1>6. Linked'
  BY <1>1, <1>2, <1>3, <1>4 DEF SessionInv, Linked, RecvAt
<1>7. Unsaid' = Unsaid
  BY <1>1, <1>3 DEF Unsaid
<1>8. Budget'
  <2>1. cli = 1 => link = "none"
    BY DEF SessionInv, Linked
  <2> QED BY <1>1, <1>2, <1>3, <1>4, <1>7, <2>1 DEF SessionInv, Budget, RecvAt
<1>9. Sealed'
  BY <1>1, <1>2, <1>3, <1>4 DEF SessionInv, Sealed, RecvAt
<1>10. Calm'
  BY <1>1, <1>2, <1>3 DEF SessionInv, Calm, RecvAt, Stream
<1>11. Unlinked'
  BY <1>1, <1>3 DEF SessionInv, Unlinked
<1> QED BY <1>5, <1>6, <1>8, <1>9, <1>10, <1>11 DEF SessionInv

\* A request is sent for the message that was read before it.
LEMMA SendKeeps ==
    ASSUME SessionInv, Send
    PROVE  SessionInv'
<1>1. Calls("client", "send") /\ UNCHANGED <<proto, path, down>>
  BY DEF Send
<1>2. "client" \notin dead /\ cli = RecvAt - 1 /\ cli \in Nat
  BY <1>1, ClientCalls, Stepped
<1>3. RecvAt' = RecvAt /\ QuitAt' = QuitAt /\ LastCall' = LastCall /\ Stream' = Stream
  BY <1>1, Fixed
<1>4. CASE /\ Step("client", 1) /\ UNCHANGED <<link, dead>> /\ up' \in {up, up + 1}
           /\ proto = "udp" \/ link = "open"
           /\ trouble' \in BOOLEAN /\ (~trouble' => ~trouble)
  <2>1. at' \in [Sides -> Nat] /\ cli' = cli + 1 /\ srv' = srv /\ Unsaid' = Unsaid /\ Unsaid \in 0..3 /\ Len(down) \in Nat /\ srv \in Nat
    BY <1>1, <1>4, Stepped DEF Unsaid
  <2>2. link \in {"none", "open"}
    BY <1>4 DEF SessionInv, Linked, Stream
  <2>3. Budget'
    BY <1>1, <1>2, <1>3, <1>4, <2>1, <2>2 DEF SessionInv, SessionValues, Budget, RecvAt
  <2>4. up' \in 0..4
    BY <1>1, <1>2, <1>3, <1>4, <2>1, <2>2 DEF SessionInv, SessionValues, Budget, RecvAt
  <2>5. SessionValues'
    BY <1>1, <1>2, <1>3, <1>4, <2>1, <2>4 DEF SessionInv, SessionValues, RecvAt
  <2>6. Linked'
    BY <1>1, <1>2, <1>3, <1>4, <2>1 DEF SessionInv, Linked, RecvAt, Stream
  <2>7. Sealed'
    BY <1>1, <1>2, <1>3, <1>4, <2>1 DEF SessionInv, Sealed, RecvAt
  <2>8. Calm'
    BY <1>1, <1>2, <1>3, <1>4, <2>1 DEF SessionInv, Calm, RecvAt, Stream
  <2>9. Unlinked'
    BY <1>1, <2>1 DEF SessionInv, Unlinked
  <2> QED BY <2>3, <2>5, <2>6, <2>7, <2>8, <2>9 DEF SessionInv
<1>5. CASE /\ \/ Step("client", 1) /\ dead' = dead
              \/ UNCHANGED at /\ dead' = dead \cup {"client"}
           /\ UNCHANGED <<up, trouble>>
           /\ link \in {"ended", "reset", "broken"} /\ link' \in {link, "reset", "broken"}
           /\ link = "ended" => dead' = dead
           /\ link = "broken" => dead' = dead \cup {"client"}
  <2>1. at' \in [Sides -> Nat] /\ cli' \in {cli, cli + 1} /\ srv' = srv
    BY <1>5, Stepped
  <2>2. Stream /\ cli > 1
    BY <1>2, <1>5 DEF SessionInv, Linked, RecvAt
  <2>3. trouble
    BY <1>2, <1>5, <2>2 DEF SessionInv, Calm, Stream, RecvAt, SessionValues, Protos
  <2>4. SessionValues'
    <3>1. dead' \subseteq Sides
      BY <1>5 DEF SessionInv, SessionValues, Sides
    <3> QED BY <1>1, <1>2, <1>3, <1>5, <2>1, <3>1 DEF SessionInv, SessionValues, RecvAt
  <2>5. Linked'
    BY <1>2, <1>3, <2>1, <2>2 DEF Linked
  <2>6. Budget'
    BY <1>5 DEF Budget
  <2>7. Sealed'
    BY <1>1, <1>2, <1>3, <1>5, <2>1 DEF SessionInv, Sealed, RecvAt
  <2>8. Calm'
    BY <1>5, <2>3 DEF Calm
  <2>9. Unlinked'
    BY <1>1, <2>1 DEF SessionInv, Unlinked
  <2> QED BY <2>4, <2>5, <2>6, <2>7, <2>8, <2>9 DEF SessionInv
<1>6. proto = "udp" => trouble' \in BOOLEAN /\ (~trouble' => ~trouble)
  <2>1. trouble' = (trouble \/ path # "bound") \/ UNCHANGED trouble
    BY DEF Send
  <2> QED BY <2>1 DEF SessionInv, SessionValues
<1> QED BY <1>4, <1>5, <1>6 DEF Send, SessionInv, SessionValues

\* A request that is read makes room; without one, the client is gone.
LEMMA RecvRequestKeeps ==
    ASSUME SessionInv, RecvRequest
    PROVE  SessionInv'
<1>1. Calls("server", "recv") /\ Step("server", 1) /\ UNCHANGED <<proto, path, link, down, dead, trouble>>
  BY DEF RecvRequest
<1>2. "server" \notin dead /\ ((proto = "unix" /\ srv = 5) \/ (proto = "udp" /\ srv = 2))
  BY <1>1, ServerCalls
<1>3. RecvAt' = RecvAt /\ QuitAt' = QuitAt /\ LastCall' = LastCall /\ Stream' = Stream
  BY <1>1, Fixed
<1>4. at' \in [Sides -> Nat] /\ cli' = cli /\ srv' = srv + 1 /\ srv \in Nat /\ cli \in Nat /\ Len(down) \in Nat /\ up \in Nat
  BY <1>1, Stepped
<1>5. \/ up > 0 /\ up' = up - 1
      \/ up' = up /\ ("client" \in dead \/ cli > RecvAt + 1)
  BY GoneIs DEF RecvRequest, SessionInv, SessionValues
<1>6. SessionValues'
  BY <1>1, <1>2, <1>3, <1>4, <1>5 DEF SessionInv, SessionValues, LastCall
<1>7. Linked'
  BY <1>1, <1>3, <1>4 DEF SessionInv, Linked
<1>8. Unsaid' = Unsaid /\ Unsaid \in 0..3
  BY <1>1, <1>2, <1>4 DEF Unsaid
<1>9. Budget'
  BY <1>1, <1>3, <1>4, <1>5, <1>8 DEF SessionInv, Budget
<1>10. Sealed'
  BY <1>1, <1>3, <1>4 DEF SessionInv, Sealed, QuitAt
<1>11. Calm'
  BY <1>1, <1>2, <1>3, <1>4, <1>5 DEF SessionInv, Calm, RecvAt, Stream
<1>12. Unlinked'
  BY <1>1, <1>2, <1>4 DEF SessionInv, Unlinked
<1> QED BY <1>6, <1>7, <1>9, <1>10, <1>11, <1>12 DEF SessionInv

\* What the server says is what it had not said yet; before "quit" it says no
\* part of it.
LEMMA ReplyKeeps ==
    ASSUME SessionInv, NEW text \in Seq(Words), Reply(text), "server" \notin dead,
           \/ proto # "unix" /\ srv = QuitAt - 1 /\ Len(text) \in 0..1 /\ \A n \in 1..Len(text) : text[n] = "text"
           \/ /\ srv = QuitAt /\ Len(text) = (IF proto = "tcp" THEN 2 ELSE 1)
              /\ proto = "unix" => text = <<"quit">>
    PROVE  SessionInv'
<1>1. UNCHANGED <<proto, path, link, up, trouble>>
  BY DEF Reply
<1>2. RecvAt' = RecvAt /\ QuitAt' = QuitAt /\ LastCall' = LastCall /\ Stream' = Stream
  BY <1>1, Fixed
<1>3. proto \in Protos /\ srv \in Nat /\ cli \in Nat /\ down \in Seq(Words) /\ Len(down) \in Nat
  BY Stepped DEF SessionInv, SessionValues
<1>4. CASE Step("server", 1) /\ UNCHANGED dead /\ down' = (IF Gone("client") THEN down ELSE down \o text)
  <2>1. at' \in [Sides -> Nat] /\ cli' = cli /\ srv' = srv + 1
    BY <1>4, Stepped
  <2>2. /\ down \o text \in Seq(Words) /\ Len(down \o text) = Len(down) + Len(text) /\ Len(text) \in Nat
        /\ \A n \in 1..Len(down) : (down \o text)[n] = down[n]
        /\ \A n \in 1..Len(text) : (down \o text)[Len(down) + n] = text[n]
    BY <1>3, Joined
  <2>3. down' \in Seq(Words) /\ Len(down') \in Nat /\ Len(down') <= Len(down) + Len(text)
    BY <1>3, <1>4, <2>2
  <2>4. Unsaid' + Len(text) <= Unsaid /\ Unsaid' \in Nat /\ Unsaid \in Nat
    <3>1. proto' = proto /\ Len(text) \in Nat /\ Unsaid' \in Nat /\ Unsaid \in Nat
      BY <1>1, <2>2 DEF Unsaid
    <3>2. CASE srv = QuitAt
      <4>1. Len(text) = (IF proto = "tcp" THEN 2 ELSE 1)
        BY <3>2 DEF QuitAt
      <4>2. Unsaid' = 0 /\ Unsaid = (IF proto = "tcp" THEN 2 ELSE 1)
        BY <1>3, <2>1, <3>1, <3>2 DEF Unsaid, QuitAt, Protos
      <4> QED BY <3>1, <4>1, <4>2
    <3>3. CASE srv # QuitAt
      <4>1. Len(text) <= 1 /\ srv = QuitAt - 1 /\ proto # "unix"
        BY <3>1, <3>3
      <4>2. Unsaid' + 1 = Unsaid
        BY <1>3, <2>1, <3>1, <4>1 DEF Unsaid, QuitAt, Protos
      <4>3. \A n, u, v \in Nat : n <= 1 /\ v + 1 = u => v + n <= u
        OBVIOUS
      <4> QED BY <3>1, <4>1, <4>2, <4>3
    <3> QED BY <3>1, <3>2, <3>3
  <2>5. SessionValues'
    BY <1>1, <1>2, <1>3, <1>4, <2>1, <2>3 DEF SessionInv, SessionValues, QuitAt, LastCall, Protos
  <2>6. Linked'
    BY <1>1, <1>2, <2>1 DEF SessionInv, Linked
  <2>7. Budget'
    <3>1. up \in Nat
      BY Stepped
    <3> QED BY <1>1, <1>2, <1>3, <2>1, <2>2, <2>3, <2>4, <3>1 DEF SessionInv, Budget
  <2>8. Sealed'
    <3>1. cli' > RecvAt' => srv' > QuitAt'
      BY <1>2, <1>3, <2>1 DEF SessionInv, Sealed, QuitAt
    <3>2. CASE srv = QuitAt
      BY <1>2, <1>3, <2>1, <3>1, <3>2 DEF Sealed, QuitAt
    <3>3. CASE srv # QuitAt
      <4>1. \A n \in 1..Len(text) : text[n] = "text"
        BY <3>3
      <4>2. ASSUME NEW n \in 1..Len(down'), down'[n] # "text" PROVE srv' > QuitAt'
        <5>1. CASE n \in 1..Len(down)
          <6>1. down'[n] = down[n]
            BY <1>4, <2>2, <5>1
          <6> QED BY <1>2, <1>3, <2>1, <4>2, <5>1, <6>1 DEF SessionInv, Sealed, QuitAt
        <5>2. CASE n \notin 1..Len(down)
          <6>1. ~Gone("client") /\ down' = down \o text
            BY <1>4, <5>2
          <6>2. n - Len(down) \in 1..Len(text) /\ n = Len(down) + (n - Len(down))
            BY <1>3, <2>2, <5>2, <6>1
          <6>3. down'[n] = text[n - Len(down)]
            BY <2>2, <6>1, <6>2
          <6> QED BY <4>1, <4>2, <6>2, <6>3
        <5> QED BY <5>1, <5>2
      <4> QED BY <3>1, <4>2 DEF Sealed
    <3> QED BY <3>2, <3>3
  <2>9. Calm'
    <3>1. CASE proto = "unix" /\ ~trouble
      <4>1. srv = 6 /\ text = <<"quit">> /\ down = <<>> /\ cli >= 3 /\ dead = {} /\ link # "broken" /\ link \in {"none", "open"}
        BY <1>3, <3>1 DEF QuitAt, SessionInv, Calm
      <4>2. cli = 3 => ~Gone("client")
        BY <1>3, <3>1, <4>1, GoneIs DEF RecvAt, Stream
      <4>3. <<>> \o <<"quit">> = <<"quit">>
        OBVIOUS
      <4>4. cli = 3 => down' = <<"quit">>
        BY <1>4, <4>1, <4>2, <4>3
      <4> QED BY <1>1, <1>3, <1>4, <2>1, <3>1, <4>1, <4>4 DEF Calm
    <3>2. CASE proto # "unix" \/ trouble
      BY <1>1, <1>4, <2>1, <3>2 DEF SessionInv, Calm
    <3> QED BY <3>1, <3>2
  <2>10. Unlinked'
    BY <1>1, <1>3, <2>1 DEF Unlinked, QuitAt
  <2> QED BY <2>5, <2>6, <2>7, <2>8, <2>9, <2>10 DEF SessionInv
<1>5. CASE Gone("client") /\ proto # "udp" /\ dead' = dead \cup {"server"} /\ UNCHANGED <<at, down>>
  <2>1. at' \in [Sides -> Nat] /\ cli' = cli /\ srv' = srv
    BY <1>5, Stepped
  <2>2. trouble
    <3>1. cli > RecvAt => srv > QuitAt
      BY DEF SessionInv, Sealed
    <3>2. "client" \in dead
      BY <1>3, <1>5, <3>1, GoneIs DEF RecvAt, QuitAt
    <3> QED BY <3>2 DEF SessionInv, Calm
  <2>3. SessionValues'
    BY <1>1, <1>2, <1>5, <2>1 DEF SessionInv, SessionValues, Sides
  <2>4. Linked'
    BY <1>1, <1>2, <2>1 DEF SessionInv, Linked
  <2>5. Budget'
    BY <1>1, <1>2, <1>5, <2>1 DEF SessionInv, Budget, Unsaid
  <2>6. Sealed'
    BY <1>2, <1>5, <2>1 DEF SessionInv, Sealed
  <2>7. Calm'
    BY <1>1, <2>2 DEF Calm
  <2>8. Unlinked'
    BY <1>1, <2>1 DEF SessionInv, Unlinked
  <2> QED BY <2>3, <2>4, <2>5, <2>6, <2>7, <2>8 DEF SessionInv
<1> QED BY <1>4, <1>5 DEF Reply

\* The server says something before "quit", or nothing.
LEMMA SendTextKeeps ==
    ASSUME SessionInv, SendText
    PROVE  SessionInv'
<1>1. Calls("server", "text")
  BY DEF SendText
<1>2. "server" \notin dead /\ proto # "unix" /\ srv = QuitAt - 1
  BY <1>1, ServerCalls DEF QuitAt
<1>3. PICK text \in {<<>>, <<"text">>} : Reply(text)
  BY DEF SendText
<1>4. text \in Seq(Words) /\ Len(text) \in 0..1 /\ \A n \in 1..Len(text) : text[n] = "text"
  <2>1. CASE text = <<>>
    BY <2>1 DEF Words
  <2>2. CASE text = <<"text">>
    BY <2>2 DEF Words
  <2> QED BY <2>1, <2>2
<1> QED BY <1>2, <1>3, <1>4, ReplyKeeps

\* The server says "quit".
LEMMA SendQuitKeeps ==
    ASSUME SessionInv, SendQuit
    PROVE  SessionInv'
<1>1. Calls("server", "quit")
  BY DEF SendQuit
<1>2. "server" \notin dead /\ srv = QuitAt
  BY <1>1, ServerCalls
<1> DEFINE text == IF proto = "tcp" THEN <<"qu", "it">> ELSE <<"quit">>
<1>3. Reply(text)
  BY DEF SendQuit
<1>4. text \in Seq(Words) /\ Len(text) = (IF proto = "tcp" THEN 2 ELSE 1) /\ (proto = "unix" => text = <<"quit">>)
  <2>1. CASE proto = "tcp"
    BY <2>1 DEF Words
  <2>2. CASE proto # "tcp"
    BY <2>2 DEF Words
  <2> QED BY <2>1, <2>2
<1> HIDE DEF text
<1> QED BY <1>2, <1>3, <1>4, ReplyKeeps

\* Whatever ends the server's end of the connection takes nothing into it.
LEMMA HangsIs ==
    ASSUME SessionInv, NEW unread, Hangs(unread)
    PROVE  /\ \/ link' = link
              \/ Stream /\ link = "open" /\ link' \in {"ended", "reset", "broken"} /\ (proto = "unix" => link' = "broken")
           /\ down' \in Seq(Words) /\ (down' = down \/ Len(down') = 0)
           /\ proto # "tcp" => down' = down
<1>1. down \in Seq(Words) /\ proto \in Protos
  BY DEF SessionInv, SessionValues
<1>2. CASE UNCHANGED <<link, down>>
  BY <1>1, <1>2
<1>3. CASE proto # "udp" /\ link = "open" /\ proto = "unix"
  BY <1>1, <1>3 DEF Hangs, Stream
<1>4. CASE proto # "udp" /\ link = "open" /\ proto # "unix"
  <2>1. link' \in {"ended", "reset"} /\ (down' = down \/ down' = <<>>)
    BY <1>4 DEF Hangs
  <2>2. <<>> \in Seq(Words) /\ Len(<<>>) = 0
    OBVIOUS
  <2>3. proto = "tcp"
    BY <1>1, <1>4 DEF Protos
  <2> QED BY <1>1, <1>4, <2>1, <2>2, <2>3 DEF Stream
<1> QED BY <1>2, <1>3, <1>4 DEF Hangs

\* The UNIX domain server drops its connection behind "quit".
LEMMA HangupKeeps ==
    ASSUME SessionInv, Hangup
    PROVE  SessionInv'
<1>1. Calls("server", "hangup") /\ Step("server", 1) /\ Hangs(up > 0) /\ UNCHANGED <<proto, path, up, dead, trouble>>
  BY DEF Hangup
<1>2. "server" \notin dead /\ proto = "unix" /\ srv = 7
  BY <1>1, ServerCalls
<1>3. RecvAt' = RecvAt /\ QuitAt' = QuitAt /\ LastCall' = LastCall /\ Stream' = Stream
  BY <1>1, Fixed
<1>4. at' \in [Sides -> Nat] /\ cli' = cli /\ srv' = srv + 1
  BY <1>1, Stepped
<1>5. down' = down /\ (link' = link \/ (link = "open" /\ link' = "broken"))
  BY <1>1, <1>2, HangsIs
<1>6. SessionValues'
  BY <1>1, <1>2, <1>3, <1>4, <1>5 DEF SessionInv, SessionValues, LastCall
<1>7. Linked'
  BY <1>1, <1>3, <1>4, <1>5 DEF SessionInv, Linked
<1>8. Unsaid' = Unsaid
  BY <1>1, <1>2, <1>4 DEF Unsaid
<1>9. Budget'
  BY <1>1, <1>3, <1>4, <1>5, <1>8 DEF SessionInv, Budget
<1>10. Sealed'
  BY <1>2, <1>3, <1>4, <1>5 DEF SessionInv, Sealed, QuitAt
<1>11. Calm'
  BY <1>1, <1>2, <1>4, <1>5 DEF SessionInv, Calm
<1>12. Unlinked'
  BY <1>1, <1>2, <1>4 DEF SessionInv, Unlinked
<1> QED BY <1>6, <1>7, <1>9, <1>10, <1>11, <1>12 DEF SessionInv

\* A kill takes a side and what it held, and moves nobody.
LEMMA KillKeeps ==
    ASSUME SessionInv, NEW s \in Sides, KillSide(s)
    PROVE  SessionInv'
<1>1. UNCHANGED <<proto, path, up, at>> /\ dead' = dead \cup {s} /\ trouble' = TRUE
  BY DEF KillSide
<1>2. RecvAt' = RecvAt /\ QuitAt' = QuitAt /\ LastCall' = LastCall /\ Stream' = Stream
  BY <1>1, Fixed
<1>3. at' \in [Sides -> Nat] /\ cli' = cli /\ srv' = srv /\ Len(down) \in Nat
  BY <1>1, Stepped
<1>4. /\ \/ link' = link
         \/ Stream /\ link = "open" /\ link' \in {"ended", "reset", "broken"}
      /\ down' \in Seq(Words) /\ (down' = down \/ Len(down') = 0)
  <2>1. CASE s = "server"
    <3>1. Hangs(up > 0 \/ ~Passed("server", "accept"))
      BY <2>1 DEF KillSide
    <3> QED BY <3>1, HangsIs
  <2>2. CASE s # "server"
    BY <2>2 DEF KillSide, SessionInv, SessionValues
  <2> QED BY <2>1, <2>2
<1>5. SessionValues'
  <2>1. dead' \subseteq Sides
    BY <1>1 DEF SessionInv, SessionValues
  <2> QED BY <1>1, <1>2, <1>3, <1>4, <2>1 DEF SessionInv, SessionValues
<1>6. Linked'
  BY <1>1, <1>2, <1>3, <1>4 DEF SessionInv, Linked
<1>7. Unsaid' = Unsaid
  BY <1>1, <1>3 DEF Unsaid
<1>8. Budget'
  <2>1. CASE link' = link /\ down' = down
    BY <1>1, <1>2, <1>3, <1>7, <2>1 DEF SessionInv, Budget
  <2>2. CASE link' = link /\ Len(down') = 0
    <3>1. up \in Nat /\ Unsaid \in Nat
      BY Stepped DEF Unsaid
    <3> QED BY <1>1, <1>2, <1>3, <1>7, <2>2, <3>1 DEF SessionInv, Budget
  <2>3. CASE link' # link
    BY <1>4, <2>3 DEF Budget
  <2> QED BY <1>4, <2>1, <2>2, <2>3
<1>9. Sealed'
  <2>1. cli' > RecvAt' => srv' > QuitAt'
    BY <1>2, <1>3 DEF SessionInv, Sealed
  <2>2. CASE down' = down
    BY <1>2, <1>3, <2>2 DEF SessionInv, Sealed
  <2>3. CASE Len(down') = 0
    <3>1. 1..Len(down') = {}
      BY <2>3
    <3> QED BY <2>1, <3>1 DEF Sealed
  <2> QED BY <1>4, <2>2, <2>3
<1>10. Calm'
  BY <1>1 DEF Calm
<1>11. Unlinked'
  BY <1>1, <1>3 DEF SessionInv, Unlinked
<1> QED BY <1>5, <1>6, <1>8, <1>9, <1>10, <1>11 DEF SessionInv

\* A lost datagram leaves room, and what is left was there before.
LEMMA LoseKeeps ==
    ASSUME SessionInv, Lose
    PROVE  SessionInv'
<1>1. UNCHANGED <<proto, path, link, at, dead>> /\ trouble' = TRUE
  BY DEF Lose
<1>2. RecvAt' = RecvAt /\ QuitAt' = QuitAt /\ LastCall' = LastCall /\ Stream' = Stream
  BY <1>1, Fixed
<1>3. at' \in [Sides -> Nat] /\ cli' = cli /\ srv' = srv /\ Len(down) \in Nat /\ up \in Nat
  BY <1>1, Stepped
<1>4. /\ up' \in Nat /\ up' <= up /\ down' \in Seq(Words) /\ Len(down') \in Nat /\ Len(down') <= Len(down)
      /\ \A n \in 1..Len(down') : \E j \in 1..Len(down) : down'[n] = down[j]
  <2>1. CASE up > 0 /\ up' = up - 1 /\ UNCHANGED down
    BY <1>3, <2>1 DEF SessionInv, SessionValues
  <2>2. CASE down # <<>> /\ UNCHANGED up /\ \E r \in Reads : down' = r[2]
    <3>1. PICK r \in Reads : down' = r[2]
      BY <2>2
    <3>2. /\ down' \in Seq(Words) /\ Len(down') < Len(down)
          /\ \A n \in 1..Len(down') : \E j \in 1..Len(down) : down'[n] = down[j]
      BY <2>2, <3>1, ReadIs
    <3>3. Len(down') \in Nat
      BY <3>2
    <3> QED BY <1>3, <2>2, <3>2, <3>3
  <2> QED BY <2>1, <2>2 DEF Lose
<1>5. SessionValues'
  <2>1. up' \in 0..4
    BY <1>4 DEF SessionInv, SessionValues
  <2> QED BY <1>1, <1>2, <1>3, <1>4, <2>1 DEF SessionInv, SessionValues
<1>6. Linked'
  BY <1>1, <1>2, <1>3 DEF SessionInv, Linked
<1>7. Unsaid' = Unsaid /\ Unsaid \in Nat
  BY <1>1, <1>3 DEF Unsaid
<1>8. Budget'
  BY <1>1, <1>2, <1>3, <1>4, <1>7 DEF SessionInv, Budget
<1>9. Sealed'
  BY <1>2, <1>3, <1>4 DEF SessionInv, Sealed
<1>10. Calm'
  BY <1>1 DEF Calm
<1>11. Unlinked'
  BY <1>1, <1>3 DEF SessionInv, Unlinked
<1> QED BY <1>5, <1>6, <1>8, <1>9, <1>10, <1>11 DEF SessionInv

\* Who reads "quit" has read what was sent as such.
LEMMA QuitWasSaid ==
    ASSUME SessionInv, down # <<>>, NEW r \in Reads, HasQuit(r[1])
    PROVE  srv > QuitAt
<1>1. PICK n \in 1..Len(r[1]) : r[1][n] = "quit" \/ r[1][n] = "qu"
  BY DEF HasQuit
<1>2. PICK j \in 1..Len(down) : r[1][n] = down[j]
  BY <1>1, ReadIs
<1> QED BY <1>1, <1>2 DEF SessionInv, Sealed

\* The client closes when it has read "quit", and else asks again: in a session
\* that nobody disturbs, the UNIX domain client reads it at once.
LEMMA RecvReplyKeeps ==
    ASSUME SessionInv, RecvReply
    PROVE  SessionInv'
<1>1. Calls("client", "recv") /\ UNCHANGED <<proto, path, up, dead>>
  BY DEF RecvReply
<1>2. "client" \notin dead /\ cli = RecvAt
  BY <1>1, ClientCalls
<1>3. RecvAt' = RecvAt /\ QuitAt' = QuitAt /\ LastCall' = LastCall /\ Stream' = Stream
  BY <1>1, Fixed
<1>4. /\ cli \in Nat /\ srv \in Nat /\ Len(down) \in Nat /\ up \in Nat /\ proto \in Protos /\ cli > 1
      /\ down \in Seq(Words)
  BY <1>2, Stepped DEF RecvAt, SessionInv, SessionValues
<1>5. CASE down # <<>> /\ UNCHANGED link /\ \E r \in Reads :
                /\ down' = r[2]
                /\ Step("client", IF HasQuit(r[1]) THEN 1 ELSE -1)
                /\ trouble' = (trouble \/ r[1][Len(r[1])] = "qu")
  <2>1. PICK r \in Reads : /\ down' = r[2]
                           /\ Step("client", IF HasQuit(r[1]) THEN 1 ELSE -1)
                           /\ trouble' = (trouble \/ r[1][Len(r[1])] = "qu")
    BY <1>5
  <2>2. /\ down' \in Seq(Words) /\ Len(down') < Len(down)
        /\ \A n \in 1..Len(down') : \E j \in 1..Len(down) : down'[n] = down[j]
        /\ proto = "unix" => r[1] = down
    BY <1>5, <2>1, ReadIs
  <2>3. Len(down') \in Nat /\ trouble' \in BOOLEAN /\ (~trouble' => ~trouble)
    BY <2>1, <2>2 DEF SessionInv, SessionValues
  <2>4. /\ at' \in [Sides -> Nat] /\ srv' = srv /\ cli' \in {cli + 1, cli - 1}
        /\ cli' = cli + 1 <=> HasQuit(r[1])
    <3>1. CASE HasQuit(r[1])
      BY <1>4, <2>1, <3>1, Stepped
    <3>2. CASE ~HasQuit(r[1])
      <4>1. Step("client", -1)
        BY <2>1, <3>2
      <4> QED BY <1>4, <3>2, <4>1, Stepped
    <3> QED BY <3>1, <3>2
  <2>5. HasQuit(r[1]) => srv > QuitAt
    BY <1>5, <2>1, QuitWasSaid
  <2>6. SessionValues'
    BY <1>1, <1>2, <1>3, <1>4, <1>5, <2>2, <2>3, <2>4 DEF SessionInv, SessionValues, RecvAt
  <2>7. Linked'
    BY <1>2, <1>3, <1>5, <2>4 DEF SessionInv, Linked, RecvAt
  <2>8. Unsaid' = Unsaid /\ Unsaid \in Nat
    BY <1>1, <2>4 DEF Unsaid
  <2>9. Budget'
    <3> SUFFICES ASSUME link \in {"none", "open"}
                 PROVE  up + (IF cli' < RecvAt THEN 1 ELSE 0) + Len(down') + Unsaid <= 4
      BY <1>1, <1>3, <1>5, <2>8 DEF Budget
    <3>1. up + Len(down) + Unsaid <= 4
      BY <1>2, <1>4, <2>8 DEF SessionInv, Budget
    <3>2. Len(down') + 1 <= Len(down)
      BY <1>4, <2>2, <2>3
    <3> HIDE DEF Unsaid
    <3> QED BY <1>4, <2>3, <2>8, <3>1, <3>2
  <2>10. Sealed'
    <3>1. cli' > RecvAt' => srv' > QuitAt'
      BY <1>2, <1>3, <1>4, <2>4, <2>5
    <3>2. ASSUME NEW n \in 1..Len(down'), down'[n] # "text" PROVE srv' > QuitAt'
      <4>1. PICK j \in 1..Len(down) : down'[n] = down[j]
        BY <2>2
      <4> QED BY <1>3, <2>4, <3>2, <4>1 DEF SessionInv, Sealed
    <3> QED BY <3>1, <3>2 DEF Sealed
  <2>11. Calm'
    <3>1. CASE proto = "unix" /\ ~trouble
      <4>1. cli = 3 /\ srv > 6
        BY <1>2, <1>4, <1>5, <3>1 DEF SessionInv, Calm, RecvAt, Stream
      <4>2. down = <<"quit">>
        BY <3>1, <4>1 DEF SessionInv, Calm
      <4>3. HasQuit(r[1])
        <5>1. r[1] = <<"quit">>
          BY <2>2, <3>1, <4>2
        <5>2. Len(r[1]) = 1 /\ r[1][1] = "quit"
          BY <5>1
        <5> QED BY <5>2 DEF HasQuit
      <4>4. cli' = 4
        BY <2>4, <4>1, <4>3
      <4> QED BY <1>1, <1>5, <2>4, <3>1, <4>1, <4>4 DEF SessionInv, Calm
    <3>2. CASE proto # "unix" \/ trouble
      BY <1>1, <1>5, <2>3, <3>2 DEF SessionInv, Calm
    <3> QED BY <3>1, <3>2
  <2>12. Unlinked'
    BY <1>1, <2>4 DEF SessionInv, Unlinked
  <2> QED BY <2>6, <2>7, <2>9, <2>10, <2>11, <2>12 DEF SessionInv
<1>6. CASE /\ down = <<>> /\ link \in {"ended", "reset", "broken"}
           /\ link' = IF link = "reset" THEN "broken" ELSE link
           /\ Step("client", -1) /\ UNCHANGED <<down, trouble>>
  <2>1. at' \in [Sides -> Nat] /\ srv' = srv /\ cli' = cli - 1
    BY <1>4, <1>6, Stepped
  <2>2. Stream
    BY <1>6 DEF SessionInv, Linked
  <2>3. trouble
    <3>1. CASE proto = "unix" /\ ~trouble
      <4>1. cli = 3 /\ srv > 6
        BY <1>2, <1>4, <1>6, <3>1 DEF SessionInv, Calm, RecvAt, Stream
      <4>2. down = <<"quit">>
        BY <3>1, <4>1 DEF SessionInv, Calm
      <4> QED BY <1>6, <4>2
    <3>2. CASE proto = "tcp" /\ ~trouble
      BY <1>6, <3>2 DEF SessionInv, Calm
    <3> QED BY <1>4, <2>2, <3>1, <3>2 DEF Stream, Protos
  <2>4. SessionValues'
    BY <1>1, <1>2, <1>3, <1>4, <1>6, <2>1 DEF SessionInv, SessionValues, RecvAt
  <2>5. Linked'
    BY <1>2, <1>3, <1>6, <2>1, <2>2 DEF Linked, RecvAt
  <2>6. Budget'
    BY <1>6 DEF Budget
  <2>7. Sealed'
    BY <1>2, <1>3, <1>4, <1>6, <2>1 DEF SessionInv, Sealed
  <2>8. Calm'
    BY <1>6, <2>3 DEF Calm
  <2>9. Unlinked'
    BY <1>1, <2>1 DEF SessionInv, Unlinked
  <2> QED BY <2>4, <2>5, <2>6, <2>7, <2>8, <2>9 DEF SessionInv
<1> QED BY <1>5, <1>6 DEF RecvReply

\* A step in which nothing moves.
LEMMA RestKeeps ==
    ASSUME SessionInv, UNCHANGED sessionVars
    PROVE  SessionInv'
  BY DEF sessionVars, SessionInv, SessionValues, Linked, Budget, Unsaid, Sealed, Calm, Unlinked, RecvAt, QuitAt,
         LastCall, Stream, cli, srv

-----------------------------------------------------------------------------
\* The runs start in it.
LEMMA SessionStarts == SessionInit => SessionInv
<1> SUFFICES ASSUME SessionInit PROVE SessionInv
  OBVIOUS
<1>1. /\ proto \in Protos /\ path \in {"free", "stale"} /\ link = "none" /\ up = 0 /\ down = <<>>
      /\ at = [s \in Sides |-> 1] /\ dead = {} /\ trouble = FALSE
  BY DEF SessionInit
<1>2. cli = 1 /\ srv = 1 /\ at \in [Sides -> Nat]
  BY <1>1 DEF cli, srv, Sides
<1>3. down \in Seq(Words) /\ Len(down) = 0 /\ 1..Len(down) = {}
  BY <1>1
<1>4. SessionValues
  <2>1. cli \in 1..(RecvAt + 2) /\ srv \in 1..(LastCall + 1)
    BY <1>2 DEF RecvAt, LastCall
  <2>2. path \in {"free", "stale", "bound"} /\ link \in {"none", "open", "ended", "reset", "broken"} /\ up \in 0..4
    BY <1>1
  <2>3. dead \subseteq Sides /\ trouble \in BOOLEAN
    BY <1>1
  <2>4. proto \in Protos /\ down \in Seq(Words) /\ at \in [Sides -> Nat]
    BY <1>1, <1>2, <1>3
  <2> HIDE <1>1
  <2> QED BY <2>1, <2>2, <2>3, <2>4 DEF SessionValues
<1>5. Linked
  BY <1>1 DEF Linked
<1>6. Budget
  BY <1>1, <1>2, <1>3 DEF Budget, Unsaid, RecvAt
<1>7. Sealed
  BY <1>2, <1>3 DEF Sealed, RecvAt
<1>8. Calm
  BY <1>1, <1>2 DEF Calm
<1>9. Unlinked
  BY <1>2 DEF Unlinked
<1> QED BY <1>4, <1>5, <1>6, <1>7, <1>8, <1>9 DEF SessionInv

\* Every step keeps it.
LEMMA SessionStep == SessionInv /\ [SessionNext]_sessionVars => SessionInv'
<1> SUFFICES ASSUME SessionInv, [SessionNext]_sessionVars PROVE SessionInv'
  OBVIOUS
<1>1. CASE Client
  BY <1>1, ConnectKeeps, SendKeeps, RecvReplyKeeps DEF Client
<1>2. CASE Server
  BY <1>2, PathKeeps, RecvRequestKeeps, SendTextKeeps, SendQuitKeeps, HangupKeeps DEF Server
<1>3. CASE \E s \in Sides : KillSide(s)
  BY <1>3, KillKeeps
<1>4. CASE Lose
  BY <1>4, LoseKeeps
<1>5. CASE Rest \/ UNCHANGED sessionVars
  BY <1>5, RestKeeps DEF Rest
<1> QED BY <1>1, <1>2, <1>3, <1>4, <1>5 DEF SessionNext

\* Where both sides are, what is on its way and how the link is fit together in
\* every state of the three programs.
THEOREM SessionInvariance == SessionSpec => []SessionInv
  BY SessionStarts, SessionStep, PTL DEF SessionSpec

\* l.181-182 of the TCP server and the "quit" that the UNIX domain server sends
\* before it hangs up: unless a side was killed or "quit" was cut, nobody dies of
\* SIGPIPE and no connection is reset.  A UNIX domain server that ends by itself
\* leaves no path, and no more than four requests are ever unread.
THEOREM SessionsAreClean == SessionSpec => []Safety
<1>1. SessionInv => Safety
  <2> SUFFICES ASSUME SessionInv PROVE Safety
    OBVIOUS
  <2>0. proto \in Protos
    BY DEF SessionInv, SessionValues
  <2>1. SessionTypeOK
    <3>1. \A s \in Sides : at[s] \in 1..(Len(Text(s)) + 1)
      <4>1. at["client"] \in 1..(Len(Text("client")) + 1) /\ at["server"] \in 1..(Len(Text("server")) + 1)
        <5>1. RecvAt + 2 = (RecvAt + 1) + 1
          BY DEF RecvAt
        <5> QED BY <2>0, <5>1, TextLengths DEF SessionInv, SessionValues, cli, srv
      <4> QED BY <4>1 DEF Sides
    <3>2. \A n \in 1..Len(down) : down[n] \in {"text", "qu", "it", "quit"}
      BY DEF SessionInv, SessionValues, Words
    <3> QED BY <3>1, <3>2 DEF SessionInv, SessionValues, SessionTypeOK
  <2>2. NoBrokenPipe
    <3>1. ~trouble => dead = {}
      BY DEF SessionInv, Calm
    <3>2. ~trouble => link # "reset"
      BY <2>0 DEF SessionInv, Calm, Linked, Protos, Stream
    <3> QED BY <3>1, <3>2 DEF NoBrokenPipe
  <2>3. PathRemoved
    BY <2>0, GoneIs DEF SessionInv, Unlinked, PathRemoved, LastCall
  <2> QED BY <2>1, <2>2, <2>3 DEF Safety
<1> QED BY <1>1, SessionInvariance, PTL

\* What the client and the server have passed, in the places of their texts.
LEMMA PassedIs ==
    ASSUME SessionInv
    PROVE  /\ Passed("server", "quit") <=> srv > QuitAt
           /\ Passed("client", "recv") <=> cli > RecvAt
<1>1. /\ proto \in Protos /\ srv \in 1..(LastCall + 1) /\ cli \in 1..(RecvAt + 2)
      /\ srv = at["server"] /\ cli = at["client"]
  BY DEF SessionInv, SessionValues, srv, cli
<1>2. CASE proto = "tcp"
  <2>1. Text("server") = TcpMain /\ Text("client") = <<"connect", "send", "recv", "close">>
    BY <1>2 DEF Text, TcpClient
  <2>2. srv \in 1..8 /\ cli \in 1..5 /\ QuitAt = 5 /\ RecvAt = 3
    BY <1>1, <1>2 DEF LastCall, RecvAt, Stream, QuitAt
  <2>3. \A n \in 1..7 : TcpMain[n] = "quit" <=> n = 5
    <3>1. \A n \in 1..7 : n = 1 \/ n = 2 \/ n = 3 \/ n = 4 \/ n = 5 \/ n = 6 \/ n = 7
      OBVIOUS
    <3> QED BY <3>1, TcpText
  <2>4. \A n \in 1..4 : Text("client")[n] = "recv" <=> n = 3
    <3>1. \A n \in 1..4 : n = 1 \/ n = 2 \/ n = 3 \/ n = 4
      OBVIOUS
    <3> QED BY <2>1, <3>1
  <2> QED BY <1>1, <2>1, <2>2, <2>3, <2>4 DEF Passed
<1>3. CASE proto = "unix"
  <2>1. Text("server") = UnixMain /\ Text("client") = <<"connect", "send", "recv", "close">>
    BY <1>3 DEF Text, UnixClient
  <2>2. srv \in 1..11 /\ cli \in 1..5 /\ QuitAt = 6 /\ RecvAt = 3
    BY <1>1, <1>3 DEF LastCall, RecvAt, Stream, QuitAt
  <2>3. \A n \in 1..10 : UnixMain[n] = "quit" <=> n = 6
    <3>1. \A n \in 1..10 : n = 1 \/ n = 2 \/ n = 3 \/ n = 4 \/ n = 5 \/ n = 6 \/ n = 7 \/ n = 8 \/ n = 9 \/ n = 10
      OBVIOUS
    <3> QED BY <3>1, UnixText
  <2>4. \A n \in 1..4 : Text("client")[n] = "recv" <=> n = 3
    <3>1. \A n \in 1..4 : n = 1 \/ n = 2 \/ n = 3 \/ n = 4
      OBVIOUS
    <3> QED BY <2>1, <3>1
  <2> QED BY <1>1, <2>1, <2>2, <2>3, <2>4 DEF Passed
<1>4. CASE proto = "udp"
  <2>1. Text("server") = UdpMain /\ Text("client") = <<"send", "recv", "close">>
    BY <1>4 DEF Text, UdpClient
  <2>2. srv \in 1..7 /\ cli \in 1..4 /\ QuitAt = 4 /\ RecvAt = 2
    BY <1>1, <1>4 DEF LastCall, RecvAt, Stream, QuitAt
  <2>3. \A n \in 1..6 : UdpMain[n] = "quit" <=> n = 4
    <3>1. \A n \in 1..6 : n = 1 \/ n = 2 \/ n = 3 \/ n = 4 \/ n = 5 \/ n = 6
      OBVIOUS
    <3> QED BY <3>1, UdpText
  <2>4. \A n \in 1..3 : Text("client")[n] = "recv" <=> n = 2
    <3>1. \A n \in 1..3 : n = 1 \/ n = 2 \/ n = 3
      OBVIOUS
    <3> QED BY <2>1, <3>1
  <2> QED BY <1>1, <2>1, <2>2, <2>3, <2>4 DEF Passed
<1> QED BY <1>1, <1>2, <1>3, <1>4 DEF Protos

\* One side moves at a time; the server only onwards, and the client only back
\* from its recv.
LEMMA OneMoves ==
    ASSUME SessionInv, [SessionNext]_sessionVars
    PROVE  /\ proto' = proto
           /\ \/ srv' = srv /\ (cli > RecvAt => cli' > RecvAt)
              \/ cli' = cli /\ srv' = srv + 1
<1>1. cli \in Nat /\ srv \in Nat /\ RecvAt \in Nat /\ RecvAt > 1
  BY Stepped DEF RecvAt
<1>2. CASE proto' = proto /\ (Step("client", 1) \/ Step("server", 1) \/ UNCHANGED at)
  BY <1>1, <1>2, Stepped
<1>3. CASE RecvReply
  <2>1. Calls("client", "recv") /\ proto' = proto
    BY <1>3 DEF RecvReply
  <2>2. cli = RecvAt
    BY <2>1, ClientCalls
  <2>3. Step("client", 1) \/ Step("client", -1)
    BY <1>3 DEF RecvReply
  <2> QED BY <1>1, <2>1, <2>2, <2>3, Stepped
<1>4. CASE Connect \/ Send \/ CloseClient
  <2>1. proto' = proto /\ (Step("client", 1) \/ UNCHANGED at)
    BY <1>4 DEF Connect, Send, CloseClient
  <2> QED BY <1>2, <2>1
<1>5. CASE Server
  <2>1. CASE SendText \/ SendQuit
    <3>1. PICK text : Reply(text)
      BY <2>1 DEF SendText, SendQuit
    <3>2. proto' = proto /\ (Step("server", 1) \/ UNCHANGED at)
      BY <3>1 DEF Reply
    <3> QED BY <1>2, <3>2
  <2>2. CASE Unlink \/ Bind \/ Listen \/ Accept \/ RecvRequest \/ Hangup \/ Shut \/ Wait
    <3>1. proto' = proto /\ Step("server", 1)
      BY <2>2 DEF Unlink, Bind, Listen, Accept, RecvRequest, Hangup, Shut, Wait
    <3> QED BY <1>2, <3>1
  <2> QED BY <1>5, <2>1, <2>2 DEF Server
<1>6. CASE \E s \in Sides : KillSide(s)
  <2>1. proto' = proto /\ UNCHANGED at
    BY <1>6 DEF KillSide
  <2> QED BY <1>2, <2>1
<1>7. CASE Lose \/ Rest \/ UNCHANGED sessionVars
  <2>1. proto' = proto /\ UNCHANGED at
    BY <1>7 DEF Lose, Rest, sessionVars
  <2> QED BY <1>2, <2>1
<1> QED BY <1>3, <1>4, <1>5, <1>6, <1>7 DEF SessionNext, Client

\* The loop around the client's recv: no client goes on to its close before the
\* server has said "quit", however replies are cut, lost or reordered, and kills
\* included.
THEOREM QuitComesFirst == SessionSpec => QuitIsHeard
<1> DEFINE Said == IF Passed("server", "quit") THEN {"quit"} ELSE {}
           Heard == IF Passed("client", "recv") THEN {"quit"} ELSE {}
           Known == (Passed("server", "quit") <=> srv > QuitAt) /\ (Passed("client", "recv") <=> cli > RecvAt)
<1>1. SessionInit => Session!Init
  <2> SUFFICES ASSUME SessionInit PROVE Heard = {}
    BY DEF Session!Init
  <2>1. SessionInv /\ cli = 1
    BY SessionStarts DEF SessionInit, cli, Sides
  <2> QED BY <2>1, PassedIs DEF RecvAt
<1>2. SessionInv => Known
  BY PassedIs
<1>3. SessionInv' => Known'
  BY <1>2, PTL
<1>4. SessionInv /\ SessionInv' /\ [SessionNext]_sessionVars => [Session!Next]_<<Said, Heard>>
  <2> SUFFICES ASSUME SessionInv, SessionInv', [SessionNext]_sessionVars PROVE [Session!Next]_<<Said, Heard>>
    OBVIOUS
  <2>1. /\ Passed("server", "quit") <=> srv > QuitAt
        /\ Passed("client", "recv") <=> cli > RecvAt
        /\ Passed("server", "quit")' <=> srv' > QuitAt'
        /\ Passed("client", "recv")' <=> cli' > RecvAt'
    BY <1>2, <1>3
  <2>2. /\ proto' = proto /\ QuitAt' = QuitAt /\ RecvAt' = RecvAt
        /\ \/ srv' = srv /\ (cli > RecvAt => cli' > RecvAt)
           \/ cli' = cli /\ srv' = srv + 1
    BY OneMoves, Fixed
  <2>3. srv \in Nat /\ QuitAt \in Nat
    BY Stepped DEF QuitAt
  <2>4. CASE srv' = srv /\ (cli > RecvAt => cli' > RecvAt)
    <3>1. Said' = Said /\ Heard \subseteq Heard'
      BY <2>1, <2>2, <2>4
    <3>2. Heard' \subseteq Said
      <4>1. cli' > RecvAt' => srv' > QuitAt'
        BY DEF SessionInv, Sealed
      <4> QED BY <2>1, <2>2, <2>4, <4>1
    <3> QED BY <3>1, <3>2 DEF Session!Next, Session!Take
  <2>5. CASE cli' = cli /\ srv' = srv + 1
    <3>1. Heard' = Heard /\ Said \subseteq Said'
      BY <2>1, <2>2, <2>3, <2>5
    <3> QED BY <3>1 DEF Session!Next, Session!Give
  <2> QED BY <2>2, <2>4, <2>5
<1> QED BY <1>1, <1>4, SessionInvariance, PTL DEF SessionSpec, QuitIsHeard, Session!Spec
=============================================================================
