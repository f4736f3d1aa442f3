------------------------------- MODULE SemShm -------------------------------
(***************************************************************************)
(* 15-29_semget_shmget: a parent fills a buffer in shared memory and its   *)
(* child prints it, under a System V semaphore that is 0 when free.        *)
(* The child sleeps before it opens the semaphore and the memory that the  *)
(* parent is to create; the parent removes both after waitpid.             *)
(*                                                                         *)
(* The kernel is external code.  semop waits for 0 and adds 1 in one step, *)
(* and with SEM_UNDO takes back what a process has added when it ends.     *)
(* The set and the memory outlive the processes, and the next run of the   *)
(* program finds them.  A call on an id of -1 fails, which is printed; a   *)
(* semop on a valid id may fail, too (EINTR, ENOMEM, ENOSPC).              *)
(***************************************************************************)
EXTENDS Integers

CONSTANTS
    Rounds,     \* iterations of either loop, 5 in the code
    SemMax      \* largest value of a semaphore, SEMVMX

ASSUME RoundsAssumption == Rounds \in Nat \ {0}
ASSUME SemMaxAssumption == SemMax \in Nat /\ SemMax >= Rounds

Procs == {"parent", "child"}

VARIABLES
    set,        \* the semaphore set exists
    sem,        \* value of the semaphore
    undo,       \* undo[p]: what p has added and not taken back
    shm,        \* the shared memory exists
    buf,        \* its text: "none", "cleared", "copied" (digit missing), "whole"
    pc,         \* pc[p]: the next step of p
    semid,      \* semid[p]: semget succeeded
    mem,        \* shmat of the child succeeded
    locked,     \* locked[p]: p has locked, and no unlock of it has worked since
    i,          \* i[p]: iterations that are left
    calm,       \* so far no process was killed, no semget of the parent failed
                \* and the child slept until the parent had set up
    barged      \* on the set as it is, some semop of sem_lock has failed

vars == <<set, sem, undo, shm, buf, pc, semid, mem, locked, i, calm, barged>>
ipc == <<set, sem, undo, shm, buf>>

Ended == {"done", "killed"}

Goto(p, from, to) == pc[p] = from /\ pc' = [pc EXCEPT ![p] = to]

Init ==
    /\ set = FALSE /\ sem = 0 /\ shm = FALSE /\ buf = "none"
    /\ undo = [p \in Procs |-> 0]
    /\ pc = [p \in Procs |-> "semget"]
    /\ semid = [p \in Procs |-> FALSE]
    /\ mem = FALSE
    /\ locked = [p \in Procs |-> FALSE]
    /\ i = [p \in Procs |-> Rounds]
    /\ calm = TRUE /\ barged = FALSE

\* semget(key, 1, IPC_CREAT|0666): creates the set or opens an old one.
CreateSet ==
    /\ Goto("parent", "semget", "shmget")
    /\ \/ /\ set' = TRUE
          /\ sem' = IF set THEN sem ELSE 0
          /\ semid' = [semid EXCEPT !["parent"] = TRUE]
          /\ UNCHANGED calm
       \/ calm' = FALSE /\ UNCHANGED <<set, sem, semid>>
    /\ UNCHANGED <<undo, shm, buf, mem, locked, i, barged>>

\* shmget(key, 200, IPC_CREAT|0666) and shmat: new memory is zero.
CreateMemory ==
    /\ Goto("parent", "shmget", "lock")
    /\ shm' = TRUE
    /\ buf' = IF shm THEN buf ELSE "none"
    /\ UNCHANGED <<set, sem, undo, semid, mem, locked, i, calm, barged>>

\* sleep(2), then semget(key, 0, IPC_CREAT|0666): EINVAL if there is no set.
OpenSet ==
    /\ Goto("child", "semget", "shmget")
    /\ calm' = (calm /\ pc["parent"] \notin {"semget", "shmget"})
    /\ semid' = [semid EXCEPT !["child"] = set]
    /\ UNCHANGED <<ipc, mem, locked, i, barged>>

\* shmget(key, 0, IPC_CREAT|0666) and shmat, which both fail if there is none.
OpenMemory ==
    /\ Goto("child", "shmget", "lock")
    /\ mem' = shm
    /\ UNCHANGED <<ipc, semid, locked, i, calm, barged>>

Critical(p) == IF p = "parent" THEN "clear" ELSE "print"

\* Another turn of the loop, which enters the section whatever semop returns.
Turn(p) ==
    /\ i[p] > 0
    /\ Goto(p, "lock", Critical(p))
    /\ i' = [i EXCEPT ![p] = @ - 1]
    /\ UNCHANGED <<set, shm, buf, semid, mem, calm>>

\* Mutant of SemLock: no SEM_UNDO.
LockNoUndo(p) ==
    /\ Turn(p) /\ UNCHANGED <<undo, barged>>
    /\ locked' = [locked EXCEPT ![p] = semid[p]]
    /\ semid[p] => sem = 0
    /\ sem' = IF semid[p] THEN 1 ELSE sem

\* Mutant of SemLock: ops[0], the wait for 0, is missing.
LockNoWait(p) ==
    /\ Turn(p) /\ UNCHANGED barged
    /\ locked' = [locked EXCEPT ![p] = semid[p]]
    /\ semid[p] => sem < SemMax
    /\ sem' = IF semid[p] THEN sem + 1 ELSE sem
    /\ undo' = IF semid[p] THEN [undo EXCEPT ![p] = @ + 1] ELSE undo

\* Wait for 0 and add 1; on an id of -1 "semop" is printed.
SemLock(p) ==
    /\ Turn(p) /\ UNCHANGED barged
    /\ locked' = [locked EXCEPT ![p] = semid[p]]
    /\ semid[p] => sem = 0
    /\ sem' = IF semid[p] THEN 1 ELSE sem
    /\ undo' = IF semid[p] THEN [undo EXCEPT ![p] = @ + 1] ELSE undo

\* semop fails on a valid id, at once or after it has waited: "semop" is printed.
LockFails(p) ==
    /\ semid[p] /\ Turn(p)
    /\ locked' = [locked EXCEPT ![p] = FALSE]
    /\ barged' = TRUE
    /\ UNCHANGED <<sem, undo>>

\* buf[0] = 0, strcpy, then the digit over the last character.
Fill ==
    /\ \/ Goto("parent", "clear", "copy") /\ buf' = "cleared"
       \/ Goto("parent", "copy", "stamp") /\ buf' = "copied"
       \/ Goto("parent", "stamp", "unlock") /\ buf' = "whole"
    /\ UNCHANGED <<set, sem, undo, shm, semid, mem, locked, i, calm, barged>>

\* printf of the buffer.
Show ==
    /\ mem
    /\ Goto("child", "print", "unlock")
    /\ UNCHANGED <<ipc, semid, mem, locked, i, calm, barged>>

\* Mutant of SemUnlock: no SEM_UNDO, although the lock has it.
UnlockNoUndo(p) ==
    /\ Goto(p, "unlock", "lock")
    /\ semid[p] => sem > 0
    /\ sem' = IF semid[p] THEN sem - 1 ELSE sem
    /\ locked' = [locked EXCEPT ![p] = FALSE]
    /\ UNCHANGED <<set, undo, shm, buf, semid, mem, i, calm, barged>>

\* Take 1 off, whoever has added it; on an id of -1 "semop" is printed.
SemUnlock(p) ==
    /\ Goto(p, "unlock", "lock")
    /\ semid[p] => sem > 0
    /\ sem' = IF semid[p] THEN sem - 1 ELSE sem
    /\ undo' = IF semid[p] THEN [undo EXCEPT ![p] = @ - 1] ELSE undo
    /\ locked' = [locked EXCEPT ![p] = FALSE]
    /\ UNCHANGED <<set, shm, buf, semid, mem, i, calm, barged>>

\* semop fails on a valid id: "semop" is printed and the loop goes on.
UnlockFails(p) ==
    /\ semid[p]
    /\ Goto(p, "unlock", "lock")
    /\ UNCHANGED <<ipc, semid, mem, locked, i, calm, barged>>

\* The kernel takes back what p has added, or adds what p has taken off, and
\* keeps the value between 0 and SemMax.
Undo(p) ==
    /\ sem' = IF sem < undo[p] THEN 0
              ELSE IF sem - undo[p] > SemMax THEN SemMax ELSE sem - undo[p]
    /\ undo' = [undo EXCEPT ![p] = 0]

\* The child leaves its loop.
ChildExits ==
    /\ i["child"] = 0
    /\ Goto("child", "lock", "done")
    /\ Undo("child")
    /\ UNCHANGED <<set, shm, buf, semid, mem, locked, i, calm, barged>>

\* printf of the result -1 of a failed shmat, or a signal.
Die(p) ==
    /\ pc' = [pc EXCEPT ![p] = "killed"]
    /\ Undo(p)
    /\ UNCHANGED <<set, shm, buf, semid, mem, locked, i, barged>>

Segfault == ~mem /\ pc["child"] = "print" /\ Die("child") /\ UNCHANGED calm

Kill(p) == pc[p] \notin Ended /\ Die(p) /\ calm' = FALSE

\* The parent leaves its loop; shmdt and waitpid.
Await ==
    /\ i["parent"] = 0 /\ pc["child"] \in Ended
    /\ Goto("parent", "lock", "semctl")
    /\ UNCHANGED <<ipc, semid, mem, locked, i, calm, barged>>

\* semctl with IPC_RMID: the set goes with its value and all undo values.
RemoveSet ==
    /\ Goto("parent", "semctl", "shmctl")
    /\ IF semid["parent"]
       THEN /\ set' = FALSE /\ sem' = 0 /\ undo' = [p \in Procs |-> 0]
            /\ locked' = [p \in Procs |-> FALSE] /\ barged' = FALSE
       ELSE UNCHANGED <<set, sem, undo, locked, barged>>
    /\ UNCHANGED <<shm, buf, semid, mem, i, calm>>

\* Mutant of RemoveMemory: shmctl is missing.
KeepMemory ==
    /\ Goto("parent", "shmctl", "done")
    /\ Undo("parent")
    /\ UNCHANGED <<set, shm, buf, semid, mem, locked, i, calm, barged>>

\* shmctl with IPC_RMID, and exit.
RemoveMemory ==
    /\ Goto("parent", "shmctl", "done")
    /\ shm' = FALSE /\ buf' = "none"
    /\ Undo("parent")
    /\ UNCHANGED <<set, semid, mem, locked, i, calm, barged>>

\* The program is started again.
Restart ==
    /\ \A p \in Procs : pc[p] \in Ended
    /\ pc' = [p \in Procs |-> "semget"]
    /\ semid' = [p \in Procs |-> FALSE]
    /\ mem' = FALSE
    /\ locked' = [p \in Procs |-> FALSE]
    /\ i' = [p \in Procs |-> Rounds]
    /\ UNCHANGED <<ipc, calm, barged>>

Parent == \/ CreateSet \/ CreateMemory \/ Fill \/ Await \/ RemoveSet \/ RemoveMemory
          \/ SemLock("parent") \/ SemUnlock("parent")

Child == \/ OpenSet \/ OpenMemory \/ Show \/ Segfault \/ ChildExits
         \/ SemLock("child") \/ SemUnlock("child")

Trouble(p) == Kill(p) \/ LockFails(p) \/ UnlockFails(p)

Next == Parent \/ Child \/ (\E p \in Procs : Trouble(p)) \/ Restart

Spec == Init /\ [][Next]_vars

\* Both processes are scheduled; no call has to fail, and nobody has to kill one
\* or to start the program again.
FairSpec == Spec /\ WF_vars(Parent) /\ WF_vars(Child)
-----------------------------------------------------------------------------
\* What each program variable and each kernel object can be.
TypeOK ==
    /\ set \in BOOLEAN /\ shm \in BOOLEAN /\ mem \in BOOLEAN
    /\ sem \in 0..SemMax /\ undo \in [Procs -> Int]
    /\ buf \in {"none", "cleared", "copied", "whole"}
    /\ pc \in [Procs -> {"semget", "shmget", "lock", "clear", "copy", "stamp",
                         "print", "unlock", "semctl", "shmctl"} \cup Ended]
    /\ semid \in [Procs -> BOOLEAN]
    /\ locked \in [Procs -> BOOLEAN]
    /\ i \in [Procs -> 0..Rounds]
    /\ calm \in BOOLEAN /\ barged \in BOOLEAN

InSection(p) == pc[p] \in {"clear", "copy", "stamp", "print", "unlock"}

\* Those between a sem_lock that worked and their sem_unlock, until one has
\* failed: the unlock after it takes off what another process has added.
inside == {p \in Procs : ~barged /\ locked[p] /\ InSection(p)}

X == INSTANCE Exclusion

\* sem_lock and sem_unlock (l.32-59) keep processes whose semop succeeded apart,
\* through kills, unlocks that fail and restarts of the program on the set that was
\* left, until a lock fails on that set (l.44-45).
SemExclusion == X!Spec

\* p has locked and lives; its unlock is to come, or has failed.
Keeps(p) == locked[p] /\ pc[p] \notin Ended

\* Until a lock fails on the set, each process has to be undone exactly what it
\* has locked and not unlocked, and the semaphore is up for nobody else (l.42,
\* l.55).  After that too, the end of one process, which may then add 1 that it has
\* taken off (l.45, l.57), never takes off what the other one has added.
UndoBalance ==
    /\ ~barged => /\ \A p \in Procs : undo[p] = IF Keeps(p) THEN 1 ELSE 0
                  /\ sem = undo["parent"] + undo["child"]
    /\ undo["parent"] + undo["child"] <= sem

\* l.42, l.55: a process killed with the semaphore taken blocks neither the
\* other one nor the next run; every process that was started ends, unless a lock
\* has failed or one waits in l.44 for what its own unlock has not taken off (l.58).
Unblocked ==
    \A p \in Procs : pc[p] = "semget" ~>
        pc[p] \in Ended \/ barged \/ \E q \in Procs : Keeps(q) /\ pc[q] = "lock"

\* The comments of l.107 and l.109: when a run has ended by itself and its parent
\* had the set, nothing stays in the system, whatever earlier runs had left.
NothingLeft ==
    (\A p \in Procs : pc[p] = "done") /\ semid["parent"] => ~set /\ ~shm

\* l.94-99 and l.141-143: as long as nothing has gone wrong and no lock has failed
\* on the set, what the child prints is the parent's text or nothing yet, never
\* half of it.
PrintsWhole ==
    calm /\ ~barged /\ pc["child"] = "print" /\ mem => buf \in {"none", "whole"}
=============================================================================
