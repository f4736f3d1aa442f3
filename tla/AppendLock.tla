----------------------------- MODULE AppendLock -----------------------------
(***************************************************************************)
(* 14-10_flock/flock.c: several processes run the same program on one file *)
(* temp.lock.  Each one opens it with O_TRUNC, then Rounds times (20 in    *)
(* the code) locks from the end of the file, writes one byte, unlocks from *)
(* one byte before the end of the file.                                    *)
(*                                                                         *)
(* POSIX record locks are external code: a lock is a set of byte offsets   *)
(* owned by a process; locking adds to the set and unlocking subtracts     *)
(* from it; SEEK_END is resolved once, when fcntl is called; a range of    *)
(* length 0 extends to the largest offset; a process that ends holds       *)
(* nothing.  Any call may fail at any time: fcntl(2) names ENOLCK and      *)
(* EINTR, and EDEADLK for cycles of waiting, of which it says that they    *)
(* may be missed and that some are found where there is none.              *)
(***************************************************************************)
EXTENDS Integers

CONSTANTS
    Procs,      \* the running instances of the program
    Rounds      \* iterations of the for loop of main

ASSUME RoundsAssumption == Rounds \in Nat \ {0}

VARIABLES
    size,       \* length of temp.lock
    held,       \* held[p]: the offsets p has write-locked
    pc,         \* pc[p]: the next call of p
    fd,         \* fd[p]: open succeeded
    pos,        \* pos[p]: the offset of p's open file description
    round,      \* round[p]: the loop counter i
    want,       \* want[p]: the resolved start of the range p waits for, or 0
    granted,    \* granted[p]: the writew_lock of this round returned 0
    late        \* history: an open has emptied a file that had bytes

vars == <<size, held, pc, fd, pos, round, want, granted, late>>
file == <<size, late>>
-----------------------------------------------------------------------------
Bytes == 0..Rounds      \* offset Rounds stands for every offset from Rounds on

ToEOF(start) == {b \in Bytes : b >= start}

Blocks(q, p, start) == q # p /\ held[q] \cap ToEOF(start) # {}

CanLock(p, start) == \A q \in Procs : ~Blocks(q, p, start)

Init ==
    /\ size = 0
    /\ held = [p \in Procs |-> {}]
    /\ pc = [p \in Procs |-> "open"]
    /\ fd = [p \in Procs |-> FALSE]
    /\ pos = [p \in Procs |-> 0]
    /\ round = [p \in Procs |-> 0]
    /\ want = [p \in Procs |-> 0]
    /\ granted = [p \in Procs |-> FALSE]
    /\ late = FALSE

Goto(p, label) == pc' = [pc EXCEPT ![p] = label]

\* open(O_RDWR|O_CREAT|O_TRUNC): empties the file whoever is using it.
OpenSucceeds(p) ==
    /\ pc[p] = "open"
    /\ Goto(p, "lock")
    /\ fd' = [fd EXCEPT ![p] = TRUE]
    /\ size' = 0
    /\ late' = (late \/ size > 0)
    /\ UNCHANGED <<held, pos, round, want, granted>>

\* "open error" is printed and the loop runs on a bad descriptor.
OpenFails(p) ==
    /\ pc[p] = "open"
    /\ Goto(p, "lock")
    /\ UNCHANGED <<file, held, fd, pos, round, want, granted>>

\* Mutant of Grant: l_len 1 instead of 0, the lock covers one byte.
GrantOneByte(p, start) ==
    /\ CanLock(p, start)
    /\ held' = [held EXCEPT ![p] = @ \cup {start}]
    /\ granted' = [granted EXCEPT ![p] = TRUE]
    /\ Goto(p, "write")

\* writew_lock(fd, 0, SEEK_END, 0) returns 0.
Grant(p, start) ==
    /\ CanLock(p, start)
    /\ held' = [held EXCEPT ![p] = @ \cup ToEOF(start)]
    /\ granted' = [granted EXCEPT ![p] = TRUE]
    /\ Goto(p, "write")

\* lock_reg returned -1: "writew_lock error" is printed, the write follows.
Refuse(p) ==
    /\ granted' = [granted EXCEPT ![p] = FALSE]
    /\ Goto(p, "write")
    /\ UNCHANGED held

Lock(p) ==
    /\ pc[p] = "lock"
    /\ \/ Refuse(p) /\ UNCHANGED want
       \/ fd[p] /\ Grant(p, size) /\ UNCHANGED want
       \/ /\ fd[p] /\ ~CanLock(p, size)
          /\ Goto(p, "wait")
          /\ want' = [want EXCEPT ![p] = size]
          /\ UNCHANGED <<held, granted>>
    /\ UNCHANGED <<file, fd, pos, round>>

\* A blocked F_SETLKW is retried with the range resolved when it was called.
Wake(p) ==
    /\ pc[p] = "wait"
    /\ Grant(p, want[p]) \/ Refuse(p)
    /\ want' = [want EXCEPT ![p] = 0]
    /\ UNCHANGED <<file, fd, pos, round>>

\* Mutant of Write: the file is emptied under the lock, as 14-09_flock does.
WriteTruncates(p) ==
    /\ pc[p] = "write"
    /\ Goto(p, "unlock")
    /\ fd[p]
    /\ size' = pos[p] + 1
    /\ pos' = [pos EXCEPT ![p] = @ + 1]
    /\ UNCHANGED <<held, fd, round, want, granted, late>>

\* write(fd, buf, 1) goes to the descriptor's own offset.
Write(p) ==
    /\ pc[p] = "write"
    /\ Goto(p, "unlock")
    /\ fd[p]
    /\ size' = IF pos[p] < size THEN size ELSE pos[p] + 1
    /\ pos' = [pos EXCEPT ![p] = @ + 1]
    /\ UNCHANGED <<held, fd, round, want, granted, late>>

\* Bad descriptor or full disk: "write error" is printed, the unlock follows.
WriteFails(p) ==
    /\ pc[p] = "write"
    /\ Goto(p, "unlock")
    /\ UNCHANGED <<file, held, fd, pos, round, want, granted>>

\* un_lock(fd, -1, SEEK_END, 0): EINVAL when the file is empty.
Release(p) ==
    held' = IF fd[p] /\ size > 0
            THEN [held EXCEPT ![p] = @ \ ToEOF(size - 1)]
            ELSE held

\* "un_lock error" is printed, and the loop goes on as after an unlock.
Unlock(p) ==
    /\ pc[p] = "unlock"
    /\ Release(p) \/ UNCHANGED held
    /\ granted' = [granted EXCEPT ![p] = FALSE]
    /\ round' = [round EXCEPT ![p] = @ + 1]
    /\ Goto(p, IF round[p] + 1 < Rounds THEN "lock" ELSE "exit")
    /\ UNCHANGED <<file, fd, pos, want>>

\* exit, or a kill at any earlier point: the kernel drops every lock of p, and
\* its variables are gone.
End(p) ==
    /\ held' = [held EXCEPT ![p] = {}]
    /\ fd' = [fd EXCEPT ![p] = FALSE]
    /\ pos' = [pos EXCEPT ![p] = 0]
    /\ round' = [round EXCEPT ![p] = 0]
    /\ want' = [want EXCEPT ![p] = 0]
    /\ granted' = [granted EXCEPT ![p] = FALSE]
    /\ Goto(p, "done")
    /\ UNCHANGED file

Exit(p) == pc[p] = "exit" /\ End(p)

Kill(p) == pc[p] \notin {"exit", "done"} /\ End(p)

Step(p) ==
    OpenSucceeds(p) \/ OpenFails(p) \/ Lock(p) \/ Wake(p)
      \/ Write(p) \/ WriteFails(p) \/ Unlock(p) \/ Exit(p)

Finished == (\A p \in Procs : pc[p] = "done") /\ UNCHANGED vars

Next == (\E p \in Procs : Step(p) \/ Kill(p)) \/ Finished

Spec == Init /\ [][Next]_vars
-----------------------------------------------------------------------------
(***************************************************************************)
(* Properties                                                              *)
(***************************************************************************)
\* A program variable or a lock table outside these ranges would mean an
\* offset beyond the last byte anybody can write.
TypeOK ==
    /\ size \in 0..Rounds
    /\ held \in [Procs -> SUBSET Bytes]
    /\ pc \in [Procs -> {"open", "lock", "wait", "write", "unlock", "exit", "done"}]
    /\ fd \in [Procs -> BOOLEAN]
    /\ pos \in [Procs -> 0..Rounds]
    /\ round \in [Procs -> 0..Rounds]
    /\ want \in [Procs -> 0..Rounds]
    /\ granted \in [Procs -> BOOLEAN]
    /\ late \in BOOLEAN

\* The processes between a lock call that returned 0 and their unlock call.
inside == {p \in Procs : granted[p] /\ pc[p] \in {"write", "unlock"}}

X == INSTANCE Exclusion

\* What writew_lock promises (l.54, l.80): however the file is truncated and
\* however many residual locks earlier rounds left behind, two processes whose
\* lock call succeeded are never between lock and unlock together.
GrantedExclusion == X!Spec

\* Unless an instance that starts late empties the file, the bytes that un_lock
\* leaves locked (l.86 goes one byte back, l.80 starts at the end) never make
\* processes wait for one another: every set of them has one that waits for none
\* of the others, whichever requests fail and whether or not EDEADLK is given.
AcyclicUnlessLate ==
    ~late => \A W \in (SUBSET Procs) \ {{}} : \E p \in W :
        pc[p] = "wait" => \A q \in W : ~Blocks(q, p, want[p])
=============================================================================
