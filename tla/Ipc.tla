--------------------------------- MODULE Ipc ---------------------------------
(***************************************************************************)
(* The programs in which a parent and its child use one kernel object:     *)
(* 15-20_mkfifo, 15-05_pipe, 15-11_popen (whose child is a pager),         *)
(* 17-02_socketpair, 15-27_msgget and 15-35_sem_open.  The variable prog   *)
(* says which one runs, and a process is the sequence of its calls.        *)
(*                                                                         *)
(* The kernel is external code.  A channel delivers in order; its ends may *)
(* be open in both processes, a read finds the end when the other end is   *)
(* open nowhere, and a write then kills the writer.  Opening a fifo waits  *)
(* for the other end.  A queue and a named semaphore outlive the           *)
(* processes, and a semaphore is not given back for a process that dies.   *)
(***************************************************************************)
EXTENDS Integers, Sequences

CONSTANTS
    Lines,      \* writes of the popen program
    Cap,        \* writes that a pipe holds
    Old,        \* messages of each side that an earlier run may have left
    QueueMax    \* messages that a queue holds

\* What is left of an earlier run has found room in the queue.
ASSUME SizesAssumption ==
    /\ Lines \in Nat /\ Cap \in Nat \ {0}
    /\ Old \in Nat /\ QueueMax \in Nat /\ 2 * Old <= QueueMax

Procs == {"parent", "child"}
Other(p) == IF p = "parent" THEN "child" ELSE "parent"

VARIABLES
    prog,       \* the program
    at,         \* at[p]: the number of p's next call; 0 before it is forked
    dead,       \* the processes that a signal has ended
    holds,      \* holds[p]: who has p's end of the channel open
    sent,       \* sent[p]: what p has written or sent
    got,        \* got[p]: what p has read of it
    named,      \* the fifo, queue or named semaphore exists
    sem,        \* value of the semaphore
    shm,        \* the shared memory: "absent", "blank", "half" or "whole"
    trouble     \* history: a process was killed, popen or fopen failed, the pager was
                \* quit or failed, or the child was not late enough for what it opens

vars == <<prog, at, dead, holds, sent, got, named, sem, shm, trouble>>
chan == <<holds, sent, got>>
store == <<named, sem, shm>>

\* n times the calls of a loop's body.
Loop(n, body) == [i \in 1..(n * Len(body)) |-> body[((i - 1) % Len(body)) + 1]]

FifoParent == <<"mkfifo", "fork", "open", "write", "wait">>
FifoChild == <<"open", "read">>

PipeParent == <<"pipe", "fork", "close", "write">>

\* Mutant of PipeChild: close(fd[1]) is missing.
PipeChildKeeps == <<"read">>

PipeChild == <<"close", "read">>

PopenParent == <<"pipe", "fork", "close">> \o Loop(Lines, <<"write">>) \o <<"hangup", "wait">>
Pager == <<"close", "page">>

\* Mutant of PairParent: the end is closed before the child's text is there.
PairParentCloses == <<"pipe", "fork", "close", "write", "hangup", "wait">>

PairParent == <<"pipe", "fork", "close", "write", "poll", "read", "hangup", "wait">>
PairChild == <<"close", "write", "poll", "read">>

QueueParent == <<"fork", "msgget">> \o Loop(4, <<"msgsnd", "msgrcv">>) \o <<"wait", "remove">>
QueueChild == <<"msgget">> \o Loop(4, <<"msgsnd", "msgrcv">>)

SemParent ==
    <<"fork", "sem_open", "shmget">> \o Loop(5, <<"lock", "clear", "copy", "unlock">>)
        \o <<"wait", "unlink", "remove">>

SemChild == <<"sem_open", "shmget">> \o Loop(5, <<"lock", "print", "unlock">>)

Texts == [
    fifo |-> [parent |-> FifoParent, child |-> FifoChild],
    pipe |-> [parent |-> PipeParent, child |-> PipeChild],
    popen |-> [parent |-> PopenParent, child |-> Pager],
    pair |-> [parent |-> PairParent, child |-> PairChild],
    queue |-> [parent |-> QueueParent, child |-> QueueChild],
    sem |-> [parent |-> SemParent, child |-> SemChild]]

Text(p) == Texts[prog][p]

Gone(p) == p \in dead \/ at[p] > Len(Text(p))
Calls(p, call) == ~Gone(p) /\ at[p] > 0 /\ Text(p)[at[p]] = call
Passed(p, call) == \E i \in 1..(at[p] - 1) : Text(p)[i] = call
Past(p) == at' = [at EXCEPT ![p] = @ + 1]

\* A fifo, queue, semaphore or memory may be there from an earlier run, whose
\* processes may have been killed between their lock and their unlock.
Init ==
    /\ prog \in DOMAIN Texts
    /\ at = [p \in Procs |-> IF p = "parent" THEN 1 ELSE 0]
    /\ dead = {} /\ trouble = FALSE
    /\ holds = [p \in Procs |-> {}]
    /\ named \in IF prog \in {"fifo", "queue", "sem"} THEN BOOLEAN ELSE {FALSE}
    /\ sent \in [Procs -> IF prog = "queue" /\ named THEN 0..Old ELSE {0}]
    /\ got = [p \in Procs |-> 0]
    /\ sem \in IF prog = "sem" /\ named THEN {0, 1} ELSE {0}
    /\ shm \in IF prog = "sem" THEN {"absent", "half", "whole"} ELSE {"absent"}
-----------------------------------------------------------------------------
\* Processes.

\* A process that ends closes what it has open.
Drop(p) == holds' = [q \in Procs |-> holds[q] \ {p}]

\* The process goes on to its next call, or ends with its last.
Onward(p) ==
    /\ Past(p)
    /\ IF at[p] = Len(Text(p)) THEN Drop(p) ELSE UNCHANGED holds

Dies(p) == dead' = dead \cup {p} /\ Drop(p) /\ UNCHANGED at

\* The child has what the parent has; without a child the program returns, but
\* for popen: its null stream is used by fputs or pclose, which kills the parent.
Fork(p) ==
    /\ Calls(p, "fork") /\ UNCHANGED <<prog, sent, got, store>>
    /\ \/ /\ at' = [q \in Procs |-> IF q = p THEN at[p] + 1 ELSE 1]
          /\ holds' = [q \in Procs |-> IF holds[q] = {} THEN {} ELSE Procs]
          /\ UNCHANGED <<dead, trouble>>
       \/ /\ prog # "popen"
          /\ at' = [at EXCEPT ![p] = Len(Text(p)) + 1] /\ Drop(p)
          /\ UNCHANGED <<dead, trouble>>
       \/ prog = "popen" /\ Dies(p) /\ trouble' = TRUE

Wait(p) ==
    /\ Calls(p, "wait") /\ Gone(Other(p)) /\ Onward(p)
    /\ UNCHANGED <<prog, dead, sent, got, store, trouble>>

\* A user, or another process, may kill either one; the parent of 15-11 also dies
\* of fgets on the null stream of a failed fopen, when its pager is there (l.41).
Kill(p) ==
    /\ ~Gone(p) /\ at[p] > 0 /\ Passed("parent", "fork")
    /\ Dies(p) /\ trouble' = TRUE
    /\ UNCHANGED <<prog, sent, got, store>>
-----------------------------------------------------------------------------
\* Pipes, fifos and socket pairs.

\* pipe, socketpair, and the half of popen before its fork.
Pipe(p) ==
    /\ Calls(p, "pipe") /\ Past(p) /\ holds' = [q \in Procs |-> {p}]
    /\ UNCHANGED <<prog, dead, sent, got, store, trouble>>

Mkfifo(p) ==
    /\ Calls(p, "mkfifo") /\ Onward(p) /\ named' = TRUE
    /\ UNCHANGED <<prog, dead, sent, got, sem, shm, trouble>>

\* The first to open waits, and the second lets both go on.
Open(p) ==
    LET q == Other(p) IN
    /\ Calls(p, "open") /\ p \notin holds[p]
    /\ holds' = [holds EXCEPT ![p] = {p}]
    /\ at' = IF holds[q] = {q} THEN [r \in Procs |-> at[r] + 1] ELSE at
    /\ UNCHANGED <<prog, dead, sent, got, store, trouble>>

\* close of the end that the other process uses.
Close(p) ==
    /\ Calls(p, "close") /\ Past(p)
    /\ holds' = [holds EXCEPT ![Other(p)] = @ \ {p}]
    /\ UNCHANGED <<prog, dead, sent, got, store, trouble>>

\* close of the own end, as in pclose.
Hangup(p) ==
    /\ Calls(p, "hangup") /\ Past(p)
    /\ holds' = [holds EXCEPT ![p] = @ \ {p}]
    /\ UNCHANGED <<prog, dead, sent, got, store, trouble>>

\* The last write of a program that does not wait is followed by its exit.
Write(p) ==
    /\ Calls(p, "write") /\ UNCHANGED <<prog, got, store, trouble>>
    /\ \/ /\ holds[Other(p)] # {} /\ sent[p] - got[Other(p)] < Cap
          /\ sent' = [sent EXCEPT ![p] = @ + 1]
          /\ Onward(p) /\ UNCHANGED dead
       \/ holds[Other(p)] = {} /\ Dies(p) /\ UNCHANGED sent

Unread(p) == sent[Other(p)] - got[p]
Readable(p) == Unread(p) > 0 \/ holds[Other(p)] = {}

\* poll without a timeout; what it reports is not looked at.
Poll(p) ==
    /\ Calls(p, "poll") /\ Readable(p) /\ Past(p)
    /\ UNCHANGED <<prog, dead, chan, store, trouble>>

\* One read takes all that is there, or finds the end.
Read(p) ==
    /\ Calls(p, "read") /\ Readable(p) /\ Onward(p)
    /\ got' = [got EXCEPT ![p] = sent[Other(p)]]
    /\ UNCHANGED <<prog, dead, sent, store, trouble>>

\* The pager shows its input until it ends; it may fail or be quit before.
Page(p) ==
    /\ Calls(p, "page") /\ UNCHANGED <<prog, dead, sent, store>>
    /\ \/ Unread(p) > 0 /\ got' = [got EXCEPT ![p] = @ + 1] /\ UNCHANGED <<at, holds, trouble>>
       \/ Unread(p) = 0 /\ holds[Other(p)] = {} /\ Onward(p) /\ UNCHANGED <<got, trouble>>

Quit(p) ==
    /\ Calls(p, "page") /\ Onward(p) /\ trouble' = TRUE
    /\ UNCHANGED <<prog, dead, sent, got, store>>
-----------------------------------------------------------------------------
\* The message queue; nothing waits.

Msgget(p) ==
    /\ Calls(p, "msgget") /\ Past(p) /\ named' = TRUE
    /\ UNCHANGED <<prog, dead, chan, sem, shm, trouble>>

\* EAGAIN when the queue is full.
Msgsnd(p) ==
    /\ Calls(p, "msgsnd") /\ Past(p)
    /\ LET full == Unread(p) + Unread(Other(p)) >= QueueMax IN
       sent' = IF named /\ ~full THEN [sent EXCEPT ![p] = @ + 1] ELSE sent
    /\ UNCHANGED <<prog, dead, holds, got, store, trouble>>

\* Mutant of Msgrcv: type 0, which takes the messages of either side.
MsgrcvAny(p) ==
    /\ Calls(p, "msgrcv") /\ Onward(p)
    /\ got' = IF named /\ Unread(p) + Unread(Other(p)) > 0 THEN [got EXCEPT ![p] = @ + 1] ELSE got
    /\ UNCHANGED <<prog, dead, sent, store, trouble>>

\* ENOMSG when there is none of the other side's type.
Msgrcv(p) ==
    /\ Calls(p, "msgrcv") /\ Onward(p)
    /\ got' = IF named /\ Unread(p) > 0 THEN [got EXCEPT ![p] = @ + 1] ELSE got
    /\ UNCHANGED <<prog, dead, sent, store, trouble>>

\* msgctl or shmctl with IPC_RMID.
Remove(p) ==
    /\ Calls(p, "remove") /\ Onward(p)
    /\ IF prog = "queue" THEN named' = FALSE /\ UNCHANGED shm ELSE shm' = "absent" /\ UNCHANGED named
    /\ UNCHANGED <<prog, dead, sent, got, sem, trouble>>
-----------------------------------------------------------------------------
\* The named semaphore and the memory that it protects.

\* The parent creates the semaphore with 1 or opens an old one as it is.  The
\* null pointer that the child gets when there is none kills it at its first
\* sem_wait, before which it changes nothing.
SemOpen(p) ==
    /\ Calls(p, "sem_open") /\ UNCHANGED <<prog, sent, got, shm>>
    /\ \/ /\ p = "parent" \/ named
          /\ sem' = IF named THEN sem ELSE 1
          /\ Past(p) /\ UNCHANGED <<dead, holds>>
       \/ /\ p = "child" /\ ~named
          /\ Dies(p) /\ UNCHANGED sem
    /\ named' = (named \/ p = "parent")
    /\ trouble' = (trouble \/ (p = "child" /\ ~Passed("parent", "unlock")))

\* The child opens what exists (size 0).
Shmget(p) ==
    /\ Calls(p, "shmget") /\ Past(p)
    /\ shm' = IF p = "parent" /\ shm = "absent" THEN "blank" ELSE shm
    /\ UNCHANGED <<prog, dead, chan, named, sem, trouble>>

\* Mutant of Lock: sem_trylock, of which nobody looks at the result.
LockTries(p) ==
    /\ Calls(p, "lock") /\ sem' = 0 /\ Past(p)
    /\ UNCHANGED <<prog, dead, chan, named, shm, trouble>>

Lock(p) ==
    /\ Calls(p, "lock") /\ sem = 1 /\ sem' = 0 /\ Past(p)
    /\ UNCHANGED <<prog, dead, chan, named, shm, trouble>>

Unlock(p) ==
    /\ Calls(p, "unlock") /\ sem' = sem + 1 /\ Onward(p)
    /\ UNCHANGED <<prog, dead, sent, got, named, shm, trouble>>

Fill(p) ==
    /\ Past(p)
    /\ \/ Calls(p, "clear") /\ shm' = "half"
       \/ Calls(p, "copy") /\ shm' = "whole"
    /\ UNCHANGED <<prog, dead, chan, named, sem, trouble>>

\* printf of memory that is not there kills the child.  A child that was so early
\* that its shmget failed dies here in any case; that is among the kills.
Show(p) ==
    /\ Calls(p, "print") /\ UNCHANGED <<prog, sent, got, store, trouble>>
    /\ \/ shm # "absent" /\ Past(p) /\ UNCHANGED <<dead, holds>>
       \/ shm = "absent" /\ Dies(p)

\* sem_close and sem_unlink.
SemUnlink(p) ==
    /\ Calls(p, "unlink") /\ Past(p) /\ named' = FALSE
    /\ UNCHANGED <<prog, dead, chan, sem, shm, trouble>>
-----------------------------------------------------------------------------
Run(p) ==
    \/ Fork(p) \/ Wait(p)
    \/ Pipe(p) \/ Mkfifo(p) \/ Open(p) \/ Close(p) \/ Hangup(p) \/ Write(p) \/ Poll(p) \/ Read(p) \/ Page(p)
    \/ Msgget(p) \/ Msgsnd(p) \/ Msgrcv(p) \/ Remove(p)
    \/ SemOpen(p) \/ Shmget(p) \/ Lock(p) \/ Unlock(p) \/ Fill(p) \/ Show(p) \/ SemUnlink(p)

\* p has locked and has not unlocked since, or died there.
Inside(p) ==
    prog = "sem" /\ \E i \in 1..(at[p] - 1) :
        Text(p)[i] = "lock" /\ \A j \in i..(at[p] - 1) : Text(p)[j] # "unlock"

\* The semaphore is taken, but by no process that lives.
Lost == prog = "sem" /\ named /\ sem = 0 /\ \A p \in Procs : Inside(p) => p \in dead

Over == \A p \in Procs : Gone(p) \/ (at[p] = 0 /\ Gone("parent"))

\* Both have ended, or one waits for ever after a kill or for a lost semaphore.
Rest == (trouble \/ Lost \/ Over) /\ UNCHANGED vars

Next == (\E p \in Procs : Run(p) \/ Kill(p) \/ Quit(p)) \/ Rest

Spec == Init /\ [][Next]_vars

\* Both processes are scheduled; the pager is not quit, nobody has to be killed.
FairSpec == Spec /\ \A p \in Procs : WF_vars(Run(p))
-----------------------------------------------------------------------------
\* At most Cap writes are unread in a pipe and QueueMax messages in a queue.
TypeOK ==
    /\ prog \in DOMAIN Texts
    /\ \A p \in Procs :
          /\ at[p] \in 0..(Len(Text(p)) + 1) /\ holds[p] \subseteq Procs
          /\ got[p] \in Nat /\ Unread(p) \in 0..(IF prog = "queue" THEN QueueMax ELSE Cap)
    /\ dead \subseteq Procs
    /\ named \in BOOLEAN /\ sem \in {0, 1}
    /\ shm \in {"absent", "blank", "half", "whole"} /\ trouble \in BOOLEAN

\* Unless a process is killed or 15-11 fails to open its file or its pager, no write
\* finds its reader gone and nothing that was not opened is used: the parent of
\* 17-02 reads before it closes (l.77, l.83), that of 15-20 opens before it writes
\* (l.53).
NoStrayDeath == ~trouble => dead = {}

\* What is read is what was written: no read of a fifo, pipe or socket pair
\* finds the end instead, and the child of 15-35 prints no half text (l.173).
WholeRead ==
    ~trouble /\ at["child"] > 0 =>
        /\ \A p \in Procs : Passed(p, "read") => got[p] = 1
        /\ Calls("child", "print") => shm = "whole"

\* A run that ends by itself leaves no queue, semaphore or memory, its own or
\* one that it found: they are removed when the child has ended, which would
\* otherwise make the queue again (15-27 l.67-68 and l.79, 15-35 l.127-132).
Removed ==
    prog \in {"queue", "sem"} /\ at["child"] > 0 /\ Gone("parent") /\ "parent" \notin dead
        => ~named /\ shm = "absent"

\* Messages and writes come out in the order in which they went in, once each,
\* and never those of the reader itself.
Delivery == INSTANCE Handover WITH
    given <- UNION {{p} \X (1..sent[p]) : p \in Procs},
    taken <- UNION {{p} \X (1..got[Other(p)]) : p \in Procs}

DeliveredOnce == Delivery!Spec

\* One process at a time is between sem_lock and sem_unlock (15-35 l.115-120,
\* l.172-174), and none is with one that has died there.
Section == INSTANCE Exclusion WITH inside <- {p \in Procs : Inside(p)}

SemExclusion == Section!Spec

\* A semaphore that a dead process has taken stays taken, in this run and in
\* those that open its name later (l.89: the value is ignored), until a parent
\* that needs it no more unlinks it.
LostForGood == [][Lost => Lost' \/ ~named']_vars

\* Both processes end: the opens of 15-20 meet, the pclose of 15-11 shows the
\* pager the end, the polls of 17-02 wake up, the loops of 15-27 never wait.
Finishes == <>(trouble \/ Lost \/ Over)

\* The death of one process does not keep the other for ever, unless it dies
\* with the semaphore or before its open of the fifo.
SurvivorEnds ==
    \A p \in Procs :
        (p \in dead /\ at[Other(p)] > 0 /\ ~Lost /\ (prog = "fifo" => Passed(p, "open"))) ~> Gone(Other(p))

\* What a run relies on while it goes on, and what it leaves when it ends.
Safety == TypeOK /\ NoStrayDeath /\ WholeRead /\ Removed

\* The semaphore never lets two processes in: not together, and not one after
\* another one that has died inside.
SemGuards == SemExclusion /\ LostForGood

\* Each process ends: with the other, or without it when the other has died.
BothEnd == Finishes /\ SurvivorEnds
=============================================================================
