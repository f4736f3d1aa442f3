# A verification development for unix_book3

The repository holds the example programs of a course on UNIX programming, one
directory per program, numbered after the book's chapters.  Most of them make a
few system calls in a row and print the results.  About thirty have more than
one process, thread or signal handler that share something: a file, a lock, a
pipe, a socket, a queue, a piece of memory.  This development is about those.

For these programs there are modules with their state and one action per call
or step, and the configurations that TLC checks; for all of them there are
theorems that TLAPS proves, for every value of the constants where there are any.

## 1. Inventory

Files are named by their directory; the C file in it has the same name.

### 1.1 Programs that share state

| component | state it keeps | operations | hard behaviour | what makes it correct |
|---|---|---|---|---|
| **append under a record lock** 14-10_flock | the file, each process's offset, the kernel's lock table | open with O_TRUNC, lock from the end, write a byte, unlock from the end minus 1 | several instances; the end of the file moves between lock and unlock; a late open truncates; errors, EDEADLK among them, are printed and ignored | granted locks exclude; nobody waits in a circle unless a late open empties the file |
| **single-instance daemon** 14-09_flock | the pid file, its lock | open, try to lock, truncate, write the pid, pause | instances start together, are killed, start again; a file left behind by a dead one | one daemon; the file names it |
| **counters** 11-10_pthread_mutex, 11-15_pthread_spin, 11-14_pthread_rwlock | `shared_data`, the lock | create, lock, increment or copy, unlock, compare with a limit, join, destroy | the comparison is outside the lock; the limits differ; readers share the lock | no lost update; the overshoot is bounded; the lock is destroyed unused; main ends |
| **condition variable** 11-15_pthread_cond | `my_data`: a bit, a mutex, a condition | wait while 0; toggle and signal | the signal is sent after the unlock; spurious and late wakeups | no lost wakeup; only 1 is taken; both loops go on |
| **pager on a pipe** 15-06_pipe | the pipe, its open ends, wait status | write lines; dup2, exec, read | who has which end open; SIGPIPE; end of file; waitpid | nobody blocks on a process that is gone; both end |
| **System V semaphore and shared memory** 15-29_semget_shmget | set, undo values, segment, text | semget, shmget, semop with SEM_UNDO, IPC_RMID | kills inside the section; semop calls that fail and are only printed; objects that outlive the run; start ordered only by sleep | until a lock fails, the semaphore is never left taken and lets one in; whole texts; nothing is left |
| **POSIX named semaphore** 15-35_sem_open | named semaphore, segment, text | sem_open, sem_wait, sem_post, sem_unlink, shmget | no undo; a semaphore and a text of an earlier run; start ordered by sleep | the section is exclusive; a semaphore that a dead process has taken is never given to two |
| **POSIX unnamed semaphore** 15-35_sem_init | semaphore and counter of the process | two threads lock and unlock, main destroys | main destroys while the detached thread may still use it | exclusive; only that one thread can be late |
| **message queue** 15-27_msgget | the kernel's queue | msgsnd, msgrcv with IPC_NOWAIT, IPC_RMID | messages that come after the last receive, or are left from an earlier run; a full queue | each side gets only the other's messages, once and in order; the queue is removed |
| **fifo and pipes** 15-20_mkfifo, 15-05_pipe, 15-11_popen | pipe or fifo, its open ends | blocking open, read, write, pclose | opens that wait for one another; who has which end open; a pager that is quit | the reader gets what was written; nobody waits for a dead process |
| **TCP, UDP and UNIX sockets** 16-17, 16-20, 17-05_client__server | sockets, streams, the address | bind, listen, accept, connect with retry, send, recv | loss and reordering (UDP), messages cut and merged, resets (TCP), stale path, server not ready | both sides end; nobody leaves before `quit` is said; no SIGPIPE |
| **socket pair** 17-02_socketpair | two ends, poll results | poll, read, write | hang-up; `revents` is assigned instead of compared | each read returns what was sent |
| **asynchronous I/O** 14-21_aio_read (three variants), 14-21_lio_listio | control blocks, `return_flag`, buffers | aio_read, notification by signal or thread, aio_suspend | completion at any moment; buffers freed while in flight | results are taken once, after completion, and before they are used |
| **signals** 10-02, 10-15, 10-20, 10-22, 10-30, 12-16_pthread_sigmask | masks, pending sets, dispositions, `canjump` | block, wait, jump, queue, sigwait | a signal between any two instructions | none is lost; handlers run when they may; jumps go to a buffer that is set |
| **threads** 11-02, 11-04, 11-16, 12-04, 12-13, 12-14, 12-17 | thread states, ids, keys, mutexes over fork | create, join, detach, cancel, barrier, once, atfork | use of a thread after its end; fork with locks held | results after the end; key created once; child has free locks |
| **non-blocking copy** 14-01_O_NONBLOCK | buffer and offset, status flags | partial write, EAGAIN | partial writes and retries | every byte is written once, in order; the flags are restored |
| processes 07-03, 08-01, 08-03, 08-06, 08-08, 13-01_daemonize | process tree, stdio buffers | fork, vfork, exit, wait, setsid | buffers flushed twice; shared memory of vfork | each child is reaped once; the daemon leads no session |

### 1.2 Programs that do not

Memory mapped copy (14-27), file offsets, descriptors and byte order (00-00,
01-02, 01-03, 03-*), file attributes and directories (04-*), process
environment, identity and time (01-06, 01-08, 01-09, 06-11, 07-05, 08-16,
08-23) and host name lookup (16-09) are calls in a fixed sequence in one
process, each printing what it got.  There is no interleaving, no state of the
program's own that a later step could find changed, and nothing that a model
would show beyond the code itself; they are not modelled.

The programs do not call one another.  All interaction is between instances,
processes or threads of one program, through the kernel objects above.  The
kernel and the C library are outside of `src/`: the models contain what the
programs rely on of them, and PROJECT.json marks those definitions external.

## 2. Modules

| module | models | refines |
|---|---|---|
| `Exclusion` | what a lock promises: two processes are never between a successful lock call and the unlock call | |
| `AppendLock`, `MCAppendLock`, `AppendLockProofs` | 14-10_flock | `Exclusion` for the granted locks |
| `PidFile`, `MCPidFile`, `PidThreadProofs` | 14-09_flock | `Exclusion` until a call fails |
| `SharedCounter`, `MCSharedCounter`, `SharedCounterProofs` | 11-10, 11-14, 11-15_pthread_spin | `Exclusion` for the writers |
| `CondToggle`, `CondPipeProofs` | 11-15_pthread_cond | |
| `PipePager`, `CondPipeProofs` | 15-06_pipe | |
| `SemShm`, `SemSocketProofs` | 15-29_semget_shmget | `Exclusion` for the successful locks |
| `Handover` | what a channel, a reply or a request promises: nothing is taken before it was given, nothing twice | |
| `ClientServer`, `SemSocketProofs` | 16-17, 17-05, 16-20_client__server | `Handover` for the word "quit" |
| `Ipc`, `IpcProofs` | 15-20_mkfifo, 15-05_pipe, 15-11_popen, 17-02_socketpair, 15-27_msgget, 15-35_sem_open | `Handover` for data and messages, `Exclusion` for the semaphore |
| `Signals`, `SignalsProofs` | 10-02, 10-15, 10-20, 10-22, 10-30, 12-16_pthread_sigmask | |
| `AdvancedIo`, `AdvancedIoProofs` | 14-21_aio_read (3), 14-21_lio_listio, 14-01_O_NONBLOCK | `Handover` for results |
| `Threads`, `PidThreadProofs` | 11-02, 11-04, 11-16, 12-04, 12-13, 12-14, 12-17, 15-35_sem_init | `Exclusion` for the semaphore |

`Exclusion` is the abstract specification the repository's locks have in common.
Each component that locks defines `inside`, the set of those between their lock
and their unlock call, and instantiates the module with it; the refinement is a
PROPERTY of a run and a theorem.
`Handover` does the same for everything that one party gives and another takes:
bytes, messages, a reply, the result of a request; that is a theorem for each of
them, too.

Three modules of theorems are about two components each, `CondPipeProofs`,
`SemSocketProofs` and `PidThreadProofs`.  The components have nothing to do with
one another; to stand in one module, one of each pair does not use the usual names
for its specification (`CondSpec`, `SessionSpec`, `ThreadsSpec` and so on).

A property that a run checks is often a conjunction: `Counted`, `KeepsGoing`,
`SurvivorEnds`, and in the modules with several programs `Safety`, `BothEnd`,
`Written`, `NoneLost`, `AfterTheEnd`, `SemGuards`.  Its parts are named, each part
has a comment of its own in the module, and the sections below are about the
parts.

The five modules at the end of the table hold several programs each.  A variable
`prog` (`proto` in `ClientServer`) is chosen in Init and never changes.  A
process, thread, side or main is the sequence of its calls, read off its
function from top to bottom; `at` counts the calls that were made, and the
sequences stand beside one another at the top of the module.  There is one
action per kind of call, shared by the programs that make it, with the call's
conditions and effects; loops either are unrolled (`Loop`) or are an action that
moves `at` back (`RecvReply`, `Until`).  What the kernel or the library does is an
action of its own (`Deliver`, `Complete`, `Lose`).

Definitions whose comment begins with "Mutant of" are bugs that the code might
have had.  No specification uses them; each stands beside the definition it
would replace and tells which property would find it.

### 2.1 AppendLock

`size` is the length of the file, `held[p]` the bytes that p has locked, `pos[p]` the
offset of p's own descriptor, `round[p]` the loop counter `i`, `fd[p]` and
`granted[p]` tell whether the open and the last lock call succeeded.  The offset
`Rounds` stands for all offsets from `Rounds` on: nobody writes there, which is
the type invariant that TLAPS proves.  `late` is a history variable: an open has
emptied a file that had bytes.

One action per call of `main`: `OpenSucceeds` and `OpenFails`, `Lock` with its
three results, `Wake` for a request that was blocked, `Write` and `WriteFails`,
`Unlock` (with the loop's increment and test), `Exit`, and `Kill` anywhere.  The
kernel: SEEK_END is resolved when fcntl is called, not when the lock is granted
(`want`); locking adds a range to what p has and unlocking subtracts one.  A lock
call may fail at any time, before it waits or while it does, and so may the unlock;
EDEADLK is one such failure, and nothing is assumed about when it is given:
fcntl(2) says that cycles may be missed.

What it shows.  `GrantedExclusion` is not obvious, because lock and unlock name
different ranges relative to an end that moves: a residue stays locked after
some unlocks.  It holds because a granted range always extends to the largest
offset.  `AcyclicUnlessLate` is about those residues: as long as nobody has emptied
the file after bytes were written, what a process has locked lies before the end at
which its next request starts, and a new request is blocked only by processes that
do not wait.  It does not depend on EDEADLK.  After a late open, three instances
do come to wait for one another in a circle, which the program leaves to the
kernel to notice; the process that then gets the error prints it and writes
unlocked.

The code contradicts its comments, and no property repeats those.  "Written at the
end of the file" (l.70, l.82) is not so: without O_APPEND and without a seek each
process writes at the offset of its own descriptor, over the bytes that others have
written.  N instances of 20 rounds leave 20 bytes, not N times 20, on every run
and whatever the locks do.  A successful unlock (l.85) may leave bytes locked:
when the own offset lies beyond an end that another instance has truncated, the
write makes the file longer by more than the one byte that the unlock goes back
(`Unlock`).  And a process whose lock call has failed writes all the same;
`inside` is therefore about granted locks only.

### 2.2 PidFile

`content` is the file, byte by byte as the process that wrote it, so that a
short pid over a long one shows; it starts empty or with a dead daemon's pid.
`locker` holds the owners of the write lock, `pc` the next call.  `failed` is a
history variable: some open, fcntl, ftruncate or write has failed.  The calls may
fail at any time; the properties that need them to succeed say "until a call
fails" with `~failed`, and the others hold without.

`FileNamesDaemon` and `DaemonExclusion` together are what the pid file is for.  The truncation is behind the lock; with O_TRUNC in the open, a
second instance would empty the file of the first, and without the truncation a
longer old pid would show through.  `OneRuns` holds with failing calls too: not
everybody can be turned away.  `StartEnds` is a liveness property: F_SETLK does
not wait.  That there is always one instance only, as the comment of l.72 says,
holds as long as no call fails: a lock call that fails with another errno than
EACCES and EAGAIN is printed and ignored (`LockFails`).

### 2.3 SharedCounter

One model for three programs, which differ in the kind of lock, in which threads
write and in the limits.  `holders` is the lock, `reg[t]` what a writer loaded
and has not stored, `ret[t]` the `static ret` of the thread, `main` counts the
calls that main has made.  The increment is a load and a store.  A mutex, a spin
lock and the write side of a rwlock differ in how they wait, which is not state
of the program; the read side lets readers in together.

The comparison with the limit (l.37, l.57) comes after the unlock, against the
comment of l.71 that only one thread at a time accesses the data.  It is a data
race in C: an aligned `int` read while another thread stores it gives the old or
the new value, which are the two orders of `Check` and `Store`.  The model shows
what comes of it (`Counted`): the counter passes the limit, by less than one per writer
(`Overshoot`), the writer that returns the final value exists (`FinalValue`), and
`>=` is what makes the loops end (`Terminates`).  `DestroyUnused`: main destroys
the lock only when no thread has it or will ask for it.

### 2.4 CondToggle

All calls of the two threads, with a mutex that is held by `owner`, a waiter that
gives it up and sleeps in one step, and spurious wakeups.  `NoLostWakeup` is about
the signal that is sent after the unlock (l.78-79): when the waiter sleeps and the
value is 1, the signal is still to come.  The signal may wake a waiter that then
finds the value 0 again; `TakesOne` says that the loop of l.34 sorts that out.
`KeepsGoing`: the waiter never sleeps for ever, and is never waited for.  The code
after main's first join is never reached.

### 2.5 PipePager

`writers` and `readers` are the processes that have an end of the pipe open,
`wrote` and `read` count lines; the contents do not matter, because a pipe is
first in, first out.  `stdin` is fixed initially: whether descriptor 0 was open
when the program was started.  If it was not, pipe() returns it, l.55 skips the
dup2, and l.57 closes it all the same: the pager has no input.  Both cases are
in every run.

`Finishes` is refuted: the parent waits (l.44) before it closes the write end
(l.45), and the pager waits for the end of its input.  Only a user who quits the
pager, or an orphaned parent, resolves it; that they do is what
`QuitFreesParent` and `OrphanEnds` say, and both depend on closes that are easy
to forget (l.35, l.54); together they are `SurvivorEnds`.  `ReaderUntilEnd` is
about the moves of the read end (l.35, l.55-57): whatever the order of the two
processes' closes, somebody has it open until the pager ends, so that no write
before that kills the parent; only the program started without a standard input
loses it, by the close of l.57.

### 2.6 SemShm

`set`, `sem`, `undo` are the semaphore set, its value and what would be undone for
each process; `shm` and `buf` the shared memory and how far its text is written.
`semid[p]` tells whether p's semget worked, `mem` whether the child's shmat did.
Processes are killed anywhere, waitpid, the two removals and exit of the parent
included; the parent's semget may fail, the child may be earlier than the parent
although it sleeps, and when both have ended the program may be run again on what
was left.  `calm` is a history variable: none of this has happened yet.

A semop on a valid id may fail, too (`LockFails`, `UnlockFails`; EINTR, ENOMEM,
ENOSPC).  The code prints it and goes on (l.45, l.58): the section is entered
without the lock, and the unlock behind it takes off what the other process has
added, or waits until there is something.  `barged` is a history variable of the set:
some lock has failed on it.  From then on nothing keeps the two processes apart,
and the properties say so with `~barged`; an unlock that fails they survive, it only
leaves the semaphore taken until its process ends.

`UndoBalance`, `SemExclusion` and `Unblocked` hold through kills, failing unlocks and
restarts until a lock fails: SEM_UNDO takes back exactly what the dead process had
added, so that neither the other one nor the next run is blocked or let in too early.
`Unblocked` has one more exception in the code, a process whose unlock has failed
and whose next lock waits for itself (l.44, l.58).  The second part of `UndoBalance`
holds behind a failed lock as well: the end of a process never takes off what the
other has added.  `PrintsWhole` needs `calm`: the comments of l.94 and l.141 say that
the semaphore protects the text, but SEM_UNDO also frees it for a process that dies
while the text is half written.  `NothingLeft` says that a run that ends by itself
removes what earlier ones left, those included that were killed between the two
removals.

### 2.7 ClientServer

`link` is the connection as the client's end sees it: open, ended (it will read
the end), reset, or broken (the next write is answered with SIGPIPE).  `up` counts
requests that the server has not read, `down` holds what the client has not.  The
TCP stream may be cut anywhere (`Reads`), which matters for "quit" only, a word of
two pieces; the UNIX domain stream delivers whole sends; datagrams are read in
any order and lost.  `path` is the server's address; for the UNIX domain program
it may be left over from a run that was killed.  `trouble` is a history variable:
a side was killed, the client has read half a "quit", a datagram was lost.

`Finishes` is the main property.  The client polls with connect until the server
listens, the server with listen until it has an address; the stale path is gone
because l.165 unlinks it first, and the client cannot connect to it meanwhile
because nobody listens there.  The exceptions are the code's own: a word cut in
two is not found by strstr, and the client asks again and waits for an answer
while the server waits for it to end; of UDP nothing is repeated.  A datagram that
is sent before the server has bound its address is lost, which no call reports.

`NoBrokenPipe` is not obvious.  The TCP server does not close the accepted socket
when it leaves its loop (l.181-182), and that is what keeps the last reply alive:
the server never reads a request, so a close would reset the connection while
"quit" may be unread.  `OrphanEnds` and `WidowEnds` tell who survives a kill.
`QuitIsHeard` refines `Handover`: no client leaves before "quit" was sent.

### 2.8 Ipc

`holds[p]` says who has p's end of the channel open (both processes after a fork,
until they close), `sent` and `got` count writes and messages per direction.  A
write with no reader left kills the writer, a read with no writer left finds the
end, opening a fifo waits for the other side.  `named` says that the fifo, queue
or semaphore exists; it, old messages, the semaphore's value and the memory may
come from an earlier run.  `Kill` ends either process anywhere.

`DeliveredOnce` refines `Handover` with the data of both directions as items; with
type 0 in msgrcv a process of 15-27 would take its own messages.  `WholeRead` and
`NoStrayDeath` need that no process was killed, that the pager was not quit and,
for 15-35_sem_open, that the child's sleep was long enough; these are what
`trouble` records.  It also records that fopen or popen of 15-11 has failed: the
null stream is used in l.41, l.42 or l.46, and the parent dies (`Fork` for popen; for
fopen, where the pager is there, it is one of the kills).  `SurvivorEnds` depends on closes that have no other effect
(close(fd[1]) in the child of 15-05); a process that dies before its open of the
fifo does leave the other one waiting.  `LostForGood` states the price of a
semaphore without undo: killed between sem_wait and sem_post, a process leaves it
at 0 for the other one and, as sem_open ignores its initial value for a name that
exists (l.89), for later runs.

### 2.9 Signals

`frames` is the stack of running handlers, each with the mask that its return
restores; `mask`, `pending`, `disp` are the kernel's; `suspended` means inside
sigsuspend.  `Send` is what users and other processes do, at most `Sends` times;
unblocked signals are delivered before main or a handler makes its next call, so
that a signal may hit between any two calls.  12-16 adds the thread that takes
signals with sigwait, the condition variable that main waits on, and the signal
that is pending for the thread alone.

`QuietSection` and `InterruptWakes` belong together: between block and wait no
signal gets through, and none is lost, because sigsuspend changes the mask and
waits in one step; letting the signal in before (restore, then wait) would lose
it.  In 12-16 nobody looks whether the thread was created: without it main uses an
id that is not set, and if it survives that it waits for ever, which `QuitEnds`
exempts.  `JumpsOnce`: canjump is set behind sigsetjmp and reset before siglongjmp.
`StackInUse`: the thread copies a set from main's stack.  `QueuedInOrder` says
that the three real-time signals arrive, and in order, while of three queued
SIGQUIT one does (the type invariant).  10-02's `BackgroundSurvives` is the old
idiom of asking for the disposition with SIG_IGN first.

### 2.10 AdvancedIo

`req[r]` is the state of a request; `Submit` queues or refuses it, `Complete` ends
it at any moment with or without an error, and the notifications that are then
due (`Due`) run step by step as threads, or on main's stack for the signal.
`taken[r]` counts aio_return.  For 14-01 `rest` and `out` are what the loop has
still to write and what it wrote, behind a pipe of `Cap` blocks whose reader is
slow, stalls or goes.

`ResultBeforeUse`: the flag is set after the result was taken.  `BufferInUse` has
an exception, in the code: 14-21_lio_listio waits for one of its two requests
and then a second for the other (l.109-112), so that a slow one still has its
buffer and file when they are given back (`late`).  `OutputWhole` is about the last
line of that program, whose rm and cat run side by side: cat may find no file,
never a part of it unless the write was late.  `Finishes` names the hang that
remains: a refused request sets no flag.  `InOrder` and `FlagsKept` are about
14-01: the bytes are written once and in order, however many fit at a time.

### 2.11 Threads

`state`, `detached`, `joined` are the life of a thread, `stale` records ids that main
used when their thread was gone.  pthread_create may fail, and no program looks;
`ended = "undefined"` is the death by an id that was never set or is stale, or by the
null pointer that a failed malloc leaves in 12-13; a stale id may also be survived.
`child` is the process that 12-17 forks, if fork does not fail: it starts with the
mutexes in the state they had.

`StaleIds` says exactly where a dead id is used: 12-04 l.54 detaches a thread that
has detached itself and may be over, 12-14 l.83 asks for one that was cancelled.
`UsedWhileReady` has the exception of 15-35_sem_init: main destroys the semaphore
when its own count is 7 and does not ask for the detached thread, which may be
anywhere before its last post.  It is harmless on the C library that the program
uses, whose semaphores work on when destroyed (`SemExclusion`).  `OneKey` and
`Reclaimed` are about pthread_once and the destructor, `Together` about the barrier's
count.  `LocksFree` says that the three fork handlers undo one another, for a fork
that fails too; as nothing else takes their mutexes, they cannot deadlock.

## 3. Runs, bounds, fairness

| run | instance | checks |
|---|---|---|
| AppendLock | 3 instances, 3 rounds, symmetric | AcyclicUnlessLate, GrantedExclusion |
| PidFile | 3 instances, pids of 1, 2 and 2 bytes, an old one of 3 | FileNamesDaemon, OneRuns, DaemonExclusion, StartEnds |
| SharedCounter | writers 1 and 2, reader 3, limits 10, 12, 10 | Counted (DistinctReturns, Overshoot, FinalValue), DestroyUnused, LockExclusion, Terminates |
| CondToggle | the program itself | CondTypeOK, NoLostWakeup, TakesOne, KeepsGoing (WakesUp, KeepsToggling) |
| PipePager | 8 lines, a pipe of 3 | TypeOK, ReaderUntilEnd, SurvivorEnds (QuitFreesParent, OrphanEnds) |
| PipePagerHangs | the same | Finishes: refuted |
| SemShm | the program's 5 rounds, a semaphore of at most 6 | PrintsWhole, NothingLeft, UndoBalance, SemExclusion, Unblocked |
| ClientServer | the three programs | Safety (SessionTypeOK, NoBrokenPipe, PathRemoved), QuitIsHeard, BothEnd (Finishes, OrphanEnds, WidowEnds) |
| Ipc | the six programs; popen with 4 lines and a pipe of 2, at most 2 old messages of each side, a queue of 6 | Safety (TypeOK, NoStrayDeath, WholeRead, Removed), DeliveredOnce, SemGuards (SemExclusion, LostForGood), BothEnd (Finishes, SurvivorEnds) |
| Signals | the six programs, 3 signals from outside | Safety (TypeOK, QuietSection, JumpsOnce, BackgroundSurvives, QueuedInOrder, StackInUse), NoneLost (InterruptWakes, QuitEnds) |
| AdvancedIo | the five programs; 4 blocks through a pipe of 2 | Safety (TypeOK, ResultBeforeUse, BufferInUse, KilledByPipe), Written (OutputWhole, InOrder, FlagsKept), TakenWhenOver, Finishes |
| Threads | the eight programs | Safety (ThreadsTypeOK, Together, UsedWhileReady, OneKey, LocksFree), AfterTheEnd (JoinGets, StaleIds, Reclaimed, AliveUntilCancelled), SemExclusion, Finishes |

The type invariants of `AppendLock`, `PidFile`, `SharedCounter` and `SemShm` are
proved (section 4), and no run repeats them.

Why the bounds are enough.
- AppendLock: three instances and three rounds are few, but enough for a circle of
  waiting to form behind a late open (with two instances there is none within five
  rounds).  The code has 20 rounds; both properties of the run are proved for any
  number of either.
- PidFile: three instances give one that runs, one that is turned away and one
  that is killed; the lengths make a new pid shorter than, as long as and longer
  than what it overwrites.  Pids are never equal in a running system; a killed
  instance is not started again with the same pid but stands for one of the
  others.
- SharedCounter: the limits are those of the programs (10 and 12), so that a
  thread goes on alone after the other has left; the third thread brings the
  read lock.  The two writers without the reader are the mutex and the spin
  program, one of them with the reader is the rwlock program; the run has more
  interleavings than either.
- CondToggle is the program itself; nothing is bounded.
- SemShm has the program's rounds.  The largest value of a semaphore is 32767 in
  Linux; what kills and failing calls can add in five rounds stays within 6 or is
  cut off there, and the theorems are for any maximum that is not below the rounds.
- ClientServer, Threads: nothing is bounded but by the programs.
- Ipc: the loops have the programs' own lengths, except popen's, whose 4 lines
  fill the pipe and refill it.  A queue of 6 is full with what two processes send
  on top of 4 old messages; old messages of both kinds are there, or none.
- Signals: 3 signals are one to interrupt, one to interrupt the handler and one
  that comes too late; the safety properties are proved for any number.
- AdvancedIo: 4 blocks do not fit into the pipe at once, and are written in
  every partition.
- PipePager: a pipe of three lines becomes full, empty and partly full, and is
  refilled more than twice.  An atomic write is at most PIPE_BUF bytes, and the
  lines of pipe.c are far shorter.

Deadlock is checked in every run.  A program that has ended, or a daemon that
pauses, stutters explicitly (`Finished`, `Rest`, `Over`, the last disjunct of
SharedCounter's `Next`; SemShm is started again).  In the five modules with several
programs `Rest` (`Idle` in `Threads`) also allows those states to last in which the code waits for
something that need not come: a signal, a dead peer, a lost datagram, a thread
that was not created.  `Finishes` says, for each of them, that there are no others.

Fairness.  Every process or thread that can take a step takes one: weak fairness
of each.  Kills, user input, signals from outside, losses, spurious wakeups,
restarts are never required.  `AdvancedIo` adds that requests come to an end and
that a reader which has neither stalled nor gone goes on.

Three locks need more.  `SharedCounter` assumes strong fairness of a writer's lock
call: the comment of pthread_rwlock.c:74-76 says that a waiting writer is not
overtaken by readers for ever, and the threads of all three programs sleep
between two lock calls.  `CondToggle` assumes strong fairness of both lock calls:
both loops sleep for seconds without the mutex.  `Threads` assumes it of sem_wait:
the two loops sleep a second outside of the semaphore.  In `PidFile`, `SemShm` and
`Ipc` weak fairness is enough: nobody else can take the lock for ever.

## 4. Theorems

All are for arbitrary sets of processes and arbitrary numbers of rounds, from the
assumptions that the modules declare on their constants (positive numbers of
rounds, a semaphore that counts at least to the number of rounds, writers among the
threads, limits of at least 1, at least one daemon, pids of at least one byte, a pipe
that holds a line or block, a queue that holds what an earlier run has left).
TLC evaluates the assumptions in the runs.

| module | theorems | argument |
|---|---|---|
| AppendLockProofs | Types, Exclusive, NoCycle | `Inv` adds to the types: locks are disjoint; a granted lock has the largest offset (so two granted ones would meet there); a process has written at most one byte per round; and, unless an open was late, what a process has locked lies before the end of the file or reaches beyond it, and before the request it waits for (`Behind`): who waits blocks nobody that asks later |
| PidThreadProofs (PidFile) | Types, FileNames, Exclusive, SomeRuns | until a call fails, whoever is past the lock call has the lock, and the content follows from how far the owner is; for SomeRuns, whoever turned another one away has not exited |
| SharedCounterProofs | Types, NoLostUpdate, OvershootBound, FinalReturn, Counts (the three together), DestroySafe, Exclusive | the lock is held exactly from lock to unlock; a loaded value is the counter's until the store; the value is below some limit plus the number of writers that must pass `Check` before they increment again |
| CondPipeProofs | CondTypes, WakeupComes, OneTaken | the mutex is held exactly where the loops say; what thread_1 has tested stays true while it holds the mutex |
| CondPipeProofs | Types, ReaderStays | which ends each process has open follows from how far it is |
| SemSocketProofs (SemShm) | Types, UndoExact, Exclusive, Cleans, Prints | until a lock fails, the value of the semaphore is the sum of what would be undone, and that is 1 exactly for who keeps it; behind that, the sum is never more than the value; for Prints, as long as `calm`: both have the set and the memory, and the text is half written only inside the parent's section |
| SemSocketProofs (ClientServer) | SessionsAreClean, QuitComesFirst | `Budget`: every request but the first is sent for an answer that was read; `Sealed`: nobody has a part of "quit" that was not sent; `Calm`: while nothing has gone wrong the TCP server keeps its end, and a UNIX domain server drops it only behind a "quit" that the client waits for |
| SignalsProofs | SignalsFindTheirHandlers | the mask is that of main's section, or is saved in the first handler's frame; a handler that may jump has found main at its pause; the pending real-time signals continue the values in the log |
| AdvancedIoProofs | ResultsInTime, OutputComplete, TakenFromGiven | `Located` says which program makes which call at which place of its text; from where main is follow the state of each request, whether its result was taken and what was given back; the blocks written and the rest are the whole |
| IpcProofs | NothingLost, ComesOutOnce, OneInside | `Located` as above; who has which end open, and while nothing has gone wrong what was sent and got, follow from where the two processes are; the semaphore is 0 while one is inside, dead or not, and the text is half written only inside the parent's section |
| PidThreadProofs (Threads) | SharedIsWhole, KnownAtTheEnd, SemaphoreExcludes | from where the threads of a program are follow their states and what is detached, joined, destroyed, locked or created; once it is made, the semaphore is 0 exactly while main or the thread is between wait and post; three of three threads are all (`ThreeOfThree`) |

None of these properties is inductive alone.  `AcyclicUnlessLate`, for instance,
needs to know where the residues of earlier rounds lie, of processes that do not wait
as well; `Overshoot` needs to count the writers that still owe a check.  In each module the
invariant is a conjunction of named parts, one lemma says that a step keeps it
(split into lemmas for the parts where there are many), `Invariance` makes it
temporal, and the theorems follow.  `Exclusive` is the refinement of `Exclusion`
by steps: each action enters, leaves or stutters.

In `AdvancedIo`, `Ipc`, `ClientServer`, `Signals` and `Threads` a process is a
sequence of calls, and every argument begins with where its next call is.
`Lengths` and a lemma for each text (`SemCalls`, `KeyTexts`, ...) evaluate them once, the unrolled loops and
popen's loop of any length included; `Located` turns "the next call is a write"
into the few places where that can be, and the rest of the proof is about places.
`TakenFromGiven` and `ComesOutOnce` are the refinement of `Handover` by steps: each
step gives, takes or stutters, and what is taken was given.  In `OneInside` the
operator `Inside`, which looks for a lock call behind the process and no unlock
call after it, is shown to be an interval of places (`InsideIs`); that a dead
process stays inside is why nobody else gets in.

`Signals` has two sequences that grow and shrink, the stack of handlers and the
pending signals.  Lemmas on its operators say what delivery does to them
(`FirstIs`, `WithoutIs`, `WithoutSound`, `OrderTaken`: the signal that is delivered
is pending, the others keep their order), for any number of signals; `Shortened`
and `Advanced` do so for the frames.  `ClientServer` and `Threads` have no constants,
and TLC visits all their states; what the theorems add is the reason.  In
`Threads` it is that nearly everything is a function of `at`: for each program
the invariant says what each place means, so that StaleIds, Reclaimed and
UsedWhileReady, which look at two threads at different places, follow from the
places of both.

Only model-checked: liveness (`Terminates`, `StartEnds`, `KeepsGoing`, `Unblocked`,
the `SurvivorEnds` of `PipePager`, every `BothEnd` and `Finishes`, and `NoneLost`),
which is out of the prover's reach.  All invariants and all refinements that the runs check are theorems.

## 5. What is left out

- Outcomes that no later step depends on: results of printf, close, shmdt,
  fcntl(F_SETFD).
- Calls of the kernel that fail only when they are given a bad argument, and are
  given none: close, dup2 (15-06), semctl and shmctl on the ids of the run's own
  objects (15-29).
- pthread_create and pthread_join succeed in `SharedCounter` and `CondToggle`,
  where the code does not look (fork in 15-06 may fail: it then does nothing).
- In `SemShm`, shmget of the parent and shmat of existing memory succeed, and
  nobody else removes the set.
- In `ClientServer` the port is free, popen works, fork succeeds, and nobody else
  connects; after a UDP server has ended, what is sent to it is lost without the
  error that the kernel may report.
- In `Ipc` nobody else removes or uses the named objects, and the calls that
  create one succeed; fork may fail.  The child of 15-35_sem_open that is so early
  that its shmget fails keeps the id -1 and dies when it prints (l.173); in the model
  it may also find the memory that has come meanwhile (`Show`), and its death is
  among the kills.
- In `AdvancedIo` open may fail for the output of 14-21_lio_listio only; the
  contents of files and the sizes that are read are not distinguished.  The
  standard output of 14-01 is open, and fcntl on it succeeds (l.21-29, l.36-43 would
  print the error and go on).
- In `Threads` the cleanup handlers of 11-04 and the attributes other than
  "detached" of 12-04 are left out; they print, or have no effect later.
- Functions and macros that nothing calls: `lock_test` and the read lock macros of
  both flock programs, sem_trylock and sem_timelock of both 15-35 programs.

Not modelled: the processes of chapters 7, 8 and 13 (07-03_atexit, 08-01_fork,
08-03_vfork, 08-06_wait, 08-08_waitpid, 13-01_daemonize).  They create processes,
but wait, vfork or the exit of the parent fix the order in which parent and child
run, or they share nothing that either would find changed; what is worth stating
there is how often a stdio buffer is flushed.  And the programs of section 1.2.

## 6. Plan

1. Theorems: the invariants, action properties and refinements of the runs are
   proved.  Left is liveness, for which the proofs would need ENABLED.
2. `Processes`: fork, vfork and stdio buffers, wait, daemonize.
