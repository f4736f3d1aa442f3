------------------------------- MODULE PidFile -------------------------------
(***************************************************************************)
(* 14-09_flock/flock.c: a daemon that must run once.  It tries to lock the *)
(* whole of daemon.pid; EACCES or EAGAIN means that another instance has   *)
(* it, any other failure is printed and ignored.  It then empties the file *)
(* and writes its pid there, and pauses until a signal kills it.           *)
(*                                                                         *)
(* A file is a sequence whose elements tell which process wrote the byte.  *)
(* The file outlives the processes, so it may hold the pid of one that was *)
(* killed before; the lock does not.                                       *)
(***************************************************************************)
EXTENDS Integers, Sequences

CONSTANTS
    Procs,      \* the instances of the program
    Old,        \* an earlier instance, gone when the model starts
    Length      \* Length[p]: bytes of "%d\n" for the pid of p

ASSUME LengthAssumption == Length \in [Procs \cup {Old} -> Nat \ {0}]
ASSUME OldAssumption == Old \notin Procs
ASSUME ProcsAssumption == Procs # {}

VARIABLES
    content,    \* the bytes of daemon.pid
    locker,     \* the processes that hold a write lock on it
    pc,         \* pc[p]: the next call of p
    fd,         \* fd[p]: open succeeded
    failed      \* open, fcntl, ftruncate or write has failed in some instance

vars == <<content, locker, pc, fd, failed>>

Text(p) == [i \in 1..Length[p] |-> p]

\* A write at offset 0 leaves what a longer content has beyond it.
Overlay(text, old) ==
    [i \in 1..(IF Len(text) < Len(old) THEN Len(old) ELSE Len(text)) |->
        IF i <= Len(text) THEN text[i] ELSE old[i]]

Init ==
    /\ content \in {<<>>, Text(Old)}
    /\ locker = {}
    /\ pc = [p \in Procs |-> "open"]
    /\ fd = [p \in Procs |-> FALSE]
    /\ failed = FALSE

Goto(p, from, to) == pc[p] = from /\ pc' = [pc EXCEPT ![p] = to]

\* open(O_WRONLY|O_CREAT) keeps the content; "open error" is only printed.
Open(p) ==
    /\ Goto(p, "open", "lock")
    /\ \/ fd' = [fd EXCEPT ![p] = TRUE] /\ UNCHANGED failed
       \/ failed' = TRUE /\ UNCHANGED fd
    /\ UNCHANGED <<content, locker>>

\* Mutant of Lock: the lock is not exclusive (F_RDLCK).
LockShared(p) ==
    /\ Goto(p, "lock", "truncate")
    /\ fd[p]
    /\ locker' = locker \cup {p}
    /\ UNCHANGED <<content, fd, failed>>

Lock(p) ==
    /\ Goto(p, "lock", "truncate")
    /\ fd[p] /\ locker = {}
    /\ locker' = locker \cup {p}
    /\ UNCHANGED <<content, fd, failed>>

\* Mutant of AlreadyRunning: errno is not looked at, every failed fcntl is
\* taken for a running daemon.
AnyFailureIsRunning(p) ==
    /\ Goto(p, "lock", "exited")
    /\ \/ fd[p] /\ locker # {} /\ UNCHANGED failed
       \/ failed' = TRUE
    /\ UNCHANGED <<content, locker, fd>>

\* Mutant of AlreadyRunning: the program tries again until the lock is free.
TryAgain(p) ==
    /\ Goto(p, "lock", "open")
    /\ fd[p] /\ locker # {}
    /\ UNCHANGED <<content, locker, fd, failed>>

\* EACCES or EAGAIN: "daemon is already running..." and exit(0).
AlreadyRunning(p) ==
    /\ Goto(p, "lock", "exited")
    /\ fd[p] /\ locker # {}
    /\ UNCHANGED <<content, locker, fd, failed>>

\* EBADF, ENOLCK, ...: "write_lock error" is printed and the program goes on.
LockFails(p) ==
    /\ Goto(p, "lock", "truncate")
    /\ failed' = TRUE
    /\ UNCHANGED <<content, locker, fd>>

\* Mutant of Truncate: the old content is kept.
KeepContent(p) ==
    Goto(p, "truncate", "write") /\ UNCHANGED <<content, locker, fd, failed>>

\* ftruncate(fd, 0), its result unused.
Truncate(p) ==
    /\ Goto(p, "truncate", "write")
    /\ \/ fd[p] /\ content' = <<>> /\ UNCHANGED failed
       \/ failed' = TRUE /\ UNCHANGED content
    /\ UNCHANGED <<locker, fd>>

\* write(fd, buf, strlen(buf)) at the offset 0 of a fresh descriptor, then
\* the descriptor flags; "write error" is only printed.
WritePid(p) ==
    /\ Goto(p, "write", "pause")
    /\ \/ fd[p] /\ content' = Overlay(Text(p), content) /\ UNCHANGED failed
       \/ failed' = TRUE /\ UNCHANGED content
    /\ UNCHANGED <<locker, fd>>

\* A signal ends p anywhere; the kernel drops its lock, the file stays.
Kill(p) ==
    /\ pc[p] \notin {"exited", "killed"}
    /\ pc' = [pc EXCEPT ![p] = "killed"]
    /\ locker' = locker \ {p}
    /\ UNCHANGED <<content, fd, failed>>

\* Running daemons pause for ever.
Rest ==
    /\ \A p \in Procs : pc[p] \in {"pause", "exited", "killed"}
    /\ UNCHANGED vars

Start(p) ==
    Open(p) \/ Lock(p) \/ AlreadyRunning(p) \/ LockFails(p)
      \/ Truncate(p) \/ WritePid(p)

Next == (\E p \in Procs : Start(p) \/ Kill(p)) \/ Rest

Spec == Init /\ [][Next]_vars

\* Each instance is scheduled; a signal may never come.
FairSpec == Spec /\ \A p \in Procs : WF_vars(Start(p))
-----------------------------------------------------------------------------
Past(p) == pc[p] \in {"truncate", "write", "pause"}

\* Only an instance that opened the file and is still alive holds the lock.
TypeOK ==
    /\ content \in Seq(Procs \cup {Old})
    /\ locker \subseteq {p \in Procs : fd[p] /\ Past(p)}
    /\ pc \in [Procs -> {"open", "lock", "truncate", "write", "pause", "exited", "killed"}]
    /\ fd \in [Procs -> BOOLEAN]
    /\ failed \in BOOLEAN

\* l.90-95 behind the lock of l.79: whatever pid a killed daemon left in the
\* file and however instances start and die meanwhile, a running daemon finds
\* exactly its own pid there, as long as no call has failed.
FileNamesDaemon ==
    ~failed => \A p \in Procs : pc[p] = "pause" => content = Text(p)

\* l.81-84: instances turn away only because another one has the lock, so if
\* none was killed and all have started, one of them runs, failing calls or not.
OneRuns ==
    (\A p \in Procs : pc[p] \in {"pause", "exited"}) =>
        \E p \in Procs : pc[p] = "pause"

\* The instances past the lock call, until a call fails.
inside == {p \in Procs : ~failed /\ Past(p)}

X == INSTANCE Exclusion

\* l.72, until a call fails: the instances past the lock call are never two, and
\* the next one gets there only after the death of the one before.
DaemonExclusion == X!Spec

\* l.79 does not wait: every start ends as the daemon, turned away or killed.
StartEnds == \A p \in Procs : <>(pc[p] \in {"pause", "exited", "killed"})
=============================================================================
