----------------------------- MODULE PipePager ------------------------------
(***************************************************************************)
(* 15-06_pipe: the parent copies pipe.c line by line into a pipe; the      *)
(* child makes the pipe its standard input and execs a pager.  The parent  *)
(* waits for the child before it closes its write end.                     *)
(*                                                                         *)
(* A pipe is external code: it delivers the lines in order and holds Cap   *)
(* of them (a line is at most PIPE_BUF long, so a write is atomic); a      *)
(* write blocks when it is full and kills the writer when nobody can read; *)
(* a read sees the end when it is empty and nobody can write.  So is the   *)
(* pager: it reads its standard input to the end, or a user quits it.      *)
(***************************************************************************)
EXTENDS Integers

CONSTANTS
    Lines,      \* lines of pipe.c
    Cap         \* lines that the pipe holds

ASSUME LinesAssumption == Lines \in Nat
ASSUME CapAssumption == Cap \in Nat \ {0}

VARIABLES
    stdin,      \* descriptor 0 was open when the program was started
    wrote,      \* lines written to the pipe
    read,       \* lines that the pager has read
    writers,    \* processes with the write end open
    readers,    \* processes with the read end open
    parent,     \* the next step of the parent
    child       \* the next step of the child

vars == <<stdin, wrote, read, writers, readers, parent, child>>

Ended == {"done", "killed"}

\* After pipe(): the parent has both ends.
Init ==
    /\ stdin \in BOOLEAN
    /\ wrote = 0 /\ read = 0
    /\ writers = {"parent"} /\ readers = {"parent"}
    /\ parent = "fork" /\ child = "none"

\* A process that ends closes what it has open.
Close(p) == writers' = writers \ {p} /\ readers' = readers \ {p}

\* fork duplicates both ends; without a child the program returns 0.
Fork ==
    /\ parent = "fork"
    /\ \/ /\ parent' = "close" /\ child' = "close1"
          /\ writers' = {"parent", "child"} /\ readers' = {"parent", "child"}
       \/ parent' = "done" /\ Close("parent") /\ UNCHANGED child
    /\ UNCHANGED <<stdin, wrote, read>>

\* close(fd[0]) and fopen.
CloseRead ==
    /\ parent = "close" /\ parent' = "write"
    /\ readers' = readers \ {"parent"}
    /\ UNCHANGED <<stdin, wrote, read, writers, child>>

\* fgets ended: on to waitpid.
AllWritten ==
    /\ parent = "write" /\ wrote = Lines
    /\ parent' = "wait"
    /\ UNCHANGED <<stdin, wrote, read, writers, readers, child>>

\* Mutant of Write: the pipe takes more than it holds (write never blocks).
WriteUnbounded ==
    /\ parent = "write" /\ wrote < Lines /\ readers # {}
    /\ wrote' = wrote + 1
    /\ UNCHANGED <<stdin, read, writers, readers, parent, child>>

\* write(fd[1], line, strlen(line))
Write ==
    /\ parent = "write" /\ wrote < Lines /\ readers # {}
    /\ wrote - read < Cap
    /\ wrote' = wrote + 1
    /\ UNCHANGED <<stdin, read, writers, readers, parent, child>>

\* The parent dies of SIGPIPE, of fgets on the null stream of a failed fopen
\* before its first line, or of a signal from outside.
ParentDies ==
    /\ parent' = "killed" /\ Close("parent")
    /\ UNCHANGED <<stdin, wrote, read, child>>

SigPipe == parent = "write" /\ wrote < Lines /\ readers = {} /\ ParentDies

Crash == parent \notin Ended \cup {"fork"} /\ ParentDies

\* waitpid returns when the child has ended; then close(fd[1]), fclose, exit.
Reap ==
    /\ parent = "wait" /\ child = "done"
    /\ parent' = "done" /\ Close("parent")
    /\ UNCHANGED <<stdin, wrote, read, child>>

\* Mutant of CloseWrite: close(fd[1]) is missing in the child.
CloseWriteNot == child = "close1" /\ child' = "dup2" /\ UNCHANGED <<stdin, wrote, read, readers, writers, parent>>

\* close(fd[1]) of the child.
CloseWrite ==
    /\ child = "close1" /\ child' = "dup2"
    /\ writers' = writers \ {"child"}
    /\ UNCHANGED <<stdin, wrote, read, readers, parent>>

\* Mutant of Redirect: close(fd[0]) without dup2.
RedirectNot ==
    /\ child = "dup2" /\ child' = "exec"
    /\ readers' = readers \ {"child"}
    /\ UNCHANGED <<stdin, wrote, read, writers, parent>>

\* dup2 onto standard input unless pipe() had already returned 0 for fd[0],
\* which it does when standard input was closed; close(fd[0]) in either case.
Redirect ==
    /\ child = "dup2" /\ child' = "exec"
    /\ readers' = IF stdin THEN readers ELSE readers \ {"child"}
    /\ UNCHANGED <<stdin, wrote, read, writers, parent>>

\* execl, or perror and return.
Exec ==
    /\ child = "exec"
    /\ \/ child' = "page" /\ UNCHANGED <<writers, readers>>
       \/ child' = "done" /\ Close("child")
    /\ UNCHANGED <<stdin, wrote, read, parent>>

Page ==
    /\ child = "page" /\ "child" \in readers /\ read < wrote
    /\ read' = read + 1
    /\ UNCHANGED <<stdin, wrote, writers, readers, parent, child>>

PagerEnds == child' = "done" /\ Close("child") /\ UNCHANGED <<stdin, wrote, read, parent>>

\* The end of the input, or no standard input at all.
EndOfInput ==
    /\ child = "page"
    /\ "child" \notin readers \/ (read = wrote /\ writers = {})
    /\ PagerEnds

\* The user quits the pager, or a signal ends the child before.
Quit == child \notin {"none", "done"} /\ PagerEnds

Parent == Fork \/ CloseRead \/ Write \/ AllWritten \/ SigPipe \/ Reap
Child == CloseWrite \/ Redirect \/ Exec \/ Page \/ EndOfInput

Over == parent \in Ended /\ child \in {"none", "done"} /\ UNCHANGED vars

Next == Parent \/ Child \/ Crash \/ Quit \/ Over

Spec == Init /\ [][Next]_vars

\* Both processes are scheduled; nobody has to quit the pager or send a signal.
FairSpec == Spec /\ WF_vars(Parent) /\ WF_vars(Child)
-----------------------------------------------------------------------------
\* The pipe holds at most Cap lines, and the pager has read none that the
\* parent has not written.
TypeOK ==
    /\ stdin \in BOOLEAN
    /\ wrote \in 0..Lines /\ read \in 0..wrote /\ wrote - read <= Cap
    /\ writers \subseteq {"parent", "child"} /\ readers \subseteq {"parent", "child"}
    /\ parent \in {"fork", "close", "write", "wait"} \cup Ended
    /\ child \in {"none", "close1", "dup2", "exec", "page", "done"}

\* l.35, l.53-57: however the closes and dup2 of the two processes interleave, the
\* pipe has a reader until the pager ends, and no write before that kills the
\* parent; unless pipe() returned descriptor 0, which l.57 then closes.
ReaderUntilEnd == readers = {} => child \in {"none", "done"} \/ ~stdin

\* The closes of l.35 and l.57 leave the pager as the only reader, so that a
\* parent that writes after the pager has ended is not blocked: it ends too.
QuitFreesParent == child = "done" ~> parent \in Ended

\* An orphaned pager gets every line that was written and then ends (l.35, l.54).
OrphanEnds == parent = "killed" ~> child \in {"none", "done"}

\* l.40 and l.61: the child reads from its standard input what the parent
\* wrote; when it has read all of it, both processes end.
Finishes == <>(parent \in Ended)

\* Whichever process ends first, the other one ends, too.
SurvivorEnds == QuitFreesParent /\ OrphanEnds
=============================================================================
