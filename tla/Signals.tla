------------------------------- MODULE Signals -------------------------------
(***************************************************************************)
(* The programs about signals: 10-02_signal, 10-15_sigprocmask,            *)
(* 10-20_siglongjmp, 10-22_sigsuspend, 10-30_sigqueue and                  *)
(* 12-16_pthread_sigmask.  The variable prog says which one runs.  main    *)
(* and the handlers are sequences of calls; a handler that runs is a frame *)
(* on a stack, and may be interrupted itself.                              *)
(*                                                                         *)
(* The kernel is external code.  A signal that is sent stays pending while *)
(* it is blocked, once for a standard signal and as often as it was queued *)
(* for a real-time one; otherwise it is delivered before the process does  *)
(* anything else.  The signal is blocked while its handler runs, and the   *)
(* mask from before is restored when the handler returns.                  *)
(***************************************************************************)
EXTENDS Integers, Sequences

CONSTANT
    Sends       \* signals that a user or another process sends

ASSUME SendsAssumption == Sends \in Nat

VARIABLES
    prog,       \* the program
    background, \* it was started with SIGINT and SIGQUIT ignored
    at,         \* the number of main's next call
    frames,     \* the handlers that run: signal, next call, mask to restore
    mask,       \* the signals that main has blocked
    suspended,  \* it is inside of sigsuspend, with another mask
    pending,    \* the pending signals of the process: <<signal, value>>
    disp,       \* disposition of each signal: "default", "ignore", "handle"
    old,        \* what the last signal(.., SIG_IGN) has returned
    canjump,    \* as in 10-20: the jump buffer may be used
    armed,      \* the alarm of 10-20 is set
    log,        \* values with which the handler of the queued signal was called
    thread,     \* 12-16: the next step of the signal thread, or "none" or "failed"
    directed,   \* 12-16: the signal that is pending for the thread alone, or "none"
    flag,       \* 12-16: quit_flag.value
    asleep,     \* 12-16: main waits for the condition variable
    ended,      \* "no", "exit", "undefined", or the signal that has ended the process
    left        \* signals that may still be sent

proc == <<prog, background>>
cond == <<thread, directed, flag, asleep>>
jump == <<canjump, armed>>
vars == <<proc, at, frames, mask, suspended, pending, disp, old, jump, log, cond, ended, left>>

Sigs == {"USR1", "USR2", "TERM", "INT", "QUIT", "ALRM", "RT"}

SignalMain ==
    << <<"handle", "USR1">>, <<"handle", "USR2">>, <<"handle", "TERM">>,
       <<"ignore", "INT">>, <<"unignore", "INT">>, <<"ignore", "QUIT">>, <<"unignore", "QUIT">>,
       <<"pause">> >>

MaskMain == << <<"handle", "QUIT">>, <<"block">>, <<"sleep">>, <<"sigpending">>, <<"restore">>, <<"sleep">>, <<"exit">> >>

\* Mutant of JumpMain: canjump is set before the jump buffer.
JumpMainEarly == << <<"handle", "USR1">>, <<"handle", "ALRM">>, <<"canjump">>, <<"sigsetjmp">>, <<"pause">>, <<"exit">> >>

JumpMain == << <<"handle", "USR1">>, <<"handle", "ALRM">>, <<"sigsetjmp">>, <<"canjump">>, <<"pause">>, <<"exit">> >>

\* Mutant of SuspendMain: the signal is let in before the process waits for it.
SuspendMainOpens == << <<"handle", "INT">>, <<"block">>, <<"critical">>, <<"restore">>, <<"suspend">>, <<"exit">> >>

SuspendMain == << <<"handle", "INT">>, <<"block">>, <<"critical">>, <<"suspend">>, <<"restore">>, <<"exit">> >>

QueueMain ==
    << <<"handle", "QUIT">>, <<"handle", "RT">>, <<"block">>,
       <<"queue", "QUIT">>, <<"queue", "QUIT">>, <<"queue", "QUIT">>,
       <<"queue", "RT">>, <<"queue", "RT">>, <<"queue", "RT">>, <<"restore">>, <<"exit">> >>

WaitMain == << <<"block">>, <<"create">>, <<"queue", "INT">>, <<"pthread_kill">>, <<"wait">>, <<"restore">>, <<"exit">> >>

Texts == [signal |-> SignalMain, mask |-> MaskMain, jump |-> JumpMain,
          suspend |-> SuspendMain, queue |-> QueueMain, sigwait |-> WaitMain]

Blocks == [signal |-> {}, mask |-> {"QUIT"}, jump |-> {}, suspend |-> {"INT"},
           queue |-> {"QUIT", "RT"}, sigwait |-> {"INT", "QUIT"}]

\* What others send.
Sent == [signal |-> {"USR1", "USR2", "TERM", "INT", "QUIT"}, mask |-> {"QUIT"}, jump |-> {"USR1"},
         suspend |-> {"INT", "USR1"}, queue |-> {"QUIT"}, sigwait |-> {"INT", "QUIT"}]

UsrHandler == <<"check", "alarm", "reset", "jump">>
MaskHandler == <<"default", "return">>
SignalHandler(sig) == IF sig \in {"TERM", "INT", "QUIT"} THEN <<"exit">> ELSE <<"return">>

Handler(sig) ==
    IF prog = "jump" /\ sig = "USR1" THEN UsrHandler
    ELSE IF prog = "mask" THEN MaskHandler
    ELSE IF prog = "signal" THEN SignalHandler(sig)
    ELSE <<"return">>

Text == Texts[prog]
Pos(call) == CHOOSE i \in 1..Len(Text) : Text[i][1] = call
Passed(call) == \E i \in 1..(at - 1) : Text[i][1] = call

Init ==
    /\ prog \in DOMAIN Texts /\ background \in BOOLEAN
    /\ at = 1 /\ frames = <<>> /\ mask = {} /\ suspended = FALSE /\ pending = <<>>
    /\ disp = [s \in Sigs |-> IF background /\ s \in {"INT", "QUIT"} THEN "ignore" ELSE "default"]
    /\ old = "default" /\ canjump = FALSE /\ armed = FALSE /\ log = <<>>
    /\ thread = "none" /\ directed = "none" /\ flag = FALSE /\ asleep = FALSE
    /\ ended = "no" /\ left = Sends
-----------------------------------------------------------------------------
\* The kernel.

IsPending(sig) == \E i \in 1..Len(pending) : pending[i][1] = sig

\* pending with one more signal: a standard signal is pending once, and an
\* ignored one that is not blocked is dropped.
Queued(sig, val) ==
    IF (sig # "RT" /\ IsPending(sig)) \/ (disp[sig] = "ignore" /\ sig \notin mask)
    THEN pending ELSE Append(pending, <<sig, val>>)

First(sig) == CHOOSE i \in 1..Len(pending) : /\ pending[i][1] = sig
                                             /\ \A j \in 1..(i - 1) : pending[j][1] # sig
Without(i) == SubSeq(pending, 1, i - 1) \o SubSeq(pending, i + 1, Len(pending))

\* sigsuspend waits with SIGUSR1 blocked and nothing else.
Blocked == IF suspended THEN {"USR1"} ELSE mask
Deliverable == {s \in Sigs \ Blocked : IsPending(s)}

Send(sig) ==
    /\ ended = "no" /\ left > 0 /\ sig \in Sent[prog]
    /\ left' = left - 1 /\ pending' = Queued(sig, 0)
    /\ UNCHANGED <<proc, at, frames, mask, suspended, disp, old, jump, log, cond, ended>>

\* A handler that is called out of sigsuspend returns behind it, with the mask
\* of before.
Deliver(sig) ==
    /\ ended = "no" /\ sig \in Deliverable
    /\ pending' = Without(First(sig))
    /\ \/ /\ disp[sig] = "default" /\ ended' = sig
          /\ UNCHANGED <<at, frames, mask, suspended, log>>
       \/ /\ disp[sig] = "ignore"
          /\ UNCHANGED <<at, frames, mask, suspended, log, ended>>
       \/ /\ disp[sig] = "handle" /\ UNCHANGED ended
          /\ frames' = Append(frames, [sig |-> sig, at |-> 1, saved |-> mask])
          /\ mask' = Blocked \cup {sig}
          /\ suspended' = FALSE
          /\ at' = IF suspended THEN at + 1 ELSE at
          /\ log' = IF sig = "RT" THEN Append(log, pending[First(sig)][2]) ELSE log
    /\ UNCHANGED <<proc, disp, old, jump, cond, left>>

Ring ==
    /\ ended = "no" /\ armed /\ armed' = FALSE
    /\ pending' = Queued("ALRM", 0)
    /\ UNCHANGED <<proc, at, frames, mask, suspended, disp, old, canjump, log, cond, ended, left>>
-----------------------------------------------------------------------------
\* main.

\* main is to make a call, after all signals that it has not blocked.
Calls(call) ==
    /\ ended = "no" /\ frames = <<>> /\ ~suspended /\ ~asleep
    /\ Text[at][1] = call /\ Deliverable = {}
    /\ UNCHANGED <<proc, left>>

\* signal and sigaction.
Handle ==
    /\ Calls("handle") /\ at' = at + 1
    /\ disp' = [disp EXCEPT ![Text[at][2]] = "handle"]
    /\ UNCHANGED <<frames, mask, suspended, pending, old, jump, log, cond, ended>>

\* signal(sig, SIG_IGN) returns what was set before.
Ignore ==
    /\ Calls("ignore") /\ at' = at + 1
    /\ old' = disp[Text[at][2]]
    /\ disp' = [disp EXCEPT ![Text[at][2]] = "ignore"]
    /\ UNCHANGED <<frames, mask, suspended, pending, jump, log, cond, ended>>

\* The handler is set unless the signal was ignored from the start.
Unignore ==
    /\ Calls("unignore") /\ at' = at + 1
    /\ disp' = [disp EXCEPT ![Text[at][2]] = IF old = "ignore" THEN @ ELSE "handle"]
    /\ UNCHANGED <<frames, mask, suspended, pending, old, jump, log, cond, ended>>

Block ==
    /\ Calls("block") /\ at' = at + 1 /\ mask' = Blocks[prog]
    /\ UNCHANGED <<frames, suspended, pending, disp, old, jump, log, cond, ended>>

\* SIG_SETMASK with the mask from before the block.
Restore ==
    /\ Calls("restore") /\ at' = at + 1 /\ mask' = {}
    /\ UNCHANGED <<frames, suspended, pending, disp, old, jump, log, cond, ended>>

\* Calls that change nothing here, while signals may come; the jump buffer is
\* set from sigsetjmp on.
Busy ==
    /\ Calls("sleep") \/ Calls("sigpending") \/ Calls("critical") \/ Calls("sigsetjmp")
    /\ at' = at + 1
    /\ UNCHANGED <<frames, mask, suspended, pending, disp, old, jump, log, cond, ended>>

CanJump ==
    /\ Calls("canjump") /\ at' = at + 1 /\ canjump' = TRUE
    /\ UNCHANGED <<frames, mask, suspended, pending, disp, old, armed, log, cond, ended>>

Suspend ==
    /\ Calls("suspend") /\ suspended' = TRUE
    /\ UNCHANGED <<at, frames, mask, pending, disp, old, jump, log, cond, ended>>

\* sigqueue, or kill, to the own process; the value is the number of the call.
Queue ==
    /\ Calls("queue") /\ at' = at + 1 /\ pending' = Queued(Text[at][2], at)
    /\ UNCHANGED <<frames, mask, suspended, disp, old, jump, log, cond, ended>>

Exit ==
    /\ Calls("exit") /\ ended' = "exit"
    /\ UNCHANGED <<at, frames, mask, suspended, pending, disp, old, jump, log, cond>>
-----------------------------------------------------------------------------
\* Handlers.

Top == frames[Len(frames)]

\* The handler that is on top of the stack makes a call.
Handles(call) ==
    /\ ended = "no" /\ frames # <<>> /\ Deliverable = {}
    /\ Handler(Top.sig)[Top.at] = call
    /\ UNCHANGED <<proc, pending, old, log, cond, left>>

Advance == frames' = [frames EXCEPT ![Len(frames)].at = @ + 1]
Pop == frames' = SubSeq(frames, 1, Len(frames) - 1) /\ mask' = Top.saved

Return ==
    /\ \/ Handles("return")
       \/ Handles("check") /\ ~canjump
    /\ Pop /\ UNCHANGED <<at, suspended, disp, jump, ended>>

\* What the handler of SIGUSR1 does before it jumps, and that of 10-15.
Proceed ==
    /\ frames # <<>> /\ Advance /\ UNCHANGED <<at, mask, suspended, ended>>
    /\ \/ Handles("check") /\ canjump /\ UNCHANGED <<jump, disp>>
       \/ Handles("alarm") /\ armed' = TRUE /\ UNCHANGED <<canjump, disp>>
       \/ Handles("reset") /\ canjump' = FALSE /\ UNCHANGED <<armed, disp>>
       \/ Handles("default") /\ disp' = [disp EXCEPT !["QUIT"] = "default"] /\ UNCHANGED jump

\* siglongjmp drops all handlers and restores the mask that sigsetjmp saved.
Jump ==
    /\ Handles("jump") /\ frames' = <<>> /\ mask' = {}
    /\ at' = Pos("exit")
    /\ UNCHANGED <<suspended, disp, jump, ended>>

HandlerExit ==
    /\ Handles("exit") /\ ended' = "exit"
    /\ UNCHANGED <<at, frames, mask, suspended, disp, jump>>
-----------------------------------------------------------------------------
\* The signal thread of 12-16, and main's wait for it.

kernel == <<frames, mask, suspended, disp, old, jump, log>>

\* The result of pthread_create is not looked at.
Create ==
    /\ Calls("create") /\ at' = at + 1 /\ thread' \in {"copy", "failed"}
    /\ UNCHANGED <<kernel, pending, directed, flag, asleep, ended>>

\* Without the thread tid1 is not set: main does not survive that, or goes on.
PthreadKill ==
    /\ Calls("pthread_kill") /\ UNCHANGED <<kernel, pending, thread, flag, asleep>>
    /\ \/ thread # "failed" /\ directed' = "INT" /\ at' = at + 1 /\ UNCHANGED ended
       \/ thread = "failed" /\ at' = at + 1 /\ UNCHANGED <<directed, ended>>
       \/ thread = "failed" /\ ended' = "undefined" /\ UNCHANGED <<directed, at>>

\* The flag is tested under the mutex, which pthread_cond_wait gives up.
WaitFlag ==
    /\ Calls("wait") /\ UNCHANGED <<kernel, pending, thread, directed, ended>>
    /\ \/ ~flag /\ asleep' = TRUE /\ UNCHANGED <<at, flag>>
       \/ flag /\ flag' = FALSE /\ at' = at + 1 /\ UNCHANGED asleep

\* pthread_cond_signal by the thread, or a spurious wakeup.
Wakeup ==
    /\ ended = "no" /\ asleep /\ asleep' = FALSE
    /\ UNCHANGED <<proc, at, kernel, pending, thread, directed, flag, ended, left>>

Thread(from, to) == ended = "no" /\ thread = from /\ thread' = to /\ UNCHANGED <<proc, at, kernel, ended, left>>

\* *arg is a variable of main's.
CopyMask == Thread("copy", "sigwait") /\ UNCHANGED <<pending, directed, flag, asleep>>

Sigwait ==
    \/ /\ directed # "none" /\ directed' = "none"
       /\ Thread("sigwait", "sigwait") /\ UNCHANGED <<pending, flag, asleep>>
    \/ \E sig \in Blocks.sigwait :
          /\ IsPending(sig) /\ pending' = Without(First(sig))
          /\ Thread("sigwait", IF sig = "QUIT" THEN "set" ELSE "sigwait")
          /\ UNCHANGED <<directed, flag, asleep>>

SetFlag == Thread("set", "signal") /\ flag' = TRUE /\ UNCHANGED <<pending, directed, asleep>>

CondSignal == Thread("signal", "sigwait") /\ asleep' = FALSE /\ UNCHANGED <<pending, directed, flag>>
-----------------------------------------------------------------------------
Main ==
    \/ Handle \/ Ignore \/ Unignore \/ Block \/ Restore \/ Busy \/ CanJump \/ Suspend \/ Queue \/ Exit
    \/ Create \/ PthreadKill \/ WaitFlag
    \/ Return \/ Proceed \/ Jump \/ HandlerExit
    \/ \E sig \in Sigs : Deliver(sig)

SignalThread == CopyMask \/ Sigwait \/ SetFlag \/ CondSignal

\* The process has ended, or waits for signals that need not come.
Rest ==
    /\ ended # "no" \/ (frames = <<>> /\ Deliverable = {} /\ (suspended \/ asleep \/ Text[at][1] = "pause"))
    /\ UNCHANGED vars

Next == Main \/ SignalThread \/ (\E sig \in Sigs : Send(sig)) \/ Ring \/ Wakeup \/ Rest

Spec == Init /\ [][Next]_vars

\* main, its handlers and the thread run; nobody has to send a signal.
FairSpec == Spec /\ WF_vars(Main) /\ WF_vars(SignalThread)
-----------------------------------------------------------------------------
\* Standard signals are pending at most once.
TypeOK ==
    /\ prog \in DOMAIN Texts /\ background \in BOOLEAN
    /\ at \in 1..Len(Text)
    /\ \A i \in 1..Len(frames) : frames[i].sig \in Sigs /\ frames[i].at \in 1..Len(Handler(frames[i].sig))
    /\ mask \subseteq Sigs /\ suspended \in BOOLEAN
    /\ \A i \in 1..Len(pending) :
          pending[i][1] \in Sigs /\ (pending[i][1] # "RT" => \A j \in 1..(i - 1) : pending[j][1] # pending[i][1])
    /\ disp \in [Sigs -> {"default", "ignore", "handle"}] /\ old \in {"default", "ignore", "handle"}
    /\ canjump \in BOOLEAN /\ armed \in BOOLEAN
    /\ thread \in {"none", "failed", "copy", "sigwait", "set", "signal"} /\ directed \in {"none", "INT"}
    /\ flag \in BOOLEAN /\ asleep \in BOOLEAN
    /\ ended \in Sigs \cup {"no", "exit", "undefined"} /\ left \in 0..Sends

\* Between its block and its sigsuspend, restore or wait (10-15 l.54-63, 10-22
\* l.54-74, 12-16 l.97-112) a process is neither interrupted nor ended by the
\* signals that it has blocked.
QuietSection ==
    prog \in {"mask", "suspend", "sigwait"} /\ Passed("block") /\ ~Passed("restore") /\ ~Passed("suspend")
        => frames = <<>> /\ ended \notin Blocks[prog]

\* A handler jumps only into a buffer that is set and only once (10-20 l.78-84,
\* l.58), and the signals that were blocked while it ran are let in again.
JumpsOnce ==
    prog = "jump" =>
        /\ \A i \in 1..Len(frames) : UsrHandler[frames[i].at] = "jump" => Passed("sigsetjmp")
        /\ Text[at][1] = "exit" => ~canjump /\ (frames = <<>> => mask = {})

\* A program that is started in the background does not take part in the
\* terminal's signals (10-02 l.54-57, l.63).
BackgroundSurvives == prog = "signal" /\ background => ended \notin {"INT", "QUIT"} /\ disp["INT"] = "ignore"

\* No real-time signal is lost or overtaken while it is blocked (10-30 l.62):
\* when the process ends, its handler has run for each, in the order of the calls.
QueuedInOrder ==
    prog = "queue" /\ ended = "exit" =>
        /\ {log[k] : k \in 1..Len(log)} = {i \in 1..Len(Text) : Text[i] = <<"queue", "RT">>}
        /\ \A j, k \in 1..Len(log) : j < k => log[j] < log[k]

\* The mask that the thread copies is on main's stack (12-16 l.37, l.98), which
\* main does not leave before the thread has got it.
StackInUse == thread = "copy" => ended \in {"no"} \cup Sigs

\* An interrupt that comes while it is blocked is not lost between the end of
\* the critical region and the wait for it (10-22 l.61-74): the process goes on.
InterruptWakes == (prog = "suspend" /\ Passed("block") /\ IsPending("INT")) ~> ended # "no"

\* SIGQUIT ends the program of 12-16, whether main waits already or not, if there
\* is a thread to take it.
QuitEnds == (prog = "sigwait" /\ Passed("create") /\ thread # "failed" /\ IsPending("QUIT")) ~> ended # "no"

\* Whenever a signal comes, it finds what its handler needs, and it is kept when
\* it is blocked.
Safety == TypeOK /\ QuietSection /\ JumpsOnce /\ BackgroundSurvives /\ QueuedInOrder /\ StackInUse

\* A signal that ends a wait is not lost, before the wait or in it.
NoneLost == InterruptWakes /\ QuitEnds
=============================================================================
