----------------------------- MODULE AdvancedIo ------------------------------
(***************************************************************************)
(* The programs of chapter 14 that do not block in read and write: the     *)
(* three of 14-21_aio_read, which learn that an asynchronous read is over  *)
(* from aio_suspend ("poll"), from a signal and from a callback in another *)
(* thread, 14-21_lio_listio ("list", a read and a write at a time) and     *)
(* 14-01_O_NONBLOCK ("copy").  The variable prog says which one runs.      *)
(*                                                                         *)
(* The C library's helper threads, the reader behind standard output and   *)
(* the commands that system runs are external code.  A request may be      *)
(* refused, and one that is accepted may end with an error; its            *)
(* notification comes in both cases.                                       *)
(***************************************************************************)
EXTENDS Integers, Sequences

CONSTANTS
    Blocks,     \* blocks that "copy" reads at most
    Cap         \* blocks that the pipe behind standard output holds

ASSUME SizesAssumption == Blocks \in Nat /\ Cap \in Nat \ {0}

VARIABLES
    prog,       \* the program
    at,         \* the number of main's next call
    req,        \* req[r]: "none", "queued", "good", "bad" or "refused"
    taken,      \* taken[r]: how often aio_return was called for r
    slot,       \* slot[c]: next step of the notification c, "idle" if there is none
    handled,    \* the handler of NOTIFY_SIGNAL is set
    flag,       \* return_flag
    freed,      \* requests whose buffer was given back
    late,       \* history: a request of "list" was not over after sleep(1)
    file,       \* temp.out exists
    shown,      \* what cat has shown of it
    fl,         \* status flags of standard output
    before,     \* those that it had at first
    size,       \* blocks that "copy" has read
    rest,       \* read_size: those that it has still to write
    out,        \* the blocks that were written
    drained,    \* how many the reader has read
    reader,     \* it "reads", is "stalled" for good or is "gone"
    sigpipe,    \* SIGPIPE is not ignored
    ended       \* "no", "exit" or "killed"

aio == <<req, taken, slot, handled, flag, freed, late>>
temp == <<file, shown>>
stdout == <<fl, size, rest, out>>
outside == <<drained, reader>>
frozen == <<prog, before, sigpipe>>
vars == <<frozen, at, aio, temp, stdout, outside, ended>>

Requests == IF prog = "list" THEN {"rd", "wr"} ELSE IF prog = "copy" THEN {} ELSE {"rd"}
Over == {r \in Requests : req[r] \in {"good", "bad"}}

PollMain == <<"submit", "suspend", "use", "return", "use", "free_rd", "exit">>

SignalMain == <<"handle", "submit", "poll", "use", "free_rd", "exit">>

ThreadMain == <<"submit", "poll", "use", "free_rd", "exit">>

ListMain == <<"open", "submit", "suspend", "sleep", "use", "free_rd", "free_wr", "system", "exit">>

CopyMain == <<"read", "set_fl", "write", "clr_fl", "exit">>

Texts == [poll |-> PollMain, signal |-> SignalMain, thread |-> ThreadMain, list |-> ListMain, copy |-> CopyMain]

Init ==
    /\ prog \in DOMAIN Texts
    /\ at = 1 /\ ended = "no"
    /\ req = [r \in Requests |-> "none"] /\ taken = [r \in Requests |-> 0]
    /\ slot = [c \in Requests \cup {"all"} |-> "idle"]
    /\ handled = FALSE /\ flag = FALSE /\ freed = {} /\ late = FALSE
    /\ file = FALSE /\ shown = "no"
    /\ before \in IF prog = "copy" THEN SUBSET {"append", "nonblock"} ELSE {{}}
    /\ fl = before
    /\ size = 0 /\ rest = 0 /\ out = <<>> /\ drained = 0 /\ reader = "reads"
    /\ sigpipe \in IF prog = "copy" THEN BOOLEAN ELSE {TRUE}
-----------------------------------------------------------------------------
\* The helper threads of the library.

\* Notifications of r's end; the one of the list when nothing is queued.
Due(rs, r) ==
    [c \in DOMAIN slot |->
        IF (c = r /\ prog # "poll") \/ (c = "all" /\ prog = "list" /\ "queued" \notin {rs[x] : x \in Requests})
        THEN "begin" ELSE slot[c]]

Complete(r) ==
    /\ ended = "no" /\ req[r] = "queued"
    /\ \E result \in {"good", "bad"} :
          /\ result = "bad" \/ ~(prog = "list" /\ r = "wr" /\ ~file)
          /\ req' = [req EXCEPT ![r] = result]
    /\ slot' = Due(req', r)
    /\ UNCHANGED <<frozen, at, taken, handled, flag, freed, late, temp, stdout, outside, ended>>
-----------------------------------------------------------------------------
\* aio_slot, in a thread of its own or as a signal handler on main's stack.

Slot(c, from, to) ==
    /\ ended = "no" /\ slot[c] = from /\ slot' = [slot EXCEPT ![c] = to]
    /\ UNCHANGED <<frozen, at, req, handled, freed, late, temp, stdout, outside>>

\* A real-time signal without a handler ends the process.
SlotBegin(c) ==
    /\ Slot(c, "begin", "test") /\ UNCHANGED <<taken, flag>>
    /\ ended' = IF prog = "signal" /\ ~handled THEN "killed" ELSE ended

SetsFlag == prog \in {"signal", "thread"}

\* Mutant of SlotTest: the flag is set first.
SlotTestFlags(c) ==
    /\ Slot(c, "test", IF SetsFlag THEN "flag" ELSE "over")
    /\ flag' = SetsFlag /\ UNCHANGED <<taken, ended>>

\* aio_error and aio_return; the notification of the list has no request.
SlotTest(c) ==
    /\ Slot(c, "test", IF SetsFlag THEN "flag" ELSE "over")
    /\ IF c # "all" /\ req[c] = "good" THEN taken' = [taken EXCEPT ![c] = @ + 1] ELSE UNCHANGED taken
    /\ UNCHANGED <<flag, ended>>

\* Mutant of SlotFlag: only when the read was good.
SlotFlagGood(c) == Slot(c, "flag", "over") /\ flag' = (req[c] = "good") /\ UNCHANGED <<taken, ended>>

SlotFlag(c) == Slot(c, "flag", "over") /\ flag' = TRUE /\ UNCHANGED <<taken, ended>>

Slots == \E c \in Requests \cup {"all"} : SlotBegin(c) \/ SlotTest(c) \/ SlotFlag(c)
-----------------------------------------------------------------------------
\* main.

\* main is to make a call; it does not run while a handler does.
Calls(call) ==
    /\ ended = "no" /\ Texts[prog][at] = call
    /\ ~(prog = "signal" /\ slot["rd"] \in {"test", "flag"})
    /\ UNCHANGED <<frozen, outside>>

Done == at' = at + 1 /\ UNCHANGED ended

Handle ==
    /\ Calls("handle") /\ Done /\ handled' = TRUE
    /\ UNCHANGED <<req, taken, slot, flag, freed, late, temp, stdout>>

\* The write end of "list" may not open.
Open ==
    /\ Calls("open") /\ Done /\ file' \in BOOLEAN
    /\ UNCHANGED <<aio, shown, stdout>>

\* aio_read and lio_listio: what they return is printed at most.
Submit ==
    /\ Calls("submit") /\ Done
    /\ \E accepted \in SUBSET Requests :
          req' = [r \in Requests |-> IF r \in accepted THEN "queued" ELSE "refused"]
    /\ slot' = Due(req', "none")
    /\ UNCHANGED <<taken, handled, flag, freed, late, temp, stdout>>

\* Mutant of Suspend: it has a timeout.
SuspendGivesUp == Calls("suspend") /\ Done /\ UNCHANGED <<aio, temp, stdout>>

\* aio_suspend returns when one request of the list is not in progress.
Suspend ==
    /\ Calls("suspend") /\ Done
    /\ \E r \in Requests : req[r] # "queued"
    /\ UNCHANGED <<aio, temp, stdout>>

Return ==
    /\ Calls("return") /\ Done /\ taken' = [taken EXCEPT !["rd"] = @ + 1]
    /\ UNCHANGED <<req, slot, handled, flag, freed, late, temp, stdout>>

\* The test of return_flag; while it is 0 main sleeps and tests it again.
Poll == Calls("poll") /\ flag /\ Done /\ UNCHANGED <<aio, temp, stdout>>

Use == Calls("use") /\ Done /\ UNCHANGED <<aio, temp, stdout>>

Sleep ==
    /\ Calls("sleep") /\ Done /\ late' = \E r \in Requests : req[r] = "queued"
    /\ UNCHANGED <<req, taken, slot, handled, flag, freed, temp, stdout>>

\* main frees each buffer by a call of its own.
Free(r, call) ==
    /\ Calls(call) /\ Done /\ freed' = freed \cup {r}
    /\ UNCHANGED <<req, taken, slot, handled, flag, late, temp, stdout>>

\* What cat finds.
Content ==
    IF ~file THEN "nothing" ELSE IF req["wr"] = "good" THEN "whole"
    ELSE IF req["wr"] = "refused" THEN "empty" ELSE "part"

\* system("rm ./temp.out|cat ./temp.out"): the two commands run side by side.
Pipeline ==
    /\ Calls("system")
    /\ UNCHANGED <<aio, stdout, ended>>
    /\ \/ shown = "no" /\ shown' = Content /\ UNCHANGED <<at, file>>
       \/ file /\ file' = FALSE /\ UNCHANGED <<at, shown>>
       \/ ~file /\ shown # "no" /\ at' = at + 1 /\ UNCHANGED temp

Exit == Calls("exit") /\ ended' = "exit" /\ UNCHANGED <<at, aio, temp, stdout>>
-----------------------------------------------------------------------------
\* "copy", and who reads what it writes.

\* read may fail, and may return less than there is.
Read ==
    /\ Calls("read") /\ Done /\ size' \in 0..Blocks /\ rest' = size'
    /\ UNCHANGED <<aio, temp, fl, out>>

\* fcntl(F_GETFL), then F_SETFL, of a standard output that is open: they succeed.
SetFl ==
    /\ Calls("set_fl") /\ Done /\ fl' = fl \cup {"nonblock"}
    /\ UNCHANGED <<aio, temp, size, rest, out>>

ClrFl ==
    /\ Calls("clr_fl") /\ Done /\ fl' = fl \ {"nonblock"}
    /\ UNCHANGED <<aio, temp, size, rest, out>>

Room == Cap - (Len(out) - drained)

\* Mutant of Write: ptr stays where it is.
WriteAgain ==
    /\ Calls("write") /\ UNCHANGED <<aio, temp, fl, size>>
    /\ \/ rest = 0 /\ Done /\ UNCHANGED <<rest, out>>
       \/ \E n \in 1..rest : /\ n <= Room /\ rest' = rest - n
                             /\ out' = out \o [i \in 1..n |-> i]
                             /\ UNCHANGED <<at, ended>>

\* The loop: it writes the rest, as much of it as there is room for.  An error
\* (EAGAIN, or EPIPE if SIGPIPE is ignored) leaves everything as it is and the
\* loop goes on.
Write ==
    /\ Calls("write") /\ UNCHANGED <<aio, temp, fl, size>>
    /\ \/ rest = 0 /\ Done /\ UNCHANGED <<rest, out>>
       \/ /\ reader # "gone"
          /\ \E n \in 1..rest : /\ n <= Room /\ rest' = rest - n
                                /\ out' = out \o [i \in 1..n |-> size - rest + i]
          /\ UNCHANGED <<at, ended>>
       \/ rest > 0 /\ reader = "gone" /\ sigpipe /\ ended' = "killed" /\ UNCHANGED <<at, rest, out>>

Drain ==
    /\ reader = "reads" /\ drained < Len(out) /\ drained' = drained + 1
    /\ UNCHANGED <<frozen, at, aio, temp, stdout, reader, ended>>

\* The reader stops to read, or ends.
Leave ==
    /\ prog = "copy" /\ ended = "no" /\ reader = "reads" /\ reader' \in {"stalled", "gone"}
    /\ UNCHANGED <<frozen, at, aio, temp, stdout, drained, ended>>
-----------------------------------------------------------------------------
Main ==
    \/ Handle \/ Open \/ Submit \/ Suspend \/ Return \/ Poll \/ Use \/ Sleep \/ Pipeline \/ Exit
    \/ Free("rd", "free_rd") \/ Free("wr", "free_wr")
    \/ Read \/ SetFl \/ ClrFl \/ Write

Io == \E r \in Requests : Complete(r)

\* The process has ended, or loops.
Rest ==
    /\ ended # "no" \/ Texts[prog][at] \in {"poll", "write"}
    /\ UNCHANGED vars

Next == Main \/ Slots \/ Io \/ Drain \/ Leave \/ Rest

Spec == Init /\ [][Next]_vars

\* Every thread runs, requests come to an end, and a reader that reads goes on.
FairSpec == Spec /\ WF_vars(Main) /\ WF_vars(Slots) /\ WF_vars(Io) /\ WF_vars(Drain)
-----------------------------------------------------------------------------
\* No result is taken twice: aio_return after that is undefined.
TypeOK ==
    /\ prog \in DOMAIN Texts /\ at \in 1..Len(Texts[prog])
    /\ req \in [Requests -> {"none", "queued", "good", "bad", "refused"}]
    /\ taken \in [Requests -> 0..1]
    /\ slot \in [Requests \cup {"all"} -> {"idle", "begin", "test", "flag", "over"}]
    /\ handled \in BOOLEAN /\ flag \in BOOLEAN /\ late \in BOOLEAN /\ file \in BOOLEAN
    /\ freed \subseteq Requests /\ shown \in {"no", "nothing", "empty", "part", "whole"}
    /\ fl \subseteq {"append", "nonblock"} /\ before \subseteq {"append", "nonblock"}
    /\ size \in 0..Blocks /\ rest \in 0..size /\ out \in Seq(1..Blocks)
    /\ drained \in 0..Len(out) /\ Room >= 0
    /\ reader \in {"reads", "stalled", "gone"} /\ sigpipe \in BOOLEAN /\ ended \in {"no", "exit", "killed"}

Result == INSTANCE Handover WITH
    given <- {r \in Requests : req[r] \notin {"none", "queued"}},
    taken <- {r \in Requests : taken[r] > 0}

\* A result is taken only from a request that is over, or that was refused and
\* has nothing to be waited for: aio_suspend, aio_error and the notification
\* say so first.
TakenWhenOver == Result!Spec

\* When main goes behind its loop (signal_notify l.85, thread_callback l.87) the
\* read is over and its result has been taken, if it has one.
ResultBeforeUse ==
    SetsFlag /\ Texts[prog][at] \in {"use", "free_rd", "exit"} =>
        req["rd"] = "bad" \/ (req["rd"] = "good" /\ taken["rd"] = 1)

\* No buffer is given back that the library still fills or writes, except when
\* a request of lio_listio takes longer than the sleep that follows
\* aio_suspend (lio_listio l.109-124).
BufferInUse == \A r \in freed : req[r] = "queued" => late

\* Nothing ends the programs but SIGPIPE; the signal of the notification finds
\* its handler (signal_notify l.76-79).
KilledByPipe == ended = "killed" => prog = "copy" /\ sigpipe /\ reader = "gone"

\* temp.out is gone at the end, and cat shows no part of it unless the write
\* was late or has failed (lio_listio l.126).
OutputWhole ==
    prog = "list" /\ ended = "exit" =>
        ~file /\ (shown = "part" => late \/ req["wr"] = "bad")

\* What the reader gets is a prefix of what was read, whatever the pipe took at
\* a time, and everything if the program comes to its end (14-01 l.62-73).
InOrder ==
    /\ out = [i \in 1..Len(out) |-> i]
    /\ prog = "copy" /\ ended = "exit" => Len(out) = size

\* The status flags are shared with the shell: at the end O_NONBLOCK is off and
\* the others are as they were (14-01 l.32-45, l.74).
FlagsKept == prog = "copy" /\ ended = "exit" => fl = before \ {"nonblock"}

\* Programs end unless their request is refused (the flag is then never set), or
\* the reader stalls or is gone without a signal that says so.
Finishes ==
    <>(\/ ended # "no"
       \/ (SetsFlag /\ req["rd"] = "refused")
       \/ (prog = "copy" /\ (reader = "stalled" \/ (reader = "gone" /\ ~sigpipe))))

\* Whenever a request ends, main finds its result, its buffer and its handler.
Safety == TypeOK /\ ResultBeforeUse /\ BufferInUse /\ KilledByPipe

\* What reaches the output of the programs that write.
Written == OutputWhole /\ InOrder /\ FlagsKept
=============================================================================
