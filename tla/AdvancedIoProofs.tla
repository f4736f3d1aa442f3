-------------------------- MODULE AdvancedIoProofs ---------------------------
(***************************************************************************)
(* For any number of blocks and any pipe: no result is taken twice or      *)
(* before its request is over, no buffer is given back too early but for   *)
(* the late request of lio_listio, and whatever the pipe takes at a time   *)
(* the output is what was read, in order.                                  *)
(***************************************************************************)
EXTENDS AdvancedIo, SequenceTheorems, TLAPS

\* How far main is when its requests are made.
SubmitAt == IF prog \in {"signal", "list"} THEN 2 ELSE 1

\* main is behind the calls by which it learns that its requests are over.
Behind ==
    \/ prog \in {"poll", "thread"} /\ at > 2
    \/ prog = "signal" /\ at > 3
    \/ prog = "list" /\ at > 4

\* A request is made by main's own call, and the handler is set before it.
Requested ==
    /\ \A r \in Requests : req[r] = "none" <=> at <= SubmitAt
    /\ prog = "signal" /\ at > 1 => handled

\* Only a request that is over sends its notification, and only the programs
\* with a flag set it, when the notification is through.
Notified ==
    /\ \A r \in Requests : slot[r] # "idle" => req[r] \in {"good", "bad"} /\ prog # "poll"
    /\ slot["all"] # "idle" => prog = "list"
    /\ \A c \in Requests \cup {"all"} : slot[c] = "flag" => SetsFlag
    /\ flag => SetsFlag /\ slot["rd"] = "over"

\* The result of r has been taken: by main itself, or behind the notification's
\* own test.
Got(r) ==
    IF prog = "poll" THEN at > 4 ELSE req[r] = "good" /\ slot[r] \in {"flag", "over"}

Counted == \A r \in Requests : taken[r] = IF Got(r) THEN 1 ELSE 0

\* Buffers are given back behind what main waits for.
Learnt ==
    /\ Behind => (SetsFlag => flag) /\ \A r \in Requests : req[r] = "queued" => late
    /\ freed # {} => Behind
    /\ late => prog = "list"

\* What the two commands at the end of "list" leave behind.
Commands ==
    prog = "list" =>
        /\ at < 8 => shown = "no"
        /\ at > 8 => ~file
        /\ shown = "part" => late \/ req["wr"] = "bad"

\* What "copy" has read is written, or is the rest.
Copied ==
    /\ out = [i \in 1..Len(out) |-> i]
    /\ rest + Len(out) = size
    /\ prog = "copy" /\ at = 1 => size = 0
    /\ prog = "copy" /\ at > 3 => rest = 0

\* O_NONBLOCK is set while "copy" writes.
Flags ==
    prog = "copy" =>
        fl = IF at <= 2 THEN before ELSE IF at <= 4 THEN before \cup {"nonblock"}
             ELSE before \ {"nonblock"}

AtEnd == ended = "exit" => Texts[prog][at] = "exit"

Inv ==
    /\ TypeOK /\ Requested /\ Notified /\ Counted /\ Learnt
    /\ Commands /\ Copied /\ Flags /\ AtEnd /\ KilledByPipe
-----------------------------------------------------------------------------
(***************************************************************************)
(* The texts of the programs                                               *)
(***************************************************************************)
\* Which program makes which call, and when.
At(p, k) == prog = p /\ at = k

Place(call) ==
    /\ call = "handle"  => At("signal", 1)
    /\ call = "open"    => At("list", 1)
    /\ call = "submit"  => prog # "copy" /\ at = SubmitAt
    /\ call = "suspend" => At("poll", 2) \/ At("list", 3)
    /\ call = "return"  => At("poll", 4)
    /\ call = "poll"    => At("signal", 3) \/ At("thread", 2)
    /\ call = "use"     => At("poll", 3) \/ At("poll", 5) \/ At("signal", 4) \/ At("thread", 3) \/ At("list", 5)
    /\ call = "sleep"   => At("list", 4)
    /\ call = "free_rd" => At("poll", 6) \/ At("signal", 5) \/ At("thread", 4) \/ At("list", 6)
    /\ call = "free_wr" => At("list", 7)
    /\ call = "system"  => At("list", 8)
    /\ call = "read"    => At("copy", 1)
    /\ call = "set_fl"  => At("copy", 2)
    /\ call = "write"   => At("copy", 3)
    /\ call = "clr_fl"  => At("copy", 4)
    /\ call = "exit"    => At("poll", 7) \/ At("signal", 6) \/ At("thread", 5) \/ At("list", 9) \/ At("copy", 5)

\* The calls are where the texts have them.
LEMMA Where ==
    ASSUME prog \in DOMAIN Texts, at \in 1..Len(Texts[prog])
    PROVE  Place(Texts[prog][at])
<1>1. CASE prog = "poll"
  <2>1. /\ PollMain[1] = "submit" /\ PollMain[2] = "suspend" /\ PollMain[3] = "use"
        /\ PollMain[4] = "return" /\ PollMain[5] = "use" /\ PollMain[6] = "free_rd"
        /\ PollMain[7] = "exit"
    BY DEF PollMain
  <2>2. at = 1 \/ at = 2 \/ at = 3 \/ at = 4 \/ at = 5 \/ at = 6 \/ at = 7
    BY <1>1 DEF Texts, PollMain
  <2>3. Texts[prog] = PollMain
    BY <1>1 DEF Texts
  <2> QED BY <1>1, <2>1, <2>2, <2>3 DEF Place, At, SubmitAt
<1>2. CASE prog = "signal"
  <2>1. /\ SignalMain[1] = "handle" /\ SignalMain[2] = "submit" /\ SignalMain[3] = "poll"
        /\ SignalMain[4] = "use" /\ SignalMain[5] = "free_rd" /\ SignalMain[6] = "exit"
    BY DEF SignalMain
  <2>2. at = 1 \/ at = 2 \/ at = 3 \/ at = 4 \/ at = 5 \/ at = 6
    BY <1>2 DEF Texts, SignalMain
  <2>3. Texts[prog] = SignalMain
    BY <1>2 DEF Texts
  <2> QED BY <1>2, <2>1, <2>2, <2>3 DEF Place, At, SubmitAt
<1>3. CASE prog = "thread"
  <2>1. /\ ThreadMain[1] = "submit" /\ ThreadMain[2] = "poll" /\ ThreadMain[3] = "use"
        /\ ThreadMain[4] = "free_rd" /\ ThreadMain[5] = "exit"
    BY DEF ThreadMain
  <2>2. at = 1 \/ at = 2 \/ at = 3 \/ at = 4 \/ at = 5
    BY <1>3 DEF Texts, ThreadMain
  <2>3. Texts[prog] = ThreadMain
    BY <1>3 DEF Texts
  <2> QED BY <1>3, <2>1, <2>2, <2>3 DEF Place, At, SubmitAt
<1>4. CASE prog = "list"
  <2>1. /\ ListMain[1] = "open" /\ ListMain[2] = "submit" /\ ListMain[3] = "suspend"
        /\ ListMain[4] = "sleep" /\ ListMain[5] = "use" /\ ListMain[6] = "free_rd"
        /\ ListMain[7] = "free_wr" /\ ListMain[8] = "system" /\ ListMain[9] = "exit"
    BY DEF ListMain
  <2>2. at = 1 \/ at = 2 \/ at = 3 \/ at = 4 \/ at = 5 \/ at = 6 \/ at = 7 \/ at = 8 \/ at = 9
    BY <1>4 DEF Texts, ListMain
  <2>3. Texts[prog] = ListMain
    BY <1>4 DEF Texts
  <2>4. CASE at = 1 \/ at = 2 \/ at = 3 \/ at = 4
    BY <1>4, <2>1, <2>3, <2>4 DEF Place, At, SubmitAt
  <2>5. CASE at = 5 \/ at = 6 \/ at = 7
    BY <1>4, <2>1, <2>3, <2>5 DEF Place, At, SubmitAt
  <2>6. CASE at = 8 \/ at = 9
    BY <1>4, <2>1, <2>3, <2>6 DEF Place, At, SubmitAt
  <2> QED BY <2>2, <2>4, <2>5, <2>6
<1>5. CASE prog = "copy"
  <2>1. /\ CopyMain[1] = "read" /\ CopyMain[2] = "set_fl" /\ CopyMain[3] = "write"
        /\ CopyMain[4] = "clr_fl" /\ CopyMain[5] = "exit"
    BY DEF CopyMain
  <2>2. at = 1 \/ at = 2 \/ at = 3 \/ at = 4 \/ at = 5
    BY <1>5 DEF Texts, CopyMain
  <2>3. Texts[prog] = CopyMain
    BY <1>5 DEF Texts
  <2> QED BY <1>5, <2>1, <2>2, <2>3 DEF Place, At, SubmitAt
<1> QED BY <1>1, <1>2, <1>3, <1>4, <1>5 DEF Texts

\* A text ends with its only exit.
LEMMA ExitIsLast ==
    ASSUME NEW p \in DOMAIN Texts
    PROVE  \E n \in Nat : n > 0 /\ Len(Texts[p]) = n /\ Texts[p][n] = "exit"
<1>1. CASE p = "poll"
  <2>1. Len(PollMain) = 7 /\ PollMain[7] = "exit"
    BY DEF PollMain
  <2> QED BY <1>1, <2>1 DEF Texts
<1>2. CASE p = "signal"
  <2>1. Len(SignalMain) = 6 /\ SignalMain[6] = "exit"
    BY DEF SignalMain
  <2> QED BY <1>2, <2>1 DEF Texts
<1>3. CASE p = "thread"
  <2>1. Len(ThreadMain) = 5 /\ ThreadMain[5] = "exit"
    BY DEF ThreadMain
  <2> QED BY <1>3, <2>1 DEF Texts
<1>4. CASE p = "list"
  <2>1. Len(ListMain) = 9 /\ ListMain[9] = "exit"
    BY DEF ListMain
  <2> QED BY <1>4, <2>1 DEF Texts
<1>5. CASE p = "copy"
  <2>1. Len(CopyMain) = 5 /\ CopyMain[5] = "exit"
    BY DEF CopyMain
  <2> QED BY <1>5, <2>1 DEF Texts
<1> QED BY <1>1, <1>2, <1>3, <1>4, <1>5 DEF Texts
-----------------------------------------------------------------------------
(***************************************************************************)
(* The invariant                                                           *)
(***************************************************************************)
\* No request was made, no buffer was given back, nothing was read.
LEMMA Initially == Init => Inv
<1> SUFFICES ASSUME Init PROVE Inv
  OBVIOUS
<1>1. /\ prog \in DOMAIN Texts /\ at = 1 /\ ended = "no"
      /\ req = [r \in Requests |-> "none"] /\ taken = [r \in Requests |-> 0]
      /\ slot = [c \in Requests \cup {"all"} |-> "idle"]
  BY DEF Init
<1>2. handled = FALSE /\ flag = FALSE /\ freed = {} /\ late = FALSE /\ file = FALSE /\ shown = "no"
  BY DEF Init
<1>3. size = 0 /\ rest = 0 /\ out = <<>> /\ drained = 0 /\ reader = "reads" /\ fl = before
  BY DEF Init
<1>4. before \subseteq {"append", "nonblock"} /\ sigpipe \in BOOLEAN
  BY DEF Init
<1>5. TypeOK
  <2>1. at \in 1..Len(Texts[prog])
    <3>1. PICK n \in Nat : n > 0 /\ Len(Texts[prog]) = n
      BY <1>1, ExitIsLast
    <3> QED BY <1>1, <3>1
  <2>2. size \in 0..Blocks /\ rest \in 0..size /\ out \in Seq(1..Blocks)
    BY <1>3, SizesAssumption
  <2>3. drained \in 0..Len(out) /\ Room >= 0
    BY <1>3, SizesAssumption DEF Room
  <2>4. /\ req \in [Requests -> {"none", "queued", "good", "bad", "refused"}]
        /\ taken \in [Requests -> 0..1]
        /\ slot \in [Requests \cup {"all"} -> {"idle", "begin", "test", "flag", "over"}]
    BY <1>1
  <2> QED BY <1>1, <1>2, <1>3, <1>4, <2>1, <2>2, <2>3, <2>4 DEF TypeOK
<1>6. Requested
  BY <1>1 DEF Requested, SubmitAt
<1>7. Notified
  BY <1>1, <1>2 DEF Notified
<1>8. Counted
  BY <1>1 DEF Counted, Got
<1>9. Learnt
  BY <1>1, <1>2 DEF Learnt, Behind
<1>10. Commands /\ AtEnd /\ KilledByPipe
  BY <1>1, <1>2 DEF Commands, AtEnd, KilledByPipe
<1>11. Copied /\ Flags
  BY <1>1, <1>3 DEF Copied, Flags
<1> QED BY <1>5, <1>6, <1>7, <1>8, <1>9, <1>10, <1>11 DEF Inv

\* What a call of main says of where it is.
LEMMA Going ==
    ASSUME Inv, NEW call, Calls(call)
    PROVE  /\ ended = "no" /\ at \in 1..Len(Texts[prog]) /\ at \in Nat /\ Place(call)
           /\ call # "exit" => at + 1 \in 1..Len(Texts[prog])
<1>1. prog \in DOMAIN Texts /\ at \in 1..Len(Texts[prog]) /\ ended = "no" /\ Texts[prog][at] = call
  BY DEF Calls, Inv, TypeOK
<1>2. PICK n \in Nat : Len(Texts[prog]) = n /\ Texts[prog][n] = "exit"
  BY <1>1, ExitIsLast
<1>3. Place(call)
  BY <1>1, Where
<1> QED BY <1>1, <1>2, <1>3

\* The library ends a request.
LEMMA CompleteKeeps == ASSUME Inv, NEW r \in Requests, Complete(r) PROVE Inv'
<1> USE DEF Complete, Requests, frozen, temp, stdout, outside
<1>1. TypeOK'
  BY DEF Inv, TypeOK, Due, Room
<1>2. Requested' /\ Learnt'
  BY DEF Inv, TypeOK, Requested, SubmitAt, Learnt, Behind, SetsFlag
<1>3. Notified'
  BY DEF Inv, TypeOK, Notified, Due, SetsFlag
<1>4. Counted'
  BY DEF Inv, TypeOK, Notified, Counted, Got, Due
<1>5. Commands' /\ Copied' /\ Flags' /\ AtEnd' /\ KilledByPipe'
  BY DEF Inv, TypeOK, Commands, Copied, Flags, AtEnd, KilledByPipe
<1> QED BY <1>1, <1>2, <1>3, <1>4, <1>5 DEF Inv

\* A notification takes a step.
LEMMA SlotKeeps ==
    ASSUME Inv, NEW c \in Requests \cup {"all"}, SlotBegin(c) \/ SlotTest(c) \/ SlotFlag(c)
    PROVE  Inv'
<1>1. TypeOK'
  <2>1. UNCHANGED <<prog, before, sigpipe, at, req, handled, freed, late>>
    BY DEF Slot, SlotBegin, SlotTest, SlotFlag, frozen
  <2>2. UNCHANGED <<file, shown, fl, size, rest, out, drained, reader>> /\ Requests' = Requests
    BY <2>1 DEF Slot, SlotBegin, SlotTest, SlotFlag, temp, stdout, outside, Requests
  <2>3. taken' \in [Requests -> 0..1]
    <3>1. taken' # taken => slot[c] = "test" /\ c \in Requests /\ taken' = [taken EXCEPT ![c] = taken[c] + 1]
      BY DEF Slot, SlotBegin, SlotTest, SlotFlag
    <3>2. slot[c] = "test" /\ c \in Requests => taken[c] = 0
      BY DEF Inv, TypeOK, Notified, Counted, Got
    <3> QED BY <3>1, <3>2 DEF Inv, TypeOK
  <2>4. /\ slot' \in [Requests \cup {"all"} -> {"idle", "begin", "test", "flag", "over"}]
        /\ flag' \in BOOLEAN /\ ended' \in {"no", "exit", "killed"}
    BY DEF Slot, SlotBegin, SlotTest, SlotFlag, SetsFlag, Inv, TypeOK
  <2> QED BY <2>1, <2>2, <2>3, <2>4 DEF Inv, TypeOK, Room
<1> USE DEF Slot, SlotBegin, SlotTest, SlotFlag, Requests, frozen, temp, stdout, outside
<1>2. Requested' /\ Learnt'
  BY DEF Inv, TypeOK, Requested, SubmitAt, Learnt, Behind, SetsFlag
<1>3. Notified'
  BY DEF Inv, TypeOK, Notified, SetsFlag
<1>4. Counted'
  BY DEF Inv, TypeOK, Notified, Counted, Got, SetsFlag
<1>5. Commands' /\ Copied' /\ Flags'
  BY DEF Inv, TypeOK, Commands, Copied, Flags
<1>6. AtEnd' /\ KilledByPipe'
  BY DEF Inv, TypeOK, Requested, Notified, SubmitAt, AtEnd, KilledByPipe
<1> QED BY <1>1, <1>2, <1>3, <1>4, <1>5, <1>6 DEF Inv

\* A call of main leaves the program as it is and moves on by one, or not at all.
LEMMA Onward ==
    ASSUME Inv, NEW call, Calls(call), call # "exit", Done \/ UNCHANGED at
    PROVE  /\ prog' = prog /\ before' = before /\ sigpipe' = sigpipe
           /\ drained' = drained /\ reader' = reader
           /\ ended = "no" /\ at \in Nat /\ at' \in 1..Len(Texts[prog])
           /\ Requests' = Requests /\ SetsFlag' = SetsFlag /\ SubmitAt' = SubmitAt
BY Going DEF Calls, frozen, outside, Done, Requests, SetsFlag, SubmitAt, Inv, TypeOK

\* main makes a call.
LEMMA CallKeeps ==
    ASSUME Inv, Handle \/ Open \/ Submit \/ Suspend \/ Return \/ Poll \/ Use \/ Sleep
    PROVE  Inv'
<1>1. CASE Handle
  <2>1. Calls("handle") /\ Done /\ Place("handle") /\ at' = at + 1 /\ ended' = ended
    BY <1>1, Going DEF Handle, Done
  <2>2. UNCHANGED <<req, taken, slot, flag, freed, late, file>> /\ UNCHANGED <<shown, fl, size, rest, out>>
    BY <1>1 DEF Handle, aio, temp, stdout
  <2>3. TypeOK'
    BY <1>1, <2>1, <2>2, Onward DEF Handle, Inv, TypeOK, Room
  <2>4. Requested'
    BY <1>1, <2>1, <2>2, Onward DEF Handle, Inv, TypeOK, Requested, Place, At, SubmitAt, Requests
  <2>5. Notified' /\ Counted'
    BY <1>1, <2>1, <2>2, Onward DEF Handle, Inv, TypeOK, Requested, Notified, Counted, Got, Place, At, SubmitAt, Requests, SetsFlag
  <2>6. Learnt'
    BY <1>1, <2>1, <2>2, Onward DEF Handle, Inv, TypeOK, Notified, Learnt, Behind, Place, At, Requests, SetsFlag
  <2>7. Commands'
    BY <1>1, <2>1, <2>2, Onward DEF Handle, Inv, Commands, Place, At
  <2>8. Copied' /\ Flags' /\ AtEnd' /\ KilledByPipe'
    BY <2>1, <2>2, Onward DEF Inv, Copied, Flags, AtEnd, KilledByPipe, Place, At
  <2> QED BY <2>3, <2>4, <2>5, <2>6, <2>7, <2>8 DEF Inv
<1>2. CASE Open
  <2>1. Calls("open") /\ Done /\ Place("open") /\ at' = at + 1 /\ ended' = ended
    BY <1>2, Going DEF Open, Done
  <2>2. UNCHANGED <<req, taken, slot, handled, flag, freed, late>> /\ UNCHANGED <<shown, fl, size, rest, out>>
    BY <1>2 DEF Open, aio, temp, stdout
  <2>3. TypeOK'
    BY <1>2, <2>1, <2>2, Onward DEF Open, Inv, TypeOK, Room
  <2>4. Requested'
    BY <1>2, <2>1, <2>2, Onward DEF Open, Inv, TypeOK, Requested, Place, At, SubmitAt, Requests
  <2>5. Notified' /\ Counted'
    BY <1>2, <2>1, <2>2, Onward DEF Open, Inv, TypeOK, Requested, Notified, Counted, Got, Place, At, SubmitAt, Requests, SetsFlag
  <2>6. Learnt'
    BY <1>2, <2>1, <2>2, Onward DEF Open, Inv, TypeOK, Notified, Learnt, Behind, Place, At, Requests, SetsFlag
  <2>7. Commands'
    BY <1>2, <2>1, <2>2, Onward DEF Open, Inv, Commands, Place, At
  <2>8. Copied' /\ Flags' /\ AtEnd' /\ KilledByPipe'
    BY <2>1, <2>2, Onward DEF Inv, Copied, Flags, AtEnd, KilledByPipe, Place, At
  <2> QED BY <2>3, <2>4, <2>5, <2>6, <2>7, <2>8 DEF Inv
<1>3. CASE Submit
  <2>1. Calls("submit") /\ Done /\ Place("submit") /\ at' = at + 1 /\ ended' = ended
    BY <1>3, Going DEF Submit, Done
  <2>2. UNCHANGED <<taken, handled, flag, freed, late, file, shown>> /\ UNCHANGED <<fl, size, rest, out>>
    BY <1>3 DEF Submit, aio, temp, stdout
  <2>3. /\ req' \in [Requests -> {"queued", "refused"}]
        /\ slot' \in [Requests \cup {"all"} -> {"idle", "begin", "test", "flag", "over"}]
        /\ \A d \in Requests \cup {"all"} : slot'[d] # slot[d] => d = "all" /\ prog = "list" /\ slot'[d] = "begin"
    BY <1>3 DEF Submit, Due, Inv, TypeOK, Requests
  <2>4. ~Behind /\ ~Behind' /\ prog # "copy" /\ at = SubmitAt /\ at' = SubmitAt + 1
    BY <2>1, Onward DEF Place, Behind, SubmitAt
  <2>5. \A r \in Requests : req[r] = "none" /\ slot[r] = "idle" /\ slot'[r] = "idle"
    BY <2>3, <2>4 DEF Inv, Requested, Notified, Requests, SubmitAt
  <2>6. TypeOK'
    <3>1. req' \in [Requests' -> {"none", "queued", "good", "bad", "refused"}]
      BY <2>1, <2>3, Onward
    <3>2. slot' \in [Requests' \cup {"all"} -> {"idle", "begin", "test", "flag", "over"}]
      BY <2>1, <2>3, Onward
    <3> QED BY <2>1, <2>2, <3>1, <3>2, Onward DEF Inv, TypeOK, Room
  <2>7. Requested'
    BY <2>1, <2>2, <2>3, <2>4, Onward DEF Inv, Requested, SubmitAt
  <2>8. Notified' /\ Counted'
    BY <2>1, <2>2, <2>3, <2>5, <2>4, Onward DEF Inv, TypeOK, Notified, Counted, Got, Requests, SetsFlag, SubmitAt
  <2>9. Learnt'
    BY <2>1, <2>2, <2>4, Onward DEF Inv, Learnt
  <2>10. Commands' /\ Copied' /\ Flags'
    BY <2>1, <2>2, <2>4, Onward DEF Inv, Commands, Copied, Flags, SubmitAt
  <2>11. AtEnd' /\ KilledByPipe'
    BY <2>1, <2>2, Onward DEF Inv, AtEnd, KilledByPipe
  <2> QED BY <2>6, <2>7, <2>8, <2>9, <2>10, <2>11 DEF Inv
<1>4. CASE Suspend
  <2>1. Calls("suspend") /\ Done /\ Place("suspend") /\ at' = at + 1 /\ ended' = ended
    BY <1>4, Going DEF Suspend, Done
  <2>2. UNCHANGED <<req, taken, slot, handled, flag, freed, late>> /\ UNCHANGED <<file, shown, fl, size, rest, out>>
    BY <1>4 DEF Suspend, aio, temp, stdout
  <2>3. TypeOK'
    BY <2>1, <2>2, Onward DEF Inv, TypeOK, Room
  <2>4. Requested'
    BY <2>1, <2>2, Onward DEF Inv, TypeOK, Requested, Place, At, SubmitAt, Requests
  <2>5. Notified' /\ Counted'
    BY <2>1, <2>2, Onward DEF Inv, TypeOK, Requested, Notified, Counted, Got, Place, At, SubmitAt, Requests, SetsFlag
  <2>6. Learnt'
    BY <1>4, <2>1, <2>2, Onward DEF Suspend, Inv, TypeOK, Notified, Learnt, Behind, Place, At, Requests, SetsFlag
  <2>7. Commands'
    BY <2>1, <2>2, Onward DEF Inv, Commands, Place, At
  <2>8. Copied' /\ Flags' /\ AtEnd' /\ KilledByPipe'
    BY <2>1, <2>2, Onward DEF Inv, Copied, Flags, AtEnd, KilledByPipe, Place, At
  <2> QED BY <2>3, <2>4, <2>5, <2>6, <2>7, <2>8 DEF Inv
<1>5. CASE Return
  <2>1. Calls("return") /\ Done /\ Place("return") /\ at' = at + 1 /\ ended' = ended
    BY <1>5, Going DEF Return, Done
  <2>2. UNCHANGED <<req, slot, handled, flag, freed, late, file>> /\ UNCHANGED <<shown, fl, size, rest, out>>
    BY <1>5 DEF Return, aio, temp, stdout
  <2>3. prog = "poll" /\ at = 4 /\ taken["rd"] = 0 /\ Requests = {"rd"}
    BY <2>1 DEF Inv, TypeOK, Counted, Got, Place, At, Requests
  <2>9. TypeOK'
    <3>1. taken' = [taken EXCEPT !["rd"] = 1]
      BY <1>5, <2>3 DEF Return
    <3>2. taken \in [Requests -> 0..1] /\ Requests' = Requests
      BY <2>1, Onward DEF Inv, TypeOK
    <3>3. taken' \in [Requests -> 0..1]
      BY <2>3, <3>1, <3>2
    <3> QED BY <2>1, <2>2, <3>2, <3>3, Onward DEF Inv, TypeOK, Room
  <2>4. Requested'
    BY <1>5, <2>1, <2>2, Onward DEF Return, Inv, TypeOK, Requested, Place, At, SubmitAt, Requests
  <2>5. Notified' /\ Counted'
    BY <1>5, <2>1, <2>2, Onward DEF Return, Inv, TypeOK, Requested, Notified, Counted, Got, Place, At, SubmitAt, Requests, SetsFlag
  <2>6. Learnt'
    BY <1>5, <2>1, <2>2, Onward DEF Return, Inv, TypeOK, Notified, Learnt, Behind, Place, At, Requests, SetsFlag
  <2>7. Commands'
    BY <1>5, <2>1, <2>2, Onward DEF Return, Inv, Commands, Place, At
  <2>8. Copied' /\ Flags' /\ AtEnd' /\ KilledByPipe'
    BY <2>1, <2>2, Onward DEF Inv, Copied, Flags, AtEnd, KilledByPipe, Place, At
  <2> QED BY <2>3, <2>4, <2>5, <2>6, <2>7, <2>8, <2>9 DEF Inv
<1>6. CASE Poll
  <2>1. Calls("poll") /\ Done /\ Place("poll") /\ at' = at + 1 /\ ended' = ended
    BY <1>6, Going DEF Poll, Done
  <2>2. UNCHANGED <<req, taken, slot, handled, flag, freed, late>> /\ UNCHANGED <<file, shown, fl, size, rest, out>>
    BY <1>6 DEF Poll, aio, temp, stdout
  <2>3. TypeOK'
    BY <2>1, <2>2, Onward DEF Inv, TypeOK, Room
  <2>4. Requested'
    BY <2>1, <2>2, Onward DEF Inv, TypeOK, Requested, Place, At, SubmitAt, Requests
  <2>5. Notified' /\ Counted'
    BY <2>1, <2>2, Onward DEF Inv, TypeOK, Requested, Notified, Counted, Got, Place, At, SubmitAt, Requests, SetsFlag
  <2>6. Learnt'
    BY <1>6, <2>1, <2>2, Onward DEF Poll, Inv, TypeOK, Notified, Learnt, Behind, Place, At, Requests, SetsFlag
  <2>7. Commands'
    BY <2>1, <2>2, Onward DEF Inv, Commands, Place, At
  <2>8. Copied' /\ Flags' /\ AtEnd' /\ KilledByPipe'
    BY <2>1, <2>2, Onward DEF Inv, Copied, Flags, AtEnd, KilledByPipe, Place, At
  <2> QED BY <2>3, <2>4, <2>5, <2>6, <2>7, <2>8 DEF Inv
<1>7. CASE Use
  <2>1. Calls("use") /\ Done /\ Place("use") /\ at' = at + 1 /\ ended' = ended
    BY <1>7, Going DEF Use, Done
  <2>2. UNCHANGED <<req, taken, slot, handled, flag, freed, late>> /\ UNCHANGED <<file, shown, fl, size, rest, out>>
    BY <1>7 DEF Use, aio, temp, stdout
  <2>3. TypeOK'
    BY <2>1, <2>2, Onward DEF Inv, TypeOK, Room
  <2>4. Requested'
    BY <2>1, <2>2, Onward DEF Inv, TypeOK, Requested, Place, At, SubmitAt, Requests
  <2>5. Notified' /\ Counted'
    BY <2>1, <2>2, Onward DEF Inv, TypeOK, Requested, Notified, Counted, Got, Place, At, SubmitAt, Requests, SetsFlag
  <2>6. Learnt'
    BY <1>7, <2>1, <2>2, Onward DEF Use, Inv, TypeOK, Notified, Learnt, Behind, Place, At, Requests, SetsFlag
  <2>7. Commands'
    BY <2>1, <2>2, Onward DEF Inv, Commands, Place, At
  <2>8. Copied' /\ Flags' /\ AtEnd' /\ KilledByPipe'
    BY <2>1, <2>2, Onward DEF Inv, Copied, Flags, AtEnd, KilledByPipe, Place, At
  <2> QED BY <2>3, <2>4, <2>5, <2>6, <2>7, <2>8 DEF Inv
<1>8. CASE Sleep
  <2>1. Calls("sleep") /\ Done /\ Place("sleep") /\ at' = at + 1 /\ ended' = ended
    BY <1>8, Going DEF Sleep, Done
  <2>2. UNCHANGED <<req, taken, slot, handled, flag, freed, file>> /\ UNCHANGED <<shown, fl, size, rest, out>>
    BY <1>8 DEF Sleep, aio, temp, stdout
  <2>3. TypeOK'
    BY <1>8, <2>1, <2>2, Onward DEF Sleep, Inv, TypeOK, Room
  <2>4. Requested'
    BY <1>8, <2>1, <2>2, Onward DEF Sleep, Inv, TypeOK, Requested, Place, At, SubmitAt, Requests
  <2>5. Notified' /\ Counted'
    BY <1>8, <2>1, <2>2, Onward DEF Sleep, Inv, TypeOK, Requested, Notified, Counted, Got, Place, At, SubmitAt, Requests, SetsFlag
  <2>6. Learnt'
    BY <1>8, <2>1, <2>2, Onward DEF Sleep, Inv, TypeOK, Notified, Learnt, Behind, Place, At, Requests, SetsFlag
  <2>7. Commands'
    BY <1>8, <2>1, <2>2, Onward DEF Sleep, Inv, Commands, Place, At
  <2>8. Copied' /\ Flags' /\ AtEnd' /\ KilledByPipe'
    BY <2>1, <2>2, Onward DEF Inv, Copied, Flags, AtEnd, KilledByPipe, Place, At
  <2> QED BY <2>3, <2>4, <2>5, <2>6, <2>7, <2>8 DEF Inv
<1> QED BY <1>1, <1>2, <1>3, <1>4, <1>5, <1>6, <1>7, <1>8

\* A buffer is freed, behind what main waits for.
LEMMA FreeKeeps ==
    ASSUME Inv, Free("rd", "free_rd") \/ Free("wr", "free_wr")
    PROVE  Inv'
<1>1. /\ at' = at + 1 /\ Behind /\ (prog = "list" => at \in {6, 7}) /\ (prog = "poll" => at = 6) /\ prog # "copy"
      /\ freed' = freed \cup {"rd"} \/ (prog = "list" /\ freed' = freed \cup {"wr"})
      /\ prog' = prog /\ before' = before /\ sigpipe' = sigpipe /\ drained' = drained /\ reader' = reader
      /\ ended = "no" /\ at \in Nat /\ at' \in 1..Len(Texts[prog])
      /\ Requests' = Requests /\ SetsFlag' = SetsFlag
  <2>1. CASE Free("rd", "free_rd")
    <3>1. Calls("free_rd") /\ Done /\ freed' = freed \cup {"rd"}
      BY <2>1 DEF Free
    <3>2. Place("free_rd") /\ at' = at + 1
      BY <3>1, Going DEF Done
    <3>3. Behind /\ (prog = "list" => at \in {6, 7}) /\ (prog = "poll" => at = 6) /\ prog # "copy"
      BY <3>2 DEF Place, At, Behind
    <3> QED BY <3>1, <3>2, <3>3, Onward DEF Place, At
  <2>2. CASE Free("wr", "free_wr")
    <3>1. Calls("free_wr") /\ Done /\ freed' = freed \cup {"wr"}
      BY <2>2 DEF Free
    <3>2. Place("free_wr") /\ at' = at + 1
      BY <3>1, Going DEF Done
    <3>3. Behind /\ (prog = "list" => at \in {6, 7}) /\ (prog = "poll" => at = 6) /\ prog # "copy"
      BY <3>2 DEF Place, At, Behind
    <3> QED BY <3>1, <3>2, <3>3, Onward DEF Place, At
  <2> QED BY <2>1, <2>2
<1>2. UNCHANGED <<req, taken, slot, handled, flag, late>> /\ UNCHANGED <<file, shown, fl, size, rest, out, ended>>
  BY DEF Free, temp, stdout, Done
<1>3. TypeOK'
  <2>1. freed' \subseteq Requests'
    BY <1>1 DEF Inv, TypeOK, Requests
  <2> QED BY <1>1, <1>2, <2>1 DEF Inv, TypeOK, Room
<1>4. Requested'
  BY <1>1, <1>2 DEF Inv, Requested, SubmitAt, Behind
<1>5. Notified' /\ Counted'
  BY <1>1, <1>2 DEF Inv, Notified, Counted, Got, Behind
<1>6. Learnt'
  BY <1>1, <1>2 DEF Inv, Learnt, Behind
<1>7. Commands' /\ Copied' /\ Flags' /\ AtEnd' /\ KilledByPipe'
  BY <1>1, <1>2 DEF Inv, Commands, Copied, Flags, AtEnd, KilledByPipe
<1> QED BY <1>3, <1>4, <1>5, <1>6, <1>7 DEF Inv

\* The two commands of the last line, and the end of main.
LEMMA EndKeeps == ASSUME Inv, Pipeline \/ Exit PROVE Inv'
<1>1. CASE Pipeline
  <2>1. Calls("system") /\ prog = "list" /\ at = 8 /\ (UNCHANGED at \/ Done)
    <3>1. Calls("system") /\ (UNCHANGED at \/ Done)
      BY <1>1 DEF Pipeline, Done
    <3>2. Place("system")
      BY <3>1, Going
    <3> QED BY <3>1, <3>2 DEF Place, At
  <2>2. UNCHANGED <<req, taken, slot, handled, flag, freed, late>> /\ UNCHANGED <<fl, size, rest, out, ended>>
    BY <1>1 DEF Pipeline, aio, stdout
  <2>3. at' \in 1..Len(Texts[prog]) /\ Requests' = Requests /\ Requests = {"rd", "wr"}
    BY <2>1, Onward DEF Requests
  <2>4. Content \in {"nothing", "empty", "part", "whole"}
    BY DEF Content
  <2>5. TypeOK'
    BY <1>1, <2>1, <2>2, <2>3, <2>4 DEF Pipeline, Done, Calls, frozen, outside, temp, Inv, TypeOK, Room
  <2>6. Requested' /\ Notified' /\ Counted' /\ Learnt'
    BY <2>1, <2>2, <2>3 DEF Calls, Done, frozen, Inv, Requested, Notified, Counted, Got, Learnt, Behind, SubmitAt, SetsFlag
  <2>7. Content = "part" => late \/ req["wr"] = "bad"
    BY <2>1, <2>3 DEF Content, Inv, TypeOK, Requested, Learnt, Behind, SubmitAt
  <2>8. Commands'
    BY <1>1, <2>1, <2>2, <2>7 DEF Pipeline, temp, Inv, Commands
  <2>9. Copied' /\ Flags' /\ AtEnd' /\ KilledByPipe'
    BY <2>1, <2>2 DEF Calls, frozen, outside, Inv, Copied, Flags, AtEnd, KilledByPipe
  <2> QED BY <2>5, <2>6, <2>8, <2>9 DEF Inv
<1>2. CASE Exit
  <2>1. UNCHANGED <<prog, before, sigpipe, drained, reader, at>> /\ UNCHANGED <<aio, temp, stdout>>
    BY <1>2 DEF Exit, Calls, frozen, outside
  <2>2. ended' = "exit" /\ Texts[prog][at] = "exit"
    BY <1>2 DEF Exit, Calls
  <2>3. TypeOK'
    BY <2>1, <2>2 DEF aio, temp, stdout, Inv, TypeOK, Room, Requests
  <2>4. Requested' /\ Notified' /\ Counted' /\ Learnt'
    BY <2>1 DEF aio, Inv, Requested, Notified, Counted, Got, Learnt, Behind, SubmitAt, SetsFlag, Requests
  <2>5. Commands' /\ Copied' /\ Flags' /\ AtEnd' /\ KilledByPipe'
    BY <2>1, <2>2 DEF aio, temp, stdout, Inv, Commands, Copied, Flags, AtEnd, KilledByPipe
  <2> QED BY <2>3, <2>4, <2>5 DEF Inv
<1> QED BY <1>1, <1>2

\* For "copy" there are no requests: what is said of them stays true.
LEMMA NoRequests ==
    ASSUME Inv, prog = "copy", prog' = prog, UNCHANGED aio, UNCHANGED temp
    PROVE  Requested' /\ Notified' /\ Counted' /\ Learnt' /\ Commands' /\ Requests' = Requests
BY DEF aio, temp, Inv, Requested, Notified, Counted, Got, Learnt, Behind, Commands, SetsFlag, Requests

\* Two runs of a count are one.
LEMMA Concatenation ==
    ASSUME NEW m \in Nat, NEW n \in Nat
    PROVE  [i \in 1..m |-> i] \o [i \in 1..n |-> m + i] = [i \in 1..(m + n) |-> i]
<1> DEFINE s == [i \in 1..m |-> i]
           t == [i \in 1..n |-> m + i]
           u == [i \in 1..(m + n) |-> i]
<1>1. s \in Seq(Int) /\ t \in Seq(Int) /\ u \in Seq(Int)
  BY IsASeq
<1>2. Len(s) = m /\ Len(t) = n /\ Len(u) = m + n
  OBVIOUS
<1>3. s \o t \in Seq(Int) /\ Len(s \o t) = m + n
  BY <1>1, <1>2, ConcatProperties
<1>4. ASSUME NEW i \in 1..(m + n) PROVE (s \o t)[i] = u[i]
  BY <1>1, <1>2, ConcatProperties
<1> HIDE DEF s, t, u
<1>5. s \o t = u
  BY <1>1, <1>2, <1>3, <1>4, SeqEqual
<1> QED BY <1>5 DEF s, t, u

\* Reading, and what is done to the status flags.
LEMMA CopyKeeps == ASSUME Inv, Read \/ SetFl \/ ClrFl PROVE Inv'
<1>1. PICK call \in {"read", "set_fl", "clr_fl"} : Calls(call) /\ Done
  BY DEF Read, SetFl, ClrFl
<1>2. /\ prog = "copy" /\ at' = at + 1 /\ UNCHANGED <<aio, temp, out>> /\ ended' = "no"
  BY <1>1, Going DEF Place, At, Done, Read, SetFl, ClrFl
<1>3. /\ prog' = prog /\ before' = before /\ sigpipe' = sigpipe /\ drained' = drained /\ reader' = reader
      /\ ended = "no" /\ at \in Nat /\ at' \in 1..Len(Texts[prog])
      /\ Requested' /\ Notified' /\ Counted' /\ Learnt' /\ Commands' /\ Requests' = Requests
  BY <1>1, <1>2, Onward, NoRequests
<1>4. CASE Read
  <2>1. at = 1 /\ Len(out) = 0
    BY <1>4, Going DEF Read, Place, At, Inv, TypeOK, Copied
  <2>2. size' \in 0..Blocks /\ rest' = size' /\ fl' = fl
    BY <1>4 DEF Read
  <2>3. TypeOK'
    BY <1>2, <1>3, <2>2 DEF aio, temp, Inv, TypeOK, Room
  <2>4. Copied'
    <3>1. at' = 2 /\ out' = out
      BY <1>2, <2>1
    <3>2. size' \in Int /\ rest' \in Int /\ rest' = size'
      BY <2>2, SizesAssumption
    <3>3. out = [i \in 1..Len(out) |-> i]
      BY DEF Inv, Copied
    <3>4. rest' + 0 = size'
      <4>1. \A k \in Int : k + 0 = k
        OBVIOUS
      <4> QED BY <3>2, <4>1, Zenon
    <3> QED BY <2>1, <3>1, <3>3, <3>4 DEF Copied
  <2>5. Flags' /\ AtEnd' /\ KilledByPipe'
    BY <1>2, <1>3, <2>1, <2>2 DEF Inv, Flags, AtEnd, KilledByPipe
  <2> QED BY <1>3, <2>3, <2>4, <2>5 DEF Inv
<1>5. CASE SetFl \/ ClrFl
  <2>1. UNCHANGED <<size, rest>> /\ fl' = IF at = 2 THEN fl \cup {"nonblock"} ELSE fl \ {"nonblock"}
    BY <1>5, Going DEF SetFl, ClrFl, Place, At
  <2>2. at = 2 \/ at = 4
    BY <1>5, Going DEF SetFl, ClrFl, Place, At
  <2>3. TypeOK'
    BY <1>2, <1>3, <2>1 DEF aio, temp, Inv, TypeOK, Room
  <2>4. Flags'
    <3>1. CASE at = 2
      BY <1>2, <1>3, <2>1, <3>1 DEF Inv, Flags
    <3>2. CASE at = 4
      <4>1. fl = before \cup {"nonblock"} /\ fl' = fl \ {"nonblock"}
        BY <1>2, <2>1, <3>2 DEF Inv, Flags
      <4>2. fl' = before' \ {"nonblock"}
        BY <1>3, <4>1
      <4> QED BY <1>2, <1>3, <3>2, <4>2 DEF Flags
    <3> QED BY <2>2, <3>1, <3>2
  <2>5. Copied' /\ AtEnd' /\ KilledByPipe'
    BY <1>2, <1>3, <2>1, <2>2 DEF Inv, Copied, AtEnd, KilledByPipe
  <2> QED BY <1>3, <2>3, <2>4, <2>5 DEF Inv
<1> QED BY <1>4, <1>5

\* The loop writes what comes next, however much of it.
LEMMA WriteKeeps == ASSUME Inv, Write PROVE Inv'
<1>1. Calls("write") /\ (Done \/ UNCHANGED at) /\ UNCHANGED <<aio, temp, fl, size>>
  BY DEF Write
<1>2. prog = "copy" /\ at = 3 /\ ended = "no"
  BY <1>1, Going DEF Place, At
<1>3. Requested' /\ Notified' /\ Counted' /\ Learnt' /\ Commands' /\ Requests' = Requests
  BY <1>1, <1>2, Onward, NoRequests
<1>4. CASE rest = 0 /\ Done /\ UNCHANGED <<rest, out>>
  <2>1. TypeOK'
    BY <1>1, <1>3, <1>4, Onward DEF Done, aio, temp, Inv, TypeOK, Room
  <2>2. Copied' /\ Flags' /\ AtEnd' /\ KilledByPipe'
    BY <1>1, <1>2, <1>4, Onward DEF Done, Inv, Copied, Flags, AtEnd, KilledByPipe
  <2> QED BY <1>3, <2>1, <2>2 DEF Inv
<1>5. ASSUME NEW n \in 1..rest, n <= Room, rest' = rest - n,
             out' = out \o [i \in 1..n |-> size - rest + i], UNCHANGED <<at, ended>>
      PROVE  Inv'
  <2>1. /\ size \in 0..Blocks /\ rest \in 0..size /\ n \in Nat /\ size - rest \in Nat /\ Blocks \in Nat
        /\ out \in Seq(1..Blocks) /\ Len(out) = size - rest /\ out = [i \in 1..Len(out) |-> i]
        /\ drained \in 0..Len(out)
    BY <1>5, SizesAssumption DEF Inv, TypeOK, Copied
  <2>2. out' = [i \in 1..(size - rest + n) |-> i]
    BY <1>5, <2>1, Concatenation
  <2>3. Len(out') = size - rest + n
    BY <2>1, <2>2
  <2>4. out' \in Seq(1..Blocks)
    <3>1. \A i \in 1..(size - rest + n) : i \in 1..Blocks
      BY <1>5, <2>1
    <3>2. size - rest + n \in Nat
      BY <2>1
    <3>3. \A k \in Nat : (\A i \in 1..k : i \in 1..Blocks) => [i \in 1..k |-> i] \in Seq(1..Blocks)
      BY IsASeq
    <3> QED BY <2>2, <3>1, <3>2, <3>3
  <2>5. TypeOK'
    <3>1. rest' \in 0..size' /\ size' \in 0..Blocks
      BY <1>1, <1>5, <2>1
    <3>2. drained' \in 0..Len(out') /\ Room' >= 0
      BY <1>1, <1>5, <2>1, <2>3, Onward, SizesAssumption DEF Room
    <3> QED BY <1>1, <1>3, <1>5, <2>4, <3>1, <3>2, Onward DEF aio, temp, Inv, TypeOK
  <2>6. Copied'
    <3>1. at' = 3 /\ size' = size /\ rest' + Len(out') = size'
      BY <1>1, <1>2, <1>5, <2>1, <2>3
    <3>2. out' = [i \in 1..Len(out') |-> i]
      BY <2>2, <2>3
    <3> QED BY <3>1, <3>2 DEF Copied
  <2>7. Flags' /\ AtEnd' /\ KilledByPipe'
    BY <1>1, <1>2, <1>5, Onward DEF Inv, Flags, AtEnd, KilledByPipe
  <2> QED BY <1>3, <2>5, <2>6, <2>7 DEF Inv
<1>6. CASE rest > 0 /\ reader = "gone" /\ sigpipe /\ ended' = "killed" /\ UNCHANGED <<at, rest, out>>
  <2>1. TypeOK'
    BY <1>1, <1>3, <1>6, Onward DEF aio, temp, Inv, TypeOK, Room
  <2>2. Copied' /\ Flags' /\ AtEnd' /\ KilledByPipe'
    BY <1>1, <1>2, <1>6, Onward DEF Inv, Copied, Flags, AtEnd, KilledByPipe
  <2> QED BY <1>3, <2>1, <2>2 DEF Inv
<1> QED BY <1>4, <1>5, <1>6 DEF Write

\* The reader goes on, stops or goes.
LEMMA ReaderKeeps == ASSUME Inv, Drain \/ Leave PROVE Inv'
<1>1. UNCHANGED <<frozen, at, aio, temp, stdout, ended>> /\ Requests' = Requests
  BY DEF Drain, Leave, frozen, Requests
<1>2. drained' \in 0..Len(out) /\ drained' >= drained /\ reader' \in {"reads", "stalled", "gone"}
  BY DEF Drain, Leave, Inv, TypeOK
<1>3. TypeOK'
  BY <1>1, <1>2, SizesAssumption DEF frozen, aio, temp, stdout, Inv, TypeOK, Room
<1>4. Requested' /\ Notified' /\ Counted' /\ Learnt' /\ Commands' /\ Copied' /\ Flags' /\ AtEnd'
  BY <1>1 DEF frozen, aio, temp, stdout, Inv, Requested, Notified, Counted, Got, Learnt, Behind, SubmitAt,
              SetsFlag, Commands, Copied, Flags, AtEnd
<1>5. KilledByPipe'
  BY <1>1 DEF Drain, Leave, frozen, Inv, KilledByPipe
<1> QED BY <1>3, <1>4, <1>5 DEF Inv

\* The invariant holds in every state.
LEMMA Invariance == Spec => []Inv
<1>1. Inv /\ [Next]_vars => Inv'
  <2> SUFFICES ASSUME Inv, [Next]_vars PROVE Inv'
    OBVIOUS
  <2>1. CASE UNCHANGED vars
    BY <2>1 DEF vars, frozen, aio, temp, stdout, outside, Inv, TypeOK, Room, Requests, Requested, Notified, Counted,
                Got, Learnt, Behind, SubmitAt, SetsFlag, Commands, Copied, Flags, AtEnd, KilledByPipe
  <2>2. CASE Main
    BY <2>2, CallKeeps, FreeKeeps, EndKeeps, CopyKeeps, WriteKeeps DEF Main
  <2>3. CASE Slots \/ Io
    BY <2>3, SlotKeeps, CompleteKeeps DEF Slots, Io
  <2> QED BY <2>1, <2>2, <2>3, ReaderKeeps DEF Next, Rest
<1> QED BY <1>1, Initially, PTL DEF Spec
-----------------------------------------------------------------------------
(***************************************************************************)
(* The theorems                                                            *)
(***************************************************************************)
\* Whenever a request ends, main finds its result, its buffer and its handler.
THEOREM ResultsInTime == Spec => []Safety
<1>1. Inv => Safety
  <2> SUFFICES ASSUME Inv PROVE Safety
    OBVIOUS
  <2>1. ResultBeforeUse
    <3> SUFFICES ASSUME SetsFlag, Texts[prog][at] \in {"use", "free_rd", "exit"}
                 PROVE  req["rd"] = "bad" \/ (req["rd"] = "good" /\ taken["rd"] = 1)
      BY DEF ResultBeforeUse
    <3>1. Place(Texts[prog][at]) /\ at \in Nat
      BY Where, ExitIsLast DEF Inv, TypeOK
    <3>2. Behind /\ "rd" \in Requests /\ prog # "poll"
      BY <3>1 DEF Place, At, Behind, SetsFlag, Requests
    <3>3. slot["rd"] = "over"
      BY <3>2 DEF Inv, Learnt, Notified
    <3> QED BY <3>2, <3>3 DEF Inv, Notified, Counted, Got
  <2>2. BufferInUse
    BY DEF Inv, TypeOK, Learnt, BufferInUse
  <2> QED BY <2>1, <2>2 DEF Inv, Safety
<1> QED BY <1>1, Invariance, PTL

\* The output is what was read, in order and whole, and the terminal's flags are
\* as before, whatever the pipe takes at a time; cat shows no part of a file.
THEOREM OutputComplete == Spec => []Written
<1>1. Inv => Written
  <2> SUFFICES ASSUME Inv PROVE Written
    OBVIOUS
  <2>1. ended = "exit" => Place("exit") /\ at \in Nat
    BY Where, ExitIsLast DEF Inv, TypeOK, AtEnd
  <2>2. OutputWhole
    BY <2>1 DEF Place, At, Inv, Commands, OutputWhole
  <2>3. InOrder
    <3>1. prog = "copy" /\ ended = "exit" => rest = 0
      BY <2>1 DEF Place, At, Inv, Copied
    <3>2. out = [i \in 1..Len(out) |-> i] /\ rest + Len(out) = size /\ Len(out) \in Nat
      BY DEF Inv, TypeOK, Copied
    <3> QED BY <3>1, <3>2 DEF InOrder
  <2>4. FlagsKept
    BY <2>1 DEF Place, At, Inv, Flags, FlagsKept
  <2> QED BY <2>2, <2>3, <2>4 DEF Written
<1> QED BY <1>1, Invariance, PTL
-----------------------------------------------------------------------------
(***************************************************************************)
(* The requests as a handover: the library gives results, main takes them  *)
(***************************************************************************)
Given == {r \in Requests : req[r] \notin {"none", "queued"}}
Taken == {r \in Requests : taken[r] > 0}

\* The requests are the same in every step, and what a step does to the results
\* that were taken it does in aio_return alone.
LEMMA OnlyReturnTakes ==
    ASSUME Inv, Next
    PROVE  /\ Requests' = Requests
           /\ \/ taken' = taken
              \/ req' = req /\ \E r \in Given : taken' = [taken EXCEPT ![r] = @ + 1]
<1>1. CASE Return
  <2>1. Calls("return") /\ req' = req /\ taken' = [taken EXCEPT !["rd"] = @ + 1]
    BY <1>1 DEF Return
  <2>2. prog = "poll" /\ at = 4
    BY <2>1, Going DEF Place, At
  <2>3. "rd" \in Given
    BY <2>2 DEF Inv, TypeOK, Requested, Learnt, Behind, SubmitAt, Given, Requests
  <2> QED BY <2>1, <2>3 DEF Calls, frozen, Requests
<1>2. ASSUME NEW c \in Requests \cup {"all"}, SlotTest(c)
      PROVE  /\ prog' = prog
             /\ \/ taken' = taken
                \/ req' = req /\ \E r \in Given : taken' = [taken EXCEPT ![r] = @ + 1]
  <2>1. CASE c # "all" /\ req[c] = "good"
    <3>1. c \in Given
      BY <1>2, <2>1 DEF Given
    <3> QED BY <1>2, <2>1, <3>1 DEF SlotTest, Slot, frozen
  <2> QED BY <1>2, <2>1 DEF SlotTest, Slot, frozen
<1>3. CASE Slots
  BY <1>2, <1>3 DEF Slots, Slot, SlotBegin, SlotFlag, Requests, frozen
<1>4. CASE Io \/ Drain \/ Leave \/ Rest
  BY <1>4 DEF Io, Complete, Drain, Leave, Rest, vars, aio, frozen, Requests
<1>5. CASE Main /\ ~Return
  BY <1>5 DEF Main, Handle, Open, Submit, Suspend, Poll, Use, Sleep, Pipeline, Exit, Free, Read, SetFl,
              ClrFl, Write, Calls, aio, frozen, Requests
<1> QED BY <1>1, <1>3, <1>4, <1>5 DEF Next, Main

\* A result that is there stays there.
LEMMA ResultsStay == ASSUME Inv, Next PROVE Given \subseteq Given'
<1>1. Requests' = Requests
  BY OnlyReturnTakes
<1>2. CASE Submit
  <2>1. at = SubmitAt
    BY <1>2, Going DEF Submit, Place
  <2>2. Given = {}
    BY <2>1 DEF Inv, TypeOK, Requested, SubmitAt, Given
  <2> QED BY <2>2
<1>3. ASSUME NEW r \in Requests, Complete(r)
      PROVE  Given \subseteq Given'
  BY <1>1, <1>3 DEF Complete, Inv, TypeOK, Given
<1>4. CASE req' = req
  BY <1>1, <1>4 DEF Given
<1>5. Submit \/ (\E r \in Requests : Complete(r)) \/ req' = req
  BY DEF Next, Main, Slots, Io, Drain, Leave, Rest, vars, aio, Slot, SlotBegin, SlotTest, SlotFlag, Handle, Open,
         Suspend, Return, Poll, Use, Sleep, Pipeline, Exit, Free, Read, SetFl, ClrFl, Write
<1> QED BY <1>2, <1>3, <1>4, <1>5

\* A result is taken only from a request that is over or was refused, and stays
\* taken: aio_suspend, aio_error and the notification say so first.
THEOREM TakenFromGiven == Spec => TakenWhenOver
<1>1. Init => Result!Init
  BY DEF Init, Result!Init
<1>2. Inv /\ [Next]_vars => [Result!Next]_<<Given, Taken>>
  <2> SUFFICES ASSUME Inv, Next PROVE Result!Next
    BY DEF vars, frozen, aio, Given, Taken, Requests
  <2>1. Requests' = Requests /\ Given \subseteq Given'
    BY OnlyReturnTakes, ResultsStay
  <2>2. CASE taken' = taken
    BY <2>1, <2>2 DEF Given, Taken, Result!Next, Result!Give
  <2>3. ASSUME NEW r \in Given, req' = req, taken' = [taken EXCEPT ![r] = @ + 1]
        PROVE  Result!Next
    <3>1. taken \in [Requests -> 0..1] /\ r \in Requests
      BY DEF Inv, TypeOK, Given
    <3>2. Taken' = Taken \cup {r}
      BY <2>1, <2>3, <3>1 DEF Taken
    <3>3. Given' = Given
      BY <2>1, <2>3 DEF Given
    <3>4. Taken \subseteq Given
      BY DEF Inv, TypeOK, Requested, Notified, Counted, Got, Learnt, Behind, SubmitAt, Given, Taken, Requests
    <3> QED BY <3>2, <3>3, <3>4 DEF Given, Taken, Result!Next, Result!Take
  <2> QED BY <2>2, <2>3, OnlyReturnTakes
<1> QED BY <1>1, <1>2, Invariance, PTL DEF Spec, TakenWhenOver, Result!Spec, Given, Taken
=============================================================================
