----------------------------- MODULE SignalsProofs --------------------------
(***************************************************************************)
(* For any number of signals from outside: what is blocked, which handlers *)
(* run and which signals are pending follow from where main is, so that    *)
(* the blocked sections are quiet, handlers jump into a buffer that is set *)
(* and queued signals come out in the order of the calls.                  *)
(***************************************************************************)
EXTENDS Signals, TLAPS

Frame == [sig : Sigs, at : Nat, saved : SUBSET Sigs]

\* The variables that are no sequences.
Values ==
    /\ prog \in DOMAIN Texts /\ background \in BOOLEAN /\ at \in 1..Len(Text)
    /\ mask \subseteq Sigs /\ suspended \in BOOLEAN
    /\ disp \in [Sigs -> {"default", "ignore", "handle"}] /\ old \in {"default", "ignore", "handle"}
    /\ canjump \in BOOLEAN /\ armed \in BOOLEAN
    /\ thread \in {"none", "failed", "copy", "sigwait", "set", "signal"} /\ directed \in {"none", "INT"}
    /\ flag \in BOOLEAN /\ asleep \in BOOLEAN
    /\ ended \in Sigs \cup {"no", "exit", "undefined"} /\ left \in 0..Sends

\* Each handler is at one of its calls.
Standing ==
    /\ frames \in Seq(Frame)
    /\ \A i \in 1..Len(frames) : frames[i].at \in 1..Len(Handler(frames[i].sig))

\* main is behind its block and not behind its restore.
Section ==
    \/ prog = "mask" /\ at \in 3..5
    \/ prog = "suspend" /\ at \in 3..5
    \/ prog = "queue" /\ at \in 4..10
    \/ prog = "sigwait" /\ at \in 2..6

Base == IF Section THEN Blocks[prog] ELSE {}

\* The mask is that of the section, or will be when the handlers have returned.
Masks == IF frames = <<>> THEN mask = Base ELSE frames[1].saved = Base

\* Main has been let out of sigsuspend by a handler.
LetIn == prog = "suspend" /\ at = 5

Quiet == Section /\ prog # "queue" /\ ~LetIn => frames = <<>> /\ ended \notin Blocks[prog]

Suspension == suspended => prog = "suspend" /\ at = 4 /\ frames = <<>>

\* The signals that can become pending.
Coming == [signal |-> {"USR1", "USR2", "TERM", "INT", "QUIT"}, mask |-> {"QUIT"}, jump |-> {"USR1", "ALRM"},
           suspend |-> {"INT", "USR1"}, queue |-> {"QUIT", "RT"}, sigwait |-> {"INT", "QUIT"}]

\* Pending signals: each comes in this program, and a standard signal once.
Sound(q) ==
    /\ q \in Seq(Sigs \X Nat)
    /\ \A i \in 1..Len(q) :
          /\ q[i][1] \in Coming[prog]
          /\ q[i][1] # "RT" => \A j \in 1..(i - 1) : q[j][1] # q[i][1]

Arriving == (armed => prog = "jump") /\ Sound(pending)

\* What is set up when: 10-22 has a handler for SIGINT alone, the real-time signal
\* of 10-30 has one before it is queued, and a program that was started in the
\* background ignores SIGINT and SIGQUIT throughout.
Disposed ==
    /\ prog = "suspend" => disp["USR1"] = "default" /\ (at >= 2 => disp["INT"] = "handle")
    /\ prog = "queue" => disp["RT"] # "ignore" /\ (at >= 3 => disp["RT"] = "handle")
    /\ prog = "signal" /\ background =>
          disp["INT"] = "ignore" /\ disp["QUIT"] = "ignore" /\ (at \in {5, 7} => old = "ignore")

\* A handler that has found canjump set resets it before it jumps, and main is
\* at its pause until then.
Jumping ==
    prog = "jump" =>
        /\ canjump => at = 5
        /\ \A i \in 1..Len(frames) : frames[i].at >= 2 => at = 5 /\ (frames[i].at = 4 => ~canjump)

\* The flag is set by a thread that has its copy of the mask.
Signaller ==
    IF prog = "sigwait"
    THEN /\ thread = "none" <=> at <= 2
         /\ flag => thread \in {"sigwait", "set", "signal"}
         /\ at >= 6 => thread # "copy"
    ELSE thread = "none"

\* The values of the real-time signals that were queued: those in the log, and
\* then, in their order, those that are pending.
Past == Len(log) + 7
Upto == IF at > 9 THEN 9 ELSE at - 1

InOrder ==
    /\ log \in Seq(Nat)
    /\ \A k \in 1..Len(log) : log[k] = 6 + k
    /\ Len(log) > 0 => Len(log) + 6 <= Upto
    /\ \A i \in 1..Len(pending) : pending[i][1] = "RT" =>
          /\ pending[i][2] \in Past..Upto
          /\ \A j \in 1..(i - 1) : pending[j][1] = "RT" => pending[j][2] < pending[i][2]
    /\ \A v \in Past..Upto : \E i \in 1..Len(pending) : pending[i] = <<"RT", v>>

RealTime == prog = "queue" => InOrder

Inv ==
    /\ Values /\ Standing /\ Masks /\ Quiet /\ Suspension /\ Arriving /\ Disposed /\ Jumping /\ Signaller
    /\ BackgroundSurvives /\ RealTime /\ QueuedInOrder /\ StackInUse
-----------------------------------------------------------------------------
\* The number of the last call.
Last == [signal |-> 8, mask |-> 7, jump |-> 6, suspend |-> 6, queue |-> 11, sigwait |-> 7][prog]

\* The places of the calls, program by program.
LEMMA Lengths == prog \in DOMAIN Texts => Len(Text) = Last /\ Last \in Nat
<1> USE DEF Text, Texts, Last
<1>1. prog = "signal" => Len(Text) = Last /\ Last \in Nat
  BY DEF SignalMain
<1>2. prog = "mask" => Len(Text) = Last /\ Last \in Nat
  BY DEF MaskMain
<1>3. prog = "jump" => Len(Text) = Last /\ Last \in Nat
  BY DEF JumpMain
<1>4. prog = "suspend" => Len(Text) = Last /\ Last \in Nat
  BY DEF SuspendMain
<1>5. prog = "queue" => Len(Text) = Last /\ Last \in Nat
  BY DEF QueueMain
<1>6. prog = "sigwait" => Len(Text) = Last /\ Last \in Nat
  BY DEF WaitMain
<1> QED BY <1>1, <1>2, <1>3, <1>4, <1>5, <1>6

\* The name of the next call.
Name == Text[at][1]

\* Where the calls of main are in 10-02.
LEMMA SignalCalls ==
    ASSUME prog = "signal", at \in 1..8
    PROVE  /\ Name = "handle" <=> at \in 1..3
           /\ Name = "ignore" <=> at \in {4, 6}
           /\ Name = "unignore" <=> at \in {5, 7}
           /\ Name = "pause" <=> at = 8
           /\ Name \in {"handle", "ignore", "unignore", "pause"}
           /\ at \in 1..3 => Text[at][2] \in {"USR1", "USR2", "TERM"}
           /\ at \in {4, 5} => Text[at][2] = "INT"
           /\ at \in {6, 7} => Text[at][2] = "QUIT"
<1>1. \/ at = 1 \/ at = 2 \/ at = 3 \/ at = 4 \/ at = 5 \/ at = 6 \/ at = 7 \/ at = 8
  OBVIOUS
<1> QED BY <1>1 DEF Name, Text, Texts, SignalMain

\* Where the calls of main are in 10-15.
LEMMA MaskCalls ==
    ASSUME prog = "mask", at \in 1..7
    PROVE  /\ Name = "handle" <=> at = 1
           /\ Name = "block" <=> at = 2
           /\ Name = "sleep" <=> at \in {3, 6}
           /\ Name = "sigpending" <=> at = 4
           /\ Name = "restore" <=> at = 5
           /\ Name = "exit" <=> at = 7
           /\ Name \in {"handle", "block", "sleep", "sigpending", "restore", "exit"}
           /\ at = 1 => Text[at][2] = "QUIT"
<1>1. \/ at = 1 \/ at = 2 \/ at = 3 \/ at = 4 \/ at = 5 \/ at = 6 \/ at = 7
  OBVIOUS
<1> QED BY <1>1 DEF Name, Text, Texts, MaskMain

\* Where the calls of main are in 10-20.
LEMMA JumpCalls ==
    ASSUME prog = "jump", at \in 1..6
    PROVE  /\ Name = "handle" <=> at \in {1, 2}
           /\ Name = "sigsetjmp" <=> at = 3
           /\ Name = "canjump" <=> at = 4
           /\ Name = "pause" <=> at = 5
           /\ Name = "exit" <=> at = 6
           /\ Name \in {"handle", "sigsetjmp", "canjump", "pause", "exit"}
           /\ at \in {1, 2} => Text[at][2] \in {"USR1", "ALRM"}
<1>1. \/ at = 1 \/ at = 2 \/ at = 3 \/ at = 4 \/ at = 5 \/ at = 6
  OBVIOUS
<1> QED BY <1>1 DEF Name, Text, Texts, JumpMain

\* Where the calls of main are in 10-22.
LEMMA SuspendCalls ==
    ASSUME prog = "suspend", at \in 1..6
    PROVE  /\ Name = "handle" <=> at = 1
           /\ Name = "block" <=> at = 2
           /\ Name = "critical" <=> at = 3
           /\ Name = "suspend" <=> at = 4
           /\ Name = "restore" <=> at = 5
           /\ Name = "exit" <=> at = 6
           /\ Name \in {"handle", "block", "critical", "suspend", "restore", "exit"}
           /\ at = 1 => Text[at][2] = "INT"
<1>1. \/ at = 1 \/ at = 2 \/ at = 3 \/ at = 4 \/ at = 5 \/ at = 6
  OBVIOUS
<1> QED BY <1>1 DEF Name, Text, Texts, SuspendMain

\* Where the calls of main are in 10-30.
LEMMA QueueCalls ==
    ASSUME prog = "queue", at \in 1..11
    PROVE  /\ Name = "handle" <=> at \in {1, 2}
           /\ Name = "block" <=> at = 3
           /\ Name = "queue" <=> at \in 4..9
           /\ Name = "restore" <=> at = 10
           /\ Name = "exit" <=> at = 11
           /\ Name \in {"handle", "block", "queue", "restore", "exit"}
           /\ at = 1 => Text[at][2] = "QUIT"
           /\ at = 2 => Text[at][2] = "RT"
           /\ at \in 4..6 => Text[at][2] = "QUIT"
           /\ at \in 7..9 => Text[at][2] = "RT"
<1>1. \/ at = 1 \/ at = 2 \/ at = 3 \/ at = 4 \/ at = 5 \/ at = 6 \/ at = 7 \/ at = 8 \/ at = 9 \/ at = 10 \/ at = 11
  OBVIOUS
<1> QED BY <1>1 DEF Name, Text, Texts, QueueMain

\* The real-time signals are queued by three calls in a row.
LEMMA QueueTexts ==
    prog = "queue" => \A i \in 1..Len(Text) : Text[i] = <<"queue", "RT">> <=> i \in 7..9
<1>0. prog = "queue" => Len(Text) = 11
  BY Lengths DEF Last, Texts
<1> SUFFICES ASSUME prog = "queue", NEW i \in 1..11 PROVE Text[i] = <<"queue", "RT">> <=> i \in 7..9
  BY <1>0
<1>1. \/ i = 1 \/ i = 2 \/ i = 3 \/ i = 4 \/ i = 5 \/ i = 6 \/ i = 7 \/ i = 8 \/ i = 9 \/ i = 10 \/ i = 11
  OBVIOUS
<1>2. <<"block">> # <<"queue", "RT">> /\ <<"restore">> # <<"queue", "RT">> /\ <<"exit">> # <<"queue", "RT">>
  OBVIOUS
<1> QED BY <1>1, <1>2 DEF Text, Texts, QueueMain

\* Where the calls of main are in 12-16.
LEMMA WaitCalls ==
    ASSUME prog = "sigwait", at \in 1..7
    PROVE  /\ Name = "block" <=> at = 1
           /\ Name = "create" <=> at = 2
           /\ Name = "queue" <=> at = 3
           /\ Name = "pthread_kill" <=> at = 4
           /\ Name = "wait" <=> at = 5
           /\ Name = "restore" <=> at = 6
           /\ Name = "exit" <=> at = 7
           /\ Name \in {"block", "create", "queue", "pthread_kill", "wait", "restore", "exit"}
           /\ at = 3 => Text[at][2] = "INT"
<1>1. \/ at = 1 \/ at = 2 \/ at = 3 \/ at = 4 \/ at = 5 \/ at = 6 \/ at = 7
  OBVIOUS
<1> QED BY <1>1 DEF Name, Text, Texts, WaitMain

\* Where the next call can be.
LEMMA Located ==
    ASSUME prog \in DOMAIN Texts, at \in 1..Len(Text)
    PROVE  /\ at \in 1..Last
           /\ Name = "handle" => /\ at < Last /\ ~Section
                                 /\ \/ prog = "signal" /\ at \in 1..3 /\ Text[at][2] \in {"USR1", "USR2", "TERM"}
                                    \/ prog = "mask" /\ at = 1 /\ Text[at][2] = "QUIT"
                                    \/ prog = "jump" /\ at \in {1, 2} /\ Text[at][2] \in {"USR1", "ALRM"}
                                    \/ prog = "suspend" /\ at = 1 /\ Text[at][2] = "INT"
                                    \/ prog = "queue" /\ at = 1 /\ Text[at][2] = "QUIT"
                                    \/ prog = "queue" /\ at = 2 /\ Text[at][2] = "RT"
           /\ Name = "ignore" => \/ prog = "signal" /\ at = 4 /\ Text[at][2] = "INT"
                                 \/ prog = "signal" /\ at = 6 /\ Text[at][2] = "QUIT"
           /\ Name = "unignore" => \/ prog = "signal" /\ at = 5 /\ Text[at][2] = "INT"
                                   \/ prog = "signal" /\ at = 7 /\ Text[at][2] = "QUIT"
           /\ Name = "block" => \/ prog \in {"mask", "suspend"} /\ at = 2
                                \/ prog = "queue" /\ at = 3
                                \/ prog = "sigwait" /\ at = 1
           /\ Name = "restore" => \/ prog \in {"mask", "suspend"} /\ at = 5
                                  \/ prog = "queue" /\ at = 10
                                  \/ prog = "sigwait" /\ at = 6
           /\ Name \in {"sleep", "sigpending", "critical", "sigsetjmp"} =>
                 \/ prog = "mask" /\ at \in {3, 4, 6}
                 \/ prog \in {"jump", "suspend"} /\ at = 3
           /\ Name = "canjump" => prog = "jump" /\ at = 4
           /\ Name = "suspend" => prog = "suspend" /\ at = 4
           /\ Name = "queue" => \/ prog = "queue" /\ at \in 4..6 /\ Text[at][2] = "QUIT"
                                \/ prog = "queue" /\ at \in 7..9 /\ Text[at][2] = "RT"
                                \/ prog = "sigwait" /\ at = 3 /\ Text[at][2] = "INT"
           /\ Name = "exit" <=> prog # "signal" /\ at = Last
           /\ Name = "create" => prog = "sigwait" /\ at = 2
           /\ Name = "pthread_kill" => prog = "sigwait" /\ at = 4
           /\ Name = "wait" => prog = "sigwait" /\ at = 5
<1>0. at \in 1..Last
  BY Lengths
<1>1. CASE prog = "signal"
  <2>1. Last = 8 /\ ~Section /\ at \in 1..8
    BY <1>0, <1>1 DEF Last, Section
  <2>2. Name = "exit" <=> prog # "signal" /\ at = Last
    BY <1>1, <2>1, SignalCalls
  <2> QED BY <1>1, <2>1, <2>2, SignalCalls
<1>2. CASE prog = "mask"
  BY <1>0, <1>2, MaskCalls DEF Last, Section
<1>3. CASE prog = "jump"
  BY <1>0, <1>3, JumpCalls DEF Last, Section
<1>4. CASE prog = "suspend"
  BY <1>0, <1>4, SuspendCalls DEF Last, Section
<1>5. CASE prog = "queue"
  BY <1>0, <1>5, QueueCalls DEF Last, Section
<1>6. CASE prog = "sigwait"
  BY <1>0, <1>6, WaitCalls DEF Last, Section
<1> QED BY <1>1, <1>2, <1>3, <1>4, <1>5, <1>6 DEF Texts
-----------------------------------------------------------------------------
\* A signal that is sent is pending behind the others, unless it is dropped.
LEMMA QueuedSound ==
    ASSUME Sound(pending), prog \in DOMAIN Texts, NEW sig \in Coming[prog], NEW val \in Nat
    PROVE  Sound(Queued(sig, val))
<1>0. sig \in Sigs
  BY DEF Coming, Texts, Sigs
<1>1. CASE Queued(sig, val) = pending
  BY <1>1
<1>2. CASE Queued(sig, val) = Append(pending, <<sig, val>>) /\ (sig = "RT" \/ ~IsPending(sig))
  <2> DEFINE q == Append(pending, <<sig, val>>)
  <2>1. /\ q \in Seq(Sigs \X Nat) /\ Len(q) = Len(pending) + 1 /\ Len(pending) \in Nat
        /\ \A i \in 1..Len(pending) : q[i] = pending[i]
        /\ q[Len(q)] = <<sig, val>>
    BY <1>0 DEF Sound
  <2>2. ASSUME NEW i \in 1..Len(q)
        PROVE  /\ q[i][1] \in Coming[prog]
               /\ q[i][1] # "RT" => \A j \in 1..(i - 1) : q[j][1] # q[i][1]
    <3>1. CASE i = Len(q)
      BY <1>2, <2>1, <3>1 DEF IsPending
    <3>2. CASE i \in 1..Len(pending)
      <4>1. q[i] = pending[i] /\ \A j \in 1..(i - 1) : q[j] = pending[j]
        BY <2>1, <3>2
      <4>2. /\ pending[i][1] \in Coming[prog]
            /\ pending[i][1] # "RT" => \A j \in 1..(i - 1) : pending[j][1] # pending[i][1]
        BY <3>2 DEF Sound
      <4> HIDE DEF q
      <4>3. ASSUME q[i][1] # "RT", NEW j \in 1..(i - 1) PROVE q[j][1] # q[i][1]
        BY <4>1, <4>2, <4>3
      <4> QED BY <4>1, <4>2, <4>3
    <3>3. i = Len(q) \/ i \in 1..Len(pending)
      BY <2>1
    <3> HIDE DEF q
    <3> QED BY <3>1, <3>2, <3>3
  <2> HIDE DEF q
  <2>3. Sound(q)
    BY <2>1, <2>2 DEF Sound
  <2> QED BY <1>2, <2>3 DEF q
<1> QED BY <1>1, <1>2 DEF Queued

\* The signal that is delivered first is the one with no other of its kind before.
LEMMA FirstIs ==
    ASSUME NEW sig, NEW i \in 1..Len(pending), pending[i][1] = sig,
           \A j \in 1..(i - 1) : pending[j][1] # sig, Len(pending) \in Nat
    PROVE  First(sig) = i
<1> DEFINE P(n) == n \in 1..Len(pending) /\ pending[n][1] = sig /\ \A j \in 1..(n - 1) : pending[j][1] # sig
<1>1. \A n \in 1..Len(pending) : P(n) => n = i
  <2>1. ASSUME NEW n \in 1..Len(pending), P(n) PROVE n = i
    <3>1. ~ (n < i)
      BY <2>1
    <3>2. ~ (i < n)
      BY <2>1
    <3> QED BY <3>1, <3>2
  <2> QED BY <2>1
<1> QED BY <1>1 DEF First

\* What is pending when the first signal of a kind has been delivered.
LEMMA WithoutIs ==
    ASSUME Sound(pending), NEW i \in 1..Len(pending)
    PROVE  /\ Without(i) \in Seq(Sigs \X Nat) /\ Len(Without(i)) = Len(pending) - 1
           /\ \A k \in 1..(Len(pending) - 1) : Without(i)[k] = IF k < i THEN pending[k] ELSE pending[k + 1]
<1>0. pending \in Seq(Sigs \X Nat) /\ Len(pending) \in Nat
  BY DEF Sound
<1> DEFINE a == SubSeq(pending, 1, i - 1)
           b == SubSeq(pending, i + 1, Len(pending))
<1>1. a \in Seq(Sigs \X Nat) /\ Len(a) = i - 1 /\ \A k \in 1..(i - 1) : a[k] = pending[k]
  BY <1>0
<1>2. b \in Seq(Sigs \X Nat) /\ Len(b) = Len(pending) - i /\ \A k \in 1..(Len(pending) - i) : b[k] = pending[k + i]
  BY <1>0
<1> HIDE DEF a, b
<1> DEFINE c == a \o b
<1>3. c \in Seq(Sigs \X Nat) /\ Len(c) = Len(pending) - 1
  BY <1>0, <1>1, <1>2
<1>4. ASSUME NEW k \in 1..(Len(pending) - 1)
      PROVE  c[k] = IF k < i THEN pending[k] ELSE pending[k + 1]
  <2>1. CASE k < i
    <3>1. c[k] = pending[k]
      BY <1>0, <1>1, <1>2, <2>1
    <3> HIDE DEF c
    <3> QED BY <2>1, <3>1
  <2>2. CASE ~ (k < i)
    <3>0. k > Len(a) /\ k \in 1..(Len(a) + Len(b))
      BY <1>0, <1>1, <1>2, <2>2
    <3>1. (a \o b)[k] = b[k - Len(a)]
      BY <1>1, <1>2, <3>0
    <3>2. k - Len(a) \in 1..(Len(pending) - i) /\ k - Len(a) + i = k + 1
      BY <1>0, <1>1, <1>2, <2>2
    <3>3. b[k - Len(a)] = pending[k + 1]
      BY <1>2, <3>2
    <3>4. ~ (k < i) /\ c[k] = pending[k + 1]
      BY <1>0, <2>2, <3>1, <3>3
    <3> HIDE DEF c
    <3> QED BY <3>4
  <2> QED BY <2>1, <2>2
<1> QED BY <1>3, <1>4 DEF a, b, Without

\* What is left is still in order, and each standard signal in it once.
LEMMA WithoutSound ==
    ASSUME Sound(pending), NEW i \in 1..Len(pending)
    PROVE  Sound(Without(i))
<1> DEFINE q == Without(i)
<1>1. /\ q \in Seq(Sigs \X Nat) /\ Len(q) = Len(pending) - 1
      /\ \A k \in 1..(Len(pending) - 1) : q[k] = IF k < i THEN pending[k] ELSE pending[k + 1]
  BY WithoutIs
<1>0. Len(pending) \in Nat
  BY DEF Sound
<1>3. \A k \in 1..(Len(pending) - 1) : k < i => q[k] = pending[k]
  BY <1>0, <1>1
<1>4. \A k \in 1..(Len(pending) - 1) : ~ (k < i) => q[k] = pending[k + 1]
  BY <1>0, <1>1
<1>5. \A k, j \in 1..Len(pending) : j < k => pending[k][1] \in Coming[prog] /\ (pending[k][1] # "RT" => pending[j][1] # pending[k][1])
  BY <1>0 DEF Sound
<1>6. \A k \in 1..Len(pending) : pending[k][1] \in Coming[prog]
  BY DEF Sound
<1> HIDE DEF q
<1>2. ASSUME NEW k \in 1..Len(q)
      PROVE  /\ q[k][1] \in Coming[prog]
             /\ q[k][1] # "RT" => \A j \in 1..(k - 1) : q[j][1] # q[k][1]
  <2>0. k \in 1..(Len(pending) - 1)
    BY <1>0, <1>1
  <2>1. q[k][1] \in Coming[prog]
    BY <1>0, <1>3, <1>4, <1>6, <2>0
  <2>2. ASSUME q[k][1] # "RT", NEW j \in 1..(k - 1) PROVE q[j][1] # q[k][1]
    <3>0. j \in 1..(Len(pending) - 1) /\ j < k
      BY <1>0, <2>0
    <3>1. CASE k < i
      BY <1>0, <1>3, <1>5, <2>0, <2>2, <3>0, <3>1
    <3>2. CASE ~ (k < i) /\ j < i
      <4>1. q[k] = pending[k + 1] /\ q[j] = pending[j]
        BY <1>3, <1>4, <2>0, <3>0, <3>2
      <4>2. k + 1 \in 1..Len(pending) /\ j \in 1..Len(pending) /\ j < k + 1
        BY <1>0, <2>0, <3>0
      <4> QED BY <1>5, <2>2, <4>1, <4>2
    <3>3. CASE ~ (k < i) /\ ~ (j < i)
      <4>1. q[k] = pending[k + 1] /\ q[j] = pending[j + 1]
        BY <1>4, <2>0, <3>0, <3>3
      <4>2. k + 1 \in 1..Len(pending) /\ j + 1 \in 1..Len(pending) /\ j + 1 < k + 1
        BY <1>0, <2>0, <3>0
      <4> QED BY <1>5, <2>2, <4>1, <4>2
    <3> QED BY <1>0, <2>0, <3>0, <3>1, <3>2, <3>3
  <2> QED BY <2>1, <2>2
<1> QED BY <1>1, <1>2 DEF Sound, q

\* Where the calls of a handler are.
LEMMA HandlerCalls ==
    ASSUME prog \in DOMAIN Texts, NEW sig
    PROVE  /\ Len(Handler(sig)) \in Nat /\ 1 \in 1..Len(Handler(sig))
           /\ \A i \in 1..Len(Handler(sig)) :
                 /\ Handler(sig)[i] \in {"check", "alarm", "reset", "default"} => i + 1 \in 1..Len(Handler(sig))
                 /\ Handler(sig)[i] = "check" => prog = "jump" /\ i = 1
                 /\ Handler(sig)[i] = "alarm" => prog = "jump" /\ i = 2
                 /\ Handler(sig)[i] = "reset" => prog = "jump" /\ i = 3
                 /\ Handler(sig)[i] = "jump" => prog = "jump" /\ i = 4
                 /\ Handler(sig)[i] = "default" => prog = "mask" /\ i = 1
                 /\ Handler(sig)[i] = "exit" => prog = "signal"
<1>1. CASE Handler(sig) = UsrHandler /\ prog = "jump"
  <2>1. \A i \in 1..4 : i = 1 \/ i = 2 \/ i = 3 \/ i = 4
    OBVIOUS
  <2> QED BY <1>1, <2>1 DEF UsrHandler
<1>2. CASE Handler(sig) = MaskHandler /\ prog = "mask"
  <2>1. \A i \in 1..2 : i = 1 \/ i = 2
    OBVIOUS
  <2> QED BY <1>2, <2>1 DEF MaskHandler
<1>3. CASE Handler(sig) = <<"return">>
  <2>1. Len(Handler(sig)) = 1 /\ \A i \in 1..1 : Handler(sig)[i] = "return"
    BY <1>3
  <2> QED BY <2>1
<1>4. CASE Handler(sig) = <<"exit">> /\ prog = "signal"
  <2>1. Len(Handler(sig)) = 1 /\ \A i \in 1..1 : Handler(sig)[i] = "exit"
    BY <1>4
  <2> QED BY <1>4, <2>1
<1> QED BY <1>1, <1>2, <1>3, <1>4 DEF Handler, SignalHandler
-----------------------------------------------------------------------------
\* The text does not change.
LEMMA Steady == ASSUME prog' = prog PROVE Text' = Text /\ Last' = Last
  BY DEF Text, Last

\* What a call of main starts from.
LEMMA Called ==
    ASSUME Inv, NEW call, Calls(call)
    PROVE  /\ prog \in DOMAIN Texts /\ at \in 1..Len(Text) /\ Name = call
           /\ Len(Text) = Last /\ Last \in Nat /\ at \in 1..Last
           /\ ended = "no" /\ frames = <<>> /\ ~suspended /\ ~asleep /\ Deliverable = {} /\ mask = Base
           /\ prog' = prog /\ background' = background /\ left' = left
           /\ Text' = Text /\ Last' = Last
<1>1. prog \in DOMAIN Texts /\ at \in 1..Len(Text)
  BY DEF Inv, Values
<1> QED BY <1>1, Steady, Lengths DEF Calls, Inv, Masks, proc, Name

\* What stays true while the variables that it is about stay.
LEMMA Untouched ==
    ASSUME Inv, prog' = prog
    PROVE  /\ frames = <<>> /\ frames' = <<>> /\ mask' = Base' /\ ~suspended' => Standing' /\ Masks' /\ Suspension'
           /\ UNCHANGED <<armed, pending>> => Arriving'
           /\ UNCHANGED <<frames, canjump, at>> => Jumping'
           /\ UNCHANGED <<thread, flag, ended, at>> => Signaller' /\ StackInUse'
           /\ prog # "queue" => RealTime' /\ QueuedInOrder'
           /\ UNCHANGED <<pending, log, at, ended>> => RealTime' /\ QueuedInOrder'
           /\ UNCHANGED <<background, disp, old, at, ended>> => Disposed' /\ BackgroundSurvives'
<1>1. frames = <<>> /\ frames' = <<>> /\ mask' = Base' /\ ~suspended' => Standing' /\ Masks' /\ Suspension'
  BY DEF Inv, Standing, Masks, Suspension
<1>2. UNCHANGED <<armed, pending>> => Arriving'
  BY DEF Inv, Arriving, Sound
<1>3. UNCHANGED <<frames, canjump, at>> => Jumping'
  BY DEF Inv, Jumping
<1>4. UNCHANGED <<thread, flag, ended, at>> => Signaller' /\ StackInUse'
  BY DEF Inv, Signaller, StackInUse
<1>5. prog # "queue" => RealTime' /\ QueuedInOrder'
  BY DEF RealTime, QueuedInOrder
<1>6. UNCHANGED <<pending, log, at, ended>> => RealTime' /\ QueuedInOrder'
  BY DEF Inv, RealTime, InOrder, Past, Upto, QueuedInOrder, Text
<1>7. UNCHANGED <<background, disp, old, at, ended>> => Disposed' /\ BackgroundSurvives'
  BY DEF Inv, Disposed, BackgroundSurvives
<1> QED BY <1>1, <1>2, <1>3, <1>4, <1>5, <1>6, <1>7

\* As long as no real-time signal is queued, the next call does not matter.
LEMMA OrderKept ==
    ASSUME Inv, prog' = prog, UNCHANGED <<pending, log>>, at \in Nat, at' = at + 1, at < 7 \/ at > 9, ended' = "no"
    PROVE  RealTime' /\ QueuedInOrder'
<1>1. QueuedInOrder'
  BY DEF QueuedInOrder
<1>2. ASSUME prog = "queue" PROVE InOrder'
  <2>0. InOrder /\ log \in Seq(Nat)
    BY <1>2 DEF Inv, RealTime, InOrder
  <2>1. InOrder /\ Past' = Past /\ Len(log) \in Nat /\ Past \in Nat /\ Past >= 7
    BY <2>0 DEF Past
  <2>2. CASE at > 9
    <3>1. Upto' = Upto
      BY <2>2 DEF Upto
    <3> QED BY <2>1, <3>1 DEF InOrder
  <2>3. CASE at < 7
    <3>1. /\ \A v : v \notin Past..Upto
          /\ \A v : v \notin Past..Upto'
      BY <2>1, <2>3 DEF Upto
    <3>2. \A i \in 1..Len(pending) : pending[i][1] # "RT"
      BY <2>1, <3>1 DEF InOrder
    <3>3. \A k \in 1..Len(log) : log[k] = 6 + k
      BY <2>1 DEF InOrder
    <3>4. log \in Seq(Nat) /\ Len(log) = 0
      BY <2>1, <2>3 DEF InOrder, Upto
    <3> QED BY <2>1, <3>1, <3>2, <3>3, <3>4 DEF InOrder
  <2> QED BY <2>2, <2>3
<1> QED BY <1>1, <1>2 DEF RealTime

\* main calls signal or sigaction.
LEMMA HandleKeeps == ASSUME Inv, Handle PROVE Inv'
<1>0. Calls("handle")
  BY DEF Handle
<1>1. at' = at + 1 /\ at < Last /\ Base' = mask' /\ ~Section' /\ Text[at][2] \in Sigs
  BY <1>0, Called, Located, Untouched DEF Handle, Base, Section, Last, Sigs, Blocks
<1>2. Values'
  BY <1>0, <1>1, Called, Located, Untouched DEF Handle, Inv, Values, Sigs, Blocks, jump, cond
<1>3. Standing' /\ Masks' /\ Suspension' /\ Quiet'
  BY <1>0, <1>1, Called, Located, Untouched DEF Handle, Quiet, Blocks, LetIn
<1>4. Arriving'
  BY <1>0, <1>1, Called, Located, Untouched DEF Handle, jump
<1>5. Disposed' /\ BackgroundSurvives'
  BY <1>0, <1>1, Called, Located, Untouched DEF Handle, Disposed, BackgroundSurvives, Inv, Values, Sigs
<1>6. Jumping'
  BY <1>0, <1>1, Called, Located, Untouched DEF Handle, Jumping, Inv, jump
<1>7. Signaller' /\ StackInUse'
  BY <1>0, <1>1, Called, Located, Untouched DEF Handle, Signaller, StackInUse, Inv, cond
<1>8. RealTime' /\ QueuedInOrder'
  BY <1>0, <1>1, Called, Located, Untouched, OrderKept DEF Handle
<1> QED BY <1>2, <1>3, <1>4, <1>5, <1>6, <1>7, <1>8 DEF Inv

\* main ignores a signal.
LEMMA IgnoreKeeps == ASSUME Inv, Ignore PROVE Inv'
<1>0. Calls("ignore")
  BY DEF Ignore
<1>1. at' = at + 1 /\ at < Last /\ Base' = mask' /\ ~Section' /\ Text[at][2] \in Sigs
  BY <1>0, Called, Located, Untouched DEF Ignore, Base, Section, Last, Sigs, Blocks
<1>2. Values'
  BY <1>0, <1>1, Called, Located, Untouched DEF Ignore, Inv, Values, Sigs, Blocks, jump, cond
<1>3. Standing' /\ Masks' /\ Suspension' /\ Quiet'
  BY <1>0, <1>1, Called, Located, Untouched DEF Ignore, Quiet, Blocks, LetIn
<1>4. Arriving'
  BY <1>0, <1>1, Called, Located, Untouched DEF Ignore, jump
<1>5. Disposed' /\ BackgroundSurvives'
  BY <1>0, <1>1, Called, Located, Untouched DEF Ignore, Disposed, BackgroundSurvives, Inv, Values, Sigs
<1>6. Jumping'
  BY <1>0, <1>1, Called, Located, Untouched DEF Ignore, Jumping, Inv, jump
<1>7. Signaller' /\ StackInUse'
  BY <1>0, <1>1, Called, Located, Untouched DEF Ignore, Signaller, StackInUse, Inv, cond
<1>8. RealTime' /\ QueuedInOrder'
  BY <1>0, <1>1, Called, Located, Untouched, OrderKept DEF Ignore
<1> QED BY <1>2, <1>3, <1>4, <1>5, <1>6, <1>7, <1>8 DEF Inv

\* main sets a handler, unless the signal was ignored from the start.
LEMMA UnignoreKeeps == ASSUME Inv, Unignore PROVE Inv'
<1>0. Calls("unignore")
  BY DEF Unignore
<1>1. at' = at + 1 /\ at < Last /\ Base' = mask' /\ ~Section' /\ Text[at][2] \in Sigs
  BY <1>0, Called, Located, Untouched DEF Unignore, Base, Section, Last, Sigs, Blocks
<1>2. Values'
  BY <1>0, <1>1, Called, Located, Untouched DEF Unignore, Inv, Values, Sigs, Blocks, jump, cond
<1>3. Standing' /\ Masks' /\ Suspension' /\ Quiet'
  BY <1>0, <1>1, Called, Located, Untouched DEF Unignore, Quiet, Blocks, LetIn
<1>4. Arriving'
  BY <1>0, <1>1, Called, Located, Untouched DEF Unignore, jump
<1>5. Disposed' /\ BackgroundSurvives'
  BY <1>0, <1>1, Called, Located, Untouched DEF Unignore, Disposed, BackgroundSurvives, Inv, Values, Sigs
<1>6. Jumping'
  BY <1>0, <1>1, Called, Located, Untouched DEF Unignore, Jumping, Inv, jump
<1>7. Signaller' /\ StackInUse'
  BY <1>0, <1>1, Called, Located, Untouched DEF Unignore, Signaller, StackInUse, Inv, cond
<1>8. RealTime' /\ QueuedInOrder'
  BY <1>0, <1>1, Called, Located, Untouched, OrderKept DEF Unignore
<1> QED BY <1>2, <1>3, <1>4, <1>5, <1>6, <1>7, <1>8 DEF Inv

\* main begins its section.
LEMMA BlockKeeps == ASSUME Inv, Block PROVE Inv'
<1>0. Calls("block")
  BY DEF Block
<1>1. at' = at + 1 /\ at < Last /\ Base' = mask' /\ "no" \notin Blocks[prog]
  BY <1>0, Called, Located, Untouched DEF Block, Base, Section, Last, Sigs, Blocks, Texts
<1>2. Values'
  BY <1>0, <1>1, Called, Located, Untouched DEF Block, Inv, Values, Sigs, Blocks, jump, cond
<1>3. Standing' /\ Masks' /\ Suspension' /\ Quiet'
  BY <1>0, <1>1, Called, Located, Untouched DEF Block, Quiet, Blocks, LetIn
<1>4. Arriving'
  BY <1>0, <1>1, Called, Located, Untouched DEF Block, jump
<1>5. Disposed' /\ BackgroundSurvives'
  BY <1>0, <1>1, Called, Located, Untouched DEF Block, Disposed, BackgroundSurvives, Inv, Values, Sigs
<1>6. Jumping'
  BY <1>0, <1>1, Called, Located, Untouched DEF Block, Jumping, Inv, jump
<1>7. Signaller' /\ StackInUse'
  BY <1>0, <1>1, Called, Located, Untouched DEF Block, Signaller, StackInUse, Inv, cond
<1>8. RealTime' /\ QueuedInOrder'
  BY <1>0, <1>1, Called, Located, Untouched, OrderKept DEF Block
<1> QED BY <1>2, <1>3, <1>4, <1>5, <1>6, <1>7, <1>8 DEF Inv

\* main ends its section.
LEMMA RestoreKeeps == ASSUME Inv, Restore PROVE Inv'
<1>0. Calls("restore")
  BY DEF Restore
<1>1. at' = at + 1 /\ at < Last /\ Base' = mask' /\ ~Section'
  BY <1>0, Called, Located, Untouched DEF Restore, Base, Section, Last, Sigs, Blocks
<1>2. Values'
  BY <1>0, <1>1, Called, Located, Untouched DEF Restore, Inv, Values, Sigs, Blocks, jump, cond
<1>3. Standing' /\ Masks' /\ Suspension' /\ Quiet'
  BY <1>0, <1>1, Called, Located, Untouched DEF Restore, Quiet, Blocks, LetIn
<1>4. Arriving'
  BY <1>0, <1>1, Called, Located, Untouched DEF Restore, jump
<1>5. Disposed' /\ BackgroundSurvives'
  BY <1>0, <1>1, Called, Located, Untouched DEF Restore, Disposed, BackgroundSurvives, Inv, Values, Sigs
<1>6. Jumping'
  BY <1>0, <1>1, Called, Located, Untouched DEF Restore, Jumping, Inv, jump
<1>7. Signaller' /\ StackInUse'
  BY <1>0, <1>1, Called, Located, Untouched DEF Restore, Signaller, StackInUse, Inv, cond
<1>8. RealTime' /\ QueuedInOrder'
  BY <1>0, <1>1, Called, Located, Untouched, OrderKept DEF Restore
<1> QED BY <1>2, <1>3, <1>4, <1>5, <1>6, <1>7, <1>8 DEF Inv

\* main allows the handler to jump.
LEMMA CanJumpKeeps == ASSUME Inv, CanJump PROVE Inv'
<1>0. Calls("canjump")
  BY DEF CanJump
<1>1. at' = at + 1 /\ at < Last /\ Base' = mask' /\ ~Section'
  BY <1>0, Called, Located, Untouched DEF CanJump, Base, Section, Last, Sigs, Blocks
<1>2. Values'
  BY <1>0, <1>1, Called, Located, Untouched DEF CanJump, Inv, Values, Sigs, Blocks, jump, cond
<1>3. Standing' /\ Masks' /\ Suspension' /\ Quiet'
  BY <1>0, <1>1, Called, Located, Untouched DEF CanJump, Quiet, Blocks, LetIn
<1>4. Arriving'
  BY <1>0, <1>1, Called, Located, Untouched DEF CanJump, jump
<1>5. Disposed' /\ BackgroundSurvives'
  BY <1>0, <1>1, Called, Located, Untouched DEF CanJump, Disposed, BackgroundSurvives, Inv, Values, Sigs
<1>6. Jumping'
  BY <1>0, <1>1, Called, Located, Untouched DEF CanJump, Jumping, Inv, jump
<1>7. Signaller' /\ StackInUse'
  BY <1>0, <1>1, Called, Located, Untouched DEF CanJump, Signaller, StackInUse, Inv, cond
<1>8. RealTime' /\ QueuedInOrder'
  BY <1>0, <1>1, Called, Located, Untouched, OrderKept DEF CanJump
<1> QED BY <1>2, <1>3, <1>4, <1>5, <1>6, <1>7, <1>8 DEF Inv

\* main creates the signal thread.
LEMMA CreateKeeps == ASSUME Inv, Create PROVE Inv'
<1>0. Calls("create")
  BY DEF Create
<1>1. at' = at + 1 /\ at < Last /\ Base' = mask' /\ prog = "sigwait" /\ at = 2
  BY <1>0, Called, Located, Untouched DEF Create, Base, Section, Last, Sigs, Blocks, kernel
<1>2. Values'
  BY <1>0, <1>1, Called, Located, Untouched DEF Create, Inv, Values, Sigs, Blocks, jump, cond, kernel
<1>3. Standing' /\ Masks' /\ Suspension' /\ Quiet'
  BY <1>0, <1>1, Called, Located, Untouched DEF Create, Quiet, Blocks, LetIn, kernel
<1>4. Arriving'
  BY <1>0, <1>1, Called, Located, Untouched DEF Create, jump, kernel
<1>5. Disposed' /\ BackgroundSurvives'
  BY <1>0, <1>1, Called, Located, Untouched DEF Create, Disposed, BackgroundSurvives, Inv, Values, Sigs, kernel
<1>6. Jumping'
  BY <1>0, <1>1, Called, Located, Untouched DEF Create, Jumping, Inv, jump, kernel
<1>7. Signaller' /\ StackInUse'
  BY <1>0, <1>1, Called, Located, Untouched DEF Create, Signaller, StackInUse, Inv, cond, kernel
<1>8. RealTime' /\ QueuedInOrder'
  BY <1>0, <1>1, Called, Located, Untouched, OrderKept DEF Create, kernel
<1> QED BY <1>2, <1>3, <1>4, <1>5, <1>6, <1>7, <1>8 DEF Inv

\* main sends a signal to the thread.
LEMMA PthreadKillKeeps == ASSUME Inv, PthreadKill PROVE Inv'
<1>0. Calls("pthread_kill")
  BY DEF PthreadKill
<1>1. /\ at' \in {at, at + 1} /\ at < Last /\ Base' = mask' /\ prog = "sigwait" /\ at = 4
      /\ thread \notin {"none", "copy"} \/ ended' = "no"
      /\ ended' \in {"no", "undefined"} /\ UNCHANGED thread
  BY <1>0, Called, Located, Untouched DEF PthreadKill, Base, Section, Last, Sigs, Blocks, kernel
<1>2. Values'
  BY <1>0, <1>1, Called, Located, Untouched DEF PthreadKill, Inv, Values, Sigs, Blocks, jump, cond, kernel
<1>3. Standing' /\ Masks' /\ Suspension' /\ Quiet'
  BY <1>0, <1>1, Called, Located, Untouched DEF PthreadKill, Quiet, Blocks, LetIn, kernel
<1>4. Arriving'
  BY <1>0, <1>1, Called, Located, Untouched DEF PthreadKill, jump, kernel
<1>5. Disposed' /\ BackgroundSurvives'
  BY <1>0, <1>1, Called, Located, Untouched DEF PthreadKill, Disposed, BackgroundSurvives, Inv, Values, Sigs, kernel
<1>6. Jumping'
  BY <1>0, <1>1, Called, Located, Untouched DEF PthreadKill, Jumping, Inv, jump, kernel
<1>7. Signaller' /\ StackInUse'
  BY <1>0, <1>1, Called, Located, Untouched DEF PthreadKill, Signaller, StackInUse, Inv, cond, kernel
<1>8. RealTime' /\ QueuedInOrder'
  BY <1>0, <1>1, Called, Untouched DEF PthreadKill, kernel
<1> QED BY <1>2, <1>3, <1>4, <1>5, <1>6, <1>7, <1>8 DEF Inv

\* main waits until the flag is set.
LEMMA WaitFlagKeeps == ASSUME Inv, WaitFlag PROVE Inv'
<1>0. Calls("wait")
  BY DEF WaitFlag
<1>1. at' \in {at, at + 1} /\ at < Last /\ Base' = mask' /\ prog = "sigwait" /\ at = 5
  BY <1>0, Called, Located, Untouched DEF WaitFlag, Base, Section, Last, Sigs, Blocks, kernel
<1>2. Values'
  <2>1. CASE flag
    <3>1. at' \in 1..Len(Text') /\ flag' = FALSE /\ UNCHANGED <<thread, directed, ended>>
      BY <1>0, <1>1, <2>1, Called DEF WaitFlag
    <3>2. asleep' = FALSE
      BY <1>0, <2>1, Called DEF WaitFlag, Inv, Values
    <3> QED BY <1>0, <3>1, <3>2, Called DEF WaitFlag, Inv, Values, kernel, jump
  <2>2. CASE ~flag
    <3>1. at' \in 1..Len(Text') /\ asleep' = TRUE /\ UNCHANGED <<flag, thread, directed, ended>>
      BY <1>0, <1>1, <2>2, Called DEF WaitFlag
    <3> QED BY <1>0, <3>1, Called DEF WaitFlag, Inv, Values, kernel, jump
  <2> QED BY <2>1, <2>2
<1>3. Standing' /\ Masks' /\ Suspension' /\ Quiet'
  BY <1>0, <1>1, Called, Located, Untouched DEF WaitFlag, Quiet, Blocks, LetIn, kernel
<1>4. Arriving'
  BY <1>0, <1>1, Called, Located, Untouched DEF WaitFlag, jump, kernel
<1>5. Disposed' /\ BackgroundSurvives'
  BY <1>0, <1>1, Called, Located, Untouched DEF WaitFlag, Disposed, BackgroundSurvives, Inv, Values, Sigs, kernel
<1>6. Jumping'
  BY <1>0, <1>1, Called, Located, Untouched DEF WaitFlag, Jumping, Inv, jump, kernel
<1>7. Signaller' /\ StackInUse'
  BY <1>0, <1>1, Called, Located, Untouched DEF WaitFlag, Signaller, StackInUse, Inv, cond, kernel
<1>8. RealTime' /\ QueuedInOrder'
  BY <1>0, <1>1, Called, Located, Untouched, OrderKept DEF WaitFlag, kernel
<1> QED BY <1>2, <1>3, <1>4, <1>5, <1>6, <1>7, <1>8 DEF Inv

\* main waits for a signal with another mask.
LEMMA SuspendKeeps == ASSUME Inv, Suspend PROVE Inv'
<1>0. Calls("suspend")
  BY DEF Suspend
<1>1. at' = at /\ at < Last /\ Base' = mask' /\ prog = "suspend" /\ at = 4
  BY <1>0, Called, Located, Untouched DEF Suspend, Base, Section, Last, Sigs, Blocks
<1>2. Values'
  BY <1>0, <1>1, Called, Located, Untouched DEF Suspend, Inv, Values, Sigs, Blocks, jump, cond
<1>3. Standing' /\ Masks' /\ Suspension' /\ Quiet'
  BY <1>0, <1>1, Called, Located, Untouched DEF Suspend, Quiet, Blocks, LetIn, Suspension, Standing, Masks, Inv
<1>4. Arriving'
  BY <1>0, <1>1, Called, Located, Untouched DEF Suspend, jump
<1>5. Disposed' /\ BackgroundSurvives'
  BY <1>0, <1>1, Called, Located, Untouched DEF Suspend, Disposed, BackgroundSurvives, Inv, Values, Sigs
<1>6. Jumping'
  BY <1>0, <1>1, Called, Located, Untouched DEF Suspend, Jumping, Inv, jump
<1>7. Signaller' /\ StackInUse'
  BY <1>0, <1>1, Called, Located, Untouched DEF Suspend, Signaller, StackInUse, Inv, cond
<1>8. RealTime' /\ QueuedInOrder'
  BY <1>0, <1>1, Called, Located, Untouched, OrderKept DEF Suspend
<1> QED BY <1>2, <1>3, <1>4, <1>5, <1>6, <1>7, <1>8 DEF Inv

\* main works while signals may come.
LEMMA BusyKeeps == ASSUME Inv, Busy PROVE Inv'
<1>0. PICK call \in {"sleep", "sigpending", "critical", "sigsetjmp"} : Calls(call)
  BY DEF Busy
<1>1. at' = at + 1 /\ at < Last /\ Base' = mask'
  BY <1>0, Called, Located, Untouched DEF Busy, Base, Section, Last, Sigs, Blocks
<1>2. Values'
  BY <1>0, <1>1, Called, Located, Untouched DEF Busy, Inv, Values, Sigs, Blocks, jump, cond
<1>3. Standing' /\ Masks' /\ Suspension' /\ Quiet'
  BY <1>0, <1>1, Called, Located, Untouched DEF Busy, Quiet, Blocks, LetIn
<1>4. Arriving'
  BY <1>0, <1>1, Called, Located, Untouched DEF Busy, jump
<1>5. Disposed' /\ BackgroundSurvives'
  BY <1>0, <1>1, Called, Located, Untouched DEF Busy, Disposed, BackgroundSurvives, Inv, Values, Sigs
<1>6. Jumping'
  BY <1>0, <1>1, Called, Located, Untouched DEF Busy, Jumping, Inv, jump
<1>7. Signaller' /\ StackInUse'
  BY <1>0, <1>1, Called, Located, Untouched DEF Busy, Signaller, StackInUse, Inv, cond
<1>8. RealTime' /\ QueuedInOrder'
  BY <1>0, <1>1, Called, Located, Untouched, OrderKept DEF Busy
<1> QED BY <1>2, <1>3, <1>4, <1>5, <1>6, <1>7, <1>8 DEF Inv

\* main ends the process; every queued signal has been delivered.
LEMMA ExitKeeps == ASSUME Inv, Exit PROVE Inv'
<1>0. Calls("exit")
  BY DEF Exit
<1>1. at' = at /\ at = Last /\ Base' = mask' /\ mask' = {} /\ prog # "signal"
  BY <1>0, Called, Located DEF Exit, Base, Section, Last, Texts
<1>2. Values'
  BY <1>0, <1>1, Called DEF Exit, Inv, Values, jump, cond
<1>3. Standing' /\ Masks' /\ Suspension' /\ Quiet'
  BY <1>0, <1>1, Called, Untouched DEF Exit, Quiet, Section, LetIn, Last
<1>4. Arriving'
  BY <1>0, Called, Untouched DEF Exit, jump
<1>5. Disposed' /\ BackgroundSurvives'
  BY <1>0, <1>1, Called DEF Exit, Disposed, BackgroundSurvives, Inv
<1>6. Jumping'
  BY <1>0, Called, Untouched DEF Exit, jump
<1>7. Signaller' /\ StackInUse'
  BY <1>0, <1>1, Called DEF Exit, Signaller, StackInUse, Inv, cond, Last
<1>8. RealTime'
  BY <1>0, Called DEF Exit, RealTime, InOrder, Past, Upto, Inv
<1>9. QueuedInOrder'
  <2> SUFFICES ASSUME prog = "queue"
               PROVE  /\ {log[k] : k \in 1..Len(log)} = {i \in 1..Len(Text) : Text[i] = <<"queue", "RT">>}
                      /\ \A j, k \in 1..Len(log) : j < k => log[j] < log[k]
    BY <1>0, Called DEF Exit, QueuedInOrder
  <2>1. at = 11 /\ InOrder /\ Upto = 9
    BY <1>1 DEF Inv, RealTime, Last, Upto
  <2>2. \A i \in 1..Len(pending) : pending[i][1] # "RT"
    BY <1>0, <1>1, Called DEF Exit, Deliverable, Blocked, IsPending, Sigs
  <2>3. ASSUME NEW v \in Past..9 PROVE FALSE
    <3>1. PICK i \in 1..Len(pending) : pending[i] = <<"RT", v>>
      BY <2>1 DEF InOrder
    <3> QED BY <2>2, <3>1
  <2>4. log \in Seq(Nat) /\ Len(log) \in Nat /\ Len(log) >= 3 /\ Len(log) <= 3 /\ \A k \in 1..Len(log) : log[k] = 6 + k
    <3>1. log \in Seq(Nat) /\ (Len(log) > 0 => Len(log) + 6 <= 9) /\ \A k \in 1..Len(log) : log[k] = 6 + k
      BY <2>1 DEF InOrder
    <3>2. Len(log) \in Nat /\ Past = Len(log) + 7
      BY <3>1 DEF Past
    <3>3. ~ (Past <= 9)
      BY <2>3, <3>2
    <3> QED BY <3>1, <3>2, <3>3
  <2>5. \A i \in 1..Len(Text) : Text[i] = <<"queue", "RT">> <=> i \in 7..9
    BY <1>0, Called, QueueTexts
  <2>6. {i \in 1..Len(Text) : Text[i] = <<"queue", "RT">>} = 7..9
    BY <1>0, <2>5, Called DEF Last
  <2>7. {log[k] : k \in 1..Len(log)} = 7..9
    <3>1. ASSUME NEW v \in 7..9 PROVE v \in {log[k] : k \in 1..Len(log)}
      <4>1. v - 6 \in 1..Len(log) /\ log[v - 6] = v
        BY <2>4
      <4> QED BY <4>1
    <3> QED BY <2>4, <3>1
  <2>8. \A j, k \in 1..Len(log) : j < k => log[j] < log[k]
    BY <2>4
  <2> QED BY <2>6, <2>7, <2>8
<1> QED BY <1>2, <1>3, <1>4, <1>5, <1>6, <1>7, <1>8, <1>9 DEF Inv
-----------------------------------------------------------------------------
\* A standard signal that is queued does not disturb the real-time ones.
LEMMA StandardQueued ==
    ASSUME Inv, prog' = prog, NEW sig \in Sigs \ {"RT"}, NEW val \in Nat,
           pending' = pending \/ pending' = Append(pending, <<sig, val>>),
           log' = log, at \in Nat, at' = at \/ (at' = at + 1 /\ at < 7), ended' = "no"
    PROVE  RealTime' /\ QueuedInOrder'
<1>1. QueuedInOrder'
  BY DEF QueuedInOrder
<1>2. ASSUME prog = "queue" PROVE InOrder'
  <2>a. InOrder /\ Sound(pending)
    BY <1>2 DEF Inv, RealTime, Arriving
  <2>0. InOrder /\ log \in Seq(Nat) /\ pending \in Seq(Sigs \X Nat) /\ Len(pending) \in Nat
    <3>1. log \in Seq(Nat)
      BY <2>a DEF InOrder
    <3>2. pending \in Seq(Sigs \X Nat)
      BY <2>a DEF Sound
    <3> QED BY <2>a, <3>1, <3>2
  <2>1. Past' = Past /\ Len(log) \in Nat /\ Past \in Nat /\ Past = Len(log) + 7
    BY <2>0 DEF Past
  <2>2. Upto' = Upto \/ (Upto < 6 /\ Upto' < 7 /\ Upto <= Upto')
    BY DEF Upto
  <2>3. Upto \in Int /\ Upto' \in Int
    BY DEF Upto
  <2>4. Past..Upto' = Past..Upto
    BY <2>1, <2>2, <2>3
  <2>5. Len(log) > 0 => Len(log) + 6 <= Upto'
    BY <2>0, <2>1, <2>2, <2>3 DEF InOrder
  <2>7. CASE pending' = pending
    BY <2>0, <2>1, <2>4, <2>5, <2>7 DEF InOrder
  <2>8. CASE pending' = Append(pending, <<sig, val>>)
    <3>1. /\ Len(pending') = Len(pending) + 1
          /\ \A i \in 1..Len(pending) : pending'[i] = pending[i]
          /\ pending'[Len(pending) + 1] = <<sig, val>> /\ <<sig, val>>[1] # "RT"
      BY <2>0, <2>8
    <3>2. \A i \in 1..Len(pending') : pending'[i][1] = "RT" =>
             /\ pending'[i][2] \in Past..Upto
             /\ \A j \in 1..(i - 1) : pending'[j][1] = "RT" => pending'[j][2] < pending'[i][2]
      <4>1. ASSUME NEW i \in 1..Len(pending'), pending'[i][1] = "RT"
            PROVE  /\ pending'[i][2] \in Past..Upto
                   /\ \A j \in 1..(i - 1) : pending'[j][1] = "RT" => pending'[j][2] < pending'[i][2]
        <5>1. i \in 1..Len(pending)
          BY <2>0, <3>1, <4>1
        <5>2. pending'[i] = pending[i] /\ \A j \in 1..(i - 1) : pending'[j] = pending[j]
          BY <2>0, <3>1, <5>1
        <5> QED BY <2>0, <4>1, <5>1, <5>2 DEF InOrder
      <4> QED BY <4>1
    <3>3. \A v \in Past..Upto : \E i \in 1..Len(pending') : pending'[i] = <<"RT", v>>
      <4>1. ASSUME NEW v \in Past..Upto PROVE \E i \in 1..Len(pending') : pending'[i] = <<"RT", v>>
        <5>1. PICK i \in 1..Len(pending) : pending[i] = <<"RT", v>>
          BY <2>0 DEF InOrder
        <5>2. i \in 1..Len(pending') /\ pending'[i] = <<"RT", v>>
          BY <2>0, <3>1, <5>1
        <5> QED BY <5>2
      <4> QED BY <4>1
    <3> QED BY <2>0, <2>1, <2>4, <2>5, <3>2, <3>3 DEF InOrder
  <2> QED BY <2>7, <2>8
<1> QED BY <1>1, <1>2 DEF RealTime

\* The next real-time signal is pending behind the others.
LEMMA RealTimeQueued ==
    ASSUME Inv, prog = "queue", prog' = prog, at \in 7..9, at' = at + 1, log' = log,
           pending' = Append(pending, <<"RT", at>>), ended' = "no"
    PROVE  RealTime' /\ QueuedInOrder'
<1>1. QueuedInOrder'
  BY DEF QueuedInOrder
<1>2. InOrder'
  <2>a. InOrder /\ Sound(pending)
    BY DEF Inv, RealTime, Arriving
  <2>0. InOrder /\ log \in Seq(Nat) /\ pending \in Seq(Sigs \X Nat) /\ Len(pending) \in Nat
    <3>1. log \in Seq(Nat)
      BY <2>a DEF InOrder
    <3>2. pending \in Seq(Sigs \X Nat)
      BY <2>a DEF Sound
    <3> QED BY <2>a, <3>1, <3>2
  <2>1. Past' = Past /\ Len(log) \in Nat /\ Past \in Nat /\ Past = Len(log) + 7
    BY <2>0 DEF Past
  <2>2. Upto = at - 1 /\ Upto' = at
    BY DEF Upto
  <2>3. Past <= at /\ (Len(log) > 0 => Len(log) + 6 <= Upto')
    BY <2>0, <2>1, <2>2 DEF InOrder
  <2>4. /\ Len(pending') = Len(pending) + 1
        /\ \A i \in 1..Len(pending) : pending'[i] = pending[i]
        /\ pending'[Len(pending) + 1] = <<"RT", at>>
    BY <2>0
  <2>5. ASSUME NEW i \in 1..Len(pending'), pending'[i][1] = "RT"
        PROVE  /\ pending'[i][2] \in Past..Upto'
               /\ \A j \in 1..(i - 1) : pending'[j][1] = "RT" => pending'[j][2] < pending'[i][2]
    <3>1. CASE i \in 1..Len(pending)
      <4>1. pending'[i] = pending[i] /\ \A j \in 1..(i - 1) : pending'[j] = pending[j]
        BY <2>0, <2>4, <3>1
      <4>2. /\ pending[i][2] \in Past..Upto
            /\ \A j \in 1..(i - 1) : pending[j][1] = "RT" => pending[j][2] < pending[i][2]
        BY <2>0, <2>5, <3>1, <4>1 DEF InOrder
      <4> QED BY <2>1, <2>2, <4>1, <4>2
    <3>2. CASE i = Len(pending) + 1
      <4>1. pending'[i][2] = at
        BY <2>4, <3>2
      <4>2. ASSUME NEW j \in 1..(i - 1), pending'[j][1] = "RT" PROVE pending'[j][2] < at
        <5>1. j \in 1..Len(pending) /\ pending'[j] = pending[j]
          BY <2>0, <2>4, <3>2
        <5>2. pending[j][2] \in Past..Upto
          BY <2>0, <4>2, <5>1 DEF InOrder
        <5> QED BY <2>1, <2>2, <5>1, <5>2
      <4> QED BY <2>1, <2>2, <2>3, <4>1, <4>2
    <3> QED BY <2>0, <2>4, <3>1, <3>2
  <2>6. ASSUME NEW v \in Past..Upto' PROVE \E i \in 1..Len(pending') : pending'[i] = <<"RT", v>>
    <3>1. CASE v = at
      <4>1. Len(pending) + 1 \in 1..Len(pending')
        BY <2>0, <2>4
      <4> QED BY <2>4, <3>1, <4>1
    <3>2. CASE v # at
      <4>1. v \in Past..Upto
        BY <2>1, <2>2, <3>2
      <4>2. PICK i \in 1..Len(pending) : pending[i] = <<"RT", v>>
        BY <2>0, <4>1 DEF InOrder
      <4>3. i \in 1..Len(pending') /\ pending'[i] = <<"RT", v>>
        BY <2>0, <2>4, <4>2
      <4> QED BY <4>3
    <3> QED BY <3>1, <3>2
  <2> QED BY <2>0, <2>1, <2>3, <2>5, <2>6 DEF InOrder
<1> QED BY <1>1, <1>2 DEF RealTime

\* main sends a signal to its own process.
LEMMA QueueKeeps == ASSUME Inv, Queue PROVE Inv'
<1>0. Calls("queue")
  BY DEF Queue
<1>1. /\ at' = at + 1 /\ at < Last /\ Base' = mask'
      /\ \/ prog = "queue" /\ at \in 4..6 /\ Text[at][2] = "QUIT"
         \/ prog = "queue" /\ at \in 7..9 /\ Text[at][2] = "RT"
         \/ prog = "sigwait" /\ at = 3 /\ Text[at][2] = "INT"
  BY <1>0, Called, Located DEF Queue, Base, Section, Last
<1>2. Values'
  BY <1>0, <1>1, Called DEF Queue, Inv, Values, jump, cond
<1>3. Standing' /\ Masks' /\ Suspension' /\ Quiet'
  BY <1>0, <1>1, Called, Untouched DEF Queue, Quiet, Blocks, LetIn, Section, Inv
<1>4. Arriving'
  <2>1. Text[at][2] \in Coming[prog] /\ at \in Nat
    BY <1>1 DEF Coming
  <2>2. Sound(pending')
    BY <1>0, <2>1, Called, QueuedSound DEF Queue, Inv, Arriving
  <2> QED BY <1>0, <2>2, Called DEF Queue, jump, Inv, Arriving, Sound
<1>5. Disposed' /\ BackgroundSurvives'
  BY <1>0, <1>1, Called DEF Queue, Disposed, BackgroundSurvives, Inv
<1>6. Jumping'
  BY <1>0, <1>1, Called DEF Queue, Jumping
<1>7. Signaller' /\ StackInUse'
  BY <1>0, <1>1, Called DEF Queue, Signaller, StackInUse, Inv, cond
<1>8. RealTime' /\ QueuedInOrder'
  <2>1. CASE prog = "sigwait"
    BY <1>0, <2>1, Called, Untouched
  <2>2. CASE prog = "queue" /\ at \in 4..6 /\ Text[at][2] = "QUIT"
    <3>1. "QUIT" \in Sigs \ {"RT"} /\ (pending' = pending \/ pending' = Append(pending, <<"QUIT", at>>))
      BY <2>2 DEF Queue, Queued, Sigs
    <3> QED BY <1>0, <1>1, <2>2, <3>1, Called, StandardQueued DEF Queue
  <2>3. CASE prog = "queue" /\ at \in 7..9 /\ Text[at][2] = "RT"
    <3>1. pending' = Append(pending, <<"RT", at>>)
      BY <2>3 DEF Queue, Queued, Inv, Disposed
    <3> QED BY <1>0, <1>1, <2>3, <3>1, Called, RealTimeQueued DEF Queue
  <2> QED BY <1>1, <2>1, <2>2, <2>3
<1> QED BY <1>2, <1>3, <1>4, <1>5, <1>6, <1>7, <1>8 DEF Inv

\* A signal comes from outside, or of the alarm.
LEMMA SendKeeps == ASSUME Inv, NEW sig \in Sigs, Send(sig) \/ (Ring /\ sig = "ALRM") PROVE Inv'
<1>1. /\ pending' = Queued(sig, 0) /\ ended = "no" /\ ended' = "no"
      /\ UNCHANGED <<prog, background, at, frames, mask, suspended, disp, old, canjump, log, thread, directed, flag, asleep>>
      /\ armed' => armed
  <2>1. CASE Send(sig)
    BY <2>1 DEF Send, proc, jump, cond
  <2>2. CASE Ring /\ sig = "ALRM"
    BY <2>2 DEF Ring, proc, cond
  <2> QED BY <2>1, <2>2
<1>0. sig \in Coming[prog] /\ sig # "RT"
  <2>1. CASE Send(sig)
    BY <2>1 DEF Send, Sent, Coming, Inv, Values, Texts
  <2>2. CASE Ring /\ sig = "ALRM"
    BY <2>2 DEF Ring, Coming, Inv, Arriving
  <2> QED BY <2>1, <2>2
<1>2. Text' = Text /\ at \in Nat /\ prog \in DOMAIN Texts
  BY <1>1, Steady DEF Inv, Values
<1>3. Values'
  <2>1. left' \in 0..Sends
    BY SendsAssumption DEF Send, Ring, Inv, Values
  <2>2. armed' \in BOOLEAN
    BY DEF Send, Ring, Inv, Values, jump
  <2> QED BY <1>1, <1>2, <2>1, <2>2 DEF Inv, Values
<1>4. Standing' /\ Masks' /\ Suspension' /\ Quiet'
  BY <1>1 DEF Inv, Standing, Handler, Masks, Base, Section, Suspension, Quiet, LetIn
<1>5. Arriving'
  <2>1. Sound(pending')
    BY <1>0, <1>1, <1>2, QueuedSound DEF Inv, Arriving
  <2> QED BY <1>1, <2>1 DEF Inv, Arriving, Sound
<1>6. Disposed' /\ BackgroundSurvives' /\ Jumping' /\ Signaller' /\ StackInUse'
  BY <1>1, Untouched
<1>7. RealTime' /\ QueuedInOrder'
  <2>1. sig \in Sigs \ {"RT"} /\ (pending' = pending \/ pending' = Append(pending, <<sig, 0>>))
    BY <1>0, <1>1 DEF Queued
  <2> QED BY <1>1, <1>2, <2>1, StandardQueued
<1> QED BY <1>3, <1>4, <1>5, <1>6, <1>7 DEF Inv
-----------------------------------------------------------------------------
\* The next signal of a kind to be delivered; the first real-time signal that
\* is pending is the one after the last in the log.
LEMMA Delivered ==
    ASSUME Inv, NEW sig \in Sigs, IsPending(sig)
    PROVE  \E i \in 1..Len(pending) :
              /\ First(sig) = i /\ pending[i][1] = sig /\ sig \in Coming[prog] /\ Sound(Without(i))
              /\ sig = "RT" => prog = "queue" /\ pending[i] = <<"RT", Past>> /\ Past \in 7..Upto
<1>1. Sound(pending) /\ prog \in DOMAIN Texts /\ pending \in Seq(Sigs \X Nat) /\ Len(pending) \in Nat
  BY DEF Inv, Arriving, Values, Sound
<1>2. PICK n \in 1..Len(pending) : pending[n][1] = sig
  BY DEF IsPending
<1>3. sig \in Coming[prog]
  BY <1>1, <1>2 DEF Sound
<1>4. CASE sig # "RT"
  <2>1. \A j \in 1..(n - 1) : pending[j][1] # sig
    BY <1>1, <1>2, <1>4 DEF Sound
  <2>2. First(sig) = n
    BY <1>1, <1>2, <2>1, FirstIs
  <2> QED BY <1>1, <1>2, <1>3, <1>4, <2>2, WithoutSound
<1>5. CASE sig = "RT"
  <2>0. prog \in {"signal", "mask", "jump", "suspend", "queue", "sigwait"}
    BY <1>1 DEF Texts
  <2>1. prog = "queue"
    BY <1>3, <1>5, <2>0 DEF Coming
  <2>2. InOrder
    BY <2>1 DEF Inv, RealTime
  <2>3. log \in Seq(Nat) /\ Past = Len(log) + 7 /\ Len(log) \in Nat
    BY <2>2 DEF InOrder, Past
  <2>a. Upto \in Int
    BY DEF Inv, Values, Upto
  <2>b. pending[n][2] \in Past..Upto
    BY <1>2, <1>5, <2>2 DEF InOrder
  <2>4. Past \in 7..Upto /\ Past \in Past..Upto
    BY <2>3, <2>a, <2>b
  <2>c. \A v \in Past..Upto : \E i \in 1..Len(pending) : pending[i] = <<"RT", v>>
    BY <2>2 DEF InOrder
  <2>5. PICK i \in 1..Len(pending) : pending[i] = <<"RT", Past>>
    BY <2>4, <2>c
  <2>6. pending[i][1] = sig /\ pending[i][2] = Past
    BY <1>5, <2>5
  <2>7. ASSUME NEW j \in 1..(i - 1), pending[j][1] = sig PROVE FALSE
    <3>1. j \in 1..Len(pending)
      BY <1>1
    <3>2. pending[j][2] < Past
      BY <1>5, <2>2, <2>6, <2>7 DEF InOrder
    <3>3. pending[j][2] \in Past..Upto
      BY <1>5, <2>2, <2>7, <3>1 DEF InOrder
    <3> QED BY <2>3, <3>2, <3>3
  <2>8. First(sig) = i
    BY <1>1, <2>6, <2>7, FirstIs
  <2> QED BY <1>1, <1>3, <1>5, <2>1, <2>4, <2>5, <2>6, <2>8, WithoutSound
<1> QED BY <1>4, <1>5

\* The others stay pending, in the same order.
LEMMA Remaining ==
    ASSUME Sound(pending), NEW i \in 1..Len(pending), pending' = Without(i)
    PROVE  /\ Len(pending') = Len(pending) - 1 /\ Len(pending) \in Nat
           /\ \A k \in 1..Len(pending') : \E n \in 1..Len(pending) :
                 n # i /\ n = (IF k < i THEN k ELSE k + 1) /\ pending'[k] = pending[n]
           /\ \A n \in 1..Len(pending) : n # i => \E k \in 1..Len(pending') : pending'[k] = pending[n]
<1>0. Len(pending) \in Nat
  BY DEF Sound
<1>1. /\ Len(pending') = Len(pending) - 1
      /\ \A k \in 1..(Len(pending) - 1) : pending'[k] = IF k < i THEN pending[k] ELSE pending[k + 1]
  BY WithoutIs
<1>2. ASSUME NEW k \in 1..Len(pending')
      PROVE  \E n \in 1..Len(pending) : n # i /\ n = (IF k < i THEN k ELSE k + 1) /\ pending'[k] = pending[n]
  <2>1. CASE k < i
    BY <1>0, <1>1, <2>1
  <2>2. CASE ~ (k < i)
    <3>1. pending'[k] = pending[k + 1] /\ k + 1 \in 1..Len(pending) /\ k + 1 # i
      BY <1>0, <1>1, <2>2
    <3> QED BY <2>2, <3>1
  <2> QED BY <2>1, <2>2
<1>3. ASSUME NEW n \in 1..Len(pending), n # i
      PROVE  \E k \in 1..Len(pending') : pending'[k] = pending[n]
  <2>1. CASE n < i
    BY <1>0, <1>1, <2>1
  <2>2. CASE n > i
    <3>1. n - 1 \in 1..Len(pending') /\ ~ (n - 1 < i) /\ (n - 1) + 1 = n
      BY <1>0, <1>1, <2>2
    <3>2. pending'[n - 1] = pending[n]
      BY <1>0, <1>1, <3>1
    <3> QED BY <3>1, <3>2
  <2> QED BY <1>0, <1>3, <2>1, <2>2
<1> QED BY <1>0, <1>1, <1>2, <1>3

\* What is taken out of the pending signals leaves the rest in order.
LEMMA OrderTaken ==
    ASSUME InOrder, Sound(pending), NEW i \in 1..Len(pending), pending' = Without(i), Upto' = Upto, Upto <= 9,
           \/ pending[i][1] # "RT" /\ log' = log
           \/ pending[i] = <<"RT", Past>> /\ log' = Append(log, Past) /\ Past \in 7..Upto
    PROVE  InOrder'
<1>1. /\ Len(pending') = Len(pending) - 1 /\ Len(pending) \in Nat
      /\ \A k \in 1..Len(pending') : \E n \in 1..Len(pending) :
            n # i /\ n = (IF k < i THEN k ELSE k + 1) /\ pending'[k] = pending[n]
      /\ \A n \in 1..Len(pending) : n # i => \E k \in 1..Len(pending') : pending'[k] = pending[n]
  BY Remaining
<1>2. log \in Seq(Nat) /\ Len(log) \in Nat /\ Past = Len(log) + 7
  BY DEF InOrder, Past
<1>3. ASSUME NEW k \in 1..Len(pending'), pending'[k][1] = "RT", NEW j \in 1..(k - 1), pending'[j][1] = "RT"
      PROVE  pending'[j][2] < pending'[k][2]
  <2>1. PICK n \in 1..Len(pending) : n = (IF k < i THEN k ELSE k + 1) /\ pending'[k] = pending[n]
    BY <1>1
  <2>2. j \in 1..Len(pending')
    BY <1>1
  <2>3. PICK m \in 1..Len(pending) : m = (IF j < i THEN j ELSE j + 1) /\ pending'[j] = pending[m]
    BY <1>1, <2>2
  <2>4. m \in 1..(n - 1)
    BY <2>1, <2>3
  <2>5. pending[n][1] = "RT" /\ pending[m][1] = "RT"
    BY <1>3, <2>1, <2>3
  <2>6. pending[m][2] < pending[n][2]
    BY <2>4, <2>5 DEF InOrder
  <2> QED BY <2>1, <2>3, <2>6
<1>4. CASE pending[i][1] # "RT" /\ log' = log
  <2>1. Past' = Past
    BY <1>4 DEF Past
  <2>2. ASSUME NEW k \in 1..Len(pending'), pending'[k][1] = "RT" PROVE pending'[k][2] \in Past..Upto
    <3>1. PICK n \in 1..Len(pending) : pending'[k] = pending[n]
      BY <1>1
    <3> QED BY <2>2, <3>1 DEF InOrder
  <2>3. ASSUME NEW v \in Past..Upto PROVE \E k \in 1..Len(pending') : pending'[k] = <<"RT", v>>
    <3>1. PICK n \in 1..Len(pending) : pending[n] = <<"RT", v>>
      BY DEF InOrder
    <3>2. n # i
      BY <1>4, <3>1
    <3>3. PICK k \in 1..Len(pending') : pending'[k] = pending[n]
      BY <1>1, <3>2
    <3> QED BY <3>1, <3>3
  <2> QED BY <1>2, <1>3, <1>4, <2>1, <2>2, <2>3 DEF InOrder
<1>5. CASE pending[i] = <<"RT", Past>> /\ log' = Append(log, Past) /\ Past \in 7..Upto
  <2>1. /\ log' \in Seq(Nat) /\ Len(log') = Len(log) + 1 /\ \A k \in 1..Len(log) : log'[k] = log[k]
        /\ log'[Len(log) + 1] = Past
    BY <1>2, <1>5
  <2>2. Past' = Past + 1
    BY <1>2, <2>1 DEF Past
  <2>3. \A k \in 1..Len(log') : log'[k] = 6 + k
    <3>1. \A k \in 1..Len(log) : log[k] = 6 + k
      BY DEF InOrder
    <3>2. ASSUME NEW k \in 1..Len(log') PROVE log'[k] = 6 + k
      <4>1. CASE k \in 1..Len(log)
        BY <2>1, <3>1, <4>1
      <4>2. CASE k = Len(log) + 1
        BY <1>2, <2>1, <4>2
      <4> QED BY <1>2, <2>1, <4>1, <4>2
    <3> QED BY <3>2
  <2>4. Len(log') > 0 => Len(log') + 6 <= Upto
    BY <1>2, <1>5, <2>1
  <2>5. ASSUME NEW k \in 1..Len(pending'), pending'[k][1] = "RT" PROVE pending'[k][2] \in Past'..Upto
    <3>1. PICK n \in 1..Len(pending) : n # i /\ pending'[k] = pending[n]
      BY <1>1
    <3>2. pending[n][1] = "RT" /\ pending[n][2] \in Past..Upto
      BY <2>5, <3>1 DEF InOrder
    <3>3. pending[i][1] = "RT" /\ pending[i][2] = Past
      BY <1>5
    <3>4. i < n
      <4>1. ASSUME n < i PROVE FALSE
        <5>1. n \in 1..(i - 1)
          BY <1>1, <4>1
        <5>2. pending[n][2] < Past
          BY <3>2, <3>3, <5>1 DEF InOrder
        <5> QED BY <1>2, <3>2, <5>2
      <4> QED BY <3>1, <4>1
    <3>5. i \in 1..(n - 1)
      BY <1>1, <3>4
    <3>6. Past < pending[n][2]
      BY <3>2, <3>3, <3>5 DEF InOrder
    <3> QED BY <1>2, <2>2, <3>1, <3>2, <3>6
  <2>6. ASSUME NEW v \in Past'..Upto PROVE \E k \in 1..Len(pending') : pending'[k] = <<"RT", v>>
    <3>1. v \in Past..Upto /\ v # Past
      BY <1>2, <2>2
    <3>2. PICK n \in 1..Len(pending) : pending[n] = <<"RT", v>>
      BY <3>1 DEF InOrder
    <3>3. n # i
      BY <1>5, <3>1, <3>2
    <3>4. PICK k \in 1..Len(pending') : pending'[k] = pending[n]
      BY <1>1, <3>3
    <3> QED BY <3>2, <3>4
  <2> QED BY <1>3, <2>1, <2>3, <2>4, <2>5, <2>6 DEF InOrder
<1> QED BY <1>4, <1>5
-----------------------------------------------------------------------------
\* The handlers are those of the program.
LEMMA StandingNext ==
    ASSUME prog' = prog, frames' \in Seq(Frame),
           \A i \in 1..Len(frames') : frames'[i].at \in 1..Len(Handler(frames'[i].sig))
    PROVE  Standing'
  BY DEF Standing, Handler

\* A signal is delivered: it ends the process, is dropped, or calls its handler.
LEMMA DeliverKeeps == ASSUME Inv, NEW sig \in Sigs, Deliver(sig) PROVE Inv'
<1>1. /\ ended = "no" /\ sig \notin Blocked /\ IsPending(sig) /\ pending' = Without(First(sig))
      /\ UNCHANGED <<prog, background, disp, old, canjump, armed, thread, directed, flag, asleep, left>>
  BY DEF Deliver, Deliverable, proc, jump, cond
<1>2. PICK i \in 1..Len(pending) :
         /\ First(sig) = i /\ pending[i][1] = sig /\ sig \in Coming[prog] /\ Sound(Without(i))
         /\ sig = "RT" => prog = "queue" /\ pending[i] = <<"RT", Past>> /\ Past \in 7..Upto
  BY <1>1, Delivered
<1>3. Text' = Text /\ at \in Nat /\ prog \in DOMAIN Texts
  BY <1>1, Steady DEF Inv, Values
<1>4. /\ suspended => prog = "suspend" /\ at = 4 /\ frames = <<>> /\ mask = {"INT"} /\ sig = "INT" /\ disp["INT"] = "handle"
      /\ ~suspended => sig \notin mask
  <2>1. suspended => prog = "suspend" /\ at = 4 /\ frames = <<>> /\ disp["INT"] = "handle" /\ sig # "USR1"
    BY <1>1 DEF Inv, Suspension, Disposed, Blocked
  <2>2. suspended => mask = {"INT"} /\ sig = "INT"
    BY <1>2, <2>1 DEF Inv, Masks, Base, Section, Blocks, Coming
  <2> QED BY <1>1, <2>1, <2>2 DEF Blocked
<1>5. Section /\ prog # "queue" /\ ~LetIn => /\ frames = <<>>
                                             /\ ~suspended => sig \notin Blocks[prog] /\ disp[sig] # "handle"
  <2>1. ASSUME Section, prog # "queue", ~LetIn PROVE frames = <<>> /\ mask = Blocks[prog]
    BY <2>1 DEF Inv, Quiet, Masks, Base
  <2>2. ASSUME Section, prog # "queue", ~LetIn, ~suspended PROVE sig \notin Blocks[prog] /\ disp[sig] # "handle"
    <3>1. sig \notin Blocks[prog]
      BY <1>4, <2>1, <2>2
    <3>2. CASE prog = "suspend"
      <4>1. sig = "USR1"
        BY <1>2, <3>1, <3>2 DEF Coming, Blocks
      <4> QED BY <3>1, <3>2, <4>1 DEF Inv, Disposed
    <3>3. CASE prog \in {"mask", "sigwait"}
      BY <1>2, <3>1, <3>3 DEF Coming, Blocks
    <3> QED BY <2>2, <3>2, <3>3 DEF Section
  <2> QED BY <2>1, <2>2
<1>6. Arriving'
  BY <1>1, <1>2 DEF Inv, Arriving, Sound
<1>7. CASE disp[sig] # "handle"
  <2>1. /\ UNCHANGED <<at, frames, mask, suspended, log>>
        /\ (disp[sig] = "default" /\ ended' = sig) \/ (disp[sig] = "ignore" /\ ended' = "no")
    BY <1>1, <1>7 DEF Deliver
  <2>2. Values'
    BY <1>1, <1>3, <2>1 DEF Inv, Values, Sigs
  <2>3. Standing' /\ Masks' /\ Suspension'
    BY <1>1, <2>1 DEF Inv, Standing, Handler, Masks, Base, Section, Suspension
  <2>4. Quiet'
    <3>1. ASSUME Section, prog # "queue", ~LetIn PROVE frames = <<>> /\ ended' \notin Blocks[prog]
      <4>1. ~suspended
        BY <1>4, <1>7
      <4>2. "no" \notin Blocks[prog]
        BY <3>1 DEF Section, Blocks
      <4> QED BY <1>5, <2>1, <3>1, <4>1, <4>2
    <3> QED BY <1>1, <2>1, <3>1 DEF Quiet, Section, LetIn
  <2>5. Disposed' /\ Jumping' /\ Signaller' /\ StackInUse' /\ BackgroundSurvives'
    BY <1>1, <2>1 DEF Inv, Disposed, Jumping, Signaller, StackInUse, BackgroundSurvives, Sigs
  <2>6. RealTime' /\ QueuedInOrder'
    <3>1. ended' # "exit"
      BY <2>1 DEF Sigs
    <3>2. ASSUME prog = "queue" PROVE InOrder'
      <4>1. pending[i][1] # "RT"
        <5>1. disp["RT"] # "handle" \/ sig # "RT"
          BY <1>7
        <5>2. at >= 3 => disp["RT"] = "handle"
          BY <3>2 DEF Inv, Disposed
        <5>3. sig = "RT" => 7 <= Upto
          BY <1>2, <1>3 DEF Upto
        <5>4. sig = "RT" => at >= 3
          BY <1>3, <5>3 DEF Upto
        <5> QED BY <1>2, <5>1, <5>2, <5>4
      <4>2. InOrder /\ Sound(pending) /\ Upto' = Upto /\ Upto <= 9
        BY <1>3, <2>1, <3>2 DEF Inv, RealTime, Arriving, Upto
      <4> QED BY <1>1, <1>2, <2>1, <4>1, <4>2, OrderTaken
    <3> QED BY <1>1, <3>1, <3>2 DEF RealTime, QueuedInOrder
  <2> QED BY <1>6, <2>2, <2>3, <2>4, <2>5, <2>6 DEF Inv
<1>8. CASE disp[sig] = "handle"
  <2>1. /\ ended' = "no" /\ frames' = Append(frames, [sig |-> sig, at |-> 1, saved |-> mask])
        /\ mask' = Blocked \cup {sig} /\ suspended' = FALSE
        /\ at' = (IF suspended THEN at + 1 ELSE at)
        /\ log' = IF sig = "RT" THEN Append(log, pending[First(sig)][2]) ELSE log
    BY <1>1, <1>8 DEF Deliver
  <2>2. Values'
    <3>1. at' \in 1..Len(Text)
      BY <1>3, <1>4, <2>1, Lengths DEF Inv, Values, Last
    <3>2. mask' \subseteq Sigs
      BY <2>1 DEF Blocked, Inv, Values, Sigs
    <3> QED BY <1>1, <1>3, <2>1, <3>1, <3>2 DEF Inv, Values
  <2> DEFINE f == [sig |-> sig, at |-> 1, saved |-> mask]
  <2>3. f \in Frame /\ f.at = 1 /\ f.saved = mask /\ f.sig = sig
    BY DEF Frame, Inv, Values
  <2>4. /\ frames' \in Seq(Frame) /\ Len(frames') = Len(frames) + 1 /\ Len(frames) \in Nat
        /\ \A k \in 1..Len(frames) : frames'[k] = frames[k]
        /\ frames'[Len(frames) + 1] = f
    <3>1. frames \in Seq(Frame) /\ frames' = Append(frames, f)
      BY <2>1 DEF Inv, Standing
    <3> HIDE DEF f
    <3> QED BY <2>3, <3>1
  <2> HIDE DEF f
  <2>5. Standing'
    <3>1. ASSUME NEW k \in 1..Len(frames') PROVE frames'[k].at \in 1..Len(Handler(frames'[k].sig))
      <4>1. CASE k \in 1..Len(frames)
        BY <2>4, <4>1 DEF Inv, Standing
      <4>2. CASE k = Len(frames) + 1
        BY <1>3, <2>3, <2>4, <4>2, HandlerCalls
      <4> QED BY <2>4, <4>1, <4>2
    <3> QED BY <1>1, <2>4, <3>1, StandingNext
  <2>6. Base' = Base
    BY <1>1, <1>4, <2>1 DEF Base, Section
  <2>7. Masks'
    <3>1. frames' # <<>> /\ Len(frames') >= 1
      BY <2>4
    <3>2. CASE frames = <<>>
      <4>1. frames'[1] = f
        BY <2>4, <3>2
      <4> QED BY <2>3, <2>6, <3>1, <3>2, <4>1 DEF Inv, Masks
    <3>3. CASE frames # <<>>
      <4>1. frames'[1] = frames[1]
        BY <2>4, <3>3 DEF Inv, Standing
      <4> QED BY <2>6, <3>1, <3>3, <4>1 DEF Inv, Masks
    <3> QED BY <3>2, <3>3
  <2>8. Suspension' /\ Quiet'
    <3>1. ~ (Section' /\ prog # "queue" /\ ~LetIn')
      BY <1>1, <1>4, <1>5, <1>8, <2>1 DEF Section, LetIn
    <3> QED BY <1>1, <2>1, <3>1 DEF Suspension, Quiet
  <2>9. Disposed' /\ Signaller' /\ StackInUse' /\ BackgroundSurvives'
    BY <1>1, <1>4, <2>1 DEF Inv, Disposed, Signaller, StackInUse, BackgroundSurvives
  <2>10. Jumping'
    <3> SUFFICES ASSUME prog = "jump" PROVE Jumping'
      BY <1>1 DEF Jumping
    <3>1. at' = at
      BY <1>4, <2>1
    <3>2. ASSUME NEW k \in 1..Len(frames'), frames'[k].at >= 2 PROVE at = 5 /\ (frames'[k].at = 4 => ~canjump)
      <4>1. k \in 1..Len(frames) /\ frames'[k] = frames[k]
        BY <2>3, <2>4, <3>2
      <4> QED BY <3>2, <4>1 DEF Inv, Jumping
    <3> QED BY <1>1, <3>1, <3>2 DEF Inv, Jumping
  <2>11. RealTime' /\ QueuedInOrder'
    <3>1. ASSUME prog = "queue" PROVE InOrder'
      <4>1. InOrder /\ Sound(pending) /\ Upto' = Upto /\ Upto <= 9
        BY <1>3, <1>4, <2>1, <3>1 DEF Inv, RealTime, Arriving, Upto
      <4>2. \/ pending[i][1] # "RT" /\ log' = log
            \/ pending[i] = <<"RT", Past>> /\ log' = Append(log, Past) /\ Past \in 7..Upto
        BY <1>2, <2>1
      <4> QED BY <1>1, <1>2, <4>1, <4>2, OrderTaken
    <3> QED BY <1>1, <2>1, <3>1 DEF RealTime, QueuedInOrder
  <2> QED BY <1>6, <2>2, <2>5, <2>7, <2>8, <2>9, <2>10, <2>11 DEF Inv
<1> QED BY <1>7, <1>8
-----------------------------------------------------------------------------
\* What a call of a handler starts from.
LEMMA Handled ==
    ASSUME Inv, NEW call, Handles(call)
    PROVE  /\ prog \in DOMAIN Texts /\ prog' = prog /\ Text' = Text /\ at \in Nat
           /\ ended = "no" /\ frames # <<>> /\ ~suspended /\ frames[1].saved = Base
           /\ ~ (Section /\ prog # "queue" /\ ~LetIn)
           /\ frames \in Seq(Frame) /\ Len(frames) \in Nat /\ Len(frames) >= 1
           /\ Top = frames[Len(frames)] /\ Top \in Frame
           /\ Top.at \in 1..Len(Handler(Top.sig)) /\ Handler(Top.sig)[Top.at] = call
           /\ UNCHANGED <<background, pending, old, log, thread, directed, flag, asleep, left>>
<1>1. prog \in DOMAIN Texts /\ prog' = prog /\ at \in Nat
  BY DEF Inv, Values, Handles, proc
<1>2. ended = "no" /\ frames # <<>> /\ Handler(Top.sig)[Top.at] = call
  BY DEF Handles
<1>3. frames \in Seq(Frame) /\ Len(frames) \in Nat /\ Len(frames) >= 1
  BY <1>2 DEF Inv, Standing
<1>4. Len(frames) \in 1..Len(frames)
  BY <1>3
<1>5. Top = frames[Len(frames)] /\ Top \in Frame /\ Top.at \in 1..Len(Handler(Top.sig))
  BY <1>3, <1>4 DEF Top, Inv, Standing
<1> QED BY <1>1, <1>2, <1>3, <1>5, Steady DEF Inv, Suspension, Masks, Quiet, Handles, proc, cond

\* A handler that neither jumps nor exits leaves main where it is.
LEMMA MainStays ==
    ASSUME Inv, NEW call, Handles(call), UNCHANGED <<at, ended, suspended>>
    PROVE  Suspension' /\ Quiet' /\ Signaller' /\ StackInUse' /\ RealTime' /\ QueuedInOrder' /\ Base' = Base
<1>1. Suspension' /\ Quiet' /\ Base' = Base
  BY Handled DEF Suspension, Quiet, Section, LetIn, Base
<1>2. Signaller' /\ StackInUse' /\ RealTime' /\ QueuedInOrder'
  BY Handled, Untouched
<1> QED BY <1>1, <1>2

\* A sequence without its last element.
LEMMA Shortened ==
    ASSUME NEW S, NEW s \in Seq(S), Len(s) >= 1
    PROVE  LET r == SubSeq(s, 1, Len(s) - 1)
           IN  r \in Seq(S) /\ Len(r) = Len(s) - 1 /\ \A k \in 1..Len(r) : k \in 1..Len(s) /\ r[k] = s[k]
<1> DEFINE m == Len(s) - 1
<1>1. m \in Nat /\ m <= Len(s) /\ Len(s) \in Nat
  OBVIOUS
<1>2. SubSeq(s, 1, m) \in Seq(S) /\ Len(SubSeq(s, 1, m)) = m /\ \A k \in 1..m : SubSeq(s, 1, m)[k] = s[k]
  <2> HIDE DEF m
  <2> QED BY <1>1
<1> QED BY <1>1, <1>2

\* A handler's frame after one more call.
LEMMA Advanced ==
    ASSUME NEW t \in Frame
    PROVE  LET f == [t EXCEPT !.at = @ + 1]
           IN  f \in Frame /\ f.at = t.at + 1 /\ f.sig = t.sig /\ f.saved = t.saved
  BY DEF Frame

\* A handler returns, with the mask of before.
LEMMA ReturnKeeps == ASSUME Inv, Return PROVE Inv'
<1>0. PICK call \in {"return", "check"} : Handles(call)
  BY DEF Return
<1>1. UNCHANGED <<at, suspended, disp, canjump, armed, ended>> /\ frames' = SubSeq(frames, 1, Len(frames) - 1) /\ mask' = Top.saved
  BY DEF Return, Pop, jump
<1>2. /\ frames' \in Seq(Frame) /\ Len(frames') = Len(frames) - 1
      /\ \A k \in 1..Len(frames') : k \in 1..Len(frames) /\ frames'[k] = frames[k]
  <2>1. frames \in Seq(Frame) /\ Len(frames) \in Nat /\ Len(frames) >= 1
    BY <1>0, Handled
  <2> QED BY <1>1, <2>1, Shortened
<1>3. Values'
  <2>1. Top.saved \subseteq Sigs
    BY <1>0, Handled DEF Frame
  <2> QED BY <1>0, <1>1, <2>1, Handled DEF Inv, Values
<1>4. Standing'
  <2>1. ASSUME NEW k \in 1..Len(frames') PROVE frames'[k].at \in 1..Len(Handler(frames'[k].sig))
    BY <1>2, <2>1 DEF Inv, Standing
  <2> QED BY <1>0, <1>2, <2>1, Handled, StandingNext
<1>5. Masks'
  <2>1. CASE Len(frames) = 1
    <3>1. frames' = <<>>
      BY <1>2, <2>1
    <3>2. mask' = Base
      BY <1>0, <1>1, <2>1, Handled
    <3> QED BY <1>0, <1>1, <3>1, <3>2, MainStays DEF Masks
  <2>2. CASE Len(frames) # 1
    <3>1. Len(frames') >= 1 /\ 1 \in 1..Len(frames')
      BY <1>0, <1>2, <2>2, Handled
    <3>2. frames' # <<>> /\ frames'[1] = frames[1]
      BY <1>2, <3>1
    <3> QED BY <1>0, <1>1, <3>2, Handled, MainStays DEF Masks
  <2> QED BY <2>1, <2>2
<1>6. Jumping'
  BY <1>0, <1>1, <1>2, Handled DEF Inv, Jumping
<1>7. Arriving' /\ Disposed' /\ BackgroundSurvives'
  BY <1>0, <1>1, Handled, Untouched
<1> QED BY <1>0, <1>1, <1>3, <1>4, <1>5, <1>6, <1>7, MainStays DEF Inv

\* A handler goes on to its next call.
LEMMA ProceedKeeps == ASSUME Inv, Proceed PROVE Inv'
<1>0. PICK call \in {"check", "alarm", "reset", "default"} : Handles(call)
  BY DEF Proceed
<1>1. UNCHANGED <<at, suspended, mask, ended>> /\ frames' = [frames EXCEPT ![Len(frames)].at = @ + 1]
  BY DEF Proceed, Advance
<1>2. /\ Top.at + 1 \in 1..Len(Handler(Top.sig)) /\ Top.at \in Nat
      /\ \/ /\ call = "check" /\ prog = "jump" /\ Top.at = 1
         \/ /\ call = "alarm" /\ prog = "jump" /\ Top.at = 2
         \/ /\ call = "reset" /\ prog = "jump" /\ Top.at = 3
         \/ /\ call = "default" /\ prog = "mask"
  BY <1>0, Handled, HandlerCalls DEF Frame
<1>3. /\ call = "check" => canjump /\ UNCHANGED <<canjump, armed, disp>>
      /\ call = "alarm" => armed' = TRUE /\ UNCHANGED <<canjump, disp>>
      /\ call = "reset" => canjump' = FALSE /\ UNCHANGED <<armed, disp>>
      /\ call = "default" => disp' = [disp EXCEPT !["QUIT"] = "default"] /\ UNCHANGED <<canjump, armed>>
  <2>1. \A c : Handles(c) => c = call
    BY <1>0 DEF Handles
  <2> QED BY <2>1 DEF Proceed, jump
<1> DEFINE n == Len(frames)
           f == [Top EXCEPT !.at = @ + 1]
<1>4. f \in Frame /\ f.at = Top.at + 1 /\ f.sig = Top.sig /\ f.saved = Top.saved
  BY <1>0, Handled, Advanced
<1>5. /\ frames' \in Seq(Frame) /\ Len(frames') = n /\ n \in Nat /\ n >= 1
      /\ frames'[n] = f
      /\ \A k \in 1..n : k # n => frames'[k] = frames[k]
  <2>1. frames \in Seq(Frame) /\ n \in Nat /\ n >= 1 /\ Top = frames[n]
    BY <1>0, Handled
  <2>2. frames' = [frames EXCEPT ![n] = f]
    BY <1>1, <2>1
  <2> HIDE DEF f
  <2> QED BY <1>4, <2>1, <2>2
<1> HIDE DEF n, f
<1>6. Values'
  <2>1. disp' \in [Sigs -> {"default", "ignore", "handle"}] /\ canjump' \in BOOLEAN /\ armed' \in BOOLEAN
    <3>1. disp \in [Sigs -> {"default", "ignore", "handle"}] /\ canjump \in BOOLEAN /\ armed \in BOOLEAN
      BY DEF Inv, Values
    <3>2. CASE call = "default"
      BY <1>3, <3>1, <3>2 DEF Sigs
    <3>3. CASE call # "default"
      BY <1>0, <1>3, <3>1, <3>3
    <3> QED BY <3>2, <3>3
  <2> QED BY <1>0, <1>1, <2>1, Handled DEF Inv, Values
<1>7. Standing'
  <2>1. ASSUME NEW k \in 1..Len(frames') PROVE frames'[k].at \in 1..Len(Handler(frames'[k].sig))
    <3>1. CASE k = n
      BY <1>2, <1>4, <1>5, <3>1
    <3>2. CASE k # n
      BY <1>5, <3>2 DEF Inv, Standing, n
    <3> QED BY <3>1, <3>2
  <2> QED BY <1>0, <1>5, <2>1, Handled, StandingNext
<1>8. Masks'
  <2>1. frames' # <<>>
    BY <1>5
  <2>2. frames'[1].saved = Base
    <3>1. CASE n = 1
      BY <1>0, <1>4, <1>5, <3>1, Handled DEF n
    <3>2. CASE n # 1
      BY <1>0, <1>5, <3>2, Handled
    <3> QED BY <3>1, <3>2
  <2> QED BY <1>0, <1>1, <2>1, <2>2, MainStays DEF Masks
<1>9. Arriving'
  BY <1>0, <1>2, <1>3, Handled DEF Inv, Arriving, Sound
<1>10. Disposed' /\ BackgroundSurvives'
  <2>1. CASE prog = "mask"
    BY <1>0, <2>1, Handled DEF Disposed, BackgroundSurvives
  <2>2. CASE prog = "jump"
    BY <1>0, <2>2, Handled DEF Disposed, BackgroundSurvives
  <2> QED BY <1>2, <2>1, <2>2
<1>11. Jumping'
  <2> SUFFICES ASSUME prog = "jump"
               PROVE  /\ canjump' => at = 5
                      /\ \A k \in 1..Len(frames') : frames'[k].at >= 2 => at = 5 /\ (frames'[k].at = 4 => ~canjump')
    BY <1>0, <1>1, Handled DEF Jumping
  <2>0. /\ canjump => at = 5
        /\ \A k \in 1..Len(frames) : frames[k].at >= 2 => at = 5 /\ (frames[k].at = 4 => ~canjump)
    BY DEF Inv, Jumping
  <2>1. canjump' => canjump
    BY <1>0, <1>2, <1>3
  <2>2. n \in 1..n /\ Top = frames[n]
    BY <1>0, <1>5, Handled DEF n
  <2>3. at = 5
    BY <1>2, <1>3, <2>0, <2>2 DEF n
  <2>4. f.at = 4 => ~canjump'
    BY <1>2, <1>3, <1>4
  <2>5. ASSUME NEW k \in 1..Len(frames'), frames'[k].at = 4 PROVE ~canjump'
    <3>1. CASE k = n
      BY <1>5, <2>4, <2>5, <3>1
    <3>2. CASE k # n
      BY <1>5, <2>0, <2>1, <2>5, <3>2 DEF n
    <3> QED BY <3>1, <3>2
  <2> QED BY <2>3, <2>5
<1> QED BY <1>0, <1>1, <1>6, <1>7, <1>8, <1>9, <1>10, <1>11, MainStays DEF Inv

\* A handler jumps behind main's pause.
LEMMA JumpKeeps == ASSUME Inv, Jump PROVE Inv'
<1>0. Handles("jump") /\ frames' = <<>> /\ mask' = {} /\ at' = Pos("exit") /\ UNCHANGED <<suspended, disp, canjump, armed, ended>>
  BY DEF Jump, jump
<1>1. prog = "jump" /\ Top.at = 4
  BY <1>0, Handled, HandlerCalls
<1>2. ~canjump
  <2>1. Len(frames) \in 1..Len(frames) /\ Top = frames[Len(frames)]
    BY <1>0, Handled
  <2> QED BY <1>1, <2>1 DEF Inv, Jumping
<1>3. Len(Text) = 6 /\ Pos("exit") = 6
  <2>1. Len(Text) = 6
    BY <1>1 DEF Text, Texts, JumpMain
  <2>2. ASSUME NEW i \in 1..6 PROVE Text[i][1] = "exit" <=> i = 6
    <3>1. i = 1 \/ i = 2 \/ i = 3 \/ i = 4 \/ i = 5 \/ i = 6
      OBVIOUS
    <3> QED BY <1>1, <3>1 DEF Text, Texts, JumpMain
  <2> QED BY <2>1, <2>2 DEF Pos
<1>4. prog' = prog /\ ~Section' /\ Base' = {} /\ Text' = Text
  BY <1>0, <1>1, Handled DEF Section, Base
<1>5. Values'
  <2>1. at' \in 1..Len(Text') /\ mask' \subseteq Sigs
    BY <1>0, <1>3, <1>4
  <2> QED BY <1>0, <2>1, Handled DEF Inv, Values
<1>6. Standing' /\ Masks' /\ Suspension' /\ Quiet'
  BY <1>0, <1>4, Handled DEF Standing, Masks, Suspension, Quiet
<1>7. Arriving' /\ RealTime' /\ QueuedInOrder'
  BY <1>0, <1>1, Handled, Untouched
<1>8. Disposed' /\ BackgroundSurvives' /\ Jumping' /\ Signaller' /\ StackInUse'
  BY <1>0, <1>1, <1>2, Handled DEF Disposed, BackgroundSurvives, Jumping, Signaller, StackInUse, Inv
<1> QED BY <1>5, <1>6, <1>7, <1>8 DEF Inv

\* A handler ends the process.
LEMMA HandlerExitKeeps == ASSUME Inv, HandlerExit PROVE Inv'
<1>0. Handles("exit") /\ ended' = "exit" /\ UNCHANGED <<at, frames, mask, suspended, disp, canjump, armed>>
  BY DEF HandlerExit, jump
<1>1. prog = "signal" /\ prog' = prog /\ ~Section /\ ~Section'
  BY <1>0, Handled, HandlerCalls DEF Section
<1>2. Values'
  BY <1>0, Handled DEF Inv, Values
<1>3. Standing' /\ Masks' /\ Suspension' /\ Quiet'
  BY <1>0, <1>1, Handled DEF Inv, Standing, Handler, Masks, Base, Suspension, Quiet
<1>4. Arriving' /\ RealTime' /\ QueuedInOrder' /\ Jumping'
  BY <1>0, <1>1, Handled, Untouched
<1>5. Disposed' /\ BackgroundSurvives' /\ Signaller' /\ StackInUse'
  BY <1>0, <1>1, Handled DEF Disposed, BackgroundSurvives, Signaller, StackInUse, Inv
<1> QED BY <1>2, <1>3, <1>4, <1>5 DEF Inv
-----------------------------------------------------------------------------
\* What a step of the signal thread starts from, and what it leaves alone.
LEMMA ThreadRuns ==
    ASSUME Inv, NEW from, NEW to, Thread(from, to), from # "none"
    PROVE  /\ prog = "sigwait" /\ prog' = prog /\ Text' = Text /\ ended = "no" /\ thread = from /\ thread' = to
           /\ UNCHANGED <<background, at, frames, mask, suspended, disp, old, canjump, armed, log, ended, left>>
           /\ Standing' /\ Masks' /\ Quiet' /\ Suspension' /\ Disposed' /\ BackgroundSurvives' /\ Jumping'
           /\ RealTime' /\ QueuedInOrder'
<1>1. /\ prog' = prog /\ ended = "no" /\ thread = from /\ thread' = to
      /\ UNCHANGED <<background, at, frames, mask, suspended, disp, old, canjump, armed, log, ended, left>>
  BY DEF Thread, proc, kernel, jump
<1>2. prog = "sigwait"
  BY <1>1 DEF Inv, Signaller
<1>3. Standing' /\ Masks' /\ Quiet' /\ Suspension'
  BY <1>1 DEF Inv, Standing, Handler, Masks, Base, Section, LetIn, Quiet, Suspension
<1>4. Disposed' /\ BackgroundSurvives' /\ Jumping' /\ RealTime' /\ QueuedInOrder'
  BY <1>1, <1>2, Untouched
<1> QED BY <1>1, <1>2, <1>3, <1>4, Steady

\* The thread copies the mask.
LEMMA CopyMaskKeeps == ASSUME Inv, CopyMask PROVE Inv'
<1>1. Thread("copy", "sigwait") /\ UNCHANGED <<pending, directed, flag, asleep>>
  BY DEF CopyMask
<1>2. Values'
  BY <1>1, ThreadRuns DEF Inv, Values
<1>3. Arriving'
  BY <1>1, ThreadRuns, Untouched
<1>4. Signaller' /\ StackInUse'
  BY <1>1, ThreadRuns DEF Inv, Signaller, StackInUse
<1> QED BY <1>1, <1>2, <1>3, <1>4, ThreadRuns DEF Inv

\* The thread takes a signal.
LEMMA SigwaitKeeps == ASSUME Inv, Sigwait PROVE Inv'
<1>1. CASE directed # "none" /\ directed' = "none" /\ Thread("sigwait", "sigwait") /\ UNCHANGED <<pending, flag, asleep>>
  <2>1. Values'
    BY <1>1, ThreadRuns DEF Inv, Values
  <2>2. Arriving'
    BY <1>1, ThreadRuns, Untouched
  <2>3. Signaller' /\ StackInUse'
    BY <1>1, ThreadRuns DEF Inv, Signaller, StackInUse
  <2> QED BY <1>1, <2>1, <2>2, <2>3, ThreadRuns DEF Inv
<1>2. ASSUME NEW sig \in Blocks.sigwait, IsPending(sig), pending' = Without(First(sig)),
             Thread("sigwait", IF sig = "QUIT" THEN "set" ELSE "sigwait"), UNCHANGED <<directed, flag, asleep>>
      PROVE  Inv'
  <2>0. sig \in Sigs
    BY DEF Blocks, Sigs
  <2>1. thread = "sigwait" /\ thread' \in {"set", "sigwait"}
    BY <1>2 DEF Thread
  <2>2. Values'
    BY <1>2, <2>1, ThreadRuns DEF Inv, Values
  <2>3. Arriving'
    <3>1. Sound(Without(First(sig)))
      BY <1>2, <2>0, Delivered
    <3> QED BY <1>2, <3>1, ThreadRuns DEF Inv, Arriving, Sound
  <2>4. Signaller' /\ StackInUse'
    BY <1>2, <2>1, ThreadRuns DEF Inv, Signaller, StackInUse
  <2> QED BY <1>2, <2>2, <2>3, <2>4, ThreadRuns DEF Inv
<1> QED BY <1>1, <1>2 DEF Sigwait

\* The thread sets the flag.
LEMMA SetFlagKeeps == ASSUME Inv, SetFlag PROVE Inv'
<1>1. Thread("set", "signal") /\ flag' = TRUE /\ UNCHANGED <<pending, directed, asleep>>
  BY DEF SetFlag
<1>2. Values'
  BY <1>1, ThreadRuns DEF Inv, Values
<1>3. Arriving'
  BY <1>1, ThreadRuns, Untouched
<1>4. Signaller' /\ StackInUse'
  BY <1>1, ThreadRuns DEF Inv, Signaller, StackInUse
<1> QED BY <1>1, <1>2, <1>3, <1>4, ThreadRuns DEF Inv

\* The thread signals the condition variable.
LEMMA CondSignalKeeps == ASSUME Inv, CondSignal PROVE Inv'
<1>1. Thread("signal", "sigwait") /\ asleep' = FALSE /\ UNCHANGED <<pending, directed, flag>>
  BY DEF CondSignal
<1>2. Values'
  BY <1>1, ThreadRuns DEF Inv, Values
<1>3. Arriving'
  BY <1>1, ThreadRuns, Untouched
<1>4. Signaller' /\ StackInUse'
  BY <1>1, ThreadRuns DEF Inv, Signaller, StackInUse
<1> QED BY <1>1, <1>2, <1>3, <1>4, ThreadRuns DEF Inv

\* main wakes up, or nothing happens.
LEMMA WakeupKeeps == ASSUME Inv, Wakeup \/ UNCHANGED vars PROVE Inv'
<1>1. /\ UNCHANGED <<prog, background, at, frames, mask, suspended, pending, disp, old, canjump, armed, log>>
      /\ UNCHANGED <<thread, directed, flag, ended, left>>
      /\ asleep' = FALSE \/ asleep' = asleep
  BY DEF Wakeup, vars, proc, kernel, jump, cond
<1>2. Values'
  <2>1. asleep' \in BOOLEAN
    BY <1>1 DEF Inv, Values
  <2> QED BY <1>1, <2>1, Steady DEF Inv, Values
<1>3. Standing' /\ Masks' /\ Quiet' /\ Suspension'
  BY <1>1 DEF Inv, Standing, Handler, Masks, Base, Section, LetIn, Quiet, Suspension
<1>4. Arriving' /\ Disposed' /\ BackgroundSurvives' /\ Jumping' /\ Signaller' /\ StackInUse' /\ RealTime' /\ QueuedInOrder'
  BY <1>1, Untouched
<1> QED BY <1>2, <1>3, <1>4 DEF Inv
-----------------------------------------------------------------------------
\* A program starts before its section, with nothing pending.
LEMMA Initially == Init => Inv
<1> SUFFICES ASSUME Init PROVE Inv
  OBVIOUS
<1>1. prog \in {"signal", "mask", "jump", "suspend", "queue", "sigwait"} /\ prog \in DOMAIN Texts /\ at = 1
  BY DEF Init, Texts
<1>2. Values
  <2>1. at \in 1..Len(Text)
    BY <1>1, Lengths DEF Last
  <2>2. disp \in [Sigs -> {"default", "ignore", "handle"}]
    BY DEF Init
  <2>3. left \in 0..Sends
    BY SendsAssumption DEF Init
  <2> QED BY <2>1, <2>2, <2>3 DEF Init, Values
<1>3. Standing /\ Masks /\ Quiet /\ Suspension
  BY <1>1 DEF Init, Standing, Masks, Base, Section, Quiet, Suspension
<1>4. Arriving
  BY DEF Init, Arriving, Sound
<1>5. Disposed /\ BackgroundSurvives
  BY <1>1 DEF Init, Disposed, BackgroundSurvives, Sigs
<1>6. Jumping /\ Signaller /\ StackInUse
  BY <1>1 DEF Init, Jumping, Signaller, StackInUse
<1>7. RealTime /\ QueuedInOrder
  <2>1. log = <<>> /\ Len(log) = 0 /\ log \in Seq(Nat) /\ pending = <<>> /\ Len(pending) = 0
    BY DEF Init
  <2>2. Past = 7 /\ Upto = 0
    BY <1>1, <2>1 DEF Past, Upto
  <2>3. InOrder
    BY <2>1, <2>2 DEF InOrder
  <2> QED BY <2>3 DEF RealTime, QueuedInOrder, Init
<1> QED BY <1>2, <1>3, <1>4, <1>5, <1>6, <1>7 DEF Inv

\* Every step keeps the invariant.
LEMMA Step == Inv /\ [Next]_vars => Inv'
<1> SUFFICES ASSUME Inv, [Next]_vars PROVE Inv'
  OBVIOUS
<1>1. CASE Handle \/ Ignore \/ Unignore \/ Block \/ Restore \/ Busy \/ CanJump \/ Suspend \/ Queue \/ Exit
  BY <1>1, HandleKeeps, IgnoreKeeps, UnignoreKeeps, BlockKeeps, RestoreKeeps, BusyKeeps, CanJumpKeeps, SuspendKeeps,
     QueueKeeps, ExitKeeps
<1>2. CASE Create \/ PthreadKill \/ WaitFlag
  BY <1>2, CreateKeeps, PthreadKillKeeps, WaitFlagKeeps
<1>3. CASE Return \/ Proceed \/ Jump \/ HandlerExit
  BY <1>3, ReturnKeeps, ProceedKeeps, JumpKeeps, HandlerExitKeeps
<1>4. ASSUME NEW sig \in Sigs, Deliver(sig) PROVE Inv'
  BY <1>4, DeliverKeeps
<1>5. CASE SignalThread
  BY <1>5, CopyMaskKeeps, SigwaitKeeps, SetFlagKeeps, CondSignalKeeps DEF SignalThread
<1>6. ASSUME NEW sig \in Sigs, Send(sig) PROVE Inv'
  BY <1>6, SendKeeps
<1>7. CASE Ring
  <2>1. "ALRM" \in Sigs
    BY DEF Sigs
  <2> QED BY <1>7, <2>1, SendKeeps
<1>8. CASE Wakeup \/ UNCHANGED vars
  BY <1>8, WakeupKeeps
<1>9. CASE Rest
  BY <1>9, WakeupKeeps DEF Rest
<1> QED BY <1>1, <1>2, <1>3, <1>4, <1>5, <1>6, <1>7, <1>8, <1>9 DEF Next, Main

\* The section of a program, by the calls that main has passed.
LEMMA Sections ==
    ASSUME prog \in {"mask", "suspend", "sigwait"}, at \in 1..Last, Passed("block"), ~Passed("restore"), ~Passed("suspend")
    PROVE  Section /\ ~LetIn
<1>1. CASE prog = "mask"
  <2>1. /\ \A i \in 1..7 : Text[i][1] = "block" => i = 2
        /\ Text[5][1] = "restore"
    <3>1. \A i \in 1..7 : i = 1 \/ i = 2 \/ i = 3 \/ i = 4 \/ i = 5 \/ i = 6 \/ i = 7
      OBVIOUS
    <3> QED BY <1>1, <3>1 DEF Text, Texts, MaskMain
  <2>2. at \in 1..7
    BY <1>1 DEF Last
  <2>3. at >= 3 /\ at <= 5
    BY <2>1, <2>2 DEF Passed
  <2> QED BY <1>1, <2>2, <2>3 DEF Section, LetIn
<1>2. CASE prog = "suspend"
  <2>1. /\ \A i \in 1..6 : Text[i][1] = "block" => i = 2
        /\ Text[4][1] = "suspend"
    <3>1. \A i \in 1..6 : i = 1 \/ i = 2 \/ i = 3 \/ i = 4 \/ i = 5 \/ i = 6
      OBVIOUS
    <3> QED BY <1>2, <3>1 DEF Text, Texts, SuspendMain
  <2>2. at \in 1..6
    BY <1>2 DEF Last
  <2>3. at >= 3 /\ at <= 4
    BY <2>1, <2>2 DEF Passed
  <2> QED BY <1>2, <2>2, <2>3 DEF Section, LetIn
<1>3. CASE prog = "sigwait"
  <2>1. /\ \A i \in 1..7 : Text[i][1] = "block" => i = 1
        /\ Text[6][1] = "restore"
    <3>1. \A i \in 1..7 : i = 1 \/ i = 2 \/ i = 3 \/ i = 4 \/ i = 5 \/ i = 6 \/ i = 7
      OBVIOUS
    <3> QED BY <1>3, <3>1 DEF Text, Texts, WaitMain
  <2>2. at \in 1..7
    BY <1>3 DEF Last
  <2>3. at >= 2 /\ at <= 6
    BY <2>1, <2>2 DEF Passed
  <2> QED BY <1>3, <2>2, <2>3 DEF Section, LetIn
<1> QED BY <1>1, <1>2, <1>3

\* The invariant says that whenever a signal comes, it finds what its handler needs.
LEMMA Sufficient == Inv => Safety
<1> SUFFICES ASSUME Inv PROVE Safety
  OBVIOUS
<1>0. prog \in DOMAIN Texts /\ at \in 1..Len(Text) /\ at \in 1..Last
  BY Lengths DEF Inv, Values
<1>1. TypeOK
  <2>1. ASSUME NEW i \in 1..Len(frames)
        PROVE  frames[i].sig \in Sigs /\ frames[i].at \in 1..Len(Handler(frames[i].sig))
    <3>1. frames \in Seq(Frame) /\ frames[i].at \in 1..Len(Handler(frames[i].sig))
      BY DEF Inv, Standing
    <3>2. frames[i] \in Frame
      BY <3>1
    <3> QED BY <3>1, <3>2 DEF Frame
  <2>2. ASSUME NEW i \in 1..Len(pending)
        PROVE  /\ pending[i][1] \in Sigs
               /\ pending[i][1] # "RT" => \A j \in 1..(i - 1) : pending[j][1] # pending[i][1]
    BY DEF Inv, Arriving, Sound
  <2> QED BY <2>1, <2>2 DEF Inv, Values, TypeOK
<1>2. QuietSection
  BY <1>0, Sections DEF Inv, Quiet, QuietSection, Section
<1>3. JumpsOnce
  <2> SUFFICES ASSUME prog = "jump"
               PROVE  /\ \A i \in 1..Len(frames) : UsrHandler[frames[i].at] = "jump" => Passed("sigsetjmp")
                      /\ Text[at][1] = "exit" => ~canjump /\ (frames = <<>> => mask = {})
    BY DEF JumpsOnce
  <2>0. /\ canjump => at = 5
        /\ \A i \in 1..Len(frames) : frames[i].at >= 2 => at = 5
    BY DEF Inv, Jumping
  <2>1. ASSUME NEW i \in 1..Len(frames), UsrHandler[frames[i].at] = "jump" PROVE Passed("sigsetjmp")
    <3>0. frames[i].at \in Nat /\ UsrHandler[1] = "check"
      BY DEF Inv, Standing, Frame, UsrHandler
    <3>1. frames[i].at >= 1
      BY <3>0 DEF Inv, Standing
    <3>2. frames[i].at >= 2
      BY <2>1, <3>0, <3>1
    <3>3. at = 5 /\ 3 \in 1..(at - 1)
      BY <2>0, <3>2
    <3>4. Text[3][1] = "sigsetjmp"
      BY DEF Text, Texts, JumpMain
    <3> QED BY <3>3, <3>4 DEF Passed
  <2>2. ASSUME Text[at][1] = "exit" PROVE ~canjump /\ (frames = <<>> => mask = {})
    <3>1. at = 6
      BY <1>0, <2>2, Located DEF Name, Last
    <3>2. ~canjump
      BY <2>0, <3>1
    <3>3. frames = <<>> => mask = {}
      BY DEF Inv, Masks, Base, Section
    <3> QED BY <3>2, <3>3
  <2> QED BY <2>1, <2>2
<1> QED BY <1>1, <1>2, <1>3 DEF Inv, Safety

\* However many signals come from outside, and whenever: the inductive invariant
\* holds in every state of every one of the programs.
THEOREM Invariance == Spec => []Inv
<1> QED BY Initially, Step, PTL DEF Spec

\* A blocked section is neither interrupted nor ended (10-15, 10-22, 12-16), a
\* handler jumps once and into a buffer that is set (10-20), the terminal's
\* signals do not end a background program (10-02), queued signals are handled
\* all and in the order of the calls (10-30), and main does not leave the stack
\* that the thread reads (12-16).
THEOREM SignalsFindTheirHandlers == Spec => []Safety
<1> QED BY Invariance, Sufficient, PTL
=============================================================================
