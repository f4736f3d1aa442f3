------------------------------ MODULE IpcProofs -------------------------------
(***************************************************************************)
(* For any number of lines, any pipe and any queue: what is read is what   *)
(* was written, once and in order, and nobody dies of a channel or object  *)
(* that is not there; the named semaphore lets one process in at a time.   *)
(***************************************************************************)
EXTENDS Ipc, TLAPS

\* The functions of the state.
Shape ==
    /\ prog \in DOMAIN Texts
    /\ at \in [Procs -> Nat] /\ holds \in [Procs -> SUBSET Procs]
    /\ sent \in [Procs -> Nat] /\ got \in [Procs -> Nat]
    /\ dead \subseteq Procs /\ trouble \in BOOLEAN
    /\ named \in BOOLEAN /\ sem \in {0, 1} /\ shm \in {"absent", "blank", "half", "whole"}

\* The number of the last call.
Last(p) ==
    IF prog = "fifo" THEN IF p = "parent" THEN 5 ELSE 2
    ELSE IF prog = "pipe" THEN IF p = "parent" THEN 4 ELSE 2
    ELSE IF prog = "popen" THEN IF p = "parent" THEN Lines + 5 ELSE 2
    ELSE IF prog = "pair" THEN IF p = "parent" THEN 8 ELSE 4
    ELSE IF prog = "queue" THEN IF p = "parent" THEN 12 ELSE 9
    ELSE IF p = "parent" THEN 26 ELSE 17

Ended(p) == p \in dead \/ at[p] > Last(p)
Lives(p) == at[p] > 0 /\ ~Ended(p)

\* The number of the call of fork, and of the last call that the wait precedes.
ForkAt == IF prog \in {"queue", "sem"} THEN 1 ELSE 2
WaitAt == IF prog = "queue" THEN 11 ELSE 24

\* The child runs from the fork on, and only then may a process be killed; a
\* parent without a child has come to its end.
Forked ==
    /\ at["parent"] \in 1..(Last("parent") + 1) /\ at["child"] \in 0..(Last("child") + 1)
    /\ at["child"] = 0 => at["parent"] <= ForkAt \/ at["parent"] = Last("parent") + 1
    /\ at["child"] > 0 => at["parent"] > ForkAt
    /\ "parent" \in dead => at["child"] > 0 \/ prog = "popen"
    /\ "child" \in dead => at["child"] > 0
    /\ "parent" \in dead => at["parent"] <= Last("parent")
    /\ "child" \in dead => at["child"] <= Last("child")

\* The parent removes objects when the child has ended.
Waited ==
    prog \in {"queue", "sem"} /\ at["parent"] > WaitAt /\ at["child"] > 0 => Ended("child")

\* Nothing is read that was not written, nothing is full beyond its limit, and
\* only a queue has something in it before the fork.
Fits ==
    /\ got["parent"] <= sent["child"] /\ got["child"] <= sent["parent"]
    /\ prog # "queue" => sent["child"] - got["parent"] <= Cap /\ sent["parent"] - got["child"] <= Cap
    /\ prog = "queue" => (sent["parent"] - got["child"]) + (sent["child"] - got["parent"]) <= QueueMax
    /\ prog # "queue" /\ at["child"] = 0 => sent["parent"] = 0 /\ sent["child"] = 0

\* Who has which end of a pipe or socket pair open.
HangAt == IF prog = "popen" THEN Lines + 4 ELSE IF prog = "pair" THEN 7 ELSE 4

PipeEnds ==
    prog \in {"pipe", "popen", "pair"} =>
        /\ at["parent"] = 2 /\ "parent" \notin dead =>
              holds["parent"] = {"parent"} /\ holds["child"] = {"parent"}
        /\ at["child"] > 0 =>
              /\ "parent" \in holds["parent"] <=> Lives("parent") /\ at["parent"] <= HangAt
              /\ "child" \in holds["parent"] <=> Lives("child") /\ at["child"] = 1
              /\ "child" \in holds["child"] <=> Lives("child")
              /\ "parent" \in holds["child"] <=> Lives("parent") /\ at["parent"] <= 3

\* The opens of a fifo meet.
FifoEnds ==
    prog = "fifo" =>
        /\ at["parent"] <= 2 => holds["parent"] = {} /\ holds["child"] = {}
        /\ at["child"] > 0 => (at["parent"] > 3 <=> at["child"] > 1)
        /\ holds["parent"] \subseteq {"parent"} /\ holds["child"] \subseteq {"child"}
        /\ "parent" \in holds["parent"] => Lives("parent")
        /\ "child" \in holds["child"] => Lives("child")
        /\ Lives("parent") /\ at["parent"] > 3 => "parent" \in holds["parent"]
        /\ Lives("child") /\ at["child"] > 1 => "child" \in holds["child"]

\* While nothing goes wrong, what was sent and got follows from where the two
\* are, and neither is ahead of what it needs from the other one.
Counts ==
    ~trouble /\ at["child"] > 0 =>
        /\ prog \in {"fifo", "pipe", "pair"} => sent["parent"] = IF at["parent"] > 4 THEN 1 ELSE 0
        /\ prog \in {"fifo", "pipe"} =>
              /\ got["child"] = IF at["child"] > 2 THEN 1 ELSE 0
              /\ at["child"] > 2 => at["parent"] > 4
        /\ prog = "popen" /\ at["child"] > 2 => at["parent"] > Lines + 4
        /\ prog = "pair" =>
              /\ sent["child"] = IF at["child"] > 2 THEN 1 ELSE 0
              /\ got["parent"] = IF at["parent"] > 6 THEN 1 ELSE 0
              /\ got["child"] = IF at["child"] > 4 THEN 1 ELSE 0
              /\ at["parent"] > 5 => at["child"] > 2
              /\ at["child"] > 3 => at["parent"] > 4

\* The queue is there until the parent removes it, and there is no memory but
\* that of the semaphore's program.
Objects ==
    /\ prog = "queue" /\ at["parent"] > 12 /\ at["child"] > 0 => ~named
    /\ prog # "sem" => shm = "absent"

\* p is behind a lock call and not behind the unlock call that follows.
Inner(p) ==
    IF p = "parent" THEN at[p] \in 5..23 /\ at[p] % 4 # 0 ELSE at[p] \in 4..17 /\ at[p] % 3 # 0

\* The semaphore is taken by who is inside, or by nobody that is known.
Guard ==
    prog = "sem" =>
        /\ \A p \in Procs : Inner(p) => sem = 0 /\ ~Inner(Other(p))
        /\ (at["child"] > 1 \/ at["parent"] > 2) /\ at["parent"] <= 25 => named
        /\ at["parent"] > 25 /\ at["child"] > 0 => ~named

\* Behind the parent's first section, the text is half written only within one.
Memory ==
    prog = "sem" =>
        /\ at["parent"] \in 7..25 /\ at["parent"] % 4 # 2 => shm = "whole"
        /\ at["parent"] > 26 /\ at["child"] > 0 => shm = "absent"
        /\ ~trouble /\ at["child"] > 1 => at["parent"] > 7

Calm == ~trouble => dead = {}

Inv ==
    /\ Shape /\ Forked /\ Waited /\ Fits /\ PipeEnds /\ FifoEnds
    /\ Counts /\ Objects /\ Guard /\ Memory /\ Calm
-----------------------------------------------------------------------------
(***************************************************************************)
(* The texts of the programs                                               *)
(***************************************************************************)
\* Each text has its last call where Last says.
LEMMA Lengths ==
    ASSUME prog \in DOMAIN Texts, NEW p \in Procs
    PROVE  \E n \in Nat : n = Last(p) /\ Len(Text(p)) = n
<1>1. CASE prog = "fifo"
  <2>1. Text("parent") = FifoParent /\ Text("child") = FifoChild
    BY <1>1 DEF Text, Texts
  <2>2. \E n \in Nat : n = 5 /\ Len(FifoParent) = n
    BY DEF FifoParent
  <2>3. \E n \in Nat : n = 2 /\ Len(FifoChild) = n
    BY DEF FifoChild
  <2>4. CASE p = "parent"
    BY <1>1, <2>1, <2>2, <2>4 DEF Last
  <2>5. CASE p = "child"
    BY <1>1, <2>1, <2>3, <2>5 DEF Last
  <2> QED BY <2>4, <2>5 DEF Procs
<1>2. CASE prog = "pipe"
  <2>1. Text("parent") = PipeParent /\ Text("child") = PipeChild
    BY <1>2 DEF Text, Texts
  <2>2. \E n \in Nat : n = 4 /\ Len(PipeParent) = n
    BY DEF PipeParent
  <2>3. \E n \in Nat : n = 2 /\ Len(PipeChild) = n
    BY DEF PipeChild
  <2>4. CASE p = "parent"
    BY <1>2, <2>1, <2>2, <2>4 DEF Last
  <2>5. CASE p = "child"
    BY <1>2, <2>1, <2>3, <2>5 DEF Last
  <2> QED BY <2>4, <2>5 DEF Procs
<1>3. CASE prog = "popen"
  <2>1. Text("parent") = PopenParent /\ Text("child") = Pager
    BY <1>3 DEF Text, Texts
  <2>2. \E n \in Nat : n = Lines + 5 /\ Len(PopenParent) = n
    BY SizesAssumption DEF PopenParent, Loop
  <2>3. \E n \in Nat : n = 2 /\ Len(Pager) = n
    BY DEF Pager
  <2>4. CASE p = "parent"
    BY <1>3, <2>1, <2>2, <2>4 DEF Last
  <2>5. CASE p = "child"
    BY <1>3, <2>1, <2>3, <2>5 DEF Last
  <2> QED BY <2>4, <2>5 DEF Procs
<1>4. CASE prog = "pair"
  <2>1. Text("parent") = PairParent /\ Text("child") = PairChild
    BY <1>4 DEF Text, Texts
  <2>2. \E n \in Nat : n = 8 /\ Len(PairParent) = n
    BY DEF PairParent
  <2>3. \E n \in Nat : n = 4 /\ Len(PairChild) = n
    BY DEF PairChild
  <2>4. CASE p = "parent"
    BY <1>4, <2>1, <2>2, <2>4 DEF Last
  <2>5. CASE p = "child"
    BY <1>4, <2>1, <2>3, <2>5 DEF Last
  <2> QED BY <2>4, <2>5 DEF Procs
<1>5. CASE prog = "queue"
  <2>1. Text("parent") = QueueParent /\ Text("child") = QueueChild
    BY <1>5 DEF Text, Texts
  <2>2. \E n \in Nat : n = 12 /\ Len(QueueParent) = n
    BY DEF QueueParent, Loop
  <2>3. \E n \in Nat : n = 9 /\ Len(QueueChild) = n
    BY DEF QueueChild, Loop
  <2>4. CASE p = "parent"
    BY <1>5, <2>1, <2>2, <2>4 DEF Last
  <2>5. CASE p = "child"
    BY <1>5, <2>1, <2>3, <2>5 DEF Last
  <2> QED BY <2>4, <2>5 DEF Procs
<1>6. CASE prog = "sem"
  <2>1. Text("parent") = SemParent /\ Text("child") = SemChild
    BY <1>6 DEF Text, Texts
  <2>2. \E n \in Nat : n = 26 /\ Len(SemParent) = n
    BY DEF SemParent, Loop
  <2>3. \E n \in Nat : n = 17 /\ Len(SemChild) = n
    BY DEF SemChild, Loop
  <2>4. CASE p = "parent"
    BY <1>6, <2>1, <2>2, <2>4 DEF Last
  <2>5. CASE p = "child"
    BY <1>6, <2>1, <2>3, <2>5 DEF Last
  <2> QED BY <2>4, <2>5 DEF Procs
<1> QED BY <1>1, <1>2, <1>3, <1>4, <1>5, <1>6 DEF Texts

\* The calls of the semaphore's program.
LEMMA SemCalls ==
    ASSUME prog = "sem"
    PROVE  /\ \A k \in 1..26 : Text("parent")[k] =
                IF k = 1 THEN "fork" ELSE IF k = 2 THEN "sem_open" ELSE IF k = 3 THEN "shmget"
                ELSE IF k = 24 THEN "wait" ELSE IF k = 25 THEN "unlink" ELSE IF k = 26 THEN "remove"
                ELSE IF k % 4 = 0 THEN "lock" ELSE IF k % 4 = 1 THEN "clear"
                ELSE IF k % 4 = 2 THEN "copy" ELSE "unlock"
           /\ \A k \in 1..17 : Text("child")[k] =
                IF k = 1 THEN "sem_open" ELSE IF k = 2 THEN "shmget"
                ELSE IF k % 3 = 0 THEN "lock" ELSE IF k % 3 = 1 THEN "print" ELSE "unlock"
<1>1. \A k \in 4..23 : SemParent[k] = IF k % 4 = 0 THEN "lock" ELSE IF k % 4 = 1 THEN "clear"
                                      ELSE IF k % 4 = 2 THEN "copy" ELSE "unlock"
  BY DEF SemParent, Loop
<1>2. /\ SemParent[1] = "fork" /\ SemParent[2] = "sem_open" /\ SemParent[3] = "shmget"
      /\ SemParent[24] = "wait" /\ SemParent[25] = "unlink" /\ SemParent[26] = "remove"
  BY DEF SemParent, Loop
<1>3. \A k \in 3..17 : SemChild[k] = IF k % 3 = 0 THEN "lock" ELSE IF k % 3 = 1 THEN "print" ELSE "unlock"
  BY DEF SemChild, Loop
<1>4. SemChild[1] = "sem_open" /\ SemChild[2] = "shmget"
  BY DEF SemChild, Loop
<1>5. Text("parent") = SemParent /\ Text("child") = SemChild
  BY DEF Text, Texts
<1> QED BY <1>1, <1>2, <1>3, <1>4, <1>5

\* The calls of the queue's program.
LEMMA QueueCalls ==
    ASSUME prog = "queue"
    PROVE  /\ \A k \in 1..12 : Text("parent")[k] =
                IF k = 1 THEN "fork" ELSE IF k = 2 THEN "msgget" ELSE IF k = 11 THEN "wait"
                ELSE IF k = 12 THEN "remove" ELSE IF k % 2 = 1 THEN "msgsnd" ELSE "msgrcv"
           /\ \A k \in 1..9 : Text("child")[k] =
                IF k = 1 THEN "msgget" ELSE IF k % 2 = 0 THEN "msgsnd" ELSE "msgrcv"
<1>1. \A k \in 3..10 : QueueParent[k] = IF k % 2 = 1 THEN "msgsnd" ELSE "msgrcv"
  BY DEF QueueParent, Loop
<1>2. /\ QueueParent[1] = "fork" /\ QueueParent[2] = "msgget"
      /\ QueueParent[11] = "wait" /\ QueueParent[12] = "remove"
  BY DEF QueueParent, Loop
<1>3. \A k \in 2..9 : QueueChild[k] = IF k % 2 = 0 THEN "msgsnd" ELSE "msgrcv"
  BY DEF QueueChild, Loop
<1>4. QueueChild[1] = "msgget"
  BY DEF QueueChild, Loop
<1>5. Text("parent") = QueueParent /\ Text("child") = QueueChild
  BY DEF Text, Texts
<1> QED BY <1>1, <1>2, <1>3, <1>4, <1>5

\* The calls of the fifo program.
LEMMA FifoCalls ==
    ASSUME prog = "fifo"
    PROVE  /\ Text("parent")[1] = "mkfifo" /\ Text("parent")[2] = "fork" /\ Text("parent")[3] = "open"
           /\ Text("parent")[4] = "write" /\ Text("parent")[5] = "wait"
           /\ Text("child")[1] = "open" /\ Text("child")[2] = "read"
BY DEF Text, Texts, FifoParent, FifoChild

\* The calls of the pipe program.
LEMMA PipeCalls ==
    ASSUME prog = "pipe"
    PROVE  /\ Text("parent")[1] = "pipe" /\ Text("parent")[2] = "fork" /\ Text("parent")[3] = "close"
           /\ Text("parent")[4] = "write"
           /\ Text("child")[1] = "close" /\ Text("child")[2] = "read"
BY DEF Text, Texts, PipeParent, PipeChild

\* The calls of the popen program and of its pager.
LEMMA PopenCalls ==
    ASSUME prog = "popen"
    PROVE  /\ Text("parent")[1] = "pipe" /\ Text("parent")[2] = "fork" /\ Text("parent")[3] = "close"
           /\ \A k \in 4..(Lines + 3) : Text("parent")[k] = "write"
           /\ Text("parent")[Lines + 4] = "hangup" /\ Text("parent")[Lines + 5] = "wait"
           /\ Text("child")[1] = "close" /\ Text("child")[2] = "page"
<1>1. PopenParent[1] = "pipe" /\ PopenParent[2] = "fork" /\ PopenParent[3] = "close"
  BY DEF PopenParent
<1>2. \A k \in 4..(Lines + 3) : PopenParent[k] = "write"
  BY SizesAssumption DEF PopenParent, Loop
<1>3. PopenParent[Lines + 4] = "hangup"
  BY SizesAssumption DEF PopenParent, Loop
<1>4. PopenParent[Lines + 5] = "wait"
  BY SizesAssumption DEF PopenParent, Loop
<1>5. Pager[1] = "close" /\ Pager[2] = "page"
  BY DEF Pager
<1>6. Text("parent") = PopenParent /\ Text("child") = Pager
  BY DEF Text, Texts
<1> QED BY <1>1, <1>2, <1>3, <1>4, <1>5, <1>6

\* The calls of the socket pair program.
LEMMA PairCalls ==
    ASSUME prog = "pair"
    PROVE  /\ Text("parent")[1] = "pipe" /\ Text("parent")[2] = "fork" /\ Text("parent")[3] = "close"
           /\ Text("parent")[4] = "write" /\ Text("parent")[5] = "poll" /\ Text("parent")[6] = "read"
           /\ Text("parent")[7] = "hangup" /\ Text("parent")[8] = "wait"
           /\ Text("child")[1] = "close" /\ Text("child")[2] = "write" /\ Text("child")[3] = "poll"
           /\ Text("child")[4] = "read"
BY DEF Text, Texts, PairParent, PairChild

\* Which process of which program makes which call, and when.
Is(p, pr, q, k) == prog = pr /\ p = q /\ at[p] = k

Place(p, call) ==
    /\ call = "fork"   => p = "parent" /\ at[p] = ForkAt
    /\ call = "wait"   => \/ Is(p, "fifo", "parent", 5) \/ Is(p, "popen", "parent", Lines + 5)
                          \/ Is(p, "pair", "parent", 8) \/ Is(p, "queue", "parent", 11)
                          \/ Is(p, "sem", "parent", 24)
    /\ call = "mkfifo" => Is(p, "fifo", "parent", 1)
    /\ call = "open"   => Is(p, "fifo", "parent", 3) \/ Is(p, "fifo", "child", 1)
    /\ call = "pipe"   => prog \in {"pipe", "popen", "pair"} /\ p = "parent" /\ at[p] = 1
    /\ call = "close"  => /\ prog \in {"pipe", "popen", "pair"}
                          /\ (p = "parent" /\ at[p] = 3) \/ (p = "child" /\ at[p] = 1)
    /\ call = "write"  => \/ Is(p, "fifo", "parent", 4) \/ Is(p, "pipe", "parent", 4)
                          \/ Is(p, "pair", "parent", 4) \/ Is(p, "pair", "child", 2)
                          \/ prog = "popen" /\ p = "parent" /\ at[p] \in 4..(Lines + 3)
    /\ call = "poll"   => Is(p, "pair", "parent", 5) \/ Is(p, "pair", "child", 3)
    /\ call = "read"   => \/ Is(p, "fifo", "child", 2) \/ Is(p, "pipe", "child", 2)
                          \/ Is(p, "pair", "parent", 6) \/ Is(p, "pair", "child", 4)
    /\ call = "hangup" => Is(p, "popen", "parent", Lines + 4) \/ Is(p, "pair", "parent", 7)
    /\ call = "page"   => Is(p, "popen", "child", 2)
    /\ call = "msgget" => Is(p, "queue", "parent", 2) \/ Is(p, "queue", "child", 1)
    /\ call = "msgsnd" => /\ prog = "queue"
                          /\ (p = "parent" /\ at[p] \in 3..9) \/ (p = "child" /\ at[p] \in 2..8)
    /\ call = "msgrcv" => /\ prog = "queue"
                          /\ (p = "parent" /\ at[p] \in 4..10) \/ (p = "child" /\ at[p] \in 3..9)
    /\ call = "remove" => Is(p, "queue", "parent", 12) \/ Is(p, "sem", "parent", 26)
    /\ call = "sem_open" => Is(p, "sem", "parent", 2) \/ Is(p, "sem", "child", 1)
    /\ call = "shmget" => Is(p, "sem", "parent", 3) \/ Is(p, "sem", "child", 2)
    /\ call = "lock"   => /\ prog = "sem"
                          /\ \/ p = "parent" /\ at[p] \in 4..20 /\ at[p] % 4 = 0
                             \/ p = "child" /\ at[p] \in 3..15 /\ at[p] % 3 = 0
    /\ call = "unlock" => /\ prog = "sem"
                          /\ \/ p = "parent" /\ at[p] \in 7..23 /\ at[p] % 4 = 3
                             \/ p = "child" /\ at[p] \in 5..17 /\ at[p] % 3 = 2
    /\ call = "clear"  => prog = "sem" /\ p = "parent" /\ at[p] \in 5..21 /\ at[p] % 4 = 1
    /\ call = "copy"   => prog = "sem" /\ p = "parent" /\ at[p] \in 6..22 /\ at[p] % 4 = 2
    /\ call = "print"  => prog = "sem" /\ p = "child" /\ at[p] \in 4..16 /\ at[p] % 3 = 1
    /\ call = "unlink" => Is(p, "sem", "parent", 25)

\* The calls are where the texts have them.
LEMMA Located ==
    ASSUME Shape, NEW p \in Procs, NEW call, Calls(p, call)
    PROVE  p \notin dead /\ at[p] \in 1..Last(p) /\ at[p] \in Nat /\ Place(p, call)
<1>1. PICK n \in Nat : n = Last(p) /\ Len(Text(p)) = n
  BY Lengths DEF Shape
<1>2. p \notin dead /\ at[p] \in Nat /\ at[p] > 0 /\ ~(at[p] > Len(Text(p))) /\ Text(p)[at[p]] = call
  BY DEF Shape, Calls, Gone
<1>3. at[p] \in 1..Last(p)
  BY <1>1, <1>2
<1>4. PICK k \in 1..Last(p) : k = at[p] /\ Text(p)[k] = call
  BY <1>2, <1>3
<1> SUFFICES Place(p, call)
  BY <1>2, <1>3
<1>5. CASE prog = "fifo"
  <2>1. CASE p = "parent"
    <3>1. k = 1 \/ k = 2 \/ k = 3 \/ k = 4 \/ k = 5
      BY <1>5, <2>1 DEF Last
    <3> QED BY <1>4, <1>5, <2>1, <3>1, FifoCalls DEF Place, Is, ForkAt
  <2>2. CASE p = "child"
    <3>1. k = 1 \/ k = 2
      BY <1>5, <2>2 DEF Last
    <3> QED BY <1>4, <1>5, <2>2, <3>1, FifoCalls DEF Place, Is, ForkAt
  <2> QED BY <1>2, <1>3, <2>1, <2>2 DEF Procs
<1>6. CASE prog = "pipe"
  <2>1. CASE p = "parent"
    <3>1. k = 1 \/ k = 2 \/ k = 3 \/ k = 4
      BY <1>6, <2>1 DEF Last
    <3> QED BY <1>4, <1>6, <2>1, <3>1, PipeCalls DEF Place, Is, ForkAt
  <2>2. CASE p = "child"
    <3>1. k = 1 \/ k = 2
      BY <1>6, <2>2 DEF Last
    <3> QED BY <1>4, <1>6, <2>2, <3>1, PipeCalls DEF Place, Is, ForkAt
  <2> QED BY <1>2, <1>3, <2>1, <2>2 DEF Procs
<1>7. CASE prog = "popen"
  <2>1. CASE p = "parent"
    <3>1. k = 1 \/ k = 2 \/ k = 3 \/ k \in 4..(Lines + 3) \/ k = Lines + 4 \/ k = Lines + 5
      BY <1>7, <2>1, SizesAssumption DEF Last
    <3>2. CASE k \in 4..(Lines + 3)
      BY <1>4, <1>7, <2>1, <3>2, PopenCalls DEF Place
    <3>3. CASE k = 1 \/ k = 2 \/ k = 3 \/ k = Lines + 4 \/ k = Lines + 5
      BY <1>4, <1>7, <2>1, <3>3, PopenCalls DEF Place, Is, ForkAt
    <3> QED BY <3>1, <3>2, <3>3
  <2>2. CASE p = "child"
    <3>1. k = 1 \/ k = 2
      BY <1>7, <2>2 DEF Last
    <3> QED BY <1>4, <1>7, <2>2, <3>1, PopenCalls DEF Place, Is, ForkAt
  <2> QED BY <1>2, <1>3, <2>1, <2>2 DEF Procs
<1>8. CASE prog = "pair"
  <2>1. CASE p = "parent"
    <3>1. k = 1 \/ k = 2 \/ k = 3 \/ k = 4 \/ k = 5 \/ k = 6 \/ k = 7 \/ k = 8
      BY <1>8, <2>1 DEF Last
    <3> QED BY <1>4, <1>8, <2>1, <3>1, PairCalls DEF Place, Is, ForkAt
  <2>2. CASE p = "child"
    <3>1. k = 1 \/ k = 2 \/ k = 3 \/ k = 4
      BY <1>8, <2>2 DEF Last
    <3> QED BY <1>4, <1>8, <2>2, <3>1, PairCalls DEF Place, Is, ForkAt
  <2> QED BY <1>2, <1>3, <2>1, <2>2 DEF Procs
<1>9. CASE prog = "queue"
  <2>1. CASE p = "parent"
    BY <1>4, <1>9, <2>1, QueueCalls DEF Last, Place, Is, ForkAt
  <2>2. CASE p = "child"
    BY <1>4, <1>9, <2>2, QueueCalls DEF Last, Place, Is, ForkAt
  <2> QED BY <1>2, <1>3, <2>1, <2>2 DEF Procs
<1>10. CASE prog = "sem"
  <2>1. CASE p = "parent"
    BY <1>4, <1>10, <2>1, SemCalls DEF Last, Place, Is, ForkAt
  <2>2. CASE p = "child"
    BY <1>4, <1>10, <2>2, SemCalls DEF Last, Place, Is, ForkAt
  <2> QED BY <1>2, <1>3, <2>1, <2>2 DEF Procs
<1> QED BY <1>5, <1>6, <1>7, <1>8, <1>9, <1>10 DEF Shape, Texts
-----------------------------------------------------------------------------
(***************************************************************************)
(* The invariant: processes                                                *)
(***************************************************************************)
\* The two are parent and child.
LEMMA Two ==
    /\ Procs = {"parent", "child"} /\ Other("parent") = "child" /\ Other("child") = "parent"
BY DEF Procs, Other

\* Nobody was forked, nothing is open, and what is left from an earlier run fits.
LEMMA Initially == Init => Inv
<1> SUFFICES ASSUME Init PROVE Inv
  OBVIOUS
<1>1. /\ prog \in DOMAIN Texts /\ at["parent"] = 1 /\ at["child"] = 0 /\ at \in [Procs -> Nat]
      /\ dead = {} /\ trouble = FALSE /\ holds = [p \in Procs |-> {}]
      /\ holds["parent"] = {} /\ holds["child"] = {} /\ holds \in [Procs -> SUBSET Procs]
  BY DEF Init, Procs
<1>2. /\ got \in [Procs -> Nat] /\ got["parent"] = 0 /\ got["child"] = 0
      /\ named \in BOOLEAN /\ sem \in {0, 1} /\ shm \in {"absent", "blank", "half", "whole"}
      /\ prog # "sem" => shm = "absent"
  BY DEF Init, Procs
<1>3. /\ sent \in [Procs -> Nat]
      /\ sent["parent"] \in 0..Old /\ sent["child"] \in 0..Old
      /\ prog # "queue" => sent["parent"] = 0 /\ sent["child"] = 0
  BY SizesAssumption DEF Init, Procs
<1>4. Shape
  BY <1>1, <1>2, <1>3 DEF Shape
<1>5. Last("parent") \in Nat /\ Last("parent") > 3 /\ Last("child") \in Nat
  BY SizesAssumption DEF Last
<1>6. Forked /\ Waited
  BY <1>1, <1>5, Two DEF Forked, Waited, ForkAt
<1>7. Fits
  BY <1>2, <1>3, SizesAssumption DEF Fits
<1>8. PipeEnds /\ FifoEnds /\ Counts /\ Objects /\ Calm
  BY <1>1, <1>2, Two DEF PipeEnds, FifoEnds, Counts, Objects, Calm, Lives
<1>9. Guard /\ Memory
  BY <1>1, <1>2, Two DEF Guard, Memory, Inner
<1> QED BY <1>4, <1>6, <1>7, <1>8, <1>9 DEF Inv

\* The calls of the parent that fork and wait.
LEMMA Only ==
    ASSUME Shape, NEW call, Calls("parent", call)
    PROVE  /\ at["parent"] = ForkAt => call = "fork"
           /\ prog \in {"queue", "sem"} /\ at["parent"] = WaitAt => call = "wait"
<1>1. Text("parent")[at["parent"]] = call
  BY DEF Calls
<1>2. /\ prog \in {"fifo", "pipe", "popen", "pair"} => Text("parent")[2] = "fork"
      /\ prog \in {"queue", "sem"} => Text("parent")[1] = "fork"
      /\ prog = "queue" => Text("parent")[11] = "wait"
      /\ prog = "sem" => Text("parent")[24] = "wait"
  BY FifoCalls, PipeCalls, PopenCalls, PairCalls, QueueCalls, SemCalls
<1> QED BY <1>1, <1>2 DEF Shape, Texts, ForkAt, WaitAt

\* How far a call takes a process, and what it then has open.
LEMMA Moves ==
    ASSUME Shape, NEW p \in Procs, at[p] \in 1..Last(p)
    PROVE  /\ Past(p) => /\ at' \in [Procs -> Nat] /\ at'[p] = at[p] + 1
                         /\ \A q \in Procs : q # p => at'[q] = at[q]
           /\ Drop(p) => /\ holds' \in [Procs -> SUBSET Procs]
                         /\ \A q \in Procs : holds'[q] = holds[q] \ {p}
           /\ Onward(p) => /\ Past(p)
                           /\ at[p] = Last(p) => Drop(p)
                           /\ at[p] # Last(p) => holds' = holds
<1>1. PICK n \in Nat : n = Last(p) /\ Len(Text(p)) = n
  BY Lengths DEF Shape
<1>2. at \in [Procs -> Nat] /\ holds \in [Procs -> SUBSET Procs]
  BY DEF Shape
<1>3. Past(p) => /\ at' \in [Procs -> Nat] /\ at'[p] = at[p] + 1
                 /\ \A q \in Procs : q # p => at'[q] = at[q]
  BY <1>2 DEF Past
<1>4. Drop(p) => /\ holds' \in [Procs -> SUBSET Procs]
                 /\ \A q \in Procs : holds'[q] = holds[q] \ {p}
  BY <1>2 DEF Drop
<1>5. Onward(p) => /\ Past(p)
                   /\ at[p] = Last(p) => Drop(p)
                   /\ at[p] # Last(p) => holds' = holds
  BY <1>1 DEF Onward
<1> QED BY <1>3, <1>4, <1>5

\* Who goes on is still where Forked and Waited say.
LEMMA GoesOn ==
    ASSUME Inv, NEW p \in Procs, NEW call, Calls(p, call), call # "fork", prog' = prog, dead' = dead,
           Past(p) \/ at' = at, call = "wait" => Ended(Other(p))
    PROVE  Forked' /\ Waited' /\ (at["child"] > 0 \/ p = "parent")
<1>1. Shape /\ Forked /\ Waited
  BY DEF Inv
<1>2. p \notin dead /\ at[p] \in 1..Last(p) /\ Last("parent") \in Nat /\ Last("child") \in Nat
  BY <1>1, Located, SizesAssumption DEF Last
<1>3. Last("parent")' = Last("parent") /\ Last("child")' = Last("child")
  BY DEF Last
<1>4. at["parent"] \in Nat /\ at["child"] \in Nat
  BY <1>1, Two DEF Shape
<1>5. CASE p = "parent"
  <2>1. at'["child"] = at["child"] /\ (at'["parent"] = at["parent"] + 1 \/ at'["parent"] = at["parent"])
    BY <1>1, <1>2, <1>5, Moves, Two
  <2>2. at["parent"] # ForkAt
    BY <1>1, <1>5, Only
  <2>3. at["parent"] # Last("parent") + 1
    BY <1>2, <1>4, <1>5
  <2>4. Forked'
    BY <1>1, <1>2, <1>3, <1>4, <1>5, <2>1, <2>2, <2>3, Two DEF Forked, ForkAt
  <2>5. Waited'
    BY <1>1, <1>3, <1>4, <1>5, <2>1, Only, Two DEF Waited, WaitAt, Ended
  <2> QED BY <1>5, <2>4, <2>5
<1>6. CASE p = "child"
  <2>1. at'["parent"] = at["parent"] /\ (at'["child"] = at["child"] + 1 \/ at'["child"] = at["child"])
    BY <1>1, <1>2, <1>6, Moves, Two
  <2>2. Forked'
    BY <1>1, <1>2, <1>3, <1>4, <1>6, <2>1, Two DEF Forked, ForkAt
  <2>3. Waited'
    BY <1>1, <1>2, <1>3, <1>4, <1>6, <2>1, Two DEF Waited, WaitAt, Ended
  <2> QED BY <1>2, <1>6, <2>2, <2>3
<1> QED BY <1>5, <1>6, Two

\* The fork makes the child, with what the parent has open, or fails.
LEMMA ForkKeeps == ASSUME Inv, NEW p \in Procs, Fork(p) PROVE Inv'
<1>1. /\ Calls(p, "fork") /\ UNCHANGED <<prog, sent, got>> /\ UNCHANGED <<named, sem, shm>>
      /\ Shape /\ Forked
  BY DEF Inv, Fork, store
<1>2. p = "parent" /\ at["parent"] = ForkAt /\ "parent" \notin dead /\ at["parent"] \in 1..Last("parent")
  BY <1>1, Located DEF Place
<1>3. Last("parent") \in Nat /\ Last("parent") > 3 /\ Last("child") \in Nat /\ Last("child") > 0
  BY SizesAssumption DEF Last
<1>4. at["child"] = 0 /\ dead = {} /\ at \in [Procs -> Nat] /\ at["child"] \in Nat
  BY <1>1, <1>2, Two DEF Shape, Forked
<1>5. ForkAt \in {1, 2} /\ (prog \in {"queue", "sem"} => ForkAt = 1) /\ ForkAt' = ForkAt
  BY <1>1 DEF ForkAt
<1>6. Last("parent")' = Last("parent") /\ Last("child")' = Last("child")
  BY <1>1 DEF Last
<1>7. CASE /\ at' = [q \in Procs |-> IF q = p THEN at[p] + 1 ELSE 1]
           /\ holds' = [q \in Procs |-> IF holds[q] = {} THEN {} ELSE Procs]
           /\ UNCHANGED <<dead, trouble>>
  <2>1. at'["parent"] = ForkAt + 1 /\ at'["child"] = 1 /\ at' \in [Procs -> Nat]
    BY <1>2, <1>4, <1>7, Two
  <2>2. /\ holds' \in [Procs -> SUBSET Procs]
        /\ holds["parent"] = {} => holds'["parent"] = {}
        /\ holds["child"] = {} => holds'["child"] = {}
        /\ holds["parent"] = {"parent"} => holds'["parent"] = {"parent", "child"}
        /\ holds["child"] = {"parent"} => holds'["child"] = {"parent", "child"}
    BY <1>7, Two
  <2>3. Shape'
    BY <1>1, <1>7, <2>1, <2>2 DEF Shape
  <2>4. Forked' /\ Waited'
    BY <1>1, <1>3, <1>4, <1>5, <1>6, <1>7, <2>1 DEF Forked, Waited, WaitAt
  <2>5. Fits' /\ Counts' /\ Calm'
    BY <1>1, <1>4, <1>5, <1>7, <2>1, Two DEF Inv, Shape, Fits, Counts, Calm, ForkAt
  <2>6. PipeEnds' /\ FifoEnds'
    BY <1>1, <1>2, <1>3, <1>4, <1>6, <1>7, <2>1, <2>2, Two, SizesAssumption
    DEF Inv, PipeEnds, FifoEnds, Lives, Ended, ForkAt, HangAt
  <2>7. Objects' /\ Guard' /\ Memory'
    BY <1>1, <1>4, <1>5, <1>7, <2>1, Two DEF Inv, Objects, Guard, Memory, Inner
  <2> QED BY <2>3, <2>4, <2>5, <2>6, <2>7 DEF Inv
<1>8. CASE at' = [at EXCEPT ![p] = Len(Text(p)) + 1] /\ Drop(p) /\ UNCHANGED <<dead, trouble>>
  <2>1. at'["parent"] = Last("parent") + 1 /\ at'["child"] = 0 /\ at' \in [Procs -> Nat]
    <3>1. PICK n \in Nat : n = Last(p) /\ Len(Text(p)) = n
      BY <1>1, Lengths DEF Shape
    <3> QED BY <1>2, <1>4, <1>8, <3>1, Two
  <2>2. /\ holds' \in [Procs -> SUBSET Procs]
        /\ holds'["parent"] = holds["parent"] \ {"parent"} /\ holds'["child"] = holds["child"] \ {"parent"}
    BY <1>1, <1>2, <1>8, Moves, Two
  <2>3. Shape'
    BY <1>1, <1>8, <2>1, <2>2 DEF Shape
  <2>4. Forked' /\ Waited'
    BY <1>1, <1>3, <1>4, <1>5, <1>6, <1>8, <2>1 DEF Forked, Waited, WaitAt
  <2>5. Fits' /\ Counts' /\ Calm'
    BY <1>1, <1>4, <1>5, <1>8, <2>1, Two DEF Inv, Shape, Fits, Counts, Calm, ForkAt
  <2>6. PipeEnds' /\ FifoEnds'
    BY <1>1, <1>2, <1>3, <1>4, <1>6, <1>8, <2>1, <2>2, Two, SizesAssumption
    DEF Inv, PipeEnds, FifoEnds, Lives, Ended, ForkAt, HangAt
  <2>7. prog = "sem" => Last("parent") = 26
    BY DEF Last
  <2>8. Objects' /\ Guard' /\ Memory'
    <3>1. trouble' = trouble
      BY <1>8
    <3>2. Objects' /\ Guard'
      BY <1>1, <1>4, <1>5, <2>1, <2>7, Two DEF Inv, Objects, Guard, Inner
    <3>3. Memory'
      BY <1>1, <1>4, <1>5, <2>1, <2>7, <3>1, Two DEF Inv, Memory
    <3> QED BY <3>2, <3>3
  <2> QED BY <2>3, <2>4, <2>5, <2>6, <2>8 DEF Inv
<1>9. CASE prog = "popen" /\ Dies(p) /\ trouble' = TRUE
  <2>1. /\ dead' = dead \cup {p} /\ at' = at
        /\ holds' \in [Procs -> SUBSET Procs]
        /\ holds'["parent"] = holds["parent"] \ {"parent"} /\ holds'["child"] = holds["child"] \ {"parent"}
    BY <1>1, <1>2, <1>9, Moves, Two DEF Dies
  <2>2. Shape'
    BY <1>1, <1>9, <2>1 DEF Shape
  <2>3. Forked' /\ Waited'
    BY <1>1, <1>2, <1>3, <1>4, <1>5, <1>6, <1>9, <2>1 DEF Forked, Waited, WaitAt
  <2>4. Fits' /\ Counts' /\ Objects' /\ Guard' /\ Memory' /\ Calm'
    BY <1>1, <1>4, <1>9, <2>1 DEF Inv, Fits, Counts, Objects, Guard, Memory, Calm, Inner
  <2>5. PipeEnds' /\ FifoEnds'
    BY <1>1, <1>2, <1>3, <1>4, <1>6, <1>9, <2>1, Two, SizesAssumption
    DEF Inv, PipeEnds, FifoEnds, Lives, Ended, ForkAt, HangAt
  <2> QED BY <2>2, <2>3, <2>4, <2>5 DEF Inv
<1> QED BY <1>7, <1>8, <1>9 DEF Fork

\* A process that is killed, or dies of what it does, is one thing that went
\* wrong: it closes its ends and leaves everything else as it is.
LEMMA DeathKeeps ==
    ASSUME Inv, NEW p \in Procs, at["child"] > 0, at[p] \in 1..Last(p), Dies(p), trouble',
           UNCHANGED <<prog, sent, got, named, sem, shm>>
    PROVE  Inv'
<1>1. /\ dead' = dead \cup {p} /\ at' = at /\ trouble' = TRUE
      /\ UNCHANGED <<prog, sent, got, named, sem, shm>>
      /\ holds' \in [Procs -> SUBSET Procs] /\ \A q \in Procs : holds'[q] = holds[q] \ {p}
  BY Moves DEF Dies, Inv
<1>2. Shape'
  BY <1>1 DEF Inv, Shape
<1>3. Last("parent")' = Last("parent") /\ Last("child")' = Last("child")
  BY <1>1 DEF Last
<1>4. Forked' /\ Waited'
  BY <1>1, <1>3, Two DEF Inv, Forked, Waited, Ended, ForkAt, WaitAt
<1>5. Fits' /\ Counts' /\ Objects' /\ Guard' /\ Memory' /\ Calm'
  BY <1>1 DEF Inv, Fits, Counts, Objects, Guard, Memory, Calm, Inner
<1>6. at[p] <= Last(p) /\ at["parent"] \in Nat /\ at["child"] \in Nat
  BY Two DEF Inv, Shape
<1>7. PipeEnds'
  BY <1>1, <1>3, <1>6, Two DEF Inv, Forked, PipeEnds, Lives, Ended, ForkAt, HangAt
<1>8. FifoEnds'
  BY <1>1, <1>3, <1>6, Two DEF Inv, Forked, FifoEnds, Lives, Ended, ForkAt
<1> QED BY <1>2, <1>4, <1>5, <1>7, <1>8 DEF Inv

\* A kill from outside.
LEMMA KillKeeps == ASSUME Inv, NEW p \in Procs, Kill(p) PROVE Inv'
<1>1. /\ ~Gone(p) /\ at[p] > 0 /\ Passed("parent", "fork") /\ Dies(p) /\ trouble' = TRUE
      /\ UNCHANGED <<prog, sent, got, named, sem, shm>> /\ Shape /\ Forked
  BY DEF Kill, Inv, store
<1>2. PICK n \in Nat : n = Last(p) /\ Len(Text(p)) = n
  BY <1>1, Lengths DEF Shape
<1>3. p \notin dead /\ at[p] \in 1..Last(p) /\ at["parent"] \in Nat /\ at["child"] \in Nat
  BY <1>1, <1>2, Two DEF Gone, Shape
<1>4. at["parent"] > ForkAt
  <2>1. PICK i \in 1..(at["parent"] - 1) : Text("parent")[i] = "fork"
    BY <1>1 DEF Passed
  <2>2. prog \in {"fifo", "pipe", "popen", "pair"} => Text("parent")[1] # "fork"
    BY FifoCalls, PipeCalls, PopenCalls, PairCalls
  <2> QED BY <1>1, <1>3, <2>1, <2>2 DEF Shape, Texts, ForkAt
<1>5. at["child"] > 0
  <2>1. Last("parent") \in Nat /\ ForkAt \in Nat
    BY SizesAssumption DEF Last, ForkAt
  <2>2. CASE p = "parent"
    <3>1. at["parent"] # Last("parent") + 1 /\ ~(at["parent"] <= ForkAt)
      BY <1>3, <1>4, <2>1, <2>2
    <3> QED BY <1>1, <1>3, <3>1 DEF Forked
  <2>3. CASE p = "child"
    BY <1>3, <2>3
  <2> QED BY <2>2, <2>3, Two
<1> QED BY <1>1, <1>3, <1>5, DeathKeeps

\* The parent goes on when the child has ended.
LEMMA WaitKeeps == ASSUME Inv, NEW p \in Procs, Wait(p) PROVE Inv'
<1>1. /\ Calls(p, "wait") /\ Onward(p) /\ UNCHANGED <<prog, dead, sent, got, trouble>>
      /\ UNCHANGED <<named, sem, shm>> /\ Gone(Other(p)) /\ Shape /\ Forked
  BY DEF Wait, Inv, store
<1>2. p \notin dead /\ at[p] \in 1..Last(p) /\ at[p] \in Nat /\ Place(p, "wait")
  BY <1>1, Located
<1>3. p = "parent" /\ at["child"] \in Nat /\ prog \in {"fifo", "popen", "pair", "queue", "sem"}
  BY <1>1, <1>2, Two DEF Place, Is, Shape
<1>4. /\ at' \in [Procs -> Nat] /\ at'["parent"] = at["parent"] + 1 /\ at'["child"] = at["child"]
      /\ at["parent"] = Last("parent") => holds' \in [Procs -> SUBSET Procs] /\ \A q \in Procs : holds'[q] = holds[q] \ {"parent"}
      /\ at["parent"] # Last("parent") => holds' = holds
  BY <1>1, <1>2, <1>3, Moves, Two
<1>5. Ended("child")
  <2>1. PICK n \in Nat : n = Last("child") /\ Len(Text("child")) = n
    BY <1>1, Lengths, Two DEF Shape
  <2> QED BY <1>1, <1>3, <2>1, Two DEF Gone, Ended
<1>6. Forked' /\ Waited'
  BY <1>1, <1>3, <1>5, GoesOn, Two DEF Onward
<1>7. Shape'
  BY <1>1, <1>4 DEF Shape
<1>8. Fits' /\ Counts' /\ Calm'
  BY <1>1, <1>2, <1>3, <1>4, SizesAssumption DEF Place, Is, Inv, Fits, Counts, Calm
<1>9. PipeEnds' /\ FifoEnds'
  BY <1>1, <1>2, <1>3, <1>4, Two, SizesAssumption
  DEF Place, Is, Inv, PipeEnds, FifoEnds, Lives, Ended, Last, HangAt
<1>10. Objects' /\ Guard' /\ Memory'
  BY <1>1, <1>2, <1>3, <1>4, Two DEF Place, Is, Inv, Objects, Guard, Memory, Inner
<1> QED BY <1>6, <1>7, <1>8, <1>9, <1>10 DEF Inv
-----------------------------------------------------------------------------
(***************************************************************************)
(* The invariant: channels                                                 *)
(***************************************************************************)
\* A program without a named semaphore keeps what is said of it.
LEMMA NoSemaphore ==
    ASSUME Inv, prog # "sem", prog' = prog, shm' = shm
    PROVE  Guard' /\ Memory' /\ (prog # "queue" => Objects')
BY DEF Inv, Guard, Memory, Objects

\* A pipe or socket pair is made, and the other's end of it is closed.
LEMMA PipeKeeps == ASSUME Inv, NEW p \in Procs, Pipe(p) PROVE Inv'
<1>1. /\ Calls(p, "pipe") /\ Past(p) /\ holds' = [q \in Procs |-> {p}] /\ UNCHANGED <<prog, dead, sent, got, trouble>>
      /\ UNCHANGED <<named, sem, shm>> /\ Shape
  BY DEF Pipe, Inv, store
<1>2. /\ prog \in {"pipe", "popen", "pair"} /\ p = "parent" /\ at["parent"] = 1 /\ at[p] \in 1..Last(p)
      /\ at["child"] \in Nat
  BY <1>1, Located, Two DEF Place, Shape
<1>3. at["child"] = 0 /\ at' \in [Procs -> Nat] /\ at'["parent"] = 2 /\ at'["child"] = 0
  BY <1>1, <1>2, Moves, Two DEF Inv, Forked, ForkAt
<1>4. Forked' /\ Waited'
  BY <1>1, GoesOn
<1>5. Shape'
  BY <1>1, <1>2, <1>3 DEF Shape
<1>6. Fits' /\ Counts' /\ Calm' /\ FifoEnds'
  BY <1>1, <1>2, <1>3 DEF Inv, Fits, Counts, Calm, FifoEnds
<1>7. PipeEnds'
  BY <1>1, <1>2, <1>3, Two DEF PipeEnds
<1> QED BY <1>1, <1>2, <1>4, <1>5, <1>6, <1>7, NoSemaphore DEF Inv

\* The fifo is made.
LEMMA MkfifoKeeps == ASSUME Inv, NEW p \in Procs, Mkfifo(p) PROVE Inv'
<1>1. /\ Calls(p, "mkfifo") /\ Onward(p) /\ UNCHANGED <<prog, dead, sent, got, trouble>>
      /\ UNCHANGED <<sem, shm>> /\ named' = TRUE /\ Shape
  BY DEF Mkfifo, Inv
<1>2. /\ prog = "fifo" /\ p = "parent" /\ at["parent"] = 1 /\ at[p] \in 1..Last(p) /\ Last(p) = 5
      /\ at["child"] \in Nat
  BY <1>1, Located, Two DEF Place, Is, Shape, Last
<1>3. at["child"] = 0 /\ at' \in [Procs -> Nat] /\ at'["parent"] = 2 /\ at'["child"] = 0 /\ holds' = holds
  BY <1>1, <1>2, Moves, Two DEF Inv, Forked, ForkAt
<1>4. Forked' /\ Waited'
  BY <1>1, GoesOn DEF Onward
<1>5. Shape'
  BY <1>1, <1>3 DEF Shape
<1>6. Fits' /\ Counts' /\ Calm' /\ PipeEnds'
  BY <1>1, <1>2, <1>3 DEF Inv, Fits, Counts, Calm, PipeEnds
<1>7. FifoEnds'
  BY <1>1, <1>2, <1>3, Two DEF Inv, FifoEnds, Lives, Ended
<1> QED BY <1>1, <1>2, <1>4, <1>5, <1>6, <1>7, NoSemaphore DEF Inv

\* An end is closed: the other's, or the own one.
LEMMA CloseKeeps == ASSUME Inv, NEW p \in Procs, Close(p) \/ Hangup(p) PROVE Inv'
<1>1. PICK call \in {"close", "hangup"} :
        /\ Calls(p, call) /\ Past(p) /\ UNCHANGED <<prog, dead, sent, got, trouble>>
        /\ UNCHANGED <<named, sem, shm>> /\ Shape
        /\ call = "close" => holds' = [holds EXCEPT ![Other(p)] = @ \ {p}]
        /\ call = "hangup" => holds' = [holds EXCEPT ![p] = @ \ {p}]
  BY DEF Close, Hangup, Inv, store
<1>2. p \notin dead /\ at[p] \in 1..Last(p) /\ at[p] \in Nat /\ Place(p, call)
  BY <1>1, Located
<1>3. /\ prog \in {"pipe", "popen", "pair"} /\ at["child"] \in Nat /\ at["parent"] \in Nat
      /\ p = "child" => call = "close" /\ at["child"] = 1
      /\ p = "parent" => at["parent"] = IF call = "close" THEN 3 ELSE HangAt
      /\ call = "hangup" => prog # "pipe"
  BY <1>1, <1>2, Two DEF Place, Is, Shape, HangAt
<1>4. /\ at' \in [Procs -> Nat]
      /\ p = "parent" => at'["parent"] = at["parent"] + 1 /\ at'["child"] = at["child"]
      /\ p = "child" => at'["child"] = at["child"] + 1 /\ at'["parent"] = at["parent"]
  BY <1>1, <1>2, Moves, Two
<1>5. /\ holds' \in [Procs -> SUBSET Procs]
      /\ p = "child" => holds'["parent"] = holds["parent"] \ {"child"} /\ holds'["child"] = holds["child"]
      /\ p = "parent" /\ call = "close" => holds'["child"] = holds["child"] \ {"parent"} /\ holds'["parent"] = holds["parent"]
      /\ p = "parent" /\ call = "hangup" => holds'["parent"] = holds["parent"] \ {"parent"} /\ holds'["child"] = holds["child"]
  BY <1>1, <1>3, Two DEF Shape
<1>6. Forked' /\ Waited'
  BY <1>1, GoesOn
<1>7. at["child"] > 0
  BY <1>2, <1>3, Two, SizesAssumption DEF Inv, Forked, ForkAt, HangAt, Last
<1>8. Shape'
  BY <1>1, <1>4, <1>5 DEF Shape
<1>9. Fits' /\ Counts' /\ Calm' /\ FifoEnds'
  BY <1>1, <1>3, <1>4, <1>7, Two, SizesAssumption DEF Inv, Fits, Counts, Calm, FifoEnds, HangAt
<1>10. PipeEnds'
  <2>1. CASE p = "parent"
    BY <1>1, <1>2, <1>3, <1>4, <1>5, <1>7, <2>1, Two, SizesAssumption DEF Inv, PipeEnds, Lives, Ended, HangAt, Last
  <2>2. CASE p = "child"
    BY <1>1, <1>2, <1>3, <1>4, <1>5, <1>7, <2>2, Two, SizesAssumption DEF Inv, PipeEnds, Lives, Ended, HangAt, Last
  <2> QED BY <2>1, <2>2, Two
<1> QED BY <1>1, <1>3, <1>6, <1>8, <1>9, <1>10, NoSemaphore DEF Inv

\* The opens of the fifo.
LEMMA OpenKeeps == ASSUME Inv, NEW p \in Procs, Open(p) PROVE Inv'
<1>1. /\ Calls(p, "open") /\ p \notin holds[p] /\ holds' = [holds EXCEPT ![p] = {p}]
      /\ at' = IF holds[Other(p)] = {Other(p)} THEN [r \in Procs |-> at[r] + 1] ELSE at
      /\ UNCHANGED <<prog, dead, sent, got, trouble>> /\ UNCHANGED <<named, sem, shm>> /\ Shape /\ Forked
  BY DEF Open, Inv, store
<1>2. p \notin dead /\ at[p] \in 1..Last(p) /\ Place(p, "open")
  BY <1>1, Located
<1>3. /\ prog = "fifo" /\ Last("parent") = 5 /\ Last("child") = 2
      /\ at["child"] \in Nat /\ at["parent"] \in Nat /\ Last("parent")' = 5 /\ Last("child")' = 2
  BY <1>1, <1>2, Two DEF Place, Is, Shape, Last
<1>4. at["child"] = 1 /\ at["parent"] = 3
  <2>1. CASE p = "parent"
    BY <1>1, <1>2, <1>3, <2>1, Two DEF Place, Is, Inv, Forked, FifoEnds, ForkAt
  <2>2. CASE p = "child"
    BY <1>1, <1>2, <1>3, <2>2, Two DEF Place, Is, Inv, Forked, FifoEnds, ForkAt
  <2> QED BY <2>1, <2>2, Two
<1>6. /\ holds' \in [Procs -> SUBSET Procs]
      /\ holds'["parent"] = IF p = "parent" THEN {"parent"} ELSE holds["parent"]
      /\ holds'["child"] = IF p = "child" THEN {"child"} ELSE holds["child"]
      /\ holds["parent"] \subseteq {"parent"} /\ holds["child"] \subseteq {"child"}
  BY <1>1, <1>3, Two DEF Shape, Inv, FifoEnds
<1>7. /\ at' \in [Procs -> Nat]
      /\ \/ at'["parent"] = at["parent"] /\ at'["child"] = 1 /\ ~("parent" \in holds'["parent"] /\ "child" \in holds'["child"])
         \/ at'["parent"] = 4 /\ at'["child"] = 2 /\ holds'["parent"] = {"parent"} /\ holds'["child"] = {"child"}
  <2>1. CASE holds[Other(p)] = {Other(p)}
    BY <1>1, <1>3, <1>4, <1>6, <2>1, Two
  <2>2. CASE holds[Other(p)] # {Other(p)}
    BY <1>1, <1>3, <1>4, <1>6, <2>2, Two DEF Shape
  <2> QED BY <2>1, <2>2
<1>8. Shape'
  BY <1>1, <1>6, <1>7 DEF Shape
<1>9. Forked' /\ Waited'
  BY <1>1, <1>3, <1>4, <1>7 DEF Forked, Waited, ForkAt
<1>10. Fits' /\ Counts' /\ Calm' /\ PipeEnds'
  BY <1>1, <1>3, <1>4, <1>7 DEF Inv, Fits, Counts, Calm, PipeEnds
<1>11. FifoEnds'
  <2>1. holds["parent"] # {} => "parent" \notin dead
    BY <1>3, <1>6, Two DEF Inv, FifoEnds, Lives, Ended
  <2>2. holds["child"] # {} => "child" \notin dead
    BY <1>3, <1>6, Two DEF Inv, FifoEnds, Lives, Ended
  <2>3. CASE at'["parent"] = at["parent"] /\ at'["child"] = 1
    <3>1. dead' = dead /\ prog' = prog /\ p \notin dead
      BY <1>1, <1>2
    <3>3. CASE p = "parent"
      <4>1. holds'["parent"] = {"parent"} /\ holds'["child"] = holds["child"] /\ at'["parent"] = 3
        BY <1>4, <1>6, <2>3, <3>3
      <4> QED BY <1>3, <1>6, <2>2, <2>3, <3>1, <3>3, <4>1 DEF FifoEnds, Lives, Ended
    <3>4. CASE p = "child"
      <4>1. holds'["parent"] = holds["parent"] /\ holds'["child"] = {"child"}
        BY <1>6, <3>4
      <4> QED BY <1>3, <1>4, <1>6, <2>1, <2>3, <3>1, <3>4, <4>1 DEF FifoEnds, Lives, Ended
    <3> QED BY <3>3, <3>4, Two
  <2>4. CASE at'["parent"] = 4 /\ at'["child"] = 2 /\ holds'["parent"] = {"parent"} /\ holds'["child"] = {"child"}
    BY <1>1, <1>2, <1>3, <1>6, <2>1, <2>2, <2>4, Two DEF FifoEnds, Lives, Ended
  <2> QED BY <1>7, <2>3, <2>4
<1> QED BY <1>1, <1>3, <1>8, <1>9, <1>10, <1>11, NoSemaphore DEF Inv

\* A write has its reader, as long as nothing has gone wrong.
LEMMA WriteKeeps == ASSUME Inv, NEW p \in Procs, Write(p) PROVE Inv'
<1>1. Calls(p, "write") /\ UNCHANGED <<prog, got, trouble>> /\ UNCHANGED <<named, sem, shm>> /\ Shape /\ Forked
  BY DEF Write, Inv, store
<1>2. p \notin dead /\ at[p] \in 1..Last(p) /\ Place(p, "write")
  BY <1>1, Located
<1>3. /\ prog \in {"fifo", "pipe", "popen", "pair"}
      /\ at["child"] \in Nat /\ at["parent"] \in Nat /\ \A q \in Procs : sent[q] \in Nat /\ got[q] \in Nat
      /\ p = "parent" => at["parent"] >= 4 /\ (prog # "popen" => at["parent"] = 4)
                         /\ (prog = "popen" => at["parent"] <= Lines + 3)
      /\ p = "child" => at["child"] = 2 /\ prog = "pair"
  BY <1>1, <1>2, Two DEF Place, Is, Shape
<1>4. at["child"] > 0
  BY <1>1, <1>2, <1>3, Two, SizesAssumption DEF Forked, ForkAt, Last
<1>5. CASE /\ holds[Other(p)] # {} /\ sent[p] - got[Other(p)] < Cap
           /\ sent' = [sent EXCEPT ![p] = @ + 1] /\ Onward(p) /\ UNCHANGED dead
  <2>1. /\ at' \in [Procs -> Nat]
        /\ p = "parent" => at'["parent"] = at["parent"] + 1 /\ at'["child"] = at["child"]
        /\ p = "child" => at'["child"] = at["child"] + 1 /\ at'["parent"] = at["parent"]
        /\ at[p] = Last(p) => holds' \in [Procs -> SUBSET Procs] /\ \A q \in Procs : holds'[q] = holds[q] \ {p}
        /\ at[p] # Last(p) => holds' = holds
    BY <1>1, <1>2, <1>5, Moves, Two
  <2>2. /\ sent' \in [Procs -> Nat]
        /\ p = "parent" => sent'["parent"] = sent["parent"] + 1 /\ sent'["child"] = sent["child"]
        /\ p = "child" => sent'["child"] = sent["child"] + 1 /\ sent'["parent"] = sent["parent"]
    BY <1>1, <1>5, Two DEF Shape
  <2>3. Forked' /\ Waited'
    BY <1>1, <1>5, GoesOn DEF Onward
  <2>4. Shape'
    BY <1>1, <1>5, <2>1, <2>2 DEF Shape
  <2>5. Fits'
    BY <1>1, <1>3, <1>4, <1>5, <2>1, <2>2, Two, SizesAssumption DEF Inv, Fits
  <2>6. Counts' /\ Calm'
    BY <1>1, <1>3, <1>4, <1>5, <2>1, <2>2, Two, SizesAssumption DEF Inv, Counts, Calm
  <2>7. PipeEnds'
    BY <1>1, <1>2, <1>3, <1>4, <1>5, <2>1, Two, SizesAssumption DEF Inv, PipeEnds, Lives, Ended, HangAt, Last
  <2>8. FifoEnds'
    BY <1>1, <1>2, <1>3, <1>4, <1>5, <2>1, Two DEF Inv, FifoEnds, Lives, Ended, Last
  <2> QED BY <1>1, <1>3, <2>3, <2>4, <2>5, <2>6, <2>7, <2>8, NoSemaphore DEF Inv
<1>6. CASE holds[Other(p)] = {} /\ Dies(p) /\ UNCHANGED sent
  <2>1. trouble
    <3> SUFFICES ASSUME ~trouble PROVE FALSE
      OBVIOUS
    <3>1. dead = {}
      BY DEF Inv, Calm
    <3>2. CASE p = "parent"
      <4>1. at["child"] > Last("child")
        <5>1. "child" \notin holds["child"] /\ at["parent"] > 3
          BY <1>3, <1>6, <3>2, Two
        <5>2. CASE prog = "fifo"
          BY <1>4, <3>1, <5>1, <5>2 DEF Inv, FifoEnds, Lives, Ended
        <5>3. CASE prog \in {"pipe", "popen", "pair"}
          BY <1>4, <3>1, <5>1, <5>3 DEF Inv, PipeEnds, Lives, Ended
        <5> QED BY <1>3, <5>2, <5>3
      <4>2. CASE prog \in {"fifo", "pipe"}
        BY <1>3, <1>4, <3>2, <4>1, <4>2 DEF Inv, Counts, Last
      <4>3. CASE prog = "popen"
        BY <1>3, <1>4, <3>2, <4>1, <4>3, SizesAssumption DEF Inv, Counts, Last
      <4>4. CASE prog = "pair"
        BY <1>3, <1>4, <3>2, <4>1, <4>4 DEF Inv, Counts, Last
      <4> QED BY <1>3, <4>2, <4>3, <4>4
    <3>3. CASE p = "child"
      <4>1. at["parent"] > 7
        <5>1. "parent" \notin holds["parent"] /\ at["parent"] > 0
          BY <1>1, <1>6, <3>3, Two DEF Forked
        <5> QED BY <1>3, <1>4, <3>1, <3>3, <5>1 DEF Inv, PipeEnds, Lives, Ended, Last, HangAt
      <4> QED BY <1>3, <1>4, <3>3, <4>1 DEF Inv, Counts
    <3> QED BY <3>2, <3>3, Two
  <2> QED BY <1>1, <1>2, <1>4, <1>6, <2>1, DeathKeeps
<1> QED BY <1>5, <1>6 DEF Write

\* A poll returns when the other one has written.
LEMMA PollKeeps == ASSUME Inv, NEW p \in Procs, Poll(p) PROVE Inv'
<1>1. /\ Calls(p, "poll") /\ Readable(p) /\ Past(p) /\ UNCHANGED <<prog, dead, sent, got, trouble, holds>>
      /\ UNCHANGED <<named, sem, shm>> /\ Shape /\ Forked
  BY DEF Poll, Inv, store, chan
<1>2. p \notin dead /\ at[p] \in 1..Last(p) /\ Place(p, "poll")
  BY <1>1, Located
<1>3. /\ prog = "pair" /\ at["child"] \in Nat /\ at["parent"] \in Nat /\ Last("parent") = 8 /\ Last("child") = 4
      /\ p = "parent" => at["parent"] = 5
      /\ p = "child" => at["child"] = 3
  BY <1>1, <1>2, Two DEF Place, Is, Shape, Last
<1>4. /\ at' \in [Procs -> Nat]
      /\ p = "parent" => at'["parent"] = 6 /\ at'["child"] = at["child"]
      /\ p = "child" => at'["child"] = 4 /\ at'["parent"] = at["parent"]
  BY <1>1, <1>2, <1>3, Moves, Two
<1>5. at["child"] > 0
  BY <1>1, <1>3, Two DEF Forked, ForkAt
<1>6. Forked' /\ Waited'
  BY <1>1, GoesOn
<1>7. Shape'
  BY <1>1, <1>4 DEF Shape
<1>8. Fits' /\ Calm' /\ FifoEnds'
  BY <1>1, <1>3, <1>4, <1>5, Two, SizesAssumption DEF Inv, Fits, Calm, FifoEnds
<1>9. PipeEnds'
  <2>1. CASE p = "parent"
    BY <1>1, <1>3, <1>4, <1>5, <2>1, Two DEF Inv, PipeEnds, Lives, Ended, HangAt, Last
  <2>2. CASE p = "child"
    BY <1>1, <1>3, <1>4, <1>5, <2>2, Two DEF Inv, PipeEnds, Lives, Ended, HangAt, Last
  <2> QED BY <2>1, <2>2, Two
<1>10. Counts'
  <2> SUFFICES ASSUME ~trouble PROVE Counts'
    BY <1>1 DEF Counts
  <2>1. dead = {}
    BY DEF Inv, Calm
  <2>2. CASE p = "parent"
    <3>1. holds["child"] = {} => at["child"] > 4
      BY <1>3, <1>5, <2>1 DEF Inv, PipeEnds, Lives, Ended
    <3>2. sent["child"] - got["parent"] > 0 \/ holds["child"] = {}
      BY <1>1, <2>2, Two DEF Readable, Unread
    <3>3. at["child"] > 2
      BY <1>3, <1>5, <3>1, <3>2 DEF Inv, Counts
    <3> QED BY <1>1, <1>3, <1>4, <1>5, <2>2, <3>3 DEF Inv, Counts
  <2>3. CASE p = "child"
    <3>1. holds["parent"] = {} => at["parent"] > 7
      BY <1>1, <1>3, <1>5, <2>1 DEF Inv, Forked, ForkAt, PipeEnds, Lives, Ended, HangAt
    <3>2. sent["parent"] - got["child"] > 0 \/ holds["parent"] = {}
      BY <1>1, <2>3, Two DEF Readable, Unread
    <3>3. at["parent"] > 4
      BY <1>3, <1>5, <2>3, <3>1, <3>2 DEF Inv, Counts
    <3> QED BY <1>1, <1>3, <1>4, <1>5, <2>3, <3>3 DEF Inv, Counts
  <2> QED BY <2>2, <2>3, Two
<1> QED BY <1>1, <1>3, <1>6, <1>7, <1>8, <1>9, <1>10, NoSemaphore DEF Inv

\* A read finds what was written, as long as nothing has gone wrong.
LEMMA ReadKeeps == ASSUME Inv, NEW p \in Procs, Read(p) PROVE Inv'
<1>1. /\ Calls(p, "read") /\ Readable(p) /\ Onward(p) /\ UNCHANGED <<prog, dead, sent, trouble>>
      /\ got' = [got EXCEPT ![p] = sent[Other(p)]]
      /\ UNCHANGED <<named, sem, shm>> /\ Shape /\ Forked
  BY DEF Read, Inv, store
<1>2. p \notin dead /\ at[p] \in 1..Last(p) /\ Place(p, "read")
  BY <1>1, Located
<1>3. /\ prog \in {"fifo", "pipe", "pair"} /\ at["child"] \in Nat /\ at["parent"] \in Nat
      /\ p = "parent" => prog = "pair" /\ at["parent"] = 6 /\ Last(p) = 8
      /\ p = "child" => at["child"] = Last(p) /\ Last(p) = IF prog = "pair" THEN 4 ELSE 2
  BY <1>1, <1>2, Two DEF Place, Is, Shape, Last
<1>4. /\ at' \in [Procs -> Nat]
      /\ p = "parent" => at'["parent"] = 7 /\ at'["child"] = at["child"] /\ holds' = holds
      /\ p = "child" => /\ at'["child"] = at["child"] + 1 /\ at'["parent"] = at["parent"]
                        /\ holds' \in [Procs -> SUBSET Procs] /\ \A q \in Procs : holds'[q] = holds[q] \ {p}
  BY <1>1, <1>2, <1>3, Moves, Two
<1>5. at["child"] > 0
  BY <1>1, <1>3, Two DEF Forked, ForkAt
<1>6. Forked' /\ Waited'
  BY <1>1, GoesOn DEF Onward
<1>7. /\ got' \in [Procs -> Nat]
      /\ p = "parent" => got'["parent"] = sent["child"] /\ got'["child"] = got["child"]
      /\ p = "child" => got'["child"] = sent["parent"] /\ got'["parent"] = got["parent"]
  BY <1>1, Two DEF Shape
<1>8. Shape'
  <2>1. CASE p = "parent"
    BY <1>1, <1>4, <1>7, <2>1 DEF Shape
  <2>2. CASE p = "child"
    BY <1>1, <1>4, <1>7, <2>2 DEF Shape
  <2> QED BY <2>1, <2>2, Two
<1>9. Fits' /\ Calm'
  <2>1. sent["parent"] \in Nat /\ sent["child"] \in Nat
    BY <1>1, Two DEF Shape
  <2> QED BY <1>1, <1>3, <1>4, <1>5, <1>7, <2>1, Two, SizesAssumption DEF Inv, Fits, Calm
<1>10. PipeEnds'
  <2>1. CASE p = "parent"
    BY <1>1, <1>3, <1>4, <1>5, <2>1, Two DEF Inv, PipeEnds, Lives, Ended, HangAt, Last
  <2>2. CASE p = "child"
    BY <1>1, <1>3, <1>4, <1>5, <2>2, Two DEF Inv, PipeEnds, Lives, Ended, HangAt, Last
  <2> QED BY <2>1, <2>2, Two
<1>11. FifoEnds'
  <2>1. CASE prog # "fifo"
    BY <1>1, <2>1 DEF FifoEnds
  <2>2. CASE prog = "fifo"
    <3>1. p = "child" /\ at["child"] = 2
      BY <1>3, <2>2, Two
    <3> QED BY <1>1, <1>3, <1>4, <1>5, <2>2, <3>1, Two DEF Inv, FifoEnds, Lives, Ended, Last
  <2> QED BY <2>1, <2>2
<1>12. Counts'
  <2> SUFFICES ASSUME ~trouble PROVE Counts'
    BY <1>1 DEF Counts
  <2>1. dead = {}
    BY DEF Inv, Calm
  <2>2. CASE p = "parent"
    BY <1>1, <1>3, <1>4, <1>5, <1>7, <2>2 DEF Inv, Counts
  <2>3. CASE p = "child" /\ prog = "pair"
    BY <1>1, <1>3, <1>4, <1>5, <1>7, <2>3 DEF Inv, Counts
  <2>4. CASE p = "child" /\ prog \in {"fifo", "pipe"}
    <3>1. holds["parent"] = {} => at["parent"] > 4
      <4>1. CASE prog = "pipe"
        BY <1>1, <1>3, <1>5, <2>1, <4>1 DEF Inv, Forked, ForkAt, PipeEnds, Lives, Ended, HangAt, Last
      <4>2. CASE prog = "fifo"
        BY <1>1, <1>3, <1>5, <2>1, <2>4, <4>2 DEF Inv, Forked, ForkAt, FifoEnds, Lives, Ended, Last
      <4> QED BY <2>4, <4>1, <4>2
    <3>2. sent["parent"] - got["child"] > 0 \/ holds["parent"] = {}
      BY <1>1, <2>4, Two DEF Readable, Unread
    <3>3. at["parent"] > 4
      BY <1>3, <1>5, <2>4, <3>1, <3>2 DEF Inv, Counts
    <3> QED BY <1>1, <1>3, <1>4, <1>5, <1>7, <2>4, <3>3 DEF Inv, Counts
  <2> QED BY <1>3, <2>2, <2>3, <2>4, Two
<1> QED BY <1>1, <1>3, <1>6, <1>8, <1>9, <1>10, <1>11, <1>12, NoSemaphore DEF Inv

\* The pager finds the end when the parent has hung up, or it is quit.
LEMMA PageKeeps == ASSUME Inv, NEW p \in Procs, Page(p) \/ Quit(p) PROVE Inv'
<1>1. Calls(p, "page") /\ UNCHANGED <<prog, dead, sent>> /\ UNCHANGED <<named, sem, shm>> /\ Shape /\ Forked
  BY DEF Page, Quit, Inv, store
<1>2. p \notin dead /\ at[p] \in 1..Last(p) /\ Place(p, "page")
  BY <1>1, Located
<1>3. /\ prog = "popen" /\ at["child"] = 2 /\ at["parent"] \in Nat /\ p = "child"
      /\ Last("child") = 2 /\ Last("parent") = Lines + 5 /\ HangAt = Lines + 4
  BY <1>1, <1>2, Two DEF Place, Is, Shape, Last, HangAt
<1>4. CASE Unread(p) > 0 /\ got' = [got EXCEPT ![p] = @ + 1] /\ UNCHANGED <<at, holds, trouble>>
  <2>1. /\ got' \in [Procs -> Nat] /\ got'["child"] = got["child"] + 1 /\ got'["parent"] = got["parent"]
        /\ got["child"] \in Nat /\ sent["parent"] \in Nat /\ sent["parent"] - got["child"] > 0
    BY <1>1, <1>3, <1>4, Two DEF Shape, Unread
  <2>2. Shape'
    BY <1>1, <1>4, <2>1 DEF Shape
  <2>3. Forked' /\ Waited' /\ PipeEnds' /\ FifoEnds'
    BY <1>1, <1>3, <1>4 DEF Inv, Forked, Waited, PipeEnds, FifoEnds, Lives, Ended, Last, ForkAt, HangAt
  <2>4. Fits'
    BY <1>1, <1>3, <1>4, <2>1, SizesAssumption DEF Inv, Fits
  <2>5. Counts' /\ Calm'
    BY <1>1, <1>3, <1>4 DEF Inv, Counts, Calm
  <2> QED BY <1>1, <1>3, <2>2, <2>3, <2>4, <2>5, NoSemaphore DEF Inv
<1>5. CASE Onward(p) /\ UNCHANGED got /\ (trouble' = TRUE \/ (trouble' = trouble /\ holds[Other(p)] = {}))
  <2>1. /\ at' \in [Procs -> Nat] /\ at'["child"] = 3 /\ at'["parent"] = at["parent"]
        /\ holds' \in [Procs -> SUBSET Procs] /\ \A q \in Procs : holds'[q] = holds[q] \ {"child"}
    BY <1>1, <1>2, <1>3, <1>5, Moves, Two
  <2>2. Forked' /\ Waited'
    BY <1>1, <1>5, GoesOn DEF Onward
  <2>3. Shape'
    BY <1>1, <1>5, <2>1 DEF Shape
  <2>4. Fits' /\ FifoEnds'
    BY <1>1, <1>3, <1>5, <2>1 DEF Inv, Fits, FifoEnds
  <2>5. PipeEnds'
    BY <1>1, <1>2, <1>3, <2>1, Two, SizesAssumption DEF Inv, PipeEnds, Lives, Ended, Last, HangAt
  <2>6. Counts'
    <3> SUFFICES ASSUME ~trouble' PROVE Counts'
      BY DEF Counts
    <3>1. ~trouble /\ holds["parent"] = {}
      BY <1>3, <1>5, Two
    <3>2. dead = {}
      BY <3>1 DEF Inv, Calm
    <3>3. at["parent"] > Lines + 4
      BY <1>1, <1>3, <3>1, <3>2, SizesAssumption DEF Inv, Forked, ForkAt, PipeEnds, Lives, Ended
    <3> QED BY <1>1, <1>3, <2>1, <3>3 DEF Counts
  <2>7. Calm'
    BY <1>1, <1>5 DEF Inv, Calm
  <2> QED BY <1>1, <1>3, <2>2, <2>3, <2>4, <2>5, <2>6, <2>7, NoSemaphore DEF Inv
<1>6. CASE Page(p)
  <2>1. \/ Unread(p) > 0 /\ got' = [got EXCEPT ![p] = @ + 1] /\ UNCHANGED <<at, holds, trouble>>
        \/ holds[Other(p)] = {} /\ Onward(p) /\ UNCHANGED <<got, trouble>>
    BY <1>6 DEF Page
  <2> QED BY <1>4, <1>5, <2>1
<1>7. CASE Quit(p)
  <2>1. Onward(p) /\ UNCHANGED got /\ trouble' = TRUE
    BY <1>7 DEF Quit
  <2> QED BY <1>5, <2>1
<1> QED BY <1>6, <1>7

\* While the child runs, the parent has not passed its wait.
LEMMA NotPast ==
    ASSUME Inv, prog \in {"queue", "sem"}, at["child"] \in 1..Last("child"), "child" \notin dead
    PROVE  at["parent"] \in 2..WaitAt
<1>1. at["parent"] \in Nat /\ at["child"] \in Nat /\ Last("child") \in Nat /\ WaitAt \in Nat
  BY Two DEF Inv, Shape, Last, WaitAt
<1>2. ~Ended("child") /\ at["child"] > 0
  BY <1>1 DEF Ended
<1>3. at["parent"] > 1
  BY <1>1, <1>2 DEF Inv, Forked, ForkAt
<1>4. ~(at["parent"] > WaitAt)
  BY <1>2 DEF Inv, Waited
<1> QED BY <1>1, <1>3, <1>4
-----------------------------------------------------------------------------
(***************************************************************************)
(* The invariant: the queue                                                *)
(***************************************************************************)
\* What the queue's program has nothing to do with.
LEMMA QueueOnly ==
    ASSUME Inv, prog = "queue", prog' = prog, shm' = shm
    PROVE  PipeEnds' /\ FifoEnds' /\ Counts' /\ Guard' /\ Memory' /\ shm' = "absent"
BY DEF Inv, PipeEnds, FifoEnds, Counts, Guard, Memory, Objects

\* The queue is made, or is there already.
LEMMA MsggetKeeps == ASSUME Inv, NEW p \in Procs, Msgget(p) PROVE Inv'
<1>1. /\ Calls(p, "msgget") /\ Past(p) /\ UNCHANGED <<prog, dead, sent, got, trouble, holds>>
      /\ UNCHANGED <<sem, shm>> /\ named' = TRUE /\ Shape /\ Forked
  BY DEF Msgget, Inv, chan
<1>2. p \notin dead /\ at[p] \in 1..Last(p) /\ Place(p, "msgget")
  BY <1>1, Located
<1>3. /\ prog = "queue" /\ at["child"] \in Nat /\ at["parent"] \in Nat
      /\ p = "parent" => at["parent"] = 2
      /\ p = "child" => at["child"] = 1
  BY <1>1, <1>2, Two DEF Place, Is, Shape
<1>4. /\ at' \in [Procs -> Nat]
      /\ p = "parent" => at'["parent"] = 3 /\ at'["child"] = at["child"]
      /\ p = "child" => at'["child"] = 2 /\ at'["parent"] = at["parent"]
  BY <1>1, <1>2, <1>3, Moves, Two
<1>5. Forked' /\ Waited'
  BY <1>1, GoesOn
<1>6. Shape'
  BY <1>1, <1>4 DEF Shape
<1>7. Fits' /\ Calm'
  BY <1>1, <1>3 DEF Inv, Fits, Calm
<1>8. Objects'
  <2>1. p = "child" => at["parent"] <= 11
    BY <1>2, <1>3, NotPast DEF WaitAt
  <2> QED BY <1>1, <1>3, <1>4, <2>1, Two DEF Inv, Objects
<1> QED BY <1>1, <1>3, <1>5, <1>6, <1>7, <1>8, QueueOnly DEF Inv

\* A message goes into a queue that is not full, or nowhere.
LEMMA MsgsndKeeps == ASSUME Inv, NEW p \in Procs, Msgsnd(p) PROVE Inv'
<1>1. /\ Calls(p, "msgsnd") /\ Past(p) /\ UNCHANGED <<prog, dead, got, trouble, holds>>
      /\ sent' = IF named /\ ~(Unread(p) + Unread(Other(p)) >= QueueMax) THEN [sent EXCEPT ![p] = @ + 1] ELSE sent
      /\ UNCHANGED <<named, sem, shm>> /\ Shape /\ Forked
  BY DEF Msgsnd, Inv, store
<1>2. p \notin dead /\ at[p] \in 1..Last(p) /\ Place(p, "msgsnd")
  BY <1>1, Located
<1>3. /\ prog = "queue" /\ at["child"] \in Nat /\ at["parent"] \in Nat
      /\ p = "parent" => at["parent"] <= 9
      /\ p = "child" => at["child"] <= 8
  BY <1>1, <1>2, Two DEF Place, Shape
<1>4. /\ at' \in [Procs -> Nat]
      /\ p = "parent" => at'["parent"] = at["parent"] + 1 /\ at'["child"] = at["child"]
      /\ p = "child" => at'["child"] = at["child"] + 1 /\ at'["parent"] = at["parent"]
  BY <1>1, <1>2, <1>3, Moves, Two
<1>5. /\ sent' \in [Procs -> Nat] /\ sent["parent"] \in Nat /\ sent["child"] \in Nat
      /\ \/ sent'["parent"] = sent["parent"] /\ sent'["child"] = sent["child"]
         \/ /\ (sent["parent"] - got["child"]) + (sent["child"] - got["parent"]) < QueueMax
            /\ \/ sent'["parent"] = sent["parent"] + 1 /\ sent'["child"] = sent["child"]
               \/ sent'["parent"] = sent["parent"] /\ sent'["child"] = sent["child"] + 1
  <2>1. /\ sent \in [Procs -> Nat] /\ got["parent"] \in Nat /\ got["child"] \in Nat
        /\ sent["parent"] \in Nat /\ sent["child"] \in Nat
    BY <1>1, Two DEF Shape
  <2>2. Unread(p) + Unread(Other(p)) = (sent["parent"] - got["child"]) + (sent["child"] - got["parent"])
    BY <2>1, Two DEF Unread
  <2> DEFINE room == Unread(p) + Unread(Other(p)) < QueueMax
  <2>3. (sent' = [sent EXCEPT ![p] = @ + 1] /\ room) \/ sent' = sent
    BY <1>1, <2>1, <2>2, SizesAssumption
  <2>4. CASE sent' = sent
    BY <2>1, <2>4
  <2>5. CASE sent' = [sent EXCEPT ![p] = @ + 1] /\ room
    <3>1. p = "parent" => sent'["parent"] = sent["parent"] + 1 /\ sent'["child"] = sent["child"]
      BY <2>1, <2>5, Two
    <3>2. p = "child" => sent'["parent"] = sent["parent"] /\ sent'["child"] = sent["child"] + 1
      BY <2>1, <2>5, Two
    <3>3. sent' \in [Procs -> Nat]
      BY <2>1, <2>5
    <3> QED BY <2>1, <2>2, <2>5, <3>1, <3>2, <3>3, Two
  <2> QED BY <2>3, <2>4, <2>5
<1>6. Forked' /\ Waited'
  BY <1>1, GoesOn
<1>7. Shape'
  BY <1>1, <1>4, <1>5 DEF Shape
<1>8. Fits' /\ Calm'
  <2>1. got["parent"] \in Nat /\ got["child"] \in Nat
    BY <1>1, Two DEF Shape
  <2> QED BY <1>1, <1>3, <1>5, <2>1, SizesAssumption DEF Inv, Fits, Calm
<1>9. Objects'
  <2>1. p = "child" => at["parent"] <= 11
    BY <1>2, <1>3, NotPast DEF WaitAt
  <2> QED BY <1>1, <1>3, <1>4, <2>1, Two DEF Inv, Objects
<1> QED BY <1>1, <1>3, <1>6, <1>7, <1>8, <1>9, QueueOnly DEF Inv

\* A message of the other side comes out, or none.
LEMMA MsgrcvKeeps == ASSUME Inv, NEW p \in Procs, Msgrcv(p) PROVE Inv'
<1>1. /\ Calls(p, "msgrcv") /\ Onward(p) /\ UNCHANGED <<prog, dead, sent, trouble>>
      /\ got' = IF named /\ Unread(p) > 0 THEN [got EXCEPT ![p] = @ + 1] ELSE got
      /\ UNCHANGED <<named, sem, shm>> /\ Shape /\ Forked
  BY DEF Msgrcv, Inv, store
<1>2. p \notin dead /\ at[p] \in 1..Last(p) /\ Place(p, "msgrcv")
  BY <1>1, Located
<1>3. /\ prog = "queue" /\ at["child"] \in Nat /\ at["parent"] \in Nat
      /\ p = "parent" => at["parent"] <= 10
      /\ p = "child" => at["child"] <= 9 /\ Last("child") = 9
  BY <1>1, <1>2, Two DEF Place, Shape, Last
<1>4. /\ at' \in [Procs -> Nat] /\ holds' \in [Procs -> SUBSET Procs]
      /\ p = "parent" => at'["parent"] = at["parent"] + 1 /\ at'["child"] = at["child"]
      /\ p = "child" => at'["child"] = at["child"] + 1 /\ at'["parent"] = at["parent"]
  <2>1. holds \in [Procs -> SUBSET Procs]
    BY <1>1 DEF Shape
  <2> QED BY <1>1, <1>2, <1>3, <2>1, Moves, Two
<1>5. /\ got' \in [Procs -> Nat] /\ got["parent"] \in Nat /\ got["child"] \in Nat
      /\ \/ got'["parent"] = got["parent"] /\ got'["child"] = got["child"]
         \/ /\ sent["child"] - got["parent"] > 0
            /\ got'["parent"] = got["parent"] + 1 /\ got'["child"] = got["child"]
         \/ /\ sent["parent"] - got["child"] > 0
            /\ got'["parent"] = got["parent"] /\ got'["child"] = got["child"] + 1
  <2>1. got \in [Procs -> Nat] /\ got["parent"] \in Nat /\ got["child"] \in Nat
    BY <1>1, Two DEF Shape
  <2>2. (got' = [got EXCEPT ![p] = @ + 1] /\ Unread(p) > 0) \/ got' = got
    BY <1>1
  <2>3. CASE got' = got
    BY <2>1, <2>3
  <2>4. CASE got' = [got EXCEPT ![p] = @ + 1] /\ Unread(p) > 0
    <3>1. p = "parent" => /\ got'["parent"] = got["parent"] + 1 /\ got'["child"] = got["child"]
                          /\ sent["child"] - got["parent"] > 0
      BY <2>1, <2>4, Two DEF Unread
    <3>2. p = "child" => /\ got'["parent"] = got["parent"] /\ got'["child"] = got["child"] + 1
                         /\ sent["parent"] - got["child"] > 0
      BY <2>1, <2>4, Two DEF Unread
    <3>3. got' \in [Procs -> Nat]
      BY <2>1, <2>4
    <3> QED BY <2>1, <3>1, <3>2, <3>3, Two
  <2> QED BY <2>2, <2>3, <2>4
<1>6. Forked' /\ Waited'
  BY <1>1, GoesOn DEF Onward
<1>7. Shape'
  BY <1>1, <1>4, <1>5 DEF Shape
<1>8. Fits' /\ Calm'
  <2>1. sent["parent"] \in Nat /\ sent["child"] \in Nat
    BY <1>1, Two DEF Shape
  <2> QED BY <1>1, <1>3, <1>5, <2>1, SizesAssumption DEF Inv, Fits, Calm
<1>9. Objects'
  <2>1. p = "child" => at["parent"] <= 11
    BY <1>2, <1>3, NotPast DEF WaitAt
  <2> QED BY <1>1, <1>3, <1>4, <2>1, Two DEF Inv, Objects
<1> QED BY <1>1, <1>3, <1>6, <1>7, <1>8, <1>9, QueueOnly DEF Inv
-----------------------------------------------------------------------------
(***************************************************************************)
(* The invariant: the named semaphore                                      *)
(***************************************************************************)
\* What holds when a process of the semaphore's program goes on: only the
\* semaphore, its name and the memory are left to look at.
LEMMA SemStep ==
    ASSUME Inv, NEW p \in Procs, NEW call, Calls(p, call), prog = "sem", call \notin {"fork", "wait"},
           Past(p), UNCHANGED <<prog, dead, sent, got>>
    PROVE  /\ Forked' /\ Waited' /\ Fits' /\ PipeEnds' /\ FifoEnds' /\ Counts' /\ Objects'
           /\ at["child"] > 0 /\ at["child"] \in 0..18 /\ at["parent"] \in 2..27
           /\ p = "child" => at["child"] \in 1..17 /\ at["parent"] \in 2..24
           /\ p = "parent" => at["parent"] \in 2..26
           /\ at' \in [Procs -> Nat]
           /\ p = "parent" => at'["parent"] = at["parent"] + 1 /\ at'["child"] = at["child"]
           /\ p = "child" => at'["child"] = at["child"] + 1 /\ at'["parent"] = at["parent"]
<1>1. /\ Shape /\ Forked /\ at["child"] \in Nat /\ at["parent"] \in Nat /\ ForkAt = 1 /\ WaitAt = 24
      /\ Last("parent") = 26 /\ Last("child") = 17
  BY Two DEF Inv, Shape, ForkAt, WaitAt, Last
<1>2. p \notin dead /\ at[p] \in 1..Last(p)
  BY <1>1, Located
<1>3. p = "parent" => at["parent"] # 1
  BY <1>1, Only
<1>4. at["child"] > 0 /\ at["child"] \in 0..18 /\ at["parent"] \in 2..27
  BY <1>1, <1>2, <1>3, Two DEF Forked
<1>5. p = "child" => at["child"] \in 1..17 /\ at["parent"] \in 2..24
  BY <1>1, <1>2, NotPast
<1>6. /\ at' \in [Procs -> Nat]
      /\ p = "parent" => at'["parent"] = at["parent"] + 1 /\ at'["child"] = at["child"]
      /\ p = "child" => at'["child"] = at["child"] + 1 /\ at'["parent"] = at["parent"]
  BY <1>1, <1>2, Moves, Two
<1>7. Forked' /\ Waited'
  BY GoesOn
<1>8. Fits'
  BY <1>4, <1>6, Two DEF Inv, Fits
<1>9. PipeEnds' /\ FifoEnds' /\ Counts' /\ Objects'
  BY DEF PipeEnds, FifoEnds, Counts, Objects
<1> QED BY <1>1, <1>2, <1>3, <1>4, <1>5, <1>6, <1>7, <1>8, <1>9

\* The unlock of the first section comes before whatever follows it.
LEMMA Unlocked == ASSUME Inv, prog = "sem", Passed("parent", "unlock") PROVE at["parent"] > 7
<1>1. PICK i \in 1..(at["parent"] - 1) : Text("parent")[i] = "unlock"
  BY DEF Passed
<1>2. at["parent"] \in 1..27
  BY DEF Inv, Forked, Last
<1>3. i \in 1..26
  BY <1>1, <1>2
<1>4. i > 6
  BY <1>1, <1>3, SemCalls
<1> QED BY <1>1, <1>2, <1>4

\* The parent makes the semaphore or opens an old one; the child finds it or
\* dies.
LEMMA SemOpenKeeps == ASSUME Inv, NEW p \in Procs, SemOpen(p) PROVE Inv'
<1>1. /\ Calls(p, "sem_open") /\ UNCHANGED <<prog, sent, got, shm>> /\ Shape /\ Forked
      /\ named' = (named \/ p = "parent")
      /\ trouble' = (trouble \/ (p = "child" /\ ~Passed("parent", "unlock")))
  BY DEF SemOpen, Inv
<1>2. p \notin dead /\ at[p] \in 1..Last(p) /\ Place(p, "sem_open")
  BY <1>1, Located
<1>3. /\ prog = "sem" /\ at["child"] \in Nat /\ at["parent"] \in Nat
      /\ p = "parent" => at["parent"] = 2
      /\ p = "child" => at["child"] = 1
  BY <1>1, <1>2, Two DEF Place, Is, Shape
<1>4. named \in BOOLEAN /\ trouble \in BOOLEAN /\ sem \in {0, 1}
  BY <1>1 DEF Shape
<1>5. CASE (p = "parent" \/ named) /\ sem' = (IF named THEN sem ELSE 1) /\ Past(p) /\ UNCHANGED <<dead, holds>>
  <2>1. /\ Forked' /\ Waited' /\ Fits' /\ PipeEnds' /\ FifoEnds' /\ Counts' /\ Objects'
        /\ at["child"] \in 1..18 /\ at["parent"] \in 2..27 /\ at' \in [Procs -> Nat]
        /\ p = "child" => at["parent"] \in 2..24
        /\ p = "parent" => at'["parent"] = 3 /\ at'["child"] = at["child"]
        /\ p = "child" => at'["child"] = 2 /\ at'["parent"] = at["parent"]
    BY <1>1, <1>3, <1>5, SemStep
  <2>2. named' = TRUE
    BY <1>1, <1>4, <1>5
  <2>3. Shape'
    BY <1>1, <1>4, <1>5, <2>1, <2>2 DEF Shape
  <2>4. at["child"] > 3 => sem' = sem
    <3>1. at["child"] > 3 => p = "parent" /\ at["parent"] = 2
      BY <1>3, Two
    <3>2. at["child"] > 3 => named
      BY <1>3, <3>1 DEF Inv, Guard
    <3> QED BY <1>5, <3>2
  <2>5. Guard'
    <3>1. CASE p = "parent"
      <4>1. Inner("child") => sem = 0 /\ at["child"] > 3
        BY <1>3, Two DEF Inv, Guard, Inner
      <4>2. Inner("child")' => Inner("child")
        BY <2>1, <3>1 DEF Inner
      <4>3. ~Inner("parent")'
        BY <2>1, <3>1 DEF Inner
      <4> QED BY <1>1, <1>3, <2>1, <2>2, <2>4, <3>1, <4>1, <4>2, <4>3, Two DEF Guard
    <3>2. CASE p = "child"
      <4>1. sem' = sem
        BY <1>5, <3>2
      <4>2. Inner("parent") => sem = 0
        BY <1>3, Two DEF Inv, Guard
      <4>3. Inner("parent")' => Inner("parent")
        BY <2>1, <3>2 DEF Inner
      <4>4. ~Inner("child")'
        BY <2>1, <3>2 DEF Inner
      <4> QED BY <1>1, <1>3, <2>1, <2>2, <3>2, <4>1, <4>2, <4>3, <4>4, Two DEF Guard
    <3> QED BY <3>1, <3>2, Two
  <2>6. Memory'
    <3>1. CASE p = "parent"
      BY <1>1, <1>3, <1>4, <2>1, <3>1 DEF Inv, Memory
    <3>2. CASE p = "child"
      <4>1. ~trouble' => at["parent"] > 7
        BY <1>1, <1>3, <1>4, <3>2, Unlocked
      <4> QED BY <1>1, <1>3, <2>1, <3>2, <4>1 DEF Inv, Memory
    <3> QED BY <3>1, <3>2, Two
  <2>7. Calm'
    BY <1>1, <1>4, <1>5 DEF Inv, Calm
  <2> QED BY <2>1, <2>3, <2>5, <2>6, <2>7 DEF Inv
<1>6. CASE p = "child" /\ ~named /\ Dies(p) /\ UNCHANGED sem
  <2>1. at["parent"] \in 2..24
    BY <1>2, <1>3, <1>6, NotPast DEF WaitAt
  <2>2. at["parent"] <= 2
    BY <1>3, <1>6, <2>1 DEF Inv, Guard
  <2>3. ~Passed("parent", "unlock")
    BY <1>3, <2>1, <2>2, Unlocked
  <2>4. trouble' = TRUE /\ named' = named
    BY <1>1, <1>4, <1>6, <2>3
  <2> QED BY <1>1, <1>2, <1>3, <1>6, <2>4, DeathKeeps
<1> QED BY <1>1, <1>5, <1>6 DEF SemOpen

\* The memory is made, or is there.
LEMMA ShmgetKeeps == ASSUME Inv, NEW p \in Procs, Shmget(p) PROVE Inv'
<1>1. /\ Calls(p, "shmget") /\ Past(p) /\ UNCHANGED <<prog, dead, sent, got, holds, named, sem, trouble>>
      /\ shm' = IF p = "parent" /\ shm = "absent" THEN "blank" ELSE shm
      /\ Shape /\ Forked
  BY DEF Shmget, Inv, chan
<1>2. Place(p, "shmget") /\ at["child"] \in Nat /\ at["parent"] \in Nat
  BY <1>1, Located, Two DEF Shape
<1>3. /\ prog = "sem"
      /\ p = "parent" => at["parent"] = 3
      /\ p = "child" => at["child"] = 2
  BY <1>2 DEF Place, Is
<1>4. /\ Forked' /\ Waited' /\ Fits' /\ PipeEnds' /\ FifoEnds' /\ Counts' /\ Objects'
      /\ at["child"] \in 1..18 /\ at["parent"] \in 2..27 /\ at' \in [Procs -> Nat]
      /\ p = "parent" => at'["parent"] = 4 /\ at'["child"] = at["child"]
      /\ p = "child" => at'["child"] = 3 /\ at'["parent"] = at["parent"]
  BY <1>1, <1>3, SemStep
<1>5. Shape'
  BY <1>1, <1>4 DEF Shape
<1>6. Guard'
  BY <1>1, <1>3, <1>4, Two DEF Inv, Guard, Inner
<1>7. Memory'
  BY <1>1, <1>3, <1>4, Two DEF Inv, Memory
<1>8. Calm'
  BY <1>1 DEF Inv, Calm
<1> QED BY <1>4, <1>5, <1>6, <1>7, <1>8 DEF Inv

\* Who takes the semaphore finds nobody inside.
LEMMA LockKeeps == ASSUME Inv, NEW p \in Procs, Lock(p) PROVE Inv'
<1>1. /\ Calls(p, "lock") /\ Past(p) /\ UNCHANGED <<prog, dead, sent, got, holds, named, shm, trouble>>
      /\ sem = 1 /\ sem' = 0 /\ Shape /\ Forked
  BY DEF Lock, Inv, chan
<1>2. Place(p, "lock") /\ at["child"] \in Nat /\ at["parent"] \in Nat
  BY <1>1, Located, Two DEF Shape
<1>3. /\ prog = "sem"
      /\ p = "parent" => at["parent"] \in 4..20 /\ at["parent"] % 4 = 0
      /\ p = "child" => at["child"] \in 3..15 /\ at["child"] % 3 = 0
  BY <1>2 DEF Place
<1>4. /\ Forked' /\ Waited' /\ Fits' /\ PipeEnds' /\ FifoEnds' /\ Counts' /\ Objects'
      /\ at["child"] \in 1..18 /\ at["parent"] \in 2..27 /\ at' \in [Procs -> Nat]
      /\ p = "parent" => at'["parent"] = at["parent"] + 1 /\ at'["child"] = at["child"]
      /\ p = "child" => at'["child"] = at["child"] + 1 /\ at'["parent"] = at["parent"]
  BY <1>1, <1>3, SemStep
<1>5. Shape'
  BY <1>1, <1>4 DEF Shape
<1>6. Guard'
  <2>1. ~Inner("parent") /\ ~Inner("child")
    BY <1>1, <1>3, Two DEF Inv, Guard
  <2>2. CASE p = "parent"
    <3>1. ~Inner("child")'
      BY <1>4, <2>1, <2>2 DEF Inner
    <3> QED BY <1>1, <1>3, <1>4, <2>2, <3>1, Two DEF Inv, Guard
  <2>3. CASE p = "child"
    <3>1. ~Inner("parent")'
      BY <1>4, <2>1, <2>3 DEF Inner
    <3> QED BY <1>1, <1>3, <1>4, <2>3, <3>1, Two DEF Inv, Guard
  <2> QED BY <2>2, <2>3, Two
<1>7. Memory'
  BY <1>1, <1>3, <1>4, Two DEF Inv, Memory
<1>8. Calm'
  BY <1>1 DEF Inv, Calm
<1> QED BY <1>4, <1>5, <1>6, <1>7, <1>8 DEF Inv

\* Who gives the semaphore back was alone inside.
LEMMA UnlockKeeps == ASSUME Inv, NEW p \in Procs, Unlock(p) PROVE Inv'
<1>1. /\ Calls(p, "unlock") /\ Onward(p) /\ Past(p) /\ UNCHANGED <<prog, dead, sent, got, named, shm, trouble>>
      /\ sem' = sem + 1 /\ Shape /\ Forked
  BY DEF Unlock, Onward, Inv
<1>2. Place(p, "unlock") /\ at["child"] \in Nat /\ at["parent"] \in Nat /\ at[p] \in 1..Last(p)
  BY <1>1, Located, Two DEF Shape
<1>3. /\ prog = "sem"
      /\ p = "parent" => at["parent"] \in 7..23 /\ at["parent"] % 4 = 3
      /\ p = "child" => at["child"] \in 5..17 /\ at["child"] % 3 = 2
  BY <1>2 DEF Place
<1>4. /\ Forked' /\ Waited' /\ Fits' /\ PipeEnds' /\ FifoEnds' /\ Counts' /\ Objects'
      /\ at["child"] \in 1..18 /\ at["parent"] \in 2..27 /\ at' \in [Procs -> Nat]
      /\ p = "parent" => at'["parent"] = at["parent"] + 1 /\ at'["child"] = at["child"]
      /\ p = "child" => at'["child"] = at["child"] + 1 /\ at'["parent"] = at["parent"]
  BY <1>1, <1>3, SemStep
<1>5. Inner(p) /\ sem = 0 /\ ~Inner(Other(p))
  <2>1. Inner(p)
    BY <1>3, Two DEF Inner
  <2> QED BY <1>3, <2>1 DEF Inv, Guard
<1>6. holds' \in [Procs -> SUBSET Procs]
  BY <1>1, <1>2, Moves DEF Shape
<1>7. Shape'
  BY <1>1, <1>4, <1>5, <1>6 DEF Shape
<1>8. Guard'
  <2>1. CASE p = "parent"
    <3>1. ~Inner("parent")' /\ ~Inner("child")'
      BY <1>3, <1>4, <1>5, <2>1, Two DEF Inner
    <3> QED BY <1>1, <1>3, <1>4, <2>1, <3>1, Two DEF Inv, Guard
  <2>2. CASE p = "child"
    <3>1. ~Inner("parent")' /\ ~Inner("child")'
      BY <1>3, <1>4, <1>5, <2>2, Two DEF Inner
    <3> QED BY <1>1, <1>3, <1>4, <2>2, <3>1, Two DEF Inv, Guard
  <2> QED BY <2>1, <2>2, Two
<1>9. Memory'
  BY <1>1, <1>3, <1>4, Two DEF Inv, Memory
<1>10. Calm'
  BY <1>1 DEF Inv, Calm
<1> QED BY <1>4, <1>7, <1>8, <1>9, <1>10 DEF Inv

\* The parent writes its text inside.
LEMMA FillKeeps == ASSUME Inv, NEW p \in Procs, Fill(p) PROVE Inv'
<1>1. PICK call \in {"clear", "copy"} :
        /\ Calls(p, call) /\ Past(p) /\ UNCHANGED <<prog, dead, sent, got, holds, named, sem, trouble>>
        /\ shm' = (IF call = "clear" THEN "half" ELSE "whole") /\ Shape /\ Forked
  BY DEF Fill, Inv, chan
<1>2. Place(p, call) /\ at["child"] \in Nat /\ at["parent"] \in Nat
  BY <1>1, Located, Two DEF Shape
<1>3. /\ prog = "sem" /\ p = "parent" /\ at["parent"] \in 5..22
      /\ at["parent"] % 4 = (IF call = "clear" THEN 1 ELSE 2)
  BY <1>1, <1>2 DEF Place
<1>4. /\ Forked' /\ Waited' /\ Fits' /\ PipeEnds' /\ FifoEnds' /\ Counts' /\ Objects'
      /\ at["child"] \in 1..18 /\ at["parent"] \in 2..27 /\ at' \in [Procs -> Nat]
      /\ at'["parent"] = at["parent"] + 1 /\ at'["child"] = at["child"]
  BY <1>1, <1>3, SemStep
<1>5. Shape'
  BY <1>1, <1>4 DEF Shape
<1>6. Guard'
  <2>1. Inner("parent")
    BY <1>1, <1>3 DEF Inner
  <2>2. sem = 0 /\ ~Inner("child")
    BY <1>3, <2>1, Two DEF Inv, Guard
  <2>3. ~Inner("child")'
    BY <1>4, <2>2 DEF Inner
  <2> QED BY <1>1, <1>3, <1>4, <2>2, <2>3, Two DEF Inv, Guard
<1>7. Memory'
  BY <1>1, <1>3, <1>4, Two DEF Inv, Memory
<1>8. Calm'
  BY <1>1 DEF Inv, Calm
<1> QED BY <1>4, <1>5, <1>6, <1>7, <1>8 DEF Inv

\* While the child is inside, the parent is not, and its text is whole.
LEMMA ShownWhole ==
    ASSUME Inv, prog = "sem", at["child"] \in 4..17, at["child"] % 3 # 0, "child" \notin dead, ~trouble
    PROVE  shm = "whole"
<1>1. at["parent"] \in 2..24
  BY NotPast DEF Last, WaitAt
<1>2. at["parent"] > 7
  BY DEF Inv, Memory
<1>3. Inner("child")
  BY DEF Inner
<1>4. ~Inner("parent")
  BY <1>3, Two DEF Inv, Guard
<1>5. at["parent"] % 4 = 0
  BY <1>1, <1>2, <1>4 DEF Inner
<1> QED BY <1>1, <1>2, <1>5 DEF Inv, Memory

\* The child shows the text.
LEMMA ShowKeeps == ASSUME Inv, NEW p \in Procs, Show(p) PROVE Inv'
<1>1. /\ Calls(p, "print") /\ UNCHANGED <<prog, sent, got, named, sem, shm, trouble>> /\ Shape /\ Forked
  BY DEF Show, Inv, store
<1>2. /\ Place(p, "print") /\ at["child"] \in Nat /\ at["parent"] \in Nat
      /\ at[p] \in 1..Last(p) /\ p \notin dead
  BY <1>1, Located, Two DEF Shape
<1>3. prog = "sem" /\ p = "child" /\ at["child"] \in 4..16 /\ at["child"] % 3 = 1
  BY <1>2 DEF Place
<1>4. CASE Past(p) /\ UNCHANGED <<dead, holds>>
  <2>1. /\ Forked' /\ Waited' /\ Fits' /\ PipeEnds' /\ FifoEnds' /\ Counts' /\ Objects'
        /\ at["child"] \in 1..18 /\ at["parent"] \in 2..27 /\ at' \in [Procs -> Nat]
        /\ at'["child"] = at["child"] + 1 /\ at'["parent"] = at["parent"]
    BY <1>1, <1>3, <1>4, SemStep
  <2>2. Shape'
    BY <1>1, <1>4, <2>1 DEF Shape
  <2>3. Guard'
    <3>1. Inner("child")
      BY <1>3 DEF Inner
    <3>2. sem = 0 /\ ~Inner("parent")
      BY <1>3, <3>1, Two DEF Inv, Guard
    <3>3. ~Inner("parent")'
      BY <2>1, <3>2 DEF Inner
    <3> QED BY <1>1, <1>3, <2>1, <3>2, <3>3, Two DEF Inv, Guard
  <2>4. Memory'
    BY <1>1, <1>3, <2>1 DEF Inv, Memory
  <2>5. Calm'
    BY <1>1, <1>4 DEF Inv, Calm
  <2> QED BY <2>1, <2>2, <2>3, <2>4, <2>5 DEF Inv
<1>5. CASE shm = "absent" /\ Dies(p)
  <2>1. trouble
    BY <1>2, <1>3, <1>5, ShownWhole
  <2>2. trouble'
    BY <1>1, <2>1
  <2> QED BY <1>1, <1>2, <1>3, <1>5, <2>2, DeathKeeps
<1> QED BY <1>4, <1>5 DEF Show

\* The parent removes the name.
LEMMA SemUnlinkKeeps == ASSUME Inv, NEW p \in Procs, SemUnlink(p) PROVE Inv'
<1>1. /\ Calls(p, "unlink") /\ Past(p) /\ UNCHANGED <<prog, dead, sent, got, holds, sem, shm, trouble>>
      /\ named' = FALSE /\ Shape /\ Forked
  BY DEF SemUnlink, Inv, chan
<1>2. Place(p, "unlink") /\ at["child"] \in Nat /\ at["parent"] \in Nat
  BY <1>1, Located, Two DEF Shape
<1>3. prog = "sem" /\ p = "parent" /\ at["parent"] = 25
  BY <1>2 DEF Place, Is
<1>4. /\ Forked' /\ Waited' /\ Fits' /\ PipeEnds' /\ FifoEnds' /\ Counts' /\ Objects'
      /\ at["child"] \in 1..18 /\ at' \in [Procs -> Nat]
      /\ at'["parent"] = 26 /\ at'["child"] = at["child"]
  BY <1>1, <1>3, SemStep
<1>5. Shape'
  BY <1>1, <1>4 DEF Shape
<1>6. Guard'
  BY <1>1, <1>3, <1>4, Two DEF Inv, Guard, Inner
<1>7. Memory'
  BY <1>1, <1>3, <1>4, Two DEF Inv, Memory
<1>8. Calm'
  BY <1>1 DEF Inv, Calm
<1> QED BY <1>4, <1>5, <1>6, <1>7, <1>8 DEF Inv

\* The parent removes the queue, or the memory.
LEMMA RemoveKeeps == ASSUME Inv, NEW p \in Procs, Remove(p) PROVE Inv'
<1>1. /\ Calls(p, "remove") /\ Onward(p) /\ Past(p) /\ UNCHANGED <<prog, dead, sent, got, sem, trouble>>
      /\ IF prog = "queue" THEN named' = FALSE /\ UNCHANGED shm ELSE shm' = "absent" /\ UNCHANGED named
      /\ Shape /\ Forked
  BY DEF Remove, Onward, Inv
<1>2. /\ Place(p, "remove") /\ at["child"] \in Nat /\ at["parent"] \in Nat /\ at[p] \in 1..Last(p)
  BY <1>1, Located, Two DEF Shape
<1>3. p = "parent" /\ prog \in {"queue", "sem"} /\ at["parent"] = IF prog = "queue" THEN 12 ELSE 26
  BY <1>2 DEF Place, Is
<1>4. at' \in [Procs -> Nat] /\ at'["parent"] = at["parent"] + 1 /\ at'["child"] = at["child"]
  BY <1>1, <1>2, <1>3, Moves, Two
<1>5. holds' \in [Procs -> SUBSET Procs]
  BY <1>1, <1>2, Moves DEF Shape
<1>6. Calm' /\ Fits'
  BY <1>1, <1>4 DEF Inv, Calm, Fits
<1>7. CASE prog = "queue"
  <2>1. Forked' /\ Waited'
    BY <1>1, GoesOn
  <2>2. Shape'
    BY <1>1, <1>4, <1>5, <1>7 DEF Shape
  <2>3. Objects'
    BY <1>1, <1>7 DEF Inv, Objects
  <2> QED BY <1>1, <1>6, <1>7, <2>1, <2>2, <2>3, QueueOnly DEF Inv
<1>8. CASE prog = "sem"
  <2>1. Forked' /\ Waited' /\ PipeEnds' /\ FifoEnds' /\ Counts' /\ Objects'
    BY <1>1, <1>8, SemStep
  <2>2. Shape'
    BY <1>1, <1>4, <1>5, <1>8 DEF Shape
  <2>3. Guard'
    BY <1>1, <1>3, <1>4, <1>8, Two DEF Inv, Guard, Inner
  <2>4. Memory'
    BY <1>1, <1>3, <1>4, <1>8 DEF Inv, Memory
  <2> QED BY <1>6, <2>1, <2>2, <2>3, <2>4 DEF Inv
<1> QED BY <1>3, <1>7, <1>8
-----------------------------------------------------------------------------
(***************************************************************************)
(* What follows                                                            *)
(***************************************************************************)
\* Every step keeps the invariant.
LEMMA Keeps == ASSUME Inv, [Next]_vars PROVE Inv'
<1>1. ASSUME NEW p \in Procs, Run(p) PROVE Inv'
  BY <1>1, ForkKeeps, WaitKeeps, PipeKeeps, MkfifoKeeps, OpenKeeps, CloseKeeps, WriteKeeps, PollKeeps,
     ReadKeeps, PageKeeps, MsggetKeeps, MsgsndKeeps, MsgrcvKeeps, RemoveKeeps, SemOpenKeeps,
     ShmgetKeeps, LockKeeps, UnlockKeeps, FillKeeps, ShowKeeps, SemUnlinkKeeps DEF Run
<1>2. ASSUME NEW p \in Procs, Kill(p) \/ Quit(p) PROVE Inv'
  BY <1>2, KillKeeps, PageKeeps
<1>3. CASE UNCHANGED vars
  BY <1>3 DEF vars, Inv, Shape, Forked, Waited, Fits, PipeEnds, FifoEnds, Counts, Objects, Guard, Memory,
              Calm, Lives, Ended, Last, Inner, ForkAt, WaitAt, HangAt
<1> QED BY <1>1, <1>2, <1>3 DEF Next, Rest

\* The invariant holds in every state of every behaviour.
LEMMA Invariance == Spec => []Inv
BY Initially, Keeps, PTL DEF Spec

\* Which reads are behind a process.
LEMMA HasRead ==
    ASSUME Inv, NEW p \in Procs, Passed(p, "read")
    PROVE  \/ prog \in {"fifo", "pipe"} /\ p = "child" /\ at["child"] > 2
           \/ prog = "pair" /\ p = "child" /\ at["child"] > 4
           \/ prog = "pair" /\ p = "parent" /\ at["parent"] > 6
<1>1. PICK i \in 1..(at[p] - 1) : Text(p)[i] = "read"
  BY DEF Passed
<1>2. Last(p) \in Nat /\ at[p] \in 0..(Last(p) + 1)
  BY Two, SizesAssumption DEF Inv, Forked, Last
<1>3. i \in 1..Last(p) /\ at[p] > i
  BY <1>1, <1>2
<1>4. CASE prog = "fifo"
  <2>1. p = "parent" => i \in {1, 2, 3, 4, 5}
    BY <1>3, <1>4 DEF Last
  <2>2. p = "child" => i \in {1, 2}
    BY <1>3, <1>4 DEF Last
  <2> QED BY <1>1, <1>3, <1>4, <2>1, <2>2, FifoCalls, Two
<1>5. CASE prog = "pipe"
  <2>1. p = "parent" => i \in {1, 2, 3, 4}
    BY <1>3, <1>5 DEF Last
  <2>2. p = "child" => i \in {1, 2}
    BY <1>3, <1>5 DEF Last
  <2> QED BY <1>1, <1>3, <1>5, <2>1, <2>2, PipeCalls, Two
<1>6. CASE prog = "popen"
  <2>1. p = "parent" => i \in {1, 2, 3} \/ i \in 4..(Lines + 3) \/ i = Lines + 4 \/ i = Lines + 5
    BY <1>3, <1>6, SizesAssumption DEF Last
  <2>2. p = "child" => i \in {1, 2}
    BY <1>3, <1>6 DEF Last
  <2> QED BY <1>1, <1>3, <1>6, <2>1, <2>2, PopenCalls, Two
<1>7. CASE prog = "pair"
  <2>1. p = "parent" => i \in {1, 2, 3, 4, 5, 6, 7, 8}
    BY <1>3, <1>7 DEF Last
  <2>2. p = "child" => i \in {1, 2, 3, 4}
    BY <1>3, <1>7 DEF Last
  <2> QED BY <1>1, <1>3, <1>7, <2>1, <2>2, PairCalls, Two
<1>8. CASE prog = "queue"
  BY <1>1, <1>3, <1>8, QueueCalls, Two DEF Last
<1>9. CASE prog = "sem"
  BY <1>1, <1>3, <1>9, SemCalls, Two DEF Last
<1> QED BY <1>4, <1>5, <1>6, <1>7, <1>8, <1>9 DEF Inv, Shape, Texts

\* What the invariant says of what is read, of deaths and of what is left.
LEMMA InvIsSafe == Inv => Safety
<1> SUFFICES ASSUME Inv PROVE Safety
  OBVIOUS
<1>1. Shape /\ Forked /\ Fits
  BY DEF Inv
<1>2. TypeOK
  <2>1. ASSUME NEW p \in Procs PROVE at[p] \in 0..(Len(Text(p)) + 1)
    <3>1. PICK n \in Nat : n = Last(p) /\ Len(Text(p)) = n
      BY <1>1, Lengths DEF Shape
    <3>2. Last("parent") \in Nat /\ at[p] \in 0..(Last(p) + 1)
      BY <1>1, Two, SizesAssumption DEF Forked, Last
    <3> QED BY <3>1, <3>2
  <2>2. /\ got["parent"] \in Nat /\ got["child"] \in Nat /\ sent["parent"] \in Nat /\ sent["child"] \in Nat
    BY <1>1, Two DEF Shape
  <2>3. ASSUME NEW p \in Procs PROVE Unread(p) \in 0..(IF prog = "queue" THEN QueueMax ELSE Cap)
    <3>1. CASE prog = "queue"
      BY <1>1, <2>2, <3>1, Two, SizesAssumption DEF Fits, Unread
    <3>2. CASE prog # "queue"
      BY <1>1, <2>2, <3>2, Two, SizesAssumption DEF Fits, Unread
    <3> QED BY <3>1, <3>2
  <2> QED BY <1>1, <2>1, <2>3 DEF TypeOK, Shape
<1>3. NoStrayDeath
  BY DEF Inv, Calm, NoStrayDeath
<1>4. WholeRead
  <2> SUFFICES ASSUME ~trouble, at["child"] > 0 PROVE WholeRead
    BY DEF WholeRead
  <2>1. ASSUME NEW p \in Procs, Passed(p, "read") PROVE got[p] = 1
    BY <2>1, HasRead DEF Inv, Counts
  <2>2. ASSUME Calls("child", "print") PROVE shm = "whole"
    <3>1. Place("child", "print") /\ "child" \notin dead
      BY <1>1, <2>2, Located, Two
    <3> QED BY <3>1, ShownWhole DEF Place
  <2> QED BY <2>1, <2>2 DEF WholeRead
<1>5. Removed
  <2> SUFFICES ASSUME prog \in {"queue", "sem"}, at["child"] > 0, Gone("parent"), "parent" \notin dead
               PROVE  ~named /\ shm = "absent"
    BY DEF Removed
  <2>1. PICK n \in Nat : n = Last("parent") /\ Len(Text("parent")) = n
    BY <1>1, Lengths, Two DEF Shape
  <2>2. at["parent"] \in Nat /\ (prog = "queue" => at["parent"] > 12) /\ (prog = "sem" => at["parent"] > 26)
    BY <1>1, <2>1, Two DEF Shape, Gone, Last
  <2>3. CASE prog = "queue"
    BY <2>2, <2>3 DEF Inv, Objects
  <2>4. CASE prog = "sem"
    BY <2>2, <2>4 DEF Inv, Guard, Memory
  <2> QED BY <2>3, <2>4
<1> QED BY <1>2, <1>3, <1>4, <1>5 DEF Safety

\* While nobody is killed and the pager shows it all, nobody dies, every read
\* finds what was written and no half text is shown; and a run that ends by
\* itself leaves no queue, semaphore or memory.
THEOREM NothingLost == Spec => []Safety
BY Invariance, InvIsSafe, PTL
-----------------------------------------------------------------------------
(***************************************************************************)
(* Delivery                                                                *)
(***************************************************************************)
\* A step adds to what one side has sent, or to what one side has got.
LEMMA OnlyAdds ==
    ASSUME Inv, [Next]_vars
    PROVE  \/ got' = got /\ \A p \in Procs : sent'[p] >= sent[p]
           \/ sent' = sent /\ \A p \in Procs : got'[p] >= got[p]
<1> DEFINE Adds == \/ got' = got /\ \A q \in Procs : sent'[q] >= sent[q]
                   \/ sent' = sent /\ \A q \in Procs : got'[q] >= got[q]
<1>1. /\ sent \in [Procs -> Nat] /\ got \in [Procs -> Nat]
      /\ \A q \in Procs : sent[q] \in Nat /\ got[q] \in Nat
      /\ \A q \in Procs : got[q] <= sent[Other(q)]
  BY Two DEF Inv, Shape, Fits
<1>2. CASE UNCHANGED <<sent, got>>
  BY <1>1, <1>2
<1>3. ASSUME NEW p \in Procs, got' = got, sent' = [sent EXCEPT ![p] = @ + 1] PROVE Adds
  <2>1. \A q \in Procs : sent'[q] = IF q = p THEN sent[q] + 1 ELSE sent[q]
    BY <1>1, <1>3
  <2>2. \A q \in Procs : sent'[q] >= sent[q]
    BY <1>1, <2>1
  <2> QED BY <1>3, <2>2
<1>4. ASSUME NEW p \in Procs, sent' = sent, got' = [got EXCEPT ![p] = @ + 1] PROVE Adds
  <2>1. \A q \in Procs : got'[q] = IF q = p THEN got[q] + 1 ELSE got[q]
    BY <1>1, <1>4
  <2>2. \A q \in Procs : got'[q] >= got[q]
    BY <1>1, <2>1
  <2> QED BY <1>4, <2>2
<1>5. ASSUME NEW p \in Procs, sent' = sent, got' = [got EXCEPT ![p] = sent[Other(p)]] PROVE Adds
  <2>1. \A q \in Procs : got'[q] = IF q = p THEN sent[Other(q)] ELSE got[q]
    BY <1>1, <1>5
  <2>2. Other(p) \in Procs
    BY Two
  <2>3. \A q \in Procs : got'[q] >= got[q]
    BY <1>1, <2>1, <2>2
  <2> QED BY <1>5, <2>3
<1>6. ASSUME NEW p \in Procs, Run(p) \/ Kill(p) \/ Quit(p) PROVE Adds
  <2>1. CASE Write(p)
    BY <1>2, <1>3, <2>1 DEF Write
  <2>2. CASE Msgsnd(p)
    <3>1. got' = got /\ (sent' = sent \/ sent' = [sent EXCEPT ![p] = @ + 1])
      BY <2>2 DEF Msgsnd
    <3> QED BY <1>2, <1>3, <3>1
  <2>3. CASE Msgrcv(p)
    <3>1. sent' = sent /\ (got' = got \/ got' = [got EXCEPT ![p] = @ + 1])
      BY <2>3 DEF Msgrcv
    <3> QED BY <1>2, <1>4, <3>1
  <2>4. CASE Page(p)
    BY <1>2, <1>4, <2>4 DEF Page
  <2>5. CASE Read(p)
    BY <1>5, <2>5 DEF Read
  <2>6. CASE Fork(p) \/ Wait(p) \/ Pipe(p) \/ Mkfifo(p) \/ Open(p) \/ Close(p) \/ Hangup(p) \/ Poll(p)
    BY <1>2, <2>6 DEF Fork, Wait, Pipe, Mkfifo, Open, Close, Hangup, Poll, chan
  <2>7. CASE Msgget(p) \/ Remove(p) \/ SemOpen(p) \/ Shmget(p) \/ Lock(p) \/ Unlock(p) \/ Fill(p) \/ Show(p)
                \/ SemUnlink(p) \/ Kill(p) \/ Quit(p)
    BY <1>2, <2>7 DEF Msgget, Remove, SemOpen, Shmget, Lock, Unlock, Fill, Show, SemUnlink, Kill, Quit, chan
  <2> QED BY <1>6, <2>1, <2>2, <2>3, <2>4, <2>5, <2>6, <2>7 DEF Run
<1>7. CASE UNCHANGED vars
  BY <1>2, <1>7 DEF vars
<1> QED BY <1>6, <1>7 DEF Next, Rest

\* What was given and what was taken.
Given == UNION {{p} \X (1..sent[p]) : p \in Procs}
Taken == UNION {{p} \X (1..got[Other(p)]) : p \in Procs}

\* Both grow with their counters.
LEMMA Grow ==
    ASSUME Inv, Inv'
    PROVE  /\ (\A p \in Procs : sent'[p] >= sent[p]) => Given \subseteq Given'
           /\ (\A p \in Procs : got'[p] >= got[p]) => Taken \subseteq Taken'
           /\ got' = got => Taken' = Taken
           /\ sent' = sent => Given' = Given
           /\ Taken' \subseteq Given'
<1>1. \A q \in Procs : sent[q] \in Nat /\ got[q] \in Nat /\ sent'[q] \in Nat /\ got'[q] \in Nat /\ Other(q) \in Procs
  BY Two DEF Inv, Shape
<1>2. \A q \in Procs : got'[Other(q)] <= sent'[q]
  BY Two DEF Inv, Fits
<1>3. ASSUME \A p \in Procs : sent'[p] >= sent[p] PROVE Given \subseteq Given'
  <2>1. \A q \in Procs : 1..sent[q] \subseteq 1..sent'[q]
    BY <1>1, <1>3
  <2> QED BY <2>1 DEF Given
<1>4. ASSUME \A p \in Procs : got'[p] >= got[p] PROVE Taken \subseteq Taken'
  <2>1. \A q \in Procs : 1..got[Other(q)] \subseteq 1..got'[Other(q)]
    BY <1>1, <1>4
  <2> QED BY <2>1 DEF Taken
<1>5. (got' = got => Taken' = Taken) /\ (sent' = sent => Given' = Given)
  BY DEF Given, Taken
<1>6. Taken' \subseteq Given'
  <2>1. \A q \in Procs : 1..got'[Other(q)] \subseteq 1..sent'[q]
    BY <1>1, <1>2
  <2> QED BY <2>1 DEF Given, Taken
<1> QED BY <1>3, <1>4, <1>5, <1>6

\* What goes into a fifo, pipe, socket pair or queue comes out once, at the other
\* side, and not before it went in: the programs implement Handover.
THEOREM ComesOutOnce == Spec => DeliveredOnce
<1>1. Init => Delivery!Init
  <2> SUFFICES ASSUME Init PROVE Taken = {}
    BY DEF Delivery!Init, Taken
  <2>1. \A p \in Procs : got[Other(p)] = 0
    BY Two DEF Init
  <2>2. \A p \in Procs : 1..got[Other(p)] = {}
    BY <2>1
  <2> QED BY <2>2 DEF Taken
<1>2. Inv /\ Inv' /\ [Next]_vars => [Delivery!Next]_<<Given, Taken>>
  <2> SUFFICES ASSUME Inv, Inv', [Next]_vars PROVE [Delivery!Next]_<<Given, Taken>>
    OBVIOUS
  <2>1. CASE got' = got /\ \A p \in Procs : sent'[p] >= sent[p]
    <3>1. Given \subseteq Given' /\ Taken' = Taken
      BY <2>1, Grow
    <3> QED BY <3>1 DEF Delivery!Next, Delivery!Give, Given, Taken
  <2>2. CASE sent' = sent /\ \A p \in Procs : got'[p] >= got[p]
    <3>1. Taken \subseteq Taken' /\ Given' = Given /\ Taken' \subseteq Given
      BY <2>2, Grow
    <3> QED BY <3>1 DEF Delivery!Next, Delivery!Take, Given, Taken
  <2> QED BY <2>1, <2>2, OnlyAdds
<1> QED BY <1>1, <1>2, Invariance, PTL DEF Spec, DeliveredOnce, Delivery!Spec, Given, Taken
-----------------------------------------------------------------------------
(***************************************************************************)
(* The sections of the named semaphore                                     *)
(***************************************************************************)
\* Where a process of the semaphore's program is inside.
LEMMA InsideIs == ASSUME Inv, prog = "sem", NEW p \in Procs PROVE Inside(p) <=> Inner(p)
<1>1. /\ at["parent"] \in 0..27 /\ at["child"] \in 0..18
  BY DEF Inv, Forked, Last
<1>2. CASE p = "parent"
  <2>1. ASSUME Inside(p) PROVE Inner(p)
    <3>1. PICK i \in 1..(at[p] - 1) : Text(p)[i] = "lock" /\ \A j \in i..(at[p] - 1) : Text(p)[j] # "unlock"
      BY <2>1 DEF Inside
    <3>2. i \in 4..20 /\ i % 4 = 0
      BY <1>1, <1>2, <3>1, SemCalls
    <3>3. Text(p)[i + 3] = "unlock"
      BY <1>2, <3>2, SemCalls
    <3>4. ~(i + 3 \in i..(at[p] - 1))
      BY <3>1, <3>3
    <3>5. at["parent"] > i /\ at["parent"] < i + 4
      BY <1>1, <1>2, <3>1, <3>2, <3>4
    <3> QED BY <1>1, <1>2, <3>2, <3>5 DEF Inner
  <2>2. ASSUME Inner(p) PROVE Inside(p)
    <3>1. at["parent"] \in 5..23 /\ at["parent"] % 4 # 0
      BY <1>2, <2>2 DEF Inner
    <3>2. PICK i \in {at["parent"] - 1, at["parent"] - 2, at["parent"] - 3} : i \in 4..20 /\ i % 4 = 0
      BY <3>1
    <3>3. Text("parent")[i] = "lock"
      BY <3>2, SemCalls
    <3>4. ASSUME NEW j \in i..(at["parent"] - 1) PROVE Text("parent")[j] # "unlock"
      <4>1. j \in 4..22 /\ j % 4 # 3
        BY <3>1, <3>2
      <4> QED BY <4>1, SemCalls
    <3>5. i \in 1..(at["parent"] - 1)
      BY <3>1, <3>2
    <3> QED BY <1>2, <3>3, <3>4, <3>5 DEF Inside
  <2> QED BY <2>1, <2>2
<1>3. CASE p = "child"
  <2>1. ASSUME Inside(p) PROVE Inner(p)
    <3>1. PICK i \in 1..(at[p] - 1) : Text(p)[i] = "lock" /\ \A j \in i..(at[p] - 1) : Text(p)[j] # "unlock"
      BY <2>1 DEF Inside
    <3>2. i \in 3..15 /\ i % 3 = 0
      BY <1>1, <1>3, <3>1, SemCalls
    <3>3. Text(p)[i + 2] = "unlock"
      BY <1>3, <3>2, SemCalls
    <3>4. ~(i + 2 \in i..(at[p] - 1))
      BY <3>1, <3>3
    <3>5. at["child"] > i /\ at["child"] < i + 3
      BY <1>1, <1>3, <3>1, <3>2, <3>4
    <3> QED BY <1>1, <1>3, <3>2, <3>5 DEF Inner
  <2>2. ASSUME Inner(p) PROVE Inside(p)
    <3>1. at["child"] \in 4..17 /\ at["child"] % 3 # 0
      BY <1>3, <2>2 DEF Inner
    <3>2. PICK i \in {at["child"] - 1, at["child"] - 2} : i \in 3..15 /\ i % 3 = 0
      BY <3>1
    <3>3. Text("child")[i] = "lock"
      BY <3>2, SemCalls
    <3>4. ASSUME NEW j \in i..(at["child"] - 1) PROVE Text("child")[j] # "unlock"
      <4>1. j \in 3..16 /\ j % 3 # 2
        BY <3>1, <3>2
      <4> QED BY <4>1, SemCalls
    <3>5. i \in 1..(at["child"] - 1)
      BY <3>1, <3>2
    <3> QED BY <1>3, <3>3, <3>4, <3>5 DEF Inside
  <2> QED BY <2>1, <2>2
<1> QED BY <1>2, <1>3, Two

\* So it is in every state that the invariant holds of, before a step and after it.
LEMMA InsideBoth ==
    /\ Inv /\ prog = "sem" => \A p \in Procs : Inside(p) <=> Inner(p)
    /\ (Inv /\ prog = "sem" => \A p \in Procs : Inside(p) <=> Inner(p))'
<1>1. Inv /\ prog = "sem" => \A p \in Procs : Inside(p) <=> Inner(p)
  BY InsideIs
<1> QED BY <1>1, PTL

\* No step changes the program.
LEMMA SameProgram == ASSUME [Next]_vars PROVE prog' = prog
<1>1. ASSUME NEW p \in Procs, Run(p) \/ Kill(p) \/ Quit(p) PROVE prog' = prog
  BY <1>1 DEF Run, Kill, Quit, Fork, Wait, Pipe, Mkfifo, Open, Close, Hangup, Write, Poll, Read, Page, Msgget,
              Msgsnd, Msgrcv, Remove, SemOpen, Shmget, Lock, Unlock, Fill, Show, SemUnlink
<1>2. CASE UNCHANGED vars
  BY <1>2 DEF vars
<1> QED BY <1>1, <1>2 DEF Next, Rest

\* A call that is neither the lock nor the unlock of a section takes no process in
\* or out.
LEMMA StaysPut ==
    ASSUME Inv, prog = "sem", NEW p \in Procs, NEW call, Calls(p, call), call \notin {"lock", "unlock"},
           Past(p)
    PROVE  \A q \in Procs : Inner(q)' <=> Inner(q)
<1>1. Shape /\ at["parent"] \in Nat /\ at["child"] \in Nat /\ Last("parent") = 26 /\ Last("child") = 17
  BY Two DEF Inv, Shape, Last
<1>2. at[p] \in 1..Last(p) /\ Text(p)[at[p]] = call
  BY <1>1, Located DEF Calls
<1>3. /\ at'[p] = at[p] + 1 /\ \A q \in Procs : q # p => at'[q] = at[q]
  BY <1>1, <1>2, Moves
<1>4. CASE p = "parent"
  <2>1. at["parent"] \in 1..3 \/ at["parent"] \in 24..26 \/ (at["parent"] \in 4..23 /\ at["parent"] % 4 \in {1, 2})
    BY <1>1, <1>2, <1>4, SemCalls
  <2>2. Inner("parent")' <=> Inner("parent")
    BY <1>3, <1>4, <2>1 DEF Inner
  <2>3. Inner("child")' <=> Inner("child")
    BY <1>3, <1>4, Two DEF Inner
  <2> QED BY <2>2, <2>3, Two
<1>5. CASE p = "child"
  <2>1. at["child"] \in 1..2 \/ (at["child"] \in 3..17 /\ at["child"] % 3 = 1)
    BY <1>1, <1>2, <1>5, SemCalls
  <2>2. Inner("child")' <=> Inner("child")
    BY <1>3, <1>5, <2>1 DEF Inner
  <2>3. Inner("parent")' <=> Inner("parent")
    BY <1>3, <1>5, Two DEF Inner
  <2> QED BY <2>2, <2>3, Two
<1> QED BY <1>4, <1>5, Two

\* What a step does to the sections, the semaphore, its name and the dead.
LEMMA Sections ==
    ASSUME Inv, prog = "sem", [Next]_vars
    PROVE  /\ dead \subseteq dead'
           /\ \/ \E p \in Procs : Lock(p)
              \/ \E p \in Procs : Unlock(p)
              \/ /\ \A q \in Procs : Inner(q)' <=> Inner(q)
                 /\ named => sem' = sem
<1> DEFINE Keep == /\ dead \subseteq dead'
                   /\ \/ \E p \in Procs : Lock(p)
                      \/ \E p \in Procs : Unlock(p)
                      \/ /\ \A q \in Procs : Inner(q)' <=> Inner(q)
                         /\ named => sem' = sem
<1>1. ASSUME NEW p \in Procs, NEW call, Calls(p, call), call \notin {"lock", "unlock"}, Past(p),
             dead' = dead, named => sem' = sem
      PROVE  Keep
  BY <1>1, StaysPut
<1>2. ASSUME at' = at, dead \subseteq dead', named => sem' = sem PROVE Keep
  <2>1. \A q \in Procs : Inner(q)' <=> Inner(q)
    BY <1>2 DEF Inner
  <2> QED BY <1>2, <2>1
<1>3. ASSUME NEW p \in Procs, Fork(p) PROVE Keep
  <2>1. /\ Calls(p, "fork") /\ dead' = dead /\ sem' = sem /\ Shape /\ prog' = prog
    BY <1>3, prog = "sem" DEF Fork, store, Inv
  <2>2. p = "parent" /\ at["parent"] = 1 /\ at["child"] = 0
    <3>1. p = "parent" /\ at["parent"] = ForkAt
      BY <2>1, Located DEF Place
    <3>2. at["child"] \in Nat /\ ForkAt = 1
      BY <2>1, Two DEF Shape, ForkAt
    <3> QED BY <3>1, <3>2 DEF Inv, Forked
  <2>3. at' \in [Procs -> Nat] /\ ((at'["parent"] = 2 /\ at'["child"] = 1) \/ (at'["parent"] = 27 /\ at'["child"] = 0))
    <3>1. PICK n \in Nat : n = Last(p) /\ Len(Text(p)) = n
      BY <2>1, Lengths DEF Shape
    <3>2. n = 26
      BY <2>2, <3>1 DEF Last
    <3>3. CASE at' = [q \in Procs |-> IF q = p THEN at[p] + 1 ELSE 1]
      BY <2>2, <3>3, Two
    <3>4. CASE at' = [at EXCEPT ![p] = Len(Text(p)) + 1]
      BY <2>1, <2>2, <3>1, <3>2, <3>4, Two DEF Shape
    <3> QED BY <1>3, <3>3, <3>4, prog = "sem" DEF Fork
  <2>4. ~Inner("parent") /\ ~Inner("child") /\ ~Inner("parent")' /\ ~Inner("child")'
    BY <2>2, <2>3 DEF Inner
  <2> QED BY <2>1, <2>4, Two
<1>4. ASSUME NEW p \in Procs, Run(p) \/ Kill(p) \/ Quit(p) PROVE Keep
  <2>1. CASE Lock(p) \/ Unlock(p)
    BY <2>1 DEF Lock, Unlock
  <2>2. CASE Wait(p) \/ Mkfifo(p) \/ Poll(p) \/ Read(p)
    BY <1>1, <2>2 DEF Wait, Onward, Mkfifo, Poll, Read, store
  <2>3. CASE Pipe(p) \/ Close(p) \/ Hangup(p)
    BY <1>1, <2>3 DEF Pipe, Close, Hangup, store
  <2>4. CASE Open(p) \/ Write(p) \/ Page(p) \/ Quit(p)
    <3>1. PICK call \in {"open", "write", "page"} : Calls(p, call)
      BY <2>4 DEF Open, Write, Page, Quit
    <3>2. Place(p, call)
      BY <3>1, Located DEF Inv
    <3> QED BY <3>1, <3>2 DEF Place, Is
  <2>5. CASE Msgget(p) \/ Msgsnd(p) \/ Msgrcv(p) \/ Remove(p)
    BY <1>1, <2>5 DEF Msgget, Msgsnd, Msgrcv, Remove, Onward, store
  <2>6. CASE SemOpen(p)
    <3>1. CASE Dies(p) /\ UNCHANGED sem
      BY <1>2, <3>1 DEF Dies
    <3>2. CASE Past(p) /\ UNCHANGED <<dead, holds>> /\ sem' = IF named THEN sem ELSE 1
      BY <1>1, <2>6, <3>2 DEF SemOpen
    <3> QED BY <2>6, <3>1, <3>2 DEF SemOpen
  <2>7. CASE Shmget(p) \/ Fill(p) \/ SemUnlink(p)
    BY <1>1, <2>7 DEF Shmget, Fill, SemUnlink
  <2>8. CASE Show(p)
    <3>1. CASE Dies(p)
      BY <1>2, <2>8, <3>1 DEF Dies, Show, store
    <3>2. CASE Past(p) /\ UNCHANGED <<dead, holds>>
      BY <1>1, <2>8, <3>2 DEF Show, store
    <3> QED BY <2>8, <3>1, <3>2 DEF Show
  <2>9. CASE Kill(p)
    BY <1>2, <2>9 DEF Kill, Dies, store
  <2> QED BY <1>3, <1>4, <2>1, <2>2, <2>3, <2>4, <2>5, <2>6, <2>7, <2>8, <2>9 DEF Run
<1>5. CASE UNCHANGED vars
  BY <1>2, <1>5 DEF vars
<1> QED BY <1>4, <1>5 DEF Next, Rest

\* Who locks was not inside and is then, who unlocks was inside and is not.
LEMMA InAndOut ==
    ASSUME Inv, Inv', NEW p \in Procs, Lock(p) \/ Unlock(p)
    PROVE  /\ prog = "sem" /\ p \notin dead
           /\ \A q \in Procs : q # p => ~Inner(q) /\ ~Inner(q)'
           /\ Lock(p) => sem = 1 /\ ~Inner(p) /\ Inner(p)'
           /\ Unlock(p) => Inner(p) /\ ~Inner(p)'
<1>1. PICK call \in {"lock", "unlock"} : /\ Calls(p, call) /\ Past(p)
                                         /\ call = "lock" <=> Lock(p)
                                         /\ call = "unlock" <=> Unlock(p)
                                         /\ call = "lock" => sem = 1
  BY DEF Lock, Unlock, Onward, Calls
<1>2. Shape /\ at["parent"] \in Nat /\ at["child"] \in Nat
  BY Two DEF Inv, Shape
<1>3. Place(p, call) /\ p \notin dead /\ at[p] \in 1..Last(p)
  BY <1>1, <1>2, Located
<1>4. prog = "sem" /\ at'[p] = at[p] + 1 /\ \A q \in Procs : q # p => at'[q] = at[q]
  BY <1>1, <1>2, <1>3, Moves DEF Place
<1>5. /\ call = "lock" => Inner(p)' /\ ~Inner(p)
      /\ call = "unlock" => Inner(p) /\ ~Inner(p)'
  <2>1. CASE p = "parent"
    BY <1>1, <1>3, <1>4, <2>1 DEF Place, Inner
  <2>2. CASE p = "child"
    BY <1>1, <1>3, <1>4, <2>2 DEF Place, Inner
  <2> QED BY <2>1, <2>2, Two
<1>6. \A q \in Procs : q # p => (Inner(q)' <=> Inner(q))
  BY <1>4 DEF Inner
<1>7. \A q \in Procs : q # p => ~Inner(q)
  <2>1. call = "lock" => ~Inner("parent") /\ ~Inner("child")
    BY <1>1, <1>4, Two DEF Inv, Guard
  <2>2. call = "unlock" => ~Inner(Other(p))
    BY <1>4, <1>5 DEF Inv, Guard
  <2> QED BY <1>1, <2>1, <2>2, Two
<1> QED BY <1>1, <1>3, <1>4, <1>5, <1>6, <1>7

\* Those that are inside.
Within == {p \in Procs : Inside(p)}

\* The named semaphore lets one process in at a time, and keeps out every other one
\* when the one inside has died, until its name is removed: the program implements
\* Exclusion.
THEOREM OneInside == Spec => SemGuards
<1>1. Init => Section!Init
  BY Two DEF Init, Section!Init, Inside
<1>2. Inv /\ Inv' /\ [Next]_vars => [Section!Next]_Within
  <2> SUFFICES ASSUME Inv, Inv', [Next]_vars, prog = "sem" PROVE [Section!Next]_Within
    BY SameProgram DEF Within, Inside
  <2>1. prog' = prog /\ \A q \in Procs : (Inside(q) <=> Inner(q)) /\ (Inside(q)' <=> Inner(q)')
    BY SameProgram, InsideBoth
  <2>2. ASSUME NEW p \in Procs, Lock(p) PROVE Section!Enter(p)
    BY <2>1, <2>2, InAndOut DEF Section!Enter
  <2>3. ASSUME NEW p \in Procs, Unlock(p) PROVE Section!Leave(p)
    BY <2>1, <2>3, InAndOut DEF Section!Leave
  <2>4. CASE \A q \in Procs : Inner(q)' <=> Inner(q)
    BY <2>1, <2>4 DEF Within
  <2> QED BY <2>2, <2>3, <2>4, Sections DEF Section!Next
<1>3. Inv /\ Inv' /\ [Next]_vars => [Lost => Lost' \/ ~named']_vars
  <2> SUFFICES ASSUME Inv, Inv', [Next]_vars, Lost, named' PROVE Lost'
    OBVIOUS
  <2>1. /\ prog = "sem" /\ named /\ sem = 0 /\ prog' = "sem"
        /\ \A q \in Procs : (Inside(q) <=> Inner(q)) /\ (Inside(q)' <=> Inner(q)')
        /\ \A q \in Procs : Inner(q) => q \in dead
    BY SameProgram, InsideBoth DEF Lost
  <2>2. ASSUME NEW p \in Procs, Lock(p) \/ Unlock(p) PROVE FALSE
    BY <2>1, <2>2, InAndOut
  <2>3. /\ dead \subseteq dead' /\ sem' = sem
        /\ \A q \in Procs : Inner(q)' <=> Inner(q)
    BY <2>1, <2>2, Sections
  <2> QED BY <2>1, <2>3 DEF Lost
<1> QED BY <1>1, <1>2, <1>3, Invariance, PTL
    DEF Spec, SemGuards, SemExclusion, LostForGood, Section!Spec, Within
=============================================================================
