------------------------- MODULE SharedCounterProofs ------------------------
(***************************************************************************)
(* For any number of threads, any writers among them and any limits: the   *)
(* lock excludes, no increment is lost, the counter passes the largest     *)
(* limit by less than one for every writer, and the lock is destroyed      *)
(* unused.                                                                 *)
(***************************************************************************)
EXTENDS SharedCounter, FiniteSetTheorems, TLAPS

\* Who holds the lock, and a writer that does is alone.
Holding ==
    /\ \A t \in Threads : t \in holders <=> pc[t] \in {"load", "store", "unlock"}
    /\ \A w \in Writers \cap holders : holders = {w}

\* Between load and store the counter does not move.
Loaded ==
    \A t \in Threads : pc[t] = "store" => t \in Writers /\ reg[t] = value

\* The writers that have to come through Check before they increment again.
Spent == {t \in Writers : pc[t] \in {"unlock", "check", "done"}}

Bounded == \E w \in Writers : value < Limit[w] + Cardinality(Spent)

\* The last increment was returned to somebody.
Returned == value = 0 \/ \E w \in Writers : ret[w] = value

\* main joins only threads that reached their limit.
Joined ==
    /\ \A t \in Threads : pc[t] = "done" => value >= Limit[t]
    /\ \A t \in Threads : N + t <= main => pc[t] = "done"

Inv == /\ TypeOK /\ Holding /\ Loaded /\ DistinctReturns
       /\ Bounded /\ Returned /\ Joined
-----------------------------------------------------------------------------
\* There are finitely many writers, so any set of them can be counted.
LEMMA WritersFinite ==
    ASSUME NEW S \in SUBSET Writers
    PROVE  /\ IsFiniteSet(S) /\ Cardinality(S) \in Nat
           /\ Cardinality(S) <= Cardinality(Writers) /\ Cardinality(Writers) \in Nat
<1>1. IsFiniteSet(Threads)
    BY NAssumption, FS_Interval DEF Threads
<1>2. IsFiniteSet(Writers)
    BY <1>1, WritersAssumption, FS_Subset
<1>3. IsFiniteSet(S) /\ Cardinality(S) <= Cardinality(Writers)
    BY <1>2, FS_Subset
<1> QED BY <1>2, <1>3, FS_CardinalityType

\* Initially nobody runs and the counter is below every limit.
LEMMA Initial == Init => Inv
<1> SUFFICES ASSUME Init PROVE Inv
    OBVIOUS
<1> USE NAssumption, WritersAssumption, LimitAssumption DEF Init, Threads
<1>1. TypeOK /\ Holding /\ Loaded /\ DistinctReturns /\ Returned /\ Joined
    BY DEF TypeOK, Holding, Loaded, DistinctReturns, Returned, Joined
<1>2. Bounded
  <2>1. Spent = {}
    BY DEF Spent
  <2>2. Cardinality(Spent) = 0
    BY <2>1, FS_EmptySet
  <2>3. PICK w \in Writers : TRUE
    OBVIOUS
  <2>4. Limit[w] \in Nat \ {0}
    BY <2>3
  <2>5. value < Limit[w] + Cardinality(Spent)
    BY <2>2, <2>4
  <2> QED BY <2>5 DEF Bounded
<1> QED BY <1>1, <1>2 DEF Inv

\* Every step keeps the types.
LEMMA Typing == ASSUME TypeOK, [Next]_vars PROVE TypeOK'
<1> USE NAssumption, WritersAssumption DEF TypeOK, Goto
<1>1. CASE Main
    BY <1>1 DEF Main, Create, Join, Destroy
<1>2. ASSUME NEW t \in Threads, Lock(t) \/ ReadLock(t) \/ Unlock(t) PROVE TypeOK'
    BY <1>2 DEF Lock, ReadLock, Unlock
<1>3. ASSUME NEW t \in Threads, Load(t) \/ Copy(t) \/ Check(t) PROVE TypeOK'
    BY <1>3 DEF Load, Copy, Check
<1>4. ASSUME NEW t \in Threads, Store(t) PROVE TypeOK'
  <2>1. reg[t] + 1 \in Nat
    OBVIOUS
  <2> QED BY <1>4, <2>1 DEF Store
<1>5. CASE UNCHANGED vars
    BY <1>5 DEF vars
<1> QED BY <1>1, <1>2, <1>3, <1>4, <1>5 DEF Next, Step

\* The lock is held exactly from lock to unlock, and by a writer alone.
LEMMA Locking == ASSUME TypeOK, Holding, [Next]_vars PROVE Holding'
<1> USE WritersAssumption DEF Holding, Goto
<1>t. /\ holders \subseteq Threads
      /\ pc \in [Threads -> {"none", "lock", "load", "store", "unlock", "check", "done"}]
    BY DEF TypeOK
<1>1. ASSUME NEW t, NEW l, pc' = [pc EXCEPT ![t] = l], UNCHANGED holders,
             pc[t] \in {"load", "store", "unlock"} <=> l \in {"load", "store", "unlock"}
      PROVE  Holding'
    BY <1>t, <1>1
<1>2. ASSUME NEW t \in Threads, Lock(t) PROVE Holding'
    BY <1>t, <1>2 DEF Lock
<1>3. ASSUME NEW t \in Threads, ReadLock(t) PROVE Holding'
    BY <1>t, <1>3 DEF ReadLock
<1>4. ASSUME NEW t \in Threads, Unlock(t) PROVE Holding'
    BY <1>t, <1>4 DEF Unlock
<1>5. ASSUME NEW t \in Threads, Load(t) \/ Store(t) \/ Copy(t) PROVE Holding'
    BY <1>1, <1>5 DEF Load, Store, Copy
<1>6. ASSUME NEW t \in Threads, Check(t) PROVE Holding'
    BY <1>1, <1>6 DEF Check
<1>7. CASE Create
    BY <1>1, <1>7 DEF Create
<1>8. CASE Join \/ Destroy \/ UNCHANGED vars
    BY <1>8 DEF Join, Destroy, vars
<1> QED BY <1>2, <1>3, <1>4, <1>5, <1>6, <1>7, <1>8 DEF Next, Main, Step

\* What a writer has loaded is still the value of the counter when it stores.
LEMMA Loading == ASSUME TypeOK, Holding, Loaded, [Next]_vars PROVE Loaded'
<1> USE DEF Loaded, Goto
<1>t. /\ reg \in [Threads -> Nat]
      /\ pc \in [Threads -> {"none", "lock", "load", "store", "unlock", "check", "done"}]
    BY DEF TypeOK
<1>1. ASSUME NEW t, NEW l, l # "store", pc' = [pc EXCEPT ![t] = l],
             UNCHANGED <<value, reg>>
      PROVE  Loaded'
    BY <1>t, <1>1
<1>2. ASSUME NEW t \in Threads, Load(t) PROVE Loaded'
    BY <1>t, <1>2 DEF Load
<1>3. ASSUME NEW t \in Threads, Store(t) PROVE Loaded'
  <2>1. holders = {t}
    BY <1>3 DEF Store, Holding
  <2>2. \A u \in Threads : pc'[u] # "store"
    BY <1>t, <1>3, <2>1 DEF Store, Holding
  <2> QED BY <2>2
<1>4. ASSUME NEW t \in Threads, Lock(t) \/ ReadLock(t) \/ Copy(t) \/ Unlock(t)
      PROVE  Loaded'
    BY <1>1, <1>4 DEF Lock, ReadLock, Copy, Unlock
<1>5. ASSUME NEW t \in Threads, Check(t) PROVE Loaded'
    BY <1>1, <1>5 DEF Check
<1>6. CASE Create
    BY <1>1, <1>6 DEF Create
<1>7. CASE Join \/ Destroy \/ UNCHANGED vars
    BY <1>7 DEF Join, Destroy, vars
<1> QED BY <1>2, <1>3, <1>4, <1>5, <1>6, <1>7 DEF Next, Main, Step

\* Each increment is returned once, and the last one to somebody.
LEMMA Returning ==
    ASSUME TypeOK, TypeOK', Loaded, DistinctReturns, Returned, [Next]_vars
    PROVE  DistinctReturns' /\ Returned'
<1> USE WritersAssumption
<1>t. /\ value \in Nat /\ \A u \in Writers : ret[u] \in Nat
      /\ value' \in Nat /\ \A u \in Writers : ret'[u] \in Nat
    BY DEF TypeOK
<1>1. ASSUME value' = value, \A u \in Writers : ret'[u] = ret[u]
      PROVE  DistinctReturns' /\ Returned'
    BY <1>1 DEF DistinctReturns, Returned
<1>2. ASSUME NEW t \in Threads, Store(t) PROVE DistinctReturns' /\ Returned'
  <2>1. t \in Writers /\ value' = value + 1 /\ ret'[t] = value + 1
    BY <1>2 DEF Store, Goto, Loaded, TypeOK
  <2>2. \A u \in Writers : u # t => ret'[u] = ret[u] /\ ret[u] <= value
    BY <1>2 DEF Store, TypeOK, DistinctReturns
  <2>3. ASSUME NEW u \in Writers, NEW v \in Writers
        PROVE  ret'[u] <= value' /\ (u # v /\ ret'[u] = ret'[v] => ret'[u] = 0)
    <3>1. CASE u = t \/ v = t
      BY <1>t, <2>1, <2>2, <3>1
    <3>2. CASE u # t /\ v # t
      BY <1>t, <2>1, <2>2, <3>2 DEF DistinctReturns
    <3> QED BY <3>1, <3>2
  <2>4. DistinctReturns'
    BY <2>3 DEF DistinctReturns
  <2> QED BY <2>1, <2>4 DEF Returned
<1>3. ASSUME NEW t \in Threads, Copy(t) PROVE DistinctReturns' /\ Returned'
  <2>1. value' = value /\ \A u \in Writers : ret'[u] = ret[u]
    BY <1>3 DEF Copy
  <2> QED BY <1>1, <2>1
<1>4. ASSUME UNCHANGED <<value, ret>> PROVE DistinctReturns' /\ Returned'
    BY <1>1, <1>4
<1> QED
    BY <1>2, <1>3, <1>4
       DEF Next, Main, Step, Create, Join, Destroy, Lock, ReadLock, Load, Unlock,
           Check, vars

\* Only threads that have seen their limit are done, and only they are joined.
LEMMA Joining ==
    ASSUME TypeOK, TypeOK', Loaded, Joined, [Next]_vars PROVE Joined'
<1>t. /\ pc \in [Threads -> {"none", "lock", "load", "store", "unlock", "check", "done"}]
      /\ value \in Nat /\ main \in 0..(2 * N + 1) /\ N \in Nat
    BY NAssumption DEF TypeOK
<1>l. \A u \in Threads : Limit[u] \in Nat
    BY LimitAssumption
<1>1. ASSUME main' = main, value' \in {value, value + 1},
             \A u \in Threads : pc[u] = "done" => pc'[u] = "done",
             \A u \in Threads : pc'[u] = "done" => pc[u] = "done" \/ value >= Limit[u]
      PROVE  Joined'
  <2>1. ASSUME NEW u \in Threads, pc'[u] = "done" PROVE value' >= Limit[u]
    <3>1. value >= Limit[u]
      BY <1>1, <2>1 DEF Joined
    <3> QED BY <1>1, <1>t, <1>l, <3>1
  <2> QED BY <1>1, <2>1 DEF Joined
<1>2. CASE Create
  <2>1. \A u \in Threads : ~(N + u <= main')
    BY <1>2, <1>t DEF Create, Threads
  <2>2. value' = value /\ \A u \in Threads : pc'[u] = "done" => pc[u] = "done"
    BY <1>2, <1>t DEF Create, Goto
  <2> QED BY <2>1, <2>2 DEF Joined
<1>3. CASE Join
  <2>1. \A u \in Threads : N + u <= main + 1 => N + u <= main \/ u = main - N + 1
    BY <1>t, <1>3 DEF Join, Threads
  <2> QED BY <1>3, <2>1 DEF Joined, Join
<1>4. CASE Destroy
  <2>1. \A u \in Threads : N + u <= main
    BY <1>4, <1>t DEF Destroy, Threads
  <2> QED BY <1>4, <2>1 DEF Joined, Destroy
<1>5. ASSUME NEW t \in Threads, NEW l, Goto(t, pc[t], l), l # "done",
             pc[t] # "done", main' = main, value' \in {value, value + 1}
      PROVE  Joined'
  <2>1. \A u \in Threads : pc'[u] = "done" <=> pc[u] = "done"
    BY <1>5, <1>t DEF Goto
  <2> QED BY <1>1, <1>5, <2>1
<1>6. ASSUME NEW t \in Threads, Store(t) PROVE Joined'
  <2>1. value' = value + 1
    BY <1>6 DEF Store, Goto, Loaded
  <2>2. Goto(t, pc[t], "unlock") /\ pc[t] = "store" /\ main' = main
    BY <1>6 DEF Store, Goto
  <2> QED BY <1>5, <2>1, <2>2
<1>7. ASSUME NEW t \in Threads, Check(t) PROVE Joined'
  <2>1. \A u \in Threads \ {t} : pc'[u] = pc[u]
    BY <1>7, <1>t DEF Check, Goto
  <2>2. pc[t] = "check" /\ (pc'[t] = "done" => value >= Limit[t])
    BY <1>7, <1>t DEF Check, Goto
  <2>3. value' = value /\ main' = main
    BY <1>7 DEF Check
  <2> QED BY <1>1, <2>1, <2>2, <2>3
<1>8. ASSUME NEW t \in Threads, Lock(t) \/ ReadLock(t) \/ Load(t) PROVE Joined'
  <2>1. \E l \in {"load", "store"} : Goto(t, pc[t], l)
    BY <1>8 DEF Lock, ReadLock, Load, Goto
  <2>2. pc[t] # "done" /\ main' = main /\ value' = value
    BY <1>8 DEF Lock, ReadLock, Load, Goto
  <2> QED BY <1>5, <2>1, <2>2
<1>9. ASSUME NEW t \in Threads, Copy(t) \/ Unlock(t) PROVE Joined'
  <2>1. \E l \in {"unlock", "check"} : Goto(t, pc[t], l)
    BY <1>9 DEF Copy, Unlock, Goto
  <2>2. pc[t] # "done" /\ main' = main /\ value' = value
    BY <1>9 DEF Copy, Unlock, Goto
  <2> QED BY <1>5, <2>1, <2>2
<1>10. CASE UNCHANGED vars
    BY <1>10 DEF Joined, vars
<1> QED BY <1>2, <1>3, <1>4, <1>6, <1>7, <1>8, <1>9, <1>10 DEF Next, Main, Step

\* Every increment beyond all limits uses up one writer.
LEMMA Bounding ==
    ASSUME TypeOK, Holding, Loaded, Bounded, [Next]_vars
    PROVE  Bounded'
<1> USE NAssumption, WritersAssumption, LimitAssumption DEF Threads, TypeOK, Goto
<1>1. Spent \in SUBSET Writers /\ Spent' \in SUBSET Writers
    BY DEF Spent
<1>2. IsFiniteSet(Spent) /\ Cardinality(Spent) \in Nat /\ Cardinality(Spent') \in Nat
    BY <1>1, WritersFinite
<1>3. PICK w \in Writers : value < Limit[w] + Cardinality(Spent)
    BY DEF Bounded
<1>4. ASSUME Spent' = Spent, value' = value PROVE Bounded'
    BY <1>3, <1>4 DEF Bounded
<1>5. ASSUME NEW t \in Threads, Store(t) PROVE Bounded'
  <2>1. t \in Writers /\ value' = value + 1 /\ t \notin Spent
    BY <1>5 DEF Store, Loaded, Spent
  <2>2. Spent' = Spent \cup {t}
    BY <1>5, <2>1 DEF Store, Spent
  <2>3. Cardinality(Spent') = Cardinality(Spent) + 1
    BY <1>2, <2>1, <2>2, FS_AddElement
  <2>4. Limit[w] \in Nat
    OBVIOUS
  <2>5. value' < Limit[w] + Cardinality(Spent')
    BY SMTT(30), <1>2, <1>3, <2>1, <2>3, <2>4
  <2> QED BY <2>5 DEF Bounded
<1>6. ASSUME NEW t \in Threads, Check(t) PROVE Bounded'
  <2>1. CASE value >= Limit[t] \/ t \notin Writers
    BY <1>4, <1>6, <2>1 DEF Check, Spent
  <2>2. CASE value < Limit[t] /\ t \in Writers
    <3>1. value' = value /\ Limit[t] \in Nat
      BY <1>6 DEF Check
    <3>2. value' < Limit[t] + Cardinality(Spent')
      BY <1>2, <2>2, <3>1
    <3> QED BY <2>2, <3>2 DEF Bounded
  <2> QED BY <2>1, <2>2
<1>7. ASSUME NEW t \in Threads,
             Lock(t) \/ ReadLock(t) \/ Load(t) \/ Unlock(t) \/ Copy(t)
      PROVE  Bounded'
    BY <1>4, <1>7 DEF Lock, ReadLock, Load, Unlock, Copy, Spent
<1>8. CASE Main
    BY <1>4, <1>8 DEF Main, Create, Join, Destroy, Spent
<1>9. CASE UNCHANGED vars
    BY <1>4, <1>9 DEF vars, Spent
<1> QED BY <1>5, <1>6, <1>7, <1>8, <1>9 DEF Next, Step

\* The inductive invariant.
LEMMA Invariance == Spec => []Inv
<1>1. Inv /\ [Next]_vars => Inv'
    BY Typing, Locking, Loading, Returning, Joining, Bounding DEF Inv
<1> QED BY Initial, <1>1, PTL DEF Spec

\* Threads, lock and main stay where their calls can put them.
THEOREM Types == Spec => []TypeOK
<1>1. Inv => TypeOK
    BY DEF Inv
<1> QED BY <1>1, Invariance, PTL

\* No increment is lost.
THEOREM NoLostUpdate == Spec => []DistinctReturns
<1>1. Inv => DistinctReturns
    BY DEF Inv
<1> QED BY <1>1, Invariance, PTL

\* The counter passes the largest limit by less than one for every writer.
THEOREM OvershootBound == Spec => []Overshoot
<1>1. Inv => Overshoot
  <2> SUFFICES ASSUME Inv PROVE Overshoot
      OBVIOUS
  <2> USE NAssumption, WritersAssumption, LimitAssumption DEF Threads
  <2>1. Spent \in SUBSET Writers
    BY DEF Spent
  <2>2. /\ Cardinality(Spent) \in Nat /\ Cardinality(Writers) \in Nat
        /\ Cardinality(Spent) <= Cardinality(Writers)
    BY <2>1, WritersFinite
  <2>3. PICK w \in Writers : value < Limit[w] + Cardinality(Spent)
    BY DEF Inv, Bounded
  <2>4. value \in Nat /\ Limit[w] \in Nat
    BY DEF Inv, TypeOK
  <2>5. value < Limit[w] + Cardinality(Writers)
    BY <2>2, <2>3, <2>4
  <2> QED BY <2>5 DEF Overshoot
<1> QED BY <1>1, Invariance, PTL

\* What main prints last is the counter, and every limit has been reached.
THEOREM FinalReturn == Spec => []FinalValue
<1>1. Inv => FinalValue
  <2> SUFFICES ASSUME Inv, Ended PROVE FinalValue
      BY DEF FinalValue
  <2> USE NAssumption, WritersAssumption, LimitAssumption DEF Threads, Inv, TypeOK
  <2>1. \A t \in Threads : value >= Limit[t]
    BY DEF Joined, Ended
  <2>2. value # 0
    <3>1. PICK w \in Writers : Limit[w] \in Nat \ {0}
      OBVIOUS
    <3> QED BY <2>1, <3>1
  <2> QED BY <2>1, <2>2 DEF Returned, FinalValue
<1> QED BY <1>1, Invariance, PTL

\* No increment is lost, however late the comparison with the limit comes: the
\* counter is at most a writer past the limit, and main prints what it holds.
THEOREM Counts == Spec => []Counted
  BY NoLostUpdate, OvershootBound, FinalReturn, PTL DEF Counted

\* Nobody uses the lock that main destroys.
THEOREM DestroySafe == Spec => []DestroyUnused
<1>1. Inv => DestroyUnused
    BY NAssumption DEF Inv, TypeOK, Joined, Holding, DestroyUnused, Ended, Threads
<1> QED BY <1>1, Invariance, PTL

\* The writers exclude one another from their lock call to their unlock call.
THEOREM Exclusive == Spec => LockExclusion
<1>1. Init => X!Init
    BY WritersAssumption DEF Init, X!Init, inside
<1>2. Inv /\ Inv' /\ [Next]_vars => [X!Next]_inside
  <2> SUFFICES ASSUME Inv, Inv', [Next]_vars PROVE X!Next \/ inside' = inside
      OBVIOUS
  <2>1. inside = Writers \cap holders
    BY WritersAssumption DEF Inv, Holding, inside
  <2>2. inside' = Writers \cap holders'
    BY WritersAssumption DEF Inv, Holding, inside
  <2>3. ASSUME NEW t \in Threads, Lock(t) PROVE X!Next
    <3>1. t \in Writers /\ inside = {} /\ inside' = {t}
      BY <2>1, <2>2, <2>3 DEF Lock
    <3> QED BY <3>1 DEF X!Next, X!Enter
  <2>4. ASSUME NEW t \in Threads, ReadLock(t) PROVE inside' = inside
    BY <2>1, <2>2, <2>4 DEF ReadLock
  <2>5. ASSUME NEW t \in Threads, Unlock(t) PROVE X!Next \/ inside' = inside
    <3>1. CASE t \in inside
      <4>1. t \in Writers /\ holders = {t} /\ holders' = holders \ {t}
        BY <2>1, <2>5, <3>1 DEF Unlock, Inv, Holding
      <4>2. inside = {t} /\ inside' = {}
        BY <2>1, <2>2, <4>1
      <4> QED BY <4>1, <4>2 DEF X!Next, X!Leave
    <3>2. CASE t \notin inside
      BY <2>1, <2>2, <2>5, <3>2 DEF Unlock
    <3> QED BY <3>1, <3>2
  <2>6. ASSUME UNCHANGED holders PROVE inside' = inside
    BY <2>1, <2>2, <2>6
  <2> QED
    BY <2>3, <2>4, <2>5, <2>6
       DEF Next, Main, Step, Create, Join, Destroy, Load, Store, Copy, Check, vars
<1> QED BY <1>1, <1>2, Invariance, PTL DEF Spec, X!Spec, LockExclusion
=============================================================================
