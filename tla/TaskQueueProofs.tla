--------------------------- MODULE TaskQueueProofs ---------------------------
(***************************************************************************)
(* What is proved of lab7's pool of workers, for any number of workers and   *)
(* any input: IInv of TaskQueue is inductive, so that each task is added in  *)
(* exactly once.                                                           *)
(***************************************************************************)
EXTENDS TaskQueue, FiniteSets, FiniteSetTheorems, WellFoundedInduction, TLAPS

(* What the assumptions say, unfolded.                                       *)
LEMMA Constants ==
  /\ Main \in Threads /\ Workers \subseteq Threads /\ Main \notin Workers
  /\ NoThread \notin Threads /\ NoCond \notin Conds
  /\ Len(Tasks) \in Nat /\ Tasks \in Seq(Nat \ {0})
  /\ \A i \in 1..Len(Tasks) : Tasks[i] \in Nat
  /\ Mutexes = {"read_lock", "data"} /\ Conds = {"work_present"}
  /\ \A t \in Threads : t = Main \/ t \in Workers
BY TaskQueueAssumption, PthreadsAssumption DEF Workers

(* At the start.                                                             *)
LEMMA InitIInv == Init => IInv
<1>. SUFFICES ASSUME Init PROVE IInv
  OBVIOUS
<1>. USE Constants DEF Init, PtInit
<1>1. TypeOK
  <2>1. stats.sum \in Nat
    BY DEF NoStats
  <2>. QED  BY <2>1 DEF TypeOK, PtTypeOK
<1>2. LockInv
  BY DEF LockInv
<1>3. TaskInv
  <2>1. \A t \in Workers : pc[t] = "loop"
    OBVIOUS
  <2>2. \A t \in Workers : ~(pc[t] \in InHand)
    BY <2>1 DEF InHand
  <2>3. \A i \in DOMAIN performed : performed[i] = 0 /\ ~(i <= read_index)
    OBVIOUS
  <2>4. \A t \in Workers : reg[t].sum \in Nat
    BY DEF NoStats
  <2>. QED  BY <2>2, <2>3, <2>4 DEF TaskInv
<1>4. EndInv
  BY DEF EndInv
<1>. QED  BY <1>1, <1>2, <1>3, <1>4 DEF IInv

(* Signals change waiting only. *)
LEMMA SignalTyped ==
  ASSUME PtTypeOK, Signal("work_present") \/ Broadcast("work_present"), UNCHANGED owner
  PROVE PtTypeOK'
<1>. USE Constants DEF PtTypeOK
<1>1. CASE Broadcast("work_present")
  BY <1>1 DEF Broadcast
<1>2. CASE Signal("work_present")
  BY <1>2 DEF Signal, Waiters
<1>. QED  BY <1>1, <1>2

(* Types stay.                                                               *)
LEMMA TypeOKStep == ASSUME IInv, [Next]_vars PROVE TypeOK'
<1>. USE Constants DEF IInv, TypeOK, queueVars, ptVars, Goto
<1>1. CASE MainWrite
  BY <1>1 DEF MainWrite, PtTypeOK
<1>2. CASE MainSignal
  BY <1>2, SignalTyped DEF MainSignal
<1>3. CASE MainStop
  BY <1>3 DEF MainStop, PtTypeOK
<1>4. CASE MainBroadcast
  BY <1>4, SignalTyped DEF MainBroadcast
<1>5. CASE MainJoin
  BY <1>5 DEF MainJoin, PtTypeOK
<1>6. ASSUME NEW t \in Workers, Loop(t) \/ TestIndex(t) \/ TestWriting(t) PROVE TypeOK'
  <2>1. CASE Loop(t)
    BY <2>1 DEF Loop, PtTypeOK
  <2>2. CASE TestIndex(t) \/ TestWriting(t)
    BY <2>2 DEF TestIndex, TestWriting, PtTypeOK
  <2>. QED  BY <1>6, <2>1, <2>2
<1>7. ASSUME NEW t \in Workers, LockQueue(t) \/ Leave(t) \/ Process(t) \/ UnlockStats(t) PROVE TypeOK'
  <2>1. UNCHANGED <<waiting, queueVars, stats, idx, reg, performed>>
    BY <1>7 DEF LockQueue, Leave, Process, UnlockStats
  <2>2. \E l \in {"test_index", "exited", "load", "loop"} : pc' = [pc EXCEPT ![t] = l]
    BY <1>7 DEF LockQueue, Leave, Process, UnlockStats
  <2>3. \E m \in Mutexes : Lock(t, m) \/ Unlock(m)
    BY <1>7 DEF LockQueue, Leave, Process, UnlockStats
  <2>4. owner' \in [Mutexes -> Threads \cup {NoThread}]
    BY <2>3 DEF Lock, Unlock, PtTypeOK
  <2>5. pc' \in [Threads -> {"next", "signal", "stop", "broadcast", "join", "printed",
                         "loop", "lock", "test_index", "test_writing", "wait", "waiting", "take",
                         "process", "load", "store", "unlock", "exited"}]
    BY <2>2
  <2>. QED  BY <2>1, <2>4, <2>5 DEF PtTypeOK
<1>8. ASSUME NEW t \in Workers, Wait(t) PROVE TypeOK'
  BY <1>8 DEF Wait, BeginWait, Unlock, PtTypeOK
<1>9. ASSUME NEW t \in Workers, Take(t) PROVE TypeOK'
  BY <1>9 DEF Take, Unlock, PtTypeOK
<1>10. ASSUME NEW t \in Workers, LoadStats(t) PROVE TypeOK'
  BY <1>10 DEF LoadStats, PtTypeOK
<1>11. ASSUME NEW t \in Workers, StoreStats(t) PROVE TypeOK'
  <2>1. idx[t] \in 1..Len(Tasks) /\ reg[t].sum \in Nat
    BY <1>11 DEF StoreStats, TaskInv, InHand
  <2>2. stats'.sum = reg[t].sum + Tasks[idx[t]]
    BY <1>11 DEF StoreStats, Add
  <2>3. stats'.sum \in Nat
    BY <2>1, <2>2
  <2>4. performed' \in [1..Len(Tasks) -> Nat]
    BY <1>11, <2>1 DEF StoreStats
  <2>. QED  BY <1>11, <2>3, <2>4 DEF StoreStats, PtTypeOK
<1>12. ASSUME NEW t \in Workers, Spurious(t) PROVE TypeOK'
  BY <1>12 DEF Spurious, SpuriousWakeup, PtTypeOK
<1>13. CASE UNCHANGED vars
  BY <1>13 DEF vars, PtTypeOK
<1>. QED
  BY <1>1, <1>2, <1>3, <1>4, <1>5, <1>6, <1>7, <1>8, <1>9, <1>10, <1>11, <1>12, <1>13
     DEF Next, MainStep, WorkerStep

(* Who is at a place under a mutex has it.                                   *)
LEMMA LockStep == ASSUME IInv, [Next]_vars PROVE LockInv'
<1>. USE Constants DEF IInv, TypeOK, PtTypeOK, LockInv, queueVars, ptVars, Goto
<1>1. CASE MainStep
  BY <1>1, ZenonT(60) DEF MainStep, MainWrite, MainSignal, MainStop, MainBroadcast, MainJoin
<1>2. ASSUME NEW t \in Workers, Loop(t) \/ TestIndex(t) \/ TestWriting(t) \/ LoadStats(t) \/ StoreStats(t)
      PROVE LockInv'
  BY <1>2 DEF Loop, TestIndex, TestWriting, LoadStats, StoreStats
<1>3. ASSUME NEW t \in Workers, LockQueue(t) \/ Process(t) PROVE LockInv'
  <2>1. CASE LockQueue(t)
    BY <2>1 DEF LockQueue, Lock
  <2>2. CASE Process(t)
    BY <2>2 DEF Process, Lock
  <2>. QED  BY <1>3, <2>1, <2>2
<1>4. ASSUME NEW t \in Workers, Leave(t) \/ UnlockStats(t) \/ Take(t) PROVE LockInv'
  <2>1. CASE Leave(t)
    BY <2>1 DEF Leave, Unlock
  <2>2. CASE UnlockStats(t)
    BY <2>2 DEF UnlockStats, Unlock
  <2>3. CASE Take(t)
    BY <2>3 DEF Take, Unlock
  <2>. QED  BY <1>4, <2>1, <2>2, <2>3
<1>5. ASSUME NEW t \in Workers, Wait(t) PROVE LockInv'
  BY <1>5 DEF Wait, BeginWait, Unlock
<1>6. ASSUME NEW t \in Workers, Spurious(t) PROVE LockInv'
  BY <1>6 DEF Spurious, SpuriousWakeup
<1>7. CASE UNCHANGED vars
  BY <1>7 DEF vars
<1>. QED
  BY <1>1, <1>2, <1>3, <1>4, <1>5, <1>6, <1>7 DEF Next, WorkerStep

(* Steps that give nobody a task and finish none. *)
LEMMA SameTasks ==
  ASSUME TaskInv, UNCHANGED <<read_index, idx, performed, reg>>,
         \A t \in Workers : pc'[t] \in InHand <=> pc[t] \in InHand
  PROVE TaskInv'
BY DEF TaskInv

(* A task goes from the array to a hand and from there to the totals.        *)
LEMMA TaskStep == ASSUME IInv, [Next]_vars PROVE TaskInv'
<1>. USE Constants DEF IInv, TypeOK, queueVars, ptVars, Goto
<1>1. CASE MainStep
  <2>1. UNCHANGED <<read_index, idx, performed, reg>> /\ \A t \in Workers : pc'[t] = pc[t]
    BY <1>1 DEF MainStep, MainWrite, MainSignal, MainStop, MainBroadcast, MainJoin
  <2>. QED  BY <2>1, SameTasks
<1>2. ASSUME NEW t \in Workers,
             Loop(t) \/ LockQueue(t) \/ TestIndex(t) \/ TestWriting(t) \/ Wait(t) \/ Leave(t)
             \/ Process(t) \/ UnlockStats(t)
      PROVE TaskInv'
  <2>1. UNCHANGED <<read_index, idx, performed, reg>>
    BY <1>2 DEF Loop, LockQueue, TestIndex, TestWriting, Wait, Leave, Process, UnlockStats
  <2>2. \E l : /\ pc' = [pc EXCEPT ![t] = l]
               /\ pc[t] \in InHand <=> l \in InHand
    BY <1>2 DEF Loop, LockQueue, TestIndex, TestWriting, Wait, Leave, Process, UnlockStats, InHand
  <2>. QED  BY <2>1, <2>2, SameTasks
<1>3. ASSUME NEW t \in Workers, Take(t) PROVE TaskInv'
  <2>1. /\ pc[t] = "take" /\ read_index' = read_index + 1 /\ idx' = [idx EXCEPT ![t] = read_index + 1]
        /\ pc' = [pc EXCEPT ![t] = "process"] /\ UNCHANGED <<performed, reg>>
        /\ read_index + 1 \in 1..Len(Tasks)
    BY <1>3 DEF Take
  <2>2. ASSUME NEW i \in DOMAIN performed
        PROVE performed'[i] = IF i <= read_index' /\ \A u \in Workers : ~(pc'[u] \in InHand /\ idx'[u] = i)
                                THEN 1 ELSE 0
    <3>1. CASE i = read_index + 1
      <4>1. performed[i] = 0
        <5>1. ~(i <= read_index)
          BY <3>1
        <5>. QED  BY <5>1 DEF TaskInv
      <4>2. pc'[t] \in InHand /\ idx'[t] = i
        BY <2>1, <3>1 DEF InHand
      <4>. QED  BY <2>1, <4>1, <4>2
    <3>2. CASE i # read_index + 1
      <4>1. i <= read_index' <=> i <= read_index
        BY <2>1, <3>2
      <4>2. \A u \in Workers : (pc'[u] \in InHand /\ idx'[u] = i) <=> (pc[u] \in InHand /\ idx[u] = i)
        BY <2>1, <3>2 DEF InHand, TaskInv
      <4>. QED  BY <2>1, <4>1, <4>2 DEF TaskInv
    <3>. QED  BY <3>1, <3>2
  <2>3. \A u \in Workers : pc'[u] \in InHand => idx'[u] \in 1..read_index'
    BY <2>1 DEF TaskInv, InHand
  <2>4. \A u, w \in Workers : pc'[u] \in InHand /\ pc'[w] \in InHand /\ idx'[u] = idx'[w] => u = w
    BY <2>1 DEF TaskInv, InHand
  <2>. QED  BY <2>1, <2>2, <2>3, <2>4 DEF TaskInv
<1>4. ASSUME NEW t \in Workers, LoadStats(t) PROVE TaskInv'
  <2>1. /\ pc[t] = "load" /\ reg' = [reg EXCEPT ![t] = stats] /\ pc' = [pc EXCEPT ![t] = "store"]
        /\ UNCHANGED <<read_index, idx, performed>>
    BY <1>4 DEF LoadStats
  <2>. QED  BY <2>1 DEF TaskInv, InHand
<1>5. ASSUME NEW t \in Workers, StoreStats(t) PROVE TaskInv'
  <2>. DEFINE k == idx[t]
  <2>1. /\ pc[t] = "store" /\ performed' = [performed EXCEPT ![k] = @ + 1]
        /\ pc' = [pc EXCEPT ![t] = "unlock"] /\ UNCHANGED <<read_index, idx, reg>>
    BY <1>5 DEF StoreStats
  <2>2. k \in 1..read_index /\ k \in DOMAIN performed /\ performed[k] = 0
    BY <2>1 DEF TaskInv, InHand
  <2>3. ASSUME NEW i \in DOMAIN performed
        PROVE performed'[i] = IF i <= read_index' /\ \A u \in Workers : ~(pc'[u] \in InHand /\ idx'[u] = i)
                                THEN 1 ELSE 0
    <3>1. CASE i = k
      <4>1. performed'[i] = 1
        BY <2>1, <2>2, <3>1
      <4>2. ASSUME NEW u \in Workers, pc'[u] \in InHand, idx'[u] = i PROVE FALSE
        BY <2>1, <3>1, <4>2 DEF TaskInv, InHand
      <4>. QED  BY <2>1, <2>2, <3>1, <4>1, <4>2
    <3>2. CASE i # k
      <4>1. performed'[i] = performed[i]
        BY <2>1, <3>2
      <4>2. \A u \in Workers : (pc'[u] \in InHand /\ idx'[u] = i) <=> (pc[u] \in InHand /\ idx[u] = i)
        BY <2>1, <3>2 DEF InHand
      <4>. QED  BY <2>1, <4>1, <4>2 DEF TaskInv
    <3>. QED  BY <3>1, <3>2
  <2>4. \A u \in Workers : pc'[u] \in InHand => pc[u] \in InHand
    BY <2>1 DEF InHand
  <2>5. DOMAIN performed' = DOMAIN performed
    BY <2>1
  <2>. HIDE DEF k
  <2>. QED  BY <2>1, <2>3, <2>4, <2>5 DEF TaskInv
<1>6. ASSUME NEW t \in Workers, Spurious(t) PROVE TaskInv'
  BY <1>6, SameTasks DEF Spurious
<1>7. CASE UNCHANGED vars
  BY <1>7, SameTasks DEF vars
<1>. QED
  BY <1>1, <1>2, <1>3, <1>4, <1>5, <1>6, <1>7 DEF Next, WorkerStep

(* A worker leaves only when no task can come any more.                      *)
LEMMA EndStep == ASSUME IInv, [Next]_vars PROVE EndInv'
<1>. USE Constants DEF IInv, TypeOK, EndInv, queueVars, ptVars, Goto
<1>1. CASE MainWrite
  BY <1>1 DEF MainWrite
<1>2. CASE MainSignal \/ MainBroadcast \/ MainStop \/ MainJoin
  BY <1>2 DEF MainSignal, MainBroadcast, MainStop, MainJoin
<1>3. ASSUME NEW t \in Workers, Loop(t) PROVE EndInv'
  BY <1>3 DEF Loop
<1>4. ASSUME NEW t \in Workers, TestIndex(t) \/ TestWriting(t) PROVE EndInv'
  BY <1>4 DEF TestIndex, TestWriting
<1>5. ASSUME NEW t \in Workers, Take(t) PROVE EndInv'
  <2>1. \A u \in Workers : pc[u] = "take" => u = t
    BY <1>5 DEF Take, LockInv
  <2>2. \A u \in Workers : pc[u] # "exited"
    BY <1>5 DEF Take
  <2>. QED  BY <1>5, <2>1, <2>2 DEF Take
<1>6. ASSUME NEW t \in Workers, Leave(t) PROVE EndInv'
  BY <1>6 DEF Leave
<1>7. ASSUME NEW t \in Workers,
             LockQueue(t) \/ Wait(t) \/ Process(t) \/ LoadStats(t) \/ StoreStats(t) \/ UnlockStats(t)
      PROVE EndInv'
  BY <1>7 DEF LockQueue, Wait, Process, LoadStats, StoreStats, UnlockStats
<1>8. ASSUME NEW t \in Workers, Spurious(t) PROVE EndInv'
  BY <1>8 DEF Spurious
<1>9. CASE UNCHANGED vars
  BY <1>9 DEF vars
<1>. QED
  BY <1>1, <1>2, <1>3, <1>4, <1>5, <1>6, <1>7, <1>8, <1>9 DEF Next, MainStep, WorkerStep

-----------------------------------------------------------------------------
(* IInv is inductive. *)
THEOREM Invariance == Spec => []IInv
<1>1. ASSUME IInv, [Next]_vars PROVE IInv'
  BY <1>1, TypeOKStep, LockStep, TaskStep, EndStep DEF IInv
<1>. QED  BY <1>1, InitIInv, PTL DEF Spec

(* Variables keep their types; the workers do not overtake main(). *)
THEOREM TypeCorrect == Spec => []TypeOK
<1>1. IInv => TypeOK
  BY DEF IInv
<1>. QED  BY <1>1, Invariance, PTL

(* Every task is added in at most once, and, if there is a worker at all, exactly once by *)
(* the time main() prints: the tests of write_index and still_writing, which main()       *)
(* changes between them without the lock, leave none out.                                 *)
THEOREM ExactlyOnce ==
  ASSUME Workers # {}
  PROVE Spec => []PerformedOnce
<1>1. ASSUME IInv PROVE PerformedOnce
  <2>. USE <1>1, Constants DEF IInv, TypeOK, TaskInv, InHand
  <2>1. \A i \in DOMAIN performed : performed[i] <= 1
    <3>1. \A i \in DOMAIN performed : performed[i] = 1 \/ performed[i] = 0
      BY DEF TaskInv
    <3>2. ASSUME NEW i \in DOMAIN performed PROVE performed[i] <= 1
      <4>1. performed[i] = 1 \/ performed[i] = 0
        BY <3>1
      <4>. HIDE DEF TaskInv, TypeOK, IInv
      <4>. QED  BY <4>1
    <3>. QED  BY <3>2
  <2>2. ASSUME pc[Main] = "printed", NEW i \in DOMAIN performed PROVE performed[i] = 1
    <3>1. \A t \in Workers : pc[t] = "exited"
      BY <2>2 DEF EndInv
    <3>2. read_index = Len(Tasks)
      BY <3>1 DEF EndInv
    <3>. QED  BY <2>2, <3>1, <3>2
  <2>. QED  BY <2>1, <2>2 DEF PerformedOnce
<1>. QED  BY <1>1, Invariance, PTL

-----------------------------------------------------------------------------
(* Induction.  The library's theorems of induction take an operator as a     *)
(* parameter; this one speaks of a set.                                      *)
LEMMA LeastElement == ASSUME NEW T \in SUBSET Nat, T # {} PROVE \E n \in T : \A m \in T : n <= m
<1>1. PICK n \in T : \A m \in T : <<m, n>> \notin OpToRel(<, Nat)
  BY NatLessThanWellFounded, WFMin
<1>2. ASSUME NEW m \in T PROVE n <= m
  <2>1. <<m, n>> \in Nat \X Nat /\ <<m, n>>[1] = m /\ <<m, n>>[2] = n
    OBVIOUS
  <2>2. ~(m < n)
    BY <1>1, <2>1 DEF OpToRel
  <2>. QED  BY <2>2
<1>. QED  BY <1>2

(* Induction, over a set instead of a predicate.                             *)
LEMMA SetInduction ==
  ASSUME NEW A, 0 \in A, \A n \in Nat : n \in A => n + 1 \in A
  PROVE Nat \subseteq A
<1>. DEFINE T == Nat \ A
<1>1. SUFFICES ASSUME T # {} PROVE FALSE
  OBVIOUS
<1>2. PICK n \in T : \A m \in T : n <= m
  BY <1>1, LeastElement
<1>3. n # 0 /\ n \in Nat /\ n - 1 \in Nat
  BY <1>2
<1>4. n - 1 \in A
  BY <1>2, <1>3
<1>. QED  BY <1>2, <1>3, <1>4

(* There is a function that the recursive definition of Sequential speaks of. *)
LEMMA SequentialDef ==
  \A n \in 0..Len(Tasks) :
    Sequential[n] = IF n = 0 THEN NoStats ELSE Add(Sequential[n - 1], Tasks[n])
<1>. DEFINE Follows(f, m) ==
              f = [n \in 0..m |-> IF n = 0 THEN NoStats ELSE Add(f[n - 1], Tasks[n])]
            A == {m \in Nat : \E f : Follows(f, m)}
<1>1. 0 \in A
  <2>1. Follows([n \in 0..0 |-> NoStats], 0)
    OBVIOUS
  <2>. QED  BY <2>1
<1>2. ASSUME NEW m \in Nat, m \in A PROVE m + 1 \in A
  <2>1. PICK f : Follows(f, m)
    BY <1>2
  <2>. DEFINE g == [n \in 0..(m + 1) |-> IF n = m + 1 THEN Add(f[m], Tasks[m + 1]) ELSE f[n]]
  <2>2. ASSUME NEW n \in 0..(m + 1)
        PROVE g[n] = IF n = 0 THEN NoStats ELSE Add(g[n - 1], Tasks[n])
    <3>1. CASE n = m + 1
      BY <3>1
    <3>2. CASE n \in 1..m
      BY <2>1, <3>2
    <3>3. CASE n = 0
      BY <2>1, <3>3
    <3>. QED  BY <3>1, <3>2, <3>3
  <2>3. Follows(g, m + 1)
    BY <2>2
  <2>. HIDE DEF Follows, g
  <2>. QED  BY <2>3
<1>3. Len(Tasks) \in A
  <2>. HIDE DEF A
  <2>. QED  BY <1>1, <1>2, SetInduction, Constants
<1>4. \E f : Follows(f, Len(Tasks))
  BY <1>3
<1>5. Follows(Sequential, Len(Tasks))
  <2>1. Sequential = CHOOSE f : Follows(f, Len(Tasks))
    BY DEF Sequential
  <2>. HIDE DEF Follows
  <2>. QED  BY <1>4, <2>1
<1>. QED  BY <1>5

-----------------------------------------------------------------------------
(* Statistics of a set of tasks, in whatever order they were added in.       *)

(* As many pairs as the numbers of the tasks P add up to. *)
Pieces(P) == UNION {{i} \X (1..Tasks[i]) : i \in P}

Statistics == [sum : Nat, odd : Nat, even : Nat, min : Int, max : Int]

IsStats(st, P) ==
  /\ st \in Statistics
  /\ st.sum = Cardinality(Pieces(P))
  /\ st.odd = Cardinality({i \in P : Tasks[i] % 2 = 1})
  /\ st.even = Cardinality({i \in P : Tasks[i] % 2 # 1})
  /\ st.min \in {INT_MAX} \cup {Tasks[i] : i \in P}
  /\ st.min <= INT_MAX /\ \A i \in P : st.min <= Tasks[i]
  /\ st.max \in {INT_MIN} \cup {Tasks[i] : i \in P}
  /\ st.max >= INT_MIN /\ \A i \in P : st.max >= Tasks[i]

(* One task more adds its number to the sum.                                 *)
LEMMA PiecesAdd ==
  ASSUME NEW P \in SUBSET (1..Len(Tasks)), NEW i \in 1..Len(Tasks), i \notin P
  PROVE /\ IsFiniteSet(P) /\ Cardinality(Pieces(P)) \in Nat
        /\ Cardinality(Pieces(P \cup {i})) = Cardinality(Pieces(P)) + Tasks[i]
<1>1. IsFiniteSet(P)
  <2>1. IsFiniteSet(1..Len(Tasks))
    BY Constants, FS_Interval
  <2>. QED  BY <2>1, FS_Subset
<1>2. \A j \in 1..Len(Tasks) : Tasks[j] \in Nat
  BY Constants
<1>3. ASSUME NEW j \in 1..Len(Tasks)
      PROVE IsFiniteSet({j} \X (1..Tasks[j])) /\ Cardinality({j} \X (1..Tasks[j])) = Tasks[j]
  <2>1. IsFiniteSet(1..Tasks[j]) /\ Cardinality(1..Tasks[j]) = Tasks[j]
    <3>1. Tasks[j] \in Nat /\ 1 \in Int /\ Tasks[j] \in Int
      BY <1>2
    <3>2. /\ IsFiniteSet(1..Tasks[j])
          /\ Cardinality(1..Tasks[j]) = IF 1 > Tasks[j] THEN 0 ELSE Tasks[j] - 1 + 1
      BY <3>1, FS_Interval, Zenon
    <3>. QED  BY <3>1, <3>2
  <2>2. IsFiniteSet({j}) /\ Cardinality({j}) = 1
    BY FS_Singleton
  <2>3. IsFiniteSet({j} \X (1..Tasks[j])) /\ Cardinality({j} \X (1..Tasks[j])) = 1 * Tasks[j]
    BY <2>1, <2>2, FS_Product, ZenonT(60)
  <2>. QED  BY <1>2, <2>3
<1>4. IsFiniteSet(Pieces(P))
  <2>. DEFINE F == {{j} \X (1..Tasks[j]) : j \in P}
  <2>1. IsFiniteSet(F)
    <3>1. [j \in P |-> {j} \X (1..Tasks[j])] \in Surjection(P, F)
      BY DEF Surjection
    <3>. HIDE DEF F
    <3>. QED  BY <1>1, <3>1, FS_Surjection
  <2>2. \A T \in F : IsFiniteSet(T)
    BY <1>3
  <2>. HIDE DEF F
  <2>3. IsFiniteSet(UNION F)
    BY <2>1, <2>2, FS_UNION
  <2>. QED  BY <2>3 DEF F, Pieces
<1>5. Pieces(P \cup {i}) = Pieces(P) \cup ({i} \X (1..Tasks[i]))
  BY DEF Pieces
<1>6. Pieces(P) \cap ({i} \X (1..Tasks[i])) = {}
  BY DEF Pieces
<1>7. Cardinality(Pieces(P)) \in Nat
  BY <1>4, FS_CardinalityType
<1>8. Cardinality(Pieces(P \cup {i})) = Cardinality(Pieces(P)) + Tasks[i] - 0
  <2>1. Cardinality(Pieces(P) \cap ({i} \X (1..Tasks[i]))) = 0
    BY <1>6, FS_EmptySet
  <2>2. IsFiniteSet({i} \X (1..Tasks[i])) /\ Cardinality({i} \X (1..Tasks[i])) = Tasks[i]
    BY <1>3
  <2>3. Cardinality(Pieces(P) \cup ({i} \X (1..Tasks[i])))
          = Cardinality(Pieces(P)) + Cardinality({i} \X (1..Tasks[i]))
            - Cardinality(Pieces(P) \cap ({i} \X (1..Tasks[i])))
    BY <1>4, <2>2, FS_Union
  <2>. QED  BY <1>5, <2>1, <2>2, <2>3
<1>. QED  BY <1>1, <1>2, <1>7, <1>8

(* Adding in one task more. *)
LEMMA AddStats ==
  ASSUME NEW P \in SUBSET (1..Len(Tasks)), NEW i \in 1..Len(Tasks), i \notin P,
         NEW st, IsStats(st, P)
  PROVE IsStats(Add(st, Tasks[i]), P \cup {i})
<1>. DEFINE n == Tasks[i]
            Q == P \cup {i}
            r == Add(st, n)
            odd(S) == {j \in S : Tasks[j] % 2 = 1}
            even(S) == {j \in S : Tasks[j] % 2 # 1}
<1>1. n \in Nat /\ \A j \in P : Tasks[j] \in Nat
  BY Constants
<1>2. st \in Statistics
  BY DEF IsStats
<1>3. r \in Statistics
  BY <1>1, <1>2 DEF Add, Statistics
<1>4. r.sum = Cardinality(Pieces(Q))
  BY <1>1, <1>2, PiecesAdd DEF IsStats, Add
<1>5. IsFiniteSet(odd(P)) /\ IsFiniteSet(even(P))
  BY PiecesAdd, FS_Subset
<1>6. r.odd = Cardinality(odd(Q)) /\ r.even = Cardinality(even(Q))
  <2>0. i \notin odd(P) /\ i \notin even(P)
    OBVIOUS
  <2>1. CASE n % 2 = 1
    <3>1. odd(Q) = odd(P) \cup {i} /\ even(Q) = even(P)
      BY <2>1
    <3>2. Cardinality(odd(P) \cup {i}) = Cardinality(odd(P)) + 1
      BY <1>5, <2>0, FS_AddElement
    <3>3. r.odd = st.odd + 1 /\ r.even = st.even
      BY <2>1 DEF Add
    <3>. QED  BY <3>1, <3>2, <3>3 DEF IsStats
  <2>2. CASE n % 2 # 1
    <3>1. even(Q) = even(P) \cup {i} /\ odd(Q) = odd(P)
      BY <2>2
    <3>2. Cardinality(even(P) \cup {i}) = Cardinality(even(P)) + 1
      BY <1>5, <2>0, FS_AddElement
    <3>3. r.even = st.even + 1 /\ r.odd = st.odd
      BY <2>2 DEF Add
    <3>. QED  BY <3>1, <3>2, <3>3 DEF IsStats
  <2>. QED  BY <2>1, <2>2
<1>7. /\ r.min \in {INT_MAX} \cup {Tasks[j] : j \in Q}
      /\ r.min <= INT_MAX /\ \A j \in Q : r.min <= Tasks[j]
  <2>1. r.min = IF n < st.min THEN n ELSE st.min
    BY DEF Add
  <2>2. /\ st.min \in Int /\ st.min \in {INT_MAX} \cup {Tasks[j] : j \in P}
        /\ st.min <= INT_MAX /\ \A j \in P : st.min <= Tasks[j]
    BY <1>2 DEF IsStats, Statistics
  <2>. HIDE DEF r
  <2>3. CASE n < st.min
    <3>1. r.min = n
      BY <2>1, <2>3
    <3>2. n \in {Tasks[j] : j \in Q}
      OBVIOUS
    <3>. HIDE DEF n
    <3>3. n <= INT_MAX
      BY <1>1, <2>2, <2>3 DEF INT_MAX
    <3>4. \A j \in P : n <= Tasks[j]
      BY <1>1, <2>2, <2>3
    <3>. QED  BY <1>1, <3>1, <3>2, <3>3, <3>4 DEF n
  <2>4. CASE ~(n < st.min)
    <3>1. r.min = st.min
      BY <2>1, <2>4
    <3>2. {Tasks[j] : j \in P} \subseteq {Tasks[j] : j \in Q}
      OBVIOUS
    <3>3. n \in Nat /\ st.min <= n
      BY <1>1, <2>2, <2>4
    <3>4. \A j \in Q : st.min <= Tasks[j]
      BY <2>2, <3>3
    <3>. QED  BY <2>2, <3>1, <3>2, <3>4
  <2>. QED  BY <2>3, <2>4
<1>8. /\ r.max \in {INT_MIN} \cup {Tasks[j] : j \in Q}
      /\ r.max >= INT_MIN /\ \A j \in Q : r.max >= Tasks[j]
  <2>1. r.max = IF n > st.max THEN n ELSE st.max
    BY DEF Add
  <2>2. /\ st.max \in Int /\ st.max \in {INT_MIN} \cup {Tasks[j] : j \in P}
        /\ st.max >= INT_MIN /\ \A j \in P : st.max >= Tasks[j]
    BY <1>2 DEF IsStats, Statistics
  <2>. HIDE DEF r
  <2>3. CASE n > st.max
    <3>1. r.max = n
      BY <2>1, <2>3
    <3>2. n \in {Tasks[j] : j \in Q}
      OBVIOUS
    <3>. HIDE DEF n
    <3>3. n >= INT_MIN
      BY <1>1, <2>2, <2>3 DEF INT_MIN
    <3>4. \A j \in P : n >= Tasks[j]
      BY <1>1, <2>2, <2>3
    <3>. QED  BY <1>1, <3>1, <3>2, <3>3, <3>4 DEF n
  <2>4. CASE ~(n > st.max)
    <3>1. r.max = st.max
      BY <2>1, <2>4
    <3>2. {Tasks[j] : j \in P} \subseteq {Tasks[j] : j \in Q}
      OBVIOUS
    <3>3. n \in Nat /\ st.max >= n
      BY <1>1, <2>2, <2>4
    <3>4. \A j \in Q : st.max >= Tasks[j]
      BY <2>2, <3>3
    <3>. QED  BY <2>2, <3>1, <3>2, <3>4
  <2>. QED  BY <2>3, <2>4
<1>. HIDE DEF r
<1>9. IsStats(r, Q)
  BY <1>3, <1>4, <1>6, <1>7, <1>8 DEF IsStats
<1>. QED  BY <1>9 DEF r

(* The totals of no task.                                                    *)
LEMMA NoStatsYet == IsStats(NoStats, {})
<1>1. Pieces({}) = {} /\ {i \in {} : Tasks[i] % 2 = 1} = {} /\ {i \in {} : Tasks[i] % 2 # 1} = {}
  BY DEF Pieces
<1>. QED  BY <1>1, FS_EmptySet DEF IsStats, Statistics, NoStats, INT_MAX, INT_MIN

(* A set of tasks has one statistics. *)
LEMMA StatsUnique ==
  ASSUME NEW P \in SUBSET (1..Len(Tasks)), NEW s, NEW r, IsStats(s, P), IsStats(r, P)
  PROVE s = r
<1>1. /\ s \in Statistics /\ r \in Statistics
      /\ s.sum = r.sum /\ s.odd = r.odd /\ s.even = r.even
  BY DEF IsStats
<1>2. \A i \in P : Tasks[i] \in Nat
  BY Constants
<1>3. s.min = r.min
  <2>1. s.min <= r.min /\ r.min <= s.min
    BY <1>1, <1>2 DEF IsStats, Statistics
  <2>. QED  BY <1>1, <2>1 DEF Statistics
<1>4. s.max = r.max
  <2>1. s.max <= r.max /\ r.max <= s.max
    BY <1>1, <1>2 DEF IsStats, Statistics
  <2>. QED  BY <1>1, <2>1 DEF Statistics
<1>. QED  BY <1>1, <1>3, <1>4 DEF Statistics

(* What one thread computes are the statistics of all tasks up to the last.  *)
LEMMA SequentialStats == IsStats(Sequential[Len(Tasks)], 1..Len(Tasks))
<1>. DEFINE A == {n \in Nat : n <= Len(Tasks) => IsStats(Sequential[n], 1..n)}
<1>1. 0 \in A
  <2>1. 1..0 = {} /\ Sequential[0] = NoStats
    BY Constants, SequentialDef
  <2>. QED  BY <2>1, NoStatsYet
<1>2. ASSUME NEW n \in Nat, n \in A PROVE n + 1 \in A
  <2>1. SUFFICES ASSUME n + 1 <= Len(Tasks) PROVE IsStats(Sequential[n + 1], 1..(n + 1))
    OBVIOUS
  <2>2. n + 1 \in 1..Len(Tasks) /\ n + 1 # 0 /\ (n + 1) - 1 = n /\ n <= Len(Tasks)
    BY <2>1, Constants
  <2>3. Sequential[n + 1] = Add(Sequential[n], Tasks[n + 1])
    BY <2>2, SequentialDef
  <2>4. IsStats(Sequential[n], 1..n)
    BY <1>2, <2>2
  <2>5. 1..(n + 1) = (1..n) \cup {n + 1} /\ n + 1 \notin 1..n /\ 1..n \subseteq 1..Len(Tasks)
    BY <2>2, Constants
  <2>. QED  BY <2>2, <2>3, <2>4, <2>5, AddStats, ZenonT(60)
<1>3. Len(Tasks) \in A
  <2>. HIDE DEF A
  <2>. QED  BY <1>1, <1>2, SetInduction, Constants
<1>. QED  BY <1>3, Constants

-----------------------------------------------------------------------------
(* No update of the statistics is lost: they are those of the tasks that     *)
(* have been added in, and what a worker has read under data is still true   *)
(* when it writes.                                                           *)
Done == {i \in DOMAIN performed : performed[i] = 1}

DataInv ==
  /\ IsStats(stats, Done)
  /\ reg \in [Workers -> Statistics]
  /\ \A t \in Workers : pc[t] = "store" => reg[t] = stats

(* At the start.                                                             *)
LEMMA InitDataInv == Init => DataInv
<1>. SUFFICES ASSUME Init PROVE DataInv
  OBVIOUS
<1>1. Done = {}
  BY Constants DEF Init, Done
<1>2. stats = NoStats /\ \A t \in Workers : pc[t] # "store"
  BY Constants DEF Init
<1>3. reg \in [Workers -> Statistics]
  BY DEF Init, NoStats, INT_MAX, INT_MIN, Statistics
<1>. QED  BY <1>1, <1>2, <1>3, NoStatsYet DEF DataInv

(* Steps that leave the statistics alone. *)
LEMMA SameStats ==
  ASSUME DataInv, UNCHANGED <<stats, performed, reg>>,
         \A t \in Workers : pc'[t] = "store" => pc[t] = "store"
  PROVE DataInv'
<1>1. Done' = Done
  BY DEF Done
<1>. QED  BY <1>1 DEF DataInv

(* The totals are those of the tasks performed, at every place of an update. *)
LEMMA DataStep == ASSUME IInv, DataInv, [Next]_vars PROVE DataInv'
<1>. USE Constants DEF IInv, TypeOK, Goto
<1>1. CASE MainStep
  <2>1. UNCHANGED <<stats, performed, reg>> /\ \A t \in Workers : pc'[t] = pc[t]
    BY <1>1 DEF MainStep, MainWrite, MainSignal, MainStop, MainBroadcast, MainJoin
  <2>. QED  BY <2>1, SameStats
<1>2. ASSUME NEW t \in Workers,
             Loop(t) \/ LockQueue(t) \/ TestIndex(t) \/ TestWriting(t) \/ Wait(t) \/ Take(t)
             \/ Leave(t) \/ Process(t) \/ UnlockStats(t)
      PROVE DataInv'
  <2>1. UNCHANGED <<stats, performed, reg>>
    BY <1>2 DEF Loop, LockQueue, TestIndex, TestWriting, Wait, Take, Leave, Process, UnlockStats
  <2>2. \E l : pc' = [pc EXCEPT ![t] = l] /\ l # "store"
    BY <1>2 DEF Loop, LockQueue, TestIndex, TestWriting, Wait, Take, Leave, Process, UnlockStats
  <2>. QED  BY <2>1, <2>2, SameStats
<1>3. ASSUME NEW t \in Workers, LoadStats(t) PROVE DataInv'
  <2>1. /\ pc[t] = "load" /\ reg' = [reg EXCEPT ![t] = stats] /\ pc' = [pc EXCEPT ![t] = "store"]
        /\ UNCHANGED <<stats, performed>>
    BY <1>3 DEF LoadStats
  <2>2. \A u \in Workers : pc[u] # "store"
    BY <2>1 DEF LockInv
  <2>3. reg'[t] = stats /\ reg' \in [Workers -> Statistics]
    BY <2>1 DEF DataInv, IsStats
  <2>4. Done' = Done
    BY <2>1 DEF Done
  <2>. QED  BY <2>1, <2>2, <2>3, <2>4 DEF DataInv
<1>4. ASSUME NEW t \in Workers, StoreStats(t) PROVE DataInv'
  <2>. DEFINE i == idx[t]
  <2>1. /\ pc[t] = "store" /\ pc' = [pc EXCEPT ![t] = "unlock"]
        /\ stats' = Add(reg[t], Tasks[i]) /\ performed' = [performed EXCEPT ![i] = @ + 1]
    BY <1>4 DEF StoreStats
  <2>2. reg[t] = stats
    BY <2>1 DEF DataInv
  <2>3. i \in 1..Len(Tasks) /\ performed[i] = 0
    BY <2>1 DEF TaskInv, InHand
  <2>4. Done' = Done \cup {i} /\ i \notin Done /\ Done \in SUBSET (1..Len(Tasks))
    BY <2>1, <2>3 DEF Done
  <2>5. \A u \in Workers : pc'[u] # "store"
    BY <2>1 DEF LockInv
  <2>6. IsStats(stats, Done)
    BY DEF DataInv
  <2>. HIDE DEF i
  <2>7. IsStats(stats', Done')
    BY <2>1, <2>2, <2>3, <2>4, <2>6, AddStats
  <2>8. reg' = reg
    BY <1>4 DEF StoreStats
  <2>. QED  BY <2>5, <2>7, <2>8 DEF DataInv
<1>5. ASSUME NEW t \in Workers, Spurious(t) PROVE DataInv'
  BY <1>5, SameStats DEF Spurious
<1>6. CASE UNCHANGED vars
  BY <1>6, SameStats DEF vars
<1>. QED
  BY <1>1, <1>2, <1>3, <1>4, <1>5, <1>6 DEF Next, WorkerStep

(* What main() prints is what a single thread would have computed, whatever the workers   *)
(* did: each task has been added in, and no addition has overwritten another.             *)
THEOREM TotalPrinted ==
  ASSUME Workers # {}
  PROVE Spec => []PrintsTotal
<1>1. ASSUME IInv, PerformedOnce, DataInv PROVE PrintsTotal
  <2>1. SUFFICES ASSUME pc[Main] = "printed" PROVE stats = Sequential[Len(Tasks)]
    BY DEF PrintsTotal
  <2>2. Done = 1..Len(Tasks)
    BY <1>1, <2>1 DEF PerformedOnce, Done, IInv, TypeOK
  <2>. QED  BY <1>1, <2>2, SequentialStats, StatsUnique DEF DataInv
<1>2. IInv /\ DataInv /\ [Next]_vars => DataInv'
  BY DataStep
<1>. QED  BY <1>1, <1>2, InitDataInv, Invariance, ExactlyOnce, PTL DEF Spec
=============================================================================
