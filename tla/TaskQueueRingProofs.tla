------------------------ MODULE TaskQueueRingProofs ------------------------
(***************************************************************************)
(* What is proved of the course's pool of workers, for any number of         *)
(* workers, any input and any size of the ring: IInv of TaskQueueRing is     *)
(* inductive, so that taskCount and the ring differ only by what was         *)
(* dropped, and without a drop the sum that is printed is that of the input. *)
(***************************************************************************)
EXTENDS TaskQueueRing, FiniteSets, FiniteSetTheorems, WellFoundedInduction, TLAPS

(* What the assumptions say, unfolded.                                       *)
LEMMA Constants ==
  /\ Main \in Threads /\ Workers \subseteq Threads /\ Main \notin Workers
  /\ NoThread \notin Threads /\ NoCond \notin Conds
  /\ Len(Tasks) \in Nat /\ Tasks \in Seq(Nat \ {0})
  /\ \A i \in 1..Len(Tasks) : Tasks[i] \in Nat
  /\ Mutexes = {"queueMutex", "taskMutex"}
  /\ \A t \in Threads : t = Main \/ t \in Workers
  /\ QUEUE_SIZE \in Nat /\ QUEUE_SIZE > 1
BY TaskQueueRingAssumption, PthreadsAssumption DEF Workers

-----------------------------------------------------------------------------
(* Arithmetic of the ring *)

LEMMA ModOnce ==
  ASSUME NEW q \in Nat \ {0}, NEW a \in 0..(2 * q - 1)
  PROVE a % q = IF a < q THEN a ELSE a - q
OBVIOUS

(* The next slot, and how many slots are from f to r. *)
LEMMA RingArithmetic ==
  ASSUME NEW q \in Nat \ {0, 1}, NEW f \in 0..(q - 1), NEW r \in 0..(q - 1)
  PROVE /\ (r + 1) % q = IF r = q - 1 THEN 0 ELSE r + 1
        /\ (r - f + q) % q = IF f <= r THEN r - f ELSE r - f + q
<1>1. (r + 1) % q = IF r + 1 < q THEN r + 1 ELSE r + 1 - q
  <2>. DEFINE a == r + 1
  <2>1. a \in 0..(2 * q - 1)
    OBVIOUS
  <2>. HIDE DEF a
  <2>2. a % q = IF a < q THEN a ELSE a - q
    BY <2>1, ModOnce
  <2>. QED  BY <2>2 DEF a
<1>2. (r - f + q) % q = IF r - f + q < q THEN r - f + q ELSE r - f
  <2>. DEFINE a == r - f + q
  <2>1. a \in 0..(2 * q - 1)
    OBVIOUS
  <2>2. a - q = r - f
    OBVIOUS
  <2>. HIDE DEF a
  <2>3. a % q = IF a < q THEN a ELSE a - q
    BY <2>1, ModOnce
  <2>. QED  BY <2>2, <2>3 DEF a
<1>3. (r + 1 < q <=> r # q - 1) /\ (r - f + q < q <=> ~(f <= r))
  OBVIOUS
<1>. QED  BY <1>1, <1>2, <1>3

(* A slot more at the rear. *)
LEMMA RingSteps ==
  ASSUME NEW q \in Nat \ {0, 1}, NEW f \in 0..(q - 1), NEW r \in 0..(q - 1)
  PROVE /\ (r + 1) % q \in 0..(q - 1)
        /\ (r - f + q) % q \in 0..(q - 1)
        /\ (r - f + q) % q = 0 <=> f = r
        /\ f # (r + 1) % q => (((r + 1) % q) - f + q) % q = ((r - f + q) % q) + 1
<1>. DEFINE d(x, y) == IF x <= y THEN y - x ELSE y - x + q
            s(x) == IF x = q - 1 THEN 0 ELSE x + 1
<1>1. \A x, y \in 0..(q - 1) : (y - x + q) % q = d(x, y)
  BY RingArithmetic
<1>2. \A x \in 0..(q - 1) : (x + 1) % q = s(x) /\ s(x) \in 0..(q - 1)
  BY RingArithmetic
<1>3. d(f, r) \in 0..(q - 1) /\ (d(f, r) = 0 <=> f = r)
  OBVIOUS
<1>4. f # s(r) => d(f, s(r)) = d(f, r) + 1
  OBVIOUS
<1>. HIDE DEF d, s
<1>6. (r + 1) % q = s(r) /\ (f + 1) % q = s(f) /\ (r - f + q) % q = d(f, r)
  BY <1>1, <1>2
<1>7. (s(r) - f + q) % q = d(f, s(r))
  BY <1>1, <1>2
<1>8. (r + 1) % q \in 0..(q - 1) /\ (r - f + q) % q \in 0..(q - 1) /\ ((r - f + q) % q = 0 <=> f = r)
  BY <1>2, <1>3, <1>6
<1>9. f # (r + 1) % q => (((r + 1) % q) - f + q) % q = ((r - f + q) % q) + 1
  BY <1>4, <1>6, <1>7
<1>. QED  BY <1>8, <1>9

(* A slot less at the front. *)
LEMMA RingDelete ==
  ASSUME NEW q \in Nat \ {0, 1}, NEW f \in 0..(q - 1), NEW r \in 0..(q - 1),
         NEW g, g = (f + 1) % q, f # r
  PROVE (r - g + q) % q = ((r - f + q) % q) - 1
<1>. DEFINE d(x, y) == IF x <= y THEN y - x ELSE y - x + q
            s(x) == IF x = q - 1 THEN 0 ELSE x + 1
<1>1. \A x, y \in 0..(q - 1) : (y - x + q) % q = d(x, y)
  BY RingArithmetic
<1>2. \A x \in 0..(q - 1) : (x + 1) % q = s(x) /\ s(x) \in 0..(q - 1)
  BY RingArithmetic
<1>5. d(s(f), r) = d(f, r) - 1
  OBVIOUS
<1>. HIDE DEF d, s
<1>6. g = s(f) /\ (r - f + q) % q = d(f, r)
  BY <1>1, <1>2
<1>7. (r - s(f) + q) % q = d(s(f), r)
  BY <1>1, <1>2
<1>. QED  BY <1>5, <1>6, <1>7

-----------------------------------------------------------------------------
(* At the start.                                                             *)
LEMMA InitIInv == Init => IInv
<1>. SUFFICES ASSUME Init PROVE IInv
  OBVIOUS
<1>. USE Constants DEF Init, PtInit
<1>1. TypeOK
  <2>1. 0 \in Numbers /\ 0 \in 0..(QUEUE_SIZE - 1)
    BY DEF Numbers
  <2>2. /\ queue \in [0..(QUEUE_SIZE - 1) -> Numbers]
        /\ item \in [Workers -> Numbers] /\ reg \in [Workers -> Nat]
    BY <2>1
  <2>3. PtTypeOK
    BY DEF PtTypeOK
  <2>4. pc \in [Threads -> {"next", "insert", "count", "release", "join", "printed",
                         "lock", "test", "delete", "uncount", "unlock", "unlock_empty",
                         "process", "load", "store", "unlock_sum", "check_done",
                         "check_count", "exited"}]
    OBVIOUS
  <2>5. front = 0 /\ rear = 0 /\ taskCount = 0 /\ dropped = 0 /\ next = 1 /\ sum = 0 /\ done = FALSE
    OBVIOUS
  <2>6. 0 \in 0..Len(Tasks) /\ 1 \in 1..(Len(Tasks) + 1)
    OBVIOUS
  <2>. HIDE DEF Init
  <2>. QED  BY <2>1, <2>2, <2>3, <2>4, <2>5, <2>6 DEF TypeOK
<1>2. LockInv
  BY DEF LockInv
<1>3. CountInv
  <2>1. InRing = 0
    BY RingSteps DEF InRing
  <2>2. Counted = 0
    BY DEF Counted
  <2>3. \A t \in Workers : pc[t] = "lock"
    OBVIOUS
  <2>4. \A t \in Workers : pc[t] \notin {"delete", "uncount"}
    BY <2>3
  <2>5. dropped = 0
    OBVIOUS
  <2>. HIDE DEF Init
  <2>. QED  BY <2>1, <2>2, <2>4, <2>5 DEF CountInv
<1>4. InputInv
  BY DEF InputInv
<1>. QED  BY <1>1, <1>2, <1>3, <1>4 DEF IInv

-----------------------------------------------------------------------------
(* Only the holder of queueMutex changes the ring and taskCount. *)
LEMMA OneInside ==
  ASSUME LockInv
  PROVE /\ \A t, u \in Workers :
             /\ pc[t] \in {"test", "delete", "uncount", "unlock", "unlock_empty"}
             /\ pc[u] \in {"test", "delete", "uncount", "unlock", "unlock_empty"}
             => t = u
        /\ \A t \in Workers :
             pc[t] \in {"test", "delete", "uncount", "unlock", "unlock_empty"}
             => pc[Main] \notin {"insert", "count", "release"}
<1>. USE Constants DEF LockInv
<1>1. ASSUME NEW t \in Workers, pc[t] \in {"test", "delete", "uncount", "unlock", "unlock_empty"}
      PROVE owner["queueMutex"] = t
  BY <1>1
<1>. QED  BY <1>1

(* Types stay.                                                               *)
LEMMA TypeOKStep == ASSUME IInv, [Next]_vars PROVE TypeOK'
<1>. USE Constants DEF IInv, TypeOK, PtTypeOK, ringVars, ptVars, Goto
<1>1. CASE MasterLock
  BY <1>1 DEF MasterLock, Lock
<1>2. CASE QueueInsert
  <2>1. Succ(rear) \in 0..(QUEUE_SIZE - 1)
    BY RingSteps DEF Succ
  <2>2. next \in DOMAIN Tasks /\ Tasks[next] \in Numbers
    BY <1>2 DEF QueueInsert, InputInv, Numbers
  <2>3. rear' \in 0..(QUEUE_SIZE - 1)
    BY <1>2, <2>1 DEF QueueInsert
  <2>4. queue' \in [0..(QUEUE_SIZE - 1) -> Numbers]
    BY <1>2, <2>1, <2>2 DEF QueueInsert
  <2>5. dropped' \in 0..Len(Tasks)
    BY <1>2, SMTT(30) DEF QueueInsert, InputInv
  <2>. QED  BY <1>2, <2>3, <2>4, <2>5 DEF QueueInsert
<1>3. CASE MasterCount
  BY <1>3 DEF MasterCount, InputInv
<1>4. CASE MasterUnlock
  BY <1>4 DEF MasterUnlock, Unlock
<1>5. CASE MainDone \/ MainJoin
  BY <1>5 DEF MainDone, MainJoin
<1>6. ASSUME NEW t \in Workers, WorkerLock(t) PROVE TypeOK'
  BY <1>6 DEF WorkerLock, Lock
<1>7. ASSUME NEW t \in Workers, Process(t) PROVE TypeOK'
  BY <1>7 DEF Process, Lock
<1>8. ASSUME NEW t \in Workers, WorkerTest(t) PROVE TypeOK'
  BY <1>8 DEF WorkerTest
<1>9. ASSUME NEW t \in Workers, CheckDone(t) \/ CheckCount(t) PROVE TypeOK'
  BY <1>9 DEF CheckDone, CheckCount
<1>10. ASSUME NEW t \in Workers, QueueDelete(t) PROVE TypeOK'
  <2>1. Succ(front) \in 0..(QUEUE_SIZE - 1)
    BY RingSteps DEF Succ
  <2>2. front' \in 0..(QUEUE_SIZE - 1)
    BY <1>10, <2>1 DEF QueueDelete
  <2>3. item' \in [Workers -> Numbers]
    <3>1. CASE front = rear
      BY <1>10, <3>1 DEF QueueDelete
    <3>2. CASE front # rear
      <4>1. queue[front'] \in Numbers
        BY <2>2
      <4>. QED  BY <1>10, <3>2, <4>1 DEF QueueDelete
    <3>. QED  BY <3>1, <3>2
  <2>. QED  BY <1>10, <2>2, <2>3 DEF QueueDelete
<1>11. ASSUME NEW t \in Workers, WorkerUncount(t) PROVE TypeOK'
  BY <1>11 DEF WorkerUncount, CountInv
<1>12. ASSUME NEW t \in Workers, WorkerUnlock(t) PROVE TypeOK'
  BY <1>12 DEF WorkerUnlock, Unlock
<1>13. ASSUME NEW t \in Workers, LoadSum(t) PROVE TypeOK'
  BY <1>13 DEF LoadSum
<1>14. ASSUME NEW t \in Workers, StoreSum(t) PROVE TypeOK'
  <2>1. item[t] \in Nat /\ 0 \in Numbers
    BY SMTT(30) DEF Numbers
  <2>2. sum' \in Nat
    BY <1>14, <2>1 DEF StoreSum
  <2>. QED  BY <1>14, <2>1, <2>2 DEF StoreSum
<1>15. ASSUME NEW t \in Workers, ProcessUnlock(t) PROVE TypeOK'
  BY <1>15 DEF ProcessUnlock, Unlock
<1>16. CASE UNCHANGED vars
  BY <1>16 DEF vars
<1>. QED
  BY <1>1, <1>2, <1>3, <1>4, <1>5, <1>6, <1>7, <1>8, <1>9, <1>10, <1>11, <1>12, <1>13, <1>14,
     <1>15, <1>16 DEF Next, MainStep, WorkerStep

(* Who is at a place under a mutex has it.                                   *)
LEMMA LockStep == ASSUME IInv, [Next]_vars PROVE LockInv'
<1>. USE Constants DEF IInv, TypeOK, PtTypeOK, LockInv, ringVars, ptVars, Goto
<1>1. CASE MasterLock
  BY <1>1 DEF MasterLock, Lock
<1>2. CASE QueueInsert \/ MasterCount \/ MainDone \/ MainJoin
  BY <1>2 DEF QueueInsert, MasterCount, MainDone, MainJoin
<1>3. CASE MasterUnlock
  BY <1>3 DEF MasterUnlock, Unlock
<1>4. ASSUME NEW t \in Workers, WorkerLock(t) PROVE LockInv'
  BY <1>4 DEF WorkerLock, Lock
<1>5. ASSUME NEW t \in Workers, Process(t) PROVE LockInv'
  BY <1>5 DEF Process, Lock
<1>6. ASSUME NEW t \in Workers,
             WorkerTest(t) \/ QueueDelete(t) \/ WorkerUncount(t) \/ LoadSum(t) \/ StoreSum(t)
      PROVE LockInv'
  BY <1>6, SMTT(30) DEF WorkerTest, QueueDelete, WorkerUncount, LoadSum, StoreSum
<1>7. ASSUME NEW t \in Workers, CheckDone(t) \/ CheckCount(t) PROVE LockInv'
  <2>1. CASE CheckDone(t)
    BY <2>1 DEF CheckDone
  <2>2. CASE CheckCount(t)
    BY <2>2 DEF CheckCount
  <2>. QED  BY <1>7, <2>1, <2>2
<1>8. ASSUME NEW t \in Workers, WorkerUnlock(t) PROVE LockInv'
  BY <1>8 DEF WorkerUnlock, Unlock
<1>9. ASSUME NEW t \in Workers, ProcessUnlock(t) PROVE LockInv'
  BY <1>9 DEF ProcessUnlock, Unlock
<1>10. CASE UNCHANGED vars
  BY <1>10 DEF vars
<1>. QED
  BY <1>1, <1>2, <1>3, <1>4, <1>5, <1>6, <1>7, <1>8, <1>9, <1>10 DEF Next, MainStep, WorkerStep

(* A step that leaves the ring alone and changes no count. *)
LEMMA SameRing ==
  ASSUME CountInv, UNCHANGED <<ringVars, dropped>>,
         pc'[Main] = "count" <=> pc[Main] = "count",
         \A t \in Workers : pc'[t] = "uncount" <=> pc[t] = "uncount",
         \A t \in Workers : pc'[t] \in {"delete", "uncount"} => pc[t] \in {"delete", "uncount"}
  PROVE CountInv'
BY DEF CountInv, InRing, Counted, ringVars

(* Ring and count differ by the item just moved.                             *)
LEMMA CountStep == ASSUME IInv, [Next]_vars PROVE CountInv'
<1>. USE Constants DEF IInv, TypeOK, ringVars, ptVars, Goto
<1>1. CASE MasterLock \/ MasterUnlock \/ MainDone \/ MainJoin
  BY <1>1, SameRing DEF MasterLock, MasterUnlock, MainDone, MainJoin
<1>2. CASE QueueInsert
  <2>1. /\ pc[Main] = "insert" /\ pc'[Main] = "count" /\ \A t \in Workers : pc'[t] = pc[t]
        /\ UNCHANGED <<front, taskCount>>
    BY <1>2 DEF QueueInsert
  <2>2. \A t \in Workers : pc[t] \notin {"delete", "uncount"}
    BY <2>1, OneInside
  <2>3. Counted = taskCount /\ Counted' = taskCount + 1
    BY <2>1, <2>2 DEF Counted
  <2>4. \/ InRing' = InRing + 1 /\ dropped' = dropped
        \/ InRing' = InRing /\ dropped' = dropped + 1
    <3>1. CASE front = Succ(rear)
      BY <1>2, <3>1 DEF QueueInsert, InRing
    <3>2. CASE front # Succ(rear)
      BY <1>2, <3>2, RingSteps DEF QueueInsert, InRing, Succ
    <3>. QED  BY <3>1, <3>2
  <2>5. InRing \in Nat
    BY RingSteps DEF InRing
  <2>. QED  BY <2>1, <2>2, <2>3, <2>4, <2>5 DEF CountInv
<1>3. CASE MasterCount
  <2>1. /\ pc[Main] = "count" /\ pc'[Main] = "release" /\ \A t \in Workers : pc'[t] = pc[t]
        /\ taskCount' = taskCount + 1 /\ UNCHANGED <<front, rear, dropped>>
    BY <1>3 DEF MasterCount
  <2>2. \A t \in Workers : pc[t] \notin {"delete", "uncount"}
    BY <2>1, OneInside
  <2>3. Counted = taskCount + 1 /\ Counted' = taskCount + 1
    BY <2>1, <2>2 DEF Counted
  <2>. QED  BY <2>1, <2>2, <2>3 DEF CountInv, InRing
<1>4. ASSUME NEW t \in Workers, WorkerLock(t) \/ WorkerUnlock(t) \/ Process(t) PROVE CountInv'
  BY <1>4, SameRing DEF WorkerLock, WorkerUnlock, Process
<1>5. ASSUME NEW t \in Workers, LoadSum(t) \/ StoreSum(t) \/ ProcessUnlock(t) PROVE CountInv'
  BY <1>5, SameRing DEF LoadSum, StoreSum, ProcessUnlock
<1>6. ASSUME NEW t \in Workers, CheckDone(t) \/ CheckCount(t) PROVE CountInv'
  BY <1>6, SameRing DEF CheckDone, CheckCount
<1>7. ASSUME NEW t \in Workers, WorkerTest(t) PROVE CountInv'
  <2>1. /\ pc[t] = "test" /\ UNCHANGED <<ringVars, dropped>>
        /\ pc' = [pc EXCEPT ![t] = IF taskCount > 0 THEN "delete" ELSE "unlock_empty"]
    BY <1>7 DEF WorkerTest
  <2>2. InRing' = InRing /\ Counted' = Counted
    BY <2>1 DEF InRing, Counted
  <2>. QED  BY <2>1, <2>2 DEF CountInv
<1>8. ASSUME NEW t \in Workers, QueueDelete(t) PROVE CountInv'
  <2>1. /\ pc[t] = "delete" /\ pc' = [pc EXCEPT ![t] = "uncount"]
        /\ UNCHANGED <<rear, taskCount, dropped>>
    BY <1>8 DEF QueueDelete
  <2>2. pc[Main] # "count" /\ \A u \in Workers : u # t => pc[u] \notin {"delete", "uncount"}
    BY <2>1, OneInside
  <2>3. Counted = taskCount
    BY <2>1, <2>2 DEF Counted
  <2>4. Counted' = taskCount - 1
    BY <2>1, <2>2 DEF Counted
  <2>5. \/ InRing' = InRing - 1
        \/ InRing' = InRing /\ InRing = 0
    <3>1. CASE front = rear
      BY <1>8, <3>1, RingSteps DEF QueueDelete, InRing
    <3>2. CASE front # rear
      <4>1. front' = (front + 1) % QUEUE_SIZE /\ rear' = rear
        BY <1>8, <3>2 DEF QueueDelete, Succ
      <4>2. /\ QUEUE_SIZE \in Nat \ {0, 1}
            /\ front \in 0..(QUEUE_SIZE - 1) /\ rear \in 0..(QUEUE_SIZE - 1)
        OBVIOUS
      <4>. HIDE DEF IInv, TypeOK
      <4>3. ASSUME NEW g, g = (front + 1) % QUEUE_SIZE
            PROVE (rear - g + QUEUE_SIZE) % QUEUE_SIZE = ((rear - front + QUEUE_SIZE) % QUEUE_SIZE) - 1
        BY <3>2, <4>2, <4>3, RingDelete
      <4>. QED  BY <4>1, <4>3 DEF InRing
    <3>. QED  BY <3>1, <3>2
  <2>6. InRing \in Nat
    BY RingSteps DEF InRing
  <2>7. taskCount > 0
    BY <2>1 DEF CountInv
  <2>8. \A u \in Workers : pc'[u] \in {"delete", "uncount"} => u = t
    BY <2>1, <2>2
  <2>. QED  BY <2>1, <2>3, <2>4, <2>5, <2>6, <2>7, <2>8 DEF CountInv
<1>9. ASSUME NEW t \in Workers, WorkerUncount(t) PROVE CountInv'
  <2>1. /\ pc[t] = "uncount" /\ pc' = [pc EXCEPT ![t] = "unlock"]
        /\ taskCount' = taskCount - 1 /\ UNCHANGED <<front, rear, dropped>>
    BY <1>9 DEF WorkerUncount
  <2>2. pc[Main] # "count" /\ \A u \in Workers : u # t => pc[u] \notin {"delete", "uncount"}
    BY <2>1, OneInside
  <2>3. Counted = taskCount - 1
    BY <2>1, <2>2 DEF Counted
  <2>4. Counted' = taskCount - 1
    BY <2>1, <2>2 DEF Counted
  <2>5. \A u \in Workers : pc'[u] \notin {"delete", "uncount"}
    BY <2>1, <2>2
  <2>. QED  BY <2>1, <2>3, <2>4, <2>5 DEF CountInv, InRing
<1>10. CASE UNCHANGED vars
  BY <1>10, SameRing DEF vars
<1>. QED
  BY <1>1, <1>2, <1>3, <1>4, <1>5, <1>6, <1>7, <1>8, <1>9, <1>10 DEF Next, MainStep, WorkerStep

(* What main has in hand comes from its place in the input.                  *)
LEMMA InputStep == ASSUME IInv, [Next]_vars PROVE InputInv'
<1>. USE Constants DEF IInv, TypeOK, InputInv, ringVars, ptVars, Goto
<1>1. CASE MasterLock
  BY <1>1 DEF MasterLock
<1>2. CASE QueueInsert
  BY <1>2 DEF QueueInsert
<1>3. CASE MasterCount
  BY <1>3 DEF MasterCount
<1>4. CASE MasterUnlock \/ MainDone \/ MainJoin
  BY <1>4 DEF MasterUnlock, MainDone, MainJoin
<1>5. ASSUME NEW t \in Workers, WorkerStep(t), ~WorkerUncount(t) PROVE InputInv'
  <2>1. UNCHANGED <<taskCount, next, dropped>>
    BY <1>5 DEF WorkerStep, WorkerLock, WorkerTest, QueueDelete, WorkerUnlock, Process, LoadSum,
                StoreSum, ProcessUnlock, CheckDone, CheckCount
  <2>2. pc'[Main] = pc[Main]
    BY <1>5 DEF WorkerStep, WorkerLock, WorkerTest, QueueDelete, WorkerUnlock, Process, LoadSum,
                StoreSum, ProcessUnlock, CheckDone, CheckCount
  <2>. QED  BY <2>1, <2>2
<1>6. ASSUME NEW t \in Workers, WorkerUncount(t) PROVE InputInv'
  BY <1>6 DEF WorkerUncount
<1>7. CASE UNCHANGED vars
  BY <1>7 DEF vars
<1>. QED
  BY <1>1, <1>2, <1>3, <1>4, <1>5, <1>6, <1>7 DEF Next, MainStep

-----------------------------------------------------------------------------
(* IInv is inductive. *)
THEOREM Invariance == Spec => []IInv
<1>1. ASSUME IInv, [Next]_vars PROVE IInv'
  BY <1>1, TypeOKStep, LockStep, CountStep, InputStep DEF IInv
<1>. QED  BY <1>1, InitIInv, PTL DEF Spec

(* The variables keep their types: taskCount, which queue_delete() does not test against *)
(* the ring, never goes below 0.                                                          *)
THEOREM TypeCorrect == Spec => []TypeOK
<1>1. IInv => TypeOK
  BY DEF IInv
<1>. QED  BY <1>1, Invariance, PTL

(* When nobody holds queueMutex, taskCount is the number of items in the ring, and more *)
(* only by items that queue_insert() has dropped.                                        *)
THEOREM CountRing == Spec => []CountMatchesRing
<1>1. ASSUME IInv PROVE CountMatchesRing
  <2>1. ASSUME owner["queueMutex"] = NoThread
        PROVE pc[Main] # "count" /\ \A t \in Workers : pc[t] # "uncount"
    BY <1>1, <2>1, Constants DEF IInv, LockInv
  <2>2. ASSUME owner["queueMutex"] = NoThread PROVE Counted = taskCount
    BY <2>1, <2>2 DEF Counted
  <2>. QED  BY <1>1, <2>2 DEF IInv, CountInv, CountMatchesRing
<1>. QED  BY <1>1, Invariance, PTL

-----------------------------------------------------------------------------
(* Induction.  The library's theorems of induction take an operator as a     *)
(* parameter; this one speaks of a set.                                      *)
LEMMA LeastElement == ASSUME NEW T \in SUBSET Nat, T # {} PROVE \E n \in T : \A m \in T : n <= m
<1>1. PICK n \in T : \A m \in T : <<m, n>> \notin OpToRel(<, Nat)
  BY NatLessThanWellFounded, WFMin
<1>2. ASSUME NEW m \in T PROVE n <= m
  <2>1. <<m, n>> \in Nat \X Nat /\ <<m, n>>[1] = m /\ <<m, n>>[2] = n
    OBVIOUS
  <2>2. ~(m < n)
    BY <1>1, <2>1 DEF OpToRel
  <2>. QED  BY <2>2
<1>. QED  BY <1>2

(* Induction, over a set instead of a predicate.                             *)
LEMMA SetInduction ==
  ASSUME NEW A, 0 \in A, \A n \in Nat : n \in A => n + 1 \in A
  PROVE Nat \subseteq A
<1>. DEFINE T == Nat \ A
<1>1. SUFFICES ASSUME T # {} PROVE FALSE
  OBVIOUS
<1>2. PICK n \in T : \A m \in T : n <= m
  BY <1>1, LeastElement
<1>3. n # 0 /\ n \in Nat /\ n - 1 \in Nat
  BY <1>2
<1>4. n - 1 \in A
  BY <1>2, <1>3
<1>. QED  BY <1>2, <1>3, <1>4

(* There is a function that the recursive definition of Total speaks of. *)
LEMMA TotalDef ==
  \A n \in 0..Len(Tasks) : Total[n] = IF n = 0 THEN 0 ELSE Total[n - 1] + Tasks[n]
<1>. DEFINE Follows(f, m) ==
              f = [n \in 0..m |-> IF n = 0 THEN 0 ELSE f[n - 1] + Tasks[n]]
            A == {m \in Nat : \E f : Follows(f, m)}
<1>1. 0 \in A
  <2>1. Follows([n \in 0..0 |-> 0], 0)
    OBVIOUS
  <2>. QED  BY <2>1
<1>2. ASSUME NEW m \in Nat, m \in A PROVE m + 1 \in A
  <2>1. PICK f : Follows(f, m)
    BY <1>2
  <2>. DEFINE g == [n \in 0..(m + 1) |-> IF n = m + 1 THEN f[m] + Tasks[m + 1] ELSE f[n]]
  <2>2. ASSUME NEW n \in 0..(m + 1)
        PROVE g[n] = IF n = 0 THEN 0 ELSE g[n - 1] + Tasks[n]
    <3>1. CASE n = m + 1
      BY <3>1
    <3>2. CASE n \in 1..m
      BY <2>1, <3>2
    <3>3. CASE n = 0
      BY <2>1, <3>3
    <3>. QED  BY <3>1, <3>2, <3>3
  <2>3. Follows(g, m + 1)
    BY <2>2
  <2>. HIDE DEF Follows, g
  <2>. QED  BY <2>3
<1>3. Len(Tasks) \in A
  <2>. HIDE DEF A
  <2>. QED  BY <1>1, <1>2, SetInduction, Constants
<1>4. \E f : Follows(f, Len(Tasks))
  BY <1>3
<1>5. Follows(Total, Len(Tasks))
  <2>1. Total = CHOOSE f : Follows(f, Len(Tasks))
    BY DEF Total
  <2>. HIDE DEF Follows
  <2>. QED  BY <1>4, <2>1
<1>. QED  BY <1>5

(* The sum of the first tasks is a number.                                   *)
LEMMA TotalType == \A n \in 0..Len(Tasks) : Total[n] \in Nat
<1>. DEFINE A == {n \in Nat : n <= Len(Tasks) => Total[n] \in Nat}
<1>1. 0 \in A
  BY TotalDef, Constants
<1>2. ASSUME NEW n \in Nat, n \in A PROVE n + 1 \in A
  <2>1. SUFFICES ASSUME n + 1 <= Len(Tasks) PROVE Total[n + 1] \in Nat
    OBVIOUS
  <2>2. n + 1 \in 1..Len(Tasks) /\ n + 1 # 0 /\ (n + 1) - 1 = n /\ n <= Len(Tasks)
    BY <2>1, Constants
  <2>3. Total[n + 1] = Total[n] + Tasks[n + 1]
    BY <2>2, TotalDef, Constants
  <2>4. Tasks[n + 1] \in Nat /\ Total[n] \in Nat
    BY <1>2, <2>2, Constants
  <2>. QED  BY <2>3, <2>4
<1>3. Nat \subseteq A
  <2>. HIDE DEF A
  <2>. QED  BY <1>1, <1>2, SetInduction
<1>. QED  BY <1>3, Constants

-----------------------------------------------------------------------------
(* Sums.  As many pairs as f adds up to on S. *)
Pieces(f, S) == UNION {{x} \X (1..f[x]) : x \in S}

(* One element more. *)
LEMMA PiecesAdd ==
  ASSUME NEW S, NEW x, x \notin S, NEW f, f[x] \in Nat, IsFiniteSet(Pieces(f, S))
  PROVE /\ IsFiniteSet(Pieces(f, S \cup {x}))
        /\ Cardinality(Pieces(f, S \cup {x})) = Cardinality(Pieces(f, S)) + f[x]
<1>. DEFINE X == {x} \X (1..f[x])
<1>1. IsFiniteSet(X) /\ Cardinality(X) = f[x]
  <2>1. 1 \in Int /\ f[x] \in Int
    OBVIOUS
  <2>2. /\ IsFiniteSet(1..f[x])
        /\ Cardinality(1..f[x]) = IF 1 > f[x] THEN 0 ELSE f[x] - 1 + 1
    BY <2>1, FS_Interval, Zenon
  <2>3. Cardinality(1..f[x]) = f[x]
    BY <2>2
  <2>4. IsFiniteSet({x}) /\ Cardinality({x}) = 1
    BY FS_Singleton
  <2>5. IsFiniteSet(X) /\ Cardinality(X) = Cardinality({x}) * Cardinality(1..f[x])
    BY <2>2, <2>4, FS_Product
  <2>. QED  BY <2>3, <2>4, <2>5
<1>2. Pieces(f, S \cup {x}) = Pieces(f, S) \cup X
  BY DEF Pieces
<1>3. Pieces(f, S) \cap X = {}
  BY DEF Pieces
<1>. HIDE DEF X
<1>4. Cardinality(Pieces(f, S) \cap X) = 0
  BY <1>3, FS_EmptySet
<1>5. /\ IsFiniteSet(Pieces(f, S) \cup X)
      /\ Cardinality(Pieces(f, S) \cup X)
           = Cardinality(Pieces(f, S)) + Cardinality(X) - Cardinality(Pieces(f, S) \cap X)
  BY <1>1, FS_Union
<1>6. Cardinality(Pieces(f, S)) \in Nat
  BY FS_CardinalityType
<1>7. Cardinality(Pieces(f, S) \cup X) = Cardinality(Pieces(f, S)) + f[x]
  BY <1>1, <1>4, <1>5, <1>6
<1>. QED  BY <1>2, <1>5, <1>7

(* One element less. *)
LEMMA PiecesRemove ==
  ASSUME NEW S, NEW x \in S, NEW f, f[x] \in Nat, IsFiniteSet(Pieces(f, S))
  PROVE /\ IsFiniteSet(Pieces(f, S \ {x}))
        /\ Cardinality(Pieces(f, S)) = Cardinality(Pieces(f, S \ {x})) + f[x]
<1>. DEFINE R == S \ {x}
<1>1. S = R \cup {x} /\ x \notin R
  OBVIOUS
<1>2. Pieces(f, R) \subseteq Pieces(f, S)
  BY DEF Pieces
<1>3. IsFiniteSet(Pieces(f, R))
  BY <1>2, FS_Subset
<1>. HIDE DEF R
<1>4. Cardinality(Pieces(f, R \cup {x})) = Cardinality(Pieces(f, R)) + f[x]
  BY <1>1, <1>3, PiecesAdd
<1>. QED  BY <1>1, <1>3, <1>4 DEF R

(* The sum depends on the values summed only.                                *)
LEMMA PiecesSame ==
  ASSUME NEW S, NEW f, NEW g, \A x \in S : f[x] = g[x]
  PROVE Pieces(f, S) = Pieces(g, S)
<1>1. {{x} \X (1..f[x]) : x \in S} = {{x} \X (1..g[x]) : x \in S}
  OBVIOUS
<1>. QED  BY <1>1 DEF Pieces

(* One value of the function changed. *)
LEMMA PiecesChange ==
  ASSUME NEW S, NEW x \in S, NEW f, NEW g, f[x] \in Nat, g[x] \in Nat,
         \A y \in S \ {x} : f[y] = g[y], IsFiniteSet(Pieces(f, S))
  PROVE /\ IsFiniteSet(Pieces(g, S))
        /\ Cardinality(Pieces(f, S)) \in Nat
        /\ Cardinality(Pieces(g, S)) = Cardinality(Pieces(f, S)) - f[x] + g[x]
<1>. DEFINE R == S \ {x}
<1>1. S = R \cup {x} /\ x \notin R
  OBVIOUS
<1>2. IsFiniteSet(Pieces(f, R)) /\ Cardinality(Pieces(f, S)) = Cardinality(Pieces(f, R)) + f[x]
  BY PiecesRemove
<1>3. Pieces(g, R) = Pieces(f, R)
  BY PiecesSame
<1>. HIDE DEF R
<1>4. /\ IsFiniteSet(Pieces(g, R \cup {x}))
      /\ Cardinality(Pieces(g, R \cup {x})) = Cardinality(Pieces(g, R)) + g[x]
  BY <1>1, <1>2, <1>3, PiecesAdd
<1>5. Cardinality(Pieces(f, R)) \in Nat
  BY <1>2, FS_CardinalityType
<1>. QED  BY <1>1, <1>2, <1>3, <1>4, <1>5

-----------------------------------------------------------------------------
(* The slots that hold a task. *)
Slots ==
  IF front <= rear THEN (front + 1)..rear
  ELSE ((front + 1)..(QUEUE_SIZE - 1)) \cup (0..rear)

(* The lines that have gone through queue_insert(). *)
Inserted == IF pc[Main] = "count" THEN next ELSE next - 1

(* What was inserted is in the sum, in the ring or in the hands of a worker. *)
Conserved ==
  dropped = 0 =>
    sum + Cardinality(Pieces(queue, Slots)) + Cardinality(Pieces(item, Workers)) = Total[Inserted]

(* A worker has an item in hand until it is added in, and what it has read   *)
(* under taskMutex is still true when it writes.                             *)
DataInv ==
  /\ IsFiniteSet(Pieces(queue, Slots)) /\ IsFiniteSet(Pieces(item, Workers))
  /\ Conserved
  /\ \A t \in Workers :
       /\ pc[t] = "store" => reg[t] = sum
       /\ pc[t] \notin {"uncount", "unlock", "process", "load", "store"} => item[t] = 0

(* A worker ends when nothing is left and nothing can come. *)
EndInv ==
  /\ done <=> pc[Main] \in {"join", "printed"}
  /\ done => next = Len(Tasks) + 1
  /\ \A t \in Workers :
       /\ pc[t] = "check_count" => done
       /\ pc[t] = "exited" => done /\ taskCount = 0
  /\ pc[Main] = "printed" => \A t \in Workers : pc[t] = "exited"

(* The sum of zeros is 0.                                                    *)
LEMMA NoPieces ==
  ASSUME NEW f, NEW S, \A x \in S : f[x] = 0
  PROVE IsFiniteSet(Pieces(f, S)) /\ Cardinality(Pieces(f, S)) = 0
<1>1. \A x \in S : {x} \X (1..f[x]) = {}
  OBVIOUS
<1>2. Pieces(f, S) = {}
  BY <1>1 DEF Pieces
<1>. QED  BY <1>2, FS_EmptySet

(* At the start.                                                             *)
LEMMA InitDataInv == Init => DataInv /\ EndInv
<1>. SUFFICES ASSUME Init PROVE DataInv /\ EndInv
  OBVIOUS
<1>. USE Constants DEF Init
<1>1. Slots = {}
  BY DEF Slots
<1>2. Cardinality(Pieces(queue, Slots)) = 0 /\ IsFiniteSet(Pieces(queue, Slots))
  BY <1>1, NoPieces
<1>3. Cardinality(Pieces(item, Workers)) = 0 /\ IsFiniteSet(Pieces(item, Workers))
  BY NoPieces
<1>4. Inserted = 0 /\ Total[0] = 0 /\ sum = 0
  BY TotalDef DEF Inserted
<1>5. \A t \in Workers : pc[t] = "lock" /\ item[t] = 0
  OBVIOUS
<1>6. EndInv
  BY DEF EndInv
<1>. HIDE DEF Init
<1>. QED  BY <1>2, <1>3, <1>4, <1>5, <1>6 DEF DataInv, Conserved

(* How much of the input is inserted.                                        *)
LEMMA InsertedType == ASSUME IInv PROVE Inserted \in 0..Len(Tasks)
BY Constants DEF IInv, TypeOK, InputInv, Inserted

(* Items are numbers.                                                        *)
LEMMA ItemType == ASSUME TypeOK PROVE /\ \A t \in Workers : item[t] \in Nat
                                      /\ \A i \in 0..(QUEUE_SIZE - 1) : queue[i] \in Nat
<1>1. Numbers \subseteq Nat
  BY Constants DEF Numbers
<1>. QED  BY <1>1 DEF TypeOK

(* A worker's new item changes the sum in hand by the difference.            *)
LEMMA ItemChange ==
  ASSUME TypeOK, DataInv, NEW t \in Workers, item'[t] \in Nat,
         \A u \in Workers \ {t} : item'[u] = item[u]
  PROVE /\ IsFiniteSet(Pieces(item', Workers))
        /\ Cardinality(Pieces(item, Workers)) \in Nat
        /\ Cardinality(Pieces(item', Workers)) = Cardinality(Pieces(item, Workers)) - item[t] + item'[t]
<1>1. IsFiniteSet(Pieces(item, Workers)) /\ item[t] \in Nat
  BY ItemType DEF DataInv
<1>2. ASSUME NEW g, g[t] \in Nat, \A u \in Workers \ {t} : item[u] = g[u]
      PROVE /\ IsFiniteSet(Pieces(g, Workers))
            /\ Cardinality(Pieces(item, Workers)) \in Nat
            /\ Cardinality(Pieces(g, Workers)) = Cardinality(Pieces(item, Workers)) - item[t] + g[t]
  BY <1>1, <1>2, PiecesChange
<1>. QED  BY <1>2

(* Slots that an insertion fills and a deletion empties. *)
LEMMA SlotsInsert ==
  ASSUME TypeOK, front # Succ(rear), rear' = Succ(rear), UNCHANGED front
  PROVE Slots' = Slots \cup {Succ(rear)} /\ Succ(rear) \notin Slots
<1>1. /\ QUEUE_SIZE \in Nat \ {0, 1}
      /\ front \in 0..(QUEUE_SIZE - 1) /\ rear \in 0..(QUEUE_SIZE - 1)
  BY TaskQueueRingAssumption DEF TypeOK
<1>2. Succ(rear) = IF rear = QUEUE_SIZE - 1 THEN 0 ELSE rear + 1
  BY <1>1, RingArithmetic DEF Succ
<1>. QED  BY <1>1, <1>2 DEF Slots

(* queue_delete() takes one slot, the next after front.                      *)
LEMMA SlotsDelete ==
  ASSUME TypeOK, front # rear, front' = Succ(front), UNCHANGED rear
  PROVE /\ Slots' = Slots \ {Succ(front)} /\ Succ(front) \in Slots
        /\ Succ(front) \in 0..(QUEUE_SIZE - 1)
<1>1. /\ QUEUE_SIZE \in Nat \ {0, 1}
      /\ front \in 0..(QUEUE_SIZE - 1) /\ rear \in 0..(QUEUE_SIZE - 1)
  BY TaskQueueRingAssumption DEF TypeOK
<1>2. Succ(front) = IF front = QUEUE_SIZE - 1 THEN 0 ELSE front + 1
  BY <1>1, RingArithmetic DEF Succ
<1>. QED  BY <1>1, <1>2 DEF Slots

(* Slots are slots of the ring.                                              *)
LEMMA SlotsType == ASSUME TypeOK PROVE Slots \subseteq 0..(QUEUE_SIZE - 1)
BY Constants DEF TypeOK, Slots

(* Steps that add and move nothing. *)
LEMMA SameData ==
  ASSUME DataInv, UNCHANGED <<queue, front, rear, sum, item, dropped>>, Inserted' = Inserted,
         \A t \in Workers :
           /\ pc'[t] = "store" => pc[t] = "store" /\ reg'[t] = reg[t]
           /\ pc'[t] \notin {"uncount", "unlock", "process", "load", "store"}
                => pc[t] \notin {"uncount", "unlock", "process", "load", "store"}
  PROVE DataInv'
<1>1. Slots' = Slots
  BY DEF Slots
<1>. QED  BY <1>1 DEF DataInv, Conserved

(* What is inserted is in the ring, in hand, or in the totals.               *)
LEMMA DataStep == ASSUME IInv, DataInv, [Next]_vars PROVE DataInv'
<1>. USE Constants DEF IInv, TypeOK, ringVars, ptVars, Goto
<1>1. CASE MasterLock \/ MasterUnlock \/ MainDone \/ MainJoin
  <2>1. /\ UNCHANGED <<ringVars, sum, item, dropped, reg, next>>
        /\ \A t \in Workers : pc'[t] = pc[t]
    BY <1>1 DEF MasterLock, MasterUnlock, MainDone, MainJoin
  <2>2. Inserted' = Inserted
    BY <1>1 DEF MasterLock, MasterUnlock, MainDone, MainJoin, Inserted
  <2>. QED  BY <2>1, <2>2, SameData
<1>2. CASE QueueInsert
  <2>1. /\ pc[Main] = "insert" /\ pc'[Main] = "count" /\ \A t \in Workers : pc'[t] = pc[t]
        /\ UNCHANGED <<front, sum, item, reg, next>>
    BY <1>2 DEF QueueInsert
  <2>2. Inserted = next - 1 /\ Inserted' = next /\ next \in 1..Len(Tasks)
    BY <2>1 DEF Inserted, InputInv
  <2>3. CASE front = Succ(rear)
    <3>1. dropped' = dropped + 1 /\ UNCHANGED <<queue, rear>>
      BY <1>2, <2>3 DEF QueueInsert
    <3>2. dropped' # 0
      BY <3>1
    <3>3. Slots' = Slots
      BY <2>1, <3>1 DEF Slots
    <3>. QED  BY <2>1, <3>1, <3>2, <3>3 DEF DataInv, Conserved
  <2>4. CASE front # Succ(rear)
    <3>. DEFINE s == Succ(rear)
    <3>1. rear' = s /\ queue' = [queue EXCEPT ![s] = Tasks[next]] /\ dropped' = dropped
      BY <1>2, <2>4 DEF QueueInsert
    <3>2. Slots' = Slots \cup {s} /\ s \notin Slots
      BY <2>1, <2>4, <3>1, SlotsInsert
    <3>3. s \in 0..(QUEUE_SIZE - 1)
      BY RingSteps, TaskQueueRingAssumption DEF Succ
    <3>. HIDE DEF s
    <3>4. queue'[s] = Tasks[next] /\ Tasks[next] \in Nat
      BY <2>2, <3>1, <3>3
    <3>5. Pieces(queue', Slots) = Pieces(queue, Slots)
      <4>1. \A x \in Slots : queue'[x] = queue[x]
        BY <3>1, <3>2
      <4>. QED  BY <4>1, PiecesSame
    <3>6. IsFiniteSet(Pieces(queue', Slots))
      BY <3>5 DEF DataInv
    <3>7. /\ IsFiniteSet(Pieces(queue', Slots \cup {s}))
          /\ Cardinality(Pieces(queue', Slots \cup {s})) = Cardinality(Pieces(queue', Slots)) + queue'[s]
      BY <3>2, <3>4, <3>6, PiecesAdd
    <3>8. /\ IsFiniteSet(Pieces(queue, Slots)') /\ IsFiniteSet(Pieces(item, Workers)')
          /\ Cardinality(Pieces(queue, Slots)') = Cardinality(Pieces(queue, Slots)) + Tasks[next]
          /\ Cardinality(Pieces(item, Workers)') = Cardinality(Pieces(item, Workers))
      <4>1. Pieces(item, Workers)' = Pieces(item, Workers)
        BY <2>1 DEF Pieces
      <4>2. Pieces(queue, Slots)' = Pieces(queue', Slots \cup {s})
        BY <3>2 DEF Pieces
      <4>. HIDE DEF IInv, TypeOK
      <4>. QED  BY <3>4, <3>5, <3>7, <4>1, <4>2 DEF DataInv
    <3>9. Total[next] = Total[next - 1] + Tasks[next] /\ Total[next - 1] \in Nat
      BY <2>2, TotalDef, TotalType
    <3>10. /\ Cardinality(Pieces(queue, Slots)) \in Nat
           /\ Cardinality(Pieces(item, Workers)) \in Nat
      BY FS_CardinalityType DEF DataInv
    <3>11. Conserved'
      <4>1. SUFFICES ASSUME dropped = 0
                     PROVE sum' + Cardinality(Pieces(queue, Slots)') + Cardinality(Pieces(item, Workers)')
                             = Total[Inserted']
        BY <3>1 DEF Conserved
      <4>2. sum + Cardinality(Pieces(queue, Slots)) + Cardinality(Pieces(item, Workers)) = Total[next - 1]
        BY <2>2, <4>1 DEF DataInv, Conserved
      <4>3. sum' = sum /\ sum \in Nat /\ Tasks[next] \in Nat
        BY <2>1, <3>4
      <4>. HIDE DEF IInv, TypeOK
      <4>. QED  BY <2>2, <3>8, <3>9, <3>10, <4>2, <4>3, SMTT(30)
    <3>. QED  BY <2>1, <3>8, <3>11 DEF DataInv
  <2>. QED  BY <2>3, <2>4
<1>3. CASE MasterCount
  <2>1. /\ UNCHANGED <<queue, front, rear, sum, item, dropped, reg>>
        /\ \A t \in Workers : pc'[t] = pc[t]
    BY <1>3 DEF MasterCount
  <2>2. Inserted' = Inserted
    BY <1>3 DEF MasterCount, Inserted
  <2>. QED  BY <2>1, <2>2, SameData
<1>4. ASSUME NEW t \in Workers, QueueDelete(t) PROVE DataInv'
  <2>1. /\ pc[t] = "delete" /\ pc' = [pc EXCEPT ![t] = "uncount"]
        /\ UNCHANGED <<queue, rear, taskCount, sum, next, reg, dropped>>
    BY <1>4 DEF QueueDelete
  <2>2. Inserted' = Inserted /\ Inserted \in 0..Len(Tasks)
    BY <2>1, InsertedType DEF Inserted
  <2>3. item[t] = 0 /\ DOMAIN item = Workers
    BY <2>1 DEF DataInv
  <2>4. ASSUME NEW v \in Nat, item' = [item EXCEPT ![t] = v]
        PROVE /\ IsFiniteSet(Pieces(item', Workers))
              /\ Cardinality(Pieces(item, Workers)) \in Nat
              /\ Cardinality(Pieces(item', Workers)) = Cardinality(Pieces(item, Workers)) + v
    <3>1. item'[t] = v /\ \A u \in Workers \ {t} : item'[u] = item[u]
      BY <2>3, <2>4
    <3>. HIDE DEF IInv, TypeOK
    <3>. QED  BY <2>3, <3>1, ItemChange DEF IInv
  <2>5. /\ Pieces(item, Workers)' = Pieces(item', Workers)
        /\ \A u \in Workers : pc'[u] = "store" => pc[u] = "store"
        /\ \A u \in Workers :
             pc'[u] \notin {"uncount", "unlock", "process", "load", "store"} =>
               pc[u] \notin {"uncount", "unlock", "process", "load", "store"} /\ u # t
    BY <2>1 DEF Pieces
  <2>6. \A u \in Workers : u # t => item'[u] = item[u]
    BY <1>4 DEF QueueDelete
  <2>7. /\ \A u \in Workers : pc'[u] = "store" => reg'[u] = sum'
        /\ \A u \in Workers :
             pc'[u] \notin {"uncount", "unlock", "process", "load", "store"} => item'[u] = 0
    BY <2>1, <2>5, <2>6 DEF DataInv
  <2>8. CASE front = rear
    <3>1. PICK n \in Nat : item' = [item EXCEPT ![t] = n]
      <4>1. Numbers \subseteq Nat
        BY DEF Numbers
      <4>. QED  BY <1>4, <2>8, <4>1 DEF QueueDelete
    <3>2. front' = front
      BY <1>4, <2>8 DEF QueueDelete
    <3>3. dropped # 0
      <4>1. taskCount > 0
        BY <2>1 DEF CountInv
      <4>2. Counted = taskCount
        <5>1. pc[Main] # "count" /\ \A u \in Workers : pc[u] # "uncount"
          BY <2>1, OneInside
        <5>. QED  BY <5>1 DEF Counted
      <4>3. InRing = 0
        BY <2>8, RingSteps, TaskQueueRingAssumption DEF InRing
      <4>. QED  BY <4>1, <4>2, <4>3 DEF CountInv
    <3>4. Slots' = Slots
      BY <2>1, <3>2 DEF Slots
    <3>5. Pieces(queue, Slots)' = Pieces(queue, Slots)
      BY <2>1, <3>4 DEF Pieces
    <3>. QED  BY <2>1, <2>4, <2>5, <2>7, <3>1, <3>3, <3>5 DEF DataInv, Conserved
  <2>9. CASE front # rear
    <3>. DEFINE s == Succ(front)
    <3>1. front' = s /\ item' = [item EXCEPT ![t] = queue[s]]
      BY <1>4, <2>9 DEF QueueDelete
    <3>2. Slots' = Slots \ {s} /\ s \in Slots /\ s \in 0..(QUEUE_SIZE - 1)
      BY <2>1, <2>9, <3>1, SlotsDelete
    <3>. HIDE DEF s
    <3>3. queue[s] \in Nat
      BY <3>2, ItemType
    <3>4. IsFiniteSet(Pieces(queue, Slots))
      BY DEF DataInv
    <3>5. /\ IsFiniteSet(Pieces(queue, Slots \ {s}))
          /\ Cardinality(Pieces(queue, Slots)) = Cardinality(Pieces(queue, Slots \ {s})) + queue[s]
      BY <3>2, <3>3, <3>4, PiecesRemove
    <3>6. Pieces(queue, Slots)' = Pieces(queue, Slots \ {s})
      BY <2>1, <3>2 DEF Pieces
    <3>7. Cardinality(Pieces(queue, Slots \ {s})) \in Nat
      BY <3>5, FS_CardinalityType
    <3>8. Conserved'
      <4>1. SUFFICES ASSUME dropped = 0
                     PROVE sum' + Cardinality(Pieces(queue, Slots)') + Cardinality(Pieces(item, Workers)')
                             = Total[Inserted']
        BY <2>1 DEF Conserved
      <4>2. sum + Cardinality(Pieces(queue, Slots)) + Cardinality(Pieces(item, Workers)) = Total[Inserted]
        BY <4>1 DEF DataInv, Conserved
      <4>3. sum' = sum /\ sum \in Nat
        BY <2>1
      <4>4. /\ Cardinality(Pieces(item', Workers)) = Cardinality(Pieces(item, Workers)) + queue[s]
            /\ Cardinality(Pieces(item, Workers)) \in Nat
        BY <2>4, <3>1, <3>3
      <4>5. Total[Inserted'] = Total[Inserted]
        BY <2>2
      <4>. HIDE DEF IInv, TypeOK
      <4>. QED  BY <2>5, <3>3, <3>5, <3>6, <3>7, <4>2, <4>3, <4>4, <4>5
    <3>. QED  BY <2>4, <2>5, <2>7, <3>1, <3>3, <3>5, <3>6, <3>8 DEF DataInv
  <2>. QED  BY <2>8, <2>9
<1>5. ASSUME NEW t \in Workers,
             WorkerLock(t) \/ WorkerTest(t) \/ WorkerUncount(t) \/ WorkerUnlock(t) \/ Process(t)
             \/ ProcessUnlock(t) \/ CheckDone(t) \/ CheckCount(t)
      PROVE DataInv'
  <2>1. /\ UNCHANGED <<queue, front, rear, sum, item, dropped, reg, next>>
        /\ \E l : /\ pc' = [pc EXCEPT ![t] = l]
                  /\ l # "store"
                  /\ l \notin {"uncount", "unlock", "process", "load", "store"} =>
                       pc[t] \notin {"uncount", "unlock", "process", "load", "store"}
    <3>1. CASE WorkerUnlock(t)
      BY <3>1 DEF WorkerUnlock
    <3>2. CASE WorkerLock(t) \/ WorkerTest(t) \/ WorkerUncount(t)
      BY <3>2 DEF WorkerLock, WorkerTest, WorkerUncount
    <3>3. CASE Process(t) \/ ProcessUnlock(t)
      BY <3>3 DEF Process, ProcessUnlock
    <3>4. CASE CheckDone(t) \/ CheckCount(t)
      BY <3>4 DEF CheckDone, CheckCount
    <3>. QED  BY <1>5, <3>1, <3>2, <3>3, <3>4
  <2>2. Inserted' = Inserted
    BY <2>1 DEF Inserted
  <2>. QED  BY <2>1, <2>2, SameData
<1>6. ASSUME NEW t \in Workers, LoadSum(t) PROVE DataInv'
  <2>1. /\ pc[t] = "load" /\ pc' = [pc EXCEPT ![t] = "store"] /\ reg' = [reg EXCEPT ![t] = sum]
        /\ UNCHANGED <<queue, front, rear, sum, item, dropped, next>>
    BY <1>6 DEF LoadSum
  <2>2. Inserted' = Inserted /\ Slots' = Slots
    BY <2>1 DEF Inserted, Slots
  <2>. QED  BY <2>1, <2>2 DEF DataInv, Conserved
<1>7. ASSUME NEW t \in Workers, StoreSum(t) PROVE DataInv'
  <2>1. /\ pc[t] = "store" /\ pc' = [pc EXCEPT ![t] = "unlock_sum"]
        /\ sum' = reg[t] + item[t] /\ item' = [item EXCEPT ![t] = 0]
        /\ UNCHANGED <<queue, front, rear, dropped, next, reg>>
    BY <1>7 DEF StoreSum
  <2>2. Inserted' = Inserted /\ Slots' = Slots /\ Inserted \in 0..Len(Tasks)
    BY <2>1, InsertedType DEF Inserted, Slots
  <2>3. reg[t] = sum
    BY <2>1 DEF DataInv
  <2>4. \A u \in Workers : pc'[u] # "store"
    BY <2>1 DEF LockInv
  <2>5. IsFiniteSet(Pieces(item, Workers)) /\ item[t] \in Nat /\ DOMAIN item = Workers /\ sum \in Nat
    BY ItemType DEF DataInv
  <2>6. /\ IsFiniteSet(Pieces(item', Workers))
        /\ Cardinality(Pieces(item, Workers)) \in Nat
        /\ Cardinality(Pieces(item', Workers)) = Cardinality(Pieces(item, Workers)) - item[t]
    <3>1. item'[t] = 0 /\ \A u \in Workers \ {t} : item'[u] = item[u]
      BY <2>1, <2>5
    <3>. HIDE DEF IInv, TypeOK
    <3>. QED  BY <2>5, <3>1, ItemChange DEF IInv
  <2>7. Pieces(item, Workers)' = Pieces(item', Workers) /\ Pieces(queue, Slots)' = Pieces(queue, Slots)
    BY <2>1, <2>2 DEF Pieces
  <2>8. Cardinality(Pieces(queue, Slots)) \in Nat
    BY FS_CardinalityType DEF DataInv
  <2>9. Conserved'
    <3>1. SUFFICES ASSUME dropped = 0
                   PROVE sum' + Cardinality(Pieces(queue, Slots)') + Cardinality(Pieces(item, Workers)')
                           = Total[Inserted']
      BY <2>1 DEF Conserved
    <3>2. sum + Cardinality(Pieces(queue, Slots)) + Cardinality(Pieces(item, Workers)) = Total[Inserted]
      BY <3>1 DEF DataInv, Conserved
    <3>3. sum' = sum + item[t]
      BY <2>1, <2>3
    <3>4. Total[Inserted'] = Total[Inserted]
      BY <2>2
    <3>. HIDE DEF IInv, TypeOK
    <3>. QED  BY <2>5, <2>6, <2>7, <2>8, <3>2, <3>3, <3>4
  <2>10. \A u \in Workers :
           pc'[u] \notin {"uncount", "unlock", "process", "load", "store"} => item'[u] = 0
    BY <2>1 DEF DataInv
  <2>. QED  BY <2>4, <2>6, <2>7, <2>9, <2>10 DEF DataInv
<1>8. CASE UNCHANGED vars
  <2>1. Inserted' = Inserted
    BY <1>8 DEF vars, Inserted
  <2>. QED  BY <1>8, <2>1, SameData DEF vars
<1>. QED
  BY <1>1, <1>2, <1>3, <1>4, <1>5, <1>6, <1>7, <1>8 DEF Next, MainStep, WorkerStep

(* A worker leaves only when the ring is empty for good.                     *)
LEMMA EndStep == ASSUME IInv, EndInv, [Next]_vars PROVE EndInv'
<1>. USE Constants DEF IInv, TypeOK, EndInv, ringVars, ptVars, Goto
<1>1. CASE MasterLock \/ QueueInsert \/ MasterUnlock
  <2>1. UNCHANGED <<taskCount, done, next>> /\ \A t \in Workers : pc'[t] = pc[t]
    BY <1>1 DEF MasterLock, QueueInsert, MasterUnlock
  <2>2. pc[Main] \in {"next", "insert", "release"} /\ pc'[Main] \in {"insert", "count", "next"}
    BY <1>1 DEF MasterLock, QueueInsert, MasterUnlock
  <2>. QED  BY <2>1, <2>2
<1>2. CASE MasterCount
  BY <1>2 DEF MasterCount
<1>3. CASE MainDone \/ MainJoin
  <2>1. CASE MainDone
    <3>1. /\ done' = TRUE /\ next' = next /\ pc' = [pc EXCEPT ![Main] = "join"] /\ taskCount' = taskCount
          /\ next > Len(Tasks) /\ pc[Main] = "next"
      BY <2>1 DEF MainDone
    <3>2. next = Len(Tasks) + 1 /\ pc'[Main] = "join" /\ \A t \in Workers : pc'[t] = pc[t]
      BY <3>1
    <3>. QED  BY <3>1, <3>2
  <2>2. CASE MainJoin
    BY <2>2 DEF MainJoin
  <2>. QED  BY <1>3, <2>1, <2>2
<1>4. ASSUME NEW t \in Workers,
             WorkerLock(t) \/ WorkerTest(t) \/ QueueDelete(t) \/ WorkerUnlock(t) \/ Process(t)
             \/ LoadSum(t) \/ StoreSum(t) \/ ProcessUnlock(t)
      PROVE EndInv'
  <2>1. UNCHANGED <<taskCount, done, next>>
    BY <1>4 DEF WorkerLock, WorkerTest, QueueDelete, WorkerUnlock, Process, LoadSum, StoreSum, ProcessUnlock
  <2>2. pc[t] # "exited" /\ \E l : pc' = [pc EXCEPT ![t] = l] /\ l \notin {"check_count", "exited"}
    BY <1>4 DEF WorkerLock, WorkerTest, QueueDelete, WorkerUnlock, Process, LoadSum, StoreSum, ProcessUnlock
  <2>. QED  BY <2>1, <2>2
<1>5. ASSUME NEW t \in Workers, WorkerUncount(t) PROVE EndInv'
  <2>1. taskCount > 0
    BY <1>5 DEF WorkerUncount, CountInv
  <2>2. \A u \in Workers : pc[u] # "exited"
    BY <2>1
  <2>. QED  BY <1>5, <2>2 DEF WorkerUncount
<1>6. ASSUME NEW t \in Workers, CheckDone(t) \/ CheckCount(t) PROVE EndInv'
  BY <1>6 DEF CheckDone, CheckCount
<1>7. CASE UNCHANGED vars
  BY <1>7 DEF vars
<1>. QED
  BY <1>1, <1>2, <1>3, <1>4, <1>5, <1>6, <1>7 DEF Next, MainStep, WorkerStep

(* Without overflow the program prints the total of its input, if there is a worker at    *)
(* all: the polling workers, whose last test reads done and taskCount without the mutex,  *)
(* leave nothing in the ring, and no addition to sum is lost.                             *)
THEOREM TotalPrinted ==
  ASSUME Workers # {}
  PROVE Spec => []PrintsTotal
<1>1. ASSUME IInv, DataInv, EndInv PROVE PrintsTotal
  <2>1. SUFFICES ASSUME pc[Main] = "printed", dropped = 0 PROVE sum = Total[Len(Tasks)]
    BY DEF PrintsTotal
  <2>2. \A t \in Workers : pc[t] = "exited"
    BY <1>1, <2>1 DEF EndInv
  <2>3. taskCount = 0 /\ next = Len(Tasks) + 1
    BY <1>1, <2>1, <2>2 DEF EndInv
  <2>4. Counted = 0
    BY <2>1, <2>2, <2>3 DEF Counted
  <2>5. front = rear
    <3>1. InRing <= 0
      BY <1>1, <2>4 DEF IInv, CountInv
    <3>2. /\ QUEUE_SIZE \in Nat \ {0, 1}
          /\ front \in 0..(QUEUE_SIZE - 1) /\ rear \in 0..(QUEUE_SIZE - 1)
      BY <1>1, TaskQueueRingAssumption DEF IInv, TypeOK
    <3>3. InRing \in 0..(QUEUE_SIZE - 1) /\ (InRing = 0 <=> front = rear)
      BY <3>2, RingSteps DEF InRing
    <3>. QED  BY <3>1, <3>2, <3>3
  <2>6. Slots = {}
    BY <1>1, <2>5, Constants DEF IInv, TypeOK, Slots
  <2>7. Cardinality(Pieces(queue, Slots)) = 0
    BY <2>6, NoPieces
  <2>8. Cardinality(Pieces(item, Workers)) = 0
    BY <1>1, <2>2, NoPieces DEF DataInv
  <2>9. Inserted = Len(Tasks)
    BY <2>1, <2>3, Constants DEF Inserted
  <2>10. sum + 0 + 0 = Total[Len(Tasks)] /\ sum \in Nat
    BY <1>1, <2>1, <2>7, <2>8, <2>9 DEF DataInv, Conserved, IInv, TypeOK
  <2>. QED  BY <2>10
<1>2. IInv /\ DataInv /\ [Next]_vars => DataInv'
  BY DataStep
<1>3. IInv /\ EndInv /\ [Next]_vars => EndInv'
  BY EndStep
<1>. QED  BY <1>1, <1>2, <1>3, InitDataInv, Invariance, PTL DEF Spec
=============================================================================
