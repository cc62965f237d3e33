---------------------------- MODULE TaskQueueRing ----------------------------
(***************************************************************************)
(* The course's own worker pool, lab7-solutions/taskqueue.c: a bounded ring *)
(* buffer under queueMutex that the workers poll.  done and taskCount are   *)
(* also read without the mutex, by the test that ends a worker.            *)
(***************************************************************************)
EXTENDS Pthreads, Integers, Sequences

CONSTANTS
  Main,
  Tasks,      \* the numbers of the input's 'p' lines in order
  QUEUE_SIZE

Workers == Threads \ {Main}

ASSUME TaskQueueRingAssumption ==
  /\ Main \in Threads
  /\ Tasks \in Seq(Nat \ {0})
  /\ QUEUE_SIZE \in Nat \ {0, 1}
  /\ Mutexes = {"queueMutex", "taskMutex"}

VARIABLES
  queue, front, rear, taskCount, done,
  sum,        \* the statistics, of which sum stands for all
  pc,
  next,       \* the next line of the input
  item,       \* item[t]: the number worker t is to process
  reg,        \* reg[t]: sum as t has read it
  dropped     \* how often queue_insert() has found the ring full

ringVars == <<queue, front, rear, taskCount>>
vars == <<ptVars, ringVars, done, sum, pc, next, item, reg, dropped>>

(* The numbers of the input, and 0 for a slot that was never written. *)
Numbers == {Tasks[i] : i \in DOMAIN Tasks} \cup {0}

TypeOK ==
  /\ PtTypeOK
  /\ queue \in [0..(QUEUE_SIZE - 1) -> Numbers]
  /\ front \in 0..(QUEUE_SIZE - 1)
  /\ rear \in 0..(QUEUE_SIZE - 1)
  /\ taskCount \in 0..Len(Tasks)
  /\ done \in BOOLEAN
  /\ sum \in Nat
  /\ pc \in [Threads -> {"next", "insert", "count", "release", "join", "printed",
                         "lock", "test", "delete", "uncount", "unlock", "unlock_empty",
                         "process", "load", "store", "unlock_sum", "check_done",
                         "check_count", "exited"}]
  /\ next \in 1..(Len(Tasks) + 1)
  /\ item \in [Workers -> Numbers]
  /\ reg \in [Workers -> Nat]
  /\ dropped \in 0..Len(Tasks)

Init ==
  /\ PtInit
  /\ queue = [i \in 0..(QUEUE_SIZE - 1) |-> 0]
  /\ front = 0 /\ rear = 0 /\ taskCount = 0
  /\ done = FALSE
  /\ sum = 0
  /\ pc = [t \in Threads |-> IF t = Main THEN "next" ELSE "lock"]
  /\ next = 1
  /\ item = [t \in Workers |-> 0]
  /\ reg = [t \in Workers |-> 0]
  /\ dropped = 0

Goto(t, l) == pc' = [pc EXCEPT ![t] = l]

Succ(i) == (i + 1) % QUEUE_SIZE

-----------------------------------------------------------------------------
(* main() and masterFunc() *)

MasterLock ==
  /\ pc[Main] = "next"
  /\ next <= Len(Tasks)
  /\ Lock(Main, "queueMutex")
  /\ Goto(Main, "insert")
  /\ UNCHANGED <<waiting, ringVars, done, sum, next, item, reg, dropped>>

(* Faulty variant: rear is not set back when the ring is full. *)
QueueInsertAdvance ==
  /\ pc[Main] = "insert"
  /\ rear' = Succ(rear)
  /\ IF front = rear'
     THEN dropped' = dropped + 1 /\ UNCHANGED queue
     ELSE /\ queue' = [queue EXCEPT ![rear'] = Tasks[next]]
          /\ UNCHANGED dropped
  /\ Goto(Main, "count")
  /\ UNCHANGED <<ptVars, front, taskCount, done, sum, next, item, reg>>

(* queue_insert(): a full ring drops the item. *)
QueueInsert ==
  /\ pc[Main] = "insert"
  /\ IF front = Succ(rear)
     THEN dropped' = dropped + 1 /\ UNCHANGED <<queue, rear>>
     ELSE /\ rear' = Succ(rear)
          /\ queue' = [queue EXCEPT ![rear'] = Tasks[next]]
          /\ UNCHANGED dropped
  /\ Goto(Main, "count")
  /\ UNCHANGED <<ptVars, front, taskCount, done, sum, next, item, reg>>

MasterCount ==
  /\ pc[Main] = "count"
  /\ taskCount' = taskCount + 1
  /\ next' = next + 1
  /\ Goto(Main, "release")
  /\ UNCHANGED <<ptVars, queue, front, rear, done, sum, item, reg, dropped>>

MasterUnlock ==
  /\ pc[Main] = "release"
  /\ Unlock("queueMutex")
  /\ Goto(Main, "next")
  /\ UNCHANGED <<waiting, ringVars, done, sum, next, item, reg, dropped>>

MainDone ==
  /\ pc[Main] = "next"
  /\ next > Len(Tasks)
  /\ done' = TRUE
  /\ Goto(Main, "join")
  /\ UNCHANGED <<ptVars, ringVars, sum, next, item, reg, dropped>>

MainJoin ==
  /\ pc[Main] = "join"
  /\ \A t \in Workers : pc[t] = "exited"
  /\ Goto(Main, "printed")
  /\ UNCHANGED <<ptVars, ringVars, done, sum, next, item, reg, dropped>>

-----------------------------------------------------------------------------
(* workerFunc() *)

WorkerLock(t) ==
  /\ pc[t] = "lock"
  /\ Lock(t, "queueMutex")
  /\ Goto(t, "test")
  /\ UNCHANGED <<waiting, ringVars, done, sum, next, item, reg, dropped>>

WorkerTest(t) ==
  /\ pc[t] = "test"
  /\ Goto(t, IF taskCount > 0 THEN "delete" ELSE "unlock_empty")
  /\ UNCHANGED <<ptVars, ringVars, done, sum, next, item, reg, dropped>>

(* queue_delete().  When the ring is empty it has no return statement: the   *)
(* worker gets some number or other.                                         *)
QueueDelete(t) ==
  /\ pc[t] = "delete"
  /\ IF front = rear
     THEN /\ \E n \in Numbers : item' = [item EXCEPT ![t] = n]
          /\ UNCHANGED front
     ELSE /\ front' = Succ(front)
          /\ item' = [item EXCEPT ![t] = queue[front']]
  /\ Goto(t, "uncount")
  /\ UNCHANGED <<ptVars, queue, rear, taskCount, done, sum, next, reg, dropped>>

WorkerUncount(t) ==
  /\ pc[t] = "uncount"
  /\ taskCount' = taskCount - 1
  /\ Goto(t, "unlock")
  /\ UNCHANGED <<ptVars, queue, front, rear, done, sum, next, item, reg, dropped>>

(* Faulty variant: the mutex is kept when there was nothing to do. *)
WorkerUnlockFound(t) ==
  /\ pc[t] \in {"unlock", "unlock_empty"}
  /\ IF pc[t] = "unlock" THEN Unlock("queueMutex") ELSE UNCHANGED owner
  /\ Goto(t, IF pc[t] = "unlock" THEN "process" ELSE "check_done")
  /\ UNCHANGED <<waiting, ringVars, done, sum, next, item, reg, dropped>>

WorkerUnlock(t) ==
  /\ pc[t] \in {"unlock", "unlock_empty"}
  /\ Unlock("queueMutex")
  /\ Goto(t, IF pc[t] = "unlock" THEN "process" ELSE "check_done")
  /\ UNCHANGED <<waiting, ringVars, done, sum, next, item, reg, dropped>>

Process(t) ==
  /\ pc[t] = "process"
  /\ Lock(t, "taskMutex")
  /\ Goto(t, "load")
  /\ UNCHANGED <<waiting, ringVars, done, sum, next, item, reg, dropped>>

LoadSum(t) ==
  /\ pc[t] = "load"
  /\ reg' = [reg EXCEPT ![t] = sum]
  /\ Goto(t, "store")
  /\ UNCHANGED <<ptVars, ringVars, done, sum, next, item, dropped>>

StoreSum(t) ==
  /\ pc[t] = "store"
  /\ sum' = reg[t] + item[t]
  /\ item' = [item EXCEPT ![t] = 0]
  /\ Goto(t, "unlock_sum")
  /\ UNCHANGED <<ptVars, ringVars, done, next, reg, dropped>>

ProcessUnlock(t) ==
  /\ pc[t] = "unlock_sum"
  /\ Unlock("taskMutex")
  /\ Goto(t, "check_done")
  /\ UNCHANGED <<waiting, ringVars, done, sum, next, item, reg, dropped>>

(* Faulty variant: done alone ends a worker. *)
CheckDoneOnly(t) ==
  /\ pc[t] = "check_done"
  /\ Goto(t, IF done THEN "exited" ELSE "lock")
  /\ UNCHANGED <<ptVars, ringVars, done, sum, next, item, reg, dropped>>

(* done == true && taskCount == 0, two reads without the mutex. *)
CheckDone(t) ==
  /\ pc[t] = "check_done"
  /\ Goto(t, IF done THEN "check_count" ELSE "lock")
  /\ UNCHANGED <<ptVars, ringVars, done, sum, next, item, reg, dropped>>

CheckCount(t) ==
  /\ pc[t] = "check_count"
  /\ Goto(t, IF taskCount = 0 THEN "exited" ELSE "lock")
  /\ UNCHANGED <<ptVars, ringVars, done, sum, next, item, reg, dropped>>

-----------------------------------------------------------------------------
MainStep ==
  MasterLock \/ QueueInsert \/ MasterCount \/ MasterUnlock \/ MainDone \/ MainJoin

WorkerStep(t) ==
  \/ WorkerLock(t) \/ WorkerTest(t) \/ QueueDelete(t) \/ WorkerUncount(t) \/ WorkerUnlock(t)
  \/ Process(t) \/ LoadSum(t) \/ StoreSum(t) \/ ProcessUnlock(t)
  \/ CheckDone(t) \/ CheckCount(t)

Next == MainStep \/ \E t \in Workers : WorkerStep(t)

Spec == Init /\ [][Next]_vars

(* Every thread runs; a mutex the workers poll is also obtained by main().   *)
Fairness == SF_vars(MainStep) /\ \A t \in Workers : SF_vars(WorkerStep(t))

FairSpec == Spec /\ Fairness

-----------------------------------------------------------------------------
InRing == (rear - front + QUEUE_SIZE) % QUEUE_SIZE

(* Outside the critical sections taskCount is the number of items in the     *)
(* ring, and more only by the items an overflow has dropped: then workers    *)
(* will take values out of an empty ring.                                    *)
CountMatchesRing ==
  owner["queueMutex"] = NoThread =>
    /\ taskCount >= InRing
    /\ taskCount <= InRing + dropped

Total[n \in 0..Len(Tasks)] == IF n = 0 THEN 0 ELSE Total[n - 1] + Tasks[n]

(* Without overflow the program prints the total: a worker that ends on its  *)
(* unlocked test of done and taskCount leaves no task behind.                *)
PrintsTotal == pc[Main] = "printed" /\ dropped = 0 => sum = Total[Len(Tasks)]

(* The program ends, after an overflow too. *)
Terminates == <>(pc[Main] = "printed")

-----------------------------------------------------------------------------
(* The inductive invariant *)

(* Who is where, and which mutexes that means. *)
LockInv ==
  /\ pc[Main] \in {"next", "insert", "count", "release", "join", "printed"}
  /\ owner["queueMutex"] = Main <=> pc[Main] \in {"insert", "count", "release"}
  /\ owner["taskMutex"] # Main
  /\ \A t \in Workers :
       /\ pc[t] \in {"lock", "test", "delete", "uncount", "unlock", "unlock_empty", "process",
                     "load", "store", "unlock_sum", "check_done", "check_count", "exited"}
       /\ owner["queueMutex"] = t <=>
            pc[t] \in {"test", "delete", "uncount", "unlock", "unlock_empty"}
       /\ owner["taskMutex"] = t <=> pc[t] \in {"load", "store", "unlock_sum"}

(* taskCount as it will be when the critical section under way is over. *)
Counted ==
  IF pc[Main] = "count" THEN taskCount + 1
  ELSE IF \E t \in Workers : pc[t] = "uncount" THEN taskCount - 1 ELSE taskCount

(* A worker deletes and uncounts only what it has seen counted. *)
CountInv ==
  /\ \A t \in Workers : pc[t] \in {"delete", "uncount"} => taskCount > 0
  /\ InRing <= Counted /\ Counted <= InRing + dropped

(* The lines of the input so far bound what is counted and what is dropped. *)
InputInv ==
  /\ pc[Main] \in {"insert", "count"} => next <= Len(Tasks)
  /\ taskCount < next
  /\ dropped < next \/ (pc[Main] = "count" /\ dropped = next)

IInv == TypeOK /\ LockInv /\ CountInv /\ InputInv
=============================================================================
