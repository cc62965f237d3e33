------------------------------ MODULE TaskQueue ------------------------------
(***************************************************************************)
(* lab7's pool of workers, 200050157_lab7/taskqueue.c: main() appends the   *)
(* tasks of the input to arr[], the workers take them in order and add     *)
(* them into global statistics.  The workers share read_lock; main() takes  *)
(* no lock when it changes write_index and still_writing, so each test of   *)
(* those is a step of its own.                                             *)
(***************************************************************************)
EXTENDS Pthreads, Integers, Sequences

CONSTANTS
  Main,
  Tasks       \* the input: the numbers of its 'p' lines in order.  A 'w' line
              \* only delays main()

Workers == Threads \ {Main}

ASSUME TaskQueueAssumption ==
  /\ Main \in Threads
  /\ Tasks \in Seq(Nat \ {0})
  /\ Mutexes = {"read_lock", "data"}
  /\ Conds = {"work_present"}

VARIABLES
  write_index, read_index, still_writing,
  stats,      \* sum, odd, even, min, max
  pc,
  idx,        \* idx[t]: tmp_read_index of worker t
  reg,        \* reg[t]: the statistics as t has read them
  performed   \* performed[i]: how many times task i has been added in

vars == <<ptVars, write_index, read_index, still_writing, stats, pc, idx, reg, performed>>
queueVars == <<write_index, read_index, still_writing>>

INT_MAX == 1000
INT_MIN == -1000

NoStats == [sum |-> 0, odd |-> 0, even |-> 0, min |-> INT_MAX, max |-> INT_MIN]

(* What processtask(n) makes of the statistics st. *)
Add(st, n) ==
  [sum |-> st.sum + n,
   odd |-> IF n % 2 = 1 THEN st.odd + 1 ELSE st.odd,
   even |-> IF n % 2 = 1 THEN st.even ELSE st.even + 1,
   min |-> IF n < st.min THEN n ELSE st.min,
   max |-> IF n > st.max THEN n ELSE st.max]

TypeOK ==
  /\ PtTypeOK
  /\ write_index \in 0..Len(Tasks)
  /\ read_index \in 0..write_index
  /\ still_writing \in BOOLEAN
  /\ stats.sum \in Nat
  /\ pc \in [Threads -> {"next", "signal", "stop", "broadcast", "join", "printed",
                         "loop", "lock", "test_index", "test_writing", "wait", "waiting", "take",
                         "process", "load", "store", "unlock", "exited"}]
  /\ idx \in [Workers -> 0..Len(Tasks)]
  /\ performed \in [1..Len(Tasks) -> Nat]

Init ==
  /\ PtInit
  /\ write_index = 0
  /\ read_index = 0
  /\ still_writing = TRUE
  /\ stats = NoStats
  /\ pc = [t \in Threads |-> IF t = Main THEN "next" ELSE "loop"]
  /\ idx = [t \in Workers |-> 0]
  /\ reg = [t \in Workers |-> NoStats]
  /\ performed = [i \in 1..Len(Tasks) |-> 0]

Goto(t, l) == pc' = [pc EXCEPT ![t] = l]

-----------------------------------------------------------------------------
(* main() *)

MainWrite ==
  /\ pc[Main] = "next"
  /\ write_index < Len(Tasks)
  /\ write_index' = write_index + 1
  /\ Goto(Main, "signal")
  /\ UNCHANGED <<ptVars, read_index, still_writing, stats, idx, reg, performed>>

MainSignal ==
  /\ pc[Main] = "signal"
  /\ Signal("work_present")
  /\ Goto(Main, "next")
  /\ UNCHANGED <<owner, queueVars, stats, idx, reg, performed>>

MainStop ==
  /\ pc[Main] = "next"
  /\ write_index = Len(Tasks)
  /\ still_writing' = FALSE
  /\ Goto(Main, "broadcast")
  /\ UNCHANGED <<ptVars, write_index, read_index, stats, idx, reg, performed>>

MainBroadcast ==
  /\ pc[Main] = "broadcast"
  /\ Broadcast("work_present")
  /\ Goto(Main, "join")
  /\ UNCHANGED <<owner, queueVars, stats, idx, reg, performed>>

(* All workers are joined: print. *)
MainJoin ==
  /\ pc[Main] = "join"
  /\ \A t \in Workers : pc[t] = "exited"
  /\ Goto(Main, "printed")
  /\ UNCHANGED <<ptVars, queueVars, stats, idx, reg, performed>>

-----------------------------------------------------------------------------
(* do_work() *)

Loop(t) ==
  /\ pc[t] = "loop"
  /\ Goto(t, IF read_index <= write_index \/ still_writing THEN "lock" ELSE "exited")
  /\ UNCHANGED <<ptVars, queueVars, stats, idx, reg, performed>>

(* Line 64, and the return from pthread_cond_wait(). *)
LockQueue(t) ==
  /\ pc[t] \in {"lock", "waiting"}
  /\ Lock(t, "read_lock")
  /\ Goto(t, "test_index")
  /\ UNCHANGED <<waiting, queueVars, stats, idx, reg, performed>>

TestIndex(t) ==
  /\ pc[t] = "test_index"
  /\ Goto(t, IF read_index = write_index THEN "test_writing" ELSE "take")
  /\ UNCHANGED <<ptVars, queueVars, stats, idx, reg, performed>>

(* Faulty variant: an empty queue is taken for the end of the input. *)
TestWritingNot(t) ==
  /\ pc[t] = "test_writing"
  /\ Goto(t, "take")
  /\ UNCHANGED <<ptVars, queueVars, stats, idx, reg, performed>>

TestWriting(t) ==
  /\ pc[t] = "test_writing"
  /\ \/ /\ still_writing
        /\ Goto(t, "wait")
     \/ /\ ~still_writing
        /\ Goto(t, "take")
  /\ UNCHANGED <<ptVars, queueVars, stats, idx, reg, performed>>

Wait(t) ==
  /\ pc[t] = "wait"
  /\ BeginWait(t, "work_present", "read_lock")
  /\ Goto(t, "waiting")
  /\ UNCHANGED <<queueVars, stats, idx, reg, performed>>

Take(t) ==
  /\ pc[t] = "take"
  /\ read_index < write_index
  /\ read_index' = read_index + 1
  /\ idx' = [idx EXCEPT ![t] = read_index']
  /\ Unlock("read_lock")
  /\ Goto(t, "process")
  /\ UNCHANGED <<waiting, write_index, still_writing, stats, reg, performed>>

Leave(t) ==
  /\ pc[t] = "take"
  /\ read_index >= write_index
  /\ Unlock("read_lock")
  /\ Goto(t, "exited")
  /\ UNCHANGED <<waiting, queueVars, stats, idx, reg, performed>>

-----------------------------------------------------------------------------
(* processtask(): the statistics are read and written under the lock data.  *)

(* Faulty variant: without the lock. *)
ProcessUnlocked(t) ==
  /\ pc[t] = "process"
  /\ Goto(t, "load")
  /\ UNCHANGED <<ptVars, queueVars, stats, idx, reg, performed>>

Process(t) ==
  /\ pc[t] = "process"
  /\ Lock(t, "data")
  /\ Goto(t, "load")
  /\ UNCHANGED <<waiting, queueVars, stats, idx, reg, performed>>

LoadStats(t) ==
  /\ pc[t] = "load"
  /\ reg' = [reg EXCEPT ![t] = stats]
  /\ Goto(t, "store")
  /\ UNCHANGED <<ptVars, queueVars, stats, idx, performed>>

StoreStats(t) ==
  /\ pc[t] = "store"
  /\ stats' = Add(reg[t], Tasks[idx[t]])
  /\ performed' = [performed EXCEPT ![idx[t]] = @ + 1]
  /\ Goto(t, "unlock")
  /\ UNCHANGED <<ptVars, queueVars, idx, reg>>

UnlockStats(t) ==
  /\ pc[t] = "unlock"
  /\ Unlock("data")
  /\ Goto(t, "loop")
  /\ UNCHANGED <<waiting, queueVars, stats, idx, reg, performed>>

-----------------------------------------------------------------------------
MainStep == MainWrite \/ MainSignal \/ MainStop \/ MainBroadcast \/ MainJoin

WorkerStep(t) ==
  \/ Loop(t) \/ LockQueue(t) \/ TestIndex(t) \/ TestWriting(t) \/ Wait(t) \/ Take(t)
  \/ Leave(t) \/ Process(t) \/ LoadStats(t) \/ StoreStats(t) \/ UnlockStats(t)

Spurious(t) ==
  /\ SpuriousWakeup(t)
  /\ UNCHANGED <<queueVars, stats, pc, idx, reg, performed>>

Next == MainStep \/ \E t \in Workers : WorkerStep(t) \/ Spurious(t)

Spec == Init /\ [][Next]_vars

(* Every thread runs, and a mutex that is unlocked again and again is        *)
(* obtained; a wait need not end without a signal.                           *)
Fairness == WF_vars(MainStep) /\ \A t \in Workers : SF_vars(WorkerStep(t))

FairSpec == Spec /\ Fairness

-----------------------------------------------------------------------------
(* A task is given to one worker and added in at most once, although its     *)
(* index is read under read_lock and used after its release; and none is     *)
(* left out at the end because a worker saw still_writing and write_index    *)
(* change between its two tests, which main() does without the lock.         *)
PerformedOnce ==
  /\ \A i \in DOMAIN performed : performed[i] <= 1
  /\ \A t, u \in Workers :
       pc[t] \in {"process", "load", "store"} /\ pc[u] \in {"process", "load", "store"}
         /\ idx[t] = idx[u] => t = u
  /\ pc[Main] = "printed" => \A i \in DOMAIN performed : performed[i] = 1

(* The statistics of the first n tasks, added in order by one thread. *)
Sequential[n \in 0..Len(Tasks)] ==
  IF n = 0 THEN NoStats ELSE Add(Sequential[n - 1], Tasks[n])

(* What the program prints is what a single thread would have computed: no   *)
(* update of the statistics is lost.                                         *)
PrintsTotal == pc[Main] = "printed" => stats = Sequential[Len(Tasks)]

(* Lines 123-125: a signal "will be lost if no one's waiting for work but    *)
(* the while loop in do_work() ensures that work is performed".              *)
AllPerformed == <>(\A i \in DOMAIN performed : performed[i] = 1)

-----------------------------------------------------------------------------
(* The inductive invariant *)

InHand == {"process", "load", "store"}

(* Who is where, and which locks that means. *)
LockInv ==
  /\ pc[Main] \in {"next", "signal", "broadcast", "join", "printed"}
  /\ \A t \in Workers :
       /\ pc[t] \in {"loop", "lock", "test_index", "test_writing", "wait", "waiting", "take",
                     "process", "load", "store", "unlock", "exited"}
       /\ owner["read_lock"] = t <=> pc[t] \in {"test_index", "test_writing", "wait", "take"}
       /\ owner["data"] = t <=> pc[t] \in {"load", "store", "unlock"}

(* The task a worker has taken is its own until it has been added in. *)
TaskInv ==
  /\ \A t \in Workers : pc[t] \in InHand => idx[t] \in 1..read_index
  /\ \A t, u \in Workers : pc[t] \in InHand /\ pc[u] \in InHand /\ idx[t] = idx[u] => t = u
  /\ \A i \in DOMAIN performed :
       performed[i] = IF i <= read_index /\ \A t \in Workers : ~(pc[t] \in InHand /\ idx[t] = i)
                        THEN 1 ELSE 0
  /\ \A t \in Workers : reg[t].sum \in Nat

(* A worker that finds no task leaves only after the last one has been appended. *)
EndInv ==
  /\ still_writing <=> pc[Main] \in {"next", "signal"}
  /\ ~still_writing => write_index = Len(Tasks)
  /\ \A t \in Workers : pc[t] = "take" /\ read_index = write_index => ~still_writing
  /\ \A t \in Workers : pc[t] = "exited" => ~still_writing /\ read_index = write_index
  /\ pc[Main] = "printed" => \A t \in Workers : pc[t] = "exited"

IInv == TypeOK /\ LockInv /\ TaskInv /\ EndInv
=============================================================================
