-------------------------------- MODULE TcSem --------------------------------
(***************************************************************************)
(* The lab's own test of its semaphores, tc-sem.c: main() creates a thread *)
(* for each rank, every thread adds 1 to the shared VAR a number of times  *)
(* between down_sem() and up_sem(), and main() joins them all and prints    *)
(* VAR.  It composes the semaphores with clone(), exit() and join().       *)
(***************************************************************************)
EXTENDS Ulock, FiniteSets

CONSTANTS
  Main,       \* the thread that runs main(), leader of its group
  mutex,      \* the semaphore `sem' of the program
  Iters       \* the bound of the loop in increment(), 1000 in the code

Workers == Threads \ {Main}

ASSUME TcSemAssumption ==
  /\ IsFiniteSet(Threads)
  /\ Main \in Threads
  /\ mutex \in Sems
  /\ group[mutex] = tgid[Main]
  /\ \A t \in Workers : tgid[t] = tgid[Main]
  /\ InitVal[mutex] = 1
  /\ Iters \in Nat

VARIABLES
  VAR,        \* the shared counter
  reg,        \* reg[t]: what t has loaded from VAR
  left,       \* left[t]: iterations t still has to begin or finish
  at,         \* the place of each thread in the program
  joined      \* how many of main()'s calls of join() have returned

tcVars == <<VAR, reg, left, at, joined>>
allVars == <<vars, tcVars>>

TcTypeOK ==
  /\ TypeOK
  /\ VAR \in Nat
  /\ reg \in [Workers -> Nat]
  /\ left \in [Workers -> 0..Iters]
  /\ at \in [Threads -> {"create", "join", "join_scan", "join_release", "done",
                         "loop", "load", "store", "up", "exited", "none"}]
  /\ joined \in 0..Cardinality(Workers)

(* main() runs and has called init_sem(&sem, 1); no thread exists yet. *)
TcInit ==
  /\ UlockInit
  /\ state = [t \in Threads |-> IF t = Main THEN "RUNNABLE" ELSE "UNUSED"]
  /\ chan = [t \in Threads |-> NoChan]
  /\ killed = [t \in Threads |-> FALSE]
  /\ cpu = [c \in CPUs |-> NoThread]
  /\ ptlock = NoCpu
  /\ yielding = {Main}
  /\ VAR = 0
  /\ reg = [t \in Workers |-> 0]
  /\ left = [t \in Workers |-> Iters]
  /\ at = [t \in Threads |-> IF t = Main THEN "create" ELSE "loop"]
  /\ joined = 0

-----------------------------------------------------------------------------
(* increment(): VAR++ is a load and a store. *)

InProgram(t, l) == At(t, "user") /\ at[t] = l

Move(t, l) == at' = [at EXCEPT ![t] = l]

IncrDown(t) ==
  /\ InProgram(t, "loop")
  /\ left[t] > 0
  /\ CallDown(t, mutex)
  /\ Move(t, "load")
  /\ UNCHANGED <<VAR, reg, left, joined>>

IncrLoad(t) ==
  /\ InProgram(t, "load")
  /\ reg' = [reg EXCEPT ![t] = VAR]
  /\ Move(t, "store")
  /\ UNCHANGED <<vars, VAR, left, joined>>

IncrStore(t) ==
  /\ InProgram(t, "store")
  /\ VAR' = reg[t] + 1
  /\ Move(t, "up")
  /\ UNCHANGED <<vars, reg, left, joined>>

IncrUp(t) ==
  /\ InProgram(t, "up")
  /\ CallUp(t, mutex)
  /\ left' = [left EXCEPT ![t] = @ - 1]
  /\ Move(t, "loop")
  /\ UNCHANGED <<VAR, reg, joined>>

IncrExit(t) ==
  /\ InProgram(t, "loop")
  /\ left[t] = 0
  /\ ExitCall(t)
  /\ Move(t, "exited")
  /\ UNCHANGED <<VAR, reg, left, joined>>

-----------------------------------------------------------------------------
(* main() *)

MainCreate(t) ==
  /\ InProgram(Main, "create")
  /\ at[t] = "loop"
  /\ Clone(Main, t)
  /\ UNCHANGED <<ulockVars, tcVars>>

(* clone() finds no slot or no memory; main() does not look at the result.   *)
MainCreateFail(t) ==
  /\ InProgram(Main, "create")
  /\ at[t] = "loop"
  /\ state[t] = "UNUSED"
  /\ Move(t, "none")
  /\ UNCHANGED <<vars, VAR, reg, left, joined>>

MainCreated ==
  /\ InProgram(Main, "create")
  /\ \A t \in Workers : state[t] # "UNUSED" \/ at[t] = "none"
  /\ Move(Main, "join")
  /\ UNCHANGED <<vars, VAR, reg, left, joined>>

(* join(): take ptable.lock, reap a thread that has exited, or sleep until   *)
(* one does if there is any thread at all.                                   *)
JoinLock ==
  /\ InProgram(Main, "join")
  /\ joined < Cardinality(Workers)
  /\ AcquirePtable(Main)
  /\ Move(Main, "join_scan")
  /\ UNCHANGED <<state, chan, killed, cpu, yielding, ulockVars, VAR, reg, left, joined>>

(* Faulty variant: the state of the thread is not looked at. *)
JoinReapAny(t) ==
  /\ InProgram(Main, "join_scan")
  /\ HoldsPtable(Main)
  /\ state[t] # "UNUSED"
  /\ state' = [state EXCEPT ![t] = "UNUSED"]
  /\ killed' = [killed EXCEPT ![t] = FALSE]
  /\ chan' = [chan EXCEPT ![Main] = NoChan]
  /\ Move(Main, "join_release")
  /\ UNCHANGED <<cpu, ptlock, yielding, ulockVars, VAR, reg, left, joined>>

JoinReap(t) ==
  /\ InProgram(Main, "join_scan")
  /\ HoldsPtable(Main)
  /\ state[t] = "ZOMBIE"
  /\ state' = [state EXCEPT ![t] = "UNUSED"]
  /\ killed' = [killed EXCEPT ![t] = FALSE]
  /\ chan' = [chan EXCEPT ![Main] = NoChan]
  /\ Move(Main, "join_release")
  /\ UNCHANGED <<cpu, ptlock, yielding, ulockVars, VAR, reg, left, joined>>

JoinNoThreads ==
  /\ InProgram(Main, "join_scan")
  /\ HoldsPtable(Main)
  /\ \A t \in Workers : state[t] = "UNUSED"
  /\ chan' = [chan EXCEPT ![Main] = NoChan]
  /\ Move(Main, "join_release")
  /\ UNCHANGED <<state, killed, cpu, ptlock, yielding, ulockVars, VAR, reg, left, joined>>

JoinSleep ==
  /\ InProgram(Main, "join_scan")
  /\ \A t \in Workers : state[t] # "ZOMBIE"
  /\ \E t \in Workers : state[t] # "UNUSED"
  /\ Sleep(Main, leaderChan[tgid[Main]])
  /\ UNCHANGED <<ulockVars, tcVars>>

JoinRelease ==
  /\ InProgram(Main, "join_release")
  /\ ReleasePtable(Main)
  /\ joined' = joined + 1
  /\ Move(Main, "join")
  /\ UNCHANGED <<state, chan, killed, cpu, yielding, ulockVars, VAR, reg, left>>

(* All are joined: main() prints VAR. *)
MainDone ==
  /\ InProgram(Main, "join")
  /\ joined = Cardinality(Workers)
  /\ Move(Main, "done")
  /\ UNCHANGED <<vars, VAR, reg, left, joined>>

-----------------------------------------------------------------------------
WorkerStep(t) ==
  \/ IncrDown(t) \/ IncrLoad(t) \/ IncrStore(t) \/ IncrUp(t) \/ IncrExit(t)
  \/ CallStep(t) /\ UNCHANGED tcVars

MainStep ==
  \/ \E t \in Workers : MainCreate(t) \/ MainCreateFail(t) \/ JoinReap(t)
  \/ MainCreated \/ JoinLock \/ JoinNoThreads \/ JoinSleep \/ JoinRelease \/ MainDone

(* The scheduler, and the timer; nobody is killed. *)
TcSchedStep ==
  /\ \/ \E c \in CPUs : SchedAcquire(c) \/ SchedRelease(c)
     \/ \E c \in CPUs, t \in Threads : Dispatch(c, t)
     \/ \E t \in Threads : Yield(t) \/ YieldReturn(t)
  /\ UNCHANGED <<ulockVars, tcVars>>

TcNext ==
  \/ \E t \in Workers : WorkerStep(t) \/ (TakeLk(t) /\ UNCHANGED tcVars)
  \/ MainStep
  \/ TcSchedStep

TcSpec == TcInit /\ [][TcNext]_allVars

(* The fairness of Ulock, with the steps of the programs fair too. *)
TcFairness ==
  /\ \A c \in CPUs :
       /\ WF_allVars(SchedAcquire(c) /\ UNCHANGED <<ulockVars, tcVars>>)
       /\ WF_allVars(SchedRelease(c) /\ UNCHANGED <<ulockVars, tcVars>>)
  /\ \A t \in Threads :
       /\ SF_allVars((\E c \in CPUs : Dispatch(c, t)) /\ UNCHANGED <<ulockVars, tcVars>>)
       /\ SF_allVars(Yield(t) /\ UNCHANGED <<ulockVars, tcVars>>)
       /\ WF_allVars(YieldReturn(t) /\ UNCHANGED <<ulockVars, tcVars>>)
  /\ \A t \in Workers : SF_allVars(WorkerStep(t))
  /\ SF_allVars(MainStep)
  /\ SF_allVars((\E t \in Workers : TakeLk(t)) /\ UNCHANGED tcVars)

TcFairSpec == TcSpec /\ TcFairness

-----------------------------------------------------------------------------
(* The semaphore protects VAR: the one thread that is past down_sem() and    *)
(* not yet past up_sem() has the token, and when none has it val is 1; and   *)
(* everything keeps its type.                                               *)
HasToken(t) ==
  \/ pc[t] = "down_unlock"
  \/ pc[t] = "user" /\ at[t] \in {"load", "store", "up"}
  \/ pc[t] \in {"up_lock", "up_post"}

OneToken ==
  /\ TcTypeOK
  /\ val[mutex] >= 0
  /\ val[mutex] + Cardinality({t \in Workers : HasToken(t)}) = 1

(* No increment is lost: when main() prints VAR after its joins it is the    *)
(* number of iterations of all the threads it could make, the value tc-sem.c *)
(* is there to show, and every one of them has been joined.                  *)
FinalValue ==
  at[Main] = "done" =>
    /\ VAR = Cardinality({t \in Workers : at[t] = "exited"}) * Iters
    /\ \A t \in Workers : at[t] \in {"exited", "none"} /\ state[t] = "UNUSED"

(* The program ends: no thread starves, deadlocks or misses its wakeup, and  *)
(* join() returns for each thread main() has tried to make.                  *)
Terminates == <>(at[Main] = "done")

-----------------------------------------------------------------------------
(* The inductive invariant *)

(* The steps of up_sem(). *)
UpPC == {"up_lock", "up_post", "up_ptable", "up_wake", "up_release", "up_unlock"}

(* Where a worker is in the program, in its system call and in its life. *)
PlaceInv ==
  /\ pc[Main] = "user"
  /\ at[Main] \in {"create", "join", "join_scan", "join_release", "done"}
  /\ \A t \in Workers :
       /\ arg[t] \in {NoSem, mutex}
       /\ at[t] \in {"loop", "load", "store", "up", "exited", "none"}
       /\ pc[t] # "user" => at[t] = IF pc[t] \in UpPC THEN "loop" ELSE "load"
       /\ state[t] \in {"UNUSED", "ZOMBIE"} => pc[t] = "user" /\ at[t] \in {"loop", "exited", "none"}
       /\ state[t] = "UNUSED" /\ at[t] = "loop" => at[Main] = "create" /\ left[t] = Iters
       /\ state[t] = "ZOMBIE" => at[t] = "exited"
       /\ at[t] = "exited" => state[t] \in {"UNUSED", "ZOMBIE"} /\ left[t] = 0
       /\ at[t] = "none" => state[t] = "UNUSED" /\ left[t] = Iters
       /\ at[t] \in {"load", "store", "up"} => left[t] > 0

(* The semaphore is free, or one worker has it; what that one has loaded     *)
(* from VAR is still true when it stores.                                    *)
TokenInv ==
  /\ \/ val[mutex] = 1 /\ \A t \in Workers : ~HasToken(t)
     \/ val[mutex] = 0 /\ \E t \in Workers : \A u \in Workers : HasToken(u) <=> u = t
  /\ \A t \in Workers : at[t] = "store" => reg[t] = VAR

(* The iterations t has done, and so the values VAR has gone through. *)
Increments(t) == Iters - left[t] + IF at[t] = "up" THEN 1 ELSE 0

VarInv == VAR = Cardinality({e \in Workers \X (1..Iters) : e[2] <= Increments(e[1])})

(* join() is called no more often than there are threads that can be left,   *)
(* and each call that returns leaves a thread less or finds none.            *)
JoinInv ==
  /\ at[Main] \in {"join_scan", "join_release"} => joined < Cardinality(Workers)
  /\ at[Main] = "done" => joined = Cardinality(Workers)
  /\ at[Main] = "create" => joined = 0
  /\ at[Main] # "create" =>
       Cardinality({t \in Workers : state[t] # "UNUSED"})
         + joined + (IF at[Main] = "join_release" THEN 1 ELSE 0) <= Cardinality(Workers)

(* Of the invariant of Ulock, what does not depend on what a thread does     *)
(* outside the calls of the semaphores.                                      *)
TcIInv ==
  /\ TcTypeOK /\ RunInv /\ ArgInv /\ LkExclusion /\ TakeInv
  /\ PlaceInv /\ TokenInv /\ VarInv /\ JoinInv
=============================================================================
