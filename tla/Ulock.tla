-------------------------------- MODULE Ulock --------------------------------
(***************************************************************************)
(* User-level semaphores of lab9: ulock.c with block_sem() and signal_sem() *)
(* of proc.c.  A semaphore is a struct sem_t in the memory its process's    *)
(* threads share; down_sem() and up_sem() are system calls.  Two locks are  *)
(* involved: lk, a spinlock inside the semaphore, taken with interrupts on  *)
(* and so liable to be held by a thread that is not running, and            *)
(* ptable.lock, under which a thread goes to sleep.                         *)
(*                                                                          *)
(* Each step below is one access to shared memory.                          *)
(***************************************************************************)
EXTENDS Xv6Sched, Naturals

CONSTANTS
  Sems,       \* the semaphores of all processes
  NoSem,
  group,      \* group[s]: the process in whose memory s is
  Chan,       \* V2P(s): the address as a channel.  Addresses are virtual, so
              \* the semaphores of two processes may have the same one
  InitVal,    \* InitVal[s]: the argument of init_sem()
  MaxVal      \* bound: a program calls up_sem() only while val is below it

ASSUME UlockAssumption ==
  /\ NoSem \notin Sems
  /\ group \in [Sems -> Groups]
  /\ Chan \in [Sems -> Chans]
  /\ InitVal \in [Sems -> Nat]
  /\ MaxVal \in Nat

VARIABLES
  lk,         \* s->lk.locked
  val,        \* s->val
  pc,         \* the next step of t; "user" outside the system calls
  arg         \* the semaphore t has passed to its system call

ulockVars == <<lk, val, pc, arg>>
vars == <<state, chan, killed, cpu, ptlock, yielding, lk, val, pc, arg>>

PC == {"user",
       "down_lock", "down_test", "down_take", "down_unlock",
       "block_ptable", "block_unlock", "block_test", "block_release", "block_relock",
       "up_lock", "up_post", "up_ptable", "up_wake", "up_release", "up_unlock"}

TypeOK ==
  /\ SchedTypeOK
  /\ lk \in [Sems -> BOOLEAN]
  /\ val \in [Sems -> Nat]
  /\ pc \in [Threads -> PC]
  /\ arg \in [Threads -> Sems \cup {NoSem}]

(* init_sem() has run before any thread was created. *)
UlockInit ==
  /\ lk = [s \in Sems |-> FALSE]
  /\ val = InitVal
  /\ pc = [t \in Threads |-> "user"]
  /\ arg = [t \in Threads |-> NoSem]

Init == SchedInit /\ UlockInit

-----------------------------------------------------------------------------
At(t, l) == Executing(t) /\ pc[t] = l

Goto(t, l) == pc' = [pc EXCEPT ![t] = l]

(* acquire_lock(): the xchg that finds 0 and leaves 1. *)
AcquireLk(t) == ~lk[arg[t]] /\ lk' = [lk EXCEPT ![arg[t]] = TRUE]

(* release_lock() *)
ReleaseLk(t) == lk' = [lk EXCEPT ![arg[t]] = FALSE]

(* A system call begins: no thread that is marked killed gets past trap(). *)
Call(t, s, l) ==
  /\ At(t, "user")
  /\ ~killed[t]
  /\ group[s] = tgid[t]
  /\ Goto(t, l)
  /\ arg' = [arg EXCEPT ![t] = s]
  /\ UNCHANGED <<schedVars, lk, val>>

Return(t) == Goto(t, "user") /\ arg' = [arg EXCEPT ![t] = NoSem]

-----------------------------------------------------------------------------
(* down_sem(s) *)

CallDown(t, s) == Call(t, s, "down_lock")

(* Faulty variant: the value xchg returns is ignored. *)
DownLockAnyway(t) ==
  /\ At(t, "down_lock")
  /\ lk' = [lk EXCEPT ![arg[t]] = TRUE]
  /\ Goto(t, "down_test")
  /\ UNCHANGED <<schedVars, val, arg>>

DownLock(t) ==
  /\ At(t, "down_lock")
  /\ AcquireLk(t)
  /\ Goto(t, "down_test")
  /\ UNCHANGED <<schedVars, val, arg>>

DownTest(t) ==
  /\ At(t, "down_test")
  /\ Goto(t, IF val[arg[t]] = 0 THEN "block_ptable" ELSE "down_take")
  /\ UNCHANGED <<schedVars, lk, val, arg>>

DownTake(t) ==
  /\ At(t, "down_take")
  /\ val' = [val EXCEPT ![arg[t]] = @ - 1]
  /\ Goto(t, "down_unlock")
  /\ UNCHANGED <<schedVars, lk, arg>>

DownUnlock(t) ==
  /\ At(t, "down_unlock")
  /\ ReleaseLk(t)
  /\ Return(t)
  /\ UNCHANGED <<schedVars, val>>

-----------------------------------------------------------------------------
(* block_sem(s): trade lk for ptable.lock, sleep while val is 0, trade back. *)

BlockPtable(t) ==
  /\ At(t, "block_ptable")
  /\ AcquirePtable(t)
  /\ Goto(t, "block_unlock")
  /\ UNCHANGED <<state, chan, killed, cpu, yielding, lk, val, arg>>

BlockUnlock(t) ==
  /\ At(t, "block_unlock")
  /\ HoldsPtable(t)
  /\ ReleaseLk(t)
  /\ Goto(t, "block_test")
  /\ UNCHANGED <<schedVars, val, arg>>

(* The loop around sleep().  A thread comes back here when it has been woken *)
(* and switched to, with ptable.lock held again.                             *)
BlockSleep(t) ==
  /\ At(t, "block_test")
  /\ val[arg[t]] = 0
  /\ Sleep(t, Chan[arg[t]])
  /\ UNCHANGED ulockVars

BlockAwake(t) ==
  /\ At(t, "block_test")
  /\ HoldsPtable(t)
  /\ val[arg[t]] # 0
  /\ chan' = [chan EXCEPT ![t] = NoChan]
  /\ Goto(t, "block_release")
  /\ UNCHANGED <<state, killed, cpu, ptlock, yielding, lk, val, arg>>

(* Faulty variant: ptable.lock is not released before the thread spins on lk. *)
BlockReleaseLate(t) ==
  /\ At(t, "block_release")
  /\ Goto(t, "block_relock")
  /\ UNCHANGED <<schedVars, lk, val, arg>>

BlockRelease(t) ==
  /\ At(t, "block_release")
  /\ ReleasePtable(t)
  /\ Goto(t, "block_relock")
  /\ UNCHANGED <<state, chan, killed, cpu, yielding, lk, val, arg>>

BlockRelock(t) ==
  /\ At(t, "block_relock")
  /\ AcquireLk(t)
  /\ Goto(t, "down_test")
  /\ UNCHANGED <<schedVars, val, arg>>

-----------------------------------------------------------------------------
(* up_sem(s), with signal_sem() = wakeup(V2P(s)) between the two locks. *)

CallUp(t, s) == val[s] < MaxVal /\ Call(t, s, "up_lock")

UpLock(t) ==
  /\ At(t, "up_lock")
  /\ AcquireLk(t)
  /\ Goto(t, "up_post")
  /\ UNCHANGED <<schedVars, val, arg>>

UpPost(t) ==
  /\ At(t, "up_post")
  /\ val' = [val EXCEPT ![arg[t]] = @ + 1]
  /\ Goto(t, "up_ptable")
  /\ UNCHANGED <<schedVars, lk, arg>>

(* Faulty variant: nobody is signalled. *)
UpNoSignal(t) ==
  /\ At(t, "up_ptable")
  /\ Goto(t, "up_unlock")
  /\ UNCHANGED <<schedVars, lk, val, arg>>

UpPtable(t) ==
  /\ At(t, "up_ptable")
  /\ AcquirePtable(t)
  /\ Goto(t, "up_wake")
  /\ UNCHANGED <<state, chan, killed, cpu, yielding, lk, val, arg>>

UpWake(t) ==
  /\ At(t, "up_wake")
  /\ HoldsPtable(t)
  /\ Wakeup1(Chan[arg[t]])
  /\ Goto(t, "up_release")
  /\ UNCHANGED <<chan, killed, cpu, ptlock, yielding, lk, val, arg>>

UpRelease(t) ==
  /\ At(t, "up_release")
  /\ ReleasePtable(t)
  /\ Goto(t, "up_unlock")
  /\ UNCHANGED <<state, chan, killed, cpu, yielding, lk, val, arg>>

UpUnlock(t) ==
  /\ At(t, "up_unlock")
  /\ ReleaseLk(t)
  /\ Return(t)
  /\ UNCHANGED <<schedVars, val>>

-----------------------------------------------------------------------------
ExitCall(t) == At(t, "user") /\ Exit(t) /\ UNCHANGED ulockVars

(* The steps of a thread inside a call that wait for no lk. *)
CallStep(t) ==
  \/ DownTest(t) \/ DownTake(t) \/ DownUnlock(t)
  \/ BlockPtable(t) \/ BlockUnlock(t) \/ BlockSleep(t) \/ BlockAwake(t) \/ BlockRelease(t)
  \/ UpPost(t) \/ UpPtable(t) \/ UpWake(t) \/ UpRelease(t) \/ UpUnlock(t)

(* The steps that spin on lk. *)
TakeLk(t) == DownLock(t) \/ BlockRelock(t) \/ UpLock(t)

UserStep(t) ==
  \/ \E s \in Sems : CallDown(t, s) \/ CallUp(t, s)
  \/ ExitCall(t)

SchedStep ==
  /\ \/ \E c \in CPUs : SchedAcquire(c) \/ SchedRelease(c)
     \/ \E c \in CPUs, t \in Threads : Dispatch(c, t)
     \/ \E t \in Threads : Yield(t) \/ YieldReturn(t) \/ KillThread(t)
     \/ \E g \in Groups : KillLeader(g)
  /\ UNCHANGED ulockVars

Next ==
  \/ \E t \in Threads : CallStep(t) \/ TakeLk(t) \/ UserStep(t)
  \/ SchedStep

Spec == Init /\ [][Next]_vars

(* Fairness.  A CPU's scheduler keeps looping; its scan of the table is      *)
(* round-robin, so a thread that is RUNNABLE again and again is run; a       *)
(* thread that is switched to executes some instructions before the timer    *)
(* fires; the timer fires; xchg finds a free lk for one of the running       *)
(* spinners, for none of them in particular.                                 *)
Fairness ==
  /\ \A c \in CPUs : WF_vars(SchedAcquire(c) /\ UNCHANGED ulockVars)
                     /\ WF_vars(SchedRelease(c) /\ UNCHANGED ulockVars)
  /\ \A t \in Threads :
       /\ SF_vars((\E c \in CPUs : Dispatch(c, t)) /\ UNCHANGED ulockVars)
       /\ SF_vars(CallStep(t))
       /\ SF_vars(Yield(t) /\ UNCHANGED ulockVars)
       /\ WF_vars(YieldReturn(t) /\ UNCHANGED ulockVars)
  /\ \A s \in Sems : SF_vars(\E t \in Threads : arg[t] = s /\ TakeLk(t))

FairSpec == Spec /\ Fairness

-----------------------------------------------------------------------------
(* Inside t's use of lk: from a successful xchg to release_lock(). *)
HasLk(t) == pc[t] \in {"down_test", "down_take", "down_unlock", "block_ptable",
                       "block_unlock", "up_post", "up_ptable", "up_wake",
                       "up_release", "up_unlock"}

(* lk excludes: at most one thread is between acquire_lock() and             *)
(* release_lock() of a semaphore, block_sem()'s trade of locks included, and *)
(* the word is 1 exactly then.                                               *)
LkExclusion ==
  \A s \in Sems :
    /\ lk[s] <=> \E t \in Threads : arg[t] = s /\ HasLk(t)
    /\ \A t, u \in Threads : arg[t] = s /\ HasLk(t) /\ arg[u] = s /\ HasLk(u) => t = u

(* No wakeup is lost: a thread asleep in down_sem() on a semaphore whose     *)
(* value is positive is about to be woken by a thread inside up_sem().  It   *)
(* is why block_sem() tests val again under ptable.lock before it sleeps,    *)
(* and why up_sem() increments before it calls signal_sem().                 *)
NoLostWakeup ==
  \A t \in Threads :
    state[t] = "SLEEPING" /\ val[arg[t]] > 0 =>
      \E u \in Threads : arg[u] = arg[t] /\ pc[u] \in {"up_ptable", "up_wake"}

(* No thread sleeps or is gone with a lock in its hands: when it is not on a *)
(* CPU it does not hold lk unless the timer took the CPU from it, and a CPU  *)
(* that holds ptable.lock never spins on lk, the deadlock block_sem()'s last *)
(* comment tells of.                                                         *)
LockOrder ==
  \A t \in Threads :
    /\ state[t] \in {"SLEEPING", "ZOMBIE"} => ~HasLk(t)
    /\ HoldsPtable(t) /\ t \notin yielding =>
         pc[t] \in {"block_unlock", "block_test", "block_release", "up_wake", "up_release"}

-----------------------------------------------------------------------------
(* The inductive invariant the proofs rest on. *)

(* The scheduler's bookkeeping: cpu[] and p->state agree. *)
RunInv ==
  /\ \A c \in CPUs : cpu[c] # NoThread => state[cpu[c]] = "RUNNING"
  /\ \A c, d \in CPUs : cpu[c] = cpu[d] /\ cpu[c] # NoThread => c = d
  /\ \A t \in Threads : state[t] = "RUNNING" => Running(t)

(* The steps a thread takes with ptable.lock held. *)
PtablePC == {"block_unlock", "block_test", "block_release", "up_wake", "up_release"}

(* A thread has a semaphore in hand exactly inside its calls. *)
ArgInv == \A t \in Threads : arg[t] = NoSem <=> pc[t] = "user"

(* Where a thread can be when it is not running, and when it has ptable.lock. *)
PcInv ==
  \A t \in Threads :
    /\ t \in yielding =>
         /\ pc[t] \notin PtablePC
         /\ state[t] \in {"RUNNABLE", "RUNNING"}
         /\ Running(t) => HoldsPtable(t)
    /\ t \notin yielding =>
         /\ state[t] = "RUNNING" => (HoldsPtable(t) <=> pc[t] \in PtablePC)
         /\ state[t] \in {"RUNNABLE", "SLEEPING"} => pc[t] = "block_test"
         /\ state[t] \in {"ZOMBIE", "UNUSED"} => pc[t] = "user"
    /\ state[t] = "SLEEPING" => chan[t] = Chan[arg[t]]

(* What the test of val has established still holds at the decrement. *)
TakeInv == \A t \in Threads : pc[t] = "down_take" => val[arg[t]] > 0

IInv == TypeOK /\ RunInv /\ ArgInv /\ PcInv /\ LkExclusion /\ TakeInv /\ NoLostWakeup

-----------------------------------------------------------------------------
(* The refinement: the counter is val, and an operation takes effect when it *)
(* changes val.                                                              *)
opOf == [t \in Threads |->
  CASE pc[t] = "user" -> "none"
    [] pc[t] \in {"down_unlock", "up_ptable", "up_wake", "up_release", "up_unlock"} -> "done"
    [] pc[t] \in {"up_lock", "up_post"} -> "up"
    [] OTHER -> "down"]

Abstract == INSTANCE Semaphore WITH count <- val, op <- opOf, sem <- arg

(* down_sem() and up_sem() are atomic operations of a counting semaphore     *)
(* that never goes below 0, whatever wakes the sleepers and whoever is       *)
(* killed.                                                                   *)
ImplementsSemaphore == Abstract!SemSafety

(* ... and they make progress: a semaphore with a positive value serves one  *)
(* of the threads in down_sem(), even with a single CPU on which spinners    *)
(* can take the place of lk's holder.                                        *)
SemaphoreProgress == Abstract!SemFairness
=============================================================================
