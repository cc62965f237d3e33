----------------------------- MODULE UlockProofs -----------------------------
(***************************************************************************)
(* What is proved of the semaphores of lab9, for any number of threads,      *)
(* CPUs, processes and semaphores.  IInv of Ulock is inductive: one lemma    *)
(* for each of its conjuncts says that a step keeps it, one step of the      *)
(* proof for each action that could break it.  The second half is about      *)
(* tc-sem.c, for any number of threads and of iterations.                    *)
(***************************************************************************)
EXTENDS TcSem, FiniteSetTheorems, TLAPS

-----------------------------------------------------------------------------
(* What needs no fact of where a thread sleeps. *)
Core == TypeOK /\ RunInv /\ ArgInv /\ LkExclusion /\ TakeInv

(* Each step keeps the types; val stays a natural number because of TakeInv. *)
LEMMA TypeOKStep == ASSUME Core, [Next]_vars PROVE TypeOK'
<1>. USE SchedAssumption, UlockAssumption DEF Core, At, Executing, Running,
     HoldsPtable, Goto, ulockVars, schedVars, RunInv, ArgInv,
     TakeInv, TypeOK, SchedTypeOK, PC, ProcState
<1>1. ASSUME NEW t \in Threads, DownTest(t) PROVE TypeOK'
  BY <1>1 DEF DownTest
<1>2. ASSUME NEW t \in Threads, DownTake(t) PROVE TypeOK'
  BY <1>2 DEF DownTake
<1>3. ASSUME NEW t \in Threads, DownUnlock(t) PROVE TypeOK'
  BY <1>3 DEF DownUnlock, ReleaseLk, Return
<1>4. ASSUME NEW t \in Threads, BlockPtable(t) PROVE TypeOK'
  BY <1>4 DEF BlockPtable, AcquirePtable
<1>5. ASSUME NEW t \in Threads, BlockUnlock(t) PROVE TypeOK'
  BY <1>5 DEF BlockUnlock, ReleaseLk
<1>6. ASSUME NEW t \in Threads, BlockSleep(t) PROVE TypeOK'
  BY <1>6 DEF BlockSleep, Sleep, Sched
<1>7. ASSUME NEW t \in Threads, BlockAwake(t) PROVE TypeOK'
  BY <1>7 DEF BlockAwake
<1>8. ASSUME NEW t \in Threads, BlockRelease(t) PROVE TypeOK'
  BY <1>8 DEF BlockRelease, ReleasePtable
<1>9. ASSUME NEW t \in Threads, UpPost(t) PROVE TypeOK'
  BY <1>9 DEF UpPost
<1>10. ASSUME NEW t \in Threads, UpPtable(t) PROVE TypeOK'
  BY <1>10 DEF UpPtable, AcquirePtable
<1>11. ASSUME NEW t \in Threads, UpWake(t) PROVE TypeOK'
  BY <1>11 DEF UpWake, Wakeup1
<1>12. ASSUME NEW t \in Threads, UpRelease(t) PROVE TypeOK'
  BY <1>12 DEF UpRelease, ReleasePtable
<1>13. ASSUME NEW t \in Threads, UpUnlock(t) PROVE TypeOK'
  BY <1>13 DEF UpUnlock, ReleaseLk, Return
<1>14. ASSUME NEW t \in Threads, DownLock(t) PROVE TypeOK'
  BY <1>14 DEF DownLock, AcquireLk
<1>15. ASSUME NEW t \in Threads, BlockRelock(t) PROVE TypeOK'
  BY <1>15 DEF BlockRelock, AcquireLk
<1>16. ASSUME NEW t \in Threads, UpLock(t) PROVE TypeOK'
  BY <1>16 DEF UpLock, AcquireLk
<1>17. ASSUME NEW t \in Threads, NEW s \in Sems, CallDown(t, s) PROVE TypeOK'
  BY <1>17 DEF CallDown, Call
<1>18. ASSUME NEW t \in Threads, NEW s \in Sems, CallUp(t, s) PROVE TypeOK'
  BY <1>18 DEF CallUp, Call
<1>19. ASSUME NEW t \in Threads, ExitCall(t) PROVE TypeOK'
  BY <1>19 DEF ExitCall, Exit, AcquirePtable, Sched
<1>20. ASSUME NEW c \in CPUs, SchedAcquire(c), UNCHANGED ulockVars PROVE
            TypeOK'
  BY <1>20 DEF SchedAcquire
<1>21. ASSUME NEW c \in CPUs, SchedRelease(c), UNCHANGED ulockVars PROVE
            TypeOK'
  BY <1>21 DEF SchedRelease
<1>22. ASSUME NEW c \in CPUs, NEW t \in Threads, Dispatch(c, t), UNCHANGED
            ulockVars PROVE TypeOK'
  BY <1>22 DEF Dispatch
<1>23. ASSUME NEW t \in Threads, Yield(t), UNCHANGED ulockVars PROVE TypeOK'
  BY <1>23 DEF Yield, AcquirePtable, Sched
<1>24. ASSUME NEW t \in Threads, YieldReturn(t), UNCHANGED ulockVars PROVE
            TypeOK'
  BY <1>24 DEF YieldReturn, ReleasePtable
<1>25. ASSUME NEW t \in Threads, KillThread(t), UNCHANGED ulockVars PROVE
            TypeOK'
  BY <1>25 DEF KillThread
<1>26. ASSUME NEW g \in Groups, KillLeader(g), UNCHANGED ulockVars PROVE
            TypeOK'
  BY <1>26 DEF KillLeader
<1>27. ASSUME UNCHANGED vars PROVE TypeOK'
  BY <1>27 DEF vars
<1>. QED
  BY <1>1, <1>2, <1>3, <1>4, <1>5, <1>6, <1>7, <1>8, <1>9, <1>10, <1>11,
     <1>12, <1>13, <1>14, <1>15, <1>16, <1>17, <1>18, <1>19, <1>20, <1>21,
     <1>22, <1>23, <1>24, <1>25, <1>26, <1>27 DEF Next, CallStep, TakeLk,
     UserStep, SchedStep

(* cpu[] and p->state go on agreeing: a thread leaves a CPU and RUNNING in one *)
(* step, and no wakeup or kill touches a running thread.                     *)
LEMMA RunInvStep == ASSUME Core, [Next]_vars PROVE RunInv'
<1>. USE SchedAssumption, UlockAssumption DEF Core
<1>1. ASSUME NEW t \in Threads, BlockSleep(t) PROVE RunInv'
  BY <1>1 DEF BlockSleep, Sleep, Sched, At, Executing, Running, HoldsPtable,
     ulockVars, schedVars, RunInv, TypeOK, SchedTypeOK
<1>2. ASSUME NEW t \in Threads, UpWake(t) PROVE RunInv'
  BY <1>2 DEF UpWake, Wakeup1, At, Executing, Running, HoldsPtable,
     ulockVars, schedVars, RunInv, TypeOK, SchedTypeOK
<1>3. ASSUME NEW t \in Threads, ExitCall(t) PROVE RunInv'
  BY <1>3 DEF ExitCall, Exit, AcquirePtable, Sched, At, Executing, Running,
     HoldsPtable, ulockVars, schedVars, RunInv, TypeOK, SchedTypeOK
<1>4. ASSUME NEW c \in CPUs, NEW t \in Threads, Dispatch(c, t), UNCHANGED
            ulockVars PROVE RunInv'
  BY <1>4 DEF Dispatch, At, Executing, Running, HoldsPtable, ulockVars,
     schedVars, RunInv, TypeOK, SchedTypeOK
<1>5. ASSUME NEW t \in Threads, Yield(t), UNCHANGED ulockVars PROVE RunInv'
  BY <1>5 DEF Yield, AcquirePtable, Sched, At, Executing, Running,
     HoldsPtable, ulockVars, schedVars, RunInv, TypeOK, SchedTypeOK
<1>6. ASSUME NEW t \in Threads, KillThread(t), UNCHANGED ulockVars PROVE
            RunInv'
  BY <1>6 DEF KillThread, At, Executing, Running, HoldsPtable, ulockVars,
     schedVars, RunInv, TypeOK, SchedTypeOK
<1>7. ASSUME NEW g \in Groups, KillLeader(g), UNCHANGED ulockVars PROVE
            RunInv'
  BY <1>7 DEF KillLeader, At, Executing, Running, HoldsPtable, ulockVars,
     schedVars, RunInv, TypeOK, SchedTypeOK
<1>8. ASSUME UNCHANGED <<state, cpu>> PROVE RunInv'
  BY <1>8 DEF RunInv, Running, schedVars
<1>. QED
  BY <1>1, <1>2, <1>3, <1>4, <1>5, <1>6, <1>7, <1>8 DEF Next, CallStep,
     TakeLk, UserStep, SchedStep, vars, schedVars, ulockVars, DownTest,
     DownTake, DownUnlock, BlockPtable, BlockUnlock, BlockAwake,
     BlockRelease, UpPost, UpPtable, UpRelease, UpUnlock, DownLock,
     BlockRelock, UpLock, CallDown, CallUp, SchedAcquire, SchedRelease,
     YieldReturn, Call

(* arg[] is set and cleared together with pc[]. *)
LEMMA ArgInvStep == ASSUME Core, [Next]_vars PROVE ArgInv'
<1>. USE UlockAssumption DEF Core, TypeOK, ArgInv, At, Goto
<1>1. ASSUME NEW t \in Threads, NEW s \in Sems, CallDown(t, s) \/ CallUp(t, s) PROVE ArgInv'
  BY <1>1 DEF CallDown, CallUp, Call
<1>2. ASSUME NEW t \in Threads, DownUnlock(t) \/ UpUnlock(t) PROVE ArgInv'
  BY <1>2 DEF DownUnlock, UpUnlock, Return
<1>3. ASSUME NEW t \in Threads, DownTest(t) \/ DownTake(t) \/ DownLock(t) PROVE ArgInv'
  BY <1>3 DEF DownTest, DownTake, DownLock
<1>4. ASSUME NEW t \in Threads, BlockPtable(t) \/ BlockUnlock(t) \/ BlockAwake(t) \/ BlockRelease(t) \/ BlockRelock(t)
      PROVE ArgInv'
  BY <1>4 DEF BlockPtable, BlockUnlock, BlockAwake, BlockRelease, BlockRelock
<1>5. ASSUME NEW t \in Threads, UpLock(t) \/ UpPost(t) \/ UpPtable(t) \/ UpWake(t) \/ UpRelease(t)
      PROVE ArgInv'
  BY <1>5 DEF UpLock, UpPost, UpPtable, UpWake, UpRelease
<1>6. ASSUME UNCHANGED ulockVars PROVE ArgInv'
  BY <1>6 DEF ulockVars
<1>. QED
  BY <1>1, <1>2, <1>3, <1>4, <1>5, <1>6 DEF Next, CallStep, TakeLk, UserStep, SchedStep,
     BlockSleep, ExitCall, vars, ulockVars

(* A thread comes off a CPU only where it can be resumed, with ptable.lock   *)
(* back in the hands of the CPU that resumes it.                             *)
LEMMA PcInvStep == ASSUME IInv, [Next]_vars PROVE PcInv'
<1>. USE SchedAssumption, UlockAssumption DEF IInv, ArgInv, At, Executing, Running,
     HoldsPtable, Goto, ulockVars, schedVars, RunInv, PcInv, PtablePC,
     TypeOK, SchedTypeOK
<1>1. ASSUME NEW t \in Threads, DownTest(t) PROVE PcInv'
  BY <1>1 DEF DownTest
<1>2. ASSUME NEW t \in Threads, DownTake(t) PROVE PcInv'
  BY <1>2 DEF DownTake
<1>3. ASSUME NEW t \in Threads, DownUnlock(t) PROVE PcInv'
  BY <1>3 DEF DownUnlock, ReleaseLk, Return
<1>4. ASSUME NEW t \in Threads, BlockPtable(t) PROVE PcInv'
  BY <1>4 DEF BlockPtable, AcquirePtable
<1>5. ASSUME NEW t \in Threads, BlockUnlock(t) PROVE PcInv'
  BY <1>5 DEF BlockUnlock, ReleaseLk
<1>6. ASSUME NEW t \in Threads, BlockSleep(t) PROVE PcInv'
  BY <1>6 DEF BlockSleep, Sleep, Sched
<1>7. ASSUME NEW t \in Threads, BlockAwake(t) PROVE PcInv'
  BY <1>7 DEF BlockAwake
<1>8. ASSUME NEW t \in Threads, BlockRelease(t) PROVE PcInv'
  BY <1>8 DEF BlockRelease, ReleasePtable
<1>9. ASSUME NEW t \in Threads, UpPost(t) PROVE PcInv'
  BY <1>9 DEF UpPost
<1>10. ASSUME NEW t \in Threads, UpPtable(t) PROVE PcInv'
  BY <1>10 DEF UpPtable, AcquirePtable
<1>11. ASSUME NEW t \in Threads, UpWake(t) PROVE PcInv'
  BY <1>11 DEF UpWake, Wakeup1
<1>12. ASSUME NEW t \in Threads, UpRelease(t) PROVE PcInv'
  BY <1>12 DEF UpRelease, ReleasePtable
<1>13. ASSUME NEW t \in Threads, UpUnlock(t) PROVE PcInv'
  BY <1>13 DEF UpUnlock, ReleaseLk, Return
<1>14. ASSUME NEW t \in Threads, DownLock(t) PROVE PcInv'
  BY <1>14 DEF DownLock, AcquireLk
<1>15. ASSUME NEW t \in Threads, BlockRelock(t) PROVE PcInv'
  BY <1>15 DEF BlockRelock, AcquireLk
<1>16. ASSUME NEW t \in Threads, UpLock(t) PROVE PcInv'
  BY <1>16 DEF UpLock, AcquireLk
<1>17. ASSUME NEW t \in Threads, NEW s \in Sems, CallDown(t, s) PROVE PcInv'
  BY <1>17 DEF CallDown, Call
<1>18. ASSUME NEW t \in Threads, NEW s \in Sems, CallUp(t, s) PROVE PcInv'
  BY <1>18 DEF CallUp, Call
<1>19. ASSUME NEW t \in Threads, ExitCall(t) PROVE PcInv'
  BY <1>19 DEF ExitCall, Exit, AcquirePtable, Sched
<1>20. ASSUME NEW c \in CPUs, SchedAcquire(c), UNCHANGED ulockVars PROVE
            PcInv'
  BY <1>20 DEF SchedAcquire
<1>21. ASSUME NEW c \in CPUs, SchedRelease(c), UNCHANGED ulockVars PROVE
            PcInv'
  BY <1>21 DEF SchedRelease
<1>22. ASSUME NEW c \in CPUs, NEW t \in Threads, Dispatch(c, t), UNCHANGED
            ulockVars PROVE PcInv'
  BY <1>22 DEF Dispatch
<1>23. ASSUME NEW t \in Threads, Yield(t), UNCHANGED ulockVars PROVE PcInv'
  BY <1>23 DEF Yield, AcquirePtable, Sched
<1>24. ASSUME NEW t \in Threads, YieldReturn(t), UNCHANGED ulockVars PROVE
            PcInv'
  BY <1>24 DEF YieldReturn, ReleasePtable
<1>25. ASSUME NEW t \in Threads, KillThread(t), UNCHANGED ulockVars PROVE
            PcInv'
  BY <1>25 DEF KillThread
<1>26. ASSUME NEW g \in Groups, KillLeader(g), UNCHANGED ulockVars PROVE
            PcInv'
  BY <1>26 DEF KillLeader
<1>27. ASSUME UNCHANGED vars PROVE PcInv'
  BY <1>27 DEF vars
<1>. QED
  BY <1>1, <1>2, <1>3, <1>4, <1>5, <1>6, <1>7, <1>8, <1>9, <1>10, <1>11,
     <1>12, <1>13, <1>14, <1>15, <1>16, <1>17, <1>18, <1>19, <1>20, <1>21,
     <1>22, <1>23, <1>24, <1>25, <1>26, <1>27 DEF Next, CallStep, TakeLk,
     UserStep, SchedStep

(* lk is 1 exactly while one thread is inside.                               *)
LEMMA LkExclusionStep == ASSUME Core, [Next]_vars PROVE LkExclusion'
<1>. USE SchedAssumption, UlockAssumption DEF Core
<1>1. ASSUME NEW t \in Threads, DownTest(t) PROVE LkExclusion'
  BY <1>1 DEF DownTest, At, Goto, schedVars, ArgInv, LkExclusion, HasLk,
     TypeOK
<1>2. ASSUME NEW t \in Threads, DownTake(t) PROVE LkExclusion'
  BY <1>2 DEF DownTake, At, Goto, schedVars, ArgInv, LkExclusion, HasLk,
     TypeOK
<1>3. ASSUME NEW t \in Threads, DownUnlock(t) PROVE LkExclusion'
  BY <1>3 DEF DownUnlock, ReleaseLk, Return, At, Goto, schedVars, ArgInv,
     LkExclusion, HasLk, TypeOK
<1>4. ASSUME NEW t \in Threads, BlockPtable(t) PROVE LkExclusion'
  BY <1>4 DEF BlockPtable, AcquirePtable, At, Goto, schedVars, ArgInv,
     LkExclusion, HasLk, TypeOK
<1>5. ASSUME NEW t \in Threads, BlockUnlock(t) PROVE LkExclusion'
  BY <1>5 DEF BlockUnlock, ReleaseLk, At, Goto, schedVars, ArgInv,
     LkExclusion, HasLk, TypeOK
<1>6. ASSUME NEW t \in Threads, BlockAwake(t) PROVE LkExclusion'
  BY <1>6 DEF BlockAwake, At, Goto, schedVars, ArgInv, LkExclusion, HasLk,
     TypeOK
<1>7. ASSUME NEW t \in Threads, BlockRelease(t) PROVE LkExclusion'
  BY <1>7 DEF BlockRelease, ReleasePtable, At, Goto, schedVars, ArgInv,
     LkExclusion, HasLk, TypeOK
<1>8. ASSUME NEW t \in Threads, UpPost(t) PROVE LkExclusion'
  BY <1>8 DEF UpPost, At, Goto, schedVars, ArgInv, LkExclusion, HasLk, TypeOK
<1>9. ASSUME NEW t \in Threads, UpPtable(t) PROVE LkExclusion'
  BY <1>9 DEF UpPtable, AcquirePtable, At, Goto, schedVars, ArgInv,
     LkExclusion, HasLk, TypeOK
<1>10. ASSUME NEW t \in Threads, UpWake(t) PROVE LkExclusion'
  BY <1>10 DEF UpWake, Wakeup1, At, Goto, schedVars, ArgInv, LkExclusion,
     HasLk, TypeOK
<1>11. ASSUME NEW t \in Threads, UpRelease(t) PROVE LkExclusion'
  BY <1>11 DEF UpRelease, ReleasePtable, At, Goto, schedVars, ArgInv,
     LkExclusion, HasLk, TypeOK
<1>12. ASSUME NEW t \in Threads, UpUnlock(t) PROVE LkExclusion'
  BY <1>12 DEF UpUnlock, ReleaseLk, Return, At, Goto, schedVars, ArgInv,
     LkExclusion, HasLk, TypeOK
<1>13. ASSUME NEW t \in Threads, DownLock(t) PROVE LkExclusion'
  BY <1>13 DEF DownLock, AcquireLk, At, Goto, schedVars, ArgInv, LkExclusion,
     HasLk, TypeOK
<1>14. ASSUME NEW t \in Threads, BlockRelock(t) PROVE LkExclusion'
  BY <1>14 DEF BlockRelock, AcquireLk, At, Goto, schedVars, ArgInv,
     LkExclusion, HasLk, TypeOK
<1>15. ASSUME NEW t \in Threads, UpLock(t) PROVE LkExclusion'
  BY <1>15 DEF UpLock, AcquireLk, At, Goto, schedVars, ArgInv, LkExclusion,
     HasLk, TypeOK
<1>16. ASSUME NEW t \in Threads, NEW s \in Sems, CallDown(t, s) PROVE
            LkExclusion'
  BY <1>16 DEF CallDown, Call, At, Goto, schedVars, ArgInv, LkExclusion,
     HasLk, TypeOK
<1>17. ASSUME NEW t \in Threads, NEW s \in Sems, CallUp(t, s) PROVE
            LkExclusion'
  BY <1>17 DEF CallUp, Call, At, Goto, schedVars, ArgInv, LkExclusion, HasLk,
     TypeOK
<1>18. ASSUME UNCHANGED ulockVars PROVE LkExclusion'
  BY <1>18 DEF LkExclusion, HasLk, ulockVars
<1>. QED
  BY <1>1, <1>2, <1>3, <1>4, <1>5, <1>6, <1>7, <1>8, <1>9, <1>10, <1>11,
     <1>12, <1>13, <1>14, <1>15, <1>16, <1>17, <1>18 DEF Next, CallStep,
     TakeLk, UserStep, SchedStep, vars, schedVars, ulockVars, BlockSleep,
     ExitCall, SchedAcquire, SchedRelease, Dispatch, Yield, YieldReturn,
     KillThread, KillLeader

(* Nobody lowers val between a thread's test and its decrement, for the      *)
(* thread has lk.                                                            *)
LEMMA TakeInvStep == ASSUME Core, [Next]_vars PROVE TakeInv'
<1>. USE SchedAssumption, UlockAssumption DEF Core
<1>1. ASSUME NEW t \in Threads, DownTest(t) PROVE TakeInv'
  BY <1>1 DEF DownTest, At, Goto, schedVars, ArgInv, LkExclusion, HasLk,
     TakeInv, TypeOK
<1>2. ASSUME NEW t \in Threads, DownTake(t) PROVE TakeInv'
  BY <1>2 DEF DownTake, At, Goto, schedVars, ArgInv, LkExclusion, HasLk,
     TakeInv, TypeOK
<1>3. ASSUME NEW t \in Threads, DownUnlock(t) PROVE TakeInv'
  BY <1>3 DEF DownUnlock, ReleaseLk, Return, At, Goto, schedVars, ArgInv,
     LkExclusion, HasLk, TakeInv, TypeOK
<1>4. ASSUME NEW t \in Threads, BlockPtable(t) PROVE TakeInv'
  BY <1>4 DEF BlockPtable, AcquirePtable, At, Goto, schedVars, ArgInv,
     LkExclusion, HasLk, TakeInv, TypeOK
<1>5. ASSUME NEW t \in Threads, BlockUnlock(t) PROVE TakeInv'
  BY <1>5 DEF BlockUnlock, ReleaseLk, At, Goto, schedVars, ArgInv,
     LkExclusion, HasLk, TakeInv, TypeOK
<1>6. ASSUME NEW t \in Threads, BlockAwake(t) PROVE TakeInv'
  BY <1>6 DEF BlockAwake, At, Goto, schedVars, ArgInv, LkExclusion, HasLk,
     TakeInv, TypeOK
<1>7. ASSUME NEW t \in Threads, BlockRelease(t) PROVE TakeInv'
  BY <1>7 DEF BlockRelease, ReleasePtable, At, Goto, schedVars, ArgInv,
     LkExclusion, HasLk, TakeInv, TypeOK
<1>8. ASSUME NEW t \in Threads, UpPost(t) PROVE TakeInv'
  BY <1>8 DEF UpPost, At, Goto, schedVars, ArgInv, LkExclusion, HasLk,
     TakeInv, TypeOK
<1>9. ASSUME NEW t \in Threads, UpPtable(t) PROVE TakeInv'
  BY <1>9 DEF UpPtable, AcquirePtable, At, Goto, schedVars, ArgInv,
     LkExclusion, HasLk, TakeInv, TypeOK
<1>10. ASSUME NEW t \in Threads, UpWake(t) PROVE TakeInv'
  BY <1>10 DEF UpWake, Wakeup1, At, Goto, schedVars, ArgInv, LkExclusion,
     HasLk, TakeInv, TypeOK
<1>11. ASSUME NEW t \in Threads, UpRelease(t) PROVE TakeInv'
  BY <1>11 DEF UpRelease, ReleasePtable, At, Goto, schedVars, ArgInv,
     LkExclusion, HasLk, TakeInv, TypeOK
<1>12. ASSUME NEW t \in Threads, UpUnlock(t) PROVE TakeInv'
  BY <1>12 DEF UpUnlock, ReleaseLk, Return, At, Goto, schedVars, ArgInv,
     LkExclusion, HasLk, TakeInv, TypeOK
<1>13. ASSUME NEW t \in Threads, DownLock(t) PROVE TakeInv'
  BY <1>13 DEF DownLock, AcquireLk, At, Goto, schedVars, ArgInv, LkExclusion,
     HasLk, TakeInv, TypeOK
<1>14. ASSUME NEW t \in Threads, BlockRelock(t) PROVE TakeInv'
  BY <1>14 DEF BlockRelock, AcquireLk, At, Goto, schedVars, ArgInv,
     LkExclusion, HasLk, TakeInv, TypeOK
<1>15. ASSUME NEW t \in Threads, UpLock(t) PROVE TakeInv'
  BY <1>15 DEF UpLock, AcquireLk, At, Goto, schedVars, ArgInv, LkExclusion,
     HasLk, TakeInv, TypeOK
<1>16. ASSUME NEW t \in Threads, NEW s \in Sems, CallDown(t, s) PROVE TakeInv'
  BY <1>16 DEF CallDown, Call, At, Goto, schedVars, ArgInv, LkExclusion,
     HasLk, TakeInv, TypeOK
<1>17. ASSUME NEW t \in Threads, NEW s \in Sems, CallUp(t, s) PROVE TakeInv'
  BY <1>17 DEF CallUp, Call, At, Goto, schedVars, ArgInv, LkExclusion, HasLk,
     TakeInv, TypeOK
<1>18. ASSUME UNCHANGED ulockVars PROVE TakeInv'
  BY <1>18 DEF TakeInv, ulockVars
<1>. QED
  BY <1>1, <1>2, <1>3, <1>4, <1>5, <1>6, <1>7, <1>8, <1>9, <1>10, <1>11,
     <1>12, <1>13, <1>14, <1>15, <1>16, <1>17, <1>18 DEF Next, CallStep,
     TakeLk, UserStep, SchedStep, vars, schedVars, ulockVars, BlockSleep,
     ExitCall, SchedAcquire, SchedRelease, Dispatch, Yield, YieldReturn,
     KillThread, KillLeader

(* A thread that goes to sleep has seen val at 0; one that makes val positive *)
(* has the wakeup still to do.                                               *)
LEMMA NoLostWakeupStep == ASSUME IInv, [Next]_vars PROVE NoLostWakeup'
<1>. USE SchedAssumption, UlockAssumption DEF IInv, ArgInv, At, Executing, Running,
     Goto, ulockVars, schedVars, RunInv, PcInv, PtablePC, NoLostWakeup,
     TypeOK, SchedTypeOK
<1>1. ASSUME NEW t \in Threads, DownTest(t) PROVE NoLostWakeup'
  BY <1>1 DEF DownTest
<1>2. ASSUME NEW t \in Threads, DownTake(t) PROVE NoLostWakeup'
  BY <1>2 DEF DownTake
<1>3. ASSUME NEW t \in Threads, DownUnlock(t) PROVE NoLostWakeup'
  BY <1>3 DEF DownUnlock, ReleaseLk, Return
<1>4. ASSUME NEW t \in Threads, BlockPtable(t) PROVE NoLostWakeup'
  BY <1>4 DEF BlockPtable, AcquirePtable
<1>5. ASSUME NEW t \in Threads, BlockUnlock(t) PROVE NoLostWakeup'
  BY <1>5 DEF BlockUnlock, ReleaseLk
<1>6. ASSUME NEW t \in Threads, BlockSleep(t) PROVE NoLostWakeup'
  BY <1>6 DEF BlockSleep, Sleep, Sched
<1>7. ASSUME NEW t \in Threads, BlockAwake(t) PROVE NoLostWakeup'
  BY <1>7 DEF BlockAwake
<1>8. ASSUME NEW t \in Threads, BlockRelease(t) PROVE NoLostWakeup'
  BY <1>8 DEF BlockRelease, ReleasePtable
<1>9. ASSUME NEW t \in Threads, UpPost(t) PROVE NoLostWakeup'
  BY <1>9 DEF UpPost
<1>10. ASSUME NEW t \in Threads, UpPtable(t) PROVE NoLostWakeup'
  BY <1>10 DEF UpPtable, AcquirePtable
<1>11. ASSUME NEW t \in Threads, UpWake(t) PROVE NoLostWakeup'
  BY <1>11 DEF UpWake, Wakeup1
<1>12. ASSUME NEW t \in Threads, UpRelease(t) PROVE NoLostWakeup'
  BY <1>12 DEF UpRelease, ReleasePtable
<1>13. ASSUME NEW t \in Threads, UpUnlock(t) PROVE NoLostWakeup'
  BY <1>13 DEF UpUnlock, ReleaseLk, Return
<1>14. ASSUME NEW t \in Threads, DownLock(t) PROVE NoLostWakeup'
  BY <1>14 DEF DownLock, AcquireLk
<1>15. ASSUME NEW t \in Threads, BlockRelock(t) PROVE NoLostWakeup'
  BY <1>15 DEF BlockRelock, AcquireLk
<1>16. ASSUME NEW t \in Threads, UpLock(t) PROVE NoLostWakeup'
  BY <1>16 DEF UpLock, AcquireLk
<1>17. ASSUME NEW t \in Threads, NEW s \in Sems, CallDown(t, s) PROVE
            NoLostWakeup'
  BY <1>17 DEF CallDown, Call
<1>18. ASSUME NEW t \in Threads, NEW s \in Sems, CallUp(t, s) PROVE
            NoLostWakeup'
  BY <1>18 DEF CallUp, Call
<1>19. ASSUME NEW t \in Threads, ExitCall(t) PROVE NoLostWakeup'
  BY <1>19 DEF ExitCall, Exit, AcquirePtable, Sched
<1>20. ASSUME NEW c \in CPUs, SchedAcquire(c), UNCHANGED ulockVars PROVE
            NoLostWakeup'
  BY <1>20 DEF SchedAcquire
<1>21. ASSUME NEW c \in CPUs, SchedRelease(c), UNCHANGED ulockVars PROVE
            NoLostWakeup'
  BY <1>21 DEF SchedRelease
<1>22. ASSUME NEW c \in CPUs, NEW t \in Threads, Dispatch(c, t), UNCHANGED
            ulockVars PROVE NoLostWakeup'
  BY <1>22 DEF Dispatch
<1>23. ASSUME NEW t \in Threads, Yield(t), UNCHANGED ulockVars PROVE
            NoLostWakeup'
  BY <1>23 DEF Yield, AcquirePtable, Sched
<1>24. ASSUME NEW t \in Threads, YieldReturn(t), UNCHANGED ulockVars PROVE
            NoLostWakeup'
  BY <1>24 DEF YieldReturn, ReleasePtable
<1>25. ASSUME NEW t \in Threads, KillThread(t), UNCHANGED ulockVars PROVE
            NoLostWakeup'
  BY <1>25 DEF KillThread
<1>26. ASSUME NEW g \in Groups, KillLeader(g), UNCHANGED ulockVars PROVE
            NoLostWakeup'
  BY <1>26 DEF KillLeader
<1>27. ASSUME UNCHANGED vars PROVE NoLostWakeup'
  BY <1>27 DEF vars
<1>. QED
  BY <1>1, <1>2, <1>3, <1>4, <1>5, <1>6, <1>7, <1>8, <1>9, <1>10, <1>11,
     <1>12, <1>13, <1>14, <1>15, <1>16, <1>17, <1>18, <1>19, <1>20, <1>21,
     <1>22, <1>23, <1>24, <1>25, <1>26, <1>27 DEF Next, CallStep, TakeLk,
     UserStep, SchedStep

-----------------------------------------------------------------------------
(* At the start.                                                             *)
LEMMA InitIInv == ASSUME Init PROVE IInv
BY SchedAssumption, UlockAssumption
   DEF Init, SchedInit, UlockInit, IInv, TypeOK, SchedTypeOK, ProcState, PC, RunInv,
       Running, ArgInv, PcInv, PtablePC, LkExclusion, HasLk, TakeInv, NoLostWakeup

(* The inductive invariant holds of every behaviour.                         *)
THEOREM Invariance == Spec => []IInv
<1>1. IInv /\ [Next]_vars => IInv'
  BY TypeOKStep, RunInvStep, ArgInvStep, PcInvStep, LkExclusionStep, TakeInvStep, NoLostWakeupStep
     DEF IInv, Core
<1>. QED  BY InitIInv, <1>1, PTL DEF Spec

(* Every variable keeps its type; in particular val never goes below 0.      *)
THEOREM TypeCorrect == Spec => []TypeOK
BY Invariance, PTL DEF IInv

(* acquire_lock() and release_lock() exclude, across block_sem() and across  *)
(* preemption: one thread at a time between them.                            *)
THEOREM LkExcludes == Spec => []LkExclusion
BY Invariance, PTL DEF IInv

(* No wakeup of down_sem()'s sleepers is lost.                               *)
THEOREM WakeupsReach == Spec => []NoLostWakeup
BY Invariance, PTL DEF IInv

(* Nobody sleeps or dies with lk, or spins on it with ptable.lock.           *)
THEOREM LocksOrdered == Spec => []LockOrder
<1>1. ASSUME IInv, NEW t \in Threads, state[t] \in {"SLEEPING", "ZOMBIE"}
      PROVE ~HasLk(t)
  BY <1>1 DEF IInv, PcInv, HasLk
<1>2. ASSUME IInv, NEW t \in Threads, HoldsPtable(t), t \notin yielding
      PROVE pc[t] \in PtablePC
  <2>1. state[t] = "RUNNING"
    BY <1>2, SchedAssumption DEF IInv, RunInv, HoldsPtable
  <2>. QED  BY <1>2, <2>1 DEF IInv, PcInv
<1>3. IInv => LockOrder
  BY <1>1, <1>2 DEF LockOrder, PtablePC
<1>. QED  BY <1>3, Invariance, PTL

-----------------------------------------------------------------------------
(* At its step on val an operation takes effect, and no other does.           *)
LEMMA TakesEffect ==
  ASSUME pc \in [Threads -> PC], NEW t \in Threads, NEW l, pc' = [pc EXCEPT ![t] = l],
         \/ pc[t] = "down_take" /\ l = "down_unlock"
         \/ pc[t] = "up_post" /\ l = "up_ptable"
  PROVE  /\ opOf[t] = IF pc[t] = "up_post" THEN "up" ELSE "down"
         /\ opOf' = [opOf EXCEPT ![t] = "done"]
<1>1. opOf'[t] = "done"
  BY DEF opOf
<1>2. \A u \in Threads \ {t} : opOf'[u] = opOf[u]
  BY DEF opOf
<1>3. opOf[t] = IF pc[t] = "up_post" THEN "up" ELSE "down"
  BY DEF opOf
<1>4. opOf = [u \in Threads |-> opOf[u]] /\ opOf' = [u \in Threads |-> opOf'[u]]
  BY Zenon DEF opOf
<1>. QED  BY <1>1, <1>2, <1>3, <1>4

(* The semaphores of ulock.c implement atomic counting semaphores: every     *)
(* step is a step of Semaphore or changes nothing it can see.                *)
THEOREM Implementation == Spec => ImplementsSemaphore
<1>1. Init => Abstract!SemInit
  BY DEF Init, UlockInit, Abstract!SemInit, opOf
<1>2. ASSUME IInv, [Next]_vars PROVE [Abstract!SemNext]_(Abstract!semVars)
  <2>. USE <1>2, UlockAssumption
       DEF IInv, TypeOK, ArgInv, PcInv, At, Goto, opOf, Abstract!semVars, Abstract!SemNext
  <2>1. ASSUME NEW t \in Threads, NEW s \in Sems, CallDown(t, s)
        PROVE Abstract!SemNext
    <3>1. Abstract!SemCall(t, s, "down")
      BY <2>1 DEF CallDown, Call, Abstract!SemCall
    <3>. QED  BY <3>1
  <2>2. ASSUME NEW t \in Threads, NEW s \in Sems, CallUp(t, s)
        PROVE Abstract!SemNext
    <3>1. Abstract!SemCall(t, s, "up")
      BY <2>2 DEF CallUp, Call, Abstract!SemCall
    <3>. QED  BY <3>1
  <2>3. ASSUME NEW t \in Threads, DownTake(t)
        PROVE Abstract!SemNext
    <3>1. PICK s \in Sems : s = arg[t]
      BY <2>3 DEF DownTake
    <3>2. /\ pc[t] = "down_take" /\ pc' = [pc EXCEPT ![t] = "down_unlock"]
          /\ val' = [val EXCEPT ![s] = @ - 1] /\ val[s] > 0 /\ UNCHANGED arg
      BY <2>3, <3>1 DEF DownTake, TakeInv
    <3>3. opOf[t] = "down" /\ opOf' = [opOf EXCEPT ![t] = "done"]
      <4>. HIDE DEF opOf
      <4>. QED  BY <3>2, TakesEffect
    <3>4. Abstract!Down(t, s)
      <4>. HIDE DEF opOf
      <4>. QED  BY <3>1, <3>2, <3>3 DEF Abstract!Down
    <3>. QED  BY <3>4
  <2>4. ASSUME NEW t \in Threads, UpPost(t)
        PROVE Abstract!SemNext
    <3>1. PICK s \in Sems : s = arg[t]
      BY <2>4 DEF UpPost
    <3>2. /\ pc[t] = "up_post" /\ pc' = [pc EXCEPT ![t] = "up_ptable"]
          /\ val' = [val EXCEPT ![s] = @ + 1] /\ UNCHANGED arg
      BY <2>4, <3>1 DEF UpPost
    <3>3. opOf[t] = "up" /\ opOf' = [opOf EXCEPT ![t] = "done"]
      <4>. HIDE DEF opOf
      <4>. QED  BY <3>2, TakesEffect
    <3>4. Abstract!Up(t, s)
      <4>. HIDE DEF opOf
      <4>. QED  BY <3>1, <3>2, <3>3 DEF Abstract!Up
    <3>. QED  BY <3>4
  <2>5. ASSUME NEW t \in Threads, DownUnlock(t) \/ UpUnlock(t)
        PROVE Abstract!SemNext
    <3>1. /\ pc[t] \in {"down_unlock", "up_unlock"}
          /\ Return(t)
          /\ val' = val
      BY <2>5 DEF DownUnlock, UpUnlock
    <3>2. opOf[t] = "done"
      BY <3>1
    <3>3. opOf' = [opOf EXCEPT ![t] = "none"]
      BY <3>1 DEF Return
    <3>4. Abstract!SemReturn(t)
      BY <3>1, <3>2, <3>3 DEF Return, Abstract!SemReturn
    <3>. QED  BY <3>4
  <2>6. ASSUME NEW t \in Threads,
               \/ DownLock(t) \/ DownTest(t)
               \/ BlockPtable(t) \/ BlockUnlock(t) \/ BlockAwake(t) \/ BlockRelease(t)
               \/ BlockRelock(t)
        PROVE UNCHANGED Abstract!semVars
    BY <2>6 DEF DownLock, DownTest, BlockPtable, BlockUnlock, BlockAwake, BlockRelease,
                BlockRelock
  <2>7. ASSUME NEW t \in Threads, UpLock(t) \/ UpPtable(t) \/ UpWake(t) \/ UpRelease(t)
        PROVE UNCHANGED Abstract!semVars
    BY <2>7 DEF UpLock, UpPtable, UpWake, UpRelease
  <2>8. ASSUME UNCHANGED ulockVars PROVE UNCHANGED Abstract!semVars
    BY <2>8 DEF ulockVars
  <2>. QED
    BY <2>1, <2>2, <2>3, <2>4, <2>5, <2>6, <2>7, <2>8
       DEF Next, CallStep, TakeLk, UserStep, SchedStep, BlockSleep, ExitCall, vars, ulockVars
<1>. QED
  BY <1>1, <1>2, Invariance, PTL DEF Spec, ImplementsSemaphore, Abstract!SemSafety
-----------------------------------------------------------------------------
(* tc-sem.c *)

(* The threads are of a finite number; join() is counted up to it.           *)
LEMMA WorkersFinite == IsFiniteSet(Workers) /\ Cardinality(Workers) \in Nat
<1>1. IsFiniteSet(Workers)
  BY TcSemAssumption, FS_Subset DEF Workers
<1>. QED  BY <1>1, FS_CardinalityType

(* No thread is made, exits or is reaped.                                    *)
SameLife ==
  \A u \in Threads :
    \/ state'[u] = state[u]
    \/ state[u] \notin {"UNUSED", "ZOMBIE"} /\ state'[u] \notin {"UNUSED", "ZOMBIE"}

(* A step inside a system call.                                              *)
LEMMA CallEffect ==
  ASSUME TcIInv, NEW t \in Workers, CallStep(t) \/ TakeLk(t)
  PROVE  /\ SameLife
         /\ state[t] = "RUNNING"
         /\ pc' = [pc EXCEPT ![t] = pc'[t]]
         /\ arg' = [arg EXCEPT ![t] = arg'[t]]
         /\ arg[t] = mutex
         /\ arg'[t] \in {mutex, NoSem}
         /\ pc[t] # "user"
         /\ \/ val' = val /\ pc[t] = "down_unlock" /\ pc'[t] = "user"
            \/ val' = val /\ pc[t] = "up_unlock" /\ pc'[t] = "user"
            \/ val' = val /\ pc[t] = "up_lock" /\ pc'[t] = "up_post"
            \/ /\ val' = val
               /\ pc[t] \in UpPC \ {"up_lock", "up_post"}
               /\ pc'[t] \in UpPC \ {"up_lock", "up_post"}
            \/ /\ val' = val
               /\ pc[t] \notin UpPC \cup {"user", "down_unlock"}
               /\ pc'[t] \notin UpPC \cup {"user", "down_unlock"}
            \/ /\ pc[t] = "down_take" /\ pc'[t] = "down_unlock"
               /\ val' = [val EXCEPT ![mutex] = @ - 1]
            \/ /\ pc[t] = "up_post" /\ pc'[t] = "up_ptable"
               /\ val' = [val EXCEPT ![mutex] = @ + 1]
<1>1. /\ t \in Threads /\ pc[t] # "user" /\ Executing(t)
      /\ pc \in [Threads -> PC] /\ arg \in [Threads -> Sems \cup {NoSem}]
      /\ state \in [Threads -> ProcState]
  BY DEF Workers, CallStep, TakeLk, DownTest, DownTake, DownUnlock, BlockPtable, BlockUnlock,
     BlockSleep, BlockAwake, BlockRelease, UpPost, UpPtable, UpWake, UpRelease, UpUnlock,
     DownLock, BlockRelock, UpLock, At, TcIInv, TcTypeOK, TypeOK, SchedTypeOK
<1>2. arg[t] = mutex
  BY <1>1 DEF TcIInv, PlaceInv, ArgInv
<1>3. state[t] = "RUNNING"
  BY <1>1, SchedAssumption DEF TcIInv, RunInv, Executing, Running
<1>. USE <1>1, <1>2, <1>3 DEF At, Goto, schedVars, ulockVars, UpPC
<1>4. CASE DownTest(t) \/ DownTake(t) \/ DownLock(t)
  BY <1>4 DEF DownTest, DownTake, DownLock, SameLife
<1>5. CASE DownUnlock(t) \/ UpUnlock(t)
  BY <1>5 DEF DownUnlock, UpUnlock, Return, SameLife
<1>6. CASE BlockPtable(t) \/ BlockUnlock(t) \/ BlockAwake(t) \/ BlockRelease(t) \/ BlockRelock(t)
  BY <1>6 DEF BlockPtable, BlockUnlock, BlockAwake, BlockRelease, BlockRelock, SameLife
<1>7. CASE BlockSleep(t)
  BY <1>7 DEF BlockSleep, Sleep, SameLife
<1>8. CASE UpLock(t) \/ UpPost(t) \/ UpPtable(t) \/ UpRelease(t)
  BY <1>8 DEF UpLock, UpPost, UpPtable, UpRelease, SameLife
<1>9. CASE UpWake(t)
  BY <1>9 DEF UpWake, Wakeup1, SameLife
<1>. QED  BY <1>4, <1>5, <1>6, <1>7, <1>8, <1>9 DEF CallStep, TakeLk

(* The scheduler makes nobody and ends nobody.                               *)
LEMMA SchedEffect ==
  ASSUME TcIInv, TcSchedStep
  PROVE  SameLife /\ UNCHANGED <<ulockVars, tcVars>>
<1>1. ASSUME NEW c \in CPUs, SchedAcquire(c) \/ SchedRelease(c) PROVE SameLife
  BY <1>1 DEF SchedAcquire, SchedRelease, SameLife
<1>2. ASSUME NEW c \in CPUs, NEW t \in Threads, Dispatch(c, t) PROVE SameLife
  BY <1>2 DEF Dispatch, SameLife, TcIInv, TcTypeOK, TypeOK, SchedTypeOK
<1>3. ASSUME NEW t \in Threads, YieldReturn(t) PROVE SameLife
  BY <1>3 DEF YieldReturn, SameLife
<1>4. ASSUME NEW t \in Threads, Yield(t) PROVE SameLife
  <2>1. state[t] = "RUNNING"
    BY <1>4, SchedAssumption DEF Yield, Executing, Running, TcIInv, RunInv
  <2>. QED  BY <1>4, <2>1 DEF Yield, SameLife, TcIInv, TcTypeOK, TypeOK, SchedTypeOK
<1>. QED  BY <1>1, <1>2, <1>3, <1>4 DEF TcSchedStep

(* main() is a thread that runs when it takes a step.                        *)
LEMMA MainRuns ==
  ASSUME TcIInv, NEW l, InProgram(Main, l)
  PROVE  Main \in Threads /\ Main \notin Workers /\ state[Main] = "RUNNING" /\ at[Main] = l
BY SchedAssumption, TcSemAssumption
   DEF InProgram, At, Executing, Running, TcIInv, RunInv, Workers

-----------------------------------------------------------------------------
(* The steps of the workers and of the scheduler are steps of Ulock, those   *)
(* of main() touch no semaphore.                                             *)
LEMMA TcCoreStep == ASSUME TcIInv, [TcNext]_allVars PROVE Core'
<1>0. Core
  BY DEF TcIInv, TcTypeOK, Core
<1>1. ASSUME [Next]_vars PROVE Core'
  BY <1>0, <1>1, TypeOKStep, RunInvStep, ArgInvStep, LkExclusionStep, TakeInvStep DEF Core
<1>2. ASSUME UNCHANGED ulockVars, TypeOK', RunInv' PROVE Core'
  BY <1>0, <1>2 DEF Core, ArgInv, LkExclusion, HasLk, TakeInv, ulockVars
<1>3. ASSUME NEW t \in Workers, WorkerStep(t) \/ TakeLk(t) PROVE [Next]_vars
  <2>1. t \in Threads /\ mutex \in Sems
    BY TcSemAssumption DEF Workers
  <2>. QED
    BY <1>3, <2>1 DEF WorkerStep, IncrDown, IncrLoad, IncrStore, IncrUp, IncrExit, Next, UserStep
<1>4. ASSUME TcSchedStep PROVE [Next]_vars
  BY <1>4 DEF TcSchedStep, Next, SchedStep
<1>. USE SchedAssumption, TcSemAssumption
     DEF TcIInv, TcTypeOK, TypeOK, SchedTypeOK, ProcState, RunInv, Running, HoldsPtable, ulockVars
<1>5. ASSUME NEW t \in Workers, MainCreate(t) PROVE Core'
  <2>1. UNCHANGED ulockVars /\ Clone(Main, t) /\ t \in Threads
    BY <1>5 DEF MainCreate, Workers
  <2>. QED  BY <1>2, <2>1 DEF Clone
<1>6. ASSUME JoinLock PROVE Core'
  BY <1>2, <1>6 DEF JoinLock, AcquirePtable
<1>7. ASSUME NEW t \in Workers, JoinReap(t) PROVE Core'
  <2>1. t \in Threads
    BY DEF Workers
  <2>. QED  BY <1>2, <1>7, <2>1 DEF JoinReap
<1>8. ASSUME JoinNoThreads PROVE Core'
  BY <1>2, <1>8 DEF JoinNoThreads
<1>9. ASSUME JoinSleep PROVE Core'
  <2>1. leaderChan[tgid[Main]] \in Chans
    OBVIOUS
  <2>. QED  BY <1>2, <1>9, <2>1 DEF JoinSleep, Sleep, Sched
<1>10. ASSUME JoinRelease PROVE Core'
  BY <1>2, <1>10 DEF JoinRelease, ReleasePtable
<1>11. ASSUME UNCHANGED vars PROVE [Next]_vars
  BY <1>11
<1>. QED
  BY <1>1, <1>3, <1>4, <1>5, <1>6, <1>7, <1>8, <1>9, <1>10, <1>11
     DEF TcNext, MainStep, MainCreateFail, MainCreated, MainDone, allVars

-----------------------------------------------------------------------------
(* What the invariant of tc-sem.c has to hold before each step of it.        *)
LEMMA TcCoreFacts ==
  ASSUME TcIInv
  PROVE  /\ Main \in Threads /\ Main \notin Workers /\ Workers \subseteq Threads
         /\ \A t \in Workers : arg[t] \in {mutex, NoSem} /\ t # Main
         /\ val \in [Sems -> Nat] /\ mutex \in Sems
         /\ pc \in [Threads -> PC] /\ arg \in [Threads -> Sems \cup {NoSem}]
         /\ state \in [Threads -> ProcState]
         /\ left \in [Workers -> 0..Iters] /\ reg \in [Workers -> Nat]
         /\ VAR \in Nat /\ Iters \in Nat
         /\ DOMAIN at = Threads
BY TcSemAssumption DEF TcIInv, TcTypeOK, TypeOK, SchedTypeOK, PlaceInv, Workers

(* Every variable of tc-sem.c keeps its type.                                *)
LEMMA TcTypeStep == ASSUME TcIInv, [TcNext]_allVars PROVE TcTypeOK'
<1>. USE TcSemAssumption DEF TcIInv, TcTypeOK, Move, tcVars
<1>1. TypeOK'
  BY TcCoreStep DEF Core
<1>2. ASSUME UNCHANGED tcVars PROVE TcTypeOK'
  BY <1>1, <1>2
<1>3. ASSUME NEW t \in Workers, IncrDown(t) \/ IncrLoad(t) \/ IncrStore(t) \/ IncrExit(t)
      PROVE  TcTypeOK'
  BY <1>1, <1>3 DEF IncrDown, IncrLoad, IncrStore, IncrExit
<1>4. ASSUME NEW t \in Workers, IncrUp(t) PROVE TcTypeOK'
  <2>1. left[t] > 0
    BY <1>4 DEF IncrUp, InProgram, PlaceInv
  <2>2. left[t] - 1 \in 0..Iters
    BY <2>1
  <2>3. left' \in [Workers -> 0..Iters]
    BY <1>4, <2>2 DEF IncrUp
  <2>. QED  BY <1>1, <1>4, <2>3 DEF IncrUp
<1>5. ASSUME NEW t \in Workers, MainCreateFail(t) \/ JoinReap(t) PROVE TcTypeOK'
  BY <1>1, <1>5 DEF MainCreateFail, JoinReap
<1>6. ASSUME MainCreated \/ JoinLock \/ JoinNoThreads \/ MainDone PROVE TcTypeOK'
  BY <1>1, <1>6 DEF MainCreated, JoinLock, JoinNoThreads, MainDone
<1>7. ASSUME JoinRelease PROVE TcTypeOK'
  <2>1. joined < Cardinality(Workers)
    BY <1>7 DEF JoinRelease, InProgram, JoinInv
  <2>. QED  BY <1>1, <1>7, <2>1, WorkersFinite DEF JoinRelease
<1>. QED
  BY <1>2, <1>3, <1>4, <1>5, <1>6, <1>7
     DEF TcNext, WorkerStep, MainStep, MainCreate, JoinSleep, TcSchedStep, allVars

(* A worker's place in the program, in its calls and in its life agree.      *)
LEMMA PlaceStep == ASSUME TcIInv, [TcNext]_allVars PROVE PlaceInv'
<1>. USE TcCoreFacts DEF Move, tcVars
<1>1. ASSUME SameLife, UNCHANGED <<pc, arg, at, left>> PROVE PlaceInv'
  BY <1>1 DEF SameLife, TcIInv, PlaceInv
<1>2. ASSUME NEW t \in Workers, CallStep(t) \/ TakeLk(t), UNCHANGED tcVars PROVE PlaceInv'
  BY <1>2, CallEffect DEF SameLife, TcIInv, PlaceInv, UpPC
<1>3. ASSUME NEW t \in Workers, IncrDown(t) \/ IncrUp(t) PROVE PlaceInv'
  <2>1. t \in Threads /\ state[t] = "RUNNING"
    BY <1>3, SchedAssumption
       DEF IncrDown, IncrUp, InProgram, At, Executing, Running, TcIInv, RunInv
  <2>2. CASE IncrDown(t)
    BY <2>1, <2>2 DEF IncrDown, InProgram, CallDown, Call, Goto, schedVars, TcIInv, PlaceInv, UpPC
  <2>3. CASE IncrUp(t)
    BY <2>1, <2>3
       DEF IncrUp, InProgram, CallUp, Call, At, Goto, schedVars, TcIInv, PlaceInv, UpPC
  <2>. QED  BY <1>3, <2>2, <2>3
<1>4. ASSUME NEW t \in Workers, IncrLoad(t) \/ IncrStore(t) PROVE PlaceInv'
  BY <1>4 DEF IncrLoad, IncrStore, InProgram, At, vars, TcIInv, PlaceInv
<1>5. ASSUME NEW t \in Workers, IncrExit(t) PROVE PlaceInv'
  BY <1>5 DEF IncrExit, InProgram, At, ExitCall, Exit, ulockVars, TcIInv, PlaceInv
<1>6. ASSUME NEW t \in Workers, MainCreate(t) PROVE PlaceInv'
  BY <1>6 DEF MainCreate, InProgram, Clone, ulockVars, TcIInv, PlaceInv
<1>7. ASSUME NEW t \in Workers, MainCreateFail(t) PROVE PlaceInv'
  BY <1>7 DEF MainCreateFail, InProgram, At, vars, TcIInv, PlaceInv
<1>8. ASSUME NEW t \in Workers, JoinReap(t) PROVE PlaceInv'
  BY <1>8 DEF JoinReap, InProgram, ulockVars, TcIInv, PlaceInv
<1>9. ASSUME MainCreated \/ JoinLock \/ JoinNoThreads \/ JoinRelease \/ MainDone PROVE PlaceInv'
  BY <1>9 DEF MainCreated, JoinLock, JoinNoThreads, JoinRelease, MainDone, InProgram, vars,
     ulockVars, TcIInv, PlaceInv
<1>10. ASSUME JoinSleep PROVE PlaceInv'
  BY <1>10 DEF JoinSleep, InProgram, Sleep, ulockVars, TcIInv, PlaceInv
<1>11. ASSUME TcSchedStep PROVE PlaceInv'
  BY <1>1, <1>11, SchedEffect DEF ulockVars
<1>12. ASSUME UNCHANGED allVars PROVE PlaceInv'
  BY <1>1, <1>12 DEF allVars, vars, SameLife
<1>. QED
  BY <1>2, <1>3, <1>4, <1>5, <1>6, <1>7, <1>8, <1>9, <1>10, <1>11, <1>12
     DEF TcNext, WorkerStep, MainStep

-----------------------------------------------------------------------------
(* The semaphore is taken by one worker and put back by the same one.        *)
LEMMA TokenStep == ASSUME TcIInv, [TcNext]_allVars PROVE TokenInv'
<1>. USE TcCoreFacts DEF Move, tcVars
<1>0. TokenInv /\ PlaceInv
  BY DEF TcIInv
<1>1. ASSUME NEW t \in Workers, \A u \in Workers \ {t} : pc'[u] = pc[u] /\ at'[u] = at[u],
             HasToken(t)' <=> HasToken(t), val'[mutex] = val[mutex],
             VAR' = VAR, reg' = reg, at'[t] = "store" => at[t] = "store"
      PROVE  TokenInv'
  BY <1>0, <1>1 DEF TokenInv, HasToken
<1>2. ASSUME \A u \in Workers : pc'[u] = pc[u] /\ at'[u] = at[u],
             UNCHANGED <<val, VAR, reg>>
      PROVE  TokenInv'
  BY <1>0, <1>2 DEF TokenInv, HasToken
<1>3. ASSUME NEW t \in Workers, CallStep(t) \/ TakeLk(t), UNCHANGED tcVars PROVE TokenInv'
  <2>1. /\ t \in Threads /\ pc[t] # "user"
        /\ \A u \in Workers \ {t} : pc'[u] = pc[u]
        /\ at[t] = IF pc[t] \in UpPC THEN "loop" ELSE "load"
    BY <1>3, <1>0, CallEffect DEF PlaceInv
  <2>2. CASE val' = val
    <3>1. HasToken(t)' <=> HasToken(t)
      BY <1>3, <2>1, <2>2, CallEffect DEF HasToken, UpPC
    <3>. QED  BY <1>1, <1>3, <2>1, <2>2, <3>1
  <2>3. CASE pc[t] = "down_take" /\ pc'[t] = "down_unlock" /\ val' = [val EXCEPT ![mutex] = @ - 1]
    <3>1. val[mutex] > 0
      BY <1>3, <2>1, <2>3, CallEffect DEF TcIInv, TakeInv
    <3>. QED  BY <1>0, <1>3, <2>1, <2>3, <3>1 DEF TokenInv, HasToken
  <2>4. CASE pc[t] = "up_post" /\ pc'[t] = "up_ptable" /\ val' = [val EXCEPT ![mutex] = @ + 1]
    BY <1>0, <1>3, <2>1, <2>4 DEF TokenInv, HasToken, UpPC
  <2>. QED  BY <1>3, <2>2, <2>3, <2>4, CallEffect
<1>4. ASSUME NEW t \in Workers, IncrDown(t) PROVE TokenInv'
  BY <1>1, <1>4 DEF IncrDown, InProgram, At, CallDown, Call, Goto, HasToken
<1>5. ASSUME NEW t \in Workers, IncrUp(t) PROVE TokenInv'
  BY <1>1, <1>5 DEF IncrUp, InProgram, At, CallUp, Call, Goto, HasToken
<1>6. ASSUME NEW t \in Workers, IncrLoad(t) PROVE TokenInv'
  BY <1>0, <1>6 DEF IncrLoad, InProgram, At, vars, TokenInv, HasToken
<1>7. ASSUME NEW t \in Workers, IncrStore(t) PROVE TokenInv'
  <2>1. \A u \in Workers : at[u] = "store" => HasToken(u)
    BY <1>0 DEF PlaceInv, HasToken
  <2>2. HasToken(t)
    BY <1>7, <2>1 DEF IncrStore, InProgram
  <2>3. \A u \in Workers : at[u] = "store" => u = t
    BY <1>0, <2>1, <2>2 DEF TokenInv
  <2>. QED  BY <1>0, <1>7, <2>2, <2>3 DEF IncrStore, InProgram, At, vars, TokenInv, HasToken
<1>8. ASSUME NEW t \in Workers, IncrExit(t) PROVE TokenInv'
  BY <1>1, <1>8 DEF IncrExit, InProgram, At, ExitCall, ulockVars, HasToken
<1>9. ASSUME NEW t \in Workers, MainCreateFail(t) PROVE TokenInv'
  BY <1>1, <1>9 DEF MainCreateFail, InProgram, At, vars, HasToken
<1>10. ASSUME MainStep, \A t \in Workers : ~MainCreateFail(t) PROVE TokenInv'
  <2>1. UNCHANGED <<ulockVars, VAR, reg>> /\ \A u \in Workers : at'[u] = at[u]
    BY <1>10 DEF MainStep, MainCreate, JoinReap, MainCreated, JoinLock, JoinNoThreads, JoinSleep,
       JoinRelease, MainDone, vars, ulockVars
  <2>. QED  BY <1>2, <2>1 DEF ulockVars
<1>11. ASSUME TcSchedStep PROVE TokenInv'
  BY <1>2, <1>11, SchedEffect DEF ulockVars
<1>12. ASSUME UNCHANGED allVars PROVE TokenInv'
  BY <1>2, <1>12 DEF allVars, vars
<1>. QED
  BY <1>3, <1>4, <1>5, <1>6, <1>7, <1>8, <1>9, <1>10, <1>11, <1>12 DEF TcNext, WorkerStep

-----------------------------------------------------------------------------
(* The increments done, one pair for each.                                   *)
Done == {e \in Workers \X (1..Iters) : e[2] <= Increments(e[1])}

(* Before they run the workers have added nothing.                           *)
LEMMA NothingDone ==
  ASSUME \A t \in Workers : left[t] = Iters /\ at[t] = "loop"
  PROVE  Done = {}
<1>1. \A t \in Workers : Increments(t) = 0
  BY TcSemAssumption DEF Increments
<1>. QED  BY <1>1, TcSemAssumption DEF Done

(* The increments are finitely many.                                         *)
LEMMA DoneFinite == IsFiniteSet(Done)
<1>1. IsFiniteSet(1..Iters)
  BY TcSemAssumption, FS_Interval
<1>2. IsFiniteSet(Workers \X (1..Iters))
  BY <1>1, WorkersFinite, FS_Product, Zenon
<1>. QED  BY <1>2, FS_Subset DEF Done

(* VAR counts the increments: what a worker stores is one more than what all *)
(* of them have stored so far.                                               *)
LEMMA VarStep == ASSUME TcIInv, [TcNext]_allVars PROVE VarInv'
<1>. USE TcCoreFacts DEF Move, tcVars
<1>0. VAR = Cardinality(Done)
  BY DEF TcIInv, VarInv, Done
<1>1. ASSUME \A u \in Workers : Increments(u)' = Increments(u), VAR' = VAR PROVE VarInv'
  <2>1. Done' = Done
    BY <1>1 DEF Done
  <2>. QED  BY <1>0, <1>1, <2>1 DEF VarInv, Done
<1>2. ASSUME UNCHANGED tcVars PROVE VarInv'
  BY <1>1, <1>2 DEF Increments
<1>3. ASSUME NEW t \in Workers, IncrDown(t) \/ IncrLoad(t) \/ IncrExit(t) PROVE VarInv'
  BY <1>1, <1>3 DEF IncrDown, IncrLoad, IncrExit, InProgram, Increments
<1>4. ASSUME NEW t \in Workers, IncrUp(t) PROVE VarInv'
  <2>1. left'[t] = left[t] - 1 /\ left[t] \in Nat /\ at[t] = "up" /\ at'[t] = "loop"
    BY <1>4 DEF IncrUp, InProgram
  <2>2. Increments(t)' = Increments(t)
    BY <2>1 DEF Increments
  <2>. QED  BY <1>1, <1>4, <2>2 DEF IncrUp, Increments
<1>5. ASSUME NEW t \in Workers, IncrStore(t) PROVE VarInv'
  <2>1. at[t] = "store" /\ at'[t] = "up" /\ left[t] \in 1..Iters /\ left'[t] = left[t]
    BY <1>5 DEF IncrStore, InProgram, TcIInv, PlaceInv
  <2>2. Increments(t) + 1 \in 1..Iters /\ Increments(t)' = Increments(t) + 1
    BY <2>1 DEF Increments
  <2>3. \A u \in Workers \ {t} : Increments(u)' = Increments(u)
    BY <1>5 DEF IncrStore, Increments
  <2>4. \A u \in Workers : Increments(u) \in Int
    BY DEF Increments
  <2>5. Done' = Done \cup {<<t, Increments(t) + 1>>}
    <3>1. ASSUME NEW e \in Workers \X (1..Iters)
          PROVE  e \in Done' <=> e \in Done \/ e = <<t, Increments(t) + 1>>
      <4>1. CASE e[1] = t
        BY <2>2, <2>4, <4>1 DEF Done
      <4>2. CASE e[1] # t
        BY <2>3, <4>2 DEF Done
      <4>. QED  BY <4>1, <4>2
    <3>. QED  BY <2>2, <3>1 DEF Done
  <2>6. <<t, Increments(t) + 1>> \notin Done
    BY <2>4 DEF Done
  <2>7. Cardinality(Done') = Cardinality(Done) + 1
    BY <2>5, <2>6, DoneFinite, FS_AddElement
  <2>8. VAR' = VAR + 1
    BY <1>5, <2>1 DEF IncrStore, TcIInv, TokenInv
  <2>. QED  BY <1>0, <2>7, <2>8 DEF VarInv, Done
<1>6. ASSUME NEW t \in Workers, MainCreateFail(t) PROVE VarInv'
  BY <1>1, <1>6 DEF MainCreateFail, Increments
<1>7. ASSUME MainStep, \A t \in Workers : ~MainCreateFail(t) PROVE VarInv'
  <2>1. UNCHANGED <<VAR, left>> /\ \A u \in Workers : at'[u] = at[u]
    BY <1>7 DEF MainStep, MainCreate, JoinReap, MainCreated, JoinLock, JoinNoThreads, JoinSleep,
       JoinRelease, MainDone
  <2>. QED  BY <1>1, <2>1 DEF Increments
<1>. QED
  BY <1>2, <1>3, <1>4, <1>5, <1>6, <1>7 DEF TcNext, WorkerStep, TcSchedStep, allVars

-----------------------------------------------------------------------------
(* The threads that are not yet joined.                                      *)
Live == {t \in Workers : state[t] # "UNUSED"}

(* So are the threads that have not ended.                                   *)
LEMMA LiveFinite ==
  /\ IsFiniteSet(Live)
  /\ Cardinality(Live) \in Nat
  /\ Cardinality(Live) <= Cardinality(Workers)
<1>1. Live \in SUBSET Workers
  BY DEF Live
<1>. QED  BY <1>1, WorkersFinite, FS_Subset, FS_CardinalityType

(* Each call of join() that returns leaves a thread less or finds none.      *)
LEMMA JoinStep == ASSUME TcIInv, [TcNext]_allVars PROVE JoinInv'
<1>. USE TcCoreFacts, WorkersFinite, LiveFinite DEF Move, tcVars
<1>0. /\ at[Main] \in {"join_scan", "join_release"} => joined < Cardinality(Workers)
      /\ at[Main] = "done" => joined = Cardinality(Workers)
      /\ at[Main] = "create" => joined = 0
      /\ at[Main] # "create" =>
           Cardinality(Live) + joined + (IF at[Main] = "join_release" THEN 1 ELSE 0)
             <= Cardinality(Workers)
      /\ joined \in Nat
  BY DEF TcIInv, TcTypeOK, JoinInv, Live
<1>1. ASSUME SameLife \/ UNCHANGED state PROVE Cardinality(Live)' = Cardinality(Live)
  <2>1. Live' = Live
    BY <1>1 DEF Live, SameLife
  <2>. QED  BY <2>1
<1>2. ASSUME SameLife \/ UNCHANGED state, at'[Main] = at[Main], joined' = joined PROVE JoinInv'
  BY <1>0, <1>1, <1>2 DEF JoinInv, Live
<1>3. ASSUME NEW t \in Workers, CallStep(t) \/ TakeLk(t), UNCHANGED tcVars PROVE JoinInv'
  BY <1>2, <1>3, CallEffect
<1>4. ASSUME NEW t \in Workers, IncrDown(t) \/ IncrLoad(t) \/ IncrStore(t) \/ IncrUp(t)
      PROVE  JoinInv'
  BY <1>2, <1>4 DEF IncrDown, IncrLoad, IncrStore, IncrUp, CallDown, CallUp, Call, vars, schedVars
<1>5. ASSUME NEW t \in Workers, IncrExit(t) PROVE JoinInv'
  <2>1. t \in Threads /\ state[t] = "RUNNING"
    BY <1>5, SchedAssumption DEF IncrExit, InProgram, At, Executing, Running, TcIInv, RunInv
  <2>2. SameLife \/ \A u \in Workers : state'[u] = "UNUSED" <=> state[u] = "UNUSED"
    BY <1>5, <2>1 DEF IncrExit, ExitCall, Exit
  <2>3. Live' = Live
    BY <2>2 DEF Live, SameLife
  <2>4. at'[Main] = at[Main] /\ joined' = joined
    BY <1>5 DEF IncrExit
  <2>. QED  BY <1>0, <2>3, <2>4 DEF JoinInv, Live
<1>6. ASSUME NEW t \in Workers, MainCreate(t) PROVE JoinInv'
  BY <1>0, <1>6 DEF MainCreate, InProgram, JoinInv
<1>7. ASSUME NEW t \in Workers, MainCreateFail(t) PROVE JoinInv'
  BY <1>2, <1>7 DEF MainCreateFail, vars
<1>8. ASSUME NEW t \in Workers, JoinReap(t) PROVE JoinInv'
  <2>1. Live' = Live \ {t} /\ t \in Live
    BY <1>8 DEF JoinReap, Live
  <2>2. Cardinality(Live') = Cardinality(Live) - 1
    BY <2>1, FS_RemoveElement
  <2>3. at[Main] = "join_scan" /\ at'[Main] = "join_release" /\ joined' = joined
    BY <1>8 DEF JoinReap, InProgram
  <2>4. Cardinality(Live') + joined' + 1 <= Cardinality(Workers) /\ joined' < Cardinality(Workers)
    BY <1>0, <2>2, <2>3
  <2>. QED  BY <2>3, <2>4 DEF JoinInv, Live
<1>9. ASSUME JoinNoThreads PROVE JoinInv'
  <2>1. Live' = {}
    BY <1>9 DEF JoinNoThreads, Live
  <2>2. Cardinality(Live') = 0
    BY <2>1, FS_EmptySet
  <2>3. at[Main] = "join_scan" /\ at'[Main] = "join_release" /\ joined' = joined
    BY <1>9 DEF JoinNoThreads, InProgram
  <2>4. Cardinality(Live') + joined' + 1 <= Cardinality(Workers) /\ joined' < Cardinality(Workers)
    BY <1>0, <2>2, <2>3
  <2>. QED  BY <2>3, <2>4 DEF JoinInv, Live
<1>10. ASSUME MainCreated \/ JoinLock \/ JoinRelease \/ MainDone PROVE JoinInv'
  <2>1. UNCHANGED state
    BY <1>10 DEF MainCreated, JoinLock, JoinRelease, MainDone, vars
  <2>2. Cardinality(Live)' = Cardinality(Live)
    BY <1>1, <2>1
  <2>3. CASE MainCreated
    BY <1>0, <2>2, <2>3 DEF MainCreated, InProgram, JoinInv, Live
  <2>4. CASE JoinLock
    BY <1>0, <2>2, <2>4 DEF JoinLock, InProgram, JoinInv, Live
  <2>5. CASE JoinRelease
    BY <1>0, <2>2, <2>5 DEF JoinRelease, InProgram, JoinInv, Live
  <2>6. CASE MainDone
    BY <1>0, <2>2, <2>6 DEF MainDone, InProgram, JoinInv, Live
  <2>. QED  BY <1>10, <2>3, <2>4, <2>5, <2>6
<1>11. ASSUME JoinSleep PROVE JoinInv'
  <2>1. \A u \in Workers : state'[u] = state[u]
    BY <1>11 DEF JoinSleep, Sleep
  <2>2. Live' = Live
    BY <2>1 DEF Live
  <2>3. UNCHANGED tcVars
    BY <1>11 DEF JoinSleep
  <2>. QED  BY <1>0, <2>2, <2>3 DEF JoinInv, Live
<1>12. ASSUME TcSchedStep PROVE JoinInv'
  BY <1>2, <1>12, SchedEffect
<1>13. ASSUME UNCHANGED allVars PROVE JoinInv'
  BY <1>2, <1>13 DEF allVars, vars
<1>. QED
  BY <1>3, <1>4, <1>5, <1>6, <1>7, <1>8, <1>9, <1>10, <1>11, <1>12, <1>13
     DEF TcNext, WorkerStep, MainStep

-----------------------------------------------------------------------------
(* At the start.                                                             *)
LEMMA TcInitIInv == ASSUME TcInit PROVE TcIInv
<1>. USE SchedAssumption, UlockAssumption, TcSemAssumption DEF TcInit, UlockInit, Workers
<1>1. TcTypeOK /\ RunInv
  BY WorkersFinite DEF TcTypeOK, TypeOK, SchedTypeOK, ProcState, PC, RunInv, Running
<1>2. ArgInv /\ LkExclusion /\ TakeInv
  BY DEF ArgInv, LkExclusion, HasLk, TakeInv
<1>3. PlaceInv /\ TokenInv
  BY DEF PlaceInv, TokenInv, HasToken, UpPC
<1>4. VarInv
  <2>1. \A t \in Workers : left[t] = Iters /\ at[t] = "loop"
    OBVIOUS
  <2>2. Done = {}
    BY <2>1, NothingDone
  <2>. QED  BY <2>2, FS_EmptySet DEF VarInv, Done
<1>5. JoinInv
  BY DEF JoinInv
<1>. QED  BY <1>1, <1>2, <1>3, <1>4, <1>5 DEF TcIInv

(* The invariant of tc-sem.c holds of every behaviour.                       *)
THEOREM TcInvariance == TcSpec => []TcIInv
<1>1. TcIInv /\ [TcNext]_allVars => TcIInv'
  BY TcCoreStep, TcTypeStep, PlaceStep, TokenStep, VarStep, JoinStep DEF TcIInv, Core
<1>. QED  BY TcInitIInv, <1>1, PTL DEF TcSpec

(* The semaphore is a lock around VAR: with its one token, at most one       *)
(* worker is between down_sem() and up_sem().                                *)
THEOREM TokenUnique == TcSpec => []OneToken
<1>1. ASSUME TcIInv PROVE OneToken
  <2>. DEFINE Holders == {t \in Workers : HasToken(t)}
  <2>1. TcTypeOK /\ TokenInv
    BY <1>1 DEF TcIInv
  <2>2. CASE val[mutex] = 1 /\ \A t \in Workers : ~HasToken(t)
    <3>1. Holders = {}
      BY <2>2
    <3>. QED  BY <2>1, <2>2, <3>1, FS_EmptySet DEF OneToken
  <2>3. CASE val[mutex] = 0 /\ \E t \in Workers : \A u \in Workers : HasToken(u) <=> u = t
    <3>1. PICK t \in Workers : Holders = {t}
      BY <2>3
    <3>2. Cardinality(Holders) = 1
      BY <3>1, FS_Singleton
    <3>. QED  BY <2>1, <2>3, <3>2 DEF OneToken
  <2>. QED  BY <2>1, <2>2, <2>3 DEF TokenInv
<1>. QED  BY <1>1, TcInvariance, PTL

(* No increment is lost: when main() prints VAR, every thread it could make  *)
(* has done all its iterations, has been joined, and is in the sum.          *)
THEOREM NothingLost == TcSpec => []FinalValue
<1>1. ASSUME TcIInv, at[Main] = "done"
      PROVE  /\ VAR = Cardinality({t \in Workers : at[t] = "exited"}) * Iters
             /\ \A t \in Workers : at[t] \in {"exited", "none"} /\ state[t] = "UNUSED"
  <2>. USE TcCoreFacts, <1>1
  <2>. DEFINE Ended == {t \in Workers : at[t] = "exited"}
  <2>1. Cardinality(Live) + Cardinality(Workers) <= Cardinality(Workers)
    BY LiveFinite, WorkersFinite DEF TcIInv, JoinInv, Live
  <2>2. Live = {}
    BY <2>1, LiveFinite, WorkersFinite, FS_EmptySet
  <2>3. \A t \in Workers : state[t] = "UNUSED"
    BY <2>2 DEF Live
  <2>4. \A t \in Workers : at[t] \in {"exited", "none"}
    BY <2>3 DEF TcIInv, PlaceInv
  <2>5. \A t \in Workers : left[t] = IF at[t] = "exited" THEN 0 ELSE Iters
    BY <2>4 DEF TcIInv, PlaceInv
  <2>6. \A t \in Workers : Increments(t) = IF at[t] = "exited" THEN Iters ELSE 0
    BY <2>4, <2>5 DEF Increments
  <2>7. Done = Ended \X (1..Iters)
    BY <2>6 DEF Done
  <2>8. IsFiniteSet(Ended)
    BY WorkersFinite, FS_Subset
  <2>9. IsFiniteSet(1..Iters) /\ Cardinality(1..Iters) = Iters
    BY FS_Interval
  <2>10. Cardinality(Done) = Cardinality(Ended) * Iters
    <3>. HIDE DEF Ended
    <3>1. Cardinality(Ended \X (1..Iters)) = Cardinality(Ended) * Cardinality(1..Iters)
      BY <2>8, <2>9, FS_Product, Zenon
    <3>. QED  BY <2>7, <2>9, <3>1
  <2>11. VAR = Cardinality(Done)
    BY DEF TcIInv, VarInv, Done
  <2>. QED  BY <2>3, <2>4, <2>10, <2>11
<1>2. TcIInv => FinalValue
  BY <1>1 DEF FinalValue
<1>. QED  BY <1>2, TcInvariance, PTL
=============================================================================
