------------------------------ MODULE Semaphore ------------------------------
(***************************************************************************)
(* What the semaphores of lab9 promise (ulock.h): a counter that down()    *)
(* takes one from, atomically and only while it is positive, and that up() *)
(* adds one to.  A thread calls, its operation takes effect once at some    *)
(* moment before it returns, and it returns.                               *)
(***************************************************************************)
EXTENDS Naturals

CONSTANTS
  Threads,    \* the callers
  Sems,       \* the semaphores
  NoSem,
  InitVal     \* InitVal[s]: the argument of init_sem()

VARIABLES
  count,      \* count[s]: the value of semaphore s
  op,         \* op[t]: where t stands in its call
  sem         \* sem[t]: the semaphore t has called, or NoSem

semVars == <<count, op, sem>>

SemTypeOK ==
  /\ count \in [Sems -> Nat]
  /\ op \in [Threads -> {"none", "down", "up", "done"}]
  /\ sem \in [Threads -> Sems \cup {NoSem}]

SemInit ==
  /\ count = InitVal
  /\ op = [t \in Threads |-> "none"]
  /\ sem = [t \in Threads |-> NoSem]

SemCall(t, s, o) ==
  /\ op[t] = "none"
  /\ op' = [op EXCEPT ![t] = o]
  /\ sem' = [sem EXCEPT ![t] = s]
  /\ UNCHANGED count

Down(t, s) ==
  /\ op[t] = "down"
  /\ sem[t] = s
  /\ count[s] > 0
  /\ count' = [count EXCEPT ![s] = @ - 1]
  /\ op' = [op EXCEPT ![t] = "done"]
  /\ UNCHANGED sem

Up(t, s) ==
  /\ op[t] = "up"
  /\ sem[t] = s
  /\ count' = [count EXCEPT ![s] = @ + 1]
  /\ op' = [op EXCEPT ![t] = "done"]
  /\ UNCHANGED sem

SemReturn(t) ==
  /\ op[t] = "done"
  /\ op' = [op EXCEPT ![t] = "none"]
  /\ sem' = [sem EXCEPT ![t] = NoSem]
  /\ UNCHANGED count

SemNext ==
  \E t \in Threads :
    \/ \E s \in Sems, o \in {"down", "up"} : SemCall(t, s, o)
    \/ \E s \in Sems : Down(t, s) \/ Up(t, s)
    \/ SemReturn(t)

SemSafety == SemInit /\ [][SemNext]_semVars

(* Nothing is promised to one waiter in particular (any caller may overtake  *)
(* it), but a semaphore with a positive value and threads in down() serves   *)
(* one of them, one with threads in up() serves one of them, and every       *)
(* operation that has taken effect returns.                                  *)
SemFairness ==
  /\ \A s \in Sems : /\ WF_semVars(\E t \in Threads : Down(t, s))
                     /\ WF_semVars(\E t \in Threads : Up(t, s))
  /\ \A t \in Threads : WF_semVars(SemReturn(t))

SemSpec == SemSafety /\ SemFairness
=============================================================================
