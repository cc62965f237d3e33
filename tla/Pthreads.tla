------------------------------ MODULE Pthreads ------------------------------
(***************************************************************************)
(* What the programs of lab7 use of POSIX threads: mutexes and condition   *)
(* variables.  A library of actions on the two variables below, each an     *)
(* atomic effect of a call; a call that blocks is an action not enabled.    *)
(***************************************************************************)
CONSTANTS
  Threads,    \* the threads of the program
  Mutexes,
  Conds,      \* its condition variables
  NoThread, NoCond

ASSUME PthreadsAssumption == NoThread \notin Threads /\ NoCond \notin Conds

VARIABLES
  owner,      \* owner[m]: the thread that has locked m, or NoThread
  waiting     \* waiting[t]: the condition variable t is blocked on, or NoCond

ptVars == <<owner, waiting>>

PtTypeOK ==
  /\ owner \in [Mutexes -> Threads \cup {NoThread}]
  /\ waiting \in [Threads -> Conds \cup {NoCond}]

PtInit ==
  /\ owner = [m \in Mutexes |-> NoThread]
  /\ waiting = [t \in Threads |-> NoCond]

(* pthread_mutex_lock(), and the return from pthread_cond_wait(c, m) of a    *)
(* thread that is no longer blocked on c.                                   *)
Lock(t, m) ==
  /\ waiting[t] = NoCond
  /\ owner[m] = NoThread
  /\ owner' = [owner EXCEPT ![m] = t]

Unlock(m) == owner' = [owner EXCEPT ![m] = NoThread]

(* pthread_cond_wait(c, m): unlock m and block, in one step. *)
BeginWait(t, c, m) ==
  /\ Unlock(m)
  /\ waiting' = [waiting EXCEPT ![t] = c]

Waiters(c) == {t \in Threads : waiting[t] = c}

(* pthread_cond_signal(c): some waiter is unblocked, if there is one. *)
Signal(c) ==
  IF Waiters(c) = {} THEN UNCHANGED waiting
  ELSE \E t \in Waiters(c) : waiting' = [waiting EXCEPT ![t] = NoCond]

Broadcast(c) ==
  waiting' = [t \in Threads |-> IF waiting[t] = c THEN NoCond ELSE waiting[t]]

(* POSIX lets a wait end for no reason. *)
SpuriousWakeup(t) ==
  /\ waiting[t] # NoCond
  /\ waiting' = [waiting EXCEPT ![t] = NoCond]
  /\ UNCHANGED owner
=============================================================================
