------------------------------ MODULE Xv6Sched ------------------------------
(***************************************************************************)
(* The process-table core of the xv6 kernel of lab9 (proc.c): the per-CPU  *)
(* scheduler, the timer's yield(), sleep(), wakeup1() and kill(), all of    *)
(* them critical sections of ptable.lock.                                  *)
(*                                                                         *)
(* ptable.lock is a kernel spinlock and so belongs to a CPU, not to a      *)
(* thread: sched() switches to the CPU's scheduler with the lock still      *)
(* held, and whoever runs next on that CPU has it to release.  The module   *)
(* is a library of actions: a component that runs kernel threads extends    *)
(* it and adds its own variables.                                          *)
(*                                                                         *)
(* The scan of the process table is abstracted to a choice of any RUNNABLE  *)
(* thread, and the pass may end at any moment.                             *)
(***************************************************************************)
CONSTANTS
  Threads,    \* the slots of ptable.proc the model follows: threads made by clone()
  CPUs,       \* cpus[]
  Groups,     \* thread groups, i.e. processes
  Chans,      \* addresses used as sleep channels
  tgid,       \* tgid[t]: the group of thread t
  leaderChan, \* leaderChan[g]: the address of the leader's struct proc
  NoThread, NoCpu, NoChan

ASSUME SchedAssumption ==
  /\ NoThread \notin Threads
  /\ NoCpu \notin CPUs
  /\ NoChan \notin Chans
  /\ tgid \in [Threads -> Groups]
  /\ leaderChan \in [Groups -> Chans]

VARIABLES
  state,      \* p->state
  chan,       \* p->chan
  killed,     \* p->killed
  cpu,        \* cpu[c]: c->proc, NoThread while c runs its scheduler
  ptlock,     \* ptable.lock: the CPU that holds it, or NoCpu
  yielding    \* threads inside yield() or forkret(), which still have to
              \* release ptable.lock when they are switched to

schedVars == <<state, chan, killed, cpu, ptlock, yielding>>

ProcState == {"UNUSED", "RUNNABLE", "RUNNING", "SLEEPING", "ZOMBIE"}

SchedTypeOK ==
  /\ state \in [Threads -> ProcState]
  /\ chan \in [Threads -> Chans \cup {NoChan}]
  /\ killed \in [Threads -> BOOLEAN]
  /\ cpu \in [CPUs -> Threads \cup {NoThread}]
  /\ ptlock \in CPUs \cup {NoCpu}
  /\ yielding \in SUBSET Threads

(* clone() has filled the slots and made them RUNNABLE; a new thread starts *)
(* in forkret(), which releases the ptable.lock the scheduler acquired.     *)
SchedInit ==
  /\ state = [t \in Threads |-> "RUNNABLE"]
  /\ chan = [t \in Threads |-> NoChan]
  /\ killed = [t \in Threads |-> FALSE]
  /\ cpu = [c \in CPUs |-> NoThread]
  /\ ptlock = NoCpu
  /\ yielding = Threads

-----------------------------------------------------------------------------
(* Who runs, and who holds ptable.lock. *)

Running(t) == \E c \in CPUs : cpu[c] = t

HoldsPtable(t) == \E c \in CPUs : cpu[c] = t /\ ptlock = c

(* t is running its own code rather than the tail of yield(). *)
Executing(t) == Running(t) /\ t \notin yielding

AcquirePtable(t) == \E c \in CPUs : cpu[c] = t /\ ptlock = NoCpu /\ ptlock' = c

ReleasePtable(t) == HoldsPtable(t) /\ ptlock' = NoCpu

(* sched(): the CPU of t goes back to its scheduler, lock in hand. *)
Sched(t) == cpu' = [c \in CPUs |-> IF cpu[c] = t THEN NoThread ELSE cpu[c]]

(* sleep(ch, &ptable.lock), up to its call of sched(). *)
Sleep(t, ch) ==
  /\ HoldsPtable(t)
  /\ state' = [state EXCEPT ![t] = "SLEEPING"]
  /\ chan' = [chan EXCEPT ![t] = ch]
  /\ Sched(t)
  /\ UNCHANGED <<killed, ptlock, yielding>>

(* Faulty variant: one sleeper is woken instead of all of them. *)
WakeOne(ch) ==
  LET waiters == {t \in Threads : state[t] = "SLEEPING" /\ chan[t] = ch}
  IN  state' = [t \in Threads |->
                  IF waiters # {} /\ t = (CHOOSE w \in waiters : TRUE)
                  THEN "RUNNABLE" ELSE state[t]]

(* wakeup1(ch) *)
Wakeup1(ch) ==
  state' = [t \in Threads |-> IF state[t] = "SLEEPING" /\ chan[t] = ch
                              THEN "RUNNABLE" ELSE state[t]]

-----------------------------------------------------------------------------
(* scheduler(): acquire, run RUNNABLE threads one after the other, release. *)

SchedAcquire(c) ==
  /\ cpu[c] = NoThread
  /\ ptlock = NoCpu
  /\ ptlock' = c
  /\ UNCHANGED <<state, chan, killed, cpu, yielding>>

Dispatch(c, t) ==
  /\ cpu[c] = NoThread
  /\ ptlock = c
  /\ state[t] = "RUNNABLE"
  /\ state' = [state EXCEPT ![t] = "RUNNING"]
  /\ cpu' = [cpu EXCEPT ![c] = t]
  /\ UNCHANGED <<chan, killed, ptlock, yielding>>

SchedRelease(c) ==
  /\ cpu[c] = NoThread
  /\ ptlock = c
  /\ ptlock' = NoCpu
  /\ UNCHANGED <<state, chan, killed, cpu, yielding>>

(* The timer interrupts a thread and trap() calls yield().  Interrupts are  *)
(* off while the CPU holds a kernel spinlock, on everywhere else, also      *)
(* inside a system call.                                                   *)
Yield(t) ==
  /\ Executing(t)
  /\ AcquirePtable(t)
  /\ state' = [state EXCEPT ![t] = "RUNNABLE"]
  /\ Sched(t)
  /\ yielding' = yielding \cup {t}
  /\ UNCHANGED <<chan, killed>>

YieldReturn(t) ==
  /\ t \in yielding
  /\ ReleasePtable(t)
  /\ yielding' = yielding \ {t}
  /\ UNCHANGED <<state, chan, killed, cpu>>

-----------------------------------------------------------------------------
(* kill(pid), called by some process outside the model.                    *)

(* pid is a thread of a group, not its leader: mark it and wake it.        *)
KillThread(t) ==
  /\ ptlock = NoCpu
  /\ state[t] # "ZOMBIE"
  /\ killed' = [killed EXCEPT ![t] = TRUE]
  /\ state' = [state EXCEPT ![t] = IF @ = "SLEEPING" THEN "RUNNABLE" ELSE @]
  /\ UNCHANGED <<chan, cpu, ptlock, yielding>>

(* pid is the leader of group g: mark the threads of g, and wake EVERY      *)
(* sleeper, for the code's test of p1->state stands outside its test of     *)
(* p1->tgid.                                                               *)
KillLeader(g) ==
  /\ ptlock = NoCpu
  /\ killed' = [t \in Threads |-> killed[t] \/ (tgid[t] = g /\ state[t] # "ZOMBIE")]
  /\ state' = [t \in Threads |-> IF state[t] = "SLEEPING" THEN "RUNNABLE" ELSE state[t]]
  /\ UNCHANGED <<chan, cpu, ptlock, yielding>>

-----------------------------------------------------------------------------
(* The life of a thread. *)

(* clone(): a new thread gets a slot, RUNNABLE.  It will start in forkret(). *)
Clone(t, new) ==
  /\ Executing(t)
  /\ ptlock = NoCpu
  /\ state[new] = "UNUSED"
  /\ state' = [state EXCEPT ![new] = "RUNNABLE"]
  /\ killed' = [killed EXCEPT ![new] = FALSE]
  /\ yielding' = yielding \cup {new}
  /\ UNCHANGED <<chan, cpu, ptlock>>

(* Faulty variant: exit() does not wake the leader. *)
ExitSilently(t) ==
  /\ Executing(t)
  /\ AcquirePtable(t)
  /\ state' = [state EXCEPT ![t] = "ZOMBIE"]
  /\ Sched(t)
  /\ UNCHANGED <<chan, killed, yielding>>

(* exit(), called by the program or by trap() for a killed thread on its way *)
(* back to user space, for a thread with no children: wake the leader, which *)
(* may be in join(), and leave the CPU for good.                             *)
Exit(t) ==
  /\ Executing(t)
  /\ AcquirePtable(t)
  /\ state' = [u \in Threads |->
                 IF u = t THEN "ZOMBIE"
                 ELSE IF state[u] = "SLEEPING" /\ chan[u] = leaderChan[tgid[t]]
                 THEN "RUNNABLE" ELSE state[u]]
  /\ Sched(t)
  /\ UNCHANGED <<chan, killed, yielding>>
=============================================================================
