----------------------------- MODULE ThreadGroup -----------------------------
(***************************************************************************)
(* Processes and thread groups of lab9's kernel (proc.c): fork(), clone(), *)
(* exit(), wait(), join() and kill() on the process table.                 *)
(*                                                                         *)
(* A section of code under ptable.lock is one step; what fork() and        *)
(* clone() do to the new slot between two of them, without the lock, is a  *)
(* step of its own.  Any thread that is not asleep may take the next step:  *)
(* RUNNABLE stands for RUNNABLE and RUNNING.  wait() and join() sleep on    *)
(* the caller's own struct proc, so wakeup1(p) wakes p and nobody else.     *)
(***************************************************************************)
EXTENDS Naturals

CONSTANTS
  Procs,      \* the slots of ptable.proc
  initproc,   \* the slot of the first process
  NoProc,     \* the null pointer
  MaxPid      \* bound on nextpid

ASSUME ThreadGroupAssumption ==
  /\ initproc \in Procs
  /\ NoProc \notin Procs
  /\ MaxPid \in Nat \ {0}

VARIABLES
  state, pid, parent, tgid, thread_count, killed,   \* fields of struct proc
  nextpid,
  loc,        \* the call a thread is in: see Locs
  new,        \* the slot fork() or clone() has got from allocproc()
  panicked,   \* what the kernel has called panic() with, "no" if it has not
  escaped     \* history: threads that clone() was making when their group was
              \* killed, and those they have made

slotVars == <<state, pid, parent, tgid, thread_count, killed>>
tgVars == <<slotVars, nextpid, loc, new, panicked, escaped>>

Locs == {"user", "fork_alloc", "fork", "fork_set", "clone_alloc", "clone", "clone_set", "wait", "join"}

TgTypeOK ==
  /\ state \in [Procs -> {"UNUSED", "EMBRYO", "SLEEPING", "RUNNABLE", "ZOMBIE"}]
  /\ pid \in [Procs -> 0..MaxPid]
  /\ parent \in [Procs -> Procs \cup {NoProc}]
  /\ tgid \in [Procs -> 0..MaxPid]
  /\ thread_count \in [Procs -> Nat]
  /\ killed \in [Procs -> BOOLEAN]
  /\ nextpid \in 1..(MaxPid + 1)
  /\ loc \in [Procs -> Locs]
  /\ new \in [Procs -> Procs \cup {NoProc}]
  /\ panicked \in {"no", "init_exiting", "acquire"}
  /\ escaped \subseteq Procs

(* userinit() has made the first process. *)
TgInit ==
  /\ state = [p \in Procs |-> IF p = initproc THEN "RUNNABLE" ELSE "UNUSED"]
  /\ pid = [p \in Procs |-> IF p = initproc THEN 1 ELSE 0]
  /\ parent = [p \in Procs |-> NoProc]
  /\ tgid = [p \in Procs |-> IF p = initproc THEN 1 ELSE 0]
  /\ thread_count = [p \in Procs |-> IF p = initproc THEN 1 ELSE 0]
  /\ killed = [p \in Procs |-> FALSE]
  /\ nextpid = 2
  /\ loc = [p \in Procs |-> "user"]
  /\ new = [p \in Procs |-> NoProc]
  /\ panicked = "no"
  /\ escaped = {}

-----------------------------------------------------------------------------
In(p, l) == state[p] = "RUNNABLE" /\ loc[p] = l /\ panicked = "no"

Goto(p, l) == loc' = [loc EXCEPT ![p] = l]

IsLeader(p) == tgid[p] = pid[p]

Used == {p \in Procs : state[p] # "UNUSED"}

(* p->state after wakeup1(q) for each q in Q, nobody else asleep on q.  *)
Woken(Q) == [p \in Procs |-> IF p \in Q /\ state[p] = "SLEEPING" THEN "RUNNABLE" ELSE state[p]]

-----------------------------------------------------------------------------
(* fork() and clone() *)

(* allocproc() under the lock: parent, killed, tgid and thread_count are as the slot's last    *)
(* owner, or kill(), has left them.                                                           *)
AllocProc(p, np, l) ==
  /\ In(p, "user")
  /\ ~killed[p]
  /\ state[np] = "UNUSED"
  /\ nextpid <= MaxPid
  /\ state' = [state EXCEPT ![np] = "EMBRYO"]
  /\ pid' = [pid EXCEPT ![np] = nextpid]
  /\ nextpid' = nextpid + 1
  /\ new' = [new EXCEPT ![p] = np]
  /\ Goto(p, l)
  /\ UNCHANGED <<parent, tgid, thread_count, killed, panicked, escaped>>

(* The slot is UNUSED again and keeps its pid. *)
GiveBack(p) ==
  /\ state' = [state EXCEPT ![new[p]] = "UNUSED"]
  /\ new' = [new EXCEPT ![p] = NoProc]
  /\ Goto(p, "user")
  /\ escaped' = escaped \ {new[p]}
  /\ UNCHANGED <<pid, parent, tgid, thread_count, killed, nextpid, panicked>>

(* No memory for the kernel stack. *)
AllocFail(p) == (In(p, "fork_alloc") \/ In(p, "clone_alloc")) /\ GiveBack(p)

(* The rest of allocproc(), without the lock. *)
AllocSet(p) ==
  /\ tgid' = [tgid EXCEPT ![new[p]] = pid[new[p]]]
  /\ thread_count' = [thread_count EXCEPT ![new[p]] = 1]
  /\ \/ In(p, "fork_alloc") /\ Goto(p, "fork")
     \/ In(p, "clone_alloc") /\ Goto(p, "clone")
  /\ UNCHANGED <<state, pid, parent, killed, nextpid, new, panicked, escaped>>

(* fork(): no memory for the address space. *)
ForkFail(p) == In(p, "fork") /\ GiveBack(p)

ForkSet(p) ==
  /\ In(p, "fork")
  /\ parent' = [parent EXCEPT ![new[p]] = p]
  /\ Goto(p, "fork_set")
  /\ UNCHANGED <<state, pid, tgid, thread_count, killed, nextpid, new, panicked, escaped>>

ForkRun(p) ==
  /\ In(p, "fork_set")
  /\ state' = [state EXCEPT ![new[p]] = "RUNNABLE"]
  /\ new' = [new EXCEPT ![p] = NoProc]
  /\ Goto(p, "user")
  /\ UNCHANGED <<pid, parent, tgid, thread_count, killed, nextpid, panicked, escaped>>

(* A thread's parent is the leader of its group, whoever has called clone(). *)
CloneSet(p) ==
  /\ In(p, "clone")
  /\ parent' = [parent EXCEPT ![new[p]] = IF IsLeader(p) THEN p ELSE parent[p]]
  /\ tgid' = [tgid EXCEPT ![new[p]] = tgid[p]]
  /\ Goto(p, "clone_set")
  /\ escaped' = IF p \in escaped THEN escaped \cup {new[p]} ELSE escaped
  /\ UNCHANGED <<state, pid, thread_count, killed, nextpid, new, panicked>>

CloneRun(p) ==
  /\ In(p, "clone_set")
  /\ state' = [state EXCEPT ![new[p]] = "RUNNABLE"]
  /\ thread_count' = [thread_count EXCEPT ![parent[new[p]]] = @ + 1]
  /\ new' = [new EXCEPT ![p] = NoProc]
  /\ Goto(p, "user")
  /\ UNCHANGED <<pid, parent, tgid, killed, nextpid, panicked, escaped>>

-----------------------------------------------------------------------------
(* exit() *)

Children(p) == {q \in Procs : parent[q] = p}

Threads(p) == {q \in Procs : parent[q] = p /\ tgid[q] = pid[p]}

(* init does not exit, unless somebody has killed it.                        *)
ExitInit ==
  /\ In(initproc, "user")
  /\ killed[initproc]
  /\ panicked' = "init_exiting"
  /\ UNCHANGED <<slotVars, nextpid, loc, new, escaped>>

(* A thread of the caller is in the table: exit() calls kill(), which calls  *)
(* acquire() for the lock exit() holds.                                      *)
ExitPanic(p) ==
  /\ In(p, "user")
  /\ p # initproc
  /\ Threads(p) # {}
  /\ panicked' = "acquire"
  /\ UNCHANGED <<slotVars, nextpid, loc, new, escaped>>

(* Faulty variants: nobody is woken; the children are not passed on; the      *)
(* caller's threads are passed on alive.                                     *)
ExitSilently(p) ==
  /\ In(p, "user")
  /\ p # initproc
  /\ Threads(p) = {}
  /\ parent' = [q \in Procs |-> IF q \in Children(p) THEN initproc ELSE parent[q]]
  /\ state' = [state EXCEPT ![p] = "ZOMBIE"]
  /\ UNCHANGED <<pid, tgid, thread_count, killed, nextpid, loc, new, panicked, escaped>>

ExitKeepingChildren(p) ==
  /\ In(p, "user")
  /\ p # initproc
  /\ Threads(p) = {}
  /\ state' = [Woken({parent[p]}) EXCEPT ![p] = "ZOMBIE"]
  /\ UNCHANGED <<pid, parent, tgid, thread_count, killed, nextpid, loc, new, panicked, escaped>>

ExitWithThreads(p) ==
  /\ In(p, "user")
  /\ p # initproc
  /\ parent' = [q \in Procs |-> IF q \in Children(p) THEN initproc ELSE parent[q]]
  /\ state' = [Woken({parent[p]} \cup {initproc}) EXCEPT ![p] = "ZOMBIE"]
  /\ UNCHANGED <<pid, tgid, thread_count, killed, nextpid, loc, new, panicked, escaped>>

Exit(p) ==
  /\ In(p, "user")
  /\ p # initproc
  /\ Threads(p) = {}
  /\ parent' = [q \in Procs |-> IF q \in Children(p) THEN initproc ELSE parent[q]]
  /\ LET orphanZombie == \E q \in Children(p) : state[q] = "ZOMBIE"
     IN  state' = [Woken({parent[p]} \cup (IF orphanZombie THEN {initproc} ELSE {}))
                     EXCEPT ![p] = "ZOMBIE"]
  /\ UNCHANGED <<pid, tgid, thread_count, killed, nextpid, loc, new, panicked, escaped>>

-----------------------------------------------------------------------------
(* wait() and join() *)

(* The children wait() looks at: leaders that have never made a thread. *)
Kids(p) == {q \in Children(p) : IsLeader(q) /\ thread_count[q] = 1}

(* The threads join() looks at. *)
Joinable(p) == {q \in Procs : tgid[q] = pid[p] /\ pid[q] # pid[p]}

Enter(p, l) ==
  /\ In(p, "user")
  /\ ~killed[p]
  /\ Goto(p, l)
  /\ UNCHANGED <<slotVars, nextpid, new, panicked, escaped>>

(* The slot is given back. *)
Reap(p, q) ==
  /\ state[q] = "ZOMBIE"
  /\ state' = [state EXCEPT ![q] = "UNUSED"]
  /\ pid' = [pid EXCEPT ![q] = 0]
  /\ parent' = [parent EXCEPT ![q] = NoProc]
  /\ killed' = [killed EXCEPT ![q] = FALSE]
  /\ thread_count' = [thread_count EXCEPT ![q] = 0]
  /\ tgid' = [tgid EXCEPT ![q] = 0]
  /\ loc' = [loc EXCEPT ![p] = "user", ![q] = "user"]
  /\ escaped' = escaped \ {q}
  /\ UNCHANGED <<nextpid, new, panicked>>

WaitReap(p, q) == In(p, "wait") /\ q \in Kids(p) /\ Reap(p, q)

JoinReap(p, q) == In(p, "join") /\ q \in Joinable(p) /\ Reap(p, q)

(* Return -1, or go to sleep. *)
GiveUpOrSleep(p, kids) ==
  /\ \A q \in kids : state[q] # "ZOMBIE"
  /\ \/ /\ kids = {} \/ killed[p]
        /\ Goto(p, "user")
        /\ UNCHANGED state
     \/ /\ kids # {} /\ ~killed[p]
        /\ state' = [state EXCEPT ![p] = "SLEEPING"]
        /\ UNCHANGED loc
  /\ UNCHANGED <<pid, parent, tgid, thread_count, killed, nextpid, new, panicked, escaped>>

WaitElse(p) == In(p, "wait") /\ GiveUpOrSleep(p, Kids(p))

JoinElse(p) == In(p, "join") /\ GiveUpOrSleep(p, Joinable(p))

-----------------------------------------------------------------------------
(* kill(n): the first slot with that pid, UNUSED or not.  Killing a leader   *)
(* marks its group (faulty variant: only the leader) and wakes every sleeper *)
(* of the table.  A free slot is the leader of group 0.                      *)
LeaderOnly(q, n) == {q}
Group(q, n) == {r \in Procs : tgid[r] = n}

BeingCloned(n) == {new[r] : r \in {s \in Procs : loc[s] \in {"clone_alloc", "clone"} /\ tgid[s] = n}}

Kill(p, n) ==
  LET target == {q \in Procs : pid[q] = n} IN
  /\ In(p, "user")
  /\ ~killed[p]
  /\ \E q \in target :
       IF IsLeader(q)
       THEN /\ killed' = [r \in Procs |-> killed[r] \/ r \in Group(q, n)]
            /\ state' = Woken(Procs)
            /\ escaped' = escaped \cup BeingCloned(n)
       ELSE /\ killed' = [killed EXCEPT ![q] = TRUE]
            /\ state' = Woken({q})
            /\ UNCHANGED escaped
  /\ UNCHANGED <<pid, parent, tgid, thread_count, nextpid, loc, new, panicked>>

-----------------------------------------------------------------------------
TgNext ==
  \/ \E p, np \in Procs : AllocProc(p, np, "fork_alloc") \/ AllocProc(p, np, "clone_alloc")
  \/ \E p \in Procs :
       \/ AllocFail(p) \/ AllocSet(p) \/ ForkFail(p) \/ ForkSet(p) \/ ForkRun(p) \/ CloneSet(p) \/ CloneRun(p)
       \/ Exit(p) \/ ExitPanic(p)
       \/ Enter(p, "wait") \/ Enter(p, "join") \/ WaitElse(p) \/ JoinElse(p)
  \/ ExitInit
  \/ \E p, q \in Procs : WaitReap(p, q) \/ JoinReap(p, q)
  \/ \E p \in Procs, n \in 0..MaxPid : Kill(p, n)

TgSpec == TgInit /\ [][TgNext]_tgVars

-----------------------------------------------------------------------------
(* No exit is missed: a process that sleeps in wait() or join() has nothing  *)
(* to reap, also when the children of a process that died are passed to       *)
(* init, and when wait() and join() share one channel.                       *)
NoMissedExit ==
  \A p \in Procs : state[p] = "SLEEPING" =>
    /\ loc[p] = "wait" => \A q \in Kids(p) : state[q] # "ZOMBIE"
    /\ loc[p] = "join" => \A q \in Joinable(p) : state[q] # "ZOMBIE"

(* The leader outlives its threads: every thread that runs, sleeps or waits  *)
(* to be joined has as its parent the leader of its group, which has not     *)
(* exited.  wait() frees the page table the group shares when it reaps the   *)
(* leader.                                                                   *)
LeaderOutlives ==
  \A q \in Procs :
    state[q] \in {"RUNNABLE", "SLEEPING", "ZOMBIE"} /\ ~IsLeader(q) =>
      /\ parent[q] # NoProc
      /\ pid[parent[q]] = tgid[q]
      /\ state[parent[q]] \in {"RUNNABLE", "SLEEPING"}

(* No parent pointer dangles: the parent of a slot in use is alive, so       *)
(* wakeup1(curproc->parent) in exit() finds the process that waits.          *)
ParentAlive ==
  \A q \in Procs \ {initproc} :
    state[q] \in {"RUNNABLE", "SLEEPING", "ZOMBIE"} =>
      /\ parent[q] # NoProc
      /\ state[parent[q]] \in {"RUNNABLE", "SLEEPING"}

(* A kill reaches the whole group: once a leader is marked no thread of its   *)
(* group runs or sleeps unmarked, also one that clone() has yet to start.     *)
(* The exception is a thread that clone() was making when the leader was      *)
(* killed, between allocproc() and the setting of its tgid (proc.c:599), and  *)
(* the threads it makes in turn.                                              *)
KillReachesGroup ==
  \A p, q \in Procs :
    /\ state[p] \in {"RUNNABLE", "SLEEPING"} /\ IsLeader(p) /\ killed[p]
    /\ state[q] \in {"RUNNABLE", "SLEEPING"} /\ tgid[q] = pid[p]
    => killed[q] \/ q \in escaped

-----------------------------------------------------------------------------
(* The inductive invariant *)

Alive(p) == state[p] \in {"RUNNABLE", "SLEEPING"}

(* Pids are given out once.  A slot that allocproc() has lost again keeps its pid. *)
PidInv ==
  /\ \A p \in Procs : pid[p] < nextpid /\ tgid[p] < nextpid
  /\ \A p, q \in Procs : pid[p] = pid[q] /\ pid[p] # 0 => p = q
  /\ \A p \in Procs : state[p] # "UNUSED" => pid[p] # 0

(* A slot that allocproc() has not yet set up. *)
Blank(q) == \E r \in Procs : new[r] = q /\ loc[r] \in {"fork_alloc", "clone_alloc"}

(* Whoever makes a child has a slot of its own for it, which nobody else sees running. *)
SlotInv ==
  /\ \A p \in Procs :
       /\ state[p] \in {"UNUSED", "EMBRYO", "ZOMBIE"} => loc[p] = "user"
       /\ state[p] = "SLEEPING" => loc[p] \in {"wait", "join"}
       /\ new[p] # NoProc <=> loc[p] \in {"fork_alloc", "fork", "fork_set", "clone_alloc", "clone", "clone_set"}
       /\ new[p] # NoProc => state[new[p]] = "EMBRYO"
       /\ loc[p] \in {"fork", "fork_set", "clone"} => IsLeader(new[p])
       /\ loc[p] \in {"fork_set", "clone_set"} => parent[new[p]] # NoProc
  /\ \A p, q \in Procs : new[p] = new[q] /\ new[p] # NoProc => p = q

(* A parent is alive; only init has none. *)
ParentInv ==
  /\ parent[initproc] = NoProc /\ Alive(initproc)
  /\ \A q \in Procs :
       /\ parent[q] # NoProc => parent[q] # q /\ Alive(parent[q])
       /\ state[q] \notin {"UNUSED", "EMBRYO"} /\ q # initproc => parent[q] # NoProc

(* The parent of a thread is the leader of its group. *)
GroupInv ==
  \A q \in Procs :
    state[q] # "UNUSED" /\ ~Blank(q) /\ ~IsLeader(q) =>
      parent[q] # NoProc /\ pid[parent[q]] = tgid[q]

(* The tgid left in a slot names no process that uses another slot. *)
StaleInv ==
  \A p, q \in Procs :
    (state[q] = "UNUSED" \/ Blank(q)) /\ state[p] # "UNUSED" /\ p # q => tgid[q] # pid[p]

(* A thread of a killed group that is not marked, or is being made, has escaped. *)
KillInv ==
  \A p, q \in Procs :
    Alive(p) /\ IsLeader(p) /\ killed[p] /\ tgid[q] = pid[p] /\ (Alive(q) \/ state[q] = "EMBRYO")
      => /\ killed[q] \/ q \in escaped
         /\ loc[q] \in {"clone_alloc", "clone"} => q \in escaped \/ new[q] \in escaped

(* How the slots of the table hang together; the proofs rest on it. *)
TgInv == TgTypeOK /\ PidInv /\ SlotInv /\ ParentInv /\ GroupInv /\ StaleInv /\ KillInv /\ NoMissedExit

-----------------------------------------------------------------------------
(* What the comments of proc.c say and the code does not do. *)

(* exit(), line 262: "Pass abandoned children and threads to init."  A       *)
(* process that exits before it has joined its threads panics instead.       *)
AbandonedPassToInit ==
  panicked # "acquire"

(* wait(), line 283: "Wait for a child process to exit and return its pid."  *)
(* A process that is not killed does not come out of wait() without a pid    *)
(* while it has a child process.                                             *)
WaitsForChild ==
  [][\A p \in Procs :
       In(p, "wait") /\ loc'[p] = "user" /\ UNCHANGED pid /\ ~killed[p] =>
         \A q \in Children(p) \cap Used : ~IsLeader(q)]_tgVars

(* kill(), line 507: "Kill all threads in the group".  Once the leader is    *)
(* marked no thread of its group runs on unmarked.                           *)
GroupKilled ==
  \A p, q \in Procs :
    /\ state[p] = "RUNNABLE" /\ IsLeader(p) /\ killed[p]
    /\ state[q] = "RUNNABLE" /\ parent[q] = p /\ tgid[q] = pid[p]
    => killed[q]

(* kill(), line 492: "Kill the process with the given pid."  A slot that no  *)
(* process has is not marked.                                                *)
FreeUnmarked ==
  \A q \in Procs : state[q] = "UNUSED" => ~killed[q]
=============================================================================
