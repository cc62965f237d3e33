----------------------------- MODULE KernelProofs -----------------------------
(***************************************************************************)
(* What is proved of two parts of the xv6 kernels that share no state: the *)
(* process table of lab9 (ThreadGroup), for a table of any size and any    *)
(* number of pids, and the buffer cache of lab6 (BufferCache), for any     *)
(* number of users, buffers and blocks.  TgInv and IInv, their invariants, *)
(* are inductive: one lemma for each conjunct.  Every step of the cache is *)
(* a step of BlockStore or a stutter.                                      *)
(***************************************************************************)
EXTENDS ThreadGroup, BufferCache, FiniteSetTheorems, WellFoundedInduction, TLAPS

-----------------------------------------------------------------------------
(* The process table *)

(* The facts about the constants that the proofs use. *)
LEMMA TgConstants ==
  /\ MaxPid \in Nat /\ 0 \in 0 .. MaxPid
  /\ initproc \in Procs /\ NoProc \notin Procs
BY ThreadGroupAssumption

-----------------------------------------------------------------------------
(* Types stay.                                                               *)
LEMMA TgTypeStep == ASSUME TgInv, [TgNext]_tgVars PROVE TgTypeOK'
<1>. USE TgConstants DEF TgInv, TgTypeOK, SlotInv, In, Goto, Locs, slotVars
<1>1. ASSUME NEW p \in Procs, NEW np \in Procs, NEW l \in {"fork_alloc", "clone_alloc"}, AllocProc(p, np, l)
      PROVE TgTypeOK'
  <2>1. pid' \in [Procs -> 0 .. MaxPid] /\ nextpid' \in 1 .. (MaxPid + 1)
    BY <1>1 DEF AllocProc
  <2>2. /\ state' \in [Procs -> {"UNUSED", "EMBRYO", "SLEEPING", "RUNNABLE", "ZOMBIE"}]
        /\ loc' \in [Procs -> Locs]
        /\ new' \in [Procs -> Procs \cup {NoProc}]
    BY <1>1 DEF AllocProc
  <2>. QED  BY <1>1, <2>1, <2>2 DEF AllocProc
<1>2. ASSUME NEW p \in Procs, AllocFail(p) \/ ForkFail(p) PROVE TgTypeOK'
  BY <1>2 DEF AllocFail, ForkFail, GiveBack
<1>13. ASSUME NEW p \in Procs, AllocSet(p) PROVE TgTypeOK'
  <2>1. new[p] \in Procs /\ pid[new[p]] \in 0 .. MaxPid
    BY <1>13 DEF AllocSet
  <2>2. tgid' \in [Procs -> 0 .. MaxPid] /\ thread_count' \in [Procs -> Nat] /\ loc' \in [Procs -> Locs]
    BY <1>13, <2>1 DEF AllocSet
  <2>. QED  BY <1>13, <2>2 DEF AllocSet
<1>3. ASSUME NEW p \in Procs, ForkSet(p) \/ ForkRun(p) PROVE TgTypeOK'
  BY <1>3 DEF ForkSet, ForkRun
<1>4. ASSUME NEW p \in Procs, CloneSet(p) PROVE TgTypeOK'
  BY <1>4 DEF CloneSet, IsLeader
<1>5. ASSUME NEW p \in Procs, CloneRun(p) PROVE TgTypeOK'
  <2>1. new[p] \in Procs /\ parent[new[p]] \in Procs
    BY <1>5 DEF CloneRun
  <2>2. thread_count' \in [Procs -> Nat]
    BY <1>5, <2>1 DEF CloneRun
  <2>. QED  BY <1>5, <2>1, <2>2 DEF CloneRun
<1>6. ASSUME NEW p \in Procs, Exit(p) PROVE TgTypeOK'
  BY <1>6 DEF Exit, Woken
<1>7. ASSUME NEW p \in Procs, ExitPanic(p) \/ ExitInit PROVE TgTypeOK'
  BY <1>7 DEF ExitPanic, ExitInit
<1>8. ASSUME NEW p \in Procs, NEW l \in {"wait", "join"}, Enter(p, l) PROVE TgTypeOK'
  BY <1>8 DEF Enter
<1>9. ASSUME NEW p \in Procs, WaitElse(p) \/ JoinElse(p) PROVE TgTypeOK'
  BY <1>9 DEF WaitElse, JoinElse, GiveUpOrSleep
<1>10. ASSUME NEW p \in Procs, NEW q \in Procs, Reap(p, q) PROVE TgTypeOK'
  BY <1>10 DEF Reap
<1>11. ASSUME NEW p \in Procs, NEW n \in 0 .. MaxPid, Kill(p, n) PROVE TgTypeOK'
  <2>1. escaped' \subseteq Procs
    <3>1. BeingCloned(n) \subseteq Procs
      BY DEF BeingCloned
    <3>. QED  BY <1>11, <3>1 DEF Kill
  <2>2. killed' \in [Procs -> BOOLEAN]
    <3>1. PICK q \in Procs : \/ killed' = [r \in Procs |-> killed[r] \/ r \in Group(q, n)]
                            \/ killed' = [killed EXCEPT ![q] = TRUE]
      BY <1>11 DEF Kill
    <3>2. CASE killed' = [r \in Procs |-> killed[r] \/ r \in Group(q, n)]
      BY <3>2, Zenon
    <3>3. CASE killed' = [killed EXCEPT ![q] = TRUE]
      BY <3>3
    <3>. QED  BY <3>1, <3>2, <3>3
  <2>3. state' \in [Procs -> {"UNUSED", "EMBRYO", "SLEEPING", "RUNNABLE", "ZOMBIE"}]
    BY <1>11 DEF Kill, Woken
  <2>. QED  BY <1>11, <2>1, <2>2, <2>3 DEF Kill
<1>12. ASSUME UNCHANGED tgVars PROVE TgTypeOK'
  BY <1>12 DEF tgVars
<1>. QED
  BY <1>1, <1>2, <1>3, <1>4, <1>5, <1>6, <1>7, <1>8, <1>9, <1>10, <1>11, <1>12,
     <1>13 DEF TgNext, WaitReap, JoinReap

(* Pids are given out once. *)
LEMMA PidStep == ASSUME TgInv, [TgNext]_tgVars PROVE PidInv'
<1>. USE TgConstants DEF TgInv, TgTypeOK, PidInv, In, slotVars
<1>1. ASSUME NEW p \in Procs, NEW np \in Procs, NEW l, AllocProc(p, np, l) PROVE PidInv'
  BY <1>1 DEF AllocProc
<1>2. ASSUME NEW p \in Procs, AllocFail(p) \/ ForkFail(p) \/ ForkSet(p) \/ ForkRun(p) PROVE PidInv'
  BY <1>2 DEF AllocFail, ForkFail, GiveBack, ForkSet, ForkRun, SlotInv
<1>9. ASSUME NEW p \in Procs, AllocSet(p) PROVE PidInv'
  BY <1>9 DEF AllocSet, SlotInv
<1>3. ASSUME NEW p \in Procs, CloneSet(p) \/ CloneRun(p) PROVE PidInv'
  BY <1>3 DEF CloneSet, CloneRun, SlotInv
<1>4. ASSUME NEW p \in Procs, Exit(p) PROVE PidInv'
  BY <1>4 DEF Exit, Woken
<1>5. ASSUME NEW p \in Procs, WaitElse(p) \/ JoinElse(p) PROVE PidInv'
  BY <1>5 DEF WaitElse, JoinElse, GiveUpOrSleep
<1>6. ASSUME NEW p \in Procs, NEW q \in Procs, Reap(p, q) PROVE PidInv'
  BY <1>6 DEF Reap
<1>7. ASSUME NEW p \in Procs, NEW n \in 0 .. MaxPid, Kill(p, n) PROVE PidInv'
  BY <1>7 DEF Kill, Woken
<1>8. ASSUME UNCHANGED slotVars, UNCHANGED nextpid PROVE PidInv'
  BY <1>8
<1>. QED
  BY <1>1, <1>2, <1>3, <1>4, <1>5, <1>6, <1>7, <1>8, <1>9
     DEF TgNext, WaitReap, JoinReap, ExitPanic, ExitInit, Enter, tgVars

(* Two processes never make a child in one slot, and the slot stays EMBRYO meanwhile. *)
LEMMA SlotStep == ASSUME TgInv, [TgNext]_tgVars PROVE SlotInv'
<1>. USE TgConstants DEF TgInv, TgTypeOK, SlotInv, In, Goto, IsLeader, slotVars
<1>1. ASSUME NEW p \in Procs, NEW np \in Procs, NEW l \in {"fork_alloc", "clone_alloc"}, AllocProc(p, np, l)
      PROVE SlotInv'
  <2>1. \A q \in Procs : new[q] # np
    BY <1>1 DEF AllocProc
  <2>. QED  BY <1>1, <2>1 DEF AllocProc
<1>2. ASSUME NEW p \in Procs, AllocFail(p) \/ ForkFail(p) PROVE SlotInv'
  BY <1>2 DEF AllocFail, ForkFail, GiveBack
<1>13. ASSUME NEW p \in Procs, AllocSet(p) PROVE SlotInv'
  BY <1>13 DEF AllocSet
<1>3. ASSUME NEW p \in Procs, ForkSet(p) PROVE SlotInv'
  BY <1>3 DEF ForkSet
<1>4. ASSUME NEW p \in Procs, ForkRun(p) PROVE SlotInv'
  BY <1>4 DEF ForkRun
<1>5. ASSUME NEW p \in Procs, CloneSet(p) PROVE SlotInv'
  BY <1>5 DEF CloneSet, ParentInv, GroupInv, Blank
<1>6. ASSUME NEW p \in Procs, CloneRun(p) PROVE SlotInv'
  BY <1>6 DEF CloneRun
<1>7. ASSUME NEW p \in Procs, Exit(p) PROVE SlotInv'
  BY <1>7 DEF Exit, Woken
<1>8. ASSUME NEW p \in Procs, NEW l \in {"wait", "join"}, Enter(p, l) PROVE SlotInv'
  BY <1>8 DEF Enter
<1>9. ASSUME NEW p \in Procs, WaitElse(p) \/ JoinElse(p) PROVE SlotInv'
  BY <1>9 DEF WaitElse, JoinElse, GiveUpOrSleep
<1>10. ASSUME NEW p \in Procs, NEW q \in Procs, WaitReap(p, q) \/ JoinReap(p, q) PROVE SlotInv'
  <2>1. p # q /\ new[p] = NoProc /\ new[q] = NoProc /\ loc[q] = "user"
    BY <1>10 DEF WaitReap, JoinReap, Reap
  <2>2. \A r \in Procs : new[r] # q
    BY <1>10 DEF WaitReap, JoinReap, Reap
  <2>. QED  BY <1>10, <2>1, <2>2 DEF WaitReap, JoinReap, Reap
<1>11. ASSUME NEW p \in Procs, NEW n \in 0 .. MaxPid, Kill(p, n) PROVE SlotInv'
  BY <1>11 DEF Kill, Woken
<1>12. ASSUME UNCHANGED <<slotVars, loc, new>> PROVE SlotInv'
  BY <1>12
<1>. QED
  BY <1>1, <1>2, <1>3, <1>4, <1>5, <1>6, <1>7, <1>8, <1>9, <1>10, <1>11, <1>12,
     <1>13 DEF TgNext, ExitPanic, ExitInit, tgVars

-----------------------------------------------------------------------------
(* exit() passes the children on to init; the parent of a process does not die first. *)
LEMMA ParentStep == ASSUME TgInv, [TgNext]_tgVars PROVE ParentInv'
<1>. USE TgConstants DEF TgInv, TgTypeOK, ParentInv, Alive, In, Goto, slotVars
<1>1. ASSUME NEW p \in Procs, NEW np \in Procs, NEW l \in {"fork_alloc", "clone_alloc"}, AllocProc(p, np, l)
      PROVE ParentInv'
  BY <1>1 DEF AllocProc
<1>2. ASSUME NEW p \in Procs, AllocFail(p) \/ ForkFail(p) PROVE ParentInv'
  BY <1>2 DEF AllocFail, ForkFail, GiveBack, SlotInv
<1>11. ASSUME NEW p \in Procs, AllocSet(p) PROVE ParentInv'
  BY <1>11 DEF AllocSet
<1>3. ASSUME NEW p \in Procs, ForkSet(p) PROVE ParentInv'
  BY <1>3 DEF ForkSet, SlotInv
<1>4. ASSUME NEW p \in Procs, ForkRun(p) \/ CloneRun(p) PROVE ParentInv'
  BY <1>4 DEF ForkRun, CloneRun, SlotInv
<1>5. ASSUME NEW p \in Procs, CloneSet(p) PROVE ParentInv'
  BY <1>5 DEF CloneSet, SlotInv, GroupInv, IsLeader, Blank
<1>6. ASSUME NEW p \in Procs, Exit(p) PROVE ParentInv'
  <2>1. \A q \in Procs : parent'[q] # NoProc => parent'[q] # p /\ parent'[q] # q
    BY <1>6 DEF Exit, Children
  <2>2. \A q \in Procs : q # p /\ Alive(q) => state'[q] \in {"SLEEPING", "RUNNABLE"}
    BY <1>6 DEF Exit, Woken
  <2>3. \A q \in Procs : state'[q] \notin {"UNUSED", "EMBRYO"} => state[q] \notin {"UNUSED", "EMBRYO"}
    BY <1>6 DEF Exit, Woken
  <2>4. \A q \in Procs : parent'[q] = IF parent[q] = p THEN initproc ELSE parent[q]
    BY <1>6 DEF Exit, Children
  <2>5. p # initproc
    BY <1>6 DEF Exit
  <2>. QED  BY <2>1, <2>2, <2>3, <2>4, <2>5
<1>7. ASSUME NEW p \in Procs, WaitElse(p) \/ JoinElse(p) PROVE ParentInv'
  BY <1>7 DEF WaitElse, JoinElse, GiveUpOrSleep
<1>8. ASSUME NEW p \in Procs, NEW q \in Procs, Reap(p, q) PROVE ParentInv'
  BY <1>8 DEF Reap
<1>9. ASSUME NEW p \in Procs, NEW n \in 0 .. MaxPid, Kill(p, n) PROVE ParentInv'
  BY <1>9 DEF Kill, Woken
<1>10. ASSUME UNCHANGED slotVars PROVE ParentInv'
  BY <1>10
<1>. QED
  BY <1>1, <1>2, <1>3, <1>4, <1>5, <1>6, <1>7, <1>8, <1>9, <1>10, <1>11
     DEF TgNext, WaitReap, JoinReap, ExitPanic, ExitInit, Enter, tgVars

(* allocproc() blanks a slot and sets it up, or gives it back. *)
LEMMA BlankMade ==
  ASSUME TgInv, NEW p \in Procs, NEW np \in Procs, NEW l \in {"fork_alloc", "clone_alloc"}, AllocProc(p, np, l)
  PROVE \A q \in Procs : Blank(q)' <=> Blank(q) \/ q = np
BY TgConstants DEF TgInv, TgTypeOK, SlotInv, AllocProc, Blank, In, Goto

LEMMA BlankGone ==
  ASSUME TgInv, NEW p \in Procs, AllocSet(p) \/ AllocFail(p)
  PROVE \A q \in Procs : Blank(q)' <=> Blank(q) /\ q # new[p]
BY TgConstants DEF TgInv, TgTypeOK, SlotInv, AllocSet, AllocFail, GiveBack, Blank, In, Goto

LEMMA BlankKept ==
  ASSUME TgInv, NEW p \in Procs,
         \/ ForkFail(p) \/ ForkSet(p) \/ ForkRun(p) \/ CloneSet(p) \/ CloneRun(p) \/ WaitElse(p) \/ JoinElse(p)
         \/ \E q \in Procs : WaitReap(p, q) \/ JoinReap(p, q)
         \/ UNCHANGED <<loc, new>>
  PROVE \A q \in Procs : Blank(q)' <=> Blank(q)
<1>. USE TgConstants DEF TgInv, TgTypeOK, SlotInv, Blank, In, Goto
<1>1. CASE ForkFail(p) \/ ForkSet(p) \/ ForkRun(p) \/ CloneSet(p) \/ CloneRun(p)
  BY <1>1 DEF ForkFail, GiveBack, ForkSet, ForkRun, CloneSet, CloneRun
<1>2. CASE WaitElse(p) \/ JoinElse(p)
  BY <1>2 DEF WaitElse, JoinElse, GiveUpOrSleep
<1>3. CASE \E q \in Procs : WaitReap(p, q) \/ JoinReap(p, q)
  <2>1. PICK q \in Procs : WaitReap(p, q) \/ JoinReap(p, q)
    BY <1>3
  <2>2. loc' = [loc EXCEPT ![p] = "user", ![q] = "user"] /\ new' = new /\ loc[p] \in {"wait", "join"} /\ loc[q] = "user"
    BY <2>1 DEF WaitReap, JoinReap, Reap
  <2>. QED  BY <2>2
<1>4. CASE UNCHANGED <<loc, new>>
  BY <1>4
<1>. QED  BY <1>1, <1>2, <1>3, <1>4

(* A leader that exits has no thread left, or the kernel panics. *)
LEMMA GroupStep == ASSUME TgInv, [TgNext]_tgVars PROVE GroupInv'
<1>. USE TgConstants DEF TgInv, TgTypeOK, GroupInv, IsLeader, In, Goto, slotVars
<1>1. ASSUME NEW p \in Procs, NEW np \in Procs, NEW l \in {"fork_alloc", "clone_alloc"}, AllocProc(p, np, l)
      PROVE GroupInv'
  BY <1>1, BlankMade DEF AllocProc, ParentInv, Alive
<1>2. ASSUME NEW p \in Procs, AllocFail(p) PROVE GroupInv'
  BY <1>2, BlankGone DEF AllocFail, GiveBack, SlotInv
<1>3. ASSUME NEW p \in Procs, ForkFail(p) \/ ForkSet(p) PROVE GroupInv'
  BY <1>3, BlankKept DEF ForkFail, GiveBack, ForkSet, SlotInv
<1>4. ASSUME NEW p \in Procs, ForkRun(p) \/ CloneRun(p) PROVE GroupInv'
  BY <1>4, BlankKept DEF ForkRun, CloneRun, SlotInv
<1>5. ASSUME NEW p \in Procs, CloneSet(p) PROVE GroupInv'
  BY <1>5, BlankKept DEF CloneSet, SlotInv, Blank
<1>6. ASSUME NEW p \in Procs, Exit(p) PROVE GroupInv'
  <2>1. \A q \in Procs : state[q] # "UNUSED" /\ ~Blank(q) /\ tgid[q] # pid[q] => parent[q] # p
    BY <1>6 DEF Exit, Threads
  <2>2. \A q \in Procs : state'[q] # "UNUSED" => state[q] # "UNUSED"
    BY <1>6 DEF Exit, Woken
  <2>3. \A q \in Procs : parent[q] # p => parent'[q] = parent[q]
    BY <1>6 DEF Exit, Children
  <2>4. \A q \in Procs : Blank(q)' <=> Blank(q)
    BY <1>6, BlankKept DEF Exit
  <2>. QED  BY <1>6, <2>1, <2>2, <2>3, <2>4 DEF Exit
<1>7. ASSUME NEW p \in Procs, WaitElse(p) \/ JoinElse(p) PROVE GroupInv'
  BY <1>7, BlankKept DEF WaitElse, JoinElse, GiveUpOrSleep
<1>8. ASSUME NEW p \in Procs, NEW q \in Procs, WaitReap(p, q) \/ JoinReap(p, q) PROVE GroupInv'
  <2>1. \A r \in Procs : Blank(r)' <=> Blank(r)
    BY <1>8, BlankKept, Zenon
  <2>2. \A r \in Procs : parent[r] # q
    BY <1>8 DEF WaitReap, JoinReap, Reap, ParentInv, Alive
  <2>. QED  BY <1>8, <2>1, <2>2 DEF WaitReap, JoinReap, Reap
<1>9. ASSUME NEW p \in Procs, NEW n \in 0 .. MaxPid, Kill(p, n) PROVE GroupInv'
  BY <1>9, BlankKept DEF Kill, Woken
<1>10. ASSUME UNCHANGED <<slotVars, new>>, loc' = loc \/ \E p \in Procs, l \in {"wait", "join"} : Enter(p, l)
       PROVE GroupInv'
  BY <1>10 DEF Enter, Blank, SlotInv
<1>11. ASSUME NEW p \in Procs, AllocSet(p) PROVE GroupInv'
  BY <1>11, BlankGone DEF AllocSet, SlotInv
<1>. QED
  BY <1>1, <1>2, <1>3, <1>4, <1>5, <1>6, <1>7, <1>8, <1>9, <1>10, <1>11
     DEF TgNext, ExitPanic, ExitInit, Enter, tgVars

(* The pid of a slot goes with its owner, and the tgid of a slot that is given back is 0 or a *)
(* pid of its own.                                                                            *)
LEMMA StaleStep == ASSUME TgInv, [TgNext]_tgVars PROVE StaleInv'
<1>. USE TgConstants DEF TgInv, TgTypeOK, StaleInv, In, Goto, slotVars
<1>1. ASSUME NEW p \in Procs, NEW np \in Procs, NEW l \in {"fork_alloc", "clone_alloc"}, AllocProc(p, np, l)
      PROVE StaleInv'
  <2>1. \A q \in Procs : Blank(q)' <=> Blank(q) \/ q = np
    BY <1>1, BlankMade
  <2>2. /\ state[np] = "UNUSED" /\ state' = [state EXCEPT ![np] = "EMBRYO"]
        /\ pid' = [pid EXCEPT ![np] = nextpid] /\ tgid' = tgid
    BY <1>1 DEF AllocProc
  <2>3. \A q \in Procs : tgid[q] # nextpid
    BY DEF PidInv
  <2>. QED  BY <2>1, <2>2, <2>3
<1>2. ASSUME NEW p \in Procs, AllocFail(p) PROVE StaleInv'
  <2>1. \A q \in Procs : Blank(q)' => Blank(q)
    BY <1>2, BlankGone, Zenon
  <2>2. new[p] \in Procs /\ Blank(new[p])
    BY <1>2 DEF AllocFail, SlotInv, Blank
  <2>3. state' = [state EXCEPT ![new[p]] = "UNUSED"] /\ UNCHANGED <<pid, tgid>>
    BY <1>2 DEF AllocFail, GiveBack
  <2>. QED  BY <2>1, <2>2, <2>3
<1>3. ASSUME NEW p \in Procs, ForkFail(p) PROVE StaleInv'
  <2>1. \A q \in Procs : Blank(q)' => Blank(q)
    BY <1>3, BlankKept, Zenon
  <2>2. new[p] \in Procs /\ tgid[new[p]] = pid[new[p]] /\ pid[new[p]] # 0
    BY <1>3 DEF ForkFail, SlotInv, PidInv, IsLeader
  <2>3. state' = [state EXCEPT ![new[p]] = "UNUSED"] /\ UNCHANGED <<pid, tgid>>
    BY <1>3 DEF ForkFail, GiveBack
  <2>. QED  BY <2>1, <2>2, <2>3 DEF PidInv
<1>4. ASSUME NEW p \in Procs, ForkSet(p) \/ ForkRun(p) \/ CloneRun(p) PROVE StaleInv'
  <2>1. \A q \in Procs : Blank(q)' <=> Blank(q)
    BY <1>4, BlankKept, Zenon
  <2>2. UNCHANGED <<pid, tgid>> /\ \A q \in Procs : (state'[q] = "UNUSED" <=> state[q] = "UNUSED")
    BY <1>4 DEF ForkSet, ForkRun, CloneRun, SlotInv
  <2>. QED  BY <2>1, <2>2
<1>5. ASSUME NEW p \in Procs, CloneSet(p) PROVE StaleInv'
  BY <1>5, BlankKept DEF CloneSet, SlotInv, Blank
<1>6. ASSUME NEW p \in Procs, Exit(p) PROVE StaleInv'
  BY <1>6, BlankKept DEF Exit, Woken
<1>7. ASSUME NEW p \in Procs, WaitElse(p) \/ JoinElse(p) PROVE StaleInv'
  BY <1>7, BlankKept DEF WaitElse, JoinElse, GiveUpOrSleep
<1>8. ASSUME NEW p \in Procs, NEW q \in Procs, WaitReap(p, q) \/ JoinReap(p, q) PROVE StaleInv'
  <2>1. \A r \in Procs : Blank(r)' <=> Blank(r)
    BY <1>8, BlankKept, Zenon
  <2>2. /\ state' = [state EXCEPT ![q] = "UNUSED"] /\ pid' = [pid EXCEPT ![q] = 0]
        /\ tgid' = [tgid EXCEPT ![q] = 0]
    BY <1>8 DEF WaitReap, JoinReap, Reap
  <2>. QED  BY <2>1, <2>2 DEF PidInv
<1>9. ASSUME NEW p \in Procs, NEW n \in 0 .. MaxPid, Kill(p, n) PROVE StaleInv'
  BY <1>9, BlankKept DEF Kill, Woken
<1>10. ASSUME UNCHANGED <<slotVars, new>>, loc' = loc \/ \E p \in Procs, l \in {"wait", "join"} : Enter(p, l)
       PROVE StaleInv'
  BY <1>10 DEF Enter, Blank, SlotInv
<1>11. ASSUME NEW p \in Procs, AllocSet(p) PROVE StaleInv'
  <2>1. \A q \in Procs : Blank(q)' <=> Blank(q) /\ q # new[p]
    BY <1>11, BlankGone, Zenon
  <2>2. new[p] \in Procs /\ state[new[p]] = "EMBRYO"
    BY <1>11 DEF AllocSet, SlotInv
  <2>3. UNCHANGED <<state, pid>> /\ tgid' = [tgid EXCEPT ![new[p]] = pid[new[p]]]
    BY <1>11 DEF AllocSet
  <2>. QED  BY <2>1, <2>2, <2>3
<1>. QED
  BY <1>1, <1>2, <1>3, <1>4, <1>5, <1>6, <1>7, <1>8, <1>9, <1>10, <1>11
     DEF TgNext, ExitPanic, ExitInit, Enter, tgVars

-----------------------------------------------------------------------------
(* A leader is the one process with its pid; the threads of its group are its children. *)
LEMMA ThreadsOfLeader ==
  ASSUME TgInv, NEW p \in Procs, NEW q \in Procs,
         state[p] # "UNUSED", state[q] # "UNUSED", tgid[q] = pid[p], q # p
  PROVE parent[q] = p
BY DEF TgInv, TgTypeOK, PidInv, ParentInv, GroupInv, StaleInv, IsLeader

(* Who falls asleep in wait() or join() has seen the table; who becomes a zombie, or passes *)
(* a zombie to init, wakes the parent.                                                     *)
LEMMA SleepStep == ASSUME TgInv, [TgNext]_tgVars PROVE NoMissedExit'
<1>. USE TgConstants DEF TgInv, TgTypeOK, NoMissedExit, In, Goto, slotVars, Kids, Joinable, Children, IsLeader
<1>1. ASSUME NEW p \in Procs, NEW np \in Procs, NEW l \in {"fork_alloc", "clone_alloc"}, AllocProc(p, np, l)
      PROVE NoMissedExit'
  BY <1>1 DEF AllocProc
<1>2. ASSUME NEW p \in Procs, AllocFail(p) \/ ForkFail(p) PROVE NoMissedExit'
  BY <1>2 DEF AllocFail, ForkFail, GiveBack
<1>13. ASSUME NEW p \in Procs, AllocSet(p) PROVE NoMissedExit'
  BY <1>13 DEF AllocSet, SlotInv
<1>3. ASSUME NEW p \in Procs, ForkSet(p) \/ ForkRun(p) PROVE NoMissedExit'
  BY <1>3 DEF ForkSet, ForkRun, SlotInv
<1>4. ASSUME NEW p \in Procs, CloneSet(p) PROVE NoMissedExit'
  BY <1>4 DEF CloneSet, SlotInv
<1>5. ASSUME NEW p \in Procs, CloneRun(p) PROVE NoMissedExit'
  BY <1>5 DEF CloneRun, SlotInv, ParentInv, Alive
<1>6. ASSUME NEW p \in Procs, Exit(p) PROVE NoMissedExit'
  <2>1. \A q \in Procs : state'[q] = "SLEEPING" =>
           /\ state[q] = "SLEEPING" /\ q # p /\ q # parent[p]
           /\ q = initproc => \A r \in Procs : parent[r] = p => state[r] # "ZOMBIE"
    BY <1>6 DEF Exit, Woken
  <2>2. \A q \in Procs : state'[q] = "ZOMBIE" => q = p \/ state[q] = "ZOMBIE"
    BY <1>6 DEF Exit, Woken
  <2>3. \A q \in Procs : parent'[q] = IF parent[q] = p THEN initproc ELSE parent[q]
    BY <1>6 DEF Exit
  <2>4. UNCHANGED <<pid, tgid, thread_count, loc>>
    BY <1>6 DEF Exit
  <2>5. state[p] = "RUNNABLE" /\ parent[p] # p
    BY <1>6 DEF Exit, ParentInv
  <2>6. ASSUME NEW r \in Procs, state'[r] = "SLEEPING", loc'[r] = "wait", NEW q \in Procs,
               parent'[q] = r, pid'[q] = tgid'[q], thread_count'[q] = 1
        PROVE state'[q] # "ZOMBIE"
    BY <2>1, <2>2, <2>3, <2>4, <2>5, <2>6
  <2>7. ASSUME NEW r \in Procs, state'[r] = "SLEEPING", loc'[r] = "join", NEW q \in Procs,
               tgid'[q] = pid'[r], pid'[q] # pid'[r]
        PROVE state'[q] # "ZOMBIE"
    <3>1. CASE q = p
      <4>1. state[r] # "UNUSED" /\ state[q] # "UNUSED" /\ tgid[q] = pid[r] /\ q # r
        BY <2>1, <2>4, <2>5, <2>7, <3>1
      <4>2. parent[p] = r
        BY <3>1, <4>1, ThreadsOfLeader
      <4>. QED  BY <2>1, <2>7, <4>2
    <3>2. CASE q # p
      BY <2>1, <2>2, <2>4, <2>7, <3>2
    <3>. QED  BY <3>1, <3>2
  <2>. QED  BY <2>6, <2>7
<1>7. ASSUME NEW p \in Procs, NEW l \in {"wait", "join"}, Enter(p, l) PROVE NoMissedExit'
  BY <1>7 DEF Enter
<1>8. ASSUME NEW p \in Procs, WaitElse(p) PROVE NoMissedExit'
  BY <1>8 DEF WaitElse, GiveUpOrSleep
<1>9. ASSUME NEW p \in Procs, JoinElse(p) PROVE NoMissedExit'
  BY <1>9 DEF JoinElse, GiveUpOrSleep
<1>10. ASSUME NEW p \in Procs, NEW q \in Procs, Reap(p, q) PROVE NoMissedExit'
  BY <1>10 DEF Reap
<1>11. ASSUME NEW p \in Procs, NEW n \in 0 .. MaxPid, Kill(p, n) PROVE NoMissedExit'
  BY <1>11 DEF Kill, Woken
<1>12. ASSUME UNCHANGED <<slotVars, loc>> PROVE NoMissedExit'
  BY <1>12
<1>. QED
  BY <1>1, <1>2, <1>3, <1>4, <1>5, <1>6, <1>7, <1>8, <1>9, <1>10, <1>11, <1>12,
     <1>13 DEF TgNext, WaitReap, JoinReap, ExitPanic, ExitInit, tgVars

(* A mark reaches the whole group; only a thread in clone(), between allocproc() and the  *)
(* setting of tgid, can bring an unmarked one into it, and only a thread that is not      *)
(* marked, one that has escaped itself, enters clone() afterwards.                        *)
LEMMA KillStep == ASSUME TgInv, [TgNext]_tgVars PROVE KillInv'
<1>. USE TgConstants DEF TgInv, TgTypeOK, KillInv, In, Goto, slotVars, IsLeader, Alive
<1>1. ASSUME NEW p \in Procs, NEW np \in Procs, NEW l \in {"fork_alloc", "clone_alloc"}, AllocProc(p, np, l)
      PROVE KillInv'
  <2>1. \A q \in Procs : state[q] \in {"RUNNABLE", "SLEEPING"} => new[q] # np /\ q # np
    BY <1>1 DEF AllocProc, SlotInv
  <2>2. \A q \in Procs : tgid[q] # nextpid /\ pid[q] # nextpid
    BY DEF PidInv
  <2>3. \A q \in Procs : state[q] # "UNUSED" => tgid[np] # pid[q]
    BY <1>1 DEF AllocProc, StaleInv
  <2>. QED  BY <1>1, <2>1, <2>2, <2>3 DEF AllocProc, SlotInv
<1>2. ASSUME NEW p \in Procs, AllocFail(p) \/ ForkFail(p) PROVE KillInv'
  <2>1. \A q \in Procs : q # p => new[q] # new[p] \/ new[q] = NoProc
    BY <1>2 DEF AllocFail, ForkFail, SlotInv
  <2>2. state[new[p]] = "EMBRYO" /\ new[p] \in Procs
    BY <1>2 DEF AllocFail, ForkFail, SlotInv
  <2>. QED  BY <1>2, <2>1, <2>2 DEF AllocFail, ForkFail, GiveBack, SlotInv
<1>13. ASSUME NEW p \in Procs, AllocSet(p) PROVE KillInv'
  <2>1. state[new[p]] = "EMBRYO" /\ new[p] \in Procs
    BY <1>13 DEF AllocSet, SlotInv
  <2>2. \A q \in Procs : pid[q] = pid[new[p]] => q = new[p]
    BY <2>1 DEF PidInv
  <2>. QED  BY <1>13, <2>1, <2>2 DEF AllocSet, SlotInv
<1>3. ASSUME NEW p \in Procs, ForkSet(p) PROVE KillInv'
  BY <1>3 DEF ForkSet, SlotInv
<1>4. ASSUME NEW p \in Procs, ForkRun(p) PROVE KillInv'
  <2>1. state[new[p]] = "EMBRYO" /\ new[p] \in Procs /\ tgid[new[p]] = pid[new[p]]
    BY <1>4 DEF ForkRun, SlotInv
  <2>2. \A q \in Procs : tgid[q] = pid[new[p]] /\ state[q] # "UNUSED" => q = new[p]
    BY <2>1, ThreadsOfLeader DEF ParentInv
  <2>. QED  BY <1>4, <2>1, <2>2 DEF ForkRun, SlotInv, PidInv
<1>5. ASSUME NEW p \in Procs, CloneSet(p) PROVE KillInv'
  BY <1>5 DEF CloneSet, SlotInv, PidInv
<1>6. ASSUME NEW p \in Procs, CloneRun(p) PROVE KillInv'
  <2>1. state[new[p]] = "EMBRYO" /\ new[p] \in Procs
    BY <1>6 DEF CloneRun, SlotInv
  <2>2. \A q \in Procs : tgid[q] = pid[new[p]] /\ state[q] # "UNUSED" => q = new[p]
    BY <2>1, ThreadsOfLeader DEF ParentInv
  <2>. QED  BY <1>6, <2>1, <2>2 DEF CloneRun, SlotInv, PidInv
<1>7. ASSUME NEW p \in Procs, Exit(p) PROVE KillInv'
  BY <1>7 DEF Exit, Woken
<1>8. ASSUME NEW p \in Procs, NEW l \in {"wait", "join"}, Enter(p, l) PROVE KillInv'
  BY <1>8 DEF Enter
<1>9. ASSUME NEW p \in Procs, WaitElse(p) \/ JoinElse(p) PROVE KillInv'
  BY <1>9 DEF WaitElse, JoinElse, GiveUpOrSleep
<1>10. ASSUME NEW p \in Procs, NEW q \in Procs, Reap(p, q) PROVE KillInv'
  BY <1>10 DEF Reap, SlotInv
<1>11. ASSUME NEW p \in Procs, NEW n \in 0 .. MaxPid, Kill(p, n) PROVE KillInv'
  BY <1>11 DEF Kill, Woken, Group, BeingCloned, PidInv, SlotInv
<1>12. ASSUME UNCHANGED <<slotVars, loc, new, escaped>> PROVE KillInv'
  BY <1>12
<1>. QED
  BY <1>1, <1>2, <1>3, <1>4, <1>5, <1>6, <1>7, <1>8, <1>9, <1>10, <1>11, <1>12,
     <1>13 DEF TgNext, WaitReap, JoinReap, ExitPanic, ExitInit, tgVars

-----------------------------------------------------------------------------
(* At the start.                                                             *)
LEMMA TgInitInv == TgInit => TgInv
<1>. SUFFICES ASSUME TgInit PROVE TgInv
  OBVIOUS
<1>. USE ThreadGroupAssumption DEF TgInit
<1>1. TgTypeOK
  BY DEF TgTypeOK, Locs
<1>2. PidInv /\ SlotInv /\ ParentInv
  BY DEF PidInv, SlotInv, ParentInv, Alive, IsLeader
<1>3. GroupInv /\ StaleInv /\ KillInv /\ NoMissedExit
  BY DEF GroupInv, StaleInv, KillInv, NoMissedExit, IsLeader, Blank
<1>. QED  BY <1>1, <1>2, <1>3 DEF TgInv

(* How the slots of the process table hang together, in every reachable state. *)
THEOREM TgInvariance == TgSpec => []TgInv
<1>1. ASSUME TgInv, [TgNext]_tgVars PROVE TgInv'
  BY <1>1, TgTypeStep, PidStep, SlotStep, ParentStep, GroupStep, StaleStep, SleepStep, KillStep
     DEF TgInv
<1>. QED  BY TgInitInv, <1>1, PTL DEF TgSpec

(* The fields of the process table keep their types. *)
THEOREM TgTypeCorrect == TgSpec => []TgTypeOK
<1>1. TgInv => TgTypeOK
  BY DEF TgInv
<1>. QED  BY TgInvariance, <1>1, PTL

(* No process sleeps in wait() or join() while there is something for it to reap. *)
THEOREM ExitSeen == TgSpec => []NoMissedExit
<1>1. TgInv => NoMissedExit
  BY DEF TgInv
<1>. QED  BY TgInvariance, <1>1, PTL

(* A thread's parent is the leader of its group, which has not exited. *)
THEOREM LeaderLast == TgSpec => []LeaderOutlives
<1>1. ASSUME TgInv PROVE LeaderOutlives
  BY <1>1 DEF TgInv, TgTypeOK, GroupInv, SlotInv, Blank, ParentInv, Alive, LeaderOutlives
<1>. QED  BY TgInvariance, <1>1, PTL

(* The parent of a process in use is alive, so that exit() wakes the one that waits. *)
THEOREM NoOrphan == TgSpec => []ParentAlive
<1>1. ASSUME TgInv PROVE ParentAlive
  BY <1>1 DEF TgInv, TgTypeOK, ParentInv, Alive, ParentAlive
<1>. QED  BY TgInvariance, <1>1, PTL

(* kill() of a leader reaches every thread of the group but those that escape it in clone(). *)
THEOREM KillComplete == TgSpec => []KillReachesGroup
<1>1. ASSUME TgInv PROVE KillReachesGroup
  BY <1>1 DEF TgInv, TgTypeOK, KillInv, Alive, KillReachesGroup
<1>. QED  BY TgInvariance, <1>1, PTL

-----------------------------------------------------------------------------
(* The buffer cache *)

LEMMA Constants ==
  /\ NBUF \in Nat /\ LOGSIZE \in Nat /\ IsFiniteSet(Users)
  /\ NoUser \notin Users /\ NoBlock \notin Blocks /\ NoBuf \notin Bufs
  /\ Cardinality(Users) \in Nat
BY CacheAssumption, FS_CardinalityType DEF NoBuf, Bufs

(* There are finitely many buffers.                                          *)
LEMMA BufsFinite == IsFiniteSet(1 .. NBUF) /\ Bufs = 1 .. NBUF
<1>1. 1 \in Int /\ NBUF \in Int
  BY Constants
<1>2. IsFiniteSet(1 .. NBUF)
  BY <1>1, FS_Interval
<1>. QED  BY <1>2 DEF Bufs

-----------------------------------------------------------------------------
(* The scan of bget() from the end of the list finds a buffer if there is an unused one. *)
LEMMA LastUnusedIsUnused ==
  ASSUME TypeOK, Unused # {}
  PROVE /\ LastUnused \in Bufs /\ LastUnused \notin dirty /\ refcnt[LastUnused] = 0
<1>1. Unused \subseteq 1 .. NBUF /\ NBUF \in Nat
  BY Constants DEF Unused, TypeOK
<1>. DEFINE T == {NBUF - i : i \in Unused}
<1>2. T \subseteq Nat /\ T # {}
  <2>1. \A i \in Unused : NBUF - i \in Nat
    BY <1>1
  <2>. QED  BY <2>1
<1>3. PICK x \in T : \A y \in T : ~(<<y, x>> \in OpToRel(<, Nat))
  <2>. HIDE DEF T
  <2>. QED  BY <1>2, NatLessThanWellFounded, WFMin, Zenon
<1>4. \A y \in T : ~(y < x)
  BY <1>2, <1>3 DEF OpToRel
<1>5. \E i \in Unused : \A j \in Unused : j <= i
  <2>1. PICK i \in Unused : x = NBUF - i
    OBVIOUS
  <2>2. ASSUME NEW j \in Unused PROVE j <= i
    <3>1. ~(NBUF - j < NBUF - i)
      BY <1>4, <2>1
    <3>2. i \in Nat /\ j \in Nat
      BY <1>1
    <3>. QED  BY <1>1, <3>1, <3>2
  <2>. QED  BY <2>2
<1>6. (CHOOSE i \in Unused : \A j \in Unused : j <= i) \in Unused
  BY <1>5
<1>. QED  BY <1>1, <1>6 DEF LastUnused, Unused, TypeOK

(* The list of buffers stays a list of all of them, each once. *)
LEMMA MoveKeeps ==
  ASSUME TypeOK, NEW b \in Bufs
  PROVE /\ MoveToFront(b) \in [1 .. NBUF -> Bufs]
        /\ \A i, j \in 1 .. NBUF : MoveToFront(b)[i] = MoveToFront(b)[j] => i = j
<1>. USE Constants DEF TypeOK
<1>. IsFiniteSet(1 .. NBUF)
  BY BufsFinite
<1>1. lru \in Injection(1 .. NBUF, Bufs)
  BY DEF Injection, IsInjective
<1>2. lru \in Surjection(1 .. NBUF, Bufs)
  BY <1>1, FS_Injection DEF Bufs
<1>3. \E i \in DOMAIN lru : lru[i] = b
  BY <1>2 DEF Surjection
<1>. DEFINE k == CHOOSE i \in DOMAIN lru : lru[i] = b
<1>4. k \in 1 .. NBUF /\ lru[k] = b
  BY <1>3
<1>. HIDE DEF k
<1>5. MoveToFront(b) = [i \in 1 .. NBUF |-> IF i = 1 THEN b ELSE IF i <= k THEN lru[i - 1] ELSE lru[i]]
  BY DEF MoveToFront, k
<1>6. \A i \in 1 .. NBUF : i # 1 => i - 1 \in 1 .. NBUF
  OBVIOUS
<1>. QED  BY <1>4, <1>5, <1>6, SMTT(30)

-----------------------------------------------------------------------------
(* References. *)
LEMMA HoldersFinite ==
  ASSUME NEW f, NEW b
  PROVE /\ IsFiniteSet({p \in Users : f[p] = b})
        /\ Cardinality({p \in Users : f[p] = b}) \in 0 .. Cardinality(Users)
<1>1. IsFiniteSet(Users) /\ {p \in Users : f[p] = b} \in SUBSET Users
  BY Constants
<1>. QED  BY <1>1, FS_Subset, FS_CardinalityType

(* One more or one less of the users has b. *)
LEMMA OneMore ==
  ASSUME TypeOK, RefsCounted, NEW p \in Users, NEW b \in Bufs, buf[p] = NoBuf,
         buf' = [buf EXCEPT ![p] = b]
  PROVE \A c \in Bufs : Cardinality({q \in Users : buf'[q] = c})
                          = IF c = b THEN refcnt[c] + 1 ELSE refcnt[c]
<1>1. ASSUME NEW c \in Bufs, c # b PROVE {q \in Users : buf'[q] = c} = {q \in Users : buf[q] = c}
  BY <1>1, Constants DEF TypeOK
<1>2. {q \in Users : buf'[q] = b} = {q \in Users : buf[q] = b} \cup {p}
  BY DEF TypeOK
<1>3. p \notin {q \in Users : buf[q] = b}
  BY Constants
<1>4. Cardinality({q \in Users : buf'[q] = b}) = refcnt[b] + 1
  <2>. DEFINE S == {q \in Users : buf[q] = b}
  <2>1. IsFiniteSet(S) /\ Cardinality(S) = refcnt[b]
    BY HoldersFinite, ZenonT(60) DEF RefsCounted
  <2>2. Cardinality(S \cup {p}) = Cardinality(S) + 1
    BY <1>3, <2>1, FS_AddElement
  <2>. QED  BY <1>2, <2>1, <2>2
<1>. QED  BY <1>1, <1>4 DEF RefsCounted

(* A user who lets a buffer go is one user of it less.                       *)
LEMMA OneLess ==
  ASSUME TypeOK, RefsCounted, NEW p \in Users, buf[p] \in Bufs, buf' = [buf EXCEPT ![p] = NoBuf]
  PROVE \A c \in Bufs : Cardinality({q \in Users : buf'[q] = c})
                          = IF c = buf[p] THEN refcnt[c] - 1 ELSE refcnt[c]
<1>. DEFINE b == buf[p]
<1>1. ASSUME NEW c \in Bufs, c # b PROVE {q \in Users : buf'[q] = c} = {q \in Users : buf[q] = c}
  BY <1>1, Constants DEF TypeOK
<1>2. {q \in Users : buf'[q] = b} = {q \in Users : buf[q] = b} \ {p}
  BY Constants DEF TypeOK
<1>3. p \in {q \in Users : buf[q] = b}
  OBVIOUS
<1>4. Cardinality({q \in Users : buf'[q] = b}) = refcnt[b] - 1
  <2>. DEFINE S == {q \in Users : buf[q] = b}
  <2>1. IsFiniteSet(S) /\ Cardinality(S) = refcnt[b]
    BY HoldersFinite DEF RefsCounted
  <2>2. Cardinality(S \ {p}) = Cardinality(S) - 1
    BY <1>3, <2>1, FS_RemoveElement
  <2>. QED  BY <1>2, <2>1, <2>2
<1>. QED  BY <1>1, <1>4 DEF RefsCounted

(* A buffer without references is locked by nobody and in nobody's hands. *)
LEMMA NoReference ==
  ASSUME TypeOK, LockInv, RefsCounted, NEW b \in Bufs, refcnt[b] = 0
  PROVE lock[b] = NoUser /\ \A p \in Users : buf[p] # b
<1>0. IsFiniteSet({p \in Users : buf[p] = b})
  BY HoldersFinite
<1>1. {p \in Users : buf[p] = b} = {}
  BY <1>0, FS_EmptySet DEF RefsCounted
<1>. QED  BY <1>1 DEF TypeOK, LockInv

(* refcnt goes up in bget() and down in brelse().                            *)
LEMMA RefsStep == ASSUME IInv, [Next]_vars PROVE RefsCounted'
<1>. USE Constants DEF IInv
<1>1. ASSUME NEW p \in Users, NEW n \in Blocks, BgetHit(p, n) PROVE RefsCounted'
  <2>1. PICK b \in Bufs : /\ refcnt' = [refcnt EXCEPT ![b] = @ + 1]
                          /\ buf' = [buf EXCEPT ![p] = b]
    BY <1>1 DEF BgetHit, Cached
  <2>2. buf[p] = NoBuf
    BY <1>1 DEF BgetHit, LockInv
  <2>. QED  BY <2>1, <2>2, OneMore DEF RefsCounted, TypeOK
<1>2. ASSUME NEW p \in Users, NEW n \in Blocks, BgetMiss(p, n) PROVE RefsCounted'
  <2>. DEFINE b == LastUnused
  <2>1. b \in Bufs /\ refcnt[b] = 0
    BY <1>2, LastUnusedIsUnused DEF BgetMiss
  <2>2. refcnt' = [refcnt EXCEPT ![b] = 1] /\ buf' = [buf EXCEPT ![p] = b] /\ buf[p] = NoBuf
    BY <1>2 DEF BgetMiss, LockInv
  <2>. HIDE DEF b
  <2>5. \A c \in Bufs : Cardinality({q \in Users : buf'[q] = c})
                          = IF c = b THEN refcnt[c] + 1 ELSE refcnt[c]
    BY <2>1, <2>2, OneMore
  <2>3. \A c \in Bufs : Cardinality({q \in Users : buf'[q] = c}) = IF c = b THEN 1 ELSE refcnt[c]
    BY <2>1, <2>5
  <2>4. \A c \in Bufs : refcnt'[c] = IF c = b THEN 1 ELSE refcnt[c]
    BY <2>1, <2>2 DEF TypeOK
  <2>. QED  BY <2>1, <2>3, <2>4 DEF RefsCounted
<1>3. ASSUME NEW p \in Users, Unref(p) PROVE RefsCounted'
  <2>1. buf[p] \in Bufs /\ refcnt' = [refcnt EXCEPT ![buf[p]] = @ - 1]
        /\ buf' = [buf EXCEPT ![p] = NoBuf]
    BY <1>3 DEF Unref, LockInv, TypeOK
  <2>. QED  BY <2>1, OneLess DEF RefsCounted, TypeOK
<1>4. ASSUME UNCHANGED <<refcnt, buf>> PROVE RefsCounted'
  BY <1>4 DEF RefsCounted
<1>. QED
  BY <1>1, <1>2, <1>3, <1>4 DEF Next, UserStep, AcquireSleep, FindLocked, SleepOnLock, BreadValid,
     BreadInvalid, Ideintr, IdeintrError, Served, IoReturn, Bwrite, Pin, ReleaseSleep, BgetPanic, bufVars, vars

(* The counts are in range because they are true. *)
LEMMA CountsTyped ==
  ASSUME TypeOK, RefsCounted', NEW b \in Bufs, NEW n, refcnt' = [refcnt EXCEPT ![b] = n]
  PROVE refcnt' \in [Bufs -> 0 .. Cardinality(Users)]
<1>1. ASSUME NEW c \in Bufs PROVE refcnt'[c] \in 0 .. Cardinality(Users)
  <2>1. Cardinality({p \in Users : buf'[p] = c}) \in 0 .. Cardinality(Users)
    BY HoldersFinite
  <2>. QED  BY <2>1 DEF RefsCounted
<1>2. refcnt' = [c \in Bufs |-> refcnt'[c]]
  BY DEF TypeOK
<1>. QED  BY <1>1, <1>2

-----------------------------------------------------------------------------
(* What the interrupt does. *)
LEMMA Interrupt ==
  ASSUME TypeOK, Ideintr \/ IdeintrError
  PROVE /\ Head(idequeue) \in Bufs /\ 1 \in DOMAIN idequeue /\ idequeue[1] = Head(idequeue)
        /\ idequeue' \in Seq(Bufs)
        /\ \A i \in DOMAIN idequeue' :
             i + 1 \in DOMAIN idequeue /\ i + 1 # 1 /\ idequeue'[i] = idequeue[i + 1]
        /\ \A i \in DOMAIN idequeue : i # 1 => \E j \in DOMAIN idequeue' : idequeue'[j] = idequeue[i]
        /\ valid' = valid \cup {Head(idequeue)} /\ dirty' = dirty \ {Head(idequeue)}
        /\ pc' = [p \in Users |-> IF pc[p] = "io" /\ buf[p] = Head(idequeue) THEN "iodone"
                                  ELSE pc[p]]
        /\ UNCHANGED <<blockno, refcnt, lru, lock, buf>>
        /\ Head(idequeue) \in dirty =>
             /\ UNCHANGED <<data, unread>>
             /\ disk' = [disk EXCEPT ![blockno[Head(idequeue)]] = data[Head(idequeue)]]
        /\ Head(idequeue) \notin dirty =>
             /\ disk' = disk
             /\ \/ unread' = unread /\ data' = [data EXCEPT ![Head(idequeue)] = disk[blockno[Head(idequeue)]]]
                \/ unread' = unread \cup {Head(idequeue)} /\ data' = data
<1>1. /\ idequeue # <<>> /\ idequeue' = Tail(idequeue)
      /\ valid' = valid \cup {Head(idequeue)} /\ dirty' = dirty \ {Head(idequeue)}
      /\ pc' = [p \in Users |-> IF pc[p] = "io" /\ buf[p] = Head(idequeue) THEN "iodone"
                                ELSE pc[p]]
      /\ UNCHANGED <<blockno, refcnt, lru, lock, buf>>
  BY DEF Ideintr, IdeintrError, Served
<1>2. /\ Head(idequeue) \in dirty =>
           /\ UNCHANGED <<data, unread>>
           /\ disk' = [disk EXCEPT ![blockno[Head(idequeue)]] = data[Head(idequeue)]]
      /\ Head(idequeue) \notin dirty =>
           /\ disk' = disk
           /\ \/ unread' = unread /\ data' = [data EXCEPT ![Head(idequeue)] = disk[blockno[Head(idequeue)]]]
              \/ unread' = unread \cup {Head(idequeue)} /\ data' = data
  BY DEF Ideintr, IdeintrError, Served
<1>3. idequeue \in Seq(Bufs)
  BY DEF TypeOK
<1>4. Head(idequeue) \in Bufs /\ 1 \in DOMAIN idequeue /\ idequeue[1] = Head(idequeue)
  BY <1>1, <1>3
<1>5. idequeue' \in Seq(Bufs)
  BY <1>1, <1>3
<1>6. \A i \in DOMAIN idequeue' :
        i + 1 \in DOMAIN idequeue /\ i + 1 # 1 /\ idequeue'[i] = idequeue[i + 1]
  BY <1>1, <1>3
<1>7. ASSUME NEW i \in DOMAIN idequeue, i # 1
      PROVE \E j \in DOMAIN idequeue' : idequeue'[j] = idequeue[i]
  <2>1. i - 1 \in DOMAIN idequeue' /\ idequeue'[i - 1] = idequeue[i]
    BY <1>1, <1>3, <1>7
  <2>. QED  BY <2>1
<1>. QED  BY <1>1, <1>2, <1>4, <1>5, <1>6, <1>7

(* Types stay.                                                               *)
LEMMA TypeOKStep == ASSUME IInv, [Next]_vars PROVE TypeOK'
<1>. USE Constants DEF IInv, TypeOK, bufVars
<1>0. ASSUME NEW p \in Users, pc[p] \notin {"idle", "panic"} PROVE buf[p] \in Bufs
  BY <1>0 DEF LockInv
<1>r. ASSUME NEW b \in Bufs, NEW n, refcnt' = [refcnt EXCEPT ![b] = n]
      PROVE refcnt' \in [Bufs -> 0 .. Cardinality(Users)]
  BY <1>r, RefsStep, CountsTyped
<1>1. ASSUME NEW p \in Users, NEW n \in Blocks, BgetHit(p, n) PROVE TypeOK'
  <2>1. PICK b \in Bufs : /\ refcnt' = [refcnt EXCEPT ![b] = @ + 1]
                          /\ buf' = [buf EXCEPT ![p] = b]
    BY <1>1 DEF BgetHit, Cached
  <2>. QED  BY <1>1, <1>r, <2>1 DEF BgetHit
<1>2. ASSUME NEW p \in Users, NEW n \in Blocks, BgetMiss(p, n) PROVE TypeOK'
  <2>. DEFINE b == LastUnused
  <2>1. b \in Bufs
    BY <1>2, LastUnusedIsUnused DEF BgetMiss
  <2>2. /\ refcnt' = [refcnt EXCEPT ![b] = 1] /\ buf' = [buf EXCEPT ![p] = b]
        /\ blockno' = [blockno EXCEPT ![b] = n] /\ valid' = valid \ {b} /\ unread' = unread \ {b}
    BY <1>2 DEF BgetMiss
  <2>. HIDE DEF b
  <2>3. refcnt' \in [Bufs -> 0 .. Cardinality(Users)]
    BY <1>r, <2>1, <2>2
  <2>. QED  BY <1>2, <2>1, <2>2, <2>3 DEF BgetMiss
<1>3. ASSUME NEW p \in Users, Unref(p) PROVE TypeOK'
  <2>1. buf[p] \in Bufs
    BY <1>0, <1>3 DEF Unref
  <2>2. lru' \in [1 .. NBUF -> Bufs] /\ \A i, j \in 1 .. NBUF : lru'[i] = lru'[j] => i = j
    <3>1. CASE refcnt[buf[p]] = 1
      BY <1>3, <2>1, <3>1, MoveKeeps DEF Unref
    <3>2. CASE refcnt[buf[p]] # 1
      BY <1>3, <3>2 DEF Unref
    <3>. QED  BY <3>1, <3>2
  <2>. QED  BY <1>3, <1>r, <2>1, <2>2 DEF Unref
<1>4. ASSUME NEW p \in Users, AcquireSleep(p) PROVE TypeOK'
  BY <1>0, <1>4 DEF AcquireSleep
<1>10. ASSUME NEW p \in Users, FindLocked(p) \/ SleepOnLock(p) PROVE TypeOK'
  BY <1>10 DEF FindLocked, SleepOnLock
<1>12. ASSUME NEW p \in Users, BreadValid(p) \/ IoReturn(p) \/ \E n \in Blocks : BgetPanic(p, n)
       PROVE TypeOK'
  BY <1>12 DEF BreadValid, IoReturn, BgetPanic
<1>5. ASSUME NEW p \in Users, BreadInvalid(p) PROVE TypeOK'
  <2>1. buf[p] \in Bufs
    BY <1>0, <1>5 DEF BreadInvalid
  <2>2. idequeue' \in Seq(Bufs) /\ pc' = [pc EXCEPT ![p] = "io"] /\ UNCHANGED <<disk, bufVars, lock, buf>>
    BY <1>5, <2>1 DEF BreadInvalid, Queue
  <2>. QED  BY <2>2
<1>6. ASSUME NEW p \in Users, NEW v \in Vals, Bwrite(p, v) PROVE TypeOK'
  BY <1>0, <1>6 DEF Bwrite, Queue
<1>11. ASSUME NEW p \in Users, NEW v \in Vals, Pin(p, v) PROVE TypeOK'
  BY <1>0, <1>11 DEF Pin
<1>7. ASSUME NEW p \in Users, ReleaseSleep(p) PROVE TypeOK'
  BY <1>0, <1>7 DEF ReleaseSleep
<1>8. ASSUME Ideintr \/ IdeintrError PROVE TypeOK'
  <2>. DEFINE b == Head(idequeue)
  <2>1. b \in Bufs /\ idequeue' \in Seq(Bufs)
    BY <1>8, Interrupt, Zenon
  <2>2. /\ data' = data \/ data' = [data EXCEPT ![b] = disk[blockno[b]]]
        /\ disk' = disk \/ disk' = [disk EXCEPT ![blockno[b]] = data[b]]
        /\ unread' = unread \/ unread' = unread \cup {b}
    BY <1>8, Interrupt, Zenon
  <2>3. blockno[b] \in Blocks
    <3>1. 1 \in DOMAIN idequeue /\ b = idequeue[1]
      BY <1>8, Interrupt, Zenon
    <3>2. PICK p \in Users : buf[p] = b
      BY <3>1 DEF QueueInv
    <3>. QED  BY <2>1, <3>2 DEF BlockInv
  <2>. HIDE DEF b
  <2>4. data' \in [Bufs -> Vals]
    BY <2>1, <2>2, <2>3
  <2>6. disk' \in [Blocks -> Vals]
    BY <2>1, <2>2, <2>3
  <2>5. valid' = valid \cup {b} /\ dirty' = dirty \ {b} /\ UNCHANGED <<blockno, refcnt, lru, lock, buf>>
        /\ pc' = [p \in Users |-> IF pc[p] = "io" /\ buf[p] = b THEN "iodone" ELSE pc[p]]
    BY <1>8, Interrupt DEF b
  <2>. QED  BY <2>1, <2>2, <2>4, <2>5, <2>6
<1>9. ASSUME UNCHANGED vars PROVE TypeOK'
  BY <1>9 DEF vars
<1>. QED
  BY <1>1, <1>2, <1>3, <1>4, <1>5, <1>6, <1>7, <1>8, <1>9, <1>10, <1>11, <1>12 DEF Next, UserStep

(* Who is past bget() has a buffer. *)
LEMMA HasBuffer ==
  ASSUME TypeOK, LockInv, NEW p \in Users, pc[p] \notin {"idle", "panic"} PROVE buf[p] \in Bufs
BY Zenon DEF TypeOK, LockInv

(* A sleep lock has one holder, which stands between acquiresleep() and releasesleep(). *)
LEMMA LockStep == ASSUME IInv, [Next]_vars PROVE LockInv'
<1>. USE Constants DEF IInv, TypeOK, LockInv, bufVars
<1>1. ASSUME NEW p \in Users, NEW n \in Blocks, BgetHit(p, n) PROVE LockInv'
  BY <1>1 DEF BgetHit, Cached
<1>2. ASSUME NEW p \in Users, NEW n \in Blocks, BgetMiss(p, n) PROVE LockInv'
  <2>1. LastUnused \in Bufs
    BY <1>2, LastUnusedIsUnused DEF BgetMiss
  <2>. QED  BY <1>2, <2>1 DEF BgetMiss
<1>3. ASSUME NEW p \in Users, AcquireSleep(p) PROVE LockInv'
  BY <1>3 DEF AcquireSleep
<1>9. ASSUME NEW p \in Users, FindLocked(p) \/ SleepOnLock(p) PROVE LockInv'
  BY <1>9 DEF FindLocked, SleepOnLock
<1>10. ASSUME NEW p \in Users, NEW n \in Blocks, BgetPanic(p, n) PROVE LockInv'
  BY <1>10 DEF BgetPanic
<1>4. ASSUME NEW p \in Users,
             BreadValid(p) \/ IoReturn(p) \/ BreadInvalid(p) \/ \E v \in Vals : Bwrite(p, v) \/ Pin(p, v)
      PROVE LockInv'
  <2>1. /\ UNCHANGED <<lock, buf>> /\ pc[p] \in {"test", "iodone", "use"}
        /\ pc' = [pc EXCEPT ![p] = "use"] \/ pc' = [pc EXCEPT ![p] = "io"] \/ pc' = pc
    BY <1>4 DEF BreadValid, IoReturn, BreadInvalid, Bwrite, Pin, Queue
  <2>2. \A q \in Users : /\ pc'[q] \in {"idle", "panic"} <=> pc[q] \in {"idle", "panic"}
                         /\ pc'[q] \in {"test", "io", "iodone", "use"}
                              <=> pc[q] \in {"test", "io", "iodone", "use"}
    BY <2>1
  <2>3. \A q \in Users : pc'[q] \in {"idle", "panic"} <=> buf'[q] = NoBuf
    BY <2>1, <2>2
  <2>4. \A q \in Users, b \in Bufs :
          lock'[b] = q <=> buf'[q] = b /\ pc'[q] \in {"test", "io", "iodone", "use"}
    BY <2>1, <2>2
  <2>. QED  BY <2>3, <2>4, Zenon
<1>5. ASSUME NEW p \in Users, ReleaseSleep(p) PROVE LockInv'
  BY <1>5 DEF ReleaseSleep
<1>6. ASSUME NEW p \in Users, Unref(p) PROVE LockInv'
  BY <1>6 DEF Unref
<1>7. ASSUME Ideintr \/ IdeintrError PROVE LockInv'
  <2>1. /\ UNCHANGED <<lock, buf>>
        /\ pc' = [p \in Users |-> IF pc[p] = "io" /\ buf[p] = Head(idequeue) THEN "iodone"
                                  ELSE pc[p]]
    BY <1>7, Interrupt
  <2>2. \A p \in Users : pc'[p] = pc[p] \/ (pc[p] = "io" /\ pc'[p] = "iodone")
    BY <2>1
  <2>. QED  BY <2>1, <2>2
<1>8. ASSUME UNCHANGED vars PROVE LockInv'
  BY <1>8 DEF vars
<1>. QED
  BY <1>1, <1>2, <1>3, <1>4, <1>5, <1>6, <1>7, <1>8, <1>9, <1>10 DEF Next, UserStep

(* A block has one buffer: bget() takes a new one only when no buffer has the block, and the *)
(* one it takes is in nobody's hands.                                                        *)
LEMMA BlockStep == ASSUME IInv, [Next]_vars PROVE BlockInv'
<1>. USE Constants DEF IInv, TypeOK, BlockInv, bufVars
<1>1. ASSUME NEW p \in Users, NEW n \in Blocks, BgetHit(p, n) PROVE BlockInv'
  BY <1>1 DEF BgetHit, Cached
<1>2. ASSUME NEW p \in Users, NEW n \in Blocks, BgetMiss(p, n) PROVE BlockInv'
  <2>. DEFINE b == LastUnused
  <2>1. b \in Bufs /\ refcnt[b] = 0
    BY <1>2, LastUnusedIsUnused DEF BgetMiss
  <2>2. \A q \in Users : buf[q] # b
    BY <2>1, NoReference
  <2>3. /\ blockno' = [blockno EXCEPT ![b] = n] /\ valid' = valid \ {b}
        /\ buf' = [buf EXCEPT ![p] = b] /\ \A c \in Bufs : blockno[c] # n
    BY <1>2 DEF BgetMiss, Cached
  <2>. HIDE DEF b
  <2>. QED  BY <2>1, <2>2, <2>3
<1>3. ASSUME NEW p \in Users, Unref(p) PROVE BlockInv'
  BY <1>3 DEF Unref
<1>4. ASSUME Ideintr \/ IdeintrError PROVE BlockInv'
  <2>1. PICK p \in Users : buf[p] = Head(idequeue)
    BY <1>4, Interrupt DEF QueueInv
  <2>2. Head(idequeue) \in Bufs /\ valid' = valid \cup {Head(idequeue)} /\ UNCHANGED <<blockno, buf>>
    BY <1>4, Interrupt
  <2>. QED  BY <2>1, <2>2
<1>5. ASSUME UNCHANGED <<blockno, valid, buf>> PROVE BlockInv'
  BY <1>5
<1>. QED
  BY <1>1, <1>2, <1>3, <1>4, <1>5 DEF Next, UserStep, AcquireSleep, FindLocked, SleepOnLock, BreadValid,
     BreadInvalid, IoReturn, Bwrite, Pin, ReleaseSleep, BgetPanic, vars

(* The holder of a lock is one process. *)
LEMMA OneHolder ==
  ASSUME TypeOK, LockInv, NEW p \in Users, NEW q \in Users, buf[p] = buf[q], buf[p] \in Bufs,
         pc[p] \in {"test", "io", "iodone", "use"}, pc[q] \in {"test", "io", "iodone", "use"}
  PROVE p = q
BY DEF LockInv

(* What is in the disk's queue is in the hands of a process that waits for the disk. *)
LEMMA QueueStep == ASSUME IInv, [Next]_vars PROVE QueueInv'
<1>. USE Constants DEF IInv, TypeOK, QueueInv, bufVars
<1>1. ASSUME NEW p \in Users, NEW n \in Blocks, BgetHit(p, n) PROVE QueueInv'
  BY <1>1 DEF BgetHit, Cached
<1>2. ASSUME NEW p \in Users, NEW n \in Blocks, BgetMiss(p, n) PROVE QueueInv'
  BY <1>2 DEF BgetMiss
<1>0. ASSUME UNCHANGED <<idequeue, buf>>, \A q \in Users : pc'[q] = "io" <=> pc[q] = "io"
      PROVE QueueInv'
  BY <1>0
<1>3. ASSUME NEW p \in Users, AcquireSleep(p) \/ FindLocked(p) \/ SleepOnLock(p) \/ \E n \in Blocks : BgetPanic(p, n)
      PROVE QueueInv'
  <2>1. UNCHANGED <<idequeue, buf>> /\ \A q \in Users : pc'[q] = "io" <=> pc[q] = "io"
    BY <1>3 DEF AcquireSleep, FindLocked, SleepOnLock, BgetPanic
  <2>. QED  BY <1>0, <2>1
<1>4. ASSUME NEW p \in Users, BreadValid(p) \/ IoReturn(p) \/ \E v \in Vals : Pin(p, v) PROVE QueueInv'
  <2>1. /\ UNCHANGED <<idequeue, buf>> /\ pc[p] # "io"
        /\ pc' = pc \/ pc' = [pc EXCEPT ![p] = "use"]
    BY <1>4 DEF BreadValid, IoReturn, Pin
  <2>. QED  BY <1>0, <2>1
<1>5. ASSUME NEW p \in Users, Queue(p), pc[p] \in {"test", "use"}, UNCHANGED buf PROVE QueueInv'
  <2>1. buf[p] \in Bufs
    BY <1>5, HasBuffer
  <2>2. \A i \in DOMAIN idequeue : idequeue[i] # buf[p]
    BY <1>5, <2>1, OneHolder
  <2>3. DOMAIN idequeue' = DOMAIN idequeue \cup {Len(idequeue) + 1} /\ Len(idequeue) + 1 \notin DOMAIN idequeue
    BY <1>5, <2>1 DEF Queue
  <2>4. /\ idequeue'[Len(idequeue) + 1] = buf[p]
        /\ \A i \in DOMAIN idequeue : idequeue'[i] = idequeue[i]
    BY <1>5, <2>1 DEF Queue
  <2>5. pc' = [pc EXCEPT ![p] = "io"]
    BY <1>5 DEF Queue
  <2>6. \A i, j \in DOMAIN idequeue' : idequeue'[i] = idequeue'[j] => i = j
    BY <2>2, <2>3, <2>4
  <2>7. ASSUME NEW q \in Users, pc'[q] = "io" PROVE \E i \in DOMAIN idequeue' : idequeue'[i] = buf'[q]
    BY <1>5, <2>3, <2>4, <2>5, <2>7
  <2>8. ASSUME NEW i \in DOMAIN idequeue' PROVE \E q \in Users : pc'[q] = "io" /\ buf'[q] = idequeue'[i]
    BY <1>5, <2>3, <2>4, <2>5
  <2>. QED  BY <2>6, <2>7, <2>8
<1>6. ASSUME NEW p \in Users, ReleaseSleep(p) PROVE QueueInv'
  <2>1. UNCHANGED <<idequeue, buf>> /\ \A q \in Users : pc'[q] = "io" <=> pc[q] = "io"
    BY <1>6 DEF ReleaseSleep
  <2>. QED  BY <1>0, <2>1
<1>9. ASSUME NEW p \in Users, Unref(p) PROVE QueueInv'
  BY <1>9 DEF Unref
<1>7. ASSUME Ideintr \/ IdeintrError PROVE QueueInv'
  <2>. DEFINE b == Head(idequeue)
  <2>1. /\ b \in Bufs /\ 1 \in DOMAIN idequeue /\ idequeue[1] = b /\ idequeue' \in Seq(Bufs)
        /\ \A i \in DOMAIN idequeue' :
             i + 1 \in DOMAIN idequeue /\ i + 1 # 1 /\ idequeue'[i] = idequeue[i + 1]
        /\ \A i \in DOMAIN idequeue : i # 1 => \E j \in DOMAIN idequeue' : idequeue'[j] = idequeue[i]
        /\ pc' = [q \in Users |-> IF pc[q] = "io" /\ buf[q] = b THEN "iodone" ELSE pc[q]]
        /\ buf' = buf
    BY <1>7, Interrupt
  <2>. HIDE DEF b
  <2>2. \A i \in DOMAIN idequeue' : idequeue'[i] # b
    BY <2>1
  <2>3. \A i, j \in DOMAIN idequeue' : idequeue'[i] = idequeue'[j] => i = j
    BY <2>1
  <2>4. ASSUME NEW q \in Users, pc'[q] = "io" PROVE \E i \in DOMAIN idequeue' : idequeue'[i] = buf'[q]
    <3>1. pc[q] = "io" /\ buf[q] # b
      BY <2>1, <2>4
    <3>2. PICK i \in DOMAIN idequeue : idequeue[i] = buf[q]
      BY <3>1
    <3>3. i # 1
      BY <2>1, <3>1, <3>2
    <3>4. PICK j \in DOMAIN idequeue' : idequeue'[j] = idequeue[i]
      BY <2>1, <3>3
    <3>. QED  BY <2>1, <3>2, <3>4
  <2>5. ASSUME NEW i \in DOMAIN idequeue' PROVE \E q \in Users : pc'[q] = "io" /\ buf'[q] = idequeue'[i]
    <3>1. PICK q \in Users : pc[q] = "io" /\ buf[q] = idequeue[i + 1]
      BY <2>1
    <3>. QED  BY <2>1, <2>2, <3>1
  <2>. QED  BY <2>3, <2>4, <2>5
<1>8. ASSUME UNCHANGED vars PROVE QueueInv'
  BY <1>8 DEF vars
<1>. QED
  BY <1>1, <1>2, <1>3, <1>4, <1>5, <1>6, <1>7, <1>8, <1>9
     DEF Next, UserStep, BreadInvalid, Bwrite

(* A valid buffer holds what the disk does, or is dirty. *)
LEMMA DataStep == ASSUME IInv, [Next]_vars PROVE DataInv'
<1>. USE Constants DEF IInv, TypeOK, DataInv, bufVars
<1>1. ASSUME NEW p \in Users, NEW n \in Blocks, BgetHit(p, n) PROVE DataInv'
  BY <1>1 DEF BgetHit, Cached
<1>2. ASSUME NEW p \in Users, NEW n \in Blocks, BgetMiss(p, n) PROVE DataInv'
  <2>. DEFINE b == LastUnused
  <2>1. b \in Bufs /\ refcnt[b] = 0 /\ b \notin dirty
    BY <1>2, LastUnusedIsUnused DEF BgetMiss
  <2>2. \A q \in Users : buf[q] # b
    BY <2>1, NoReference
  <2>3. \A i \in DOMAIN idequeue : idequeue[i] # b
    BY <2>2 DEF QueueInv
  <2>4. /\ blockno' = [blockno EXCEPT ![b] = n] /\ valid' = valid \ {b}
        /\ buf' = [buf EXCEPT ![p] = b] /\ pc' = [pc EXCEPT ![p] = "acquire"]
        /\ unread' = unread \ {b} /\ UNCHANGED <<disk, data, dirty, idequeue>>
    BY <1>2 DEF BgetMiss
  <2>. HIDE DEF b
  <2>5. dirty' \subseteq valid' /\ unread' \subseteq valid' \ dirty'
        /\ \A c \in valid' \ (dirty' \cup unread') : data'[c] = disk'[blockno'[c]]
    BY <2>1, <2>4
  <2>6. \A i \in DOMAIN idequeue' : idequeue'[i] \in dirty' \/ idequeue'[i] \notin valid'
    BY <2>3, <2>4
  <2>7. \A q \in Users : /\ pc'[q] = "use" => buf'[q] \in valid'
                         /\ pc'[q] = "iodone" => buf'[q] \in valid' \ dirty'
    BY <2>2, <2>4
  <2>. QED  BY <2>5, <2>6, <2>7
<1>0. ASSUME UNCHANGED <<disk, blockno, valid, dirty, data, unread, idequeue, buf>>,
             \A q \in Users : /\ pc'[q] = "use" => buf[q] \in valid
                              /\ pc'[q] = "iodone" => pc[q] = "iodone"
      PROVE DataInv'
  BY <1>0
<1>3. ASSUME NEW p \in Users, AcquireSleep(p) \/ FindLocked(p) \/ SleepOnLock(p) \/ \E n \in Blocks : BgetPanic(p, n)
      PROVE DataInv'
  BY <1>0, <1>3 DEF AcquireSleep, FindLocked, SleepOnLock, BgetPanic
<1>10. ASSUME NEW p \in Users, ReleaseSleep(p) PROVE DataInv'
  BY <1>0, <1>10 DEF ReleaseSleep
<1>9. ASSUME NEW p \in Users, BreadValid(p) \/ IoReturn(p) PROVE DataInv'
  <2>1. UNCHANGED <<disk, blockno, valid, dirty, data, unread, idequeue, buf>> /\ buf[p] \in valid
    BY <1>9 DEF BreadValid, IoReturn
  <2>2. pc' = [pc EXCEPT ![p] = "use"]
    BY <1>9 DEF BreadValid, IoReturn
  <2>. QED  BY <1>0, <2>1, <2>2
<1>4. ASSUME NEW p \in Users, Unref(p) PROVE DataInv'
  BY <1>4 DEF Unref
<1>5. ASSUME NEW p \in Users, BreadInvalid(p) PROVE DataInv'
  <2>1. buf[p] \in Bufs /\ buf[p] \notin valid
    BY <1>5, HasBuffer DEF BreadInvalid
  <2>2. DOMAIN idequeue' = DOMAIN idequeue \cup {Len(idequeue) + 1}
        /\ idequeue'[Len(idequeue) + 1] = buf[p] /\ \A i \in DOMAIN idequeue : idequeue'[i] = idequeue[i]
    BY <1>5, <2>1 DEF BreadInvalid, Queue
  <2>. QED  BY <1>5, <2>1, <2>2 DEF BreadInvalid, Queue
<1>6. ASSUME NEW p \in Users, NEW v \in Vals, Bwrite(p, v) \/ Pin(p, v) PROVE DataInv'
  <2>. DEFINE b == buf[p]
  <2>1. pc[p] = "use" /\ b \in Bufs /\ b \in valid
    BY <1>6 DEF Bwrite, Pin, LockInv
  <2>2. /\ data' = [data EXCEPT ![b] = v] /\ dirty' = dirty \cup {b} /\ unread' = unread \ {b}
        /\ UNCHANGED <<disk, blockno, valid, buf>>
    BY <1>6 DEF Bwrite, Pin, Queue
  <2>8. pc' = pc \/ pc' = [pc EXCEPT ![p] = "io"]
    BY <1>6 DEF Bwrite, Pin, Queue
  <2>3. \A i \in DOMAIN idequeue' :
          idequeue'[i] = b \/ (i \in DOMAIN idequeue /\ idequeue'[i] = idequeue[i])
    <3>1. idequeue' = idequeue \/ idequeue' = Append(idequeue, b)
      BY <1>6 DEF Bwrite, Pin, Queue
    <3>2. CASE idequeue' = idequeue
      BY <3>2
    <3>3. CASE idequeue' = Append(idequeue, b)
      <4>. HIDE DEF b
      <4>1. /\ DOMAIN idequeue' = DOMAIN idequeue \cup {Len(idequeue) + 1}
            /\ idequeue'[Len(idequeue) + 1] = b
            /\ \A i \in DOMAIN idequeue : idequeue'[i] = idequeue[i]
        BY <2>1, <3>3
      <4>. QED  BY <4>1
    <3>. QED  BY <3>1, <3>2, <3>3
  <2>4. \A q \in Users : pc[q] = "iodone" => buf[q] # b
    BY <2>1, OneHolder
  <2>. HIDE DEF b
  <2>5. dirty' \subseteq valid' /\ unread' \subseteq valid' \ dirty'
        /\ \A c \in valid' \ (dirty' \cup unread') : data'[c] = disk'[blockno'[c]]
    BY <2>1, <2>2
  <2>6. \A i \in DOMAIN idequeue' : idequeue'[i] \in dirty' \/ idequeue'[i] \notin valid'
    BY <2>2, <2>3
  <2>7. ASSUME NEW q \in Users
        PROVE /\ pc'[q] = "use" => buf'[q] \in valid'
              /\ pc'[q] = "iodone" => buf'[q] \in valid' \ dirty'
    <3>1. CASE q = p
      BY <2>1, <2>2, <2>8, <3>1 DEF b
    <3>2. CASE q # p
      BY <2>2, <2>4, <2>8, <3>2
    <3>. QED  BY <3>1, <3>2
  <2>. QED  BY <2>5, <2>6, <2>7
<1>7. ASSUME Ideintr \/ IdeintrError PROVE DataInv'
  <2>. DEFINE b == Head(idequeue)
  <2>1. /\ b \in Bufs /\ 1 \in DOMAIN idequeue /\ idequeue[1] = b
        /\ \A i \in DOMAIN idequeue' :
             i + 1 \in DOMAIN idequeue /\ i + 1 # 1 /\ idequeue'[i] = idequeue[i + 1]
    BY <1>7, Interrupt
  <2>2. /\ pc' = [q \in Users |-> IF pc[q] = "io" /\ buf[q] = b THEN "iodone" ELSE pc[q]]
        /\ valid' = valid \cup {b} /\ dirty' = dirty \ {b} /\ buf' = buf /\ blockno' = blockno
    BY <1>7, Interrupt
  <2>3. /\ b \in dirty => UNCHANGED <<data, unread>> /\ disk' = [disk EXCEPT ![blockno[b]] = data[b]]
        /\ b \notin dirty =>
             /\ disk' = disk
             /\ \/ unread' = unread /\ data' = [data EXCEPT ![b] = disk[blockno[b]]]
                \/ unread' = unread \cup {b} /\ data' = data
    BY <1>7, Interrupt, Zenon
  <2>4. PICK p \in Users : pc[p] = "io" /\ buf[p] = b
    BY <2>1 DEF QueueInv
  <2>5. blockno[b] \in Blocks
    BY <2>1, <2>4 DEF BlockInv
  <2>. HIDE DEF b
  <2>9. dirty' \subseteq valid' /\ unread' \subseteq valid' \ dirty'
    BY <2>2, <2>3
  <2>6. ASSUME NEW c \in valid' \ (dirty' \cup unread') PROVE data'[c] = disk'[blockno'[c]]
    <3>1. CASE c = b
      BY <2>1, <2>2, <2>3, <2>5, <3>1
    <3>2. CASE c # b
      <4>1. c \in valid \ (dirty \cup unread) /\ c \in Bufs
        BY <2>2, <2>3, <3>2
      <4>2. blockno[c] # blockno[b]
        BY <2>1, <3>2, <4>1 DEF BlockInv
      <4>3. blockno[c] \in Blocks
        BY <4>1 DEF BlockInv
      <4>. QED  BY <2>2, <2>3, <3>2, <4>1, <4>2, <4>3
    <3>. QED  BY <3>1, <3>2
  <2>7. ASSUME NEW i \in DOMAIN idequeue' PROVE idequeue'[i] \in dirty' \/ idequeue'[i] \notin valid'
    <3>1. idequeue'[i] # b
      BY <2>1 DEF QueueInv
    <3>. QED  BY <2>1, <2>2, <3>1
  <2>8. ASSUME NEW q \in Users
        PROVE /\ pc'[q] = "use" => buf'[q] \in valid'
              /\ pc'[q] = "iodone" => buf'[q] \in valid' \ dirty'
    BY <2>2
  <2>. QED  BY <2>2, <2>6, <2>7, <2>8, <2>9
<1>8. ASSUME UNCHANGED vars PROVE DataInv'
  BY <1>8 DEF vars
<1>. QED
  BY <1>1, <1>2, <1>3, <1>4, <1>5, <1>6, <1>7, <1>8, <1>9, <1>10 DEF Next, UserStep

(* releasesleep() wakes everybody who sleeps on the lock, and cannot run while somebody who *)
(* has found the lock taken is on the way to sleep.                                        *)
LEMMA SleepersStep == ASSUME IInv, [Next]_vars PROVE SleepersWait' /\ ToSleepInv'
<1>. USE Constants DEF IInv, TypeOK, SleepersWait, ToSleepInv, bufVars
<1>. DEFINE Goal == SleepersWait /\ ToSleepInv
<1>1. ASSUME NEW p \in Users, NEW n \in Blocks, BgetHit(p, n) \/ BgetMiss(p, n) \/ BgetPanic(p, n)
      PROVE Goal'
  <2>1. lock' = lock /\ \A q \in Users : pc'[q] \in {"tosleep", "asleep"} => pc'[q] = pc[q] /\ buf'[q] = buf[q]
    BY <1>1 DEF BgetHit, BgetMiss, BgetPanic
  <2>. QED  BY <2>1
<1>2. ASSUME NEW p \in Users, AcquireSleep(p) PROVE Goal'
  <2>1. buf[p] \in Bufs /\ lock[buf[p]] = NoUser
    BY <1>2, HasBuffer DEF AcquireSleep
  <2>2. lock' = [lock EXCEPT ![buf[p]] = p] /\ buf' = buf /\ pc' = [pc EXCEPT ![p] = "test"]
    BY <1>2 DEF AcquireSleep
  <2>. QED  BY <2>1, <2>2
<1>3. ASSUME NEW p \in Users, FindLocked(p) PROVE Goal'
  <2>3. buf[p] \in Bufs /\ pc[p] = "acquire" /\ lock[buf[p]] # NoUser
    BY <1>3, HasBuffer DEF FindLocked
  <2>4. pc[p] \notin {"test", "io", "iodone", "use"}
    BY <2>3
  <2>1. lock[buf[p]] # p
    BY <2>3, <2>4, Zenon DEF LockInv
  <2>2. UNCHANGED <<lock, buf>> /\ pc' = [pc EXCEPT ![p] = "tosleep"]
    BY <1>3 DEF FindLocked
  <2>. QED  BY <2>1, <2>2, <2>3
<1>9. ASSUME NEW p \in Users, SleepOnLock(p) PROVE Goal'
  BY <1>9 DEF SleepOnLock
<1>4. ASSUME NEW p \in Users,
             BreadValid(p) \/ IoReturn(p) \/ BreadInvalid(p) \/ (\E v \in Vals : Bwrite(p, v) \/ Pin(p, v))
      PROVE Goal'
  <2>1. UNCHANGED <<lock, buf>> /\ \A q \in Users : pc'[q] \in {"tosleep", "asleep"} => pc'[q] = pc[q]
    BY <1>4 DEF BreadValid, IoReturn, BreadInvalid, Bwrite, Pin, Queue
  <2>. QED  BY <2>1
<1>5. ASSUME NEW p \in Users, ReleaseSleep(p) PROVE Goal'
  <2>1. buf[p] \in Bufs
    BY <1>5, HasBuffer DEF ReleaseSleep
  <2>2. lock' = [lock EXCEPT ![buf[p]] = NoUser] /\ buf' = buf
    BY <1>5 DEF ReleaseSleep
  <2>3. ASSUME NEW q \in Users, pc'[q] \in {"tosleep", "asleep"} PROVE pc'[q] = pc[q] /\ buf[q] # buf[p]
    BY <1>5, <2>3 DEF ReleaseSleep, SpinFree
  <2>. QED  BY <2>1, <2>2, <2>3
<1>6. ASSUME NEW p \in Users, Unref(p) PROVE Goal'
  <2>1. lock' = lock /\ \A q \in Users : pc'[q] \in {"tosleep", "asleep"} => pc'[q] = pc[q] /\ buf'[q] = buf[q]
    BY <1>6 DEF Unref
  <2>. QED  BY <2>1
<1>7. ASSUME Ideintr \/ IdeintrError PROVE Goal'
  <2>1. UNCHANGED <<lock, buf>>
        /\ pc' = [p \in Users |-> IF pc[p] = "io" /\ buf[p] = Head(idequeue) THEN "iodone"
                                  ELSE pc[p]]
    BY <1>7, Interrupt
  <2>. QED  BY <2>1
<1>8. ASSUME UNCHANGED vars PROVE Goal'
  BY <1>8 DEF vars
<1>. QED
  BY <1>1, <1>2, <1>3, <1>4, <1>5, <1>6, <1>7, <1>8, <1>9 DEF Next, UserStep

(* The set of pinned buffers grows in log_write() only. *)
LEMMA PinnedFinite == ASSUME TypeOK PROVE IsFiniteSet(Pinned) /\ Cardinality(Pinned) \in Nat
<1>1. IsFiniteSet(Bufs)
  BY BufsFinite
<1>2. Pinned \in SUBSET Bufs
  BY DEF TypeOK, Pinned
<1>. QED  BY <1>1, <1>2, FS_Subset, FS_CardinalityType

(* What the log pins stays dirty.                                            *)
LEMMA PinStep == ASSUME IInv, [Next]_vars PROVE PinInv'
<1>. USE Constants DEF IInv, TypeOK, PinInv, bufVars
<1>0. IsFiniteSet(Pinned) /\ Cardinality(Pinned) \in Nat
  BY PinnedFinite
<1>1. ASSUME NEW S, Pinned' \subseteq S, IsFiniteSet(S), Cardinality(S) <= LOGSIZE PROVE PinInv'
  <2>1. Cardinality(Pinned') <= Cardinality(S) /\ Cardinality(Pinned') \in Nat /\ Cardinality(S) \in Nat
    BY <1>1, FS_Subset, FS_CardinalityType
  <2>. QED  BY <1>1, <2>1
<1>2. ASSUME UNCHANGED <<dirty, idequeue>> PROVE PinInv'
  BY <1>2 DEF Pinned
<1>3. ASSUME NEW p \in Users, BreadInvalid(p) \/ (\E v \in Vals : Bwrite(p, v)) PROVE PinInv'
  <2>1. buf[p] \in Bufs
    BY <1>3, HasBuffer DEF BreadInvalid, Bwrite
  <2>2. dirty' \subseteq dirty \cup {buf[p]} /\ idequeue' = Append(idequeue, buf[p])
    BY <1>3 DEF BreadInvalid, Bwrite, Queue
  <2>3. DOMAIN idequeue \subseteq DOMAIN idequeue' /\ Len(idequeue) + 1 \in DOMAIN idequeue'
        /\ idequeue'[Len(idequeue) + 1] = buf[p] /\ \A i \in DOMAIN idequeue : idequeue'[i] = idequeue[i]
    BY <2>1, <2>2
  <2>4. Pinned' \subseteq Pinned
    BY <2>2, <2>3 DEF Pinned
  <2>. QED  BY <1>0, <1>1, <2>4
<1>4. ASSUME NEW p \in Users, NEW v \in Vals, Pin(p, v) PROVE PinInv'
  <2>1. Pinned' \subseteq Pinned \cup {buf[p]} /\ Cardinality(Pinned) < LOGSIZE
    BY <1>4 DEF Pin, Pinned
  <2>2. IsFiniteSet(Pinned \cup {buf[p]}) /\ Cardinality(Pinned \cup {buf[p]}) <= Cardinality(Pinned) + 1
    <3>1. Cardinality(Pinned \cup {buf[p]})
            = IF buf[p] \in Pinned THEN Cardinality(Pinned) ELSE Cardinality(Pinned) + 1
      BY <1>0, FS_AddElement
    <3>. QED  BY <1>0, <3>1, FS_AddElement
  <2>3. Cardinality(Pinned \cup {buf[p]}) <= LOGSIZE
    BY <1>0, <2>1, <2>2, FS_CardinalityType
  <2>. QED  BY <1>1, <2>1, <2>2, <2>3
<1>5. ASSUME Ideintr \/ IdeintrError PROVE PinInv'
  <2>. DEFINE b == Head(idequeue)
  <2>1. /\ b \in Bufs /\ dirty' = dirty \ {b} /\ 1 \in DOMAIN idequeue /\ idequeue[1] = b
        /\ \A i \in DOMAIN idequeue : i # 1 => \E j \in DOMAIN idequeue' : idequeue'[j] = idequeue[i]
    BY <1>5, Interrupt
  <2>. HIDE DEF b
  <2>2. Pinned' \subseteq Pinned
    BY <2>1 DEF Pinned
  <2>. QED  BY <1>0, <1>1, <2>2
<1>. QED
  BY <1>2, <1>3, <1>4, <1>5 DEF Next, UserStep, BgetHit, BgetMiss, AcquireSleep, FindLocked, SleepOnLock,
     BreadValid, IoReturn, ReleaseSleep, Unref, BgetPanic, vars

(* The scan of bget() looks at every buffer. *)
LEMMA NoneUnused ==
  ASSUME TypeOK, Unused = {}, NEW b \in Bufs PROVE refcnt[b] # 0 \/ b \in dirty
<1>. USE Constants DEF TypeOK
<1>1. IsFiniteSet(1 .. NBUF) /\ Bufs = 1 .. NBUF
  BY BufsFinite
<1>2. lru \in Injection(1 .. NBUF, Bufs)
  BY DEF Injection, IsInjective
<1>3. lru \in Surjection(1 .. NBUF, Bufs)
  BY <1>1, <1>2, FS_Injection
<1>4. PICK i \in 1 .. NBUF : lru[i] = b
  BY <1>3 DEF Surjection
<1>. QED  BY <1>4 DEF Unused

(* A buffer that bget() cannot recycle is pinned or somebody has it; nothing changes that once *)
(* bcache.lock is kept: a buffer is given up under it only, and what leaves the pinned ones   *)
(* goes through the hands of a user.                                                          *)
LEMMA PanicStep == ASSUME IInv, [Next]_vars PROVE PanicMeansFull'
<1>. USE Constants DEF IInv, TypeOK, PanicMeansFull, BcacheLockFree, bufVars
<1>. DEFINE Taken(b) == b \in Pinned \/ \E p \in Users : buf[p] = b
<1>1. ASSUME NEW p \in Users, NEW n \in Blocks, BgetPanic(p, n) PROVE PanicMeansFull'
  <2>1. ASSUME NEW b \in Bufs PROVE Taken(b)
    <3>1. CASE refcnt[b] # 0
      <4>1. Cardinality({q \in Users : buf[q] = b}) # 0
        BY <3>1 DEF RefsCounted
      <4>2. {q \in Users : buf[q] = b} # {}
        BY <4>1, FS_EmptySet
      <4>. QED  BY <4>2
    <3>2. CASE b \in dirty
      BY <3>2 DEF Pinned, QueueInv
    <3>. QED  BY <1>1, <3>1, <3>2, NoneUnused DEF BgetPanic
  <2>2. Pinned' = Pinned /\ buf' = buf
    BY <1>1 DEF BgetPanic, Pinned
  <2>. QED  BY <2>1, <2>2
<1>2. ASSUME NEW p \in Users, (\E n \in Blocks : BgetHit(p, n) \/ BgetMiss(p, n)) \/ Unref(p)
      PROVE PanicMeansFull'
  <2>1. BcacheLockFree'
    BY <1>2 DEF BgetHit, BgetMiss, Unref
  <2>. QED  BY <2>1
<1>3. ASSUME buf' = buf, \A q \in Users : pc'[q] = "panic" => pc[q] = "panic",
             \A b \in Bufs : b \in Pinned => b \in Pinned' \/ \E p \in Users : buf[p] = b
      PROVE PanicMeansFull'
  BY <1>3
<1>4. ASSUME NEW p \in Users,
             AcquireSleep(p) \/ FindLocked(p) \/ SleepOnLock(p) \/ BreadValid(p) \/ IoReturn(p) \/ ReleaseSleep(p)
      PROVE PanicMeansFull'
  <2>1. UNCHANGED <<dirty, idequeue, buf>>
    BY <1>4 DEF AcquireSleep, FindLocked, SleepOnLock, BreadValid, IoReturn, ReleaseSleep
  <2>2. \A q \in Users : pc'[q] = "panic" => pc[q] = "panic"
    <3>1. CASE ReleaseSleep(p)
      BY <3>1 DEF ReleaseSleep
    <3>2. CASE ~ReleaseSleep(p)
      BY <1>4, <3>2 DEF AcquireSleep, FindLocked, SleepOnLock, BreadValid, IoReturn
    <3>. QED  BY <3>1, <3>2
  <2>. QED  BY <1>3, <2>1, <2>2 DEF Pinned
<1>5. ASSUME NEW p \in Users, BreadInvalid(p) \/ \E v \in Vals : Bwrite(p, v) \/ Pin(p, v)
      PROVE PanicMeansFull'
  <2>1. /\ buf' = buf /\ dirty \subseteq dirty' /\ \A q \in Users : pc'[q] = "panic" => pc[q] = "panic"
        /\ idequeue' = idequeue \/ idequeue' = Append(idequeue, buf[p])
    BY <1>5 DEF BreadInvalid, Bwrite, Pin, Queue
  <2>2. buf[p] \in Bufs
    BY <1>5, HasBuffer DEF BreadInvalid, Bwrite, Pin
  <2>3. ASSUME NEW i \in DOMAIN idequeue'
               PROVE idequeue'[i] = buf[p] \/ (i \in DOMAIN idequeue /\ idequeue'[i] = idequeue[i])
    <3>1. CASE idequeue' = idequeue
      BY <2>3, <3>1
    <3>2. CASE idequeue' = Append(idequeue, buf[p])
      <4>1. DOMAIN idequeue' = DOMAIN idequeue \cup {Len(idequeue) + 1}
            /\ idequeue'[Len(idequeue) + 1] = buf[p] /\ \A j \in DOMAIN idequeue : idequeue'[j] = idequeue[j]
        BY <2>2, <3>2
      <4>. QED  BY <2>3, <4>1
    <3>. QED  BY <2>1, <3>1, <3>2
  <2>. QED  BY <1>3, <2>1, <2>3 DEF Pinned
<1>6. ASSUME Ideintr \/ IdeintrError PROVE PanicMeansFull'
  <2>1. /\ buf' = buf /\ dirty' = dirty \ {Head(idequeue)} /\ Head(idequeue) \notin Pinned
        /\ \A i \in DOMAIN idequeue' : i + 1 \in DOMAIN idequeue /\ idequeue'[i] = idequeue[i + 1]
        /\ pc' = [p \in Users |-> IF pc[p] = "io" /\ buf[p] = Head(idequeue) THEN "iodone" ELSE pc[p]]
    BY <1>6, Interrupt DEF Pinned
  <2>2. Pinned \subseteq Pinned'
    BY <2>1 DEF Pinned
  <2>3. \A p \in Users : pc'[p] = "panic" => pc[p] = "panic"
    BY <2>1
  <2>. QED  BY <1>3, <2>1, <2>2, <2>3
<1>7. ASSUME UNCHANGED vars PROVE PanicMeansFull'
  BY <1>7 DEF vars, Pinned
<1>. QED  BY <1>1, <1>2, <1>4, <1>5, <1>6, <1>7 DEF Next, UserStep

(* At the start.                                                             *)
LEMMA InitIInv == Init => IInv
<1>. SUFFICES ASSUME Init PROVE IInv
  OBVIOUS
<1>. USE Constants DEF Init
<1>1. TypeOK
  BY DEF TypeOK, Bufs
<1>2. RefsCounted
  <2>1. ASSUME NEW b \in Bufs PROVE {p \in Users : buf[p] = b} = {}
    OBVIOUS
  <2>. QED  BY <2>1, FS_EmptySet DEF RefsCounted
<1>3. Pinned = {}
  BY DEF Pinned
<1>. QED
  BY <1>1, <1>2, <1>3, FS_EmptySet
     DEF IInv, LockInv, BlockInv, DataInv, QueueInv, SleepersWait, ToSleepInv, PinInv, PanicMeansFull,
         BcacheLockFree

-----------------------------------------------------------------------------
(* IInv is inductive. *)
THEOREM Invariance == Spec => []IInv
<1>1. ASSUME IInv, [Next]_vars PROVE IInv'
  BY <1>1, TypeOKStep, LockStep, BlockStep, RefsStep, DataStep, QueueStep, SleepersStep, PinStep,
     PanicStep DEF IInv
<1>. QED  BY <1>1, InitIInv, PTL DEF Spec

(* Every variable of the cache keeps its type; the list holds each buffer once. *)
THEOREM TypeCorrect == Spec => []TypeOK
<1>1. IInv => TypeOK
  BY DEF IInv
<1>. QED  BY <1>1, Invariance, PTL

(* The reference counts of the buffers are the processes that have them. *)
THEOREM Refs == Spec => []RefsCounted
<1>1. IInv => RefsCounted
  BY DEF IInv
<1>. QED  BY <1>1, Invariance, PTL

(* Nobody sleeps on a lock that is free. *)
THEOREM Sleepers == Spec => []SleepersWait
<1>1. IInv => SleepersWait
  BY DEF IInv
<1>. QED  BY <1>1, Invariance, PTL

(* No block has two buffers. *)
THEOREM OneBuffer == Spec => []OneBufferPerBlock
<1>1. ASSUME IInv, NEW n \in Blocks PROVE Cardinality(Cached(n)) <= 1
  <2>1. CASE Cached(n) = {}
    BY <2>1, FS_EmptySet
  <2>2. CASE Cached(n) # {}
    <3>1. PICK b \in Bufs : blockno[b] = n
      BY <2>2 DEF Cached
    <3>2. Cached(n) = {b}
      BY <1>1, <3>1, Constants DEF Cached, IInv, BlockInv
    <3>3. Cardinality({b}) = 1
      BY FS_Singleton
    <3>. QED  BY <3>2, <3>3
  <2>. QED  BY <2>1, <2>2
<1>2. IInv => OneBufferPerBlock
  BY <1>1 DEF OneBufferPerBlock
<1>. QED  BY <1>2, Invariance, PTL

(* The interrupt fills or writes a buffer only while its holder waits for it. *)
THEOREM Transfers == Spec => []QueueOwned
<1>1. ASSUME IInv PROVE QueueOwned
  <2>. USE <1>1 DEF IInv, TypeOK
  <2>1. ASSUME NEW p \in Users, pc[p] = "io"
        PROVE \E i \in DOMAIN idequeue : idequeue[i] = buf[p] /\ lock[buf[p]] = p
    BY <2>1 DEF QueueInv, LockInv
  <2>2. ASSUME NEW p \in Users, NEW i \in DOMAIN idequeue, idequeue[i] = buf[p], lock[buf[p]] = p
        PROVE pc[p] = "io"
    <3>1. PICK q \in Users : pc[q] = "io" /\ buf[q] = idequeue[i]
      BY DEF QueueInv
    <3>2. buf[p] \in Bufs
      BY <2>2
    <3>3. lock[buf[q]] = q
      BY <2>2, <3>1, <3>2 DEF LockInv
    <3>. QED  BY <2>2, <3>1, <3>3
  <2>. QED  BY <2>1, <2>2 DEF QueueOwned, QueueInv
<1>. QED  BY <1>1, Invariance, PTL

(* bget() panics only when every buffer is pinned by the log or somebody has it. *)
THEOREM PanicOnlyFull == Spec => []PanicMeansFull
<1>1. IInv => PanicMeansFull
  BY DEF IInv
<1>. QED  BY <1>1, Invariance, PTL

-----------------------------------------------------------------------------
(* The cache implements BlockStore. *)
ContentSpec ==
  \A n \in Blocks :
    /\ \A b \in valid \ unread : blockno[b] = n => Content[n] = data[b]
    /\ (\A b \in valid \ unread : blockno[b] # n) => Content[n] = disk[n]

(* The content of a block, by cases instead of by choice.                    *)
LEMMA ContentIs == IInv => ContentSpec
<1>. SUFFICES ASSUME IInv, NEW n \in Blocks
              PROVE /\ \A b \in valid \ unread : blockno[b] = n => Content[n] = data[b]
                    /\ (\A b \in valid \ unread : blockno[b] # n) => Content[n] = disk[n]
  BY DEF ContentSpec
<1>. USE Constants DEF IInv, TypeOK
<1>1. ASSUME NEW b \in valid \ unread, blockno[b] = n PROVE Content[n] = data[b]
  <2>1. Filled(n) = {b}
    BY <1>1 DEF Filled, Cached, BlockInv
  <2>. QED  BY <2>1 DEF Content
<1>2. ASSUME \A b \in valid \ unread : blockno[b] # n PROVE Content[n] = disk[n]
  <2>1. Filled(n) = {}
    BY <1>2 DEF Filled, Cached
  <2>. QED  BY <2>1 DEF Content
<1>. QED  BY <1>1, <1>2

\* Process p has block n between acquiresleep() and releasesleep().
Holds(p, n) == buf[p] \in Cached(n) /\ lock[buf[p]] = p

UserSpec ==
  \A n \in Blocks : /\ UserOf[n] \in Users \cup {NoUser}
                    /\ \A p \in Users : UserOf[n] = p <=> Holds(p, n)

(* The user of a block, likewise.                                            *)
LEMMA UserIs == IInv => UserSpec
<1>. SUFFICES ASSUME IInv, NEW n \in Blocks
              PROVE /\ UserOf[n] \in Users \cup {NoUser}
                    /\ \A p \in Users : UserOf[n] = p <=> Holds(p, n)
  BY DEF UserSpec
<1>. USE Constants
<1>1. UserOf[n] = IF \E p \in Users : Holds(p, n) THEN CHOOSE p \in Users : Holds(p, n) ELSE NoUser
  BY DEF UserOf, Holds
<1>2. ASSUME NEW p \in Users, NEW q \in Users, Holds(p, n), Holds(q, n) PROVE p = q
  BY <1>2 DEF Holds, Cached, IInv, TypeOK, BlockInv
<1>3. CASE \E p \in Users : Holds(p, n)
  <2>1. UserOf[n] \in Users /\ Holds(UserOf[n], n)
    BY <1>1, <1>3
  <2>. QED  BY <1>2, <2>1
<1>4. CASE \A p \in Users : ~Holds(p, n)
  BY <1>1, <1>4
<1>. QED  BY <1>3, <1>4

(* Contents are the same if they are for each block.                         *)
LEMMA SameContent ==
  ASSUME \A n \in Blocks : Content'[n] = Content[n] PROVE Content' = Content
BY DEF Content

(* Users are the same if the same hold each block.                           *)
LEMMA SameUsers ==
  ASSUME UserSpec, UserSpec', \A p \in Users, n \in Blocks : Holds(p, n)' <=> Holds(p, n)
  PROVE UserOf' = UserOf
<1>1. ASSUME NEW n \in Blocks PROVE UserOf'[n] = UserOf[n]
  BY Constants DEF UserSpec
<1>. QED  BY <1>1 DEF UserOf

(* Every step is one of BlockStore or changes nothing it can see.            *)
LEMMA AbstractStep ==
  ASSUME IInv, IInv', [Next]_vars PROVE [Abstract!StoreNext]_(Abstract!storeVars)
<1>. DEFINE Goal == [Abstract!StoreNext]_(Abstract!storeVars)
<1>. USE Constants DEF bufVars
<1>a. ASSUME Content' = Content, UserOf' = UserOf PROVE Goal
  BY <1>a DEF Abstract!storeVars
<1>b. UserSpec /\ ContentSpec /\ UserSpec' /\ ContentSpec'
  <2>1. UserSpec /\ ContentSpec
    BY UserIs, ContentIs
  <2>2. IInv' => UserSpec' /\ ContentSpec'
    BY UserIs, ContentIs, PTL
  <2>. QED  BY <2>1, <2>2
<1>c. ASSUME UNCHANGED <<disk, blockno, valid, data, unread>> PROVE Content' = Content
  BY <1>c DEF Content, Filled, Cached
<1>d. ASSUME UNCHANGED <<blockno, buf, lock>> PROVE UserOf' = UserOf
  BY <1>d DEF UserOf, Cached
<1>. HIDE DEF Goal
<1>1. ASSUME NEW p \in Users, NEW n \in Blocks, BgetHit(p, n) PROVE Goal
  <2>1. UNCHANGED <<disk, blockno, valid, data, unread, lock>>
    BY <1>1 DEF BgetHit
  <2>2. PICK b \in Bufs : buf' = [buf EXCEPT ![p] = b] /\ pc' = [pc EXCEPT ![p] = "acquire"]
    BY <1>1 DEF BgetHit, Cached
  <2>3. \A q \in Users, m \in Blocks : Holds(q, m)' <=> Holds(q, m)
    BY <1>1, <2>1, <2>2 DEF Holds, Cached, BgetHit, IInv, TypeOK, LockInv
  <2>. QED  BY <1>a, <1>b, <1>c, <2>1, <2>3, SameUsers
<1>2. ASSUME NEW p \in Users, NEW n \in Blocks, BgetMiss(p, n) PROVE Goal
  <2>. DEFINE b == LastUnused
  <2>1. b \in Bufs /\ refcnt[b] = 0 /\ b \notin dirty
    BY <1>2, LastUnusedIsUnused DEF BgetMiss, IInv
  <2>2. lock[b] = NoUser /\ \A q \in Users : buf[q] # b
    BY <2>1, NoReference DEF IInv
  <2>3. /\ blockno' = [blockno EXCEPT ![b] = n] /\ valid' = valid \ {b}
        /\ buf' = [buf EXCEPT ![p] = b] /\ unread' = unread \ {b} /\ UNCHANGED <<disk, data, lock>>
        /\ \A c \in Bufs : blockno[c] # n
        /\ buf[p] = NoBuf
    BY <1>2 DEF BgetMiss, Cached, IInv, LockInv
  <2>. HIDE DEF b
  <2>4. \A q \in Users, m \in Blocks : Holds(q, m)' <=> Holds(q, m)
    BY <2>1, <2>2, <2>3 DEF Holds, Cached, IInv, TypeOK
  <2>5. ASSUME NEW m \in Blocks PROVE Content'[m] = Content[m]
    <3>1. CASE \E c \in (valid \ unread) \ {b} : blockno[c] = m
      <4>1. PICK c \in (valid \ unread) \ {b} : blockno[c] = m
        BY <3>1
      <4>2. c \in valid' \ unread' /\ blockno'[c] = m /\ data'[c] = data[c]
        BY <2>1, <2>3, <4>1 DEF IInv, TypeOK
      <4>. QED  BY <1>b, <4>1, <4>2 DEF ContentSpec
    <3>2. CASE \A c \in (valid \ unread) \ {b} : blockno[c] # m
      <4>1. Content'[m] = disk'[m]
        BY <1>b, <2>1, <2>3, <3>2 DEF ContentSpec, IInv, TypeOK
      <4>2. Content[m] = disk[m]
        <5>1. CASE b \in valid \ unread /\ blockno[b] = m
          BY <1>b, <2>1, <5>1 DEF ContentSpec, IInv, DataInv
        <5>2. CASE ~(b \in valid \ unread /\ blockno[b] = m)
          BY <1>b, <3>2, <5>2 DEF ContentSpec
        <5>. QED  BY <5>1, <5>2
      <4>. QED  BY <2>3, <4>1, <4>2
    <3>. QED  BY <3>1, <3>2
  <2>. QED  BY <1>a, <1>b, <2>4, <2>5, SameUsers, SameContent
<1>3. ASSUME NEW p \in Users, AcquireSleep(p) PROVE Goal
  <2>. DEFINE n == blockno[buf[p]]
  <2>1. /\ buf[p] \in Bufs /\ n \in Blocks /\ lock[buf[p]] = NoUser
        /\ lock' = [lock EXCEPT ![buf[p]] = p] /\ UNCHANGED <<disk, blockno, valid, data, unread, buf>>
    BY <1>3 DEF AcquireSleep, IInv, TypeOK, LockInv, BlockInv
  <2>2. ASSUME NEW q \in Users, Holds(q, n) PROVE FALSE
    <3>1. buf[q] \in Bufs /\ blockno[buf[q]] = n /\ lock[buf[q]] = q
      BY <2>2 DEF Holds, Cached
    <3>2. buf[q] = buf[p]
      BY <2>1, <3>1 DEF IInv, BlockInv
    <3>. QED  BY <2>1, <3>1, <3>2
  <2>3. UserOf[n] = NoUser
    BY <1>b, <2>1, <2>2 DEF UserSpec
  <2>4. Holds(p, n)'
    BY <2>1 DEF Holds, Cached, IInv, TypeOK
  <2>5. UserOf'[n] = p
    BY <1>b, <2>1, <2>4 DEF UserSpec
  <2>6. ASSUME NEW m \in Blocks, m # n PROVE UserOf'[m] = UserOf[m]
    <3>1. \A q \in Users : Holds(q, m)' <=> Holds(q, m)
      BY <2>1, <2>6 DEF Holds, Cached, IInv, TypeOK
    <3>. QED  BY <1>b, <3>1 DEF UserSpec
  <2>7. UserOf' = [UserOf EXCEPT ![n] = p]
    BY <2>1, <2>5, <2>6, ZenonT(60) DEF UserOf
  <2>8. Abstract!StoreGet(p, n)
    BY <1>c, <2>1, <2>3, <2>7 DEF Abstract!StoreGet
  <2>. QED  BY <2>1, <2>8 DEF Goal, Abstract!StoreNext
<1>4. ASSUME NEW p \in Users, FindLocked(p) \/ SleepOnLock(p) \/ BreadValid(p) \/ BreadInvalid(p) \/ IoReturn(p)
                                \/ \E n \in Blocks : BgetPanic(p, n)
      PROVE Goal
  <2>1. UNCHANGED <<disk, blockno, valid, data, unread, lock, buf>>
    BY <1>4 DEF FindLocked, SleepOnLock, BreadValid, BreadInvalid, IoReturn, BgetPanic
  <2>. QED  BY <1>a, <1>c, <1>d, <2>1
<1>5. ASSUME NEW p \in Users, NEW v \in Vals, Bwrite(p, v) \/ Pin(p, v) PROVE Goal
  <2>. DEFINE b == buf[p]
              n == blockno[b]
  <2>1. /\ b \in Bufs /\ n \in Blocks /\ lock[b] = p /\ b \in valid
        /\ data' = [data EXCEPT ![b] = v] /\ unread' = unread \ {b}
        /\ UNCHANGED <<disk, blockno, valid, lock, buf>>
    BY <1>5 DEF Bwrite, Pin, IInv, TypeOK, LockInv, BlockInv, DataInv
  <2>2. Holds(p, n)
    BY <2>1 DEF Holds, Cached
  <2>3. UserOf[n] = p
    BY <1>b, <2>1, <2>2 DEF UserSpec
  <2>. HIDE DEF b
  <2>4. Content'[n] = v
    BY <1>b, <2>1 DEF ContentSpec, IInv, TypeOK
  <2>5. ASSUME NEW m \in Blocks, m # n PROVE Content'[m] = Content[m]
    <3>1. CASE \E c \in valid \ unread : blockno[c] = m
      <4>1. PICK c \in valid \ unread : blockno[c] = m
        BY <3>1
      <4>2. c \in valid' \ unread' /\ blockno'[c] = m /\ data'[c] = data[c]
        BY <2>1, <2>5, <4>1 DEF IInv, TypeOK
      <4>. QED  BY <1>b, <4>1, <4>2 DEF ContentSpec
    <3>2. CASE \A c \in valid \ unread : blockno[c] # m
      <4>1. \A c \in valid' \ unread' : blockno'[c] # m
        BY <2>1, <2>5, <3>2
      <4>2. Content[m] = disk[m] /\ Content'[m] = disk'[m]
        BY <1>b, <3>2, <4>1 DEF ContentSpec
      <4>. QED  BY <2>1, <4>2
    <3>. QED  BY <3>1, <3>2
  <2>6. Content' = [Content EXCEPT ![n] = v]
    BY <2>1, <2>4, <2>5 DEF Content
  <2>7. Abstract!StoreModify(p, n, v)
    BY <1>d, <2>1, <2>3, <2>6 DEF Abstract!StoreModify
  <2>. QED  BY <2>1, <2>7 DEF Goal, Abstract!StoreNext
<1>6. ASSUME NEW p \in Users, ReleaseSleep(p) PROVE Goal
  <2>. DEFINE b == buf[p]
              n == blockno[b]
  <2>1. /\ b \in Bufs /\ n \in Blocks /\ lock[b] = p
        /\ lock' = [lock EXCEPT ![b] = NoUser] /\ UNCHANGED <<disk, blockno, valid, data, unread, buf>>
    BY <1>6 DEF ReleaseSleep, IInv, TypeOK, LockInv, BlockInv
  <2>2. Holds(p, n)
    BY <2>1 DEF Holds, Cached
  <2>3. UserOf[n] = p
    BY <1>b, <2>1, <2>2 DEF UserSpec
  <2>4. ASSUME NEW q \in Users, Holds(q, n)' PROVE FALSE
    <3>1. buf[q] \in Bufs /\ blockno[buf[q]] = n /\ lock'[buf[q]] = q
      BY <2>1, <2>4 DEF Holds, Cached
    <3>2. buf[q] = b
      BY <2>1, <3>1 DEF IInv, BlockInv
    <3>. QED  BY <2>1, <3>1, <3>2 DEF IInv, TypeOK
  <2>5. UserOf'[n] = NoUser
    BY <1>b, <2>1, <2>4 DEF UserSpec
  <2>6. ASSUME NEW m \in Blocks, m # n PROVE UserOf'[m] = UserOf[m]
    <3>1. \A q \in Users : Holds(q, m)' <=> Holds(q, m)
      BY <2>1, <2>6 DEF Holds, Cached, IInv, TypeOK
    <3>. QED  BY <1>b, <3>1 DEF UserSpec
  <2>7. UserOf' = [UserOf EXCEPT ![n] = NoUser]
    BY <2>1, <2>5, <2>6 DEF UserOf
  <2>8. Abstract!StoreRelease(p, n)
    BY <1>c, <2>1, <2>3, <2>7 DEF Abstract!StoreRelease
  <2>. QED  BY <2>1, <2>8 DEF Goal, Abstract!StoreNext
<1>7. ASSUME NEW p \in Users, Unref(p) PROVE Goal
  <2>1. UNCHANGED <<disk, blockno, valid, data, unread, lock>> /\ buf' = [buf EXCEPT ![p] = NoBuf] /\ pc[p] = "unref"
    BY <1>7 DEF Unref
  <2>2. lock[buf[p]] # p
    BY <2>1, HasBuffer DEF IInv, LockInv
  <2>3. \A q \in Users, m \in Blocks : Holds(q, m)' <=> Holds(q, m)
    BY <2>1, <2>2 DEF Holds, Cached, IInv, TypeOK
  <2>. QED  BY <1>a, <1>b, <1>c, <2>1, <2>3, SameUsers
<1>8. ASSUME Ideintr \/ IdeintrError PROVE Goal
  <2>. DEFINE b == Head(idequeue)
  <2>1. /\ b \in Bufs /\ 1 \in DOMAIN idequeue /\ idequeue[1] = b
        /\ valid' = valid \cup {b} /\ UNCHANGED <<blockno, lock, buf>>
    BY <1>8, Interrupt DEF IInv
  <2>2. /\ b \in dirty => UNCHANGED <<data, unread>> /\ disk' = [disk EXCEPT ![blockno[b]] = data[b]]
        /\ b \notin dirty =>
             /\ disk' = disk
             /\ \/ unread' = unread /\ data' = [data EXCEPT ![b] = disk[blockno[b]]]
                \/ unread' = unread \cup {b} /\ data' = data
    BY <1>8, Interrupt, Zenon DEF IInv
  <2>3. blockno[b] \in Blocks
    BY <2>1 DEF IInv, TypeOK, QueueInv, BlockInv
  <2>4. (b \in dirty <=> b \in valid) /\ b \notin unread
    BY <2>1 DEF IInv, DataInv
  <2>. HIDE DEF b
  <2>5. ASSUME NEW m \in Blocks PROVE Content'[m] = Content[m]
    <3>1. CASE \E c \in (valid \ unread) \ {b} : blockno[c] = m
      <4>1. PICK c \in (valid \ unread) \ {b} : blockno[c] = m
        BY <3>1
      <4>2. c \in valid' \ unread' /\ blockno'[c] = m /\ data'[c] = data[c]
        BY <2>1, <2>2, <4>1 DEF IInv, TypeOK
      <4>. QED  BY <1>b, <4>1, <4>2 DEF ContentSpec
    <3>2. CASE blockno[b] = m
      <4>1. b \notin unread' => Content'[m] = data'[b]
        BY <1>b, <2>1, <3>2 DEF ContentSpec
      <4>2. CASE b \in valid
        BY <1>b, <2>2, <2>4, <3>2, <4>1, <4>2 DEF ContentSpec
      <4>3. CASE b \notin valid
        <5>1. \A c \in valid \cup {b} : blockno[c] = m => c = b
          BY <2>1, <2>3, <3>2, <4>3 DEF IInv, TypeOK, BlockInv
        <5>2. Content[m] = disk[m] /\ disk' = disk
          BY <1>b, <2>2, <2>4, <4>3, <5>1 DEF ContentSpec
        <5>3. CASE b \notin unread'
          <6>1. data'[b] = disk[m]
            BY <2>1, <2>2, <2>4, <3>2, <4>3, <5>3 DEF IInv, TypeOK
          <6>. QED  BY <4>1, <5>2, <5>3, <6>1
        <5>4. CASE b \in unread'
          <6>1. \A c \in valid' \ unread' : blockno'[c] # m
            BY <2>1, <5>1, <5>4
          <6>2. Content'[m] = disk'[m]
            BY <1>b, <6>1 DEF ContentSpec
          <6>. QED  BY <5>2, <6>2
        <5>. QED  BY <5>3, <5>4
      <4>. QED  BY <4>2, <4>3
    <3>3. CASE blockno[b] # m /\ \A c \in (valid \ unread) \ {b} : blockno[c] # m
      <4>3. \A c \in valid' \ unread' : blockno'[c] # m
        BY <2>1, <2>2, <3>3
      <4>4. \A c \in valid \ unread : blockno[c] # m
        BY <3>3
      <4>1. Content[m] = disk[m] /\ Content'[m] = disk'[m]
        BY <1>b, <4>3, <4>4 DEF ContentSpec
      <4>2. disk'[m] = disk[m]
        BY <2>2, <2>3, <3>3 DEF IInv, TypeOK
      <4>. QED  BY <4>1, <4>2
    <3>. QED  BY <3>1, <3>2, <3>3
  <2>. QED  BY <1>a, <1>d, <2>1, <2>5, SameContent
<1>9. ASSUME UNCHANGED vars PROVE Goal
  BY <1>9, <1>a, <1>c, <1>d DEF vars
<1>10. Goal
  BY <1>1, <1>2, <1>3, <1>4, <1>5, <1>6, <1>7, <1>8, <1>9 DEF Next, UserStep
<1>. QED  BY <1>10 DEF Goal

(* A block has one user at a time, who finds what the last one left: the buffers behind it, *)
(* their recycling and the disk's queue do not show.                                        *)
THEOREM Implementation == Spec => ImplementsBlockStore
<1>1. Init => Abstract!StoreInit
  <2>. SUFFICES ASSUME Init PROVE Abstract!StoreInit
    OBVIOUS
  <2>1. Content = disk
    BY DEF Init, Content, Filled
  <2>2. UserOf = [n \in Blocks |-> NoUser]
    BY Constants DEF Init, UserOf, Cached, NoBuf, Bufs
  <2>. QED  BY <2>1, <2>2 DEF Init, Abstract!StoreInit
<1>2. IInv /\ IInv' /\ [Next]_vars => [Abstract!StoreNext]_(Abstract!storeVars)
  BY AbstractStep
<1>. QED  BY Invariance, <1>1, <1>2, PTL DEF Spec, ImplementsBlockStore, Abstract!StoreSpec
=============================================================================
