-------------------------------- MODULE Log --------------------------------
(***************************************************************************)
(* The write-ahead log of xv6 (log.c): concurrent operations of the file    *)
(* system log the blocks they modify, the last one to end commits them all  *)
(* together, and a crash at any moment is followed by recovery from what is  *)
(* on the disk.  One step is one section under log.lock, one access without *)
(* it, or one write of a disk block.                                        *)
(*                                                                          *)
(* The buffer cache appears by what it does here: mem[b] is the buffer of b,*)
(* and a buffer that is neither pinned with B_DIRTY nor locked may have     *)
(* been recycled, so that reading it again gives what the disk holds.       *)
(***************************************************************************)
EXTENDS Naturals, Sequences, FiniteSets

CONSTANTS
  Procs,        \* the processes that call the file system, once each
  Blocks,       \* the numbers of the home blocks
  Vals,         \* what a block can hold
  Zero,         \* what mkfs fills the blocks of the log with
  NoBlock,
  MAXOPBLOCKS,  \* what begin_op() reserves for an operation
  LOGSIZE,      \* the length of lh.block[]
  LogArea,      \* log.size: blocks of the log on disk, header included
  OpBlocks,     \* OpBlocks[p]: how many blocks the operation of p logs at most: none if it only
                \* reads, and fewer than MAXOPBLOCKS, for filewrite() splits what it writes
  MaxCrash      \* bound on the crashes of a behaviour

ASSUME LogAssumption ==
  /\ NoBlock \notin Blocks /\ Zero \in Vals
  /\ IsFiniteSet(Procs)
  /\ {MAXOPBLOCKS, LOGSIZE, LogArea, MaxCrash} \subseteq Nat
  /\ OpBlocks \in [Procs -> Nat] /\ \A p \in Procs : OpBlocks[p] < MAXOPBLOCKS
  /\ LOGSIZE <= LogArea

VARIABLES
  \* on disk
  disk,         \* disk[b]: home block b
  dlog,         \* dlog[i]: block i of the log, log.start + i
  dhead,        \* the header block: the block numbers it lists
  \* in memory
  mem,          \* mem[b]: the buffer of b
  dirty,        \* the blocks whose buffer has B_DIRTY set
  lh,           \* log.lh: the block numbers logged so far
  outstanding,  \* log.outstanding
  committing,   \* log.committing
  tail,         \* the loop index of write_log() and install_trans()
  boot,         \* where the first process stands in initlog()
  panicked,     \* the kernel has panicked
  \* of each process
  pc,           \* pc[p]: where p stands in its operation
  cur,          \* cur[p]: the block whose buffer p has locked
  left,         \* left[p]: how many blocks the operation may still log
  crashes       \* how many crashes so far

onDisk == <<disk, dlog, dhead>>
logVars == <<lh, outstanding, committing>>
procVars == <<pc, cur, left>>
vars == <<onDisk, mem, dirty, logVars, tail, boot, panicked, procVars, crashes>>

Entries(s) == {s[i] : i \in DOMAIN s}

\* The buffers that a process holds locked.
Held == {cur[p] : p \in Procs} \ {NoBlock}

\* What bread(b) can find: the buffer, and if it may have been recycled since, the disk.
Bread(b) == {mem[b]} \cup IF b \in dirty \cup Held THEN {} ELSE {disk[b]}

\* The home blocks as recover_from_log() would leave them.
Recovered ==
  [b \in Blocks |-> IF b \in Entries(dhead) THEN dlog[CHOOSE i \in DOMAIN dhead : dhead[i] = b]
                                          ELSE disk[b]]

TypeOK ==
  /\ disk \in [Blocks -> Vals] /\ mem \in [Blocks -> Vals]
  /\ dlog \in [1 .. LOGSIZE -> Vals]
  /\ dhead \in Seq(Blocks) /\ lh \in Seq(Blocks)
  /\ Len(dhead) <= LOGSIZE /\ Len(lh) <= LOGSIZE
  /\ dirty \subseteq Blocks
  /\ outstanding \in Nat
  /\ committing \in BOOLEAN /\ panicked \in BOOLEAN
  /\ \A i, j \in DOMAIN lh : lh[i] = lh[j] => i = j
  /\ tail \in 0 .. Len(lh)
  /\ boot \in {"head", "install", "up"}
  /\ pc \in [Procs -> {"begin", "asleep", "op", "check", "append",
                       "write", "install", "finish", "done"}]
  /\ cur \in [Procs -> Blocks \cup {NoBlock}]
  /\ left \in [Procs -> Nat] /\ \A p \in Procs : left[p] <= OpBlocks[p]
  /\ crashes \in 0 .. MaxCrash

\* The kernel has just been started on this disk.
Booting ==
  /\ dirty' = {} /\ lh' = <<>> /\ outstanding' = 0 /\ committing' = FALSE
  /\ tail' = 0 /\ boot' = "head" /\ panicked' = FALSE
  /\ pc' = [p \in Procs |-> "begin"]
  /\ cur' = [p \in Procs |-> NoBlock]
  /\ left' = OpBlocks

Init ==
  /\ disk \in [Blocks -> Vals]
  /\ dlog = [i \in 1 .. LOGSIZE |-> Zero]
  /\ dhead = <<>>
  /\ mem = disk
  /\ dirty = {} /\ lh = <<>> /\ outstanding = 0 /\ committing = FALSE
  /\ tail = 0 /\ boot = "head" /\ panicked = FALSE
  /\ pc = [p \in Procs |-> "begin"]
  /\ cur = [p \in Procs |-> NoBlock]
  /\ left = OpBlocks
  /\ crashes = 0

-----------------------------------------------------------------------------
(* begin_op(), log_write(), end_op() *)

Running == boot = "up" /\ ~panicked

\* wakeup(&log)
Woken == [p \in Procs |-> IF pc[p] = "asleep" THEN "begin" ELSE pc[p]]

\* Faulty variant: only the new operation is reserved for.
AdmitsOne == ~committing /\ Len(lh) + MAXOPBLOCKS <= LOGSIZE

Admits == ~committing /\ Len(lh) + (outstanding + 1) * MAXOPBLOCKS <= LOGSIZE

BeginOp(p) ==
  /\ Running /\ pc[p] = "begin" /\ Admits
  /\ outstanding' = outstanding + 1
  /\ pc' = [pc EXCEPT ![p] = "op"]
  /\ UNCHANGED <<onDisk, mem, dirty, lh, committing, tail, boot, panicked, cur, left, crashes>>

BeginSleep(p) ==
  /\ Running /\ pc[p] = "begin" /\ ~Admits
  /\ pc' = [pc EXCEPT ![p] = "asleep"]
  /\ UNCHANGED <<onDisk, mem, dirty, logVars, tail, boot, panicked, cur, left, crashes>>

\* The operation reads block b, which locks its buffer, and modifies it.
Modify(p, b, v) ==
  /\ Running /\ pc[p] = "op" /\ left[p] > 0 /\ b \notin Held
  /\ mem' = [mem EXCEPT ![b] = v]
  /\ cur' = [cur EXCEPT ![p] = b]
  /\ left' = [left EXCEPT ![p] = @ - 1]
  /\ pc' = [pc EXCEPT ![p] = "check"]
  /\ UNCHANGED <<onDisk, dirty, logVars, tail, boot, panicked, crashes>>

\* The tests of log_write(), before it takes log.lock.
LogCheck(p) ==
  /\ Running /\ pc[p] = "check"
  /\ IF Len(lh) >= LOGSIZE \/ Len(lh) + 1 >= LogArea \/ outstanding < 1
       THEN panicked' = TRUE /\ UNCHANGED pc
       ELSE pc' = [pc EXCEPT ![p] = "append"] /\ UNCHANGED panicked
  /\ UNCHANGED <<onDisk, mem, dirty, logVars, tail, boot, cur, left, crashes>>

\* The rest of log_write(), under log.lock, and the caller's brelse().
LogAppend(p) ==
  /\ Running /\ pc[p] = "append"
  /\ lh' = IF cur[p] \in Entries(lh) THEN lh ELSE Append(lh, cur[p])
  /\ dirty' = dirty \cup {cur[p]}
  /\ cur' = [cur EXCEPT ![p] = NoBlock]
  /\ pc' = [pc EXCEPT ![p] = "op"]
  /\ UNCHANGED <<onDisk, mem, outstanding, committing, tail, boot, panicked, left, crashes>>

\* end_op() of an operation that is not the last: it only makes room.
EndOp(p) ==
  /\ Running /\ pc[p] = "op" /\ outstanding > 1
  /\ outstanding' = outstanding - 1
  /\ panicked' = committing
  /\ pc' = [Woken EXCEPT ![p] = "done"]
  /\ UNCHANGED <<onDisk, mem, dirty, lh, committing, tail, boot, cur, left, crashes>>

\* end_op() of the last one: it goes on to commit(), which does nothing with an empty log.
EndLast(p) ==
  /\ Running /\ pc[p] = "op" /\ outstanding = 1
  /\ outstanding' = 0
  /\ panicked' = committing
  /\ committing' = TRUE
  /\ pc' = [pc EXCEPT ![p] = IF lh = <<>> THEN "finish" ELSE "write"]
  /\ UNCHANGED <<onDisk, mem, dirty, lh, tail, boot, cur, left, crashes>>

-----------------------------------------------------------------------------
(* commit() *)

\* write_log(), one block
WriteLog(p) ==
  /\ Running /\ pc[p] = "write" /\ tail < Len(lh)
  /\ \E v \in Bread(lh[tail + 1]) : dlog' = [dlog EXCEPT ![tail + 1] = v]
  /\ tail' = tail + 1
  /\ UNCHANGED <<disk, dhead, mem, dirty, logVars, boot, panicked, procVars, crashes>>

\* write_head(): the point of the commit
WriteHead(p) ==
  /\ Running /\ pc[p] = "write" /\ tail = Len(lh)
  /\ dhead' = lh
  /\ tail' = 0
  /\ pc' = [pc EXCEPT ![p] = "install"]
  /\ UNCHANGED <<disk, dlog, mem, dirty, logVars, boot, panicked, cur, left, crashes>>

\* install_trans(), one block: copied to its home; the disk driver clears B_DIRTY.
InstallBlock ==
  /\ tail < Len(lh)
  /\ disk' = [disk EXCEPT ![lh[tail + 1]] = dlog[tail + 1]]
  /\ mem' = [mem EXCEPT ![lh[tail + 1]] = dlog[tail + 1]]
  /\ dirty' = dirty \ {lh[tail + 1]}
  /\ tail' = tail + 1
  /\ UNCHANGED <<dlog, dhead, logVars, panicked, crashes>>

\* Faulty variant: the header is cleared before the last block is home.
ClearHeadEarly ==
  /\ tail + 1 >= Len(lh)
  /\ lh' = <<>>
  /\ dhead' = <<>>
  /\ tail' = 0
  /\ UNCHANGED <<disk, dlog, mem, dirty, outstanding, committing, panicked, crashes>>

\* lh.n = 0 and write_head(): the transaction is erased from the log.
ClearHead ==
  /\ tail = Len(lh)
  /\ lh' = <<>>
  /\ dhead' = <<>>
  /\ tail' = 0
  /\ UNCHANGED <<disk, dlog, mem, dirty, outstanding, committing, panicked, crashes>>

CommitInstall(p) ==
  /\ Running /\ pc[p] = "install" /\ InstallBlock
  /\ UNCHANGED <<boot, procVars>>

CommitClear(p) ==
  /\ Running /\ pc[p] = "install" /\ ClearHead
  /\ pc' = [pc EXCEPT ![p] = "finish"]
  /\ UNCHANGED <<boot, cur, left>>

\* Faulty variant: nobody is woken after the commit.
FinishSilently(p) ==
  /\ Running /\ pc[p] = "finish"
  /\ committing' = FALSE
  /\ pc' = [pc EXCEPT ![p] = "done"]
  /\ UNCHANGED <<onDisk, mem, dirty, lh, outstanding, tail, boot, panicked, cur, left, crashes>>

\* The end of end_op(): others may begin.
Finish(p) ==
  /\ Running /\ pc[p] = "finish"
  /\ committing' = FALSE
  /\ pc' = [Woken EXCEPT ![p] = "done"]
  /\ UNCHANGED <<onDisk, mem, dirty, lh, outstanding, tail, boot, panicked, cur, left, crashes>>

-----------------------------------------------------------------------------
(* initlog() and crashes *)

\* Faulty variant: recovery ignores the header it finds.
ReadHeadNot ==
  /\ boot = "head"
  /\ lh' = <<>>
  /\ boot' = "install"
  /\ UNCHANGED <<onDisk, mem, dirty, outstanding, committing, tail, panicked, procVars, crashes>>

ReadHead ==
  /\ boot = "head"
  /\ lh' = dhead
  /\ boot' = "install"
  /\ UNCHANGED <<onDisk, mem, dirty, outstanding, committing, tail, panicked, procVars, crashes>>

RecoverInstall ==
  /\ boot = "install" /\ InstallBlock
  /\ UNCHANGED <<boot, procVars>>

RecoverClear ==
  /\ boot = "install" /\ ClearHead
  /\ boot' = "up"
  /\ UNCHANGED procVars

\* Power fails, or the panicked machine is started again: memory is lost.
Crash ==
  /\ crashes < MaxCrash
  /\ crashes' = crashes + 1
  /\ mem' = disk
  /\ Booting
  /\ UNCHANGED onDisk

-----------------------------------------------------------------------------
OpStep(p) ==
  \/ BeginOp(p) \/ BeginSleep(p)
  \/ \E b \in Blocks, v \in Vals : Modify(p, b, v)
  \/ LogCheck(p) \/ LogAppend(p)
  \/ EndOp(p) \/ EndLast(p)
  \/ WriteLog(p) \/ WriteHead(p) \/ CommitInstall(p) \/ CommitClear(p) \/ Finish(p)

BootStep == ReadHead \/ RecoverInstall \/ RecoverClear

Next == (\E p \in Procs : OpStep(p)) \/ BootStep \/ Crash

Spec == Init /\ [][Next]_vars

\* Each process is run on, and the disk answers; that the machine crashes is never required.
Fairness == WF_vars(BootStep) /\ \A p \in Procs : WF_vars(OpStep(p))

FairSpec == Spec /\ Fairness

-----------------------------------------------------------------------------
(* Properties *)

Open == {p \in Procs : pc[p] \in {"op", "check", "append"}}

\* What the processes see: the buffers, and during recovery what it will leave.
View == IF boot = "up" THEN mem ELSE Recovered

\* log.c against its promise: operations become stable together, at the write of the
\* header and with none of them under way, and recovery after a crash at any disk write
\* restores exactly that.
Abstract == INSTANCE AtomicDisk WITH now <- View, stable <- Recovered, open <- Open
ImplementsAtomicDisk == Abstract!DiskSpec

\* A buffer that differs from its block on disk is locked, or pinned and in the log: so
\* bget() recycles none of them and no modification is lost before the commit.
PinnedUntilHome ==
  boot = "up" => \A b \in Blocks : mem[b] # disk[b] => b \in Held \/ b \in dirty \cap Entries(lh)

\* How many blocks the operation of p has entered in the log, and the entries reserved for
\* what the operations under way may still log.
Logged(p) == OpBlocks[p] - left[p] - IF cur[p] = NoBlock THEN 0 ELSE 1
Reserved == {e \in Open \X (1 .. MAXOPBLOCKS) : e[2] > Logged(e[1])}

\* The room that begin_op() reserves is there, and enough: log_write() neither overruns
\* lh.block[] nor comes to "too big a transaction", although it tests lh.n before it takes
\* the lock.
ReservedFits == ~panicked /\ Len(lh) + Cardinality(Reserved) <= LOGSIZE

-----------------------------------------------------------------------------
(* The inductive invariant *)

\* One process at most is in commit(), and no operation is under way then.
Commits(p) == pc[p] \in {"write", "install", "finish"}
CommitInv ==
  /\ committing <=> \E p \in Procs : Commits(p)
  /\ \A p, q \in Procs : Commits(p) /\ Commits(q) => p = q
  /\ committing => Open = {}

\* A process has a buffer locked in log_write() only, and no other process has it.
CurInv ==
  /\ \A p \in Procs : /\ cur[p] # NoBlock <=> pc[p] \in {"check", "append"}
                      /\ cur[p] # NoBlock => left[p] < OpBlocks[p]
  /\ \A p, q \in Procs : cur[p] = cur[q] /\ cur[p] # NoBlock => p = q

CountInv == outstanding = Cardinality(Open)

HeadInv == \A i, j \in DOMAIN dhead : dhead[i] = dhead[j] => i = j

\* The first n blocks of lh are in the log; the first tail are home; the others are clean.
Copied(n) == \A i \in 1 .. n : dlog[i] = mem[lh[i]]
Home == \A i \in 1 .. tail : disk[lh[i]] = dlog[i]
Clean == \A b \in Blocks \ Entries(lh) : mem[b] = disk[b]

\* What memory and disk hold while the kernel boots, ...
BootInv == boot # "up" =>
  /\ dirty = {} /\ mem = disk
  /\ \A p \in Procs : pc[p] = "begin"
  /\ boot = "head" => lh = <<>> /\ tail = 0
  /\ boot = "install" => lh = dhead /\ Home

\* ... between commits, ...
IdleInv == boot = "up" /\ ~committing =>
  /\ dhead = <<>> /\ tail = 0 /\ dirty = Entries(lh)
  /\ \A b \in Blocks : mem[b] # disk[b] => b \in Held \cup Entries(lh)

\* ... and in commit(), before the header is written, after it, and at the end.
WriteInv == (\E p \in Procs : pc[p] = "write") =>
  /\ dhead = <<>> /\ dirty = Entries(lh)
  /\ Copied(tail) /\ Clean
InstallInv == (\E p \in Procs : pc[p] = "install") =>
  /\ dhead = lh /\ dirty = {lh[i] : i \in tail + 1 .. Len(lh)}
  /\ Copied(Len(lh)) /\ Home /\ Clean
FinishInv == (\E p \in Procs : pc[p] = "finish") =>
  /\ lh = <<>> /\ dhead = <<>> /\ tail = 0 /\ dirty = {} /\ mem = disk

PhaseInv == HeadInv /\ BootInv /\ IdleInv /\ WriteInv /\ InstallInv /\ FinishInv

\* The state of the log in each phase of its work; the proofs rest on it.
IInv == TypeOK /\ CurInv /\ CountInv /\ CommitInv /\ ReservedFits /\ PhaseInv

\* end_op() of the last operation returns only when everything logged is on disk.
DurableReturn ==
  [][\A p \in Procs : pc[p] = "finish" /\ pc'[p] = "done" => Recovered' = mem']_vars

\* Every operation ends and every sleeper in begin_op() is woken once crashes have stopped.
Terminates == <>[](\A p \in Procs : pc[p] = "done")
=============================================================================
