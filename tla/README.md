# Verification of the CS333 operating-systems labs

The repository holds the solutions of a course's lab assignments: modified xv6
kernels (lab4, lab5, lab6, lab8, lab9), POSIX-thread programs (lab7), an emulated
file system (lab10), a shell (lab3) and small exercises (lab1, lab2). The parts are
independent programs. This directory specifies those whose correctness depends on
the order in which things happen, checks them with TLC on small instances, and
proves the safety of all of these with TLAPS for every instance.

    tlc -config Ulock.cfg MCUlock.tla       # one run; PROJECT.json lists them all
    tlapm UlockProofs.tla                   # the proofs of one module

Paths below are relative to `src/`; `xv6/` stands for `lab6/lab6solution-part3/`, the
copy of the xv6 tree whose file system is cited here (the labs leave it unchanged).

## 1. Inventory

### 1.1 Scheduler and process table: `lab9/200050157_lab9/proc.c`

* **State.** `ptable.proc[]` (`state`, `chan`, `killed`, `pid`, `parent`, `tgid`,
  `thread_count`), `ptable.lock`, `nextpid`, `cpus[].proc`.
* **Operations.** `allocproc`, `fork`, `clone`, `exit`, `wait`, `join`, `kill`,
  `scheduler`, `sched`, `yield`, `forkret`, `sleep`, `wakeup`.
* **Interaction.** The timer interrupts a thread anywhere but under a kernel
  spinlock; `sched()` hands the CPU over with `ptable.lock` held; a sleeper and its
  waker meet through a channel address.
* **Hard.** The lock belongs to the CPU and crosses the context switch. `fork` and
  `clone` fill a slot outside the lock. Two calls (`wait`, `join`) sleep on one
  channel. `kill` of a leader wakes every sleeper.
* **Correct when** no exit is missed, a thread's leader outlives it, no parent
  pointer dangles, a kill reaches the processes it names and no other.

### 1.2 User-level locks and semaphores: `ulock.c`, `block_sem`, `signal_sem`

* **State.** In user memory, `struct sem_t`: `val` and the spinlock `lk`.
* **Operations.** `init_sem`, `acquire_lock`, `release_lock`, `down_sem`, `up_sem`;
  in the kernel, `block_sem` and `signal_sem`.
* **Interaction.** `down_sem` and `up_sem` are system calls of the threads of one
  process; `block_sem` trades `lk` for `ptable.lock` and sleeps.
* **Hard.** `lk` is taken with interrupts on, so its holder can be preempted; it is
  released before the thread is asleep; channels are virtual addresses, which two
  processes can share.
* **Correct when** the operations are those of an atomic counting semaphore, no
  wakeup is lost, and neither lock is waited for in the wrong order.

### 1.3 `tc-sem.c`, the program that uses all of it

Threads add to a shared `VAR` between `down_sem` and `up_sem`; `main` joins them.
**Correct when** no increment is lost, each thread is joined and the program ends.

### 1.4 Worker pools: `lab7/200050157_lab7/taskqueue.c`, `lab7/lab7-solutions/taskqueue.c`

* **State.** The task array with its two indices, or a ring with `taskCount`; a flag
  that the input has ended; five statistics.
* **Hard.** `main` changes the indices and the flag without the lock of the workers.
  The first version signals without that lock; the second tests its exit condition
  without it and drops items when the ring is full.
* **Correct when** each task is performed once, the printed statistics are those of
  a sequential run, and the program ends.

### 1.5 Cricket matches: `lab7/200050157_lab7/cricket-cv-mutex.c`

Players enter two teams of 11, a game thread ends the match when both are complete
and lets the next 22 in by 22 signals. **Correct when** nobody plays in two matches
or none, each match has complete teams and its own runs, and the day ends.

### 1.6 Emulated file system: `lab10/lab10`

* **State.** On the device, a superblock with bitmaps and counters, inodes and data
  blocks; in memory, mounts and the tables of directory and file handles.
* **Operations.** `opendevice`, `closedevice`, `create_file_system`, `open_root`,
  `change_dir`, `open_file`, `emufs_create`, `_delete`, `_read`, `_write`, `_seek`,
  `_close`.
* **Hard.** Long sequences of legal calls: recursive deletion with open handles,
  inode and block reuse, a write that fails half-way, block boundaries.
* **Correct when** bitmaps, counters, tree and handles agree and files keep what was
  written.

### 1.7 xv6's log: `xv6/log.c`

* **State.** On the disk, the home blocks, the log's blocks and its header; in memory
  `log.lh`, `outstanding`, `committing`, and the buffers of the cache with `B_DIRTY`.
* **Operations.** `initlog` with `recover_from_log`, `begin_op`, `log_write`, `end_op`,
  `commit`, `write_log`, `write_head`, `install_trans`.
* **Hard.** A crash between any two disk writes, also during recovery. Room is
  reserved before it is known what an operation logs. Waiters in `begin_op` wait for
  two different reasons on one channel.
* **Correct when** the disk after recovery is what the last commit made it, whole
  operations only, `end_op` returns with its writes durable, and nobody waits for ever.

### 1.8 Buffer cache, sleep locks, disk queue: `xv6/bio.c`, `sleeplock.c`, `ide.c`

* **State.** The list of buffers with `refcnt`, `dev`/`blockno`, `flags` and data; a
  sleep lock for each; the queue of the disk driver.
* **Operations.** `bget`, `bread`, `bwrite`, `brelse`, `acquiresleep`, `releasesleep`,
  `iderw`, `ideintr`.
* **Hard.** `bget` releases `bcache.lock` before it has the buffer's sleep lock. The
  interrupt handler changes a buffer whose user sleeps. The log pins buffers.
* **Correct when** a block is in one buffer, has one user at a time who finds its last
  content, no sleeper is forgotten, and `bget` panics only when no buffer can be had.

### 1.9 Pipes and open files: `xv6/pipe.c`, `file.c`

* **State.** `ftable` with its reference counts, the descriptors of each process,
  `struct pipe` in a page of its own.
* **Operations.** `pipe`, `dup`, `fork`, `close`, `exit`, `read`, `write`, `kill`.
* **Hard.** `fileclose` calls `pipeclose` after `ftable.lock` is released. The page is
  freed by the second close. Counters wrap. `kill` comes between a test and a sleep.
* **Correct when** bytes come out once and in order, an end closes with its last
  reference, no process touches a freed page, and sleepers have a reason to sleep.

### 1.10 Inodes and directories: `xv6/fs.c`, `sysfile.c`

* **State.** Inodes and directory entries on the disk; the inode cache with `ref`,
  `valid` and a sleep lock for each inode; current directories and open files.
* **Operations.** `ialloc`, `iget`, `idup`, `ilock`, `iunlock`, `iput`, `namex`,
  `dirlink`; `open`, `create`, `mkdir`, `link`, `unlink`, `chdir`, `close`.
* **Hard.** Between two locks a call keeps only references. `iput` reads the count,
  lets go of `icache.lock` and acts on what it read. `create` and `unlink` put a parent
  with the child locked. `..` of a removed directory is no link any more.
* **Correct when** links and references are counted right on every path, an inode is
  freed only when nobody can reach it, and directories form a tree.

### 1.11 The rest

| part | why it matters | state |
|---|---|---|
| `lab9 tc-var.c` | lock-only client: the part of `tc-sem.c` that does not block | not modelled |
| `lab7 cricket-semaphores*.c`, the course's `cricket-cv-mutex.c`, the partner's `20d070006_lab7` | same exercises with other synchronisation | not modelled |
| `lab6 proc.c`, `trap.c` | run and wait times, order of `tickslock` and `ptable.lock` | not modelled |
| `lab5` | lazy `mmap` served by page faults | not modelled |
| `lab8 proc.c` | an earlier `clone`/`join`: `exit` kills the group inline, `wait` reaps threads | not modelled |
| `lab4 proc.c` | readers of the process table | not modelled |
| `lab3 shell.c` | foreground, background and serial children | not modelled |
| xv6's `vm.c`, `trap.c`, other drivers, boot, `mkfs`, user programs; lab1, lab2 | hardware, or sequential tools without state | not modelled |

## 2. Modules

| module | models | composes |
|---|---|---|
| `Xv6Sched` | scheduler, `yield`, `sleep`, `wakeup1`, `kill`, effect of `clone` and `exit`: a library of actions | |
| `Semaphore` | abstract: an atomic counter with calls and returns | |
| `Ulock` | `down_sem`, `up_sem`, `block_sem`, `signal_sem` | extends `Xv6Sched`, implements `Semaphore` |
| `TcSem` | `tc-sem.c` with `clone`, `exit`, `join` | extends `Ulock` |
| `UlockProofs` | invariance and refinement proofs of both | extends `TcSem` |
| `ThreadGroup` | the process table under fork, clone, exit, wait, join, kill | |
| `Pthreads` | mutexes and condition variables (external) | |
| `TaskQueue`, `TaskQueueRing`, `CricketCv` | the three lab7 programs | extend `Pthreads` |
| `TaskQueueProofs`, `TaskQueueRingProofs`, `CricketCvProofs` | their proofs | extend them |
| `Emufs` | lab10's file system | |
| `AtomicDisk` | abstract: a disk on which operations happen whole or not at all | |
| `Log` | `log.c` over a cache and a disk that crashes | implements `AtomicDisk` |
| `FileSystemProofs` | proofs of the log and of lab10's file system, which share no state | extends `Log`, `Emufs` |
| `BlockStore` | abstract: blocks with one user at a time | |
| `BufferCache` | `bio.c`, `sleeplock.c` and the queue of `ide.c` | implements `BlockStore` |
| `KernelProofs` | proofs of both kernel parts that other modules do not build on | extends `ThreadGroup`, `BufferCache` |
| `BytePipe` | abstract: a bounded queue of bytes with two ends | |
| `Pipe`, `PipeProofs` | `pipe.c` under `file.c` and the descriptors of processes | implements `BytePipe` |
| `Inodes`, `InodesProofs` | inode cache, directories and the calls on them; crashes by `AtomicDisk`'s promise | |
| `MC...` | values of the constants, symmetry | |

### How state and actions correspond to the code

* **`Xv6Sched`.** `cpu[c]` is `c->proc`; `ptlock` names the CPU that holds
  `ptable.lock`. A thread in `yield()` or `forkret()` must release the lock when it
  is next switched to: `yielding` holds those threads. `Sched` gives the CPU to its
  scheduler with the lock still held. The round-robin scan is any choice of a
  `RUNNABLE` thread here, and its order is in the fairness.
* **`Ulock`.** `pc[t]` is the next access to shared memory in the call `t` makes; an
  action is one access, so threads interleave at every one. `acquire_lock` is the
  `xchg` that succeeds; the failing ones change nothing. Its compiler barrier is
  commented out (`ulock.c:40-45`); `xchg` orders the accesses on the processor, and the
  model assumes that the compiler keeps them in program order too. `KillLeader` wakes
  every sleeper, as the code's misplaced test does.
* **`TcSem`.** `VAR++` is a load and a store. `clone` may fail: `main` ignores that.
* **`ThreadGroup`.** One step is one section under `ptable.lock`; the unlocked part of
  `fork` and `clone` is in steps of its own: `allocproc` sets `tgid` and `thread_count`
  only after it has released the lock and got a stack (`loc` says how far it is), so a
  slot being filled has those of its last process. A free slot keeps them, and `kill`
  finds it by its pid, 0 in a slot never used or reaped: `Kill(0)` marks such slots and
  wakes every sleeper. `RUNNABLE` stands also for `RUNNING`. A killed process starts no
  new call, since `trap()` ends it. The panic in `exit()` is a state, `panicked`.
* **`TaskQueue`, `TaskQueueRing`, `CricketCv`.** `pc` again is the next access. What
  a program does under a mutex that all readers take too is one step; unlocked
  accesses are steps of their own. `cond_wait` may wake without a signal.
  `queue_delete()` on an empty ring has no `return`: it gives any number. In `CricketCv`
  the game thread's summary of the day (`SumUp`) is part of the step that ends a match.
* **`Emufs`.** The program is sequential: an operation is one step, and one that
  returns -1 without an effect is stuttering. A write that finds the disk full has an
  effect and an action, `WriteFull`. Names and contents are small sets; a byte nobody
  wrote is `Junk`. What `malloc` leaves behind an entity's name can make `memcmp()`
  miss it for ever: `findable` is chosen when the inode is made. The actions test what the
  code tests. What it leaves to its caller are conditions of `EmNext` with names of their
  own: `HandlesClosed` (no handle is open when the file system is made), `LeadsTo`
  (`change_dir` gets the path of a directory, `open_file` that of a file) and `SparesRoot`
  (the root is not deleted).

* **`Log`.** A step is one section under `log.lock` or one write of a disk block. `mem`
  and `dirty` are the buffers, of which a clean one may be recycled at any time: then
  `bread` finds the disk's block (`Bread`). `Crash` loses what is in memory; `boot` says
  how far recovery is. That the operation of `p` modifies at most `OpBlocks[p]` blocks, fewer
  than `MAXOPBLOCKS`, is an assumption that xv6's calls meet (see 7).
* **`BufferCache`.** `lru` is the list from `head.next` on. Between `bget`'s release of
  `bcache.lock` and the sleep lock stands a program counter. In `acquiresleep` the test of
  `locked` is a step and the sleep another (`tosleep`), and `releasesleep` takes `lk->lk`,
  which the first keeps (`SpinFree`). `idequeue`'s head is what the disk serves; `Ideintr`
  is the interrupt, `IdeintrError` the one after a failed read, which sets `B_VALID` all the
  same (`unread`). A writer chooses a new content from a small set. The log appears by the
  buffers it pins, `dirty` without a transfer, up to `LOGSIZE` of them. With `NBUF` =
  `LOGSIZE`, as `param.h:11-12` has it, they and the buffers in use can be all there are, and
  `bget` panics: a state from which `bcache.lock` is never released.
* **`Pipe`.** The copying loops of `pipewrite` and `piperead` run under the pipe's lock
  and are a step each, up to the next sleep. Where `sleep` follows a test of `killed`, the
  two are steps, for `kill` does not take the lock. `unannounced` is a history variable.
* **`Inodes`.** `k[p]` holds the local variables of a call, `put` an inode that `iput` is
  giving up. A step goes from the taking of an inode lock to the next access another call
  can come before. A panic about an inode just locked is `BadInode`. `strays` and `lost` are history variables: who followed `..` of a
  directory that no entry names any more, and what a removed directory still named.

Operators marked *Faulty variant* are changed forms of the definition after them. No
specification uses them; substituting one shows that a property can fail.

## 3. Runs

| run | question | instance |
|---|---|---|
| `ulock` | are the semaphores atomic, without lost wakeups, in lock order? | 3 threads of 2 processes, 2 CPUs, one channel address for both, values to 2; 588k states |
| `tcsem` | is no increment lost, does the program end, does the semaphore progress? | `main`, 2 threads, 2 CPUs, 1 iteration |
| `groups` | exits noticed, leaders outlive threads, parents alive, kills complete? | 4 slots, 4 pids; 290k states |
| `taskqueue` | each task once, right totals? | `main`, 3 workers, 3 tasks; 34k states |
| `ring` | count against ring, right totals, termination? | 2 workers, 4 tasks, ring of 3 (2 usable); 88k states |
| `cricket` | matches counted right, the day ends? | 2 matches, teams of 1, 4 players, runs 0 or 1; 29k states |
| `emufs` | tree, bitmaps, handles, contents consistent? | 4 inodes, 2 data blocks of 2 bytes, directories of 2; 201k states |
| `log` | atomic and durable through crashes, enough room, everybody woken? | 3 processes, of which 2 log up to 2 of 2 blocks, 2 crashes; 276k states |
| `bcache` | one buffer, one user, last content, no lost wakeup, no needless panic? | 3 users, 2 buffers, 3 blocks, 2 contents, up to 2 buffers pinned; 87k states |
| `pipe` | bytes once and in order, ends and references, sleepers? | a shell and 2 children, 2 files, ring of 2, counters modulo 4; 1.0M states |
| `inodes` | counts, freeing, tree, lock cycles? | 2 processes, 4 inodes, a tree two deep, one process in it, 3 calls, 1 crash; 631k states |
| `inodes_leak` | refuted comment, see 6 | two processes and one file |

**Why the bounds suffice to be interesting.** With three threads one can hold a
semaphore, one sleep and one overtake the sleeper, and with two processes on one
address a wakeup reaches the wrong one; the proofs lift the instance's
bounds. `tcsem` has a thread that blocks and one that posts, and the failed `clone`
that makes `join` find nothing. Four slots are init, a leader, a thread of it and a
child or second thread. The ring is shorter than its input, so it overflows and
wraps. Four cricketers and two matches make newcomers take places of those who were
signalled. In `emufs` a directory in a directory with an open file is deleted in one
call, the disk fills up, and a write ends inside a block, on its boundary and beyond.
In `log` three operations do not fit at once, so one waits for room, be it one that
only reads, and a crash in the recovery from a crash is reached. In `bcache` there are fewer buffers than users
and than blocks, so they are recycled, users want one block, and the log or the users can
have all buffers. In `pipe` messages are longer than
the ring and the counters wrap after two rounds of the ring. In `inodes` a directory is
removed while another process stands in it, opens in it or links into it. (The panic
"unlink: nlink < 1" needs six calls and lies beyond the run's three; an instance with
`mkdir` and `unlink` alone reaches it, and `TypedAlways` covers it.)
`MaxVal`, `MaxPid`, `Iters`, `Sizes`, `MaxCalls`, `MaxCrash` and `Width` bound unbounded
quantities; `INT_MAX` in `TaskQueue` is a number above all tasks.

Deadlock is checked in `ulock`, `tcsem` and `emufs`. The programs of lab7 end, `groups`
and `bcache` stop after a panic, and in the other modules the bounds on calls and crashes, or the
absence of processes, end a behaviour; `Terminates` and `CyclesThroughIput` say there
what a deadlock would be.

### Properties

* `NoLostWakeup` (`Ulock`): a sleeper on a positive semaphore is about to be woken by
  a thread already past its increment. `LockOrder`: nobody sleeps with `lk`, or spins on
  it under `ptable.lock`, the deadlock `proc.c:695` tells of. `ImplementsSemaphore` and,
  in `tcsem`, `SemaphoreProgress`: refinement of `Semaphore`, safety and liveness.
* `OneToken`, `FinalValue`, `Terminates` (`TcSem`).
* `NoMissedExit`, `LeaderOutlives`, `ParentAlive`, `KillReachesGroup` (`ThreadGroup`): a
  kill of the group misses only threads that a `clone` under way has not yet put in it.
* `PerformedOnce`, `PrintsTotal` (`TaskQueue`); `CountMatchesRing`, `PrintsTotal`,
  `Terminates` (`TaskQueueRing`); `SummariesRight`, `TeamsComplete`, `Terminates`
  (`CricketCv`): what a match counts is what its own players scored, and the summary of the
  day is that of its matches.
* `Allocation` (bitmaps, counters and owners agree), `Tree`, `HandlesValid`,
  `FilesKeepWrites` (`Emufs`).
* `ReservedFits` (`Log`): the room `begin_op` has granted is there. `ImplementsAtomicDisk`:
  whatever crashes come, the disk as recovery would leave it changes by whole commits
  only. `DurableReturn`: no `end_op` that commits returns before its blocks are stable.
  `Terminates`: whoever waits in `begin_op` gets in, when no more crashes come.
* `SleepersWait` (`BufferCache`, `Pipe`): nobody sleeps without a reason. `PanicMeansFull`:
  `bget` panics only when each buffer is pinned or somebody's, so no reference and no pin
  is left behind. `ImplementsBlockStore`: one user of a block at a time, who finds its last
  content, unless the disk failed to read it.
* `EndsOpen`, `NoUseAfterFree`, `ImplementsBytePipe` (`Pipe`).
* `Counted`, `FreeAlone`, `TypedUnlessStray`, `Tree`, `CyclesThroughIput` (`Inodes`): the
  last says that a cycle of processes that wait for each other's inode locks needs a
  process in `iput`, which locks a directory while its caller holds a child.

The properties of `Inodes` except the counts of references are about behaviours in which
nobody has gone astray (`strays = {}`), that is, followed `..` of a removed directory; 6
says what the code does otherwise. The run has both kinds of behaviour.

The type invariants `TypeOK` (but for `EmTypeOK`, which also says that no inode gets more
entries than it has room for) and the inductive invariants (`IInv`, `TgInv`, `TcIInv`,
`EmInv`) are not in the cfgs, for they are proved; add those that a model defines
to the `INVARIANTS` line to see TLC check them. Those of lab7's totals and of `Inodes` are
defined next to the proofs, and a module that extends both the `MC` module and the proofs
lets TLC check them too (for `DepthInv` with depths up to 3). All of them were.

## 4. Fairness

* **xv6 (`Ulock`, `TcSem`).** A scheduler's loop goes on: weak fairness of its steps.
  The scan is round-robin, so a thread that is `RUNNABLE` again and again is run:
  strong fairness of `Dispatch` for each thread. The timer fires, and a dispatched
  thread executes something before it does: strong fairness of a thread's steps and
  of `Yield`. The `xchg` of a spinner may fail as often as others win: strong
  fairness only of *some* spinner on a semaphore getting `lk`. Hence
  `SemaphoreProgress` says that one of the callers is served, not each.
* **pthreads.** Every thread runs; a mutex that becomes free again and again is
  obtained in the end (strong fairness per thread, what a fair futex queue or plain
  chance gives). Spurious wakeups happen but need not.
* **`Log`.** `FairSpec`: a booting machine goes on (weak fairness of `BootStep`), and so does
  each process in an operation (weak fairness of `OpStep(p)`): disk writes end and the
  scheduler is fair. Each process does one operation, which it starts and ends; crashes need
  never happen. Weak fairness suffices,
  since a process in `begin_op` that could go on is disabled again only by others getting in,
  and the instance's operations are bounded.

## 5. Proofs

Eight modules hold theorems. They prove an inductive invariant of each component (`IInv`;
`TgInv` for process groups, `TcIInv` for `tc-sem`, `EmInv` for `Emufs`), for every value of
the constants that the named assumptions allow, and derive the properties from it. It has
one conjunct for each idea; each conjunct has a lemma with one step for each action (in
`Emufs`, each action has a lemma with one step for each conjunct).

The assumptions say what the code or its client fixes: that the tables are finite
(`NPROC`, `NINODE`, `NBUF`, the threads that a program creates), that sizes are numbers,
that the names of the model's constants differ. Where one says more, it is named below.

| module | proved | of which the runs check |
|---|---|---|
| `UlockProofs`, semaphores | `Invariance`, `TypeCorrect`, `LkExcludes`, `WakeupsReach`, `LocksOrdered`, `Implementation` | `NoLostWakeup`, `LockOrder`, `ImplementsSemaphore` |
| `UlockProofs`, `tc-sem` | `TcInvariance`, `TokenUnique`, `NothingLost` | `OneToken`, `FinalValue` |
| `KernelProofs`, process groups | `TgInvariance`, `TgTypeCorrect`, `ExitSeen`, `LeaderLast`, `NoOrphan`, `KillComplete` | `NoMissedExit`, `LeaderOutlives`, `ParentAlive`, `KillReachesGroup` |
| `TaskQueueProofs` | `Invariance`, `TypeCorrect`, `ExactlyOnce`, `TotalPrinted` | `PerformedOnce`, `PrintsTotal` |
| `TaskQueueRingProofs` | `Invariance`, `TypeCorrect`, `CountRing`, `TotalPrinted` | `CountMatchesRing`, `PrintsTotal` |
| `CricketCvProofs` | `Invariance`, `TypeCorrect`, `CompleteTeams`, `RunsCounted` | `TeamsComplete`, `SummariesRight` |
| `FileSystemProofs`, log | `Invariance`, `TypeCorrect`, `RoomFits`, `Pinned`, `Durable`, `Implementation` | `ReservedFits`, `DurableReturn`, `ImplementsAtomicDisk` |
| `FileSystemProofs`, lab10 | `EmInvariance`, `EmTypeCorrect`, `AllocationAlways`, `TreeAlways`, `HandlesAlways`, `WritesKept` | `EmTypeOK`, `Allocation`, `Tree`, `HandlesValid`, `FilesKeepWrites` |
| `KernelProofs`, buffer cache | `Invariance`, `TypeCorrect`, `Refs`, `Sleepers`, `OneBuffer`, `Transfers`, `PanicOnlyFull`, `Implementation` | `SleepersWait`, `PanicMeansFull`, `ImplementsBlockStore` |
| `PipeProofs` | `Invariance`, `TypeCorrect`, `EndsFollowFiles`, `PipeOutlivesItsUsers`, `SleepersHaveToWait`, `Implementation` | `EndsOpen`, `NoUseAfterFree`, `SleepersWait`, `ImplementsBytePipe` |
| `InodesProofs` | `Invariance`, `TypeCorrect`, `CountedAlways`, `FreedAlone`, `TypedAlways`, `TreeAlways`, `CyclesAlways` | `Counted`, `FreeAlone`, `TypedUnlessStray`, `Tree`, `CyclesThroughIput` |

Why the properties are not inductive alone:

* **`Ulock`.** That a waker cannot slip between a sleeper's test of `val` and its sleep
  needs to know that the sleeper has `ptable.lock` and that the waker needs it: `PcInv`
  says which places of the code hold the lock, and `RunInv` that `cpu[]` and `p->state`
  agree, so that one thread at most is at those places. That `val` does not go below 0
  needs the test to be still true at the decrement (`TakeInv`). The refinement maps `val`
  to the counter and derives from `pc` whether a call has taken effect.
* **`TcSem`.** It keeps those conjuncts of `Ulock`'s invariant that do not fix what a thread
  does outside of the calls. `PlaceInv` says in which call a thread is at each line of
  `inc()`; `TokenInv` that the mutex is 0 exactly while one worker is between its `down_sem`
  and the decisive step of its `up_sem`, and that what this worker has read of `VAR` is still
  there; `VarInv` that `VAR` is the number of iterations done. `FinalValue` further needs
  that `join` cannot find all threads left too early (`JoinInv`): each call that returns
  has taken one away. Assumed: the mutex starts at 1 and is of the threads' process.
* **`ThreadGroup`.** A slot that `fork` or `clone` is filling has a parent who is in that
  call, and only one; a sleeper in `wait` or `join` has seen the table as it is. The `tgid`
  left in a slot that is free or not yet filled is that of no process in another slot
  (`StaleInv`), so that it is no thread of a group before `clone` makes it one.
* **`TaskQueue`.** `TaskInv` counts: a task is performed once exactly if it has been taken
  and is in nobody's hand. `EndInv`: a worker leaves only when `main` has appended all.
  `ExactlyOnce` assumes that there is a worker. `DataInv`: the statistics are those of the
  tasks performed, and what a worker under `data` has read is still there when it writes.
* **`TaskQueueRing`.** Inside a critical section ring and count differ by the item just
  moved (`Counted`); the arithmetic of the ring is in lemmas of its own. `DataInv`: while no
  item has been dropped, what is in the sum, in the ring and in the workers' hands is the sum
  of the lines inserted; `EndInv`: in the end nothing is in the ring or in a hand.
* **`CricketCv`.** `TeamInv` counts the players of each match and of the day, so that one
  who is still to play finds a match still to be played. `ScoreInv`: the runs of a team are
  those of its players. `DayInv`: best team, best player and wins of the day are those of
  the matches summed up.
* **`Log`.** There is a conjunct for each phase of `commit` and of recovery: what part of
  `lh` is in the log, what part is home, and that the rest of the buffers is clean. The
  refinement's `stable` is what recovery would make of the disk, so that a crash is a
  step of `AtomicDisk` only because of them. Assumption: `OpBlocks[p] < MAXOPBLOCKS`.
* **`Emufs`.** `EmInv` is the conjunction of the five invariants and two more facts. `Rooted`:
  the root has no parent and is nobody's entry; without it a deletion could take the root
  along. `Unwritten`: nothing is remembered of a free inode, so that the file that gets it
  owes nothing to the one before. Each operation has its lemmas (`Made...`, `Removed...`,
  `Longer...`). Assumed: sizes are positive, the tables are indexed by numbers, and the
  client keeps to `HandlesClosed`, `LeadsTo` and `SparesRoot`.
  - *What is below an inode* (`Below`) is a recursive function, with as many layers as there
    are inodes. It is the least set with that inode that holds whatever its directories name
    (`UnderLeast`, `UnderWhole`): each layer but a complete one adds an inode, and there are
    not more than there are layers. The steps are then argued about such sets and never
    about layers, in `MadeTree` and `RemovedTree` both ways.
  - *Deletion.* Neither the root nor the parent of an inode is below it, and the parents of
    all others below it are too (`SubtreeFacts`): the complement is whole. So what stays
    loses one entry of one directory and is a tree. The blocks of the deleted files are in
    no other, and so what is taken out of the bitmap is what the owners lose. Handles of
    what is deleted are closed, whatever path opened them.
  - *Writes.* The free blocks come each once and in number (`FreeBlocksOnce`), so that
    the new mappings are injective and `used_blocks` counts them (`TakenCounted`). Position
    `k` of a file is byte `k % BLOCKSIZE` of its block `k \div BLOCKSIZE` and of no other
    (`Place`, `BlockWritten`), and the blocks written back are of no other file
    (`BlocksTyped`, `SameBytes`).
  - *Paths* lead from allocated inodes to allocated ones (`PathAllocated`), which a handle
    therefore stands for when it is opened.
* **`BufferCache`.** `refcnt` is the number of users between `bget` and `brelse`; hence a
  buffer that `bget` recycles has no user, not even one still waiting for its lock. The
  list stays a permutation. Who stands between the test of a sleep lock and the sleep has
  seen it taken, and it still is (`ToSleepInv`). A dirty buffer is in the disk's queue or
  pinned; with the counts of references this gives `PanicOnlyFull`, for any `NBUF` and
  `LOGSIZE`.
* **`Pipe`.** A process in a call has a descriptor for its file (`FileInv`), so the file has
  references, so its end is open; the flag of an end is true exactly while it has a file or
  somebody is about to close it, and at most one of the two (`EndInv`). Counts of
  descriptors change by one with `dup` and `close` and by a process's own with `fork`
  (`SetRef`, `ClearRef`, `CopyRefs`). The arithmetic modulo `Width` is in lemmas of its own.
  The refinement of `BytePipe` is proved too. Writers and readers name the same places of
  the ring, on either side of the wrap-around of the counters, because `PIPESIZE` divides
  `Width` (`WritePlace`, `ReadPlace`), and places less than `PIPESIZE` apart are different
  (`Apart`); hence `Copy` appends to `Queue` and a read takes its front (`QueueAfterPut`,
  `QueueAfterGet`). That a writer's end is still open when it writes is `EndOfCall`.

* **`Inodes`.** The invariant has two parts. What a call refers to where it stands (`Shape`)
  and that `ref` is the number of pointers (`RefsCounted`) hold whatever happens, for
  no call trusts what it finds to count a reference. The rest holds while nobody has followed
  `..` of a removed directory (`strays = {}`): after that a process may have an inode that
  was freed and serves another file, and the code gives no guarantee.
  - `Sound`: locks are where the calls keep them (`LockInv`); the cache has what the disk
    has (`DiskInv`); `nlink` counts the entries, the subdirectories, the links that `link()`
    has counted before it makes them, and those that `unlink()` has removed and still counts
    (`LinkInv`, `Owing`); what anyone refers to is allocated (`AllocInv`); an inode that is
    being freed or made has nobody else (`FreeInv`, `MakeInv`); what a call found under a lock
    still holds (`CallInv`); a directory is named once, by the one its `..` names (`DirInv`).
  - `FreeInv` is the argument about `iput()`: `ref` was 1 and `nlink` 0 when it looked, so
    the only pointer is its own and no entry leads there; a new pointer would come from an
    entry or from another pointer.
  - `DepthInv`: there is a depth for every directory, greater than that of the one it is in.
    `Tree` does not need it; `CyclesAlways` does: if nobody of a cycle is in `iput()`, each has a
    directory locked and waits for one that it has an entry for, so that around the cycle
    depth would grow for ever.
  - A step on which somebody goes astray need not keep `Sound`, and `strays` only grows, so
    that each of these lemmas may assume that nobody is astray after the step.

Sums over data (`Total`, the statistics, the runs) are proved though the library's induction
takes an operator: a number is the size of a set of that many pieces, so that sums are sizes
of unions, and induction is over the set of those `n` for which the claim holds
(`SetInduction`, from the well-foundedness of `<`, which takes no operator). So are the
recursive functions of `Emufs`.

**Only model-checked:** liveness (`Terminates`, `SemaphoreProgress`), which is outside the
prover's reach as `ENABLED` is. Every other property of a passing run is a theorem.

## 6. Where code and comments disagree

`inodes_leak`: `xv6/fs.c:327-328` says "If that was the last reference and the inode has no
links to it, free the inode (and its content) on disk." `iput` reads `ip->ref`, releases
`icache.lock` and decrements `ref` later: two processes that put the last two references can
both read 2, and the inode is never freed.

The models show further disagreements, which have no run because one or two calls show
them. Each formula is in its module and fails when it is added to the cfg.

| formula | comment | code |
|---|---|---|
| `AbandonedPassToInit` (`ThreadGroup`) | `lab9 proc.c:262` "Pass abandoned children and threads to init." | `exit()` calls `kill()` with `ptable.lock` held; `acquire()` panics |
| `WaitsForChild` (`ThreadGroup`) | `proc.c:283-284` "Wait for a child process to exit", "-1 if this process has no children" | a child that ever made a thread has `thread_count` > 1 for good and is skipped |
| `GroupKilled` (`ThreadGroup`) | `proc.c:507` "Kill all threads in the group" | a thread whose `tgid` `clone` has not set yet is missed |
| `FreeUnmarked` (`ThreadGroup`) | `proc.c:492` "Kill the process with the given pid." | `kill(0)` and a stale pid mark free slots (`proc.c:501-519`) |
| `MaxOfMatch` (`CricketCv`) | `lab7/200050157_lab7/cricket-cv-mutex.c:12` "in a single match", and line 99 prints it among "this match's stats" | `max_indiv_score` is not reset at line 112: it is the best of the day so far |
| `AllPerformed` (`TaskQueue`, with `FairSpec`) | `lab7/200050157_lab7/taskqueue.c:123-125` "the while loop in do_work() ensures that work is performed" | signal and broadcast without the lock can fall between test and wait; the program hangs |

Seen while modelling:

* A full disk loses blocks in lab10 (`Allocation` excepts them), and an entity whose name
  `malloc()` left dirt behind is never found (`findable`; no property speaks of it).
* **Buffer cache.** "bget: no buffers" (`bio.c:92`) can be reached: the log may pin `LOGSIZE`
  buffers (one less with the log that `mkfs` makes) of `NBUF`, which is no more, while
  processes hold the rest. After a failed read
  (`ide.c:118`) the holder of the buffer finds whatever was in it.
* **Inodes.** `create` and `unlink` of one name can wait for each other for ever, since both
  put the directory with the child locked (`CyclesThroughIput` states that only `iput` makes
  such cycles; `usertests.c:855-856` looks for these deadlocks). `link(x, ".")` waits for the
  lock it holds itself. `..` of a directory whose parent was removed leads to a free inode
  ("ilock: no type") or to one that serves another file; its links are then miscounted, up
  to "unlink: nlink < 1" (`sysfile.c:211-212`). An entry made in a directory that
  was removed between `nameiparent` and `ilock` is lost with it.
* **Pipe.** A killed writer that has just filled the pipe returns without waking the
  readers (`pipe.c:86-89`); `SleepersWait` names the case.
* **Log.** `log_write` tests `lh.n` before it takes `log.lock`, and `mkfs` makes a log with
  one data block less than `LOGSIZE`. An operation of `MAXOPBLOCKS` blocks could panic or
  overrun; xv6's calls log fewer, `filewrite` splitting what is longer.

## 7. Not modelled

* **Inside the modelled parts:** files, memory and trap frames of processes, `growproc`;
  encryption and several devices at once in lab10, and what its operations do for a client
  that does not keep to `HandlesClosed`, `LeadsTo` and `SparesRoot`; the registers of the IDE
  controller; file contents, `bmap`, the block bitmap, `mknod` and `exec` in `Inodes`.
* **Hazards without a model**, because the property would be a restatement of the code or
  because the module that could show them leaves the data out: a thread of `tc-sem` killed
  between `down_sem` and `up_sem`; `init_sem` on a semaphore in use (`ulock.c:83`); more than `MAX_Q_SIZE` tasks
  (`lab7/200050157_lab7/taskqueue.c:121`); `t / 2` threads for one task
  (`lab7/lab7-solutions/taskqueue.c:43`); handles closed across mounts, a `char` parent of
  255, a directory opened as a file (`emufs-ops.c:274`, `:79`, `:447`); blocks beyond a
  small device and an eleventh mount (`emufs-disk.c:472`, `:221`); a log that never commits
  while operations overlap without end (`log.c:154`); a writer killed between its test and its sleep, who sleeps until a
  reader comes (`pipe.c:107`); inodes left unlinked and open by a crash (`fs.c:327`); the
  panic at 50 inodes in use (`fs.c:262`).
* **Whole parts:** those of 1.11. The repository holds two identical copies of xv6's
  file system, `usertests.c` among them, and eight versions of `proc.c`, which differ by a
  few functions; a definition names the lines of one, so most of the repository's lines
  are lines of the other copies and of user programs.

## 8. Plan

1. **Kernels.** `SchedTimes` (lab6: accounting and lock order, on `Xv6Sched`), `LazyMmap`
   (lab5: an abstract address space refined by fault handling), `ThreadGroup` with lab8's
   `exit` and `wait`.
2. **File system.** Contents of files below `Inodes`: `bmap`, `balloc`, `readi` and
   `writei` over `BlockStore` and `AtomicDisk`.
3. **More programs.** The semaphore versions of the cricket matches (`sem_post` as a
   baton), the partner's pool, the course's cricket.
4. **Emufs.** Two devices, and an abstract map from paths to contents that it refines.
