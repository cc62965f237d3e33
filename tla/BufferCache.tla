----------------------------- MODULE BufferCache -----------------------------
(***************************************************************************)
(* xv6's buffer cache (bio.c) with the sleep locks of its buffers           *)
(* (sleeplock.c) and the queue of the disk driver (ide.c).  One step is one *)
(* section under bcache.lock, a sleep lock's own spinlock or idelock, or    *)
(* the interrupt of the disk.  A process that uses two buffers at once, as  *)
(* install_trans() does, is two users.                                      *)
(***************************************************************************)
EXTENDS Naturals, Sequences, FiniteSets

CONSTANTS
  Users,      \* who calls the cache
  NoUser,
  NBUF,       \* the number of buffers
  Blocks,     \* block numbers
  NoBlock,    \* what a buffer holds that was never used
  Vals,       \* what a block can hold
  LOGSIZE     \* how many buffers the log keeps pinned at most

Bufs == 1 .. NBUF
NoBuf == 0

ASSUME CacheAssumption ==
  /\ NBUF \in Nat /\ LOGSIZE \in Nat /\ IsFiniteSet(Users)
  /\ NoUser \notin Users /\ NoBlock \notin Blocks

VARIABLES
  disk,       \* disk[n]: the content of block n
  blockno,    \* blockno[b]: the block buffer b holds
  refcnt,     \* refcnt[b]
  valid,      \* the buffers with B_VALID
  dirty,      \* the buffers with B_DIRTY
  data,       \* data[b]
  unread,     \* the valid buffers whose data the disk failed to read
  lru,        \* the list of buffers, most recently used first
  lock,       \* lock[b]: who has b->lock, or NoUser
  idequeue,   \* the buffers whose transfer is under way or waits for it
  pc,         \* pc[p]: where p stands between bread() and brelse()
  buf         \* buf[p]: the buffer p works on

bufVars == <<blockno, refcnt, valid, dirty, data, unread, lru>>
vars == <<disk, bufVars, lock, idequeue, pc, buf>>

TypeOK ==
  /\ disk \in [Blocks -> Vals]
  /\ blockno \in [Bufs -> Blocks \cup {NoBlock}]
  /\ refcnt \in [Bufs -> 0 .. Cardinality(Users)]
  /\ valid \subseteq Bufs /\ dirty \subseteq Bufs
  /\ data \in [Bufs -> Vals] /\ unread \subseteq Bufs
  /\ lru \in [1 .. NBUF -> Bufs] /\ \A i, j \in 1 .. NBUF : lru[i] = lru[j] => i = j
  /\ lock \in [Bufs -> Users \cup {NoUser}]
  /\ idequeue \in Seq(Bufs)
  /\ pc \in [Users -> {"idle", "acquire", "tosleep", "asleep", "test", "io", "iodone", "use",
                     "unref", "panic"}]
  /\ buf \in [Users -> Bufs \cup {NoBuf}]

\* binit() inserts each buffer at the head of the list.
Init ==
  /\ disk \in {[n \in Blocks |-> v] : v \in Vals}
  /\ blockno = [b \in Bufs |-> NoBlock]
  /\ refcnt = [b \in Bufs |-> 0]
  /\ valid = {} /\ dirty = {} /\ unread = {}
  /\ data \in {[b \in Bufs |-> v] : v \in Vals}
  /\ lru = [i \in 1 .. NBUF |-> NBUF + 1 - i]
  /\ lock = [b \in Bufs |-> NoUser]
  /\ idequeue = <<>>
  /\ pc = [p \in Users |-> "idle"]
  /\ buf = [p \in Users |-> NoBuf]

-----------------------------------------------------------------------------
(* bread(): bget(), the sleep lock, and a read if the buffer is not valid *)

Cached(n) == {b \in Bufs : blockno[b] = n}

\* Nobody has panicked with bcache.lock held.
BcacheLockFree == \A q \in Users : pc[q] # "panic"

BgetHit(p, n) ==
  /\ pc[p] = "idle" /\ BcacheLockFree
  /\ \E b \in Cached(n) :
       /\ refcnt' = [refcnt EXCEPT ![b] = @ + 1]
       /\ buf' = [buf EXCEPT ![p] = b]
  /\ pc' = [pc EXCEPT ![p] = "acquire"]
  /\ UNCHANGED <<disk, blockno, valid, dirty, data, unread, lru, lock, idequeue>>

\* The buffers bget() may recycle (faulty variants: the last one is not scanned, or a pinned
\* one is recycled like any other), and the one it takes: the least recently used.
UnusedButLast == {i \in DOMAIN lru : i < NBUF /\ refcnt[lru[i]] = 0 /\ lru[i] \notin dirty}
UnusedPinned == {i \in DOMAIN lru : refcnt[lru[i]] = 0}
Unused == {i \in DOMAIN lru : refcnt[lru[i]] = 0 /\ lru[i] \notin dirty}
LastUnused == lru[CHOOSE i \in Unused : \A j \in Unused : j <= i]

BgetMiss(p, n) ==
  /\ pc[p] = "idle" /\ BcacheLockFree /\ Cached(n) = {} /\ Unused # {}
  /\ LET b == LastUnused IN
       /\ blockno' = [blockno EXCEPT ![b] = n]
       /\ refcnt' = [refcnt EXCEPT ![b] = 1]
       /\ valid' = valid \ {b}
       /\ unread' = unread \ {b}
       /\ buf' = [buf EXCEPT ![p] = b]
  /\ pc' = [pc EXCEPT ![p] = "acquire"]
  /\ UNCHANGED <<disk, dirty, data, lru, lock, idequeue>>

\* "bget: no buffers": the processor stops, and keeps bcache.lock.
BgetPanic(p, n) ==
  /\ pc[p] = "idle" /\ BcacheLockFree /\ Cached(n) = {} /\ Unused = {}
  /\ pc' = [pc EXCEPT ![p] = "panic"]
  /\ UNCHANGED <<disk, bufVars, lock, idequeue, buf>>

\* b->lock.lk is free: whoever tested lk->locked and goes to sleep keeps it until it sleeps
\* (faulty variant: it is given up before sleep()).
SpinDropped(b) == TRUE
SpinFree(b) == \A q \in Users : ~(pc[q] = "tosleep" /\ buf[q] = b)

\* acquiresleep(): the lock is taken,
AcquireSleep(p) ==
  /\ pc[p] = "acquire" /\ SpinFree(buf[p]) /\ lock[buf[p]] = NoUser
  /\ lock' = [lock EXCEPT ![buf[p]] = p]
  /\ pc' = [pc EXCEPT ![p] = "test"]
  /\ UNCHANGED <<disk, bufVars, idequeue, buf>>

\* or found locked,
FindLocked(p) ==
  /\ pc[p] = "acquire" /\ SpinFree(buf[p]) /\ lock[buf[p]] # NoUser
  /\ pc' = [pc EXCEPT ![p] = "tosleep"]
  /\ UNCHANGED <<disk, bufVars, lock, idequeue, buf>>

\* and sleep() gives lk->lk up under ptable.lock, where the process sleeps.
SleepOnLock(p) ==
  /\ pc[p] = "tosleep"
  /\ pc' = [pc EXCEPT ![p] = "asleep"]
  /\ UNCHANGED <<disk, bufVars, lock, idequeue, buf>>

\* bread() after bget(): a valid buffer is ready.
BreadValid(p) ==
  /\ pc[p] = "test" /\ buf[p] \in valid
  /\ pc' = [pc EXCEPT ![p] = "use"]
  /\ UNCHANGED <<disk, bufVars, lock, idequeue, buf>>

\* iderw(): the request is queued and its process sleeps.
Queue(p) ==
  /\ idequeue' = Append(idequeue, buf[p])
  /\ pc' = [pc EXCEPT ![p] = "io"]

BreadInvalid(p) ==
  /\ pc[p] = "test" /\ buf[p] \notin valid
  /\ Queue(p)
  /\ UNCHANGED <<disk, bufVars, lock, buf>>

-----------------------------------------------------------------------------
(* The disk *)

\* ideintr() has dealt with the first request and wakes the process that waits for it; a
\* buffer is valid now whether its data was read or not.
Served ==
  /\ valid' = valid \cup {Head(idequeue)}
  /\ dirty' = dirty \ {Head(idequeue)}
  /\ pc' = [p \in Users |-> IF pc[p] = "io" /\ buf[p] = Head(idequeue) THEN "iodone" ELSE pc[p]]
  /\ idequeue' = Tail(idequeue)
  /\ UNCHANGED <<blockno, refcnt, lru, lock, buf>>

\* ideintr(): the transfer of the first request has ended.  A buffer in the queue does not
\* change, so that what idestart() sent to the disk is what it holds now.
Ideintr ==
  /\ idequeue # <<>>
  /\ LET b == Head(idequeue) IN
       IF b \in dirty THEN disk' = [disk EXCEPT ![blockno[b]] = data[b]] /\ UNCHANGED data
                      ELSE data' = [data EXCEPT ![b] = disk[blockno[b]]] /\ UNCHANGED disk
  /\ Served /\ UNCHANGED unread

\* ideintr(), when idewait() reports that the disk could not read: the data stays.
IdeintrError ==
  /\ idequeue # <<>> /\ Head(idequeue) \notin dirty
  /\ Served
  /\ unread' = unread \cup {Head(idequeue)}
  /\ UNCHANGED <<disk, data>>

\* The process wakes in iderw(), finds the buffer valid and clean, and returns.
IoReturn(p) ==
  /\ pc[p] = "iodone" /\ buf[p] \in valid \ dirty
  /\ pc' = [pc EXCEPT ![p] = "use"]
  /\ UNCHANGED <<disk, bufVars, lock, idequeue, buf>>

-----------------------------------------------------------------------------
(* What a process does with a buffer, and brelse() *)

\* It modifies the data and calls bwrite().
Bwrite(p, v) ==
  /\ pc[p] = "use"
  /\ data' = [data EXCEPT ![buf[p]] = v]
  /\ dirty' = dirty \cup {buf[p]}
  /\ unread' = unread \ {buf[p]}
  /\ Queue(p)
  /\ UNCHANGED <<disk, blockno, refcnt, valid, lru, lock, buf>>

\* The buffers that are dirty without a write under way.
Pinned == {b \in dirty : \A i \in DOMAIN idequeue : idequeue[i] # b}

\* It modifies the data and calls log_write(), which pins the buffer; begin_op() has seen to it
\* that the log has room.
Pin(p, v) ==
  /\ pc[p] = "use" /\ Cardinality(Pinned) < LOGSIZE
  /\ data' = [data EXCEPT ![buf[p]] = v]
  /\ dirty' = dirty \cup {buf[p]}
  /\ unread' = unread \ {buf[p]}
  /\ UNCHANGED <<disk, blockno, refcnt, valid, lru, lock, idequeue, pc, buf>>

\* brelse(): releasesleep()
ReleaseSleep(p) ==
  /\ pc[p] = "use" /\ SpinFree(buf[p])
  /\ lock' = [lock EXCEPT ![buf[p]] = NoUser]
  /\ pc' = [q \in Users |-> IF q = p THEN "unref"
                            ELSE IF pc[q] = "asleep" /\ buf[q] = buf[p] THEN "acquire"
                            ELSE pc[q]]
  /\ UNCHANGED <<disk, bufVars, idequeue, buf>>

MoveToFront(b) ==
  LET k == CHOOSE i \in DOMAIN lru : lru[i] = b
  IN  [i \in 1 .. NBUF |-> IF i = 1 THEN b ELSE IF i <= k THEN lru[i - 1] ELSE lru[i]]

\* brelse(): the reference is given up, and with the last one the buffer moves to the front.
Unref(p) ==
  /\ pc[p] = "unref" /\ BcacheLockFree
  /\ refcnt' = [refcnt EXCEPT ![buf[p]] = @ - 1]
  /\ lru' = IF refcnt[buf[p]] = 1 THEN MoveToFront(buf[p]) ELSE lru
  /\ pc' = [pc EXCEPT ![p] = "idle"]
  /\ buf' = [buf EXCEPT ![p] = NoBuf]
  /\ UNCHANGED <<disk, blockno, valid, dirty, data, unread, lock, idequeue>>

-----------------------------------------------------------------------------
UserStep(p) ==
  \/ \E n \in Blocks : BgetHit(p, n) \/ BgetMiss(p, n) \/ BgetPanic(p, n)
  \/ AcquireSleep(p) \/ FindLocked(p) \/ SleepOnLock(p)
  \/ BreadValid(p) \/ BreadInvalid(p) \/ IoReturn(p)
  \/ \E v \in Vals : Bwrite(p, v) \/ Pin(p, v)
  \/ ReleaseSleep(p) \/ Unref(p)

Next == (\E p \in Users : UserStep(p)) \/ Ideintr \/ IdeintrError

Spec == Init /\ [][Next]_vars

-----------------------------------------------------------------------------
(* Properties *)

\* What the cache holds for block n: its valid buffer, unless the disk failed to read it, or
\* else the disk.
Filled(n) == Cached(n) \cap (valid \ unread)
Content == [n \in Blocks |-> IF Filled(n) # {} THEN data[CHOOSE b \in Filled(n) : TRUE]
                                               ELSE disk[n]]

\* Who has block n between bread() and brelse().
UserOf == [n \in Blocks |->
             IF \E p \in Users : buf[p] \in Cached(n) /\ lock[buf[p]] = p
               THEN CHOOSE p \in Users : buf[p] \in Cached(n) /\ lock[buf[p]] = p
               ELSE NoUser]

\* bio.c against its promise: however buffers are recycled and transfers interleave, a
\* block has one user at a time, who finds what the last one left, and a transfer that fails
\* or comes late loses nothing of it: a buffer that could not be read never reaches the disk.
Abstract == INSTANCE BlockStore WITH content <- Content, user <- UserOf
ImplementsBlockStore == Abstract!StoreSpec

\* bget() never gives one block two buffers, although it lets go of bcache.lock before it
\* takes the sleep lock.
OneBufferPerBlock == \A n \in Blocks : Cardinality(Cached(n)) <= 1

\* refcnt counts the processes between bget() and brelse(): a buffer that one of them
\* waits for or uses is not recycled under it.
RefsCounted ==
  \A b \in Bufs : refcnt[b] = Cardinality({p \in Users : buf[p] = b})

\* A buffer is in the disk's queue once, as long as the process that has its lock sleeps in
\* iderw() for it: the interrupt never fills or writes a buffer that somebody else uses.
QueueOwned ==
  /\ \A i, j \in DOMAIN idequeue : idequeue[i] = idequeue[j] => i = j
  /\ \A p \in Users : pc[p] = "io" <=> \E i \in DOMAIN idequeue : idequeue[i] = buf[p] /\ lock[buf[p]] = p
  /\ \A i \in DOMAIN idequeue : \E p \in Users : pc[p] = "io" /\ buf[p] = idequeue[i]

\* Whoever sleeps in acquiresleep() sleeps on a lock that is held: no wakeup is missed
\* between the test of lk->locked and the sleep.
SleepersWait == \A p \in Users : pc[p] = "asleep" => lock[buf[p]] \notin {NoUser, p}

\* bget() panics only when there is no buffer to be had: each is pinned by the log or belongs
\* to a process between bget() and brelse().  No reference and no pin is ever left behind.
PanicMeansFull ==
  ~BcacheLockFree => \A b \in Bufs : b \in Pinned \/ \E p \in Users : buf[p] = b

-----------------------------------------------------------------------------
(* The inductive invariant *)

\* Who has which lock, and where in bread() that is.
LockInv ==
  /\ \A p \in Users : pc[p] \in {"idle", "panic"} <=> buf[p] = NoBuf
  /\ \A p \in Users, b \in Bufs :
       lock[b] = p <=> buf[p] = b /\ pc[p] \in {"test", "io", "iodone", "use"}

\* A block has one buffer, and a buffer that somebody has got holds a block.
BlockInv ==
  /\ \A b, c \in Bufs : blockno[b] = blockno[c] /\ blockno[b] # NoBlock => b = c
  /\ \A b \in valid : blockno[b] # NoBlock
  /\ \A p \in Users : buf[p] # NoBuf => blockno[buf[p]] # NoBlock

\* A dirty buffer is valid, a valid one that is not dirty and was read holds what the disk does, and one
\* in the disk's queue is dirty or not valid.
DataInv ==
  /\ dirty \subseteq valid /\ unread \subseteq valid \ dirty
  /\ \A b \in valid \ (dirty \cup unread) : data[b] = disk[blockno[b]]
  /\ \A i \in DOMAIN idequeue : idequeue[i] \in dirty \/ idequeue[i] \notin valid
  /\ \A p \in Users : /\ pc[p] = "use" => buf[p] \in valid
                      /\ pc[p] = "iodone" => buf[p] \in valid \ dirty

\* The requests of the disk's queue and the processes in iderw().
QueueInv ==
  /\ \A i, j \in DOMAIN idequeue : idequeue[i] = idequeue[j] => i = j
  /\ \A p \in Users : pc[p] = "io" => \E i \in DOMAIN idequeue : idequeue[i] = buf[p]
  /\ \A i \in DOMAIN idequeue : \E p \in Users : pc[p] = "io" /\ buf[p] = idequeue[i]

\* Who goes to sleep has seen a lock that is still held.
ToSleepInv == \A p \in Users : pc[p] = "tosleep" => lock[buf[p]] \notin {NoUser, p}

PinInv == Cardinality(Pinned) <= LOGSIZE

IInv ==
  /\ TypeOK /\ LockInv /\ BlockInv /\ RefsCounted /\ DataInv /\ QueueInv
  /\ SleepersWait /\ ToSleepInv /\ PinInv /\ PanicMeansFull

=============================================================================
