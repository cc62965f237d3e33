----------------------------- MODULE AtomicDisk -----------------------------
(***************************************************************************)
(* What log.c promises the file system: operations open a transaction,      *)
(* write blocks and end; what they wrote becomes stable in groups, all of   *)
(* it at once and only while no operation is under way; a crash takes the   *)
(* file system back to the last stable state, never to one in between.      *)
(***************************************************************************)
CONSTANTS
  Procs,      \* the processes that call the file system
  Blocks,     \* the numbers of the home blocks
  Vals        \* what a block can hold

VARIABLES
  now,        \* now[b]: the content of block b that a process reads
  stable,     \* stable[b]: the content block b has after a crash
  open        \* the processes between begin_op() and end_op()

diskVars == <<now, stable, open>>

DiskInit ==
  /\ now \in [Blocks -> Vals]
  /\ stable = now
  /\ open = {}

DiskBegin(p) ==
  /\ p \notin open
  /\ open' = open \cup {p}
  /\ UNCHANGED <<now, stable>>

DiskWrite(p, b, v) ==
  /\ p \in open
  /\ now' = [now EXCEPT ![b] = v]
  /\ UNCHANGED <<stable, open>>

DiskEnd(p) ==
  /\ p \in open
  /\ open' = open \ {p}
  /\ UNCHANGED <<now, stable>>

DiskCommit ==
  /\ open = {}
  /\ stable' = now
  /\ UNCHANGED <<now, open>>

DiskCrash ==
  /\ now' = stable
  /\ open' = {}
  /\ UNCHANGED stable

DiskNext ==
  \/ \E p \in Procs : DiskBegin(p) \/ DiskEnd(p)
  \/ \E p \in Procs, b \in Blocks, v \in Vals : DiskWrite(p, b, v)
  \/ DiskCommit
  \/ DiskCrash

DiskSpec == DiskInit /\ [][DiskNext]_diskVars
=============================================================================
