-------------------------------- MODULE Pipe --------------------------------
(***************************************************************************)
(* xv6's pipes (pipe.c) under the table of open files (file.c), the file    *)
(* descriptors of processes that fork, dup, close, exit and are killed      *)
(* (sysfile.c, proc.c).  One step is one section under ftable.lock or the   *)
(* pipe's lock; where pipe.c goes to sleep, the test of killed and the      *)
(* sleep are two steps, for kill() takes neither lock.                      *)
(***************************************************************************)
EXTENDS Naturals, Sequences, FiniteSets

CONSTANTS
  Procs,      \* the slots of the process table
  First,      \* the process that is there at the start
  Talkers,    \* the processes that dup(), read and write, as the commands of a pipeline do;
              \* the others make pipes and children, as the shell does
  Files,      \* the slots of ftable, in the number of NFILE
  NoFile,
  NOFILE,     \* descriptors of a process
  Bytes,
  Fill,       \* the byte that kfree() fills a page with
  Msgs,       \* what processes write
  ReadSizes,  \* the n of a read
  PIPESIZE,
  Width       \* the values of a uint: nread and nwrite wrap around

Fds == 0 .. NOFILE - 1

ASSUME PipeAssumption ==
  /\ First \in Procs /\ IsFiniteSet(Procs) /\ NoFile \notin Files
  /\ NOFILE \in Nat /\ ReadSizes \subseteq Nat \ {0} /\ PIPESIZE \in Nat \ {0} /\ Width \in Nat
  /\ Width % PIPESIZE = 0 /\ Width > PIPESIZE
  /\ Msgs \subseteq Seq(Bytes) /\ Fill \in Bytes

VARIABLES
  ref,        \* ref[f]: the reference count of file f
  writable,   \* writable[f]: f is the write end
  opened,     \* the files with type FD_PIPE
  ofile,      \* ofile[p][d]: the file of descriptor d, or NoFile
  allocated,  \* the pipe's page is allocated
  readopen, writeopen, nread, nwrite, data,     \* struct pipe
  pc,         \* pc[p]: where p stands
  killed,     \* the processes with p->killed
  file,       \* file[p]: the file p reads, writes or closes
  todo,       \* todo[p]: the bytes p has still to write
  got,        \* what the last read() from the pipe returned
  unannounced \* auxiliary: bytes were put in, and the readers not woken since

tableVars == <<ref, writable, opened>>
pipeVars == <<allocated, readopen, writeopen, nread, nwrite, data>>
vars == <<tableVars, ofile, pipeVars, pc, killed, file, todo, got, unannounced>>

TypeOK ==
  /\ ref \in [Files -> 0 .. Cardinality(Procs) * (NOFILE + 1)]
  /\ writable \in [Files -> BOOLEAN] /\ opened \subseteq Files
  /\ ofile \in [Procs -> [Fds -> Files \cup {NoFile}]]
  /\ allocated \in BOOLEAN /\ readopen \in BOOLEAN /\ writeopen \in BOOLEAN
  /\ nread \in 0 .. Width - 1 /\ nwrite \in 0 .. Width - 1
  /\ data \in [0 .. PIPESIZE - 1 -> Bytes]
  /\ pc \in [Procs -> {"unused", "user", "write", "wpark", "wsleep", "read", "rpark", "rsleep",
                       "close", "exit", "exitclose"}]
  /\ killed \subseteq Procs
  /\ file \in [Procs -> Files \cup {NoFile}]
  /\ todo \in [Procs -> Seq(Bytes)]
  /\ got \in Seq(Bytes)
  /\ unannounced \in BOOLEAN

\* What kfree() fills the page with.
Filled == [i \in 0 .. PIPESIZE - 1 |-> Fill]

Init ==
  /\ ref = [f \in Files |-> 0]
  /\ writable = [f \in Files |-> FALSE] /\ opened = {}
  /\ ofile = [p \in Procs |-> [d \in Fds |-> NoFile]]
  /\ allocated = FALSE /\ readopen = FALSE /\ writeopen = FALSE
  /\ nread = 0 /\ nwrite = 0
  /\ data = Filled
  /\ pc = [p \in Procs |-> IF p = First THEN "user" ELSE "unused"]
  /\ killed = {}
  /\ file = [p \in Procs |-> NoFile]
  /\ todo = [p \in Procs |-> <<>>]
  /\ got = <<>>
  /\ unannounced = FALSE

\* A process in user space may call: a killed one is sent to exit() by trap().
User(p) == pc[p] = "user" /\ p \notin killed

\* Who holds the pipe's lock: a process between its last test and its sleep.
LockFree == \A p \in Procs : pc[p] \notin {"wpark", "rpark"}

-----------------------------------------------------------------------------
(* Descriptors and the file table *)

\* sys_pipe(): two files, a page and two descriptors; when one of them is missing the call
\* gives the others back.
SysPipe(p) ==
  /\ User(p) /\ p \notin Talkers /\ ~allocated
  /\ \E f0, f1 \in Files, d0, d1 \in Fds :
       /\ ref[f0] = 0 /\ ref[f1] = 0 /\ f0 # f1
       /\ ofile[p][d0] = NoFile /\ ofile[p][d1] = NoFile /\ d0 < d1
       /\ ref' = [ref EXCEPT ![f0] = 1, ![f1] = 1]
       /\ writable' = [writable EXCEPT ![f0] = FALSE, ![f1] = TRUE]
       /\ opened' = opened \cup {f0, f1}
       /\ ofile' = [ofile EXCEPT ![p][d0] = f0, ![p][d1] = f1]
  /\ allocated' = TRUE /\ readopen' = TRUE /\ writeopen' = TRUE
  /\ nread' = 0 /\ nwrite' = 0
  /\ UNCHANGED <<data, pc, killed, file, todo, got, unannounced>>

\* sys_dup(): the lowest free descriptor
SysDup(p) ==
  /\ User(p) /\ p \in Talkers
  /\ \E d, e \in Fds :
       /\ ofile[p][d] # NoFile /\ ofile[p][e] = NoFile
       /\ \A c \in Fds : ofile[p][c] = NoFile => e <= c
       /\ ofile' = [ofile EXCEPT ![p][e] = ofile[p][d]]
       /\ ref' = [ref EXCEPT ![ofile[p][d]] = @ + 1]
  /\ UNCHANGED <<writable, opened, pipeVars, pc, killed, file, todo, got, unannounced>>

Uses(p, f) == Cardinality({d \in Fds : ofile[p][d] = f})

\* fork(): the child has the same files.  The parent's references keep them open while
\* the loop of filedup() goes through them.
Fork(p) ==
  /\ User(p) /\ p \notin Talkers
  /\ \E q \in Procs :
       /\ pc[q] = "unused"
       /\ ofile' = [ofile EXCEPT ![q] = ofile[p]]
       /\ ref' = [f \in Files |-> ref[f] + Uses(p, f)]
       /\ pc' = [pc EXCEPT ![q] = "user"]
  /\ UNCHANGED <<writable, opened, pipeVars, killed, file, todo, got, unannounced>>

\* Faulty variant: every close closes the pipe's end.
DropRefAny(p, d, last, more) ==
  LET f == ofile[p][d] IN
  /\ f # NoFile
  /\ ref' = [ref EXCEPT ![f] = @ - 1]
  /\ ofile' = [ofile EXCEPT ![p][d] = NoFile]
  /\ IF ref[f] >= 1 THEN /\ opened' = opened \ {f}
                        /\ file' = [file EXCEPT ![p] = f]
                        /\ pc' = [pc EXCEPT ![p] = last]
                   ELSE /\ UNCHANGED <<opened, file>>
                        /\ pc' = [pc EXCEPT ![p] = more]
  /\ UNCHANGED <<writable, pipeVars, killed, todo, got, unannounced>>

\* fileclose() under ftable.lock: the last reference makes the slot free, and pipeclose()
\* is still to come, with what the slot held before.
DropRef(p, d, last, more) ==
  LET f == ofile[p][d] IN
  /\ f # NoFile
  /\ ref' = [ref EXCEPT ![f] = @ - 1]
  /\ ofile' = [ofile EXCEPT ![p][d] = NoFile]
  /\ IF ref[f] = 1 THEN /\ opened' = opened \ {f}
                        /\ file' = [file EXCEPT ![p] = f]
                        /\ pc' = [pc EXCEPT ![p] = last]
                   ELSE /\ UNCHANGED <<opened, file>>
                        /\ pc' = [pc EXCEPT ![p] = more]
  /\ UNCHANGED <<writable, pipeVars, killed, todo, got, unannounced>>

SysClose(p) == User(p) /\ \E d \in Fds : DropRef(p, d, "close", "user")

\* exit() closes the open files in the order of their descriptors.
Exit(p) ==
  /\ pc[p] = "user" /\ p # First
  /\ pc' = [pc EXCEPT ![p] = "exit"]
  /\ UNCHANGED <<tableVars, ofile, pipeVars, killed, file, todo, got, unannounced>>

ExitClose(p) ==
  /\ pc[p] = "exit"
  /\ \E d \in Fds : (\A c \in Fds : ofile[p][c] # NoFile => d <= c) /\ DropRef(p, d, "exitclose", "exit")

\* With all of them closed the process is a zombie, and its parent frees the slot.
ExitDone(p) ==
  /\ pc[p] = "exit" /\ \A d \in Fds : ofile[p][d] = NoFile
  /\ pc' = [pc EXCEPT ![p] = "unused"]
  /\ killed' = killed \ {p}
  /\ UNCHANGED <<tableVars, ofile, pipeVars, file, todo, got, unannounced>>

-----------------------------------------------------------------------------
(* pipe.c *)

Wake(asleep, awake) == [p \in Procs |-> IF pc[p] = asleep THEN awake ELSE pc[p]]
WakeReaders == Wake("rsleep", "read")
WakeWriters == Wake("wsleep", "write")

\* Faulty variant: the page goes with the first end.
PipeCloseEither(p) ==
  LET w == writable[file[p]]
      woken == IF w THEN WakeReaders ELSE WakeWriters
  IN
  /\ pc[p] \in {"close", "exitclose"} /\ LockFree
  /\ readopen' = (readopen /\ w)
  /\ writeopen' = (writeopen /\ ~w)
  /\ allocated' = (readopen' /\ writeopen')
  /\ IF allocated' THEN /\ unannounced' = (unannounced /\ ~w)
                        /\ UNCHANGED <<nread, nwrite, data, got>>
                   ELSE /\ nread' = 0 /\ nwrite' = 0 /\ data' = Filled
                        /\ got' = <<>> /\ unannounced' = FALSE
  /\ pc' = [woken EXCEPT ![p] = IF @ = "close" THEN "user" ELSE "exit"]
  /\ file' = [file EXCEPT ![p] = NoFile]
  /\ UNCHANGED <<tableVars, ofile, killed, todo>>

\* pipeclose(p, writable): the other side is woken, and the second close frees the pipe.
PipeClose(p) ==
  LET w == writable[file[p]]
      woken == IF w THEN WakeReaders ELSE WakeWriters
  IN
  /\ pc[p] \in {"close", "exitclose"} /\ LockFree
  /\ readopen' = (readopen /\ w)
  /\ writeopen' = (writeopen /\ ~w)
  /\ allocated' = (readopen' \/ writeopen')
  /\ IF allocated' THEN /\ unannounced' = (unannounced /\ ~w)
                        /\ UNCHANGED <<nread, nwrite, data, got>>
                   ELSE /\ nread' = 0 /\ nwrite' = 0 /\ data' = Filled
                        /\ got' = <<>> /\ unannounced' = FALSE
  /\ pc' = [woken EXCEPT ![p] = IF @ = "close" THEN "user" ELSE "exit"]
  /\ file' = [file EXCEPT ![p] = NoFile]
  /\ UNCHANGED <<tableVars, ofile, killed, todo>>

\* Faulty variant: the counters are compared as positions in the ring.
CountInRing == (nwrite + Width - nread) % PIPESIZE

\* The bytes in the pipe.
Count == (nwrite + Width - nread) % Width
Empty == nread = nwrite
Smaller(a, b) == IF a <= b THEN a ELSE b

\* sys_write() finds the descriptor and calls pipewrite().
SysWrite(p) ==
  /\ User(p) /\ p \in Talkers
  /\ \E d \in Fds, m \in Msgs :
       /\ ofile[p][d] # NoFile /\ writable[ofile[p][d]]
       /\ file' = [file EXCEPT ![p] = ofile[p][d]]
       /\ todo' = [todo EXCEPT ![p] = m]
  /\ pc' = [pc EXCEPT ![p] = "write"]
  /\ UNCHANGED <<tableVars, ofile, pipeVars, killed, got, unannounced>>

\* The loop of pipewrite() puts the next k bytes into the ring.
Copy(p, k) ==
  LET src(j) == {i \in 1 .. k : (nwrite + i - 1) % PIPESIZE = j} IN
  /\ data' = [j \in DOMAIN data |-> IF src(j) = {} THEN data[j] ELSE todo[p][CHOOSE i \in src(j) : TRUE]]
  /\ nwrite' = (nwrite + k) % Width

Return(p, woken) ==
  /\ pc' = [woken EXCEPT ![p] = "user"]
  /\ file' = [file EXCEPT ![p] = NoFile]

\* There is room for all the rest.
PipeWrite(p) ==
  /\ pc[p] = "write" /\ LockFree /\ Len(todo[p]) <= PIPESIZE - Count
  /\ Copy(p, Len(todo[p]))
  /\ todo' = [todo EXCEPT ![p] = <<>>]
  /\ Return(p, WakeReaders)
  /\ unannounced' = FALSE
  /\ UNCHANGED <<tableVars, ofile, allocated, readopen, writeopen, nread, killed, got>>

\* The pipe fills up: back with -1 if nobody can read or the process is killed, or else
\* wake the readers and get ready to sleep.
PipeWriteFull(p) ==
  LET k == PIPESIZE - Count IN
  /\ pc[p] = "write" /\ LockFree /\ Len(todo[p]) > k
  /\ Copy(p, k)
  /\ IF ~readopen \/ p \in killed
       THEN /\ todo' = [todo EXCEPT ![p] = <<>>]
            /\ Return(p, pc)
            /\ unannounced' = (unannounced \/ k > 0)
       ELSE /\ todo' = [todo EXCEPT ![p] = SubSeq(@, k + 1, Len(@))]
            /\ pc' = [WakeReaders EXCEPT ![p] = "wpark"] /\ UNCHANGED file
            /\ unannounced' = FALSE
  /\ UNCHANGED <<tableVars, ofile, allocated, readopen, writeopen, nread, killed, got>>

SysRead(p) ==
  /\ User(p) /\ p \in Talkers
  /\ \E d \in Fds :
       /\ ofile[p][d] # NoFile /\ ~writable[ofile[p][d]]
       /\ file' = [file EXCEPT ![p] = ofile[p][d]]
  /\ pc' = [pc EXCEPT ![p] = "read"]
  /\ UNCHANGED <<tableVars, ofile, pipeVars, killed, todo, got, unannounced>>

PipeReadEmpty(p) ==
  /\ pc[p] = "read" /\ LockFree /\ Empty /\ writeopen
  /\ IF p \in killed THEN Return(p, pc)
                     ELSE pc' = [pc EXCEPT ![p] = "rpark"] /\ UNCHANGED file
  /\ UNCHANGED <<tableVars, ofile, pipeVars, killed, todo, got, unannounced>>

\* Faulty variant: the writers are not woken.
PipeReadSilent(p) ==
  /\ pc[p] = "read" /\ LockFree /\ (~Empty \/ ~writeopen)
  /\ \E n \in ReadSizes :
       LET k == Smaller(n, Count) IN
       /\ got' = [i \in 1 .. k |-> data[(nread + i - 1) % PIPESIZE]]
       /\ nread' = (nread + k) % Width
  /\ Return(p, pc)
  /\ UNCHANGED <<tableVars, ofile, allocated, readopen, writeopen, nwrite, data, killed, todo, unannounced>>

\* piperead() takes up to n bytes, or none when the writers are gone.
PipeRead(p) ==
  /\ pc[p] = "read" /\ LockFree /\ (~Empty \/ ~writeopen)
  /\ \E n \in ReadSizes :
       LET k == Smaller(n, Count) IN
       /\ got' = [i \in 1 .. k |-> data[(nread + i - 1) % PIPESIZE]]
       /\ nread' = (nread + k) % Width
  /\ Return(p, WakeWriters)
  /\ UNCHANGED <<tableVars, ofile, allocated, readopen, writeopen, nwrite, data, killed, todo, unannounced>>

\* sleep(): the pipe's lock is released under ptable.lock, so that no wakeup is missed.
Park(p) ==
  /\ pc[p] \in {"wpark", "rpark"}
  /\ pc' = [pc EXCEPT ![p] = IF @ = "wpark" THEN "wsleep" ELSE "rsleep"]
  /\ UNCHANGED <<tableVars, ofile, pipeVars, killed, file, todo, got, unannounced>>

\* kill(): a process that sleeps is woken, one that is about to sleep is not.
Kill(p) ==
  /\ pc[p] # "unused" /\ p # First /\ p \notin killed
  /\ killed' = killed \cup {p}
  /\ pc' = [pc EXCEPT ![p] = CASE @ = "rsleep" -> "read" [] @ = "wsleep" -> "write" [] OTHER -> @]
  /\ UNCHANGED <<tableVars, ofile, pipeVars, file, todo, got, unannounced>>

-----------------------------------------------------------------------------
ProcStep(p) ==
  \/ SysPipe(p) \/ SysDup(p) \/ Fork(p) \/ SysClose(p)
  \/ Exit(p) \/ ExitClose(p) \/ ExitDone(p) \/ PipeClose(p)
  \/ SysWrite(p) \/ PipeWrite(p) \/ PipeWriteFull(p)
  \/ SysRead(p) \/ PipeReadEmpty(p) \/ PipeRead(p)
  \/ Park(p)

Next == \E p \in Procs : ProcStep(p) \/ Kill(p)

Spec == Init /\ [][Next]_vars

-----------------------------------------------------------------------------
(* Properties *)

\* The bytes that have been put in and not taken out.
Queue == IF allocated THEN [i \in 1 .. Count |-> data[(nread + i - 1) % PIPESIZE]] ELSE <<>>

\* pipe.c against its promise: across the wrap-around of the counters and of the ring,
\* writers that sleep half-way and several readers, the bytes come out once and in order,
\* and a read says "end of file" only when nobody has the write end any more.
Abstract == INSTANCE BytePipe WITH
  Capacity <- PIPESIZE,
  queue <- Queue,
  readEnd <- allocated /\ readopen,
  writeEnd <- allocated /\ writeopen
ImplementsBytePipe == Abstract!ByteSpec

\* f->ref is the number of descriptors that refer to f, in all processes.
RefsCounted == \A f \in Files : ref[f] = Cardinality({x \in Procs \X Fds : ofile[x[1]][x[2]] = f})

\* The flags of a pipe tell whether its ends have references: an end is closed once, after
\* the last reference has gone and not before.
EndsMatchRefs ==
  LET open(w) == \/ \E f \in opened : ref[f] > 0 /\ writable[f] = w
                 \/ \E p \in Procs : pc[p] \in {"close", "exitclose"} /\ writable[file[p]] = w
  IN allocated => readopen = open(FALSE) /\ writeopen = open(TRUE)

\* A file counts the descriptors that name it, and its end of the pipe is open as long.
EndsOpen == TypeOK /\ RefsCounted /\ EndsMatchRefs

\* No process reads, writes, closes or sleeps on a pipe whose page has been freed.
NoUseAfterFree == \A p \in Procs : pc[p] \notin {"unused", "user", "exit"} => allocated

\* Whoever sleeps in a pipe has a reason to: the pipe is empty and can still be written, or
\* full and can still be read.  No wakeup of pipewrite(), piperead() or pipeclose() is lost,
\* but for one: a killed writer returns from a pipe it has just filled without waking the
\* readers (pipe.c:86-89), who sleep on until the next write or the last close.
SleepersWait ==
  \A p \in Procs :
    /\ pc[p] = "rsleep" => writeopen /\ (Empty \/ unannounced)
    /\ pc[p] = "wsleep" => Count = PIPESIZE /\ readopen

-----------------------------------------------------------------------------
(* The inductive invariant *)

Using == {"write", "wpark", "wsleep", "read", "rpark", "rsleep"}
Closing == {"close", "exitclose"}

\* A call on a file has a descriptor for it; a call of pipeclose() has the last one's file.
FileInv ==
  /\ \A p \in Procs : pc[p] \in Using \cup Closing => file[p] \in Files
  /\ \A p \in Procs : pc[p] \in Using => \E d \in Fds : ofile[p][d] = file[p]
  /\ \A p \in Procs : pc[p] = "unused" => \A d \in Fds : ofile[p][d] = NoFile
  /\ \A f \in Files : f \in opened <=> ref[f] > 0

\* End w of the pipe has a file, or is being closed.
Carried(w) ==
  \/ \E f \in opened : writable[f] = w
  \/ \E p \in Procs : pc[p] \in Closing /\ writable[file[p]] = w

\* An end is open as long as it is carried, and by one only.
EndInv ==
  /\ allocated <=> readopen \/ writeopen
  /\ readopen <=> Carried(FALSE)
  /\ writeopen <=> Carried(TRUE)
  /\ \A f, g \in opened : writable[f] = writable[g] => f = g
  /\ \A p, q \in Procs :
       pc[p] \in Closing /\ pc[q] \in Closing /\ writable[file[p]] = writable[file[q]] => p = q
  /\ \A f \in opened, p \in Procs : pc[p] \in Closing => writable[f] # writable[file[p]]

\* Who sleeps, or is about to and holds the lock.
WaitInv ==
  /\ Count <= PIPESIZE
  /\ \A p \in Procs :
       /\ pc[p] = "rpark" => writeopen /\ Empty
       /\ pc[p] = "rsleep" => writeopen /\ (Empty \/ unannounced)
       /\ pc[p] \in {"wpark", "wsleep"} => readopen /\ Count = PIPESIZE

\* A writer has a write end, a reader a read end.
RoleInv == \A p \in Procs :
  /\ pc[p] \in {"write", "wpark", "wsleep"} => writable[file[p]]
  /\ pc[p] \in {"read", "rpark", "rsleep"} => ~writable[file[p]]

IInv == TypeOK /\ RefsCounted /\ FileInv /\ EndInv /\ WaitInv /\ RoleInv
=============================================================================
