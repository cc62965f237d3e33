------------------------------- MODULE Inodes -------------------------------
(***************************************************************************)
(* Inodes and directories of xv6: the inode cache of fs.c and the system    *)
(* calls of sysfile.c that look up, make, link, unlink, open and close      *)
(* files.  An inode lock protects the inode, but calls hold one or two at a *)
(* time and keep only references in between: the directory that             *)
(* nameiparent() returns may be removed before it is locked.  A step is      *)
(* what a call does from the taking of an inode lock to the next access to   *)
(* shared data that another call can come before.                           *)
(*                                                                          *)
(* The calls are transactions of the log, so a crash takes the disk back to  *)
(* a moment at which no call was under way (module Log): the crashes at      *)
(* such moments are all of them.                                            *)
(***************************************************************************)
EXTENDS Integers, Sequences, FiniteSets

CONSTANTS
  Procs,
  NINODES,      \* number of inodes on the disk
  Names,        \* names of directory entries
  NamePaths,    \* paths that open, chdir and the old name of link are called with
  ParentPaths,  \* paths that create, mkdir, unlink and the new name of link are called with
  Kinds,        \* the system calls that the processes make
  NoProc,
  FirstDirs,    \* the path of the directories made before, each in the one before it
  Homes,        \* what cwd may be at first
  MaxCalls,     \* bound on the calls of a behaviour
  MaxCrash      \* bound on the crashes of a behaviour

ASSUME InodesAssumption ==
  /\ IsFiniteSet(Procs) /\ NoProc \notin Procs
  /\ IsFiniteSet(Names)
  /\ FirstDirs \in Seq(Names) /\ Homes \subseteq [Procs -> 1 .. Len(FirstDirs) + 1]
  /\ NINODES \in Nat /\ NINODES > Len(FirstDirs) /\ {MaxCalls, MaxCrash} \subseteq Nat
  /\ Names \cap {".", ".."} = {}
  /\ \A path \in NamePaths \cup ParentPaths :
       /\ path.from \in {"/", "cwd"}
       /\ path.names \in Seq(Names \cup {".", ".."})

Root == 1
None == 0
Inums == 1 .. NINODES
Copy == [type : {"none", "dir", "file"}, nlink : Int]
Unread == [type |-> "none", nlink |-> 0]

VARIABLES
  din,       \* din[i]: inode i on the disk
  ents,      \* ents[d][n]: the inode that entry n of directory d names, or None
  dotdot,    \* dotdot[d]: entry ".." of d
  ic,        \* ic[i]: what the inode cache holds of i; Unread when ip->valid is 0
  ref,       \* ip->ref
  lock,      \* lock[i]: the holder of ip->lock
  cwd,       \* cwd[p]: the current directory of p
  fd,        \* fd[p]: the inode of the one file p can have open
  k,         \* k[p]: where p stands in its call, and the call's local variables
  panicked,  \* what the kernel has panicked about
  calls,     \* how many calls were made
  crashes,   \* how many crashes there were
  \* history
  strays,    \* the processes that have followed ".." of a directory that no entry names
  lost       \* lost[i]: entries for i that were in a directory when it was freed

onDisk == <<din, ents, dotdot>>
inCache == <<ic, ref, lock>>
history == <<strays, lost>>
vars == <<onDisk, inCache, cwd, fd, k, panicked, calls, crashes, history>>

NoPath == [from |-> "/", names |-> <<>>]

\* A process outside the kernel.  ip and jp are inodes it refers to; put is one that
\* iput() is giving up, before the call goes on at pc.
AtUser == [pc |-> "user", call |-> "none", rest |-> <<>>, new |-> NoPath,
           ip |-> None, jp |-> None, put |-> None, stage |-> "check"]

Elements == Names \cup {".", ".."}
CallNames == {"none", "open", "chdir", "create", "mkdir", "unlink", "link", "linkdir"}
PC == {"user", "walk", "open", "chdir", "create", "mkdir", "old", "init", "made", "unlink", "unlink_ip",
       "unlinked", "unlock", "link", "linkdir", "linked", "undo"}

Local == [pc : PC, call : CallNames, rest : Seq(Elements), new : ParentPaths \cup {NoPath},
          ip : Inums \cup {None}, jp : Inums \cup {None}, put : Inums \cup {None},
          stage : {"check", "free", "drop"}]

TypeOK ==
  /\ din \in [Inums -> Copy] /\ ic \in [Inums -> Copy]
  /\ ents \in [Inums -> [Names -> Inums \cup {None}]]
  /\ dotdot \in [Inums -> Inums \cup {None}]
  /\ ref \in [Inums -> Nat]
  /\ lock \in [Inums -> Procs \cup {NoProc}]
  /\ cwd \in [Procs -> Inums]
  /\ fd \in [Procs -> Inums \cup {None}]
  /\ k \in [Procs -> Local]
  /\ panicked \in {"no", "no_type", "no_links", "no_inodes"}
  /\ calls \in 0 .. MaxCalls /\ crashes \in 0 .. MaxCrash
  /\ strays \subseteq Procs /\ lost \in [Inums -> Nat]

NoEntries == [n \in Names |-> None]

\* The disk that mkfs makes with FirstDirs in it, and the processes in one of their directories.
Init ==
  LET last == Len(FirstDirs) + 1 IN
  /\ din = [i \in Inums |-> CASE i < last -> [type |-> "dir", nlink |-> 2]
                              [] i = last -> [type |-> "dir", nlink |-> 1]
                              [] i > last -> Unread]
  /\ ents = [i \in Inums |-> [n \in Names |-> IF i < last /\ n = FirstDirs[i] THEN i + 1 ELSE None]]
  /\ dotdot = [i \in Inums |-> CASE i = Root -> Root [] i \in 2 .. last -> i - 1 [] i > last -> None]
  /\ cwd \in Homes
  /\ ic = [i \in Inums |-> Unread]
  /\ ref = [i \in Inums |-> Cardinality({p \in Procs : cwd[p] = i})]
  /\ lock = [i \in Inums |-> NoProc]
  /\ fd = [p \in Procs |-> None]
  /\ k = [p \in Procs |-> AtUser]
  /\ panicked = "no" /\ calls = 0 /\ crashes = 0
  /\ strays = {} /\ lost = [i \in Inums |-> 0]

-----------------------------------------------------------------------------
(* iget(), ilock(), iput() *)

Running == panicked = "no"

\* iget() and idup(): a slot that nobody refers to is recycled and has to be read again.
Got(i) == [ref EXCEPT ![i] = @ + 1]
Cached(c, i) == IF ref[i] = 0 THEN [c EXCEPT ![i] = Unread] ELSE c

\* ilock(): the inode that it leaves in the cache.
Inode(i) == IF ic[i] = Unread THEN din[i] ELSE ic[i]

\* The inode that p locks next, if it can.
Wants(p) ==
  CASE k[p].put # None -> IF k[p].stage = "check" THEN k[p].put ELSE None
    [] k[p].pc \in {"walk", "open", "chdir", "link", "unlink", "create", "mkdir", "linkdir", "old"}
         -> k[p].ip
    [] k[p].pc \in {"unlink_ip", "init", "undo"} -> k[p].jp
    [] OTHER -> None

\* Process p stands at pc, wants inode i and gets its lock.
Locks(p, pc, i) ==
  /\ Running /\ k[p].put = None /\ k[p].pc = pc
  /\ i = Wants(p) /\ lock[i] = NoProc
  /\ Inode(i).type # "none"

\* Process p stands at pc, and iput() is done.
At(p, pc) == Running /\ k[p].put = None /\ k[p].pc = pc

Panic(what) ==
  /\ panicked' = what
  /\ UNCHANGED <<onDisk, inCache, cwd, fd, k, calls, crashes, history>>

\* The panics about an inode that has just been locked: ilock() finds it free, or unlink()
\* finds it without links although an entry names it.
BadInode(p) ==
  /\ Running /\ k[p].put = None
  /\ Wants(p) # None /\ lock[Wants(p)] = NoProc
  /\ \/ Inode(Wants(p)).type = "none" /\ Panic("no_type")
     \/ /\ Inode(Wants(p)).type # "none" /\ k[p].pc = "unlink_ip" /\ Inode(Wants(p)).nlink < 1
        /\ Panic("no_links")

\* ilock() alone, and iupdate() of inode i with one link more or less.
Loaded(i) == [ic EXCEPT ![i] = Inode(i)]
OneMore(i) == [Inode(i) EXCEPT !.nlink = @ + 1]
OneLess(i) == [Inode(i) EXCEPT !.nlink = @ - 1]

\* Faulty variant: the inode is freed whoever else refers to it.
PutCheckAnyRef(p) ==
  LET i == k[p].put IN
  /\ Running /\ i # None /\ k[p].stage = "check" /\ lock[i] = NoProc
  /\ IF ic[i] # Unread /\ ic[i].nlink = 0
       THEN k' = [k EXCEPT ![p].stage = "free"] /\ lock' = [lock EXCEPT ![i] = p]
       ELSE k' = [k EXCEPT ![p].stage = "drop"] /\ UNCHANGED lock
  /\ UNCHANGED <<onDisk, ic, ref, cwd, fd, panicked, calls, crashes, history>>

\* iput() locks the inode and looks whether this is the last reference to a file without links.
PutCheck(p) ==
  LET i == k[p].put IN
  /\ Running /\ i # None /\ k[p].stage = "check" /\ lock[i] = NoProc
  /\ IF ic[i] # Unread /\ ic[i].nlink = 0 /\ ref[i] = 1
       THEN k' = [k EXCEPT ![p].stage = "free"] /\ lock' = [lock EXCEPT ![i] = p]
       ELSE k' = [k EXCEPT ![p].stage = "drop"] /\ UNCHANGED lock
  /\ UNCHANGED <<onDisk, ic, ref, cwd, fd, panicked, calls, crashes, history>>

\* It is: itrunc(), type 0 and iupdate(), with the inode locked.
PutFree(p) ==
  LET i == k[p].put IN
  /\ Running /\ i # None /\ k[p].stage = "free"
  /\ din' = [din EXCEPT ![i] = Unread]
  /\ ents' = [ents EXCEPT ![i] = NoEntries]
  /\ dotdot' = [dotdot EXCEPT ![i] = None]
  /\ ic' = [ic EXCEPT ![i] = Unread]
  /\ lock' = [lock EXCEPT ![i] = NoProc]
  /\ k' = [k EXCEPT ![p].stage = "drop"]
  /\ lost' = [j \in Inums |-> lost[j] + Cardinality({n \in Names : ents[i][n] = j})]
  /\ UNCHANGED <<ref, cwd, fd, panicked, calls, crashes, strays>>

\* The reference is given up.
PutDrop(p) ==
  LET i == k[p].put IN
  /\ Running /\ i # None /\ k[p].stage = "drop"
  /\ ref' = [ref EXCEPT ![i] = @ - 1]
  /\ k' = [k EXCEPT ![p].put = None, ![p].stage = "check"]
  /\ UNCHANGED <<onDisk, ic, lock, cwd, fd, panicked, calls, crashes, history>>

-----------------------------------------------------------------------------
(* namex() *)

\* The calls that look up the parent of the path's last element.
OfParent(call) == call \in {"create", "mkdir", "unlink", "linkdir"}

Entries(i) == {e \in Inums \X Names : ents[e[1]][e[2]] = i}

\* Looking up ".." in a directory that has been removed.
Astray(d, n) == n = ".." /\ d # Root /\ Entries(d) = {}

Entry(d, n) == CASE n = "." -> d [] n = ".." -> dotdot[d] [] OTHER -> ents[d][n]

\* Where a call stands when rest of its path is still to be followed.
NextPc(call, rest) == IF rest = <<>> /\ ~OfParent(call) THEN call ELSE "walk"

\* The call is over once iput(i) is done.
Leave(p, i) == [k EXCEPT ![p] = [AtUser EXCEPT !.put = i]]

\* A lookup has failed: iput(i) and return, but link() undoes first what it did.
Fail(p, i) ==
  IF k[p].call = "linkdir" THEN [k EXCEPT ![p].ip = None, ![p].put = i, ![p].pc = "undo"]
                           ELSE Leave(p, i)

StartOf(p, path) == IF path.from = "/" THEN Root ELSE cwd[p]

\* A system call begins and namex() gets the inode from which it starts.
Call(p, call, path, new) ==
  /\ Running /\ k[p] = AtUser /\ calls < MaxCalls
  /\ calls' = calls + 1
  /\ LET i == StartOf(p, path) IN
       /\ ref' = Got(i)
       /\ ic' = Cached(ic, i)
       /\ k' = [k EXCEPT ![p] = [AtUser EXCEPT !.pc = NextPc(call, path.names), !.call = call,
                                               !.rest = path.names, !.new = new, !.ip = i]]
  /\ UNCHANGED <<onDisk, lock, cwd, fd, panicked, crashes, history>>

\* One element of the path: lock the directory, look the element up, get what it names,
\* unlock the directory and put it.
Walk(p) ==
  LET i == k[p].ip
      n == Head(k[p].rest)
      isDir == Inode(i).type = "dir"
      stop == OfParent(k[p].call) /\ Len(k[p].rest) = 1
      next == Entry(i, n)
  IN
  /\ k[p].rest # <<>> /\ Locks(p, "walk", i)
  /\ \/ /\ ~isDir \/ (~stop /\ next = None)
        /\ k' = Fail(p, i)
        /\ ic' = Loaded(i)
        /\ UNCHANGED <<ref, strays>>
     \/ /\ isDir /\ stop
        /\ k' = [k EXCEPT ![p].pc = k[p].call]
        /\ ic' = Loaded(i)
        /\ UNCHANGED <<ref, strays>>
     \/ /\ isDir /\ ~stop /\ next # None
        /\ k' = [k EXCEPT ![p].ip = next, ![p].put = i, ![p].rest = Tail(@),
                          ![p].pc = NextPc(k[p].call, Tail(k[p].rest))]
        /\ ref' = Got(next)
        /\ ic' = Cached(Loaded(i), next)
        /\ strays' = IF Astray(i, n) THEN strays \cup {p} ELSE strays
  /\ UNCHANGED <<onDisk, lock, cwd, fd, panicked, calls, crashes, lost>>

\* nameiparent() of a path without elements.
WalkNoParent(p) ==
  /\ At(p, "walk") /\ k[p].rest = <<>>
  /\ k' = Fail(p, k[p].ip)
  /\ UNCHANGED <<onDisk, inCache, cwd, fd, panicked, calls, crashes, history>>

-----------------------------------------------------------------------------
(* open(), chdir(), close() *)

\* The last part of sys_open(), with ip locked: the process may have a file open already.
\* ic' holds ip.
Opened(p, i) ==
  IF fd[p] = None
    THEN fd' = [fd EXCEPT ![p] = i] /\ k' = Leave(p, None)
    ELSE k' = Leave(p, i) /\ UNCHANGED fd

\* open() without O_CREATE; a directory can only be opened for reading.
Open(p) ==
  LET i == k[p].ip IN
  /\ Locks(p, "open", i)
  /\ ic' = Loaded(i)
  /\ \/ Opened(p, i)
     \/ Inode(i).type = "dir" /\ k' = Leave(p, i) /\ UNCHANGED fd
  /\ UNCHANGED <<onDisk, ref, lock, cwd, panicked, calls, crashes, history>>

Close(p) ==
  /\ Running /\ k[p] = AtUser /\ fd[p] # None
  /\ fd' = [fd EXCEPT ![p] = None]
  /\ k' = Leave(p, fd[p])
  /\ UNCHANGED <<onDisk, inCache, cwd, panicked, calls, crashes, history>>

\* The old directory is put; only this process looks at its cwd.
Chdir(p) ==
  LET i == k[p].ip IN
  /\ Locks(p, "chdir", i)
  /\ ic' = Loaded(i)
  /\ IF Inode(i).type = "dir"
       THEN k' = Leave(p, cwd[p]) /\ cwd' = [cwd EXCEPT ![p] = i]
       ELSE k' = Leave(p, i) /\ UNCHANGED cwd
  /\ UNCHANGED <<onDisk, ref, lock, fd, panicked, calls, crashes, history>>

-----------------------------------------------------------------------------
(* create(), for open() with O_CREATE and mkdir() *)

Free == {i \in Inums : din[i].type = "none"}

\* The parent d is locked and has the name: it is unlocked and put.
CreateFound(p) ==
  LET d == k[p].ip
      found == Entry(d, k[p].rest[1])
  IN
  /\ k[p].pc \in {"create", "mkdir"} /\ Locks(p, k[p].pc, d) /\ found # None
  /\ ref' = Got(found)
  /\ ic' = Cached(Loaded(d), found)
  /\ k' = [k EXCEPT ![p].pc = "old", ![p].ip = found, ![p].put = d]
  /\ strays' = IF Astray(d, k[p].rest[1]) THEN strays \cup {p} ELSE strays
  /\ UNCHANGED <<onDisk, lock, cwd, fd, panicked, calls, crashes, lost>>

\* Only open() accepts what it finds, if it is a file.
CreateOld(p) ==
  LET i == k[p].ip IN
  /\ Locks(p, "old", i)
  /\ ic' = Loaded(i)
  /\ IF k[p].call = "create" /\ Inode(i).type = "file"
       THEN Opened(p, i)
       ELSE k' = Leave(p, i) /\ UNCHANGED fd
  /\ UNCHANGED <<onDisk, ref, lock, cwd, panicked, calls, crashes, history>>

\* The name is new: ialloc() takes the first free inode; d stays locked.
CreateAlloc(p) ==
  LET d == k[p].ip
      i == CHOOSE j \in Free : \A h \in Free : j <= h
  IN
  /\ k[p].pc \in {"create", "mkdir"} /\ Locks(p, k[p].pc, d)
  /\ Entry(d, k[p].rest[1]) = None /\ Free # {}
  /\ din' = [din EXCEPT ![i] = [type |-> IF k[p].call = "mkdir" THEN "dir" ELSE "file",
                                nlink |-> 0]]
  /\ ref' = Got(i)
  /\ ic' = Cached(Loaded(d), i)
  /\ lock' = [lock EXCEPT ![d] = p]
  /\ k' = [k EXCEPT ![p].pc = "init", ![p].jp = i]
  /\ UNCHANGED <<ents, dotdot, cwd, fd, panicked, calls, crashes, history>>

NoInodes(p) ==
  /\ k[p].pc \in {"create", "mkdir"} /\ Locks(p, k[p].pc, k[p].ip)
  /\ Entry(k[p].ip, k[p].rest[1]) = None /\ Free = {}
  /\ Panic("no_inodes")

\* The new inode is locked, filled in and entered in d; d is unlocked and put while the
\* new inode stays locked.
CreateInit(p) ==
  LET d == k[p].ip
      i == k[p].jp
      isDir == k[p].call = "mkdir"
      with == [j \in {i, d} |-> IF j = i THEN [Inode(i) EXCEPT !.nlink = 1]
                                ELSE IF isDir THEN OneMore(d) ELSE Inode(d)]
      update(f) == [j \in Inums |-> IF j \in {i, d} THEN with[j] ELSE f[j]]
  IN
  /\ Locks(p, "init", i)
  /\ din' = update(din)
  /\ ic' = update(ic)
  /\ dotdot' = IF isDir THEN [dotdot EXCEPT ![i] = d] ELSE dotdot
  /\ ents' = [ents EXCEPT ![d][k[p].rest[1]] = i]
  /\ lock' = [lock EXCEPT ![d] = NoProc, ![i] = p]
  /\ k' = [k EXCEPT ![p].pc = "made", ![p].ip = None, ![p].put = d]
  /\ UNCHANGED <<ref, cwd, fd, panicked, calls, crashes, history>>

\* create() returns to open() or mkdir() with the new inode locked.
CreateEnd(p) ==
  LET i == k[p].jp IN
  /\ At(p, "made")
  /\ lock' = [lock EXCEPT ![i] = NoProc]
  /\ IF k[p].call = "create" THEN Opened(p, i) ELSE k' = Leave(p, i) /\ UNCHANGED fd
  /\ UNCHANGED <<onDisk, ic, ref, cwd, panicked, calls, crashes, history>>

-----------------------------------------------------------------------------
(* unlink() *)

\* The parent d is locked; it stays locked if the name can be removed.
UnlinkLookup(p) ==
  LET d == k[p].ip
      n == k[p].rest[1]
  IN
  /\ Locks(p, "unlink", d)
  /\ \/ /\ n \in {".", ".."} \/ Entry(d, n) = None
        /\ ic' = Loaded(d)
        /\ k' = Leave(p, d)
        /\ UNCHANGED <<ref, lock>>
     \/ /\ n \in Names /\ Entry(d, n) # None
        /\ ref' = Got(Entry(d, n))
        /\ ic' = Cached(Loaded(d), Entry(d, n))
        /\ lock' = [lock EXCEPT ![d] = p]
        /\ k' = [k EXCEPT ![p].pc = "unlink_ip", ![p].jp = Entry(d, n)]
  /\ UNCHANGED <<onDisk, cwd, fd, panicked, calls, crashes, history>>

\* A directory that is not empty stays: it is unlocked and put with d locked.
UnlinkNot(p) ==
  LET i == k[p].jp IN
  /\ Locks(p, "unlink_ip", i)
  /\ Inode(i).nlink > 0 /\ Inode(i).type = "dir" /\ ents[i] # NoEntries
  /\ ic' = Loaded(i)
  /\ k' = [k EXCEPT ![p].pc = "unlock", ![p].jp = None, ![p].put = i]
  /\ UNCHANGED <<onDisk, ref, lock, cwd, fd, panicked, calls, crashes, history>>

\* Otherwise its entry is cleared, and d is unlocked and put with the inode locked.
UnlinkEntry(p) ==
  LET d == k[p].ip
      i == k[p].jp
      dinode == IF Inode(i).type = "dir" THEN OneLess(d) ELSE Inode(d)
  IN
  /\ Locks(p, "unlink_ip", i)
  /\ Inode(i).nlink > 0 /\ (Inode(i).type = "dir" => ents[i] = NoEntries)
  /\ ents' = [ents EXCEPT ![d][k[p].rest[1]] = None]
  /\ din' = [din EXCEPT ![d] = dinode]
  /\ ic' = [Loaded(i) EXCEPT ![d] = dinode]
  /\ lock' = [lock EXCEPT ![d] = NoProc, ![i] = p]
  /\ k' = [k EXCEPT ![p].pc = "unlinked", ![p].ip = None, ![p].put = d]
  /\ UNCHANGED <<dotdot, ref, cwd, fd, panicked, calls, crashes, history>>

\* Last, the link count of the inode, which is then unlocked and put.
UnlinkEnd(p) ==
  LET i == k[p].jp IN
  /\ At(p, "unlinked")
  /\ ic' = [ic EXCEPT ![i] = OneLess(i)]
  /\ din' = [din EXCEPT ![i] = OneLess(i)]
  /\ lock' = [lock EXCEPT ![i] = NoProc]
  /\ k' = Leave(p, i)
  /\ UNCHANGED <<ents, dotdot, ref, cwd, fd, panicked, calls, crashes, history>>

\* The failing paths of unlink() and link() that still hold the directory.
UnlockDir(p) ==
  LET d == k[p].ip IN
  /\ At(p, "unlock")
  /\ lock' = [lock EXCEPT ![d] = NoProc]
  /\ k' = Fail(p, d)
  /\ UNCHANGED <<onDisk, ic, ref, cwd, fd, panicked, calls, crashes, history>>

-----------------------------------------------------------------------------
(* link() *)

\* Faulty variant: a directory can be linked, too.
LinkCountAny(p) ==
  LET i == k[p].ip
      start == StartOf(p, k[p].new)
  IN
  /\ Locks(p, "link", i)
  /\ \/ /\ Inode(i).type = "dir"
        /\ ic' = Loaded(i)
        /\ k' = Leave(p, i)
        /\ UNCHANGED <<din, ref>>
     \/ /\ din' = [din EXCEPT ![i] = OneMore(i)]
        /\ ic' = Cached([ic EXCEPT ![i] = OneMore(i)], start)
        /\ ref' = Got(start)
        /\ k' = [k EXCEPT ![p] = [AtUser EXCEPT !.pc = "walk", !.call = "linkdir",
                                   !.rest = k[p].new.names, !.ip = start, !.jp = i]]
  /\ UNCHANGED <<ents, dotdot, lock, cwd, fd, panicked, calls, crashes, history>>

\* Faulty variant: the inode stays locked while the new name is looked up.
LinkCountLocked(p) ==
  LET i == k[p].ip
      start == StartOf(p, k[p].new)
  IN
  /\ Locks(p, "link", i)
  /\ \/ /\ Inode(i).type = "dir"
        /\ ic' = Loaded(i)
        /\ k' = Leave(p, i)
        /\ UNCHANGED <<din, ref, lock>>
     \/ /\ Inode(i).type # "dir"
        /\ din' = [din EXCEPT ![i] = OneMore(i)]
        /\ ic' = Cached([ic EXCEPT ![i] = OneMore(i)], start)
        /\ ref' = Got(start)
        /\ lock' = [lock EXCEPT ![i] = p]
        /\ k' = [k EXCEPT ![p] = [AtUser EXCEPT !.pc = "walk", !.call = "linkdir",
                                   !.rest = k[p].new.names, !.ip = start, !.jp = i]]
  /\ UNCHANGED <<ents, dotdot, cwd, fd, panicked, calls, crashes, history>>

\* The link is counted before it is made; then the path of the new name is looked up.
LinkCount(p) ==
  LET i == k[p].ip
      start == StartOf(p, k[p].new)
  IN
  /\ Locks(p, "link", i)
  /\ \/ /\ Inode(i).type = "dir"
        /\ ic' = Loaded(i)
        /\ k' = Leave(p, i)
        /\ UNCHANGED <<din, ref>>
     \/ /\ Inode(i).type # "dir"
        /\ din' = [din EXCEPT ![i] = OneMore(i)]
        /\ ic' = Cached([ic EXCEPT ![i] = OneMore(i)], start)
        /\ ref' = Got(start)
        /\ k' = [k EXCEPT ![p] = [AtUser EXCEPT !.pc = "walk", !.call = "linkdir",
                                   !.rest = k[p].new.names, !.ip = start, !.jp = i]]
  /\ UNCHANGED <<ents, dotdot, lock, cwd, fd, panicked, calls, crashes, history>>

\* dirlink() finds the name taken, and puts what it names with the directory locked.
LinkTaken(p) ==
  LET d == k[p].ip
      found == Entry(d, k[p].rest[1])
  IN
  /\ Locks(p, "linkdir", d) /\ found # None
  /\ ref' = Got(found)
  /\ ic' = Cached(Loaded(d), found)
  /\ lock' = [lock EXCEPT ![d] = p]
  /\ k' = [k EXCEPT ![p].pc = "unlock", ![p].put = found]
  /\ strays' = IF Astray(d, k[p].rest[1]) THEN strays \cup {p} ELSE strays
  /\ UNCHANGED <<onDisk, cwd, fd, panicked, calls, crashes, lost>>

\* dirlink() makes the entry.
LinkEntry(p) ==
  LET d == k[p].ip IN
  /\ Locks(p, "linkdir", d) /\ Entry(d, k[p].rest[1]) = None
  /\ ents' = [ents EXCEPT ![d][k[p].rest[1]] = k[p].jp]
  /\ ic' = Loaded(d)
  /\ k' = [k EXCEPT ![p].pc = "linked", ![p].ip = None, ![p].put = d]
  /\ UNCHANGED <<din, dotdot, ref, lock, cwd, fd, panicked, calls, crashes, history>>

LinkEnd(p) ==
  /\ At(p, "linked")
  /\ k' = Leave(p, k[p].jp)
  /\ UNCHANGED <<onDisk, inCache, cwd, fd, panicked, calls, crashes, history>>

\* Faulty variant: the link that was counted stays counted.
LinkUndoNot(p) ==
  LET i == k[p].jp IN
  /\ Locks(p, "undo", i)
  /\ UNCHANGED din
  /\ ic' = Loaded(i)
  /\ k' = Leave(p, i)
  /\ UNCHANGED <<ents, dotdot, ref, lock, cwd, fd, panicked, calls, crashes, history>>

\* bad: the link that was counted is taken back.
LinkUndo(p) ==
  LET i == k[p].jp IN
  /\ Locks(p, "undo", i)
  /\ din' = [din EXCEPT ![i] = OneLess(i)]
  /\ ic' = [ic EXCEPT ![i] = OneLess(i)]
  /\ k' = Leave(p, i)
  /\ UNCHANGED <<ents, dotdot, ref, lock, cwd, fd, panicked, calls, crashes, history>>

-----------------------------------------------------------------------------
\* Power fails; no call is under way on the disk that recovery leaves.
Crash ==
  /\ crashes < MaxCrash
  /\ \A p \in Procs : k[p] = AtUser
  /\ crashes' = crashes + 1
  /\ ic' = [i \in Inums |-> Unread]
  /\ ref' = [i \in Inums |-> IF i = Root THEN Cardinality(Procs) ELSE 0]
  /\ lock' = [i \in Inums |-> NoProc]
  /\ cwd' = [p \in Procs |-> Root]
  /\ fd' = [p \in Procs |-> None]
  /\ panicked' = "no"
  /\ UNCHANGED <<onDisk, k, calls, history>>

Calls(p) ==
  \/ \E call \in Kinds \cap {"open", "chdir"}, path \in NamePaths : Call(p, call, path, NoPath)
  \/ \E call \in Kinds \cap {"create", "mkdir", "unlink"}, path \in ParentPaths :
       Call(p, call, path, NoPath)
  \/ "link" \in Kinds /\ \E old \in NamePaths, new \in ParentPaths : Call(p, "link", old, new)

Step(p) ==
  \/ PutCheck(p) \/ PutFree(p) \/ PutDrop(p) \/ BadInode(p)
  \/ Walk(p) \/ WalkNoParent(p)
  \/ Open(p) \/ Close(p) \/ Chdir(p)
  \/ CreateFound(p) \/ CreateOld(p) \/ CreateAlloc(p) \/ NoInodes(p) \/ CreateInit(p)
  \/ CreateEnd(p)
  \/ UnlinkLookup(p) \/ UnlinkNot(p) \/ UnlinkEntry(p) \/ UnlinkEnd(p) \/ UnlockDir(p)
  \/ LinkCount(p) \/ LinkTaken(p) \/ LinkEntry(p) \/ LinkEnd(p) \/ LinkUndo(p)

Next == (\E p \in Procs : Calls(p) \/ Step(p)) \/ Crash

Spec == Init /\ [][Next]_vars

-----------------------------------------------------------------------------
(* Properties *)

\* The pointers to inodes that process p has.
Pointer(p) == [cwd |-> cwd[p], fd |-> fd[p], ip |-> k[p].ip, jp |-> k[p].jp, put |-> k[p].put]
PointersTo(p, i) == {f \in {"cwd", "fd", "ip", "jp", "put"} : Pointer(p)[f] = i}

\* ip->ref counts the pointers to the inode: open files, current directories and the
\* local variables of calls under way, on every path through every call.
RefsCounted ==
  \A i \in Inums :
    ref[i] = Cardinality(UNION {{<<p, f>> : f \in PointersTo(p, i)} : p \in Procs})

Subdirs(i) == {n \in Names : ents[i][n] # None /\ din[ents[i][n]].type = "dir"}
CountedBy(i) == {p \in Procs : /\ k[p].jp = i /\ k[p].call = "linkdir"
                               /\ k[p].pc \in {"walk", "linkdir", "unlock", "undo"}}

\* An inode that nobody has locked has as many links as entries name it, with one for each
\* subdirectory's "..", one for each link() that has counted a link and not made it, and one
\* for each entry that was lost: made in a directory that had been removed since
\* nameiparent() returned it, and gone with that directory.  The cache agrees with the disk.
LinksCounted ==
  \A i \in Inums : lock[i] = NoProc =>
    /\ Inode(i) = din[i]
    /\ din[i].nlink = Cardinality(Entries(i)) + Cardinality(Subdirs(i))
                      + Cardinality(CountedBy(i)) + lost[i] + IF i = Root THEN 1 ELSE 0

\* References are counted right, for everything in the cache, and links, for everything on
\* the disk, as long as nobody goes astray: ".." of a removed directory can lead to an inode
\* that is free, or is just being made again, and then its links are miscounted.
Counted == TypeOK /\ RefsCounted /\ (strays = {} => LinksCounted)

\* itrunc() is "only called when the inode has no links to it and has no in-memory reference
\* to it", although iput() releases icache.lock between the look at ip->ref and the freeing.
FreeAlone ==
  strays = {} => \A p \in Procs : k[p].stage = "free" =>
    LET i == k[p].put IN
    /\ Entries(i) = {} /\ PointersTo(p, i) = {"put"}
    /\ \A q \in Procs \ {p} : PointersTo(q, i) = {}

\* ilock() finds no freed inode ("ilock: no type") and unlink() none without links ("unlink:
\* nlink < 1"), unless "..", which unlink() leaves in a removed directory, led somebody astray.
TypedUnlessStray == panicked \in {"no_type", "no_links"} => strays # {}

\* Directories form a tree: each is named by one entry at most, in the directory its ".." names.
Tree ==
  strays = {} => \A i \in Inums : din[i].type = "dir" =>
    /\ Cardinality(Entries(i)) <= 1
    /\ \A e \in Entries(i) : e[1] = dotdot[i]

\* Calls lock a directory before what is in it, so that they cannot wait for each other in
\* a cycle, unless one of them is in iput(), which locks whatever else its caller has locked.
CyclesThroughIput ==
  strays = {} => \A S \in (SUBSET Procs) \ {{}} :
    (\A p \in S : Wants(p) # None /\ lock[Wants(p)] \in S) => \E p \in S : k[p].put # None

\* fs.c:327-328: "If that was the last reference and the inode has no links to it, free the inode":
\* an allocated inode without references has links.
Reclaimed == \A i \in Inums : ref[i] = 0 /\ din[i].type # "none" => din[i].nlink > 0
=============================================================================
