----------------------------- MODULE InodesProofs -----------------------------
(***************************************************************************)
(* What is proved of xv6's inodes and directories, for any number of       *)
(* processes, inodes, names and paths.                                     *)
(*                                                                         *)
(* References are counted right whatever happens. Links are too, and with  *)
(* them the directories are a tree and a freed inode is nobody's, as long  *)
(* as no process follows the `..' of a removed directory: the code lets it *)
(* do so, and what it finds there may be any inode. So the inductive       *)
(* invariant IInv has a part without that condition (the places of calls,  *)
(* the counts of references) and one under strays = {} (Sound and          *)
(* DepthInv).                                                              *)
(***************************************************************************)
EXTENDS Inodes, FiniteSetTheorems, SequenceTheorems, WellFoundedInduction, TLAPS

-----------------------------------------------------------------------------
(* The inductive invariant *)

(* Which inodes a call refers to where it stands.                            *)
ShapeOf(l) ==
  /\ l.pc = "user" => l.ip = None /\ l.jp = None /\ l.call = "none"
  /\ l.put = None => l.stage = "check"
  /\ l.pc \in {"init", "unlink_ip"} => l.put = None
  /\ l.pc \in {"user", "made", "unlinked", "linked", "undo"} <=> l.ip = None
  /\ l.pc \in {"walk", "unlock"} => (l.jp # None <=> l.call = "linkdir")
  /\ l.pc \in {"init", "made", "unlink_ip", "unlinked", "linkdir", "linked", "undo"} => l.jp # None
  /\ l.pc \in {"open", "chdir", "create", "mkdir", "old", "unlink", "link"} => l.jp = None
  /\ l.pc \in {"open", "chdir", "create", "mkdir", "unlink", "link", "linkdir"} => l.call = l.pc
  /\ l.pc \in {"unlink_ip", "unlinked"} => l.call = "unlink"
  /\ l.pc \in {"linked", "undo"} => l.call = "linkdir"
  /\ l.pc \in {"old", "init", "made"} => l.call \in {"create", "mkdir"}
  /\ l.pc = "unlock" => l.call \in {"unlink", "linkdir"}
  /\ l.pc = "walk" => l.call # "none"
  /\ l.pc \in {"create", "mkdir", "unlink", "linkdir", "init", "unlink_ip"} => l.rest # <<>>
  /\ l.pc = "walk" /\ l.rest = <<>> => OfParent(l.call)

Shape == \A p \in Procs : ShapeOf(k[p])

(* The inode that a call keeps locked from one step to the next, and the one *)
(* that iput() does.                                                         *)
Keeps(p) ==
  CASE k[p].pc \in {"init", "unlink_ip", "unlock"} -> k[p].ip
    [] k[p].pc \in {"made", "unlinked"} -> k[p].jp
    [] OTHER -> None
Frees(p) == IF k[p].stage = "free" THEN k[p].put ELSE None

LockInv ==
  \A p \in Procs :
    /\ \A i \in Inums : lock[i] = p <=> i \in {Keeps(p), Frees(p)}
    /\ Frees(p) # None => Frees(p) # Keeps(p)

(* The cache agrees with the disk, and a free inode is empty.                *)
DiskInv ==
  \A i \in Inums :
    /\ ic[i] # Unread => ic[i] = din[i]
    /\ din[i].nlink \in Nat
    /\ din[i].type = "none" => din[i] = Unread
    /\ din[i].type # "dir" => ents[i] = NoEntries

(* A process that has removed an entry and has still to count it.            *)
Owing(i) == {p \in Procs : k[p].pc = "unlinked" /\ k[p].jp = i}

LinkInv ==
  \A i \in Inums :
    din[i].nlink = Cardinality(Entries(i)) + Cardinality(Subdirs(i)) + Cardinality(CountedBy(i))
                   + Cardinality(Owing(i)) + lost[i] + IF i = Root THEN 1 ELSE 0

(* What a process refers to apart from what it is putting, and what it may   *)
(* still follow.                                                             *)
Refers(p) == {cwd[p], fd[p], k[p].ip, k[p].jp}
Live(p) == IF k[p].stage = "drop" THEN Refers(p) ELSE Refers(p) \cup {k[p].put}

(* What a process refers to is allocated.                                    *)
AllocInv == \A p \in Procs : \A i \in Inums : i \in Live(p) => din[i].type # "none"

(* Nobody else has an inode that is being freed, or is being made.           *)
FreeInv ==
  \A p \in Procs :
    k[p].stage = "free" =>
      /\ din[k[p].put].nlink = 0
      /\ k[p].put \notin Refers(p)
      /\ \A q \in Procs \ {p} : k[p].put \notin Refers(q) \cup {k[q].put}

MakeInv ==
  \A p \in Procs :
    k[p].pc = "init" =>
      /\ k[p].rest[1] \in Names /\ ents[k[p].ip][k[p].rest[1]] = None
      /\ din[k[p].jp] = [type |-> IF k[p].call = "mkdir" THEN "dir" ELSE "file", nlink |-> 0]
      /\ ents[k[p].jp] = NoEntries
      /\ k[p].jp \notin {cwd[p], fd[p], k[p].ip}
      /\ \A q \in Procs \ {p} : k[p].jp \notin Live(q)

(* What a call has established of its inodes still holds.                    *)
CallInv ==
  \A p \in Procs :
    /\ k[p].pc \in {"create", "mkdir", "unlink", "linkdir", "init", "unlink_ip"} =>
         din[k[p].ip].type = "dir"
    /\ k[p].pc = "unlink_ip" => k[p].rest[1] \in Names /\ ents[k[p].ip][k[p].rest[1]] = k[p].jp
    /\ k[p].call = "linkdir" => din[k[p].jp].type # "dir"

(* Directories form a tree.                                                  *)
DirInv ==
  /\ din[Root].type = "dir" /\ dotdot[Root] = Root /\ Entries(Root) = {}
  /\ \A i \in Inums : din[i].type = "dir" =>
       /\ \A e, f \in Entries(i) : e = f
       /\ \A e \in Entries(i) : e[1] = dotdot[i]
       /\ dotdot[i] = None => \E p \in Procs : k[p].pc = "init" /\ k[p].jp = i

(* Each is deeper than the one it is in.                                     *)
Ranked(depth) ==
  \A d \in Inums, n \in Names :
    ents[d][n] # None /\ din[ents[d][n]].type = "dir" => depth[d] < depth[ents[d][n]]
DepthInv == \E depth \in [Inums -> Nat] : Ranked(depth)

Sound ==
  /\ LockInv /\ DiskInv /\ LinkInv /\ AllocInv /\ FreeInv /\ MakeInv /\ CallInv
  /\ DirInv /\ panicked \notin {"no_type", "no_links"}

IInv == TypeOK /\ Shape /\ RefsCounted /\ (strays = {} => Sound /\ DepthInv)

-----------------------------------------------------------------------------
(* Types *)

LEMMA Numbers == Root \in Inums /\ None \notin Inums /\ Inums \subseteq Nat /\ NINODES \in Nat
BY InodesAssumption DEF Root, None, Inums

(* What a directory's entry, `.' or `..' leads to.                           *)
LEMMA EntryType ==
  ASSUME TypeOK, NEW d \in Inums, NEW n \in Elements
  PROVE  Entry(d, n) \in Inums \cup {None}
BY DEF TypeOK, Elements, Entry

(* A copy of an inode, with one link more or less.                           *)
LEMMA InodeType ==
  ASSUME TypeOK, NEW i \in Inums
  PROVE  Inode(i) \in Copy /\ OneMore(i) \in Copy /\ OneLess(i) \in Copy
<1>1. Inode(i) \in Copy
  BY DEF TypeOK, Inode
<1>. QED  BY <1>1 DEF OneMore, OneLess, Copy

(* The cache after iget() has found or made an entry.                        *)
LEMMA CachedType ==
  ASSUME TypeOK, NEW c \in [Inums -> Copy], NEW i \in Inums
  PROVE  Cached(c, i) \in [Inums -> Copy]
BY DEF TypeOK, Cached, Copy, Unread

(* The cache after ilock() has read an inode, the counts after idup().       *)
LEMMA LoadedType ==
  ASSUME TypeOK, NEW i \in Inums
  PROVE  Loaded(i) \in [Inums -> Copy] /\ Got(i) \in [Inums -> Nat]
BY InodeType DEF TypeOK, Loaded, Got

(* namex() starts at an inode.                                               *)
LEMMA StartType ==
  ASSUME TypeOK, NEW p \in Procs, NEW path \in NamePaths \cup ParentPaths \cup {NoPath}
  PROVE  StartOf(p, path) \in Inums /\ path.names \in Seq(Elements)
<1>1. StartOf(p, path) \in Inums
  BY Numbers DEF TypeOK, StartOf
<1>2. path.names \in Seq(Elements)
  <2>1. CASE path = NoPath
    BY <2>1 DEF NoPath
  <2>2. CASE path \in NamePaths \cup ParentPaths
    BY <2>2, InodesAssumption DEF Elements
  <2>. QED  BY <2>1, <2>2
<1>. QED  BY <1>1, <1>2

(* Where a call goes with the rest of its path.                              *)
LEMMA NextPcType ==
  ASSUME NEW call \in CallNames \ {"none"}, NEW rest
  PROVE  NextPc(call, rest) \in PC
BY DEF NextPc, OfParent, CallNames, PC

(* A process outside of calls has proper locals.                             *)
LEMMA UserType == AtUser \in Local
<1>1. NoPath \in ParentPaths \cup {NoPath}
  OBVIOUS
<1>2. <<>> \in Seq(Elements)
  OBVIOUS
<1>3. "user" \in PC /\ "none" \in CallNames
  BY DEF PC, CallNames
<1>. QED  BY <1>1, <1>2, <1>3 DEF AtUser, Local

(* So has one that leaves a call,                                            *)
LEMMA LeaveType ==
  ASSUME TypeOK, NEW p \in Procs, NEW i \in Inums \cup {None}
  PROVE  Leave(p, i) \in [Procs -> Local]
<1>1. [AtUser EXCEPT !.put = i] \in Local
  BY UserType DEF Local
<1>. QED  BY <1>1 DEF Leave, TypeOK

(* or goes on in it,                                                         *)
LEMMA FieldsType ==
  ASSUME NEW l \in Local, NEW i \in Inums \cup {None}, NEW j \in Inums \cup {None},
         NEW rest \in Seq(Elements), NEW pc \in PC, NEW stage \in {"check", "free", "drop"}
  PROVE  /\ [l EXCEPT !.ip = i, !.put = j, !.rest = rest, !.pc = pc] \in Local
         /\ [l EXCEPT !.ip = i, !.put = j, !.pc = pc] \in Local
         /\ [l EXCEPT !.stage = stage] \in Local
BY DEF Local

(* or gives it up.                                                           *)
LEMMA FailType ==
  ASSUME TypeOK, NEW p \in Procs, NEW i \in Inums \cup {None}
  PROVE  Fail(p, i) \in [Procs -> Local]
<1>1. [k EXCEPT ![p].ip = None, ![p].put = i, ![p].pc = "undo"] \in [Procs -> Local]
  <2>1. k \in [Procs -> Local] /\ k[p] \in Local
    BY DEF TypeOK
  <2>2. [k[p] EXCEPT !.ip = None, !.put = i, !.pc = "undo"] \in Local
    BY <2>1 DEF Local, PC
  <2>. QED  BY <2>1, <2>2
<1>. QED  BY <1>1, LeaveType DEF Fail

(* The inode that a process locks.                                           *)
LEMMA LocksType ==
  ASSUME TypeOK, NEW p \in Procs, NEW pc, NEW i, Locks(p, pc, i), i # None
  PROVE  i \in Inums
BY DEF TypeOK, Locks, Wants, Local

(* Calls(p) is one call, with some arguments.                                *)
LEMMA CallsIsCall ==
  ASSUME NEW p \in Procs, Calls(p)
  PROVE  \E call \in CallNames \ {"none", "linkdir"}, path \in NamePaths \cup ParentPaths,
            new \in ParentPaths \cup {NoPath} : Call(p, call, path, new)
BY Zenon DEF Calls, CallNames

(* A path that is not at its end has a head and a tail.                      *)
LEMMA RestType ==
  ASSUME TypeOK, NEW p \in Procs, k[p].rest # <<>>
  PROVE  /\ Head(k[p].rest) = k[p].rest[1] /\ k[p].rest[1] \in Elements
         /\ Tail(k[p].rest) \in Seq(Elements) /\ Len(k[p].rest) \in Nat \ {0}
<1>1. k[p].rest \in Seq(Elements)
  BY DEF TypeOK, Local
<1>. QED  BY <1>1, EmptySeq, HeadTailProperties

(* Where a process stands that gets a lock.                                  *)
LEMMA LocksAt ==
  ASSUME TypeOK, Shape, NEW p \in Procs, NEW i,
         NEW pc \in {"walk", "open", "chdir", "link", "unlink", "create", "mkdir", "linkdir", "old",
                     "unlink_ip", "init", "undo"},
         Locks(p, pc, i)
  PROVE  /\ i \in Inums /\ i # None /\ k[p].pc = pc /\ k[p].put = None /\ k[p].stage = "check"
         /\ lock[i] = NoProc /\ Inode(i).type # "none"
         /\ i = IF pc \in {"unlink_ip", "init", "undo"} THEN k[p].jp ELSE k[p].ip
         /\ k[p] \in Local
<1>1. k[p] \in Local /\ ShapeOf(k[p])
  BY DEF TypeOK, Shape
<1>2. i = IF pc \in {"unlink_ip", "init", "undo"} THEN k[p].jp ELSE k[p].ip
  BY DEF Locks, Wants
<1>3. k[p].pc = pc /\ k[p].put = None /\ lock[i] = NoProc /\ Inode(i).type # "none"
  BY DEF Locks
<1>4. k[p].stage = "check" /\ i # None
  BY <1>1, <1>2, <1>3 DEF ShapeOf
<1>5. i \in Inums
  BY <1>1, <1>2, <1>4 DEF Local
<1>. QED  BY <1>1, <1>2, <1>3, <1>4, <1>5

(* A set of numbers has a least one: induction without an operator argument. *)
LEMMA LeastElement == ASSUME NEW T \in SUBSET Nat, T # {} PROVE \E n \in T : \A m \in T : n <= m
<1>1. PICK n \in T : \A m \in T : <<m, n>> \notin OpToRel(<, Nat)
  BY NatLessThanWellFounded, WFMin
<1>2. ASSUME NEW m \in T PROVE n <= m
  <2>1. <<m, n>> \in Nat \X Nat /\ <<m, n>>[1] = m /\ <<m, n>>[2] = n
    OBVIOUS
  <2>2. ~(m < n)
    BY <1>1, <2>1 DEF OpToRel
  <2>. QED  BY <2>2
<1>. QED  BY <1>2

(* The inode that ialloc() takes.                                            *)
LEMMA LeastFree ==
  ASSUME Free # {}
  PROVE  (CHOOSE j \in Free : \A h \in Free : j <= h) \in Free
<1>1. Free \in SUBSET Nat
  BY Numbers DEF Free
<1>2. \E j \in Free : \A h \in Free : j <= h
  BY <1>1, LeastElement
<1>. QED  BY <1>2

(* Every step leaves proper locals.                                          *)
LEMMA LocalStep ==
  ASSUME TypeOK, Shape, NEW p \in Procs, Calls(p) \/ Step(p)
  PROVE  k' \in [Procs -> Local]
<1>. USE Numbers
<1>0. k \in [Procs -> Local] /\ ShapeOf(k[p]) /\ k[p] \in Local
  BY DEF TypeOK, Shape
<1>1. ASSUME PutCheck(p) PROVE k' \in [Procs -> Local]
  <2>1. k' = [k EXCEPT ![p].stage = "free"] \/ k' = [k EXCEPT ![p].stage = "drop"]
    BY <1>1 DEF PutCheck
  <2>2. [k[p] EXCEPT !.stage = "free"] \in Local /\ [k[p] EXCEPT !.stage = "drop"] \in Local
    BY <1>0 DEF Local
  <2>. QED  BY <1>0, <2>1, <2>2
<1>2. ASSUME PutFree(p) PROVE k' \in [Procs -> Local]
  BY <1>2, <1>0 DEF PutFree, Local
<1>3. ASSUME PutDrop(p) PROVE k' \in [Procs -> Local]
  BY <1>3, <1>0 DEF PutDrop, Local
<1>4. ASSUME BadInode(p) PROVE k' \in [Procs -> Local]
  BY <1>4, <1>0 DEF BadInode, Panic, Local
<1>5. ASSUME Walk(p) PROVE k' \in [Procs -> Local]
  <2>1. k[p].ip \in Inums /\ k[p].pc = "walk"
    BY <1>5, LocksAt DEF Walk
  <2>2. CASE k' = Fail(p, k[p].ip)
    BY <2>1, <2>2, FailType
  <2>3. CASE k' = [k EXCEPT ![p].pc = k[p].call]
    BY <1>0, <2>1, <2>3 DEF Local, PC, CallNames, ShapeOf
  <2>4. CASE /\ Entry(k[p].ip, Head(k[p].rest)) # None
             /\ k' = [k EXCEPT ![p].ip = Entry(k[p].ip, Head(k[p].rest)), ![p].put = k[p].ip, ![p].rest = Tail(@),
                          ![p].pc = NextPc(k[p].call, Tail(k[p].rest))]
    <3>1. k[p].rest # <<>>
      BY <1>5 DEF Walk
    <3>2. Entry(k[p].ip, Head(k[p].rest)) \in Inums /\ Tail(k[p].rest) \in Seq(Elements)
      BY <2>1, <2>4, <3>1, RestType, EntryType
    <3>3. NextPc(k[p].call, Tail(k[p].rest)) \in PC
      BY <1>0, <2>1, NextPcType DEF Local, ShapeOf
    <3>. DEFINE next == Entry(k[p].ip, Head(k[p].rest))
                rest == Tail(k[p].rest)
                pc == NextPc(k[p].call, rest)
    <3>4. next \in Inums \cup {None} /\ rest \in Seq(Elements) /\ pc \in PC
      BY <3>2, <3>3
    <3>5. k' = [k EXCEPT ![p].ip = next, ![p].put = k[p].ip, ![p].rest = rest, ![p].pc = pc]
      BY <2>4
    <3>. HIDE DEF next, rest, pc
    <3>6. [k[p] EXCEPT !.ip = next, !.put = k[p].ip, !.rest = rest, !.pc = pc] \in Local
      BY <1>0, <2>1, <3>4, FieldsType
    <3>. QED  BY <1>0, <3>5, <3>6
  <2>. QED
    <3>1. \/ k' = Fail(p, k[p].ip)
          \/ k' = [k EXCEPT ![p].pc = k[p].call]
          \/ /\ Entry(k[p].ip, Head(k[p].rest)) # None
             /\ k' = [k EXCEPT ![p].ip = Entry(k[p].ip, Head(k[p].rest)), ![p].put = k[p].ip,
                               ![p].rest = Tail(@), ![p].pc = NextPc(k[p].call, Tail(k[p].rest))]
      BY <1>5, Zenon DEF Walk
    <3>. QED  BY <3>1, <2>2, <2>3, <2>4
<1>6. ASSUME WalkNoParent(p) PROVE k' \in [Procs -> Local]
  BY <1>6, <1>0, FailType DEF WalkNoParent, Local
<1>7. ASSUME Open(p) PROVE k' \in [Procs -> Local]
  <2>1. k[p].ip \in Inums
    BY <1>7, LocksAt DEF Open, CreateOld
  <2>. QED  BY <1>7, <2>1, LeaveType DEF Open, CreateOld, Opened
<1>8. ASSUME Close(p) PROVE k' \in [Procs -> Local]
  BY <1>8, LeaveType DEF Close, TypeOK
<1>9. ASSUME Chdir(p) PROVE k' \in [Procs -> Local]
  <2>1. k[p].ip \in Inums
    BY <1>9, LocksAt DEF Chdir
  <2>2. cwd[p] \in Inums
    BY DEF TypeOK
  <2>3. k' = Leave(p, cwd[p]) \/ k' = Leave(p, k[p].ip)
    BY <1>9 DEF Chdir
  <2>. QED  BY <2>1, <2>2, <2>3, LeaveType
<1>10. ASSUME CreateFound(p) PROVE k' \in [Procs -> Local]
  <2>1. k[p].ip \in Inums /\ k[p].rest # <<>>
    BY <1>10, <1>0, LocksAt DEF CreateFound, ShapeOf
  <2>2. Entry(k[p].ip, k[p].rest[1]) \in Inums
    BY <1>10, <2>1, RestType, EntryType DEF CreateFound
  <2>. QED  BY <1>10, <1>0, <2>1, <2>2 DEF CreateFound, Local, PC
<1>11. ASSUME CreateOld(p) PROVE k' \in [Procs -> Local]
  <2>1. k[p].ip \in Inums
    BY <1>11, LocksAt DEF Open, CreateOld
  <2>. QED  BY <1>11, <2>1, LeaveType DEF Open, CreateOld, Opened
<1>12. ASSUME CreateAlloc(p) PROVE k' \in [Procs -> Local]
  <2>1. (CHOOSE j \in Free : \A h \in Free : j <= h) \in Inums
    BY <1>12, LeastFree DEF CreateAlloc, Free
  <2>2. k' = [k EXCEPT ![p].pc = "init", ![p].jp = CHOOSE j \in Free : \A h \in Free : j <= h]
    BY <1>12 DEF CreateAlloc
  <2>. QED  BY <1>0, <2>1, <2>2 DEF Local, PC
<1>13. ASSUME NoInodes(p) PROVE k' \in [Procs -> Local]
  BY <1>13, <1>0 DEF NoInodes, Panic, Local
<1>14. ASSUME CreateInit(p) PROVE k' \in [Procs -> Local]
  BY <1>14, <1>0 DEF CreateInit, Local, PC
<1>15. ASSUME CreateEnd(p) PROVE k' \in [Procs -> Local]
  <2>1. k[p].jp \in Inums \cup {None}
    BY <1>0 DEF Local
  <2>2. k' = Leave(p, None) \/ k' = Leave(p, k[p].jp)
    BY <1>15 DEF CreateEnd, Opened
  <2>. QED  BY <2>1, <2>2, LeaveType
<1>16. ASSUME UnlinkLookup(p) PROVE k' \in [Procs -> Local]
  <2>1. k[p].ip \in Inums /\ k[p].rest # <<>>
    BY <1>16, <1>0, LocksAt DEF UnlinkLookup, ShapeOf
  <2>2. k[p].rest[1] \in Elements
    BY <2>1, RestType
  <2>3. CASE k' = Leave(p, k[p].ip)
    BY <2>1, <2>3, LeaveType
  <2>4. CASE k' = [k EXCEPT ![p].pc = "unlink_ip", ![p].jp = Entry(k[p].ip, k[p].rest[1])]
    BY <1>0, <2>1, <2>2, <2>4, EntryType DEF Local, PC
  <2>. QED  BY <1>16, <2>3, <2>4 DEF UnlinkLookup
<1>17. ASSUME UnlinkNot(p) PROVE k' \in [Procs -> Local]
  BY <1>17, <1>0 DEF UnlinkNot, Local, PC
<1>18. ASSUME UnlinkEntry(p) PROVE k' \in [Procs -> Local]
  BY <1>18, <1>0 DEF UnlinkEntry, Local, PC
<1>19. ASSUME UnlinkEnd(p) PROVE k' \in [Procs -> Local]
  BY <1>19, <1>0, LeaveType DEF UnlinkEnd, LinkEnd, LinkUndo, Local
<1>20. ASSUME UnlockDir(p) PROVE k' \in [Procs -> Local]
  BY <1>20, <1>0, FailType DEF UnlockDir, Local
<1>21. ASSUME LinkCount(p) PROVE k' \in [Procs -> Local]
  <2>1. k[p].ip \in Inums
    BY <1>21, LocksAt DEF LinkCount
  <2>2. k[p].new \in ParentPaths \cup {NoPath}
    BY <1>0 DEF Local
  <2>3. StartOf(p, k[p].new) \in Inums /\ k[p].new.names \in Seq(Elements)
    BY <2>2, StartType
  <2>4. [AtUser EXCEPT !.pc = "walk", !.call = "linkdir", !.rest = k[p].new.names,
                       !.ip = StartOf(p, k[p].new), !.jp = k[p].ip] \in Local
    BY <2>1, <2>3, UserType DEF Local, PC, CallNames
  <2>. QED  BY <1>21, <1>0, <2>1, <2>4, LeaveType DEF LinkCount
<1>22. ASSUME LinkTaken(p) PROVE k' \in [Procs -> Local]
  <2>1. k[p].ip \in Inums /\ k[p].rest # <<>>
    BY <1>22, <1>0, LocksAt DEF LinkTaken, ShapeOf
  <2>2. Entry(k[p].ip, k[p].rest[1]) \in Inums
    BY <1>22, <2>1, RestType, EntryType DEF LinkTaken
  <2>. QED  BY <1>22, <1>0, <2>1, <2>2 DEF LinkTaken, Local, PC
<1>23. ASSUME LinkEntry(p) PROVE k' \in [Procs -> Local]
  <2>1. k' = [k EXCEPT ![p].pc = "linked", ![p].ip = None, ![p].put = k[p].ip]
    BY <1>23 DEF LinkEntry
  <2>. QED  BY <1>0, <2>1 DEF Local, PC
<1>24. ASSUME LinkEnd(p) PROVE k' \in [Procs -> Local]
  BY <1>24, <1>0, LeaveType DEF UnlinkEnd, LinkEnd, LinkUndo, Local
<1>25. ASSUME LinkUndo(p) PROVE k' \in [Procs -> Local]
  BY <1>25, <1>0, LeaveType DEF UnlinkEnd, LinkEnd, LinkUndo, Local
<1>26. ASSUME NEW call \in CallNames \ {"none", "linkdir"}, NEW path \in NamePaths \cup ParentPaths,
            NEW new \in ParentPaths \cup {NoPath}, Call(p, call, path, new)
     PROVE  k' \in [Procs -> Local]
  <2>1. StartOf(p, path) \in Inums /\ path.names \in Seq(Elements)
    BY StartType
  <2>2. NextPc(call, path.names) \in PC
    BY NextPcType
  <2>3. [AtUser EXCEPT !.pc = NextPc(call, path.names), !.call = call, !.rest = path.names, !.new = new,
                       !.ip = StartOf(p, path)] \in Local
    BY <2>1, <2>2, UserType DEF Local
  <2>. QED  BY <1>26, <1>0, <2>3 DEF Call
<1>. QED  BY <1>1, <1>2, <1>3, <1>4, <1>5, <1>6, <1>7, <1>8, <1>9, <1>10, <1>11, <1>12, <1>13,
             <1>14, <1>15, <1>16, <1>17, <1>18, <1>19, <1>20, <1>21, <1>22, <1>23, <1>24, <1>25,
             <1>26, CallsIsCall DEF Step

-----------------------------------------------------------------------------
(* References *)

(* The pointers to i, when current directories, files and local variables    *)
(* are these, as pairs of a process of P and a name.                         *)
Fields == {"cwd", "fd", "ip", "jp", "put"}
Named(c, f, l, i) ==
  {n \in Fields : [cwd |-> c, fd |-> f, ip |-> l.ip, jp |-> l.jp, put |-> l.put][n] = i}
Pairs(P, cs, fs, ls, i) == UNION {{<<p, n>> : n \in Named(cs[p], fs[p], ls[p], i)} : p \in P}

(* RefsCounted says: ref is the number of pairs of a process and a pointer.  *)
LEMMA RefsArePairs ==
  /\ RefsCounted <=> \A i \in Inums : ref[i] = Cardinality(Pairs(Procs, cwd, fd, k, i))
  /\ RefsCounted' <=> \A i \in Inums : ref'[i] = Cardinality(Pairs(Procs, cwd', fd', k', i))
BY DEF RefsCounted, PointersTo, Pointer, Pairs, Named, Fields

(* Processes are finitely many, and each has five pointers.                  *)
LEMMA PairsFinite ==
  ASSUME NEW P \in SUBSET Procs, NEW cs, NEW fs, NEW ls, NEW i
  PROVE  LET pairs == Pairs(P, cs, fs, ls, i) IN IsFiniteSet(pairs) /\ Cardinality(pairs) \in Nat
<1>1. IsFiniteSet(Fields)
  <2>1. Fields = ((({"cwd"} \cup {"fd"}) \cup {"ip"}) \cup {"jp"}) \cup {"put"}
    BY DEF Fields
  <2>. QED  BY <2>1, FS_Singleton, FS_Union
<1>2. IsFiniteSet(Procs)
  BY InodesAssumption
<1>3. IsFiniteSet(Procs \X Fields)
  BY <1>1, <1>2, FS_Product, Zenon
<1>4. Pairs(P, cs, fs, ls, i) \subseteq Procs \X Fields
  <2>1. ASSUME NEW p \in P PROVE {<<p, n>> : n \in Named(cs[p], fs[p], ls[p], i)} \subseteq Procs \X Fields
    BY DEF Named
  <2>. QED  BY <2>1 DEF Pairs
<1>. QED  BY <1>3, <1>4, FS_Subset, FS_CardinalityType

(* The inode that is being put is referred to.                               *)
LEMMA PutCounted ==
  ASSUME TypeOK, RefsCounted, NEW p \in Procs, k[p].put # None
  PROVE  k[p].put \in Inums /\ ref[k[p].put] \in Nat /\ ref[k[p].put] > 0
<1>1. k[p].put \in Inums /\ ref[k[p].put] \in Nat
  BY DEF TypeOK, Local
<1>. DEFINE pairs == Pairs(Procs, cwd, fd, k, k[p].put)
<1>2. <<p, "put">> \in pairs
  BY DEF Pairs, Named, Fields
<1>3. Cardinality(pairs) # 0
  BY <1>2, PairsFinite, FS_EmptySet
<1>4. ref[k[p].put] = Cardinality(pairs)
  BY <1>1, RefsArePairs
<1>. QED  BY <1>1, <1>3, <1>4

(* No step leaves the types: no count goes below 0.                          *)
LEMMA TypeStep ==
  ASSUME TypeOK, Shape, RefsCounted, NEW p \in Procs, Calls(p) \/ Step(p)
  PROVE  TypeOK'
<1>. USE Numbers DEF onDisk, inCache, history
<1>0. k' \in [Procs -> Local] /\ k[p] \in Local /\ ShapeOf(k[p])
  BY LocalStep DEF TypeOK, Shape
<1>l. ASSUME NEW i, NEW pc \in {"walk", "open", "chdir", "link", "unlink", "create", "mkdir", "linkdir", "old",
                     "unlink_ip", "init", "undo"}, Locks(p, pc, i)
      PROVE  /\ i \in Inums /\ i = IF pc \in {"unlink_ip", "init", "undo"} THEN k[p].jp ELSE k[p].ip
             /\ Loaded(i) \in [Inums -> Copy]
  <2>1. i \in Inums /\ i = IF pc \in {"unlink_ip", "init", "undo"} THEN k[p].jp ELSE k[p].ip
    BY <1>l, LocksAt
  <2>. QED  BY <2>1, LoadedType
<1>1. ASSUME PutCheck(p) PROVE TypeOK'
  BY <1>1, <1>0 DEF PutCheck, TypeOK
<1>2. ASSUME PutFree(p) PROVE TypeOK'
  <2>1. k[p].put \in Inums /\ Unread \in Copy /\ NoEntries \in [Names -> Inums \cup {None}]
    BY <1>2, <1>0 DEF PutFree, Local, Copy, Unread, NoEntries
  <2>2. lost' \in [Inums -> Nat]
    <3>1. \A j \in Inums : Cardinality({n \in Names : ents[k[p].put][n] = j}) \in Nat
      BY InodesAssumption, FS_Subset, FS_CardinalityType
    <3>2. lost' = [j \in Inums |-> lost[j] + Cardinality({n \in Names : ents[k[p].put][n] = j})]
      BY <1>2 DEF PutFree
    <3>. QED  BY <3>1, <3>2 DEF TypeOK
  <2>. QED  BY <1>2, <1>0, <2>1, <2>2 DEF PutFree, TypeOK
<1>3. ASSUME PutDrop(p) PROVE TypeOK'
  BY <1>3, <1>0, PutCounted DEF PutDrop, TypeOK
<1>4. ASSUME BadInode(p) PROVE TypeOK'
  BY <1>4, <1>0 DEF BadInode, Panic, TypeOK
<1>5. ASSUME Walk(p) PROVE TypeOK'
  <2>1. k[p].ip \in Inums /\ Loaded(k[p].ip) \in [Inums -> Copy] /\ k[p].rest # <<>>
    BY <1>5, <1>l DEF Walk
  <2>2. ic' \in [Inums -> Copy] /\ ref' \in [Inums -> Nat] /\ strays' \subseteq Procs
    <3>1. CASE ic' = Loaded(k[p].ip) /\ UNCHANGED <<ref, strays>>
      BY <2>1, <3>1 DEF TypeOK
    <3>2. CASE LET next == Entry(k[p].ip, Head(k[p].rest)) IN
               next # None /\ ref' = Got(next) /\ ic' = Cached(Loaded(k[p].ip), next)
               /\ strays' \subseteq strays \cup {p}
      <4>1. Entry(k[p].ip, Head(k[p].rest)) \in Inums
        BY <2>1, <3>2, RestType, EntryType
      <4>. QED  BY <2>1, <3>2, <4>1, CachedType, LoadedType DEF TypeOK
    <3>. QED  BY <1>5, <3>1, <3>2 DEF Walk
  <2>. QED  BY <1>5, <1>0, <2>2 DEF Walk, TypeOK
<1>6. ASSUME WalkNoParent(p) PROVE TypeOK'
  BY <1>6, <1>0 DEF WalkNoParent, Fail, Leave, TypeOK
<1>7. ASSUME Open(p) PROVE TypeOK'
  BY <1>7, <1>0, <1>l DEF Open, CreateOld, Opened, TypeOK
<1>8. ASSUME Close(p) PROVE TypeOK'
  BY <1>8, <1>0 DEF Close, Leave, TypeOK
<1>9. ASSUME Chdir(p) PROVE TypeOK'
  BY <1>9, <1>0, <1>l DEF Chdir, TypeOK
<1>10. ASSUME CreateFound(p) PROVE TypeOK'
  <2>1. k[p].ip \in Inums /\ Loaded(k[p].ip) \in [Inums -> Copy] /\ k[p].rest # <<>>
    BY <1>10, <1>0, <1>l, LocksAt DEF CreateFound, LinkTaken, ShapeOf
  <2>2. Entry(k[p].ip, k[p].rest[1]) \in Inums
    BY <1>10, <2>1, RestType, EntryType DEF CreateFound, LinkTaken
  <2>3. Got(Entry(k[p].ip, k[p].rest[1])) \in [Inums -> Nat]
        /\ Cached(Loaded(k[p].ip), Entry(k[p].ip, k[p].rest[1])) \in [Inums -> Copy]
    BY <2>1, <2>2, CachedType, LoadedType
  <2>. QED  BY <1>10, <1>0, <2>1, <2>3 DEF CreateFound, LinkTaken, TypeOK
<1>11. ASSUME CreateOld(p) PROVE TypeOK'
  BY <1>11, <1>0, <1>l DEF Open, CreateOld, Opened, TypeOK
<1>12. ASSUME CreateAlloc(p) PROVE TypeOK'
  <2>. DEFINE i == CHOOSE j \in Free : \A h \in Free : j <= h
  <2>1. i \in Inums
    BY <1>12, LeastFree DEF CreateAlloc, Free
  <2>2. k[p].ip \in Inums /\ Loaded(k[p].ip) \in [Inums -> Copy]
    BY <1>12, <1>l DEF CreateAlloc
  <2>3. /\ din' = [din EXCEPT ![i] = [type |-> IF k[p].call = "mkdir" THEN "dir" ELSE "file", nlink |-> 0]]
        /\ ref' = Got(i) /\ ic' = Cached(Loaded(k[p].ip), i) /\ lock' = [lock EXCEPT ![k[p].ip] = p]
        /\ UNCHANGED <<ents, dotdot, cwd, fd, panicked, calls, crashes, history>>
    BY <1>12 DEF CreateAlloc
  <2>. HIDE DEF i
  <2>4. Got(i) \in [Inums -> Nat] /\ Cached(Loaded(k[p].ip), i) \in [Inums -> Copy]
    BY <2>1, <2>2, CachedType, LoadedType
  <2>5. [type |-> IF k[p].call = "mkdir" THEN "dir" ELSE "file", nlink |-> 0] \in Copy
    BY DEF Copy
  <2>. QED  BY <1>0, <2>1, <2>2, <2>3, <2>4, <2>5 DEF TypeOK
<1>13. ASSUME NoInodes(p) PROVE TypeOK'
  BY <1>13, <1>0 DEF NoInodes, Panic, TypeOK
<1>14. ASSUME CreateInit(p) PROVE TypeOK'
  <2>1. k[p].jp \in Inums /\ k[p].ip \in Inums
    BY <1>14, <1>0, <1>l, LocksAt DEF CreateInit, ShapeOf, Local
  <2>2. Inode(k[p].ip) \in Copy /\ OneMore(k[p].ip) \in Copy /\ [Inode(k[p].jp) EXCEPT !.nlink = 1] \in Copy
    BY <2>1, InodeType DEF Copy
  <2>3. din' \in [Inums -> Copy] /\ ic' \in [Inums -> Copy]
    BY <1>14, <2>1, <2>2 DEF CreateInit, TypeOK
  <2>4. ents' \in [Inums -> [Names -> Inums \cup {None}]] /\ dotdot' \in [Inums -> Inums \cup {None}]
        /\ lock' \in [Inums -> Procs \cup {NoProc}]
    BY <1>14, <2>1 DEF CreateInit, TypeOK
  <2>. QED  BY <1>14, <1>0, <2>3, <2>4 DEF CreateInit, TypeOK
<1>15. ASSUME CreateEnd(p) PROVE TypeOK'
  <2>1. k[p].jp \in Inums
    BY <1>15, <1>0 DEF CreateEnd, At, ShapeOf, Local
  <2>2. fd' \in [Procs -> Inums \cup {None}]
    BY <1>15, <2>1 DEF CreateEnd, Opened, TypeOK
  <2>. QED  BY <1>15, <1>0, <2>1, <2>2 DEF CreateEnd, TypeOK
<1>16. ASSUME UnlinkLookup(p) PROVE TypeOK'
  <2>1. k[p].ip \in Inums /\ Loaded(k[p].ip) \in [Inums -> Copy] /\ k[p].rest # <<>>
    BY <1>16, <1>0, <1>l, LocksAt DEF UnlinkLookup, ShapeOf
  <2>2. Entry(k[p].ip, k[p].rest[1]) # None =>
           /\ Got(Entry(k[p].ip, k[p].rest[1])) \in [Inums -> Nat]
           /\ Cached(Loaded(k[p].ip), Entry(k[p].ip, k[p].rest[1])) \in [Inums -> Copy]
    BY <2>1, RestType, EntryType, CachedType, LoadedType
  <2>3. ic' \in [Inums -> Copy] /\ ref' \in [Inums -> Nat]
    <3>1. \/ ic' = Loaded(k[p].ip) /\ ref' = ref
          \/ /\ Entry(k[p].ip, k[p].rest[1]) # None /\ ref' = Got(Entry(k[p].ip, k[p].rest[1]))
             /\ ic' = Cached(Loaded(k[p].ip), Entry(k[p].ip, k[p].rest[1]))
      BY <1>16, Zenon DEF UnlinkLookup
    <3>. QED  BY <2>1, <2>2, <3>1 DEF TypeOK
  <2>4. lock' \in [Inums -> Procs \cup {NoProc}]
    BY <1>16 DEF UnlinkLookup, TypeOK
  <2>. QED  BY <1>16, <1>0, <2>3, <2>4 DEF UnlinkLookup, TypeOK
<1>17. ASSUME UnlinkNot(p) PROVE TypeOK'
  BY <1>17, <1>0, <1>l DEF UnlinkNot, TypeOK
<1>18. ASSUME UnlinkEntry(p) PROVE TypeOK'
  <2>1. k[p].jp \in Inums /\ k[p].ip \in Inums
    BY <1>18, <1>0, <1>l, LocksAt DEF UnlinkEntry, ShapeOf, Local
  <2>2. Inode(k[p].ip) \in Copy /\ OneLess(k[p].ip) \in Copy /\ Loaded(k[p].jp) \in [Inums -> Copy]
    BY <2>1, InodeType, LoadedType
  <2>3. din' \in [Inums -> Copy] /\ ic' \in [Inums -> Copy]
    BY <1>18, <2>1, <2>2 DEF UnlinkEntry, TypeOK
  <2>4. ents' \in [Inums -> [Names -> Inums \cup {None}]] /\ lock' \in [Inums -> Procs \cup {NoProc}]
    BY <1>18, <2>1 DEF UnlinkEntry, TypeOK
  <2>. QED  BY <1>18, <1>0, <2>3, <2>4 DEF UnlinkEntry, TypeOK
<1>19. ASSUME UnlinkEnd(p) PROVE TypeOK'
  <2>1. k[p].jp \in Inums
    BY <1>19, <1>0 DEF UnlinkEnd, At, ShapeOf, Local
  <2>. QED  BY <1>19, <1>0, <2>1, InodeType DEF UnlinkEnd, TypeOK
<1>20. ASSUME UnlockDir(p) PROVE TypeOK'
  BY <1>20, <1>0 DEF UnlockDir, Fail, Leave, TypeOK
<1>21. ASSUME LinkCount(p) PROVE TypeOK'
  <2>1. k[p].ip \in Inums /\ Loaded(k[p].ip) \in [Inums -> Copy]
    BY <1>21, <1>l DEF LinkCount
  <2>2. StartOf(p, k[p].new) \in Inums
    BY <1>0, StartType DEF Local
  <2>3. [ic EXCEPT ![k[p].ip] = OneMore(k[p].ip)] \in [Inums -> Copy] /\ OneMore(k[p].ip) \in Copy
    BY <2>1, InodeType DEF TypeOK
  <2>4. /\ Cached([ic EXCEPT ![k[p].ip] = OneMore(k[p].ip)], StartOf(p, k[p].new)) \in [Inums -> Copy]
        /\ Got(StartOf(p, k[p].new)) \in [Inums -> Nat]
    BY <2>2, <2>3, CachedType, LoadedType
  <2>. QED  BY <1>21, <1>0, <2>1, <2>3, <2>4 DEF LinkCount, TypeOK
<1>22. ASSUME LinkTaken(p) PROVE TypeOK'
  <2>1. k[p].ip \in Inums /\ Loaded(k[p].ip) \in [Inums -> Copy] /\ k[p].rest # <<>>
    BY <1>22, <1>0, <1>l, LocksAt DEF CreateFound, LinkTaken, ShapeOf
  <2>2. Entry(k[p].ip, k[p].rest[1]) \in Inums
    BY <1>22, <2>1, RestType, EntryType DEF CreateFound, LinkTaken
  <2>3. Got(Entry(k[p].ip, k[p].rest[1])) \in [Inums -> Nat]
        /\ Cached(Loaded(k[p].ip), Entry(k[p].ip, k[p].rest[1])) \in [Inums -> Copy]
    BY <2>1, <2>2, CachedType, LoadedType
  <2>. QED  BY <1>22, <1>0, <2>1, <2>3 DEF CreateFound, LinkTaken, TypeOK
<1>23. ASSUME LinkEntry(p) PROVE TypeOK'
  <2>1. k[p].ip \in Inums /\ Loaded(k[p].ip) \in [Inums -> Copy] /\ k[p].jp \in Inums \cup {None}
    BY <1>23, <1>0, <1>l DEF LinkEntry, Local
  <2>2. ents' \in [Inums -> [Names -> Inums \cup {None}]]
    BY <1>23, <2>1 DEF LinkEntry, TypeOK
  <2>. QED  BY <1>23, <1>0, <2>1, <2>2 DEF LinkEntry, TypeOK
<1>24. ASSUME LinkEnd(p) PROVE TypeOK'
  BY <1>24, <1>0 DEF LinkEnd, Leave, TypeOK
<1>25. ASSUME LinkUndo(p) PROVE TypeOK'
  <2>1. k[p].jp \in Inums
    BY <1>25, <1>l DEF LinkUndo
  <2>. QED  BY <1>25, <1>0, <2>1, InodeType DEF LinkUndo, TypeOK
<1>26. ASSUME NEW call \in CallNames \ {"none", "linkdir"}, NEW path \in NamePaths \cup ParentPaths,
            NEW new \in ParentPaths \cup {NoPath}, Call(p, call, path, new)
     PROVE  TypeOK'
  <2>1. StartOf(p, path) \in Inums
    BY StartType
  <2>2. Got(StartOf(p, path)) \in [Inums -> Nat] /\ Cached(ic, StartOf(p, path)) \in [Inums -> Copy]
    BY <2>1, CachedType, LoadedType DEF TypeOK
  <2>3. calls + 1 \in 0 .. MaxCalls
    BY <1>26, InodesAssumption DEF Call, TypeOK
  <2>. QED  BY <1>26, <1>0, <2>2, <2>3 DEF Call, TypeOK
<1>. QED  BY <1>1, <1>2, <1>3, <1>4, <1>5, <1>6, <1>7, <1>8, <1>9, <1>10, <1>11, <1>12, <1>13,
             <1>14, <1>15, <1>16, <1>17, <1>18, <1>19, <1>20, <1>21, <1>22, <1>23, <1>24, <1>25,
             <1>26, CallsIsCall DEF Step

-----------------------------------------------------------------------------
(* What a step changes *)

(* A step of p leaves the pointers of all others alone.                      *)
LEMMA Others ==
  ASSUME TypeOK, NEW p \in Procs, Calls(p) \/ Step(p), NEW q \in Procs \ {p}
  PROVE  k'[q] = k[q] /\ cwd'[q] = cwd[q] /\ fd'[q] = fd[q]
<1>. USE DEF onDisk, inCache, history
<1>0. k \in [Procs -> Local] /\ cwd \in [Procs -> Inums] /\ fd \in [Procs -> Inums \cup {None}]
  BY DEF TypeOK
<1>1. ASSUME PutCheck(p) PROVE k'[q] = k[q] /\ cwd'[q] = cwd[q] /\ fd'[q] = fd[q]
  BY <1>1, <1>0 DEF PutCheck
<1>2. ASSUME PutFree(p) PROVE k'[q] = k[q] /\ cwd'[q] = cwd[q] /\ fd'[q] = fd[q]
  BY <1>2, <1>0 DEF PutFree
<1>3. ASSUME PutDrop(p) PROVE k'[q] = k[q] /\ cwd'[q] = cwd[q] /\ fd'[q] = fd[q]
  BY <1>3, <1>0 DEF PutDrop
<1>4. ASSUME BadInode(p) PROVE k'[q] = k[q] /\ cwd'[q] = cwd[q] /\ fd'[q] = fd[q]
  BY <1>4, <1>0 DEF BadInode, Panic
<1>5. ASSUME Walk(p) PROVE k'[q] = k[q] /\ cwd'[q] = cwd[q] /\ fd'[q] = fd[q]
  BY <1>5, <1>0 DEF Walk, Fail, Leave
<1>6. ASSUME WalkNoParent(p) PROVE k'[q] = k[q] /\ cwd'[q] = cwd[q] /\ fd'[q] = fd[q]
  BY <1>6, <1>0 DEF WalkNoParent, Fail, Leave
<1>7. ASSUME Open(p) PROVE k'[q] = k[q] /\ cwd'[q] = cwd[q] /\ fd'[q] = fd[q]
  BY <1>7, <1>0 DEF Open, Opened, Leave
<1>8. ASSUME Close(p) PROVE k'[q] = k[q] /\ cwd'[q] = cwd[q] /\ fd'[q] = fd[q]
  BY <1>8, <1>0 DEF Close, Leave
<1>9. ASSUME Chdir(p) PROVE k'[q] = k[q] /\ cwd'[q] = cwd[q] /\ fd'[q] = fd[q]
  BY <1>9, <1>0 DEF Chdir, Leave
<1>10. ASSUME CreateFound(p) PROVE k'[q] = k[q] /\ cwd'[q] = cwd[q] /\ fd'[q] = fd[q]
  BY <1>10, <1>0 DEF CreateFound
<1>11. ASSUME CreateOld(p) PROVE k'[q] = k[q] /\ cwd'[q] = cwd[q] /\ fd'[q] = fd[q]
  BY <1>11, <1>0 DEF CreateOld, Opened, Leave
<1>12. ASSUME CreateAlloc(p) PROVE k'[q] = k[q] /\ cwd'[q] = cwd[q] /\ fd'[q] = fd[q]
  BY <1>12, <1>0 DEF CreateAlloc
<1>13. ASSUME NoInodes(p) PROVE k'[q] = k[q] /\ cwd'[q] = cwd[q] /\ fd'[q] = fd[q]
  BY <1>13, <1>0 DEF NoInodes, Panic
<1>14. ASSUME CreateInit(p) PROVE k'[q] = k[q] /\ cwd'[q] = cwd[q] /\ fd'[q] = fd[q]
  BY <1>14, <1>0 DEF CreateInit
<1>15. ASSUME CreateEnd(p) PROVE k'[q] = k[q] /\ cwd'[q] = cwd[q] /\ fd'[q] = fd[q]
  BY <1>15, <1>0 DEF CreateEnd, Opened, Leave
<1>16. ASSUME UnlinkLookup(p) PROVE k'[q] = k[q] /\ cwd'[q] = cwd[q] /\ fd'[q] = fd[q]
  BY <1>16, <1>0 DEF UnlinkLookup, Leave
<1>17. ASSUME UnlinkNot(p) PROVE k'[q] = k[q] /\ cwd'[q] = cwd[q] /\ fd'[q] = fd[q]
  BY <1>17, <1>0 DEF UnlinkNot
<1>18. ASSUME UnlinkEntry(p) PROVE k'[q] = k[q] /\ cwd'[q] = cwd[q] /\ fd'[q] = fd[q]
  BY <1>18, <1>0 DEF UnlinkEntry
<1>19. ASSUME UnlinkEnd(p) PROVE k'[q] = k[q] /\ cwd'[q] = cwd[q] /\ fd'[q] = fd[q]
  BY <1>19, <1>0 DEF UnlinkEnd, Leave
<1>20. ASSUME UnlockDir(p) PROVE k'[q] = k[q] /\ cwd'[q] = cwd[q] /\ fd'[q] = fd[q]
  BY <1>20, <1>0 DEF UnlockDir, Fail, Leave
<1>21. ASSUME LinkCount(p) PROVE k'[q] = k[q] /\ cwd'[q] = cwd[q] /\ fd'[q] = fd[q]
  BY <1>21, <1>0 DEF LinkCount, Leave
<1>22. ASSUME LinkTaken(p) PROVE k'[q] = k[q] /\ cwd'[q] = cwd[q] /\ fd'[q] = fd[q]
  BY <1>22, <1>0 DEF LinkTaken
<1>23. ASSUME LinkEntry(p) PROVE k'[q] = k[q] /\ cwd'[q] = cwd[q] /\ fd'[q] = fd[q]
  BY <1>23, <1>0 DEF LinkEntry
<1>24. ASSUME LinkEnd(p) PROVE k'[q] = k[q] /\ cwd'[q] = cwd[q] /\ fd'[q] = fd[q]
  BY <1>24, <1>0 DEF LinkEnd, Leave
<1>25. ASSUME LinkUndo(p) PROVE k'[q] = k[q] /\ cwd'[q] = cwd[q] /\ fd'[q] = fd[q]
  BY <1>25, <1>0 DEF LinkUndo, Leave
<1>26. ASSUME NEW call \in CallNames \ {"none", "linkdir"}, NEW path \in NamePaths \cup ParentPaths,
            NEW new \in ParentPaths \cup {NoPath}, Call(p, call, path, new)
     PROVE  k'[q] = k[q] /\ cwd'[q] = cwd[q] /\ fd'[q] = fd[q]
  BY <1>26, <1>0 DEF Call
<1>. QED  BY <1>1, <1>2, <1>3, <1>4, <1>5, <1>6, <1>7, <1>8, <1>9, <1>10, <1>11, <1>12, <1>13,
             <1>14, <1>15, <1>16, <1>17, <1>18, <1>19, <1>20, <1>21, <1>22, <1>23, <1>24, <1>25,
             <1>26, CallsIsCall DEF Step

(* A call refers to what its place says, from step to step.                  *)
LEMMA ShapeStep ==
  ASSUME TypeOK, Shape, NEW p \in Procs, Calls(p) \/ Step(p)
  PROVE  Shape'
<1>. USE Numbers DEF onDisk, inCache, history
<1>0. k \in [Procs -> Local] /\ ShapeOf(k[p]) /\ k[p] \in Local
  BY DEF TypeOK, Shape
<1>s. SUFFICES ShapeOf(k'[p])
  BY Others DEF Shape
<1>u. \A i : ShapeOf([AtUser EXCEPT !.put = i])
  BY DEF ShapeOf, AtUser
<1>f. \A i : k' = Leave(p, i) => ShapeOf(k'[p])
  BY <1>0, <1>u DEF Leave
<1>g. \A i : k' = Fail(p, i) /\ i # None /\ k[p].pc \in {"walk", "unlock"} /\ k[p].stage = "check" => ShapeOf(k'[p])
  BY <1>0, <1>f DEF Fail, ShapeOf, Local
<1>1. ASSUME PutCheck(p) PROVE ShapeOf(k'[p])
  <2>1. k' = [k EXCEPT ![p].stage = "free"] \/ k' = [k EXCEPT ![p].stage = "drop"]
    BY <1>1 DEF PutCheck
  <2>2. k[p].put # None
    BY <1>1 DEF PutCheck
  <2>. QED  BY <1>0, <2>1, <2>2 DEF ShapeOf, Local
<1>2. ASSUME PutFree(p) PROVE ShapeOf(k'[p])
  BY <1>2, <1>0 DEF PutFree, ShapeOf, Local
<1>3. ASSUME PutDrop(p) PROVE ShapeOf(k'[p])
  BY <1>3, <1>0 DEF PutDrop, ShapeOf, Local
<1>4. ASSUME BadInode(p) PROVE ShapeOf(k'[p])
  BY <1>4, <1>0 DEF BadInode, Panic, ShapeOf, Local
<1>5. ASSUME Walk(p) PROVE ShapeOf(k'[p])
  <2>1. /\ k[p].ip \in Inums /\ k[p].ip # None /\ k[p].pc = "walk" /\ k[p].put = None /\ k[p].stage = "check"
        /\ k[p].rest # <<>>
    BY <1>5, LocksAt DEF Walk
  <2>2. CASE k' = Fail(p, k[p].ip)
    BY <2>1, <2>2, <1>g
  <2>3. CASE k' = [k EXCEPT ![p].pc = k[p].call] /\ OfParent(k[p].call)
    BY <1>0, <2>1, <2>3 DEF Local, OfParent, ShapeOf
  <2>4. CASE /\ Entry(k[p].ip, Head(k[p].rest)) # None
             /\ ~(OfParent(k[p].call) /\ Len(k[p].rest) = 1)
             /\ k' = [k EXCEPT ![p].ip = Entry(k[p].ip, Head(k[p].rest)), ![p].put = k[p].ip,
                               ![p].rest = Tail(@), ![p].pc = NextPc(k[p].call, Tail(k[p].rest))]
    <3>. DEFINE next == Entry(k[p].ip, Head(k[p].rest))
                rest == Tail(k[p].rest)
                pc == NextPc(k[p].call, rest)
    <3>1. next # None /\ k' = [k EXCEPT ![p].ip = next, ![p].put = k[p].ip, ![p].rest = rest, ![p].pc = pc]
      BY <2>4
    <3>2. /\ pc = "walk" \/ (pc = k[p].call /\ pc \in {"open", "chdir", "link"})
          /\ pc = "walk" /\ rest = <<>> => OfParent(k[p].call)
      BY <1>0, <2>1 DEF NextPc, OfParent, ShapeOf, Local, CallNames
    <3>. HIDE DEF next, rest, pc
    <3>. QED  BY <1>0, <2>1, <3>1, <3>2 DEF ShapeOf, Local
  <2>. QED
    <3>1. \/ k' = Fail(p, k[p].ip)
          \/ k' = [k EXCEPT ![p].pc = k[p].call] /\ OfParent(k[p].call)
          \/ /\ Entry(k[p].ip, Head(k[p].rest)) # None
             /\ ~(OfParent(k[p].call) /\ Len(k[p].rest) = 1)
             /\ k' = [k EXCEPT ![p].ip = Entry(k[p].ip, Head(k[p].rest)), ![p].put = k[p].ip,
                               ![p].rest = Tail(@), ![p].pc = NextPc(k[p].call, Tail(k[p].rest))]
      BY <1>5, Zenon DEF Walk
    <3>. QED  BY <3>1, <2>2, <2>3, <2>4
<1>6. ASSUME WalkNoParent(p) PROVE ShapeOf(k'[p])
  BY <1>6, <1>0, <1>g DEF WalkNoParent, At, ShapeOf
<1>7. ASSUME Open(p) PROVE ShapeOf(k'[p])
  BY <1>7, <1>f DEF Open, CreateOld, Opened
<1>8. ASSUME Close(p) PROVE ShapeOf(k'[p])
  <2>1. k' = Leave(p, fd[p])
    BY <1>8 DEF Close
  <2>. QED  BY <2>1, <1>f
<1>9. ASSUME Chdir(p) PROVE ShapeOf(k'[p])
  BY <1>9, <1>f DEF CreateEnd, Chdir, Opened, UnlinkEnd, LinkEnd, LinkUndo
<1>10. ASSUME CreateFound(p) PROVE ShapeOf(k'[p])
  <2>1. k[p].pc \in {"create", "mkdir"} /\ k[p].ip # None /\ k[p].put = None /\ k[p].stage = "check"
    BY <1>10, LocksAt DEF CreateFound
  <2>. QED  BY <1>10, <1>0, <2>1 DEF CreateFound, ShapeOf, Local
<1>11. ASSUME CreateOld(p) PROVE ShapeOf(k'[p])
  BY <1>11, <1>f DEF Open, CreateOld, Opened
<1>12. ASSUME CreateAlloc(p) PROVE ShapeOf(k'[p])
  <2>. DEFINE i == CHOOSE j \in Free : \A h \in Free : j <= h
  <2>1. k[p].pc \in {"create", "mkdir"} /\ k[p].ip # None /\ k[p].put = None /\ k[p].stage = "check"
    BY <1>12, LocksAt DEF CreateAlloc
  <2>2. i # None
    BY <1>12, LeastFree DEF CreateAlloc, Free
  <2>3. k' = [k EXCEPT ![p].pc = "init", ![p].jp = i]
    BY <1>12 DEF CreateAlloc
  <2>. HIDE DEF i
  <2>. QED  BY <1>0, <2>1, <2>2, <2>3 DEF ShapeOf, Local
<1>13. ASSUME NoInodes(p) PROVE ShapeOf(k'[p])
  BY <1>13, <1>0 DEF NoInodes, Panic, ShapeOf, Local
<1>14. ASSUME CreateInit(p) PROVE ShapeOf(k'[p])
  <2>1. k[p].pc = "init" /\ k[p].jp # None /\ k[p].ip # None /\ k[p].put = None /\ k[p].stage = "check"
    BY <1>14, <1>0, LocksAt DEF CreateInit, ShapeOf
  <2>. QED  BY <1>14, <1>0, <2>1 DEF CreateInit, ShapeOf, Local
<1>15. ASSUME CreateEnd(p) PROVE ShapeOf(k'[p])
  BY <1>15, <1>f DEF CreateEnd, Chdir, Opened, UnlinkEnd, LinkEnd, LinkUndo
<1>16. ASSUME UnlinkLookup(p) PROVE ShapeOf(k'[p])
  <2>1. k[p].pc = "unlink" /\ k[p].ip # None /\ k[p].put = None /\ k[p].stage = "check"
    BY <1>16, LocksAt DEF UnlinkLookup
  <2>2. \/ k' = Leave(p, k[p].ip)
        \/ /\ Entry(k[p].ip, k[p].rest[1]) # None
           /\ k' = [k EXCEPT ![p].pc = "unlink_ip", ![p].jp = Entry(k[p].ip, k[p].rest[1])]
    BY <1>16, Zenon DEF UnlinkLookup
  <2>. QED  BY <1>0, <1>f, <2>1, <2>2 DEF ShapeOf, Local
<1>17. ASSUME UnlinkNot(p) PROVE ShapeOf(k'[p])
  <2>1. k[p].pc = "unlink_ip" /\ k[p].jp # None /\ k[p].put = None /\ k[p].stage = "check"
    BY <1>17, LocksAt DEF UnlinkNot, UnlinkEntry
  <2>. QED  BY <1>17, <1>0, <2>1 DEF UnlinkNot, UnlinkEntry, ShapeOf, Local
<1>18. ASSUME UnlinkEntry(p) PROVE ShapeOf(k'[p])
  <2>1. k[p].pc = "unlink_ip" /\ k[p].jp # None /\ k[p].put = None /\ k[p].stage = "check"
    BY <1>18, LocksAt DEF UnlinkNot, UnlinkEntry
  <2>. QED  BY <1>18, <1>0, <2>1 DEF UnlinkNot, UnlinkEntry, ShapeOf, Local
<1>19. ASSUME UnlinkEnd(p) PROVE ShapeOf(k'[p])
  BY <1>19, <1>f DEF CreateEnd, Chdir, Opened, UnlinkEnd, LinkEnd, LinkUndo
<1>20. ASSUME UnlockDir(p) PROVE ShapeOf(k'[p])
  BY <1>20, <1>0, <1>g DEF UnlockDir, At, ShapeOf
<1>21. ASSUME LinkCount(p) PROVE ShapeOf(k'[p])
  <2>1. k[p].pc = "link" /\ k[p].ip # None /\ k[p].put = None /\ k[p].ip \in Inums
    BY <1>21, LocksAt DEF LinkCount
  <2>2. StartOf(p, k[p].new) \in Inums
    BY <1>0, StartType DEF Local
  <2>3. \/ k' = Leave(p, k[p].ip)
        \/ k' = [k EXCEPT ![p] = [AtUser EXCEPT !.pc = "walk", !.call = "linkdir",
                                   !.rest = k[p].new.names, !.ip = StartOf(p, k[p].new), !.jp = k[p].ip]]
    BY <1>21 DEF LinkCount
  <2>4. ASSUME NEW i \in Inums, NEW j \in Inums, NEW names
        PROVE  ShapeOf([AtUser EXCEPT !.pc = "walk", !.call = "linkdir", !.rest = names, !.ip = i, !.jp = j])
    BY DEF ShapeOf, AtUser, OfParent
  <2>5. CASE k' = Leave(p, k[p].ip)
    BY <1>f, <2>5
  <2>6. CASE k' = [k EXCEPT ![p] = [AtUser EXCEPT !.pc = "walk", !.call = "linkdir",
                                   !.rest = k[p].new.names, !.ip = StartOf(p, k[p].new), !.jp = k[p].ip]]
    BY <1>0, <2>1, <2>2, <2>4, <2>6
  <2>. QED  BY <2>3, <2>5, <2>6
<1>22. ASSUME LinkTaken(p) PROVE ShapeOf(k'[p])
  <2>1. k[p].pc = "linkdir" /\ k[p].ip # None /\ k[p].put = None /\ k[p].stage = "check"
    BY <1>22, LocksAt DEF LinkTaken
  <2>. QED  BY <1>22, <1>0, <2>1 DEF LinkTaken, ShapeOf, Local
<1>23. ASSUME LinkEntry(p) PROVE ShapeOf(k'[p])
  <2>1. k[p].pc = "linkdir" /\ k[p].ip # None /\ k[p].put = None /\ k[p].stage = "check"
    BY <1>23, LocksAt DEF LinkEntry
  <2>. QED  BY <1>23, <1>0, <2>1 DEF LinkEntry, ShapeOf, Local
<1>24. ASSUME LinkEnd(p) PROVE ShapeOf(k'[p])
  BY <1>24, <1>f DEF CreateEnd, Chdir, Opened, UnlinkEnd, LinkEnd, LinkUndo
<1>25. ASSUME LinkUndo(p) PROVE ShapeOf(k'[p])
  BY <1>25, <1>f DEF CreateEnd, Chdir, Opened, UnlinkEnd, LinkEnd, LinkUndo
<1>26. ASSUME NEW call \in CallNames \ {"none", "linkdir"}, NEW path \in NamePaths \cup ParentPaths,
            NEW new \in ParentPaths \cup {NoPath}, Call(p, call, path, new)
     PROVE  ShapeOf(k'[p])
  <2>1. StartOf(p, path) \in Inums
    BY StartType
  <2>2. /\ NextPc(call, path.names) = "walk" \/ (NextPc(call, path.names) = call /\ call \in {"open", "chdir", "link"})
        /\ NextPc(call, path.names) = "walk" /\ path.names = <<>> => OfParent(call)
    BY DEF NextPc, OfParent, CallNames
  <2>. QED  BY <1>26, <1>0, <2>1, <2>2 DEF Call, ShapeOf, AtUser
<1>. QED  BY <1>1, <1>2, <1>3, <1>4, <1>5, <1>6, <1>7, <1>8, <1>9, <1>10, <1>11, <1>12, <1>13,
             <1>14, <1>15, <1>16, <1>17, <1>18, <1>19, <1>20, <1>21, <1>22, <1>23, <1>24, <1>25,
             <1>26, CallsIsCall DEF Step

(* How many of the pointers with these values are to i.                      *)
Count(c, f, l, i) ==
  (IF c = i THEN 1 ELSE 0) + (IF f = i THEN 1 ELSE 0) + (IF l.ip = i THEN 1 ELSE 0)
    + (IF l.jp = i THEN 1 ELSE 0) + (IF l.put = i THEN 1 ELSE 0)

(* How many pointers of a process lead to an inode, as a sum.                *)
LEMMA NamedCount ==
  ASSUME NEW p \in Procs, NEW c, NEW f, NEW l, NEW i
  PROVE  /\ IsFiniteSet({<<p, n>> : n \in Named(c, f, l, i)})
         /\ Cardinality({<<p, n>> : n \in Named(c, f, l, i)}) = Count(c, f, l, i) /\ Count(c, f, l, i) \in Nat
<1>. DEFINE One(n, b) == IF b THEN {<<p, n>>} ELSE {}
            A == One("cwd", c = i)
            B == A \cup One("fd", f = i)
            C == B \cup One("ip", l.ip = i)
            D == C \cup One("jp", l.jp = i)
            E == D \cup One("put", l.put = i)
<1>1. ASSUME NEW T, IsFiniteSet(T), NEW n, <<p, n>> \notin T, NEW b \in BOOLEAN
      PROVE  /\ IsFiniteSet(T \cup One(n, b))
             /\ Cardinality(T \cup One(n, b)) = Cardinality(T) + IF b THEN 1 ELSE 0
  <2>1. CASE b
    BY <1>1, <2>1, FS_AddElement
  <2>2. CASE ~b
    BY <1>1, <2>2, FS_CardinalityType
  <2>. QED  BY <2>1, <2>2
<1>2. IsFiniteSet(A) /\ Cardinality(A) = IF c = i THEN 1 ELSE 0
  BY FS_Singleton, FS_EmptySet
<1>3. IsFiniteSet(B) /\ Cardinality(B) = Cardinality(A) + IF f = i THEN 1 ELSE 0
  <2>1. <<p, "fd">> \notin A
    OBVIOUS
  <2>. HIDE DEF A, One
  <2>. QED  BY <1>1, <1>2, <2>1
<1>4. IsFiniteSet(C) /\ Cardinality(C) = Cardinality(B) + IF l.ip = i THEN 1 ELSE 0
  <2>1. <<p, "ip">> \notin B
    OBVIOUS
  <2>. HIDE DEF B, One
  <2>. QED  BY <1>1, <1>3, <2>1
<1>5. IsFiniteSet(D) /\ Cardinality(D) = Cardinality(C) + IF l.jp = i THEN 1 ELSE 0
  <2>1. <<p, "jp">> \notin C
    OBVIOUS
  <2>. HIDE DEF C, One
  <2>. QED  BY <1>1, <1>4, <2>1
<1>6. IsFiniteSet(E) /\ Cardinality(E) = Cardinality(D) + IF l.put = i THEN 1 ELSE 0
  <2>1. <<p, "put">> \notin D
    OBVIOUS
  <2>. HIDE DEF D, One
  <2>. QED  BY <1>1, <1>5, <2>1
<1>7. {<<p, n>> : n \in Named(c, f, l, i)} = E
  BY DEF Named, Fields
<1>8. Cardinality(E) = Count(c, f, l, i)
  <2>. HIDE DEF A, B, C, D, E
  <2>. QED  BY <1>2, <1>3, <1>4, <1>5, <1>6 DEF Count
<1>9. Count(c, f, l, i) \in Nat
  BY DEF Count
<1>. HIDE DEF E
<1>. QED  BY <1>6, <1>7, <1>8, <1>9

(* Sizes of disjoint finite sets add up.                                     *)
LEMMA DisjointUnion ==
  ASSUME NEW S, NEW T, IsFiniteSet(S), IsFiniteSet(T), S \cap T = {}
  PROVE  IsFiniteSet(S \cup T) /\ Cardinality(S \cup T) = Cardinality(S) + Cardinality(T)
<1>1. Cardinality(S \cap T) = 0
  BY FS_EmptySet
<1>2. Cardinality(S \cup T) = Cardinality(S) + Cardinality(T) - Cardinality(S \cap T)
  BY FS_Union
<1>. QED  BY <1>1, <1>2, FS_Union, FS_CardinalityType

(* The pointers of p and those of all others.                                *)
LEMMA PairsSplit ==
  ASSUME NEW p \in Procs, NEW cs, NEW fs, NEW ls, NEW i
  PROVE  /\ Cardinality(Pairs(Procs \ {p}, cs, fs, ls, i)) \in Nat /\ Count(cs[p], fs[p], ls[p], i) \in Nat
         /\ Cardinality(Pairs(Procs, cs, fs, ls, i))
              = Cardinality(Pairs(Procs \ {p}, cs, fs, ls, i)) + Count(cs[p], fs[p], ls[p], i)
<1>. DEFINE rest == Pairs(Procs \ {p}, cs, fs, ls, i)
            mine == {<<p, n>> : n \in Named(cs[p], fs[p], ls[p], i)}
<1>1. Pairs(Procs, cs, fs, ls, i) = rest \cup mine /\ rest \cap mine = {}
  BY DEF Pairs
<1>2. IsFiniteSet(rest) /\ Cardinality(rest) \in Nat
  BY PairsFinite
<1>3. IsFiniteSet(mine) /\ Cardinality(mine) = Count(cs[p], fs[p], ls[p], i)
      /\ Count(cs[p], fs[p], ls[p], i) \in Nat
  BY NamedCount
<1>. HIDE DEF rest, mine
<1>4. Cardinality(rest \cup mine) = Cardinality(rest) + Cardinality(mine)
  BY <1>1, <1>2, <1>3, DisjointUnion
<1>. QED  BY <1>1, <1>2, <1>3, <1>4 DEF rest

(* If only p's pointers change, and ref with them, references stay counted.  *)
LEMMA RefChange ==
  ASSUME TypeOK, TypeOK', RefsCounted, NEW p \in Procs,
         \A q \in Procs \ {p} : k'[q] = k[q] /\ cwd'[q] = cwd[q] /\ fd'[q] = fd[q],
         \A i \in Inums : ref'[i] + Count(cwd[p], fd[p], k[p], i) = ref[i] + Count(cwd'[p], fd'[p], k'[p], i)
  PROVE  RefsCounted'
<1>. SUFFICES ASSUME NEW i \in Inums PROVE ref'[i] = Cardinality(Pairs(Procs, cwd', fd', k', i))
  BY RefsArePairs
<1>1. Pairs(Procs \ {p}, cwd', fd', k', i) = Pairs(Procs \ {p}, cwd, fd, k, i)
  BY DEF Pairs
<1>2. /\ Cardinality(Pairs(Procs \ {p}, cwd, fd, k, i)) \in Nat /\ Count(cwd[p], fd[p], k[p], i) \in Nat
      /\ Cardinality(Pairs(Procs, cwd, fd, k, i))
           = Cardinality(Pairs(Procs \ {p}, cwd, fd, k, i)) + Count(cwd[p], fd[p], k[p], i)
  BY PairsSplit
<1>3. /\ Count(cwd'[p], fd'[p], k'[p], i) \in Nat
      /\ Cardinality(Pairs(Procs, cwd', fd', k', i))
           = Cardinality(Pairs(Procs \ {p}, cwd', fd', k', i)) + Count(cwd'[p], fd'[p], k'[p], i)
  BY PairsSplit
<1>4. ref[i] = Cardinality(Pairs(Procs, cwd, fd, k, i)) /\ ref[i] \in Nat /\ ref'[i] \in Nat
  BY RefsArePairs DEF TypeOK
<1>. QED  BY <1>1, <1>2, <1>3, <1>4

(* Every step keeps `ref' the number of pointers.                            *)
LEMMA RefsStep ==
  ASSUME TypeOK, Shape, RefsCounted, NEW p \in Procs, Calls(p) \/ Step(p)
  PROVE  RefsCounted'
<1>. USE Numbers DEF onDisk, inCache, history
<1>0. /\ k \in [Procs -> Local] /\ ShapeOf(k[p]) /\ k[p] \in Local /\ ref \in [Inums -> Nat]
      /\ cwd \in [Procs -> Inums] /\ fd \in [Procs -> Inums \cup {None}]
  BY DEF TypeOK, Shape
<1>. DEFINE Balance == \A i \in Inums : ref'[i] + Count(cwd[p], fd[p], k[p], i)
                                          = ref[i] + Count(cwd'[p], fd'[p], k'[p], i)
<1>s. SUFFICES Balance
  BY TypeStep, Others, RefChange
(* A new reference to j.                                                     *)
<1>g. ASSUME NEW j \in Inums, ref' = Got(j), UNCHANGED <<cwd, fd>>,
             \/ k[p].put = None /\ k'[p].ip = j /\ k'[p].jp = k[p].jp /\ k'[p].put = k[p].ip
             \/ k[p].put = None /\ k'[p].ip = k[p].ip /\ k'[p].jp = k[p].jp /\ k'[p].put = j
             \/ k[p].jp = None /\ k'[p].ip = k[p].ip /\ k'[p].jp = j /\ k'[p].put = k[p].put
             \/ k[p].ip = None /\ k'[p].ip = j /\ k'[p].jp = k[p].jp /\ k'[p].put = k[p].put
      PROVE  Balance
  <2>1. ASSUME NEW i \in Inums
        PROVE  Count(cwd[p], fd[p], k'[p], i) = Count(cwd[p], fd[p], k[p], i) + (IF i = j THEN 1 ELSE 0)
    BY <1>g DEF Count
  <2>2. ASSUME NEW i \in Inums PROVE ref'[i] = ref[i] + (IF i = j THEN 1 ELSE 0)
    <3>1. ref' = [ref EXCEPT ![j] = ref[j] + 1] /\ ref \in [Inums -> Nat]
      BY <1>0, <1>g DEF Got
    <3>. QED  BY <3>1
  <2>3. ASSUME NEW i \in Inums PROVE Count(cwd[p], fd[p], k[p], i) \in Nat
    BY DEF Count
  <2>4. ASSUME NEW i \in Inums
        PROVE  ref'[i] + Count(cwd[p], fd[p], k[p], i) = ref[i] + Count(cwd'[p], fd'[p], k'[p], i)
    BY <1>0, <1>g, <2>1, <2>2, <2>3
  <2>. QED  BY <2>4
<1>v. ASSUME NEW i, k' = Leave(p, i), UNCHANGED <<ref, cwd, fd>>, k[p].put = None,
             \/ i = k[p].ip /\ k[p].jp = None
             \/ i = k[p].jp /\ k[p].ip = None
      PROVE  Balance
  <2>1. k'[p].ip = None /\ k'[p].jp = None /\ k'[p].put = i
    BY <1>0, <1>v DEF Leave, AtUser
  <2>. QED  BY <1>0, <1>v, <2>1 DEF Count
<1>f. ASSUME k' = Fail(p, k[p].ip), UNCHANGED <<ref, cwd, fd>>, k[p].put = None, k[p].pc \in {"walk", "unlock"}
      PROVE  Balance
  <2>1. CASE k[p].call = "linkdir"
    BY <1>0, <1>f, <2>1 DEF Fail, Count, Local
  <2>2. CASE k[p].call # "linkdir"
    BY <1>0, <1>v, <1>f, <2>2 DEF Fail, ShapeOf
  <2>. QED  BY <2>1, <2>2
<1>o. ASSUME NEW i, Opened(p, i), UNCHANGED <<ref, cwd>>, k[p].put = None,
             \/ i = k[p].ip /\ k[p].jp = None
             \/ i = k[p].jp /\ k[p].ip = None
      PROVE  Balance
  <2>1. CASE fd' = [fd EXCEPT ![p] = i] /\ k' = Leave(p, None) /\ fd[p] = None
    <3>1. k'[p].ip = None /\ k'[p].jp = None /\ k'[p].put = None /\ fd'[p] = i
      BY <1>0, <2>1 DEF Leave, AtUser
    <3>2. ASSUME NEW h \in Inums PROVE Count(cwd[p], fd'[p], k'[p], h) = Count(cwd[p], fd[p], k[p], h)
      BY <1>o, <2>1, <3>1 DEF Count
    <3>3. ref' = ref /\ cwd' = cwd
      BY <1>o
    <3>. QED  BY <3>2, <3>3
  <2>2. CASE k' = Leave(p, i) /\ UNCHANGED fd
    BY <1>o, <1>v, <2>2
  <2>. QED  BY <1>o, <2>1, <2>2 DEF Opened
<1>1. ASSUME PutCheck(p) PROVE Balance
  <2>1. k' = [k EXCEPT ![p].stage = "free"] \/ k' = [k EXCEPT ![p].stage = "drop"]
    BY <1>1 DEF PutCheck
  <2>2. UNCHANGED <<ref, cwd, fd>>
    BY <1>1 DEF PutCheck
  <2>3. k'[p].ip = k[p].ip /\ k'[p].jp = k[p].jp /\ k'[p].put = k[p].put
    BY <1>0, <2>1 DEF Local
  <2>. QED  BY <1>0, <2>2, <2>3 DEF Count
<1>2. ASSUME PutFree(p) PROVE Balance
  BY <1>2, <1>0 DEF PutFree, Count, Local
<1>3. ASSUME PutDrop(p) PROVE Balance
  <2>1. k[p].put \in Inums /\ ref[k[p].put] > 0
    BY <1>3, PutCounted DEF PutDrop
  <2>2. k'[p].ip = k[p].ip /\ k'[p].jp = k[p].jp /\ k'[p].put = None
    BY <1>3, <1>0 DEF PutDrop, Local
  <2>3. ref' = [ref EXCEPT ![k[p].put] = ref[k[p].put] - 1] /\ UNCHANGED <<cwd, fd>>
    BY <1>3 DEF PutDrop
  <2>. QED  BY <1>0, <2>1, <2>2, <2>3 DEF Count
<1>4. ASSUME BadInode(p) PROVE Balance
  BY <1>4, <1>0 DEF BadInode, Panic, Count, Local
<1>5. ASSUME Walk(p) PROVE Balance
  <2>1. /\ k[p].ip \in Inums /\ k[p].ip # None /\ k[p].pc = "walk" /\ k[p].put = None
        /\ k[p].rest # <<>>
    BY <1>5, LocksAt DEF Walk
  <2>2. CASE k' = Fail(p, k[p].ip) /\ UNCHANGED ref
    BY <1>5, <2>1, <2>2, <1>f DEF Walk
  <2>3. CASE k' = [k EXCEPT ![p].pc = k[p].call] /\ UNCHANGED ref
    BY <1>5, <1>0, <2>1, <2>3 DEF Walk, Local, Count
  <2>4. CASE /\ Entry(k[p].ip, Head(k[p].rest)) # None /\ ref' = Got(Entry(k[p].ip, Head(k[p].rest)))
             /\ k' = [k EXCEPT ![p].ip = Entry(k[p].ip, Head(k[p].rest)), ![p].put = k[p].ip,
                               ![p].rest = Tail(@), ![p].pc = NextPc(k[p].call, Tail(k[p].rest))]
    <3>. DEFINE next == Entry(k[p].ip, Head(k[p].rest))
                rest == Tail(k[p].rest)
                pc == NextPc(k[p].call, rest)
    <3>1. next # None /\ k' = [k EXCEPT ![p].ip = next, ![p].put = k[p].ip, ![p].rest = rest, ![p].pc = pc]
          /\ ref' = Got(next) /\ UNCHANGED <<cwd, fd>>
      BY <1>5, <2>4 DEF Walk
    <3>2. next \in Inums
      BY <2>1, <3>1, RestType, EntryType
    <3>. HIDE DEF next, rest, pc
    <3>3. k'[p].ip = next /\ k'[p].jp = k[p].jp /\ k'[p].put = k[p].ip
      BY <1>0, <3>1 DEF Local
    <3>. QED  BY <1>g, <2>1, <3>1, <3>2, <3>3
  <2>. QED
    <3>1. \/ k' = Fail(p, k[p].ip) /\ UNCHANGED ref
          \/ k' = [k EXCEPT ![p].pc = k[p].call] /\ UNCHANGED ref
          \/ /\ Entry(k[p].ip, Head(k[p].rest)) # None /\ ref' = Got(Entry(k[p].ip, Head(k[p].rest)))
             /\ k' = [k EXCEPT ![p].ip = Entry(k[p].ip, Head(k[p].rest)), ![p].put = k[p].ip,
                               ![p].rest = Tail(@), ![p].pc = NextPc(k[p].call, Tail(k[p].rest))]
      BY <1>5, Zenon DEF Walk
    <3>. QED  BY <3>1, <2>2, <2>3, <2>4
<1>6. ASSUME WalkNoParent(p) PROVE Balance
  BY <1>6, <1>f DEF WalkNoParent, At
<1>7. ASSUME Open(p) PROVE Balance
  <2>1. k[p].put = None /\ k[p].jp = None /\ UNCHANGED <<ref, cwd>>
    BY <1>7, <1>0, LocksAt DEF Open, ShapeOf
  <2>. QED  BY <1>7, <1>v, <1>o, <2>1 DEF Open
<1>8. ASSUME Close(p) PROVE Balance
  <2>1. /\ k[p] = AtUser /\ fd[p] # None /\ fd' = [fd EXCEPT ![p] = None] /\ k' = Leave(p, fd[p])
        /\ UNCHANGED <<ref, cwd>>
    BY <1>8 DEF Close
  <2>. QED  BY <1>0, <2>1 DEF Leave, AtUser, Count
<1>9. ASSUME Chdir(p) PROVE Balance
  <2>1. k[p].put = None /\ k[p].jp = None /\ UNCHANGED <<ref, fd>> /\ k[p].ip \in Inums
    BY <1>9, <1>0, LocksAt DEF Chdir, ShapeOf
  <2>2. CASE k' = Leave(p, cwd[p]) /\ cwd' = [cwd EXCEPT ![p] = k[p].ip]
    BY <1>0, <2>1, <2>2 DEF Leave, AtUser, Count
  <2>3. CASE k' = Leave(p, k[p].ip) /\ UNCHANGED cwd
    BY <1>v, <2>1, <2>3
  <2>. QED  BY <1>9, <2>2, <2>3 DEF Chdir
<1>10. ASSUME CreateFound(p) PROVE Balance
  <2>1. k[p].pc \in {"create", "mkdir", "linkdir"} /\ k[p].ip \in Inums /\ k[p].put = None /\ k[p].rest # <<>>
    BY <1>10, <1>0, LocksAt DEF CreateFound, LinkTaken, ShapeOf
  <2>. DEFINE found == Entry(k[p].ip, k[p].rest[1])
  <2>2. found \in Inums
    BY <1>10, <2>1, RestType, EntryType DEF CreateFound, LinkTaken
  <2>3. /\ ref' = Got(found) /\ UNCHANGED <<cwd, fd>>
        /\ \/ k' = [k EXCEPT ![p].pc = "old", ![p].ip = found, ![p].put = k[p].ip]
           \/ k' = [k EXCEPT ![p].pc = "unlock", ![p].put = found]
    BY <1>10 DEF CreateFound, LinkTaken
  <2>. HIDE DEF found
  <2>4. CASE k' = [k EXCEPT ![p].pc = "old", ![p].ip = found, ![p].put = k[p].ip]
    <3>1. k'[p].ip = found /\ k'[p].jp = k[p].jp /\ k'[p].put = k[p].ip
      BY <1>0, <2>4 DEF Local
    <3>2. ref' = Got(found) /\ UNCHANGED <<cwd, fd>>
      BY <2>3
    <3>. QED  BY <1>g, <2>1, <2>2, <3>1, <3>2
  <2>5. CASE k' = [k EXCEPT ![p].pc = "unlock", ![p].put = found]
    <3>1. k'[p].ip = k[p].ip /\ k'[p].jp = k[p].jp /\ k'[p].put = found
      BY <1>0, <2>5 DEF Local
    <3>. QED  BY <1>g, <2>1, <2>2, <2>3, <3>1
  <2>. QED  BY <2>3, <2>4, <2>5
<1>11. ASSUME CreateOld(p) PROVE Balance
  <2>1. k[p].put = None /\ k[p].jp = None /\ UNCHANGED <<ref, cwd>>
    BY <1>11, <1>0, LocksAt DEF CreateOld, ShapeOf
  <2>. QED  BY <1>11, <1>v, <1>o, <2>1 DEF CreateOld
<1>12. ASSUME CreateAlloc(p) PROVE Balance
  <2>. DEFINE i == CHOOSE j \in Free : \A h \in Free : j <= h
  <2>1. k[p].put = None /\ k[p].jp = None
    BY <1>12, <1>0, LocksAt DEF CreateAlloc, ShapeOf
  <2>2. i \in Inums
    BY <1>12, LeastFree DEF CreateAlloc, Free
  <2>3. k' = [k EXCEPT ![p].pc = "init", ![p].jp = i] /\ ref' = Got(i) /\ UNCHANGED <<cwd, fd>>
    BY <1>12 DEF CreateAlloc
  <2>. HIDE DEF i
  <2>4. k'[p].ip = k[p].ip /\ k'[p].jp = i /\ k'[p].put = k[p].put
    BY <1>0, <2>3 DEF Local
  <2>. QED  BY <1>g, <2>1, <2>2, <2>3, <2>4
<1>13. ASSUME NoInodes(p) PROVE Balance
  BY <1>13, <1>0 DEF NoInodes, Panic, Count, Local
<1>14. ASSUME CreateInit(p) PROVE Balance
  <2>1. k[p].put = None /\ k[p].ip \in Inums
    BY <1>14, <1>0, LocksAt DEF CreateInit, ShapeOf, Local
  <2>2. k' = [k EXCEPT ![p].pc = "made", ![p].ip = None, ![p].put = k[p].ip] /\ UNCHANGED <<ref, cwd, fd>>
    BY <1>14 DEF CreateInit
  <2>. QED  BY <1>0, <2>1, <2>2 DEF Local, Count
<1>15. ASSUME CreateEnd(p) PROVE Balance
  <2>1. k[p].put = None /\ k[p].ip = None /\ UNCHANGED <<ref, cwd>>
    BY <1>15, <1>0 DEF CreateEnd, At, ShapeOf
  <2>. QED  BY <1>15, <1>v, <1>o, <2>1 DEF CreateEnd
<1>16. ASSUME UnlinkLookup(p) PROVE Balance
  <2>1. k[p].pc = "unlink" /\ k[p].put = None /\ k[p].jp = None /\ k[p].ip \in Inums /\ k[p].rest # <<>>
    BY <1>16, <1>0, LocksAt DEF UnlinkLookup, ShapeOf
  <2>2. UNCHANGED <<cwd, fd>>
    BY <1>16 DEF UnlinkLookup
  <2>. DEFINE found == Entry(k[p].ip, k[p].rest[1])
  <2>3. \/ k' = Leave(p, k[p].ip) /\ UNCHANGED ref
        \/ /\ found # None /\ ref' = Got(found)
           /\ k' = [k EXCEPT ![p].pc = "unlink_ip", ![p].jp = found]
    BY <1>16, Zenon DEF UnlinkLookup
  <2>4. found # None => found \in Inums
    BY <2>1, RestType, EntryType
  <2>. HIDE DEF found
  <2>5. CASE k' = Leave(p, k[p].ip) /\ UNCHANGED ref
    BY <1>v, <2>1, <2>2, <2>5
  <2>6. CASE found # None /\ ref' = Got(found) /\ k' = [k EXCEPT ![p].pc = "unlink_ip", ![p].jp = found]
    <3>1. k'[p].ip = k[p].ip /\ k'[p].jp = found /\ k'[p].put = k[p].put
      BY <1>0, <2>6 DEF Local
    <3>. QED  BY <1>g, <2>1, <2>2, <2>4, <2>6, <3>1
  <2>. QED  BY <2>3, <2>5, <2>6
<1>17. ASSUME UnlinkNot(p) PROVE Balance
  <2>1. k[p].put = None /\ k[p].jp \in Inums
    BY <1>17, LocksAt DEF UnlinkNot
  <2>. QED  BY <1>17, <1>0, <2>1 DEF UnlinkNot, Count, Local
<1>18. ASSUME UnlinkEntry(p) PROVE Balance
  <2>1. k[p].put = None /\ k[p].ip \in Inums
    BY <1>18, <1>0, LocksAt DEF UnlinkEntry, ShapeOf, Local
  <2>2. k' = [k EXCEPT ![p].pc = "unlinked", ![p].ip = None, ![p].put = k[p].ip] /\ UNCHANGED <<ref, cwd, fd>>
    BY <1>18 DEF UnlinkEntry
  <2>. QED  BY <1>0, <2>1, <2>2 DEF Local, Count
<1>19. ASSUME UnlinkEnd(p) PROVE Balance
  BY <1>19, <1>0, <1>v DEF UnlinkEnd, At, ShapeOf
<1>20. ASSUME UnlockDir(p) PROVE Balance
  BY <1>20, <1>f DEF UnlockDir, At
<1>21. ASSUME LinkCount(p) PROVE Balance
  <2>1. k[p].pc = "link" /\ k[p].put = None /\ k[p].ip \in Inums /\ k[p].jp = None
    BY <1>21, <1>0, LocksAt DEF LinkCount, ShapeOf
  <2>2. StartOf(p, k[p].new) \in Inums
    BY <1>0, StartType DEF Local
  <2>. DEFINE start == StartOf(p, k[p].new)
  <2>3. UNCHANGED <<cwd, fd>>
    BY <1>21 DEF LinkCount
  <2>4. \/ k' = Leave(p, k[p].ip) /\ UNCHANGED ref
        \/ ref' = Got(start) /\ k' = [k EXCEPT ![p] = [AtUser EXCEPT !.pc = "walk", !.call = "linkdir",
                                   !.rest = k[p].new.names, !.ip = start, !.jp = k[p].ip]]
    BY <1>21 DEF LinkCount
  <2>. HIDE DEF start
  <2>5. CASE k' = Leave(p, k[p].ip) /\ UNCHANGED ref
    BY <1>v, <2>1, <2>3, <2>5
  <2>6. CASE ref' = Got(start) /\ k' = [k EXCEPT ![p] = [AtUser EXCEPT !.pc = "walk", !.call = "linkdir",
                                   !.rest = k[p].new.names, !.ip = start, !.jp = k[p].ip]]
    <3>1. k'[p].ip = start /\ k'[p].jp = k[p].ip /\ k'[p].put = None
      BY <1>0, <2>6 DEF AtUser
    <3>2. start \in Inums
      BY <2>2 DEF start
    <3>3. ASSUME NEW i \in Inums
          PROVE  Count(cwd[p], fd[p], k'[p], i) = Count(cwd[p], fd[p], k[p], i) + (IF i = start THEN 1 ELSE 0)
      BY <2>1, <3>1, <3>2 DEF Count
    <3>4. ASSUME NEW i \in Inums PROVE ref'[i] = ref[i] + (IF i = start THEN 1 ELSE 0)
      BY <1>0, <2>6, <3>2 DEF Got
    <3>5. ASSUME NEW i \in Inums PROVE Count(cwd[p], fd[p], k[p], i) \in Nat
      BY DEF Count
    <3>. QED  BY <1>0, <2>3, <3>3, <3>4, <3>5
  <2>. QED  BY <2>4, <2>5, <2>6
<1>22. ASSUME LinkTaken(p) PROVE Balance
  <2>1. k[p].pc \in {"create", "mkdir", "linkdir"} /\ k[p].ip \in Inums /\ k[p].put = None /\ k[p].rest # <<>>
    BY <1>22, <1>0, LocksAt DEF CreateFound, LinkTaken, ShapeOf
  <2>. DEFINE found == Entry(k[p].ip, k[p].rest[1])
  <2>2. found \in Inums
    BY <1>22, <2>1, RestType, EntryType DEF CreateFound, LinkTaken
  <2>3. /\ ref' = Got(found) /\ UNCHANGED <<cwd, fd>>
        /\ \/ k' = [k EXCEPT ![p].pc = "old", ![p].ip = found, ![p].put = k[p].ip]
           \/ k' = [k EXCEPT ![p].pc = "unlock", ![p].put = found]
    BY <1>22 DEF CreateFound, LinkTaken
  <2>. HIDE DEF found
  <2>4. CASE k' = [k EXCEPT ![p].pc = "old", ![p].ip = found, ![p].put = k[p].ip]
    <3>1. k'[p].ip = found /\ k'[p].jp = k[p].jp /\ k'[p].put = k[p].ip
      BY <1>0, <2>4 DEF Local
    <3>2. ref' = Got(found) /\ UNCHANGED <<cwd, fd>>
      BY <2>3
    <3>. QED  BY <1>g, <2>1, <2>2, <3>1, <3>2
  <2>5. CASE k' = [k EXCEPT ![p].pc = "unlock", ![p].put = found]
    <3>1. k'[p].ip = k[p].ip /\ k'[p].jp = k[p].jp /\ k'[p].put = found
      BY <1>0, <2>5 DEF Local
    <3>. QED  BY <1>g, <2>1, <2>2, <2>3, <3>1
  <2>. QED  BY <2>3, <2>4, <2>5
<1>23. ASSUME LinkEntry(p) PROVE Balance
  <2>1. k[p].put = None /\ k[p].ip \in Inums
    BY <1>23, LocksAt DEF LinkEntry
  <2>2. k' = [k EXCEPT ![p].pc = "linked", ![p].ip = None, ![p].put = k[p].ip] /\ UNCHANGED <<ref, cwd, fd>>
    BY <1>23 DEF LinkEntry
  <2>. QED  BY <1>0, <2>1, <2>2 DEF Local, Count
<1>24. ASSUME LinkEnd(p) PROVE Balance
  BY <1>24, <1>0, <1>v DEF LinkEnd, At, ShapeOf
<1>25. ASSUME LinkUndo(p) PROVE Balance
  <2>1. k[p].put = None /\ k[p].ip = None
    BY <1>25, <1>0, LocksAt DEF LinkUndo, ShapeOf
  <2>. QED  BY <1>25, <1>v, <2>1 DEF LinkUndo
<1>26. ASSUME NEW call \in CallNames \ {"none", "linkdir"}, NEW path \in NamePaths \cup ParentPaths,
            NEW new \in ParentPaths \cup {NoPath}, Call(p, call, path, new)
     PROVE  Balance
  <2>1. StartOf(p, path) \in Inums
    BY StartType
  <2>. DEFINE start == StartOf(p, path)
              pc == NextPc(call, path.names)
  <2>2. /\ k[p] = AtUser /\ ref' = Got(start) /\ UNCHANGED <<cwd, fd>>
        /\ k' = [k EXCEPT ![p] = [AtUser EXCEPT !.pc = pc, !.call = call, !.rest = path.names, !.new = new, !.ip = start]]
    BY <1>26 DEF Call
  <2>3. start \in Inums
    BY <2>1
  <2>. HIDE DEF start, pc
  <2>4. k'[p].ip = start /\ k'[p].jp = None /\ k'[p].put = None
    BY <1>0, <2>2 DEF AtUser
  <2>5. k[p].ip = None /\ k[p].jp = None /\ k[p].put = None
    BY <2>2 DEF AtUser
  <2>. QED  BY <1>g, <2>2, <2>3, <2>4, <2>5
<1>. QED  BY <1>1, <1>2, <1>3, <1>4, <1>5, <1>6, <1>7, <1>8, <1>9, <1>10, <1>11, <1>12, <1>13,
             <1>14, <1>15, <1>16, <1>17, <1>18, <1>19, <1>20, <1>21, <1>22, <1>23, <1>24, <1>25,
             <1>26, CallsIsCall DEF Step

-----------------------------------------------------------------------------
(* What counts and locks say *)

LEMMA InodeIsDisk ==
  ASSUME TypeOK, DiskInv, NEW i \in Inums
  PROVE  /\ Inode(i) = din[i] /\ Loaded(i) = [ic EXCEPT ![i] = din[i]]
         /\ OneMore(i) = [type |-> din[i].type, nlink |-> din[i].nlink + 1]
         /\ OneLess(i) = [type |-> din[i].type, nlink |-> din[i].nlink - 1]
         /\ din[i] \in Copy
<1>1. Inode(i) = din[i] /\ din[i] \in Copy
  BY DEF TypeOK, DiskInv, Inode
<1>. QED  BY <1>1 DEF Loaded, OneMore, OneLess, Copy

(* Whatever is counted as a link is finite.                                  *)
LEMMA LinksFinite ==
  ASSUME TypeOK, NEW i
  PROVE  /\ IsFiniteSet(Entries(i)) /\ Cardinality(Entries(i)) \in Nat
         /\ IsFiniteSet(Subdirs(i)) /\ Cardinality(Subdirs(i)) \in Nat
         /\ IsFiniteSet(CountedBy(i)) /\ Cardinality(CountedBy(i)) \in Nat
         /\ IsFiniteSet(Owing(i)) /\ Cardinality(Owing(i)) \in Nat
<1>1. IsFiniteSet(Procs) /\ IsFiniteSet(Names)
  BY InodesAssumption
<1>2. IsFiniteSet(Inums \X Names)
  <2>1. IsFiniteSet(Inums)
    BY Numbers, FS_Interval DEF Inums
  <2>. QED  BY <1>1, <2>1, FS_Product, Zenon
<1>3. /\ Entries(i) \subseteq Inums \X Names /\ Subdirs(i) \subseteq Names
      /\ CountedBy(i) \subseteq Procs /\ Owing(i) \subseteq Procs
  BY DEF Entries, Subdirs, CountedBy, Owing
<1>. QED  BY <1>1, <1>2, <1>3, FS_Subset, FS_CardinalityType

(* An inode without links is named by no entry, has no subdirectories, and   *)
(* so on.                                                                    *)
LEMMA NoLinks ==
  ASSUME TypeOK, LinkInv, NEW i \in Inums, ~(din[i].nlink > 0)
  PROVE  /\ Entries(i) = {} /\ Subdirs(i) = {} /\ CountedBy(i) = {} /\ Owing(i) = {}
         /\ lost[i] = 0 /\ i # Root
<1>. DEFINE e == Cardinality(Entries(i))
            s == Cardinality(Subdirs(i))
            c == Cardinality(CountedBy(i))
            o == Cardinality(Owing(i))
            r == IF i = Root THEN 1 ELSE 0
<1>1. e \in Nat /\ s \in Nat /\ c \in Nat /\ o \in Nat /\ lost[i] \in Nat /\ r \in Nat
  BY LinksFinite DEF TypeOK
<1>2. din[i].nlink = e + s + c + o + lost[i] + r
  BY DEF LinkInv
<1>3. din[i].nlink \in Int
  BY DEF TypeOK, Copy
<1>4. e = 0 /\ s = 0 /\ c = 0 /\ o = 0 /\ lost[i] = 0 /\ r = 0
  <2>. HIDE DEF e, s, c, o, r
  <2>. QED  BY <1>1, <1>2, <1>3
<1>. QED  BY <1>4, LinksFinite, FS_EmptySet

(* What an entry names is linked, and what is linked is allocated.           *)
LEMMA Linked ==
  ASSUME TypeOK, LinkInv, DiskInv
  PROVE  /\ \A i \in Inums : din[i].nlink > 0 => din[i].type # "none"
         /\ \A d \in Inums, n \in Names : ents[d][n] # None => din[ents[d][n]].nlink > 0
         /\ din[Root].nlink > 0
<1>1. \A i \in Inums : din[i].nlink > 0 => din[i].type # "none"
  BY DEF DiskInv, Unread
<1>2. ASSUME NEW d \in Inums, NEW n \in Names, ents[d][n] # None PROVE din[ents[d][n]].nlink > 0
  <2>1. ents[d][n] \in Inums /\ <<d, n>> \in Entries(ents[d][n])
    BY <1>2 DEF TypeOK, Entries
  <2>. QED  BY <2>1, NoLinks
<1>. QED  BY <1>1, <1>2, NoLinks, Numbers

(* What a lookup in a directory finds, unless it leads astray.               *)
LEMMA LookupLinked ==
  ASSUME TypeOK, LinkInv, DiskInv, DirInv, NEW d \in Inums, din[d].type = "dir",
         NEW n \in Elements, Entry(d, n) # None, ~Astray(d, n)
  PROVE  Entry(d, n) \in Inums /\ (Entry(d, n) = d \/ din[Entry(d, n)].nlink > 0)
<1>1. Entry(d, n) \in Inums
  BY EntryType
<1>2. CASE n = "."
  BY <1>1, <1>2 DEF Entry
<1>3. CASE n = ".." /\ d = Root
  BY <1>3, Linked, Numbers DEF Entry, DirInv
<1>4. CASE n = ".." /\ d # Root
  <2>1. PICK e \in Entries(d) : TRUE
    BY <1>4 DEF Astray
  <2>2. e \in Inums \X Names /\ ents[e[1]][e[2]] = d
    BY <2>1 DEF Entries
  <2>3. e[1] = dotdot[d] /\ e[1] = Entry(d, n)
    BY <1>4, <2>1 DEF DirInv, Entry
  <2>4. e[2] \in Subdirs(e[1])
    BY <2>2, Numbers DEF Subdirs
  <2>. QED  BY <1>1, <2>2, <2>3, <2>4, NoLinks
<1>5. CASE n \in Names
  <2>1. Entry(d, n) = ents[d][n]
    BY <1>5, InodesAssumption DEF Entry
  <2>. QED  BY <1>1, <1>5, <2>1, Linked
<1>. QED  BY <1>2, <1>3, <1>4, <1>5 DEF Elements

(* What the steps do that do not change the disk.                            *)
Quiet(p) ==
  /\ UNCHANGED <<onDisk, lost>>
  /\ \A i \in Inums : (p \in CountedBy(i)' <=> p \in CountedBy(i)) /\ (p \in Owing(i)' <=> p \in Owing(i))

(* All but eight actions leave disk, links and counting calls alone.         *)
LEMMA QuietStep ==
  ASSUME TypeOK, Shape, NEW p \in Procs, Calls(p) \/ Step(p)
  PROVE  \/ Quiet(p)
         \/ PutFree(p) \/ CreateAlloc(p) \/ CreateInit(p) \/ UnlinkEntry(p) \/ UnlinkEnd(p)
         \/ (LinkCount(p) /\ Inode(k[p].ip).type # "dir") \/ LinkEntry(p) \/ LinkUndo(p)
<1>. USE Numbers DEF onDisk, inCache, history
<1>0. k \in [Procs -> Local] /\ ShapeOf(k[p]) /\ k[p] \in Local
  BY DEF TypeOK, Shape
<1>. DEFINE Goal ==
         \/ Quiet(p)
         \/ PutFree(p) \/ CreateAlloc(p) \/ CreateInit(p) \/ UnlinkEntry(p) \/ UnlinkEnd(p)
         \/ (LinkCount(p) /\ Inode(k[p].ip).type # "dir") \/ LinkEntry(p) \/ LinkUndo(p)
<1>q. ASSUME UNCHANGED <<onDisk, lost>>,
             \A i \in Inums : /\ p \in CountedBy(i)' <=> p \in CountedBy(i)
                              /\ p \in Owing(i)' <=> p \in Owing(i)
      PROVE  Goal
  BY <1>q DEF Quiet
<1>l. ASSUME NEW i, k' = Leave(p, i), k[p].call # "linkdir" \/ k[p].pc = "linked", k[p].pc # "unlinked",
             UNCHANGED <<onDisk, lost>>
      PROVE  Goal
  BY <1>0, <1>l DEF Quiet, CountedBy, Owing, Leave, AtUser
<1>f. ASSUME k' = Fail(p, k[p].ip), k[p].pc \in {"walk", "unlock"}, UNCHANGED <<onDisk, lost>>
      PROVE  Goal
  <2>1. CASE k[p].call = "linkdir"
    <3>1. /\ k'[p].call = k[p].call /\ k'[p].jp = k[p].jp /\ k'[p].pc = "undo"
      BY <1>0, <1>f, <2>1 DEF Fail, Local
    <3>. QED  BY <1>f, <2>1, <3>1 DEF Quiet, CountedBy, Owing
  <2>2. CASE k[p].call # "linkdir"
    BY <1>f, <1>l, <2>2 DEF Fail
  <2>. QED  BY <2>1, <2>2
<1>1. ASSUME PutCheck(p) PROVE Goal
  <2>1. k' = [k EXCEPT ![p].stage = "free"] \/ k' = [k EXCEPT ![p].stage = "drop"]
    BY <1>1 DEF PutCheck
  <2>2. k'[p].jp = k[p].jp /\ k'[p].call = k[p].call /\ k'[p].pc = k[p].pc
    BY <1>0, <2>1 DEF Local
  <2>. QED  BY <1>1, <2>2 DEF PutCheck, Quiet, CountedBy, Owing
<1>2. ASSUME PutFree(p) PROVE Goal
  BY <1>2
<1>3. ASSUME PutDrop(p) PROVE Goal
  <2>2. k'[p].jp = k[p].jp /\ k'[p].call = k[p].call /\ k'[p].pc = k[p].pc
    BY <1>3, <1>0 DEF PutDrop, Local
  <2>. QED  BY <1>3, <2>2 DEF PutDrop, Quiet, CountedBy, Owing
<1>4. ASSUME BadInode(p) PROVE Goal
  BY <1>4, <1>0 DEF BadInode, Panic, Quiet, CountedBy, Owing, Local
<1>5. ASSUME Walk(p) PROVE Goal
  <2>1. k[p].pc = "walk" /\ UNCHANGED <<onDisk, lost>>
    BY <1>5, LocksAt DEF Walk
  <2>2. CASE k' = Fail(p, k[p].ip)
    BY <2>1, <2>2, <1>f
  <2>3. CASE \E ip, put, rest, pc : /\ k' = [k EXCEPT ![p].ip = ip, ![p].put = put, ![p].rest = rest, ![p].pc = pc]
                                    /\ pc \in {"walk", "linkdir"} \/ (k[p].call # "linkdir" /\ pc # "unlinked")
    <3>1. k'[p].jp = k[p].jp /\ k'[p].call = k[p].call
          /\ (k'[p].pc \in {"walk", "linkdir"} \/ (k[p].call # "linkdir" /\ k'[p].pc # "unlinked"))
      BY <1>0, <2>3 DEF Local
    <3>. QED  BY <2>1, <3>1 DEF Quiet, CountedBy, Owing
  <2>4. CASE k' = [k EXCEPT ![p].pc = k[p].call] /\ OfParent(k[p].call)
    <3>1. k'[p].jp = k[p].jp /\ k'[p].call = k[p].call /\ k'[p].pc = k[p].call
          /\ k[p].call \in {"create", "mkdir", "unlink", "linkdir"}
      BY <1>0, <2>4 DEF Local, OfParent
    <3>. QED  BY <2>1, <3>1 DEF Quiet, CountedBy, Owing
  <2>. QED
    <3>1. \/ k' = Fail(p, k[p].ip)
          \/ k' = [k EXCEPT ![p].pc = k[p].call] /\ OfParent(k[p].call)
          \/ k' = [k EXCEPT ![p].ip = Entry(k[p].ip, Head(k[p].rest)), ![p].put = k[p].ip,
                            ![p].rest = Tail(@), ![p].pc = NextPc(k[p].call, Tail(k[p].rest))]
      BY <1>5, Zenon DEF Walk
    <3>2. \/ NextPc(k[p].call, Tail(k[p].rest)) \in {"walk", "linkdir"}
          \/ (k[p].call # "linkdir" /\ NextPc(k[p].call, Tail(k[p].rest)) # "unlinked")
      BY <1>0 DEF NextPc, OfParent, Local, CallNames
    <3>. DEFINE ip == Entry(k[p].ip, Head(k[p].rest))
                put == k[p].ip
                rest == Tail(k[p].rest)
                pc == NextPc(k[p].call, rest)
    <3>3. \/ k' = Fail(p, k[p].ip)
          \/ k' = [k EXCEPT ![p].pc = k[p].call] /\ OfParent(k[p].call)
          \/ /\ k' = [k EXCEPT ![p].ip = ip, ![p].put = put, ![p].rest = rest, ![p].pc = pc]
             /\ pc \in {"walk", "linkdir"} \/ (k[p].call # "linkdir" /\ pc # "unlinked")
      BY <3>1, <3>2
    <3>4. ASSUME NEW i, NEW j, NEW r, NEW c, k' = [k EXCEPT ![p].ip = i, ![p].put = j, ![p].rest = r, ![p].pc = c],
                 c \in {"walk", "linkdir"} \/ (k[p].call # "linkdir" /\ c # "unlinked")
          PROVE  Goal
      BY <3>4, <2>3
    <3>. HIDE DEF ip, put, rest, pc, Goal
    <3>. QED  BY <3>3, <3>4, <2>2, <2>4
<1>6. ASSUME WalkNoParent(p) PROVE Goal
  BY <1>6, <1>f DEF WalkNoParent, At
<1>7. ASSUME Open(p) PROVE Goal
  <2>1. k[p].pc \in {"open", "old", "chdir"} /\ UNCHANGED <<onDisk, lost>>
    BY <1>7, LocksAt DEF Open, CreateOld, Chdir
  <2>. QED  BY <1>7, <1>0, <1>l, <2>1 DEF Open, CreateOld, Opened, Chdir, ShapeOf
<1>8. ASSUME Close(p) PROVE Goal
  BY <1>8, <1>0, <1>l DEF Close, AtUser
<1>9. ASSUME Chdir(p) PROVE Goal
  <2>1. k[p].pc \in {"open", "old", "chdir"} /\ UNCHANGED <<onDisk, lost>>
    BY <1>9, LocksAt DEF Open, CreateOld, Chdir
  <2>. QED  BY <1>9, <1>0, <1>l, <2>1 DEF Open, CreateOld, Opened, Chdir, ShapeOf
<1>10. ASSUME CreateFound(p) PROVE Goal
  <2>1. k[p].pc \in {"create", "mkdir"} /\ k[p].call # "linkdir" /\ UNCHANGED <<onDisk, lost>>
    BY <1>10, <1>0, LocksAt DEF CreateFound, ShapeOf
  <2>2. k'[p].call = k[p].call /\ k'[p].pc = "old"
    BY <1>10, <1>0 DEF CreateFound, Local
  <2>. QED  BY <2>1, <2>2 DEF Quiet, CountedBy, Owing
<1>11. ASSUME CreateOld(p) PROVE Goal
  <2>1. k[p].pc \in {"open", "old", "chdir"} /\ UNCHANGED <<onDisk, lost>>
    BY <1>11, LocksAt DEF Open, CreateOld, Chdir
  <2>. QED  BY <1>11, <1>0, <1>l, <2>1 DEF Open, CreateOld, Opened, Chdir, ShapeOf
<1>12. ASSUME CreateAlloc(p) PROVE Goal
  BY <1>12
<1>13. ASSUME NoInodes(p) PROVE Goal
  BY <1>13, <1>0 DEF NoInodes, Panic, Quiet, CountedBy, Owing, Local
<1>14. ASSUME CreateInit(p) PROVE Goal
  BY <1>14
<1>15. ASSUME CreateEnd(p) PROVE Goal
  <2>1. k[p].pc = "made" /\ UNCHANGED <<onDisk, lost>>
    BY <1>15 DEF CreateEnd, At
  <2>. QED  BY <1>15, <1>0, <1>l, <2>1 DEF CreateEnd, Opened, ShapeOf
<1>16. ASSUME UnlinkLookup(p) PROVE Goal
  <2>1. k[p].pc = "unlink" /\ k[p].call = "unlink" /\ UNCHANGED <<onDisk, lost>>
    BY <1>16, <1>0, LocksAt DEF UnlinkLookup, ShapeOf
  <2>2. \/ k' = Leave(p, k[p].ip)
        \/ \E jp : k' = [k EXCEPT ![p].pc = "unlink_ip", ![p].jp = jp]
    BY <1>16, Zenon DEF UnlinkLookup
  <2>3. CASE \E jp : k' = [k EXCEPT ![p].pc = "unlink_ip", ![p].jp = jp]
    <3>1. k'[p].call = k[p].call /\ k'[p].pc = "unlink_ip"
      BY <1>0, <2>3 DEF Local
    <3>. QED  BY <2>1, <3>1 DEF Quiet, CountedBy, Owing
  <2>. QED  BY <1>l, <2>1, <2>2, <2>3
<1>17. ASSUME UnlinkNot(p) PROVE Goal
  <2>1. k[p].pc = "unlink_ip" /\ k[p].call = "unlink" /\ UNCHANGED <<onDisk, lost>>
    BY <1>17, <1>0, LocksAt DEF UnlinkNot, ShapeOf
  <2>2. k'[p].call = k[p].call /\ k'[p].pc = "unlock"
    BY <1>17, <1>0 DEF UnlinkNot, Local
  <2>. QED  BY <2>1, <2>2 DEF Quiet, CountedBy, Owing
<1>18. ASSUME UnlinkEntry(p) PROVE Goal
  BY <1>18
<1>19. ASSUME UnlinkEnd(p) PROVE Goal
  BY <1>19
<1>20. ASSUME UnlockDir(p) PROVE Goal
  BY <1>20, <1>f DEF UnlockDir, At
<1>21. ASSUME LinkCount(p) PROVE Goal
  <2>1. CASE Inode(k[p].ip).type # "dir"
    BY <1>21, <2>1
  <2>2. CASE Inode(k[p].ip).type = "dir"
    <3>1. k[p].pc = "link" /\ k' = Leave(p, k[p].ip) /\ UNCHANGED <<onDisk, lost>>
      BY <1>21, <2>2, LocksAt DEF LinkCount
    <3>. QED  BY <1>0, <1>l, <3>1 DEF ShapeOf
  <2>. QED  BY <2>1, <2>2
<1>22. ASSUME LinkTaken(p) PROVE Goal
  <2>1. k[p].pc = "linkdir" /\ UNCHANGED <<onDisk, lost>>
    BY <1>22, <1>0, LocksAt DEF LinkTaken, ShapeOf
  <2>2. k'[p].call = k[p].call /\ k'[p].pc = "unlock" /\ k'[p].jp = k[p].jp
    BY <1>22, <1>0 DEF LinkTaken, Local
  <2>. QED  BY <2>1, <2>2 DEF Quiet, CountedBy, Owing
<1>23. ASSUME LinkEntry(p) PROVE Goal
  BY <1>23
<1>24. ASSUME LinkEnd(p) PROVE Goal
  BY <1>24, <1>l DEF LinkEnd, At
<1>25. ASSUME LinkUndo(p) PROVE Goal
  BY <1>25
<1>26. ASSUME NEW call \in CallNames \ {"none", "linkdir"}, NEW path \in NamePaths \cup ParentPaths,
            NEW new \in ParentPaths \cup {NoPath}, Call(p, call, path, new)
     PROVE  Goal
  <2>1. k[p] = AtUser /\ UNCHANGED <<onDisk, lost>>
    BY <1>26 DEF Call
  <2>2. k'[p].jp = None
    BY <1>26, <1>0 DEF Call, AtUser
  <2>. QED  BY <2>1, <2>2 DEF Quiet, CountedBy, Owing, AtUser
<1>. QED  BY <1>1, <1>2, <1>3, <1>4, <1>5, <1>6, <1>7, <1>8, <1>9, <1>10, <1>11, <1>12, <1>13,
             <1>14, <1>15, <1>16, <1>17, <1>18, <1>19, <1>20, <1>21, <1>22, <1>23, <1>24, <1>25,
             <1>26, CallsIsCall DEF Step

-----------------------------------------------------------------------------
(* What a step leaves to the others *)

(* An inode changes on the disk only for a process that may follow its       *)
(* pointer to it, or when it was free; its type only when it was free or is  *)
(* being freed; its entries only with its lock, or while nobody has that.    *)
LEMMA DiskKept ==
  ASSUME TypeOK, Shape, LockInv, DiskInv, NEW p \in Procs, Calls(p) \/ Step(p), NEW j \in Inums
  PROVE  /\ din'[j] # din[j] => j \in Live(p) \/ din[j].type = "none"
         /\ din'[j].type # din[j].type =>
              \/ din[j].type = "none" /\ CreateAlloc(p)
              \/ PutFree(p) /\ k[p].stage = "free" /\ j = k[p].put
         /\ ents'[j] # ents[j] => j \in Live(p) /\ lock[j] \in {NoProc, p}
<1>. USE Numbers DEF onDisk, inCache, history
<1>0. /\ k \in [Procs -> Local] /\ ShapeOf(k[p]) /\ k[p] \in Local
      /\ din \in [Inums -> Copy] /\ ents \in [Inums -> [Names -> Inums \cup {None}]]
      /\ \A i \in Inums : lock[i] = p <=> i \in {Keeps(p), Frees(p)}
  BY DEF TypeOK, Shape, LockInv
<1>. DEFINE Goal == 
         /\ din'[j] # din[j] => j \in Live(p) \/ din[j].type = "none"
         /\ din'[j].type # din[j].type =>
              \/ din[j].type = "none" /\ CreateAlloc(p)
              \/ PutFree(p) /\ k[p].stage = "free" /\ j = k[p].put
         /\ ents'[j] # ents[j] => j \in Live(p) /\ lock[j] \in {NoProc, p}
<1>1. ASSUME Quiet(p) PROVE Goal
  BY <1>1 DEF Quiet
<1>2. ASSUME PutFree(p) PROVE Goal
  <2>1. k[p].put \in Inums /\ k[p].stage = "free" /\ lock[k[p].put] = p
    BY <1>2, <1>0 DEF PutFree, Local, Frees
  <2>. QED  BY <1>2, <1>0, <2>1 DEF PutFree, Live
<1>3. ASSUME CreateAlloc(p) PROVE Goal
  <2>. DEFINE i == CHOOSE h \in Free : \A g \in Free : h <= g
  <2>1. i \in Inums /\ din[i].type = "none"
    BY <1>3, LeastFree DEF CreateAlloc, Free
  <2>2. /\ din' = [din EXCEPT ![i] = [type |-> IF k[p].call = "mkdir" THEN "dir" ELSE "file", nlink |-> 0]]
        /\ UNCHANGED ents
    BY <1>3 DEF CreateAlloc
  <2>. HIDE DEF i
  <2>. QED  BY <1>0, <1>3, <2>1, <2>2
<1>4. ASSUME CreateInit(p) PROVE Goal
  <2>1. /\ k[p].jp \in Inums /\ k[p].ip \in Inums /\ k[p].pc = "init" /\ k[p].stage = "check"
        /\ lock[k[p].ip] = p
    BY <1>4, <1>0, LocksAt DEF CreateInit, ShapeOf, Local, Keeps
  <2>2. \A i \in Inums : din'[i] = CASE i = k[p].jp -> [Inode(i) EXCEPT !.nlink = 1]
                                     [] i # k[p].jp /\ i = k[p].ip -> IF k[p].call = "mkdir" THEN OneMore(i) ELSE Inode(i)
                                     [] OTHER -> din[i]
    BY <1>4, <2>1 DEF CreateInit
  <2>3. ents' = [ents EXCEPT ![k[p].ip][k[p].rest[1]] = k[p].jp]
    BY <1>4 DEF CreateInit
  <2>4. {k[p].ip, k[p].jp} \subseteq Live(p)
    BY <2>1 DEF Live, Refers
  <2>5. din'[j] # din[j] => j \in {k[p].ip, k[p].jp}
    BY <2>2
  <2>6. din'[j].type = din[j].type
    <3>1. din'[j] \in {[Inode(j) EXCEPT !.nlink = 1], OneMore(j), Inode(j), din[j]}
      BY <2>2
    <3>. QED  BY <3>1, InodeIsDisk DEF Copy
  <2>. QED  BY <1>0, <2>1, <2>3, <2>4, <2>5, <2>6
<1>5. ASSUME UnlinkEntry(p) PROVE Goal
  <2>1. /\ k[p].jp \in Inums /\ k[p].ip \in Inums /\ k[p].pc = "unlink_ip" /\ k[p].stage = "check"
        /\ lock[k[p].ip] = p
    BY <1>5, <1>0, LocksAt DEF UnlinkEntry, ShapeOf, Local, Keeps
  <2>2. \/ din' = [din EXCEPT ![k[p].ip] = OneLess(k[p].ip)]
        \/ din' = [din EXCEPT ![k[p].ip] = Inode(k[p].ip)]
    BY <1>5 DEF UnlinkEntry
  <2>3. ents' = [ents EXCEPT ![k[p].ip][k[p].rest[1]] = None]
    BY <1>5 DEF UnlinkEntry
  <2>4. k[p].ip \in Live(p)
    BY <2>1 DEF Live, Refers
  <2>5. din'[j].type = din[j].type
    BY <1>0, <2>1, <2>2, InodeIsDisk DEF Copy
  <2>. QED  BY <1>0, <2>1, <2>2, <2>3, <2>4, <2>5
<1>6. ASSUME UnlinkEnd(p) PROVE Goal
  <2>1. k[p].jp \in Inums /\ k[p].stage = "check"
    BY <1>6, <1>0 DEF UnlinkEnd, At, ShapeOf, Local
  <2>2. k[p].jp \in Live(p)
    BY <2>1 DEF Live, Refers
  <2>3. OneLess(k[p].jp).type = din[k[p].jp].type
    <3>1. OneLess(k[p].jp) = [type |-> din[k[p].jp].type, nlink |-> din[k[p].jp].nlink - 1]
      BY <2>1, InodeIsDisk
    <3>. QED  BY <3>1
  <2>. QED  BY <2>3, <1>6, <1>0, <2>1, <2>2 DEF UnlinkEnd
<1>7. ASSUME LinkCount(p), Inode(k[p].ip).type # "dir" PROVE Goal
  <2>1. k[p].ip \in Inums /\ k[p].stage = "check"
    BY <1>7, LocksAt DEF LinkCount
  <2>2. k[p].ip \in Live(p)
    BY <2>1 DEF Live, Refers
  <2>3. OneMore(k[p].ip).type = din[k[p].ip].type
    <3>1. OneMore(k[p].ip) = [type |-> din[k[p].ip].type, nlink |-> din[k[p].ip].nlink + 1]
      BY <2>1, InodeIsDisk
    <3>. QED  BY <3>1
  <2>. QED  BY <2>3, <1>7, <1>0, <2>1, <2>2 DEF LinkCount
<1>8. ASSUME LinkEntry(p) PROVE Goal
  <2>1. k[p].ip \in Inums /\ k[p].stage = "check" /\ lock[k[p].ip] = NoProc
    BY <1>8, LocksAt DEF LinkEntry
  <2>2. k[p].ip \in Live(p)
    BY <2>1 DEF Live, Refers
  <2>3. ents' = [ents EXCEPT ![k[p].ip][k[p].rest[1]] = k[p].jp] /\ UNCHANGED din
    BY <1>8 DEF LinkEntry
  <2>. QED  BY <1>0, <2>1, <2>2, <2>3
<1>9. ASSUME LinkUndo(p) PROVE Goal
  <2>1. k[p].jp \in Inums /\ k[p].stage = "check"
    BY <1>9, LocksAt DEF LinkUndo
  <2>2. k[p].jp \in Live(p) /\ OneLess(k[p].jp).type = din[k[p].jp].type
    <3>1. OneLess(k[p].jp) = [type |-> din[k[p].jp].type, nlink |-> din[k[p].jp].nlink - 1]
      BY <2>1, InodeIsDisk
    <3>. QED  BY <2>1, <3>1 DEF Live, Refers
  <2>. QED  BY <1>9, <1>0, <2>1, <2>2 DEF LinkUndo
<1>. QED  BY <1>1, <1>2, <1>3, <1>4, <1>5, <1>6, <1>7, <1>8, <1>9, QuietStep

(* The lock of an inode changes only between a process and nobody.           *)
LEMMA LockStep ==
  ASSUME TypeOK, Shape, LockInv, NEW p \in Procs, Calls(p) \/ Step(p)
  PROVE  LockInv'
<1>. USE Numbers DEF onDisk, inCache, history
<1>0. /\ k \in [Procs -> Local] /\ ShapeOf(k[p]) /\ k[p] \in Local
      /\ lock \in [Inums -> Procs \cup {NoProc}] /\ NoProc \notin Procs
      /\ \A i \in Inums : lock[i] = p <=> i \in {Keeps(p), Frees(p)}
      /\ Frees(p) # None => Frees(p) # Keeps(p)
  BY InodesAssumption DEF TypeOK, Shape, LockInv
<1>. DEFINE Mine == /\ \A i \in Inums : lock'[i] = p <=> i \in {Keeps(p)', Frees(p)'}
                    /\ Frees(p)' # None => Frees(p)' # Keeps(p)'
            Theirs == \A i \in Inums : lock'[i] # lock[i] => {lock[i], lock'[i]} \subseteq {NoProc, p}
<1>s. SUFFICES Mine /\ Theirs
  <2>1. ASSUME Mine, Theirs, NEW q \in Procs \ {p}
        PROVE  /\ \A i \in Inums : lock'[i] = q <=> i \in {Keeps(q)', Frees(q)'}
               /\ Frees(q)' # None => Frees(q)' # Keeps(q)'
    <3>1. k'[q] = k[q]
      BY Others
    <3>2. Keeps(q)' = Keeps(q) /\ Frees(q)' = Frees(q)
      BY <3>1 DEF Keeps, Frees
    <3>3. \A i \in Inums : lock[i] = q <=> i \in {Keeps(q), Frees(q)}
      BY DEF LockInv
    <3>. QED  BY <2>1, <3>2, <3>3, <1>0 DEF LockInv
  <2>. QED  BY <2>1 DEF LockInv
<1>l. ASSUME NEW i, k' = Leave(p, i), UNCHANGED lock, k[p].stage # "free",
             k[p].pc \notin {"init", "unlink_ip", "unlock", "made", "unlinked"}
      PROVE  Mine /\ Theirs
  <2>1. k'[p].pc = "user" /\ k'[p].stage = "check"
    BY <1>0, <1>l DEF Leave, AtUser
  <2>. QED  BY <1>0, <1>l, <2>1 DEF Keeps, Frees
<1>f. ASSUME NEW i, k' = Fail(p, i), UNCHANGED lock, k[p].stage = "check", k[p].pc = "walk"
      PROVE  Mine /\ Theirs
  <2>1. k'[p].pc \in {"user", "undo"} /\ k'[p].stage = "check"
    BY <1>0, <1>f DEF Fail, Leave, AtUser, Local
  <2>. QED  BY <1>0, <1>f, <2>1 DEF Keeps, Frees
<1>n. ASSUME UNCHANGED lock, Keeps(p)' = Keeps(p), Frees(p)' = Frees(p)
      PROVE  Mine /\ Theirs
  BY <1>0, <1>n
<1>1. ASSUME PutCheck(p) PROVE Mine /\ Theirs
  <2>. DEFINE i == k[p].put
  <2>1. i \in Inums /\ i # None /\ k[p].stage = "check" /\ lock[i] = NoProc
    BY <1>1, <1>0 DEF PutCheck, Local
  <2>2. CASE k' = [k EXCEPT ![p].stage = "free"] /\ lock' = [lock EXCEPT ![i] = p]
    <3>1. k'[p].pc = k[p].pc /\ k'[p].ip = k[p].ip /\ k'[p].jp = k[p].jp /\ k'[p].put = i /\ k'[p].stage = "free"
      BY <1>0, <2>2 DEF Local
    <3>2. Keeps(p)' = Keeps(p) /\ Frees(p)' = i /\ Frees(p) = None
      BY <2>1, <3>1 DEF Keeps, Frees
    <3>3. i # Keeps(p)
      BY <1>0, <2>1
    <3>. HIDE DEF i
    <3>. QED  BY <1>0, <2>1, <2>2, <3>2, <3>3
  <2>3. CASE k' = [k EXCEPT ![p].stage = "drop"] /\ UNCHANGED lock
    <3>1. k'[p].pc = k[p].pc /\ k'[p].ip = k[p].ip /\ k'[p].jp = k[p].jp /\ k'[p].stage = "drop"
      BY <1>0, <2>3 DEF Local
    <3>. QED  BY <1>n, <2>1, <2>3, <3>1 DEF Keeps, Frees
  <2>. QED  BY <1>1, <2>2, <2>3 DEF PutCheck
<1>2. ASSUME PutFree(p) PROVE Mine /\ Theirs
  BY <1>2, <1>0 DEF PutFree, Keeps, Frees, Local
<1>3. ASSUME PutDrop(p) PROVE Mine /\ Theirs
  <2>1. k'[p].pc = k[p].pc /\ k'[p].ip = k[p].ip /\ k'[p].jp = k[p].jp /\ k'[p].stage = "check" /\ k[p].stage = "drop"
    BY <1>3, <1>0 DEF PutDrop, Local
  <2>. QED  BY <1>3, <1>n, <2>1 DEF PutDrop, Keeps, Frees
<1>4. ASSUME BadInode(p) PROVE Mine /\ Theirs
  BY <1>4, <1>0 DEF BadInode, Panic, Keeps, Frees, Local
<1>5. ASSUME Walk(p) PROVE Mine /\ Theirs
  <2>1. k[p].pc = "walk" /\ UNCHANGED lock /\ k[p].stage = "check"
    BY <1>5, LocksAt DEF Walk
  <2>2. CASE k' = Fail(p, k[p].ip)
    BY <2>1, <2>2, <1>f
  <2>3. ASSUME NEW ip, NEW put, NEW rest, NEW pc \in {"walk", "create", "mkdir", "unlink", "linkdir", "open", "chdir", "link"},
               \/ k' = [k EXCEPT ![p].ip = ip, ![p].put = put, ![p].rest = rest, ![p].pc = pc]
               \/ k' = [k EXCEPT ![p].pc = pc]
        PROVE  Mine /\ Theirs
    <3>1. k'[p].pc = pc /\ k'[p].stage = "check"
      BY <1>0, <2>1, <2>3 DEF Local
    <3>. QED  BY <1>n, <2>1, <3>1 DEF Keeps, Frees
  <2>. DEFINE ip == Entry(k[p].ip, Head(k[p].rest))
              put == k[p].ip
              rest == Tail(k[p].rest)
              pc == NextPc(k[p].call, rest)
  <2>4. \/ k' = Fail(p, k[p].ip)
        \/ k' = [k EXCEPT ![p].pc = k[p].call] /\ OfParent(k[p].call)
        \/ k' = [k EXCEPT ![p].ip = ip, ![p].put = put, ![p].rest = rest, ![p].pc = pc]
    BY <1>5, Zenon DEF Walk
  <2>5. k[p].call # "none"
    BY <1>0, <2>1 DEF ShapeOf
  <2>6. pc \in {"walk", "create", "mkdir", "unlink", "linkdir", "open", "chdir", "link"}
    BY <1>0, <2>5 DEF NextPc, OfParent, Local, CallNames
  <2>7. OfParent(k[p].call) => k[p].call \in {"walk", "create", "mkdir", "unlink", "linkdir", "open", "chdir", "link"}
    BY DEF OfParent
  <2>8. CASE k' = [k EXCEPT ![p].pc = k[p].call] /\ OfParent(k[p].call)
    BY <2>3, <2>7, <2>8
  <2>. HIDE DEF ip, put, rest, pc
  <2>9. CASE k' = [k EXCEPT ![p].ip = ip, ![p].put = put, ![p].rest = rest, ![p].pc = pc]
    BY <2>3, <2>6, <2>9
  <2>. QED  BY <2>2, <2>4, <2>8, <2>9
<1>6. ASSUME WalkNoParent(p) PROVE Mine /\ Theirs
  BY <1>6, <1>0, <1>f DEF WalkNoParent, At, ShapeOf
<1>7. ASSUME Open(p) PROVE Mine /\ Theirs
  <2>1. k[p].pc \in {"open", "old", "chdir", "undo"} /\ UNCHANGED lock /\ k[p].stage = "check"
    BY <1>7, LocksAt DEF Open, CreateOld, Chdir, LinkUndo
  <2>2. PICK i : k' = Leave(p, i)
    BY <1>7 DEF Open, CreateOld, Opened, Chdir, LinkUndo
  <2>. QED  BY <1>l, <2>1, <2>2
<1>8. ASSUME Close(p) PROVE Mine /\ Theirs
  BY <1>8, <1>l DEF Close, AtUser
<1>9. ASSUME Chdir(p) PROVE Mine /\ Theirs
  <2>1. k[p].pc \in {"open", "old", "chdir", "undo"} /\ UNCHANGED lock /\ k[p].stage = "check"
    BY <1>9, LocksAt DEF Open, CreateOld, Chdir, LinkUndo
  <2>2. PICK i : k' = Leave(p, i)
    BY <1>9 DEF Open, CreateOld, Opened, Chdir, LinkUndo
  <2>. QED  BY <1>l, <2>1, <2>2
<1>10. ASSUME CreateFound(p) PROVE Mine /\ Theirs
  <2>1. k[p].pc \in {"create", "mkdir"} /\ k[p].stage = "check" /\ UNCHANGED lock
    BY <1>10, LocksAt DEF CreateFound
  <2>2. k'[p].pc = "old" /\ k'[p].stage = "check"
    BY <1>10, <1>0, <2>1 DEF CreateFound, Local
  <2>. QED  BY <1>n, <2>1, <2>2 DEF Keeps, Frees
<1>11. ASSUME CreateOld(p) PROVE Mine /\ Theirs
  <2>1. k[p].pc \in {"open", "old", "chdir", "undo"} /\ UNCHANGED lock /\ k[p].stage = "check"
    BY <1>11, LocksAt DEF Open, CreateOld, Chdir, LinkUndo
  <2>2. PICK i : k' = Leave(p, i)
    BY <1>11 DEF Open, CreateOld, Opened, Chdir, LinkUndo
  <2>. QED  BY <1>l, <2>1, <2>2
<1>12. ASSUME CreateAlloc(p) PROVE Mine /\ Theirs
  <2>1. k[p].pc \in {"create", "mkdir"} /\ k[p].stage = "check" /\ k[p].ip \in Inums /\ lock[k[p].ip] = NoProc
    BY <1>12, LocksAt DEF CreateAlloc
  <2>2. k'[p].pc = "init" /\ k'[p].stage = "check" /\ k'[p].ip = k[p].ip
    BY <1>12, <1>0, <2>1 DEF CreateAlloc, Local
  <2>3. lock' = [lock EXCEPT ![k[p].ip] = p]
    BY <1>12 DEF CreateAlloc
  <2>. QED  BY <1>0, <2>1, <2>2, <2>3 DEF Keeps, Frees
<1>13. ASSUME NoInodes(p) PROVE Mine /\ Theirs
  BY <1>13, <1>0 DEF NoInodes, Panic, Keeps, Frees, Local
<1>14. ASSUME CreateInit(p) PROVE Mine /\ Theirs
  <2>1. /\ k[p].pc = "init" /\ k[p].stage = "check" /\ k[p].ip \in Inums /\ k[p].jp \in Inums
        /\ lock[k[p].jp] = NoProc
    BY <1>14, <1>0, LocksAt DEF CreateInit, ShapeOf, Local
  <2>2. k'[p].pc = "made" /\ k'[p].stage = "check" /\ k'[p].jp = k[p].jp
    BY <1>14, <1>0, <2>1 DEF CreateInit, Local
  <2>3. lock' = [lock EXCEPT ![k[p].ip] = NoProc, ![k[p].jp] = p]
    BY <1>14 DEF CreateInit
  <2>. QED  BY <1>0, <2>1, <2>2, <2>3 DEF Keeps, Frees
<1>15. ASSUME CreateEnd(p) PROVE Mine /\ Theirs
  <2>1. k[p].pc \in {"made", "unlinked"} /\ k[p].stage = "check" /\ k[p].jp \in Inums
    BY <1>15, <1>0 DEF CreateEnd, UnlinkEnd, At, ShapeOf, Local
  <2>2. PICK i : k' = Leave(p, i)
    BY <1>15 DEF CreateEnd, UnlinkEnd, Opened
  <2>3. k'[p].pc = "user" /\ k'[p].stage = "check"
    BY <1>0, <2>2 DEF Leave, AtUser
  <2>4. lock' = [lock EXCEPT ![k[p].jp] = NoProc]
    BY <1>15 DEF CreateEnd, UnlinkEnd
  <2>. QED  BY <1>0, <2>1, <2>3, <2>4 DEF Keeps, Frees
<1>16. ASSUME UnlinkLookup(p) PROVE Mine /\ Theirs
  <2>1. k[p].pc = "unlink" /\ k[p].stage = "check" /\ k[p].ip \in Inums /\ lock[k[p].ip] = NoProc
    BY <1>16, LocksAt DEF UnlinkLookup
  <2>2. \/ k' = Leave(p, k[p].ip) /\ UNCHANGED lock
        \/ \E jp : k' = [k EXCEPT ![p].pc = "unlink_ip", ![p].jp = jp] /\ lock' = [lock EXCEPT ![k[p].ip] = p]
    BY <1>16, Zenon DEF UnlinkLookup
  <2>3. CASE k' = Leave(p, k[p].ip) /\ UNCHANGED lock
    BY <1>l, <2>1, <2>3
  <2>4. CASE \E jp : k' = [k EXCEPT ![p].pc = "unlink_ip", ![p].jp = jp] /\ lock' = [lock EXCEPT ![k[p].ip] = p]
    <3>1. k'[p].pc = "unlink_ip" /\ k'[p].stage = "check" /\ k'[p].ip = k[p].ip
      BY <1>0, <2>1, <2>4 DEF Local
    <3>. QED  BY <1>0, <2>1, <2>4, <3>1 DEF Keeps, Frees
  <2>. QED  BY <2>2, <2>3, <2>4
<1>17. ASSUME UnlinkNot(p) PROVE Mine /\ Theirs
  <2>1. k[p].pc = "unlink_ip" /\ k[p].stage = "check" /\ UNCHANGED lock
    BY <1>17, LocksAt DEF UnlinkNot
  <2>2. k'[p].pc = "unlock" /\ k'[p].stage = "check" /\ k'[p].ip = k[p].ip
    BY <1>17, <1>0, <2>1 DEF UnlinkNot, Local
  <2>. QED  BY <1>n, <2>1, <2>2 DEF Keeps, Frees
<1>18. ASSUME UnlinkEntry(p) PROVE Mine /\ Theirs
  <2>1. /\ k[p].pc = "unlink_ip" /\ k[p].stage = "check" /\ k[p].ip \in Inums /\ k[p].jp \in Inums
        /\ lock[k[p].jp] = NoProc
    BY <1>18, <1>0, LocksAt DEF UnlinkEntry, ShapeOf, Local
  <2>2. k'[p].pc = "unlinked" /\ k'[p].stage = "check" /\ k'[p].jp = k[p].jp
    BY <1>18, <1>0, <2>1 DEF UnlinkEntry, Local
  <2>3. lock' = [lock EXCEPT ![k[p].ip] = NoProc, ![k[p].jp] = p]
    BY <1>18 DEF UnlinkEntry
  <2>. QED  BY <1>0, <2>1, <2>2, <2>3 DEF Keeps, Frees
<1>19. ASSUME UnlinkEnd(p) PROVE Mine /\ Theirs
  <2>1. k[p].pc \in {"made", "unlinked"} /\ k[p].stage = "check" /\ k[p].jp \in Inums
    BY <1>19, <1>0 DEF CreateEnd, UnlinkEnd, At, ShapeOf, Local
  <2>2. PICK i : k' = Leave(p, i)
    BY <1>19 DEF CreateEnd, UnlinkEnd, Opened
  <2>3. k'[p].pc = "user" /\ k'[p].stage = "check"
    BY <1>0, <2>2 DEF Leave, AtUser
  <2>4. lock' = [lock EXCEPT ![k[p].jp] = NoProc]
    BY <1>19 DEF CreateEnd, UnlinkEnd
  <2>. QED  BY <1>0, <2>1, <2>3, <2>4 DEF Keeps, Frees
<1>20. ASSUME UnlockDir(p) PROVE Mine /\ Theirs
  <2>1. k[p].pc = "unlock" /\ k[p].stage = "check" /\ k[p].ip \in Inums
    BY <1>20, <1>0 DEF UnlockDir, At, ShapeOf, Local
  <2>2. k'[p].pc \in {"user", "undo"} /\ k'[p].stage = "check"
    BY <1>20, <1>0, <2>1 DEF UnlockDir, Fail, Leave, AtUser, Local
  <2>3. lock' = [lock EXCEPT ![k[p].ip] = NoProc]
    BY <1>20 DEF UnlockDir
  <2>. QED  BY <1>0, <2>1, <2>2, <2>3 DEF Keeps, Frees
<1>21. ASSUME LinkCount(p) PROVE Mine /\ Theirs
  <2>1. k[p].pc = "link" /\ k[p].stage = "check" /\ UNCHANGED lock
    BY <1>21, LocksAt DEF LinkCount
  <2>2. k'[p].pc \in {"user", "walk"} /\ k'[p].stage = "check"
    <3>1. \/ k' = Leave(p, k[p].ip)
          \/ k' = [k EXCEPT ![p] = [AtUser EXCEPT !.pc = "walk", !.call = "linkdir", !.rest = k[p].new.names,
                                     !.ip = StartOf(p, k[p].new), !.jp = k[p].ip]]
      BY <1>21 DEF LinkCount
    <3>2. CASE k' = Leave(p, k[p].ip)
      BY <1>0, <3>2 DEF Leave, AtUser
    <3>3. ASSUME NEW rest, NEW ip, NEW jp,
                 k' = [k EXCEPT ![p] = [AtUser EXCEPT !.pc = "walk", !.call = "linkdir", !.rest = rest, !.ip = ip, !.jp = jp]]
          PROVE  k'[p].pc \in {"user", "walk"} /\ k'[p].stage = "check"
      BY <1>0, <3>3 DEF AtUser
    <3>. QED  BY <3>1, <3>2, <3>3
  <2>. QED  BY <1>n, <2>1, <2>2 DEF Keeps, Frees
<1>22. ASSUME LinkTaken(p) PROVE Mine /\ Theirs
  <2>1. k[p].pc = "linkdir" /\ k[p].stage = "check" /\ k[p].ip \in Inums /\ lock[k[p].ip] = NoProc
    BY <1>22, LocksAt DEF LinkTaken
  <2>2. k'[p].pc = "unlock" /\ k'[p].stage = "check" /\ k'[p].ip = k[p].ip
    BY <1>22, <1>0, <2>1 DEF LinkTaken, Local
  <2>3. lock' = [lock EXCEPT ![k[p].ip] = p]
    BY <1>22 DEF LinkTaken
  <2>. QED  BY <1>0, <2>1, <2>2, <2>3 DEF Keeps, Frees
<1>23. ASSUME LinkEntry(p) PROVE Mine /\ Theirs
  <2>1. k[p].pc = "linkdir" /\ k[p].stage = "check" /\ UNCHANGED lock
    BY <1>23, LocksAt DEF LinkEntry
  <2>2. k'[p].pc = "linked" /\ k'[p].stage = "check"
    BY <1>23, <1>0, <2>1 DEF LinkEntry, Local
  <2>. QED  BY <1>n, <2>1, <2>2 DEF Keeps, Frees
<1>24. ASSUME LinkEnd(p) PROVE Mine /\ Theirs
  BY <1>24, <1>0, <1>l DEF LinkEnd, At, ShapeOf
<1>25. ASSUME LinkUndo(p) PROVE Mine /\ Theirs
  <2>1. k[p].pc \in {"open", "old", "chdir", "undo"} /\ UNCHANGED lock /\ k[p].stage = "check"
    BY <1>25, LocksAt DEF Open, CreateOld, Chdir, LinkUndo
  <2>2. PICK i : k' = Leave(p, i)
    BY <1>25 DEF Open, CreateOld, Opened, Chdir, LinkUndo
  <2>. QED  BY <1>l, <2>1, <2>2
<1>26. ASSUME NEW call \in CallNames \ {"none", "linkdir"}, NEW path \in NamePaths \cup ParentPaths,
            NEW new \in ParentPaths \cup {NoPath}, Call(p, call, path, new)
     PROVE  Mine /\ Theirs
  <2>1. k[p] = AtUser /\ UNCHANGED lock
    BY <1>26 DEF Call
  <2>2. k'[p].pc = NextPc(call, path.names) /\ k'[p].stage = "check"
    BY <1>26, <1>0 DEF Call, AtUser
  <2>3. NextPc(call, path.names) \notin {"init", "unlink_ip", "unlock", "made", "unlinked"}
    BY DEF NextPc, OfParent, CallNames
  <2>. QED  BY <1>n, <2>1, <2>2, <2>3 DEF Keeps, Frees, AtUser
<1>. QED  BY <1>1, <1>2, <1>3, <1>4, <1>5, <1>6, <1>7, <1>8, <1>9, <1>10, <1>11, <1>12, <1>13,
             <1>14, <1>15, <1>16, <1>17, <1>18, <1>19, <1>20, <1>21, <1>22, <1>23, <1>24, <1>25,
             <1>26, CallsIsCall DEF Step

(* What a step of p may point to afterwards: what it pointed to, what has a  *)
(* link, or what was free.  What it may follow then, it could follow before, *)
(* and has not freed, or it has a link, or was free and is so no more.       *)
LEMMA PointersKept ==
  ASSUME TypeOK, Shape, DiskInv, LinkInv, AllocInv, FreeInv, CallInv, DirInv, MakeInv,
         NEW p \in Procs, Calls(p) \/ Step(p), strays' = {}, NEW j \in Inums
  PROVE  /\ strays = {}
         /\ j \in Refers(p)' \cup {k'[p].put} =>
              \/ j \in Refers(p) \cup {k[p].put}
              \/ din[j].nlink > 0 \/ din[j].type = "none"
         /\ j \in Live(p)' =>
              \/ j \in Live(p) /\ (k[p].stage = "free" => j # k[p].put)
              \/ din[j].nlink > 0 \/ (din[j].type = "none" /\ din'[j].type # "none")
<1>. USE Numbers DEF onDisk, inCache, history
<1>0. /\ k \in [Procs -> Local] /\ ShapeOf(k[p]) /\ k[p] \in Local
      /\ cwd \in [Procs -> Inums] /\ fd \in [Procs -> Inums \cup {None}] /\ strays \subseteq Procs
  BY DEF TypeOK, Shape
<1>. DEFINE Goal == 
         /\ strays = {}
         /\ j \in Refers(p)' \cup {k'[p].put} =>
              \/ j \in Refers(p) \cup {k[p].put}
              \/ din[j].nlink > 0 \/ din[j].type = "none"
         /\ j \in Live(p)' =>
              \/ j \in Live(p) /\ (k[p].stage = "free" => j # k[p].put)
              \/ din[j].nlink > 0 \/ (din[j].type = "none" /\ din'[j].type # "none")
<1>p. ASSUME strays = {}, k[p].stage = "check",
             j \in Refers(p)' \cup {k'[p].put} => j \in Refers(p) \cup {k[p].put} \/ din[j].nlink > 0
      PROVE  Goal
  BY <1>p DEF Live
<1>l. ASSUME NEW i, k' = Leave(p, i), k[p].stage = "check", strays = {},
             i \in {None, cwd[p], fd[p], k[p].ip, k[p].jp}, cwd'[p] \in {cwd[p], k[p].ip},
             fd'[p] \in {None, fd[p], k[p].ip, k[p].jp}
      PROVE  Goal
  <2>1. k'[p].ip = None /\ k'[p].jp = None /\ k'[p].put = i
    BY <1>0, <1>l DEF Leave, AtUser
  <2>. QED  BY <1>l, <1>p, <2>1 DEF Refers
<1>f. ASSUME k' = Fail(p, k[p].ip), k[p].stage = "check", UNCHANGED <<cwd, fd>>, strays = {}
      PROVE  Goal
  <2>1. k'[p].ip = None /\ k'[p].jp \in {None, k[p].jp} /\ k'[p].put = k[p].ip
    BY <1>0, <1>f DEF Fail, Leave, AtUser, Local
  <2>. QED  BY <1>f, <1>p, <2>1 DEF Refers
<1>n. ASSUME NEW n, n \in Inums, n = k[p].ip \/ din[n].nlink > 0,
             {k'[p].ip, k'[p].jp, k'[p].put} \subseteq {None, n, k[p].ip, k[p].jp},
             k[p].stage = "check", UNCHANGED <<cwd, fd>>, strays = {}
      PROVE  Goal
  BY <1>n, <1>p DEF Refers
<1>e. ASSUME NEW n, k[p].rest # <<>>, n = k[p].rest[1], Entry(k[p].ip, n) # None, k[p].ip \in Inums,
             din[k[p].ip].type = "dir", ~Astray(k[p].ip, n)
      PROVE  Entry(k[p].ip, n) \in Inums /\ (Entry(k[p].ip, n) = k[p].ip \/ din[Entry(k[p].ip, n)].nlink > 0)
  BY <1>e, RestType, LookupLinked
<1>1. ASSUME PutCheck(p) PROVE Goal
  <2>1. k' = [k EXCEPT ![p].stage = "free"] \/ k' = [k EXCEPT ![p].stage = "drop"]
    BY <1>1 DEF PutCheck
  <2>2. /\ k'[p].ip = k[p].ip /\ k'[p].jp = k[p].jp /\ k'[p].put = k[p].put
        /\ k[p].stage = "check" /\ UNCHANGED <<cwd, fd, strays>>
    BY <1>1, <1>0, <2>1 DEF PutCheck, Local
  <2>. QED  BY <1>p, <2>2 DEF Refers
<1>2. ASSUME PutFree(p) PROVE Goal
  <2>1. /\ k'[p].ip = k[p].ip /\ k'[p].jp = k[p].jp /\ k'[p].put = k[p].put /\ k'[p].stage = "drop"
        /\ k[p].stage = "free" /\ UNCHANGED <<cwd, fd, strays>>
    BY <1>2, <1>0 DEF PutFree, Local
  <2>2. k[p].put \notin Refers(p)
    BY <2>1 DEF FreeInv
  <2>. QED  BY <2>1, <2>2 DEF Refers, Live
<1>3. ASSUME PutDrop(p) PROVE Goal
  <2>1. /\ k'[p].ip = k[p].ip /\ k'[p].jp = k[p].jp /\ k'[p].put = None /\ k'[p].stage = "check"
        /\ k[p].stage = "drop" /\ UNCHANGED <<cwd, fd, strays>>
    BY <1>3, <1>0 DEF PutDrop, Local
  <2>. QED  BY <2>1 DEF Refers, Live
<1>4. ASSUME BadInode(p) PROVE Goal
  <2>1. UNCHANGED <<cwd, fd, k, strays>> /\ k[p].put = None
    BY <1>4 DEF BadInode, NoInodes, Panic, Locks
  <2>2. k[p].stage = "check"
    BY <1>0, <2>1 DEF ShapeOf
  <2>. QED  BY <1>p, <2>1, <2>2 DEF Refers
<1>5. ASSUME Walk(p) PROVE Goal
  <2>1. /\ k[p].pc = "walk" /\ k[p].ip \in Inums /\ k[p].stage = "check" /\ k[p].rest # <<>>
        /\ Inode(k[p].ip) = din[k[p].ip] /\ UNCHANGED <<cwd, fd>>
    BY <1>5, LocksAt, InodeIsDisk DEF Walk
  <2>2. CASE k' = Fail(p, k[p].ip) /\ UNCHANGED strays
    BY <2>1, <2>2, <1>f
  <2>3. CASE k' = [k EXCEPT ![p].pc = k[p].call] /\ UNCHANGED strays
    <3>1. k'[p].ip = k[p].ip /\ k'[p].jp = k[p].jp /\ k'[p].put = k[p].put
      BY <1>0, <2>3 DEF Local
    <3>. QED  BY <1>p, <2>1, <2>3, <3>1 DEF Refers
  <2>. DEFINE next == Entry(k[p].ip, Head(k[p].rest))
              rest == Tail(k[p].rest)
              pc == NextPc(k[p].call, rest)
  <2>4. CASE /\ next # None /\ Inode(k[p].ip).type = "dir"
             /\ k' = [k EXCEPT ![p].ip = next, ![p].put = k[p].ip, ![p].rest = rest, ![p].pc = pc]
             /\ strays' = IF Astray(k[p].ip, Head(k[p].rest)) THEN strays \cup {p} ELSE strays
    <3>1. ~Astray(k[p].ip, Head(k[p].rest)) /\ strays = {}
      BY <2>4
    <3>2. Head(k[p].rest) = k[p].rest[1]
      BY <2>1, RestType
    <3>3. next \in Inums /\ (next = k[p].ip \/ din[next].nlink > 0)
      BY <1>e, <2>1, <2>4, <3>1, <3>2
    <3>4. k' = [k EXCEPT ![p].ip = next, ![p].put = k[p].ip, ![p].rest = rest, ![p].pc = pc]
      BY <2>4
    <3>. HIDE DEF next, rest, pc
    <3>5. k'[p].ip = next /\ k'[p].put = k[p].ip /\ k'[p].jp = k[p].jp
      BY <1>0, <3>4 DEF Local
    <3>. QED  BY <1>n, <2>1, <3>1, <3>3, <3>5
  <2>5. \/ k' = Fail(p, k[p].ip) /\ UNCHANGED strays
        \/ k' = [k EXCEPT ![p].pc = k[p].call] /\ UNCHANGED strays
        \/ /\ next # None /\ Inode(k[p].ip).type = "dir"
           /\ k' = [k EXCEPT ![p].ip = next, ![p].put = k[p].ip, ![p].rest = rest, ![p].pc = pc]
           /\ strays' = IF Astray(k[p].ip, Head(k[p].rest)) THEN strays \cup {p} ELSE strays
    BY <1>5, Zenon DEF Walk
  <2>. QED  BY <2>2, <2>3, <2>4, <2>5
<1>6. ASSUME WalkNoParent(p) PROVE Goal
  BY <1>6, <1>0, <1>f DEF WalkNoParent, At, ShapeOf
<1>7. ASSUME Open(p) PROVE Goal
  <2>1. k[p].stage = "check" /\ strays = {} /\ cwd'[p] = cwd[p]
    BY <1>7, LocksAt DEF Open, CreateOld
  <2>2. \/ k' = Leave(p, k[p].ip) /\ UNCHANGED fd
        \/ k' = Leave(p, None) /\ fd' = [fd EXCEPT ![p] = k[p].ip]
    BY <1>7 DEF Open, CreateOld, Opened
  <2>. QED  BY <1>0, <1>l, <2>1, <2>2
<1>8. ASSUME Close(p) PROVE Goal
  BY <1>8, <1>0, <1>l DEF Close, AtUser
<1>9. ASSUME Chdir(p) PROVE Goal
  <2>1. k[p].stage = "check" /\ strays = {} /\ fd'[p] = fd[p]
    BY <1>9, LocksAt DEF Chdir
  <2>2. \/ k' = Leave(p, k[p].ip) /\ UNCHANGED cwd
        \/ k' = Leave(p, cwd[p]) /\ cwd' = [cwd EXCEPT ![p] = k[p].ip]
    BY <1>9 DEF Chdir
  <2>. QED  BY <1>0, <1>l, <2>1, <2>2
<1>10. ASSUME CreateFound(p) PROVE Goal
  <2>1. /\ k[p].pc \in {"create", "mkdir", "linkdir"} /\ k[p].ip \in Inums /\ k[p].stage = "check"
        /\ k[p].put = None /\ UNCHANGED <<cwd, fd>>
    BY <1>10, LocksAt DEF CreateFound, LinkTaken
  <2>2. k[p].rest # <<>> /\ din[k[p].ip].type = "dir"
    BY <1>0, <2>1 DEF ShapeOf, CallInv
  <2>. DEFINE found == Entry(k[p].ip, k[p].rest[1])
  <2>3. /\ found # None /\ ~Astray(k[p].ip, k[p].rest[1]) /\ strays = {}
        /\ \/ k' = [k EXCEPT ![p].pc = "old", ![p].ip = found, ![p].put = k[p].ip]
           \/ k' = [k EXCEPT ![p].pc = "unlock", ![p].put = found]
    BY <1>10 DEF CreateFound, LinkTaken
  <2>4. found \in Inums /\ (found = k[p].ip \/ din[found].nlink > 0)
    BY <1>e, <2>1, <2>2, <2>3
  <2>. HIDE DEF found
  <2>5. {k'[p].ip, k'[p].jp, k'[p].put} \subseteq {None, found, k[p].ip, k[p].jp}
    <3>1. CASE k' = [k EXCEPT ![p].pc = "old", ![p].ip = found, ![p].put = k[p].ip]
      BY <1>0, <3>1 DEF Local
    <3>2. CASE k' = [k EXCEPT ![p].pc = "unlock", ![p].put = found]
      BY <1>0, <3>2 DEF Local
    <3>. QED  BY <2>3, <3>1, <3>2
  <2>. QED  BY <1>n, <2>1, <2>3, <2>4, <2>5
<1>11. ASSUME CreateOld(p) PROVE Goal
  <2>1. k[p].stage = "check" /\ strays = {} /\ cwd'[p] = cwd[p]
    BY <1>11, LocksAt DEF Open, CreateOld
  <2>2. \/ k' = Leave(p, k[p].ip) /\ UNCHANGED fd
        \/ k' = Leave(p, None) /\ fd' = [fd EXCEPT ![p] = k[p].ip]
    BY <1>11 DEF Open, CreateOld, Opened
  <2>. QED  BY <1>0, <1>l, <2>1, <2>2
<1>12. ASSUME CreateAlloc(p) PROVE Goal
  <2>. DEFINE i == CHOOSE h \in Free : \A g \in Free : h <= g
  <2>1. i \in Inums /\ din[i].type = "none"
    BY <1>12, LeastFree DEF CreateAlloc, Free
  <2>2. /\ din' = [din EXCEPT ![i] = [type |-> IF k[p].call = "mkdir" THEN "dir" ELSE "file", nlink |-> 0]]
        /\ k' = [k EXCEPT ![p].pc = "init", ![p].jp = i] /\ UNCHANGED <<cwd, fd, strays>>
    BY <1>12 DEF CreateAlloc
  <2>3. k[p].stage = "check" /\ k[p].put = None
    BY <1>12, LocksAt DEF CreateAlloc
  <2>. HIDE DEF i
  <2>4. k'[p].ip = k[p].ip /\ k'[p].jp = i /\ k'[p].put = None /\ k'[p].stage = "check"
    BY <1>0, <2>2, <2>3 DEF Local
  <2>5. din'[i].type # "none"
    BY <2>1, <2>2 DEF TypeOK
  <2>. QED  BY <2>1, <2>2, <2>3, <2>4, <2>5 DEF Refers, Live
<1>13. ASSUME NoInodes(p) PROVE Goal
  <2>1. UNCHANGED <<cwd, fd, k, strays>> /\ k[p].put = None
    BY <1>13 DEF BadInode, NoInodes, Panic, Locks
  <2>2. k[p].stage = "check"
    BY <1>0, <2>1 DEF ShapeOf
  <2>. QED  BY <1>p, <2>1, <2>2 DEF Refers
<1>14. ASSUME CreateInit(p) PROVE Goal
  <2>1. k[p].stage = "check" /\ UNCHANGED <<cwd, fd, strays>>
    BY <1>14, LocksAt DEF CreateInit
  <2>2. k'[p].ip = None /\ k'[p].jp = k[p].jp /\ k'[p].put = k[p].ip
    BY <1>14, <1>0 DEF CreateInit, Local
  <2>. QED  BY <1>p, <2>1, <2>2 DEF Refers
<1>15. ASSUME CreateEnd(p) PROVE Goal
  <2>1. k[p].stage = "check" /\ strays = {} /\ cwd'[p] = cwd[p]
    BY <1>15, <1>0 DEF CreateEnd, At, ShapeOf
  <2>2. \/ k' = Leave(p, k[p].jp) /\ UNCHANGED fd
        \/ k' = Leave(p, None) /\ fd' = [fd EXCEPT ![p] = k[p].jp]
    BY <1>15 DEF CreateEnd, Opened
  <2>. QED  BY <1>0, <1>l, <2>1, <2>2
<1>16. ASSUME UnlinkLookup(p) PROVE Goal
  <2>1. /\ k[p].pc = "unlink" /\ k[p].ip \in Inums /\ k[p].stage = "check"
        /\ k[p].put = None /\ UNCHANGED <<cwd, fd, strays>>
    BY <1>16, LocksAt DEF UnlinkLookup
  <2>2. k[p].rest # <<>> /\ din[k[p].ip].type = "dir"
    BY <1>0, <2>1 DEF ShapeOf, CallInv
  <2>. DEFINE found == Entry(k[p].ip, k[p].rest[1])
  <2>3. \/ k' = Leave(p, k[p].ip)
        \/ found # None /\ k[p].rest[1] \in Names /\ k' = [k EXCEPT ![p].pc = "unlink_ip", ![p].jp = found]
    BY <1>16, Zenon DEF UnlinkLookup
  <2>4. CASE k' = Leave(p, k[p].ip)
    BY <1>l, <2>1, <2>4
  <2>5. CASE found # None /\ k[p].rest[1] \in Names /\ k' = [k EXCEPT ![p].pc = "unlink_ip", ![p].jp = found]
    <3>1. ~Astray(k[p].ip, k[p].rest[1])
      BY <2>5, InodesAssumption DEF Astray
    <3>2. found \in Inums /\ (found = k[p].ip \/ din[found].nlink > 0)
      BY <1>e, <2>1, <2>2, <2>5, <3>1
    <3>3. k' = [k EXCEPT ![p].pc = "unlink_ip", ![p].jp = found]
      BY <2>5
    <3>. HIDE DEF found
    <3>4. k'[p].ip = k[p].ip /\ k'[p].jp = found /\ k'[p].put = None
      BY <1>0, <2>1, <3>3 DEF Local
    <3>. QED  BY <1>n, <2>1, <3>2, <3>4
  <2>. QED  BY <2>3, <2>4, <2>5
<1>17. ASSUME UnlinkNot(p) PROVE Goal
  <2>1. k[p].stage = "check" /\ UNCHANGED <<cwd, fd, strays>>
    BY <1>17, LocksAt DEF UnlinkNot
  <2>2. k'[p].ip = k[p].ip /\ k'[p].jp = None /\ k'[p].put = k[p].jp
    BY <1>17, <1>0 DEF UnlinkNot, Local
  <2>. QED  BY <1>p, <2>1, <2>2 DEF Refers
<1>18. ASSUME UnlinkEntry(p) PROVE Goal
  <2>1. k[p].stage = "check" /\ UNCHANGED <<cwd, fd, strays>>
    BY <1>18, LocksAt DEF UnlinkEntry
  <2>2. k'[p].ip = None /\ k'[p].jp = k[p].jp /\ k'[p].put = k[p].ip
    BY <1>18, <1>0 DEF UnlinkEntry, Local
  <2>. QED  BY <1>p, <2>1, <2>2 DEF Refers
<1>19. ASSUME UnlinkEnd(p) PROVE Goal
  <2>1. k[p].stage = "check" /\ UNCHANGED <<cwd, fd, strays>> /\ k' = Leave(p, k[p].jp)
    BY <1>19, <1>0 DEF UnlinkEnd, LinkEnd, At, ShapeOf
  <2>. QED  BY <1>l, <2>1
<1>20. ASSUME UnlockDir(p) PROVE Goal
  BY <1>20, <1>0, <1>f DEF UnlockDir, At, ShapeOf
<1>21. ASSUME LinkCount(p) PROVE Goal
  <2>1. k[p].stage = "check" /\ UNCHANGED <<cwd, fd, strays>>
    BY <1>21, LocksAt DEF LinkCount
  <2>. DEFINE start == StartOf(p, k[p].new)
  <2>2. \/ k' = Leave(p, k[p].ip)
        \/ k' = [k EXCEPT ![p] = [AtUser EXCEPT !.pc = "walk", !.call = "linkdir",
                                   !.rest = k[p].new.names, !.ip = start, !.jp = k[p].ip]]
    BY <1>21 DEF LinkCount
  <2>3. start = cwd[p] \/ (start \in Inums /\ din[start].nlink > 0)
    <3>1. Root \in Inums /\ din[Root].nlink > 0
      BY Linked, Numbers
    <3>2. start = cwd[p] \/ start = Root
      BY DEF StartOf
    <3>. QED  BY <3>1, <3>2
  <2>. HIDE DEF start
  <2>4. CASE k' = Leave(p, k[p].ip)
    BY <1>l, <2>1, <2>4
  <2>5. CASE k' = [k EXCEPT ![p] = [AtUser EXCEPT !.pc = "walk", !.call = "linkdir",
                                   !.rest = k[p].new.names, !.ip = start, !.jp = k[p].ip]]
    <3>1. k'[p].ip = start /\ k'[p].jp = k[p].ip /\ k'[p].put = None
      BY <1>0, <2>5 DEF AtUser
    <3>. QED  BY <1>p, <2>1, <2>3, <3>1 DEF Refers
  <2>. QED  BY <2>2, <2>4, <2>5
<1>22. ASSUME LinkTaken(p) PROVE Goal
  <2>1. /\ k[p].pc \in {"create", "mkdir", "linkdir"} /\ k[p].ip \in Inums /\ k[p].stage = "check"
        /\ k[p].put = None /\ UNCHANGED <<cwd, fd>>
    BY <1>22, LocksAt DEF CreateFound, LinkTaken
  <2>2. k[p].rest # <<>> /\ din[k[p].ip].type = "dir"
    BY <1>0, <2>1 DEF ShapeOf, CallInv
  <2>. DEFINE found == Entry(k[p].ip, k[p].rest[1])
  <2>3. /\ found # None /\ ~Astray(k[p].ip, k[p].rest[1]) /\ strays = {}
        /\ \/ k' = [k EXCEPT ![p].pc = "old", ![p].ip = found, ![p].put = k[p].ip]
           \/ k' = [k EXCEPT ![p].pc = "unlock", ![p].put = found]
    BY <1>22 DEF CreateFound, LinkTaken
  <2>4. found \in Inums /\ (found = k[p].ip \/ din[found].nlink > 0)
    BY <1>e, <2>1, <2>2, <2>3
  <2>. HIDE DEF found
  <2>5. {k'[p].ip, k'[p].jp, k'[p].put} \subseteq {None, found, k[p].ip, k[p].jp}
    <3>1. CASE k' = [k EXCEPT ![p].pc = "old", ![p].ip = found, ![p].put = k[p].ip]
      BY <1>0, <3>1 DEF Local
    <3>2. CASE k' = [k EXCEPT ![p].pc = "unlock", ![p].put = found]
      BY <1>0, <3>2 DEF Local
    <3>. QED  BY <2>3, <3>1, <3>2
  <2>. QED  BY <1>n, <2>1, <2>3, <2>4, <2>5
<1>23. ASSUME LinkEntry(p) PROVE Goal
  <2>1. k[p].stage = "check" /\ UNCHANGED <<cwd, fd, strays>>
    BY <1>23, LocksAt DEF LinkEntry
  <2>2. k'[p].ip = None /\ k'[p].jp = k[p].jp /\ k'[p].put = k[p].ip
    BY <1>23, <1>0 DEF LinkEntry, Local
  <2>. QED  BY <1>p, <2>1, <2>2 DEF Refers
<1>24. ASSUME LinkEnd(p) PROVE Goal
  <2>1. k[p].stage = "check" /\ UNCHANGED <<cwd, fd, strays>> /\ k' = Leave(p, k[p].jp)
    BY <1>24, <1>0 DEF UnlinkEnd, LinkEnd, At, ShapeOf
  <2>. QED  BY <1>l, <2>1
<1>25. ASSUME LinkUndo(p) PROVE Goal
  <2>1. k[p].stage = "check" /\ UNCHANGED <<cwd, fd, strays>> /\ k' = Leave(p, k[p].jp)
    BY <1>25, LocksAt DEF LinkUndo
  <2>. QED  BY <1>l, <2>1
<1>26. ASSUME NEW call \in CallNames \ {"none", "linkdir"}, NEW path \in NamePaths \cup ParentPaths,
            NEW new \in ParentPaths \cup {NoPath}, Call(p, call, path, new)
     PROVE  Goal
  <2>. DEFINE start == StartOf(p, path)
              pc == NextPc(call, path.names)
  <2>1. /\ k[p] = AtUser /\ UNCHANGED <<cwd, fd, strays>>
        /\ k' = [k EXCEPT ![p] = [AtUser EXCEPT !.pc = pc, !.call = call, !.rest = path.names, !.new = new, !.ip = start]]
    BY <1>26 DEF Call
  <2>2. start = cwd[p] \/ (start \in Inums /\ din[start].nlink > 0)
    <3>1. Root \in Inums /\ din[Root].nlink > 0
      BY Linked, Numbers
    <3>2. start = cwd[p] \/ start = Root
      BY DEF StartOf
    <3>. QED  BY <3>1, <3>2
  <2>. HIDE DEF start, pc
  <2>3. k'[p].ip = start /\ k'[p].jp = None /\ k'[p].put = None /\ k[p].stage = "check"
    BY <1>0, <2>1 DEF AtUser
  <2>. QED  BY <1>p, <2>1, <2>2, <2>3 DEF Refers
<1>. QED  BY <1>1, <1>2, <1>3, <1>4, <1>5, <1>6, <1>7, <1>8, <1>9, <1>10, <1>11, <1>12, <1>13,
             <1>14, <1>15, <1>16, <1>17, <1>18, <1>19, <1>20, <1>21, <1>22, <1>23, <1>24, <1>25,
             <1>26, CallsIsCall DEF Step

-----------------------------------------------------------------------------
(* What is allocated, freed, made and looked up *)

(* Where a process can have arrived with a step.                             *)
OnDir == {"create", "mkdir", "unlink", "linkdir", "init", "unlink_ip"}

(* How a process gets to the places that the invariant speaks of.            *)
LEMMA Arrive ==
  ASSUME TypeOK, Shape, NEW p \in Procs, Calls(p) \/ Step(p)
  PROVE  /\ k'[p].stage = "free" => PutCheck(p)
         /\ k'[p].pc = "init" => CreateAlloc(p) \/ BadInode(p) \/ NoInodes(p)
         /\ k'[p].pc = "unlink_ip" => UnlinkLookup(p) \/ BadInode(p) \/ NoInodes(p)
         /\ k'[p].pc \in OnDir => k'[p].ip = k[p].ip /\ (k[p].pc \in OnDir \/ Inode(k[p].ip).type = "dir")
         /\ k'[p].call = "linkdir" => \/ k[p].call = "linkdir" /\ k'[p].jp = k[p].jp
                                      \/ k'[p].jp = k[p].ip /\ Inode(k[p].ip).type # "dir" /\ LinkCount(p)
<1>. USE Numbers DEF onDisk, inCache, history
<1>0. k \in [Procs -> Local] /\ ShapeOf(k[p]) /\ k[p] \in Local
  BY DEF TypeOK, Shape
<1>. DEFINE Goal ==
         /\ k'[p].stage = "free" => PutCheck(p)
         /\ k'[p].pc = "init" => CreateAlloc(p) \/ BadInode(p) \/ NoInodes(p)
         /\ k'[p].pc = "unlink_ip" => UnlinkLookup(p) \/ BadInode(p) \/ NoInodes(p)
         /\ k'[p].pc \in OnDir => k'[p].ip = k[p].ip /\ (k[p].pc \in OnDir \/ Inode(k[p].ip).type = "dir")
         /\ k'[p].call = "linkdir" => \/ k[p].call = "linkdir" /\ k'[p].jp = k[p].jp
                                      \/ k'[p].jp = k[p].ip /\ Inode(k[p].ip).type # "dir" /\ LinkCount(p)
<1>a. ASSUME k'[p].stage = "check", k'[p].pc \notin OnDir,
             k'[p].call = "linkdir" => k[p].call = "linkdir" /\ k'[p].jp = k[p].jp
      PROVE  Goal
  BY <1>a DEF OnDir
<1>l. ASSUME NEW i, k' = Leave(p, i) PROVE Goal
  <2>1. k'[p].pc = "user" /\ k'[p].stage = "check" /\ k'[p].call = "none"
    BY <1>0, <1>l DEF Leave, AtUser
  <2>. QED  BY <1>a, <2>1 DEF OnDir
<1>f. ASSUME NEW i, k' = Fail(p, i), k[p].stage = "check" PROVE Goal
  <2>1. CASE k[p].call # "linkdir"
    BY <1>f, <1>l, <2>1 DEF Fail
  <2>2. CASE k[p].call = "linkdir"
    <3>1. k'[p].pc = "undo" /\ k'[p].stage = "check" /\ k'[p].jp = k[p].jp
      BY <1>0, <1>f, <2>2 DEF Fail, Local
    <3>. QED  BY <1>a, <2>2, <3>1 DEF OnDir
  <2>. QED  BY <2>1, <2>2
<1>1. ASSUME PutCheck(p) PROVE Goal
  <2>1. k' = [k EXCEPT ![p].stage = "free"] \/ k' = [k EXCEPT ![p].stage = "drop"]
    BY <1>1 DEF PutCheck
  <2>2. k'[p].pc = k[p].pc /\ k'[p].ip = k[p].ip /\ k'[p].jp = k[p].jp /\ k'[p].call = k[p].call
    BY <1>0, <2>1 DEF Local
  <2>3. k[p].pc \notin {"init", "unlink_ip"}
    BY <1>1, <1>0 DEF PutCheck, ShapeOf
  <2>. QED  BY <1>1, <2>2, <2>3
<1>2. ASSUME PutFree(p) PROVE Goal
  <2>1. k'[p].pc = k[p].pc /\ k'[p].ip = k[p].ip /\ k'[p].jp = k[p].jp /\ k'[p].call = k[p].call /\ k'[p].stage # "free"
    BY <1>2, <1>0 DEF PutFree, PutDrop, Local
  <2>2. k[p].pc \notin {"init", "unlink_ip"}
    BY <1>2, <1>0 DEF PutFree, PutDrop, ShapeOf
  <2>. QED  BY <2>1, <2>2
<1>3. ASSUME PutDrop(p) PROVE Goal
  <2>1. k'[p].pc = k[p].pc /\ k'[p].ip = k[p].ip /\ k'[p].jp = k[p].jp /\ k'[p].call = k[p].call /\ k'[p].stage # "free"
    BY <1>3, <1>0 DEF PutFree, PutDrop, Local
  <2>2. k[p].pc \notin {"init", "unlink_ip"}
    BY <1>3, <1>0 DEF PutFree, PutDrop, ShapeOf
  <2>. QED  BY <2>1, <2>2
<1>4. ASSUME BadInode(p) PROVE Goal
  <2>1. UNCHANGED k /\ k[p].put = None
    BY <1>4 DEF BadInode, NoInodes, Panic, Locks
  <2>2. k[p].stage = "check"
    BY <1>0, <2>1 DEF ShapeOf
  <2>. QED  BY <1>4, <2>1, <2>2
<1>5. ASSUME Walk(p) PROVE Goal
  <2>. DEFINE ip == Entry(k[p].ip, Head(k[p].rest))
              put == k[p].ip
              rest == Tail(k[p].rest)
              pc == NextPc(k[p].call, rest)
  <2>1. k[p].pc = "walk" /\ k[p].stage = "check"
    BY <1>5, LocksAt DEF Walk
  <2>2. \/ k' = Fail(p, k[p].ip)
        \/ k' = [k EXCEPT ![p].pc = k[p].call] /\ OfParent(k[p].call) /\ Inode(k[p].ip).type = "dir"
        \/ k' = [k EXCEPT ![p].ip = ip, ![p].put = put, ![p].rest = rest, ![p].pc = pc]
    BY <1>5, Zenon DEF Walk
  <2>3. CASE k' = [k EXCEPT ![p].pc = k[p].call] /\ OfParent(k[p].call) /\ Inode(k[p].ip).type = "dir"
    <3>1. /\ k'[p].pc = k[p].call /\ k'[p].ip = k[p].ip /\ k'[p].jp = k[p].jp /\ k'[p].call = k[p].call
          /\ k'[p].stage = "check" /\ k[p].call \notin {"init", "unlink_ip"} /\ Inode(k[p].ip).type = "dir"
      BY <1>0, <2>1, <2>3 DEF Local, OfParent
    <3>. QED  BY <3>1
  <2>4. pc \notin OnDir
    <3>1. k[p].call \in CallNames
      BY <1>0 DEF Local
    <3>. QED  BY <3>1 DEF NextPc, OfParent, OnDir, CallNames
  <2>. HIDE DEF ip, put, rest, pc
  <2>5. CASE k' = [k EXCEPT ![p].ip = ip, ![p].put = put, ![p].rest = rest, ![p].pc = pc]
    <3>1. k'[p].pc = pc /\ k'[p].jp = k[p].jp /\ k'[p].call = k[p].call /\ k'[p].stage = "check"
      BY <1>0, <2>1, <2>5 DEF Local
    <3>. QED  BY <1>a, <2>4, <3>1
  <2>. QED  BY <1>f, <2>1, <2>2, <2>3, <2>5
<1>6. ASSUME WalkNoParent(p) PROVE Goal
  BY <1>6, <1>0, <1>f DEF WalkNoParent, UnlockDir, At, ShapeOf
<1>7. ASSUME Open(p) PROVE Goal
  <2>1. PICK i : k' = Leave(p, i)
    BY <1>7 DEF Open, CreateOld, Opened, Chdir, LinkUndo, CreateEnd, UnlinkEnd, Close, LinkEnd
  <2>. QED  BY <1>l, <2>1
<1>8. ASSUME Close(p) PROVE Goal
  <2>1. PICK i : k' = Leave(p, i)
    BY <1>8 DEF Open, CreateOld, Opened, Chdir, LinkUndo, CreateEnd, UnlinkEnd, Close, LinkEnd
  <2>. QED  BY <1>l, <2>1
<1>9. ASSUME Chdir(p) PROVE Goal
  <2>1. PICK i : k' = Leave(p, i)
    BY <1>9 DEF Open, CreateOld, Opened, Chdir, LinkUndo, CreateEnd, UnlinkEnd, Close, LinkEnd
  <2>. QED  BY <1>l, <2>1
<1>10. ASSUME CreateFound(p) PROVE Goal
  <2>1. k[p].stage = "check"
    BY <1>10, LocksAt DEF CreateFound, LinkTaken
  <2>2. /\ k'[p].pc \in {"old", "unlock"} /\ k'[p].jp = k[p].jp /\ k'[p].call = k[p].call
        /\ k'[p].stage = "check"
    BY <1>10, <1>0, <2>1 DEF CreateFound, LinkTaken, Local
  <2>. QED  BY <1>a, <2>2 DEF OnDir
<1>11. ASSUME CreateOld(p) PROVE Goal
  <2>1. PICK i : k' = Leave(p, i)
    BY <1>11 DEF Open, CreateOld, Opened, Chdir, LinkUndo, CreateEnd, UnlinkEnd, Close, LinkEnd
  <2>. QED  BY <1>l, <2>1
<1>12. ASSUME CreateAlloc(p) PROVE Goal
  <2>1. k[p].pc \in {"create", "mkdir"} /\ k[p].stage = "check"
    BY <1>12, LocksAt DEF CreateAlloc
  <2>2. k[p].call \in {"create", "mkdir"}
    BY <1>0, <2>1 DEF ShapeOf
  <2>3. k'[p].pc = "init" /\ k'[p].ip = k[p].ip /\ k'[p].call = k[p].call /\ k'[p].stage = "check"
    BY <1>12, <1>0, <2>1 DEF CreateAlloc, Local
  <2>. QED  BY <1>12, <2>1, <2>2, <2>3 DEF OnDir
<1>13. ASSUME NoInodes(p) PROVE Goal
  <2>1. UNCHANGED k /\ k[p].put = None
    BY <1>13 DEF BadInode, NoInodes, Panic, Locks
  <2>2. k[p].stage = "check"
    BY <1>0, <2>1 DEF ShapeOf
  <2>. QED  BY <1>13, <2>1, <2>2
<1>14. ASSUME CreateInit(p) PROVE Goal
  <2>1. k[p].stage = "check" /\ (k[p].call = "linkdir" => k[p].pc = "linkdir")
    BY <1>14, <1>0, LocksAt DEF CreateInit, UnlinkEntry, LinkEntry, UnlinkNot, ShapeOf
  <2>2. /\ k'[p].pc \in {"made", "unlinked", "linked", "unlock"} /\ k'[p].call = k[p].call
        /\ k'[p].stage = "check" /\ (k[p].call = "linkdir" => k'[p].jp = k[p].jp)
    BY <1>14, <1>0, <2>1, LocksAt DEF CreateInit, UnlinkEntry, LinkEntry, UnlinkNot, Local
  <2>. QED  BY <1>a, <2>1, <2>2 DEF OnDir
<1>15. ASSUME CreateEnd(p) PROVE Goal
  <2>1. PICK i : k' = Leave(p, i)
    BY <1>15 DEF Open, CreateOld, Opened, Chdir, LinkUndo, CreateEnd, UnlinkEnd, Close, LinkEnd
  <2>. QED  BY <1>l, <2>1
<1>16. ASSUME UnlinkLookup(p) PROVE Goal
  <2>1. k[p].pc = "unlink" /\ k[p].stage = "check" /\ k[p].call = "unlink"
    BY <1>16, <1>0, LocksAt DEF UnlinkLookup, ShapeOf
  <2>2. \/ k' = Leave(p, k[p].ip)
        \/ \E jp : k' = [k EXCEPT ![p].pc = "unlink_ip", ![p].jp = jp]
    BY <1>16, Zenon DEF UnlinkLookup
  <2>3. CASE \E jp : k' = [k EXCEPT ![p].pc = "unlink_ip", ![p].jp = jp]
    <3>1. k'[p].pc = "unlink_ip" /\ k'[p].ip = k[p].ip /\ k'[p].call = k[p].call /\ k'[p].stage = "check"
      BY <1>0, <2>1, <2>3 DEF Local
    <3>. QED  BY <1>16, <2>1, <3>1 DEF OnDir
  <2>. QED  BY <1>l, <2>2, <2>3
<1>17. ASSUME UnlinkNot(p) PROVE Goal
  <2>1. k[p].stage = "check" /\ (k[p].call = "linkdir" => k[p].pc = "linkdir")
    BY <1>17, <1>0, LocksAt DEF CreateInit, UnlinkEntry, LinkEntry, UnlinkNot, ShapeOf
  <2>2. /\ k'[p].pc \in {"made", "unlinked", "linked", "unlock"} /\ k'[p].call = k[p].call
        /\ k'[p].stage = "check" /\ (k[p].call = "linkdir" => k'[p].jp = k[p].jp)
    BY <1>17, <1>0, <2>1, LocksAt DEF CreateInit, UnlinkEntry, LinkEntry, UnlinkNot, Local
  <2>. QED  BY <1>a, <2>1, <2>2 DEF OnDir
<1>18. ASSUME UnlinkEntry(p) PROVE Goal
  <2>1. k[p].stage = "check" /\ (k[p].call = "linkdir" => k[p].pc = "linkdir")
    BY <1>18, <1>0, LocksAt DEF CreateInit, UnlinkEntry, LinkEntry, UnlinkNot, ShapeOf
  <2>2. /\ k'[p].pc \in {"made", "unlinked", "linked", "unlock"} /\ k'[p].call = k[p].call
        /\ k'[p].stage = "check" /\ (k[p].call = "linkdir" => k'[p].jp = k[p].jp)
    BY <1>18, <1>0, <2>1, LocksAt DEF CreateInit, UnlinkEntry, LinkEntry, UnlinkNot, Local
  <2>. QED  BY <1>a, <2>1, <2>2 DEF OnDir
<1>19. ASSUME UnlinkEnd(p) PROVE Goal
  <2>1. PICK i : k' = Leave(p, i)
    BY <1>19 DEF Open, CreateOld, Opened, Chdir, LinkUndo, CreateEnd, UnlinkEnd, Close, LinkEnd
  <2>. QED  BY <1>l, <2>1
<1>20. ASSUME UnlockDir(p) PROVE Goal
  BY <1>20, <1>0, <1>f DEF WalkNoParent, UnlockDir, At, ShapeOf
<1>21. ASSUME LinkCount(p) PROVE Goal
  <2>1. k[p].stage = "check"
    BY <1>21, LocksAt DEF LinkCount
  <2>2. CASE k' = Leave(p, k[p].ip)
    BY <1>l, <2>2
  <2>3. ASSUME NEW rest, NEW ip, Inode(k[p].ip).type # "dir",
               k' = [k EXCEPT ![p] = [AtUser EXCEPT !.pc = "walk", !.call = "linkdir", !.rest = rest,
                                                     !.ip = ip, !.jp = k[p].ip]]
        PROVE  Goal
    <3>1. k'[p].pc = "walk" /\ k'[p].jp = k[p].ip /\ k'[p].stage = "check"
      BY <1>0, <2>3 DEF AtUser
    <3>. QED  BY <1>21, <2>3, <3>1 DEF OnDir
  <2>4. \/ k' = Leave(p, k[p].ip)
        \/ /\ Inode(k[p].ip).type # "dir"
           /\ k' = [k EXCEPT ![p] = [AtUser EXCEPT !.pc = "walk", !.call = "linkdir", !.rest = k[p].new.names,
                                                     !.ip = StartOf(p, k[p].new), !.jp = k[p].ip]]
    BY <1>21 DEF LinkCount
  <2>. QED  BY <2>2, <2>3, <2>4
<1>22. ASSUME LinkTaken(p) PROVE Goal
  <2>1. k[p].stage = "check"
    BY <1>22, LocksAt DEF CreateFound, LinkTaken
  <2>2. /\ k'[p].pc \in {"old", "unlock"} /\ k'[p].jp = k[p].jp /\ k'[p].call = k[p].call
        /\ k'[p].stage = "check"
    BY <1>22, <1>0, <2>1 DEF CreateFound, LinkTaken, Local
  <2>. QED  BY <1>a, <2>2 DEF OnDir
<1>23. ASSUME LinkEntry(p) PROVE Goal
  <2>1. k[p].stage = "check" /\ (k[p].call = "linkdir" => k[p].pc = "linkdir")
    BY <1>23, <1>0, LocksAt DEF CreateInit, UnlinkEntry, LinkEntry, UnlinkNot, ShapeOf
  <2>2. /\ k'[p].pc \in {"made", "unlinked", "linked", "unlock"} /\ k'[p].call = k[p].call
        /\ k'[p].stage = "check" /\ (k[p].call = "linkdir" => k'[p].jp = k[p].jp)
    BY <1>23, <1>0, <2>1, LocksAt DEF CreateInit, UnlinkEntry, LinkEntry, UnlinkNot, Local
  <2>. QED  BY <1>a, <2>1, <2>2 DEF OnDir
<1>24. ASSUME LinkEnd(p) PROVE Goal
  <2>1. PICK i : k' = Leave(p, i)
    BY <1>24 DEF Open, CreateOld, Opened, Chdir, LinkUndo, CreateEnd, UnlinkEnd, Close, LinkEnd
  <2>. QED  BY <1>l, <2>1
<1>25. ASSUME LinkUndo(p) PROVE Goal
  <2>1. PICK i : k' = Leave(p, i)
    BY <1>25 DEF Open, CreateOld, Opened, Chdir, LinkUndo, CreateEnd, UnlinkEnd, Close, LinkEnd
  <2>. QED  BY <1>l, <2>1
<1>26. ASSUME NEW call \in CallNames \ {"none", "linkdir"}, NEW path \in NamePaths \cup ParentPaths,
            NEW new \in ParentPaths \cup {NoPath}, Call(p, call, path, new)
     PROVE  Goal
  <2>. DEFINE pc == NextPc(call, path.names)
              start == StartOf(p, path)
  <2>1. k' = [k EXCEPT ![p] = [AtUser EXCEPT !.pc = pc, !.call = call, !.rest = path.names, !.new = new, !.ip = start]]
    BY <1>26 DEF Call
  <2>2. pc \notin OnDir
    BY DEF NextPc, OfParent, OnDir, CallNames
  <2>. HIDE DEF pc, start
  <2>3. k'[p].pc = pc /\ k'[p].call = call /\ k'[p].stage = "check"
    BY <1>0, <2>1 DEF AtUser
  <2>. QED  BY <1>a, <2>2, <2>3
<1>. QED  BY <1>1, <1>2, <1>3, <1>4, <1>5, <1>6, <1>7, <1>8, <1>9, <1>10, <1>11, <1>12, <1>13,
             <1>14, <1>15, <1>16, <1>17, <1>18, <1>19, <1>20, <1>21, <1>22, <1>23, <1>24, <1>25,
             <1>26, CallsIsCall DEF Step

(* The last reference is alone.                                              *)
LEMMA OnlyRef ==
  ASSUME TypeOK, RefsCounted, NEW p \in Procs, k[p].put # None, ref[k[p].put] = 1
  PROVE  /\ k[p].put \notin Refers(p)
         /\ \A q \in Procs \ {p} : k[p].put \notin Refers(q) \cup {k[q].put}
<1>. DEFINE i == k[p].put
            pairs == Pairs(Procs, cwd, fd, k, i)
<1>1. i \in Inums
  BY PutCounted
<1>2. Cardinality(pairs) = 1 /\ IsFiniteSet(pairs)
  BY <1>1, RefsArePairs, PairsFinite
<1>3. PICK x : pairs = {x}
  <2>. HIDE DEF pairs
  <2>. QED  BY <1>2, FS_Singleton
<1>4. \A q \in Procs, n \in Fields : n \in Named(cwd[q], fd[q], k[q], i) => <<q, n>> \in pairs
  BY DEF Pairs
<1>5. <<p, "put">> \in pairs
  BY <1>4 DEF Named, Fields
<1>6. \A q \in Procs, n \in Fields : n \in Named(cwd[q], fd[q], k[q], i) => q = p /\ n = "put"
  <2>. HIDE DEF pairs
  <2>. QED  BY <1>3, <1>4, <1>5
<1>7. ASSUME NEW q \in Procs PROVE /\ i \in Refers(q) => \E n \in Fields \ {"put"} : n \in Named(cwd[q], fd[q], k[q], i)
                                   /\ i = k[q].put => "put" \in Named(cwd[q], fd[q], k[q], i)
  <2>1. \A n \in Fields : n \in Named(cwd[q], fd[q], k[q], i) <=>
          [cwd |-> cwd[q], fd |-> fd[q], ip |-> k[q].ip, jp |-> k[q].jp, put |-> k[q].put][n] = i
    BY DEF Named
  <2>2. {"cwd", "fd", "ip", "jp"} \subseteq Fields \ {"put"} /\ "put" \in Fields
    BY DEF Fields
  <2>. HIDE DEF i
  <2>. QED  BY <2>1, <2>2 DEF Refers
<1>. QED  BY <1>6, <1>7 DEF Fields

(* What p may still follow, and what q may, keep their type.                 *)
LEMMA TypeKept ==
  ASSUME TypeOK, Shape, Sound, NEW p \in Procs, Calls(p) \/ Step(p), NEW q \in Procs, NEW j \in Inums,
         j \in Live(q), q = p /\ k[p].stage = "free" => j # k[p].put
  PROVE  din'[j].type = din[j].type /\ din[j].type # "none"
<1>1. din[j].type # "none"
  BY DEF Sound, AllocInv
<1>2. ~(k[p].stage = "free" /\ j = k[p].put)
  BY DEF Sound, FreeInv, Live
<1>. QED  BY <1>1, <1>2, DiskKept DEF Sound

(* What a process refers to stays allocated.                                 *)
LEMMA AllocStep ==
  ASSUME TypeOK, Shape, Sound, NEW p \in Procs, Calls(p) \/ Step(p), strays' = {}
  PROVE  AllocInv'
<1>. SUFFICES ASSUME NEW q \in Procs, NEW i \in Inums, i \in Live(q)'
              PROVE  din'[i].type # "none"
  BY DEF AllocInv
<1>1. CASE q # p
  <2>1. Live(q)' = Live(q)
    BY <1>1, Others DEF Live, Refers
  <2>. QED  BY <1>1, <2>1, TypeKept
<1>2. CASE q = p
  <2>1. \/ i \in Live(p) /\ (k[p].stage = "free" => i # k[p].put)
        \/ din[i].nlink > 0 \/ (din[i].type = "none" /\ din'[i].type # "none")
    BY <1>2, PointersKept DEF Sound
  <2>2. CASE i \in Live(p) /\ (k[p].stage = "free" => i # k[p].put)
    BY <2>2, TypeKept
  <2>3. CASE din[i].nlink > 0
    <3>1. din[i].type # "none"
      BY <2>3, Linked DEF Sound
    <3>2. k[p].stage = "free" => i # k[p].put
      BY <2>3 DEF Sound, FreeInv
    <3>. QED  BY <3>1, <3>2, DiskKept DEF Sound
  <2>. QED  BY <2>1, <2>2, <2>3
<1>. QED  BY <1>1, <1>2

(* An inode that iput() frees has nobody else: its count was 1.              *)
LEMMA FreeStep ==
  ASSUME TypeOK, Shape, Shape', RefsCounted, Sound, NEW p \in Procs, Calls(p) \/ Step(p), strays' = {}
  PROVE  FreeInv'
<1>. SUFFICES ASSUME NEW q \in Procs, k'[q].stage = "free"
              PROVE  /\ din'[k'[q].put].nlink = 0
                     /\ k'[q].put \notin Refers(q)'
                     /\ \A r \in Procs \ {q} : k'[q].put \notin Refers(r)' \cup {k'[r].put}
  BY DEF FreeInv
<1>1. CASE q # p
  <2>. DEFINE i == k[q].put
  <2>1. k'[q] = k[q] /\ Refers(q)' = Refers(q) /\ k[q].stage = "free"
    BY <1>1, Others DEF Refers
  <2>2. i \in Inums
    BY <2>1 DEF TypeOK, Shape, ShapeOf, Local
  <2>3. /\ din[i].nlink = 0 /\ i \notin Refers(q)
        /\ \A r \in Procs \ {q} : i \notin Refers(r) \cup {k[r].put}
    BY <2>1 DEF Sound, FreeInv
  <2>4. din[i].type # "none"
    BY <2>1, <2>2 DEF Sound, AllocInv, Live
  <2>5. i \notin Live(p)
    BY <1>1, <2>3 DEF Live
  <2>6. din'[i] = din[i]
    BY <2>2, <2>4, <2>5, DiskKept DEF Sound
  <2>7. i \notin Refers(p)' \cup {k'[p].put}
    <3>1. i \notin Refers(p) \cup {k[p].put}
      BY <1>1, <2>3
    <3>. HIDE DEF i
    <3>. QED  BY <2>2, <2>3, <2>4, <3>1, PointersKept DEF Sound
  <2>8. ASSUME NEW r \in Procs \ {q} PROVE i \notin Refers(r)' \cup {k'[r].put}
    <3>1. CASE r = p
      BY <2>7, <3>1
    <3>2. CASE r # p
      <4>1. Refers(r)' = Refers(r) /\ k'[r] = k[r]
        BY <3>2, Others DEF Refers
      <4>. QED  BY <2>3, <4>1
    <3>. QED  BY <3>1, <3>2
  <2>. QED  BY <2>1, <2>3, <2>6, <2>8
<1>2. CASE q = p
  <2>1. PutCheck(p)
    BY <1>2, Arrive
  <2>2. /\ k[p].put # None /\ k[p].stage = "check"
        /\ k' = [k EXCEPT ![p].stage = "free"] \/ k' = [k EXCEPT ![p].stage = "drop"]
        /\ UNCHANGED <<din, cwd, fd>>
    BY <2>1 DEF PutCheck, onDisk
  <2>3. k \in [Procs -> Local] /\ k[p] \in Local
    BY DEF TypeOK
  <2>4. k' = [k EXCEPT ![p].stage = "free"]
    BY <1>2, <2>2, <2>3 DEF Local
  <2>5. ic[k[p].put] # Unread /\ ic[k[p].put].nlink = 0 /\ ref[k[p].put] = 1
    <3>1. \/ ic[k[p].put] # Unread /\ ic[k[p].put].nlink = 0 /\ ref[k[p].put] = 1
          \/ k' = [k EXCEPT ![p].stage = "drop"]
      BY <2>1 DEF PutCheck
    <3>2. CASE k' = [k EXCEPT ![p].stage = "drop"]
      BY <1>2, <2>3, <3>2 DEF Local
    <3>. QED  BY <3>1, <3>2
  <2>6. k[p].put \in Inums /\ din[k[p].put] = ic[k[p].put]
    BY <2>2, <2>3, <2>5 DEF Local, Sound, DiskInv
  <2>7. /\ k[p].put \notin Refers(p)
        /\ \A r \in Procs \ {p} : k[p].put \notin Refers(r) \cup {k[r].put}
    BY <2>2, <2>5, OnlyRef
  <2>8. k'[p].put = k[p].put /\ k'[p].ip = k[p].ip /\ k'[p].jp = k[p].jp
    BY <2>3, <2>4 DEF Local
  <2>9. \A r \in Procs \ {p} : k'[r] = k[r]
    BY <2>3, <2>4
  <2>10. Refers(p)' = Refers(p) /\ \A r \in Procs \ {p} : Refers(r)' = Refers(r)
    BY <2>2, <2>8, <2>9 DEF Refers
  <2>. QED  BY <1>2, <2>2, <2>5, <2>6, <2>7, <2>8, <2>9, <2>10
<1>. QED  BY <1>1, <1>2

(* A step that only panics leaves everything else alone.                     *)
LEMMA PanicKeeps ==
  ASSUME NEW p \in Procs, BadInode(p) \/ NoInodes(p)
  PROVE  UNCHANGED <<din, ents, dotdot, ic, ref, lock, cwd, fd, k, strays, lost>>
BY DEF BadInode, NoInodes, Panic, onDisk, inCache, history

(* Every directory that a process may lock has a "..".                       *)
LEMMA DotdotMade ==
  ASSUME TypeOK, Shape, Sound, NEW p \in Procs, k[p].pc # "init", NEW i \in Inums, i \in Live(p), din[i].type = "dir"
  PROVE  dotdot[i] # None
<1>1. SUFFICES ASSUME NEW q \in Procs, k[q].pc = "init", k[q].jp = i PROVE FALSE
  BY DEF Sound, DirInv
<1>2. q # p
  BY <1>1
<1>3. i \notin Live(p)
  BY <1>1, <1>2 DEF Sound, MakeInv
<1>. QED  BY <1>3

(* A name that is not found is not "." or "..".                              *)
LEMMA NewName ==
  ASSUME TypeOK, Shape, Sound, NEW p \in Procs, k[p].pc \in {"create", "mkdir", "linkdir"}, k[p].stage = "check",
         Entry(k[p].ip, k[p].rest[1]) = None
  PROVE  /\ k[p].ip \in Inums /\ k[p].rest[1] \in Names /\ ents[k[p].ip][k[p].rest[1]] = None
         /\ din[k[p].ip].type = "dir"
<1>. USE Numbers
<1>1. k[p].rest # <<>> /\ k[p].ip \in Inums /\ k[p].ip # None /\ din[k[p].ip].type = "dir"
  BY DEF TypeOK, Shape, ShapeOf, Local, Sound, CallInv
<1>2. k[p].rest[1] \in Elements
  BY <1>1, RestType
<1>3. k[p].ip \in Live(p)
  BY DEF Live, Refers
<1>4. dotdot[k[p].ip] # None
  BY <1>1, <1>3, DotdotMade
<1>5. k[p].rest[1] # "." /\ k[p].rest[1] # ".."
  BY <1>1, <1>4 DEF Entry
<1>6. k[p].rest[1] \in Names
  BY <1>2, <1>5 DEF Elements
<1>7. ents[k[p].ip][k[p].rest[1]] = None
  BY <1>5 DEF Entry
<1>. QED  BY <1>1, <1>6, <1>7

(* A directory that is locked keeps its entries.                             *)
LEMMA EntsKept ==
  ASSUME TypeOK, Shape, Sound, NEW p \in Procs, Calls(p) \/ Step(p), NEW q \in Procs \ {p},
         k[q].pc \in {"init", "unlink_ip"}
  PROVE  k[q].ip \in Inums /\ ents'[k[q].ip] = ents[k[q].ip]
<1>1. k[q].ip \in Inums
  BY Numbers DEF TypeOK, Shape, ShapeOf, Local
<1>2. lock[k[q].ip] = q
  BY <1>1 DEF Sound, LockInv, Keeps
<1>3. q \notin {NoProc, p}
  BY InodesAssumption
<1>. QED  BY <1>1, <1>2, <1>3, DiskKept DEF Sound

(* An inode being made has nobody else: ialloc() took a free one.            *)
LEMMA MakeStep ==
  ASSUME TypeOK, Shape, Shape', RefsCounted, Sound, NEW p \in Procs, Calls(p) \/ Step(p), strays' = {}
  PROVE  MakeInv'
<1>. USE Numbers
<1>. SUFFICES ASSUME NEW q \in Procs, k'[q].pc = "init"
              PROVE  /\ k'[q].rest[1] \in Names /\ ents'[k'[q].ip][k'[q].rest[1]] = None
                     /\ din'[k'[q].jp] = [type |-> IF k'[q].call = "mkdir" THEN "dir" ELSE "file", nlink |-> 0]
                     /\ ents'[k'[q].jp] = NoEntries
                     /\ k'[q].jp \notin {cwd'[q], fd'[q], k'[q].ip}
                     /\ \A r \in Procs \ {q} : k'[q].jp \notin Live(r)'
  BY DEF MakeInv
<1>1. CASE q # p
  <2>. DEFINE d == k[q].ip
              i == k[q].jp
  <2>1. k'[q] = k[q] /\ cwd'[q] = cwd[q] /\ fd'[q] = fd[q] /\ k[q].pc = "init"
    BY <1>1, Others
  <2>2. i \in Inums
    BY <2>1 DEF TypeOK, Shape, ShapeOf, Local
  <2>3. /\ k[q].rest[1] \in Names /\ ents[d][k[q].rest[1]] = None
        /\ din[i] = [type |-> IF k[q].call = "mkdir" THEN "dir" ELSE "file", nlink |-> 0]
        /\ ents[i] = NoEntries
        /\ i \notin {cwd[q], fd[q], d}
        /\ \A r \in Procs \ {q} : i \notin Live(r)
    BY <2>1 DEF Sound, MakeInv
  <2>4. din[i].type # "none" /\ ~(din[i].nlink > 0) /\ i \notin Live(p)
    BY <1>1, <2>3
  <2>5. din'[i] = din[i] /\ ents'[i] = ents[i]
    BY <2>2, <2>4, DiskKept DEF Sound
  <2>6. ents'[d] = ents[d]
    BY <1>1, <2>1, EntsKept
  <2>7. i \notin Live(p)'
    <3>. HIDE DEF i
    <3>. QED  BY <2>2, <2>4, PointersKept DEF Sound
  <2>8. ASSUME NEW r \in Procs \ {q} PROVE i \notin Live(r)'
    <3>1. CASE r = p
      BY <2>7, <3>1
    <3>2. CASE r # p
      <4>1. Live(r)' = Live(r)
        BY <3>2, Others DEF Live, Refers
      <4>. QED  BY <2>3, <4>1
    <3>. QED  BY <3>1, <3>2
  <2>. QED  BY <2>1, <2>3, <2>5, <2>6, <2>8
<1>2. CASE q = p
  <2>1. CASE BadInode(p) \/ NoInodes(p)
    <3>1. UNCHANGED <<din, ents, dotdot, ic, ref, lock, cwd, fd, k, strays, lost>>
      BY <2>1, PanicKeeps
    <3>. QED  BY <1>2, <3>1 DEF Sound, MakeInv, Live, Refers
  <2>2. CASE CreateAlloc(p)
    <3>. DEFINE i == CHOOSE h \in Free : \A g \in Free : h <= g
    <3>1. i \in Inums /\ din[i].type = "none"
      BY <2>2, LeastFree DEF CreateAlloc, Free
    <3>2. /\ din' = [din EXCEPT ![i] = [type |-> IF k[p].call = "mkdir" THEN "dir" ELSE "file", nlink |-> 0]]
          /\ k' = [k EXCEPT ![p].pc = "init", ![p].jp = i] /\ UNCHANGED <<ents, cwd, fd>>
      BY <2>2 DEF CreateAlloc
    <3>3. k[p].pc \in {"create", "mkdir"} /\ k[p].stage = "check" /\ Entry(k[p].ip, k[p].rest[1]) = None
      BY <2>2, LocksAt DEF CreateAlloc
    <3>. HIDE DEF i
    <3>4. k'[p].ip = k[p].ip /\ k'[p].jp = i /\ k'[p].rest = k[p].rest /\ k'[p].call = k[p].call
      BY <3>2 DEF TypeOK, Local
    <3>5. /\ k[p].ip \in Inums /\ k[p].rest[1] \in Names /\ ents[k[p].ip][k[p].rest[1]] = None
      BY <3>3, NewName
    <3>6. \A r \in Procs : i \notin Live(r)
      BY <3>1 DEF Sound, AllocInv
    <3>7. ents[i] = NoEntries
      BY <3>1 DEF Sound, DiskInv
    <3>8. \A r \in Procs \ {p} : Live(r)' = Live(r)
      BY Others DEF Live, Refers
    <3>9. i \notin {cwd[p], fd[p], k[p].ip}
      BY <3>6 DEF Live, Refers
    <3>10. din'[i] = [type |-> IF k[p].call = "mkdir" THEN "dir" ELSE "file", nlink |-> 0]
      BY <3>1, <3>2 DEF TypeOK
    <3>. QED  BY <1>2, <3>2, <3>4, <3>5, <3>6, <3>7, <3>8, <3>9, <3>10
  <2>. QED  BY <1>2, <2>1, <2>2, Arrive
<1>. QED  BY <1>1, <1>2

(* What a call found under a lock stays true while it is in the call.        *)
LEMMA CallStep ==
  ASSUME TypeOK, Shape, Shape', TypeOK', RefsCounted, Sound, NEW p \in Procs, Calls(p) \/ Step(p), strays' = {}
  PROVE  CallInv'
<1>. USE Numbers
<1>1. ASSUME NEW q \in Procs, k'[q].pc \in OnDir PROVE din'[k'[q].ip].type = "dir"
  <2>1. CASE q # p
    <3>1. k'[q] = k[q]
      BY <2>1, Others
    <3>2. k[q].ip \in Inums /\ din[k[q].ip].type = "dir"
      BY <1>1, <3>1 DEF TypeOK, Shape, ShapeOf, Local, Sound, CallInv, OnDir
    <3>3. k[q].ip \in Live(q)
      BY DEF Live, Refers
    <3>. QED  BY <2>1, <3>1, <3>2, <3>3, TypeKept
  <2>2. CASE q = p
    <3>1. k'[p].ip = k[p].ip /\ (k[p].pc \in OnDir \/ Inode(k[p].ip).type = "dir")
      BY <1>1, <2>2, Arrive
    <3>2. k[p].ip \in Inums
      BY <1>1, <2>2, <3>1 DEF TypeOK, Shape, ShapeOf, Local, OnDir
    <3>3. din[k[p].ip].type = "dir"
      BY <3>1, <3>2, InodeIsDisk DEF Sound, CallInv, OnDir
    <3>4. k[p].ip \in Live(p) /\ (k[p].stage = "free" => k[p].ip # k[p].put)
      BY DEF Live, Refers, Sound, FreeInv
    <3>. QED  BY <2>2, <3>1, <3>2, <3>3, <3>4, TypeKept
  <2>. QED  BY <2>1, <2>2
<1>2. ASSUME NEW q \in Procs, k'[q].pc = "unlink_ip"
      PROVE  k'[q].rest[1] \in Names /\ ents'[k'[q].ip][k'[q].rest[1]] = k'[q].jp
  <2>1. CASE q # p
    <3>1. k'[q] = k[q]
      BY <2>1, Others
    <3>2. ents'[k[q].ip] = ents[k[q].ip]
      BY <1>2, <2>1, <3>1, EntsKept
    <3>. QED  BY <1>2, <3>1, <3>2 DEF Sound, CallInv
  <2>2. CASE q = p /\ (BadInode(p) \/ NoInodes(p))
    BY <1>2, <2>2, PanicKeeps DEF Sound, CallInv
  <2>3. CASE q = p /\ UnlinkLookup(p)
    <3>1. k \in [Procs -> Local] /\ k[p] \in Local /\ UNCHANGED ents
      BY <2>3 DEF TypeOK, UnlinkLookup, onDisk
    <3>2. \/ k' = Leave(p, k[p].ip)
          \/ /\ k[p].rest[1] \in Names
             /\ k' = [k EXCEPT ![p].pc = "unlink_ip", ![p].jp = Entry(k[p].ip, k[p].rest[1])]
      BY <2>3, Zenon DEF UnlinkLookup
    <3>3. k' # Leave(p, k[p].ip)
      BY <1>2, <2>3, <3>1 DEF Leave, AtUser
    <3>4. k'[p].ip = k[p].ip /\ k'[p].rest = k[p].rest /\ k'[p].jp = Entry(k[p].ip, k[p].rest[1])
      BY <3>1, <3>2, <3>3 DEF Local
    <3>5. Entry(k[p].ip, k[p].rest[1]) = ents[k[p].ip][k[p].rest[1]]
      BY <3>2, <3>3, InodesAssumption DEF Entry
    <3>. QED  BY <2>3, <3>1, <3>2, <3>3, <3>4, <3>5
  <2>. QED  BY <1>2, <2>1, <2>2, <2>3, Arrive
<1>3. ASSUME NEW q \in Procs, k'[q].call = "linkdir" PROVE din'[k'[q].jp].type # "dir"
  <2>1. CASE q # p \/ (k[p].call = "linkdir" /\ k'[p].jp = k[p].jp)
    <3>1. k[q].call = "linkdir" /\ k'[q].jp = k[q].jp
      BY <1>3, <2>1, Others
    <3>2. k[q].jp \in Inums
      <4>1. k[q] \in Local /\ ShapeOf(k[q])
        BY DEF TypeOK, Shape
      <4>. QED  BY <3>1, <4>1 DEF ShapeOf, Local, PC
    <3>3. din[k[q].jp].type # "dir"
      BY <3>1 DEF Sound, CallInv
    <3>4. k[q].jp \in Live(q) /\ (k[q].stage = "free" => k[q].jp # k[q].put)
      BY DEF Live, Refers, Sound, FreeInv
    <3>. QED  BY <3>1, <3>2, <3>3, <3>4, TypeKept
  <2>2. CASE q = p /\ k'[p].jp = k[p].ip /\ Inode(k[p].ip).type # "dir" /\ LinkCount(p)
    <3>1. k[p].ip \in Inums /\ k[p].stage = "check"
      BY <2>2, LocksAt DEF LinkCount
    <3>2. din[k[p].ip].type # "dir"
      BY <2>2, <3>1, InodeIsDisk DEF Sound
    <3>3. k[p].ip \in Live(p)
      BY DEF Live, Refers
    <3>. QED  BY <2>2, <3>1, <3>2, <3>3, TypeKept
  <2>. QED  BY <1>3, <2>1, <2>2, Arrive
<1>. QED  BY <1>1, <1>2, <1>3 DEF CallInv, OnDir

-----------------------------------------------------------------------------
(* The cache and the disk *)

LEMMA OneLink ==
  ASSUME TypeOK, DiskInv, NEW i \in Inums
  PROVE  /\ OneMore(i).type = din[i].type /\ OneMore(i).nlink = din[i].nlink + 1 /\ OneMore(i).nlink \in Nat
         /\ OneLess(i).type = din[i].type /\ OneLess(i).nlink = din[i].nlink - 1
         /\ din[i].nlink > 0 => OneLess(i).nlink \in Nat
<1>1. /\ OneMore(i) = [type |-> din[i].type, nlink |-> din[i].nlink + 1]
      /\ OneLess(i) = [type |-> din[i].type, nlink |-> din[i].nlink - 1]
  BY InodeIsDisk
<1>2. /\ OneMore(i).type = din[i].type /\ OneMore(i).nlink = din[i].nlink + 1
      /\ OneLess(i).type = din[i].type /\ OneLess(i).nlink = din[i].nlink - 1
  BY <1>1
<1>3. din[i].nlink \in Nat
  BY DEF DiskInv
<1>. QED  BY <1>2, <1>3

Agrees(c) == \A i \in Inums : c[i] # Unread => c[i] = din[i]

(* Reading an inode keeps the cache equal to the disk.                       *)
LEMMA CacheAgrees ==
  ASSUME TypeOK, DiskInv
  PROVE  /\ Agrees(ic)
         /\ \A i \in Inums : Loaded(i) \in [Inums -> Copy] /\ Agrees(Loaded(i))
         /\ \A c \in [Inums -> Copy], i \in Inums : Agrees(c) => Agrees(Cached(c, i))
<1>1. Agrees(ic) /\ ic \in [Inums -> Copy]
  BY DEF DiskInv, Agrees, TypeOK
<1>2. ASSUME NEW i \in Inums PROVE Agrees(Loaded(i))
  <2>1. Loaded(i) = [ic EXCEPT ![i] = din[i]]
    BY InodeIsDisk
  <2>. QED  BY <1>1, <2>1 DEF Agrees
<1>. QED  BY <1>1, <1>2, LoadedType DEF Cached, Agrees

(* So does every step that does not write an inode.                          *)
LEMMA CacheStep ==
  ASSUME TypeOK, Shape, DiskInv, NEW p \in Procs, Calls(p) \/ Step(p),
         ~CreateInit(p), ~UnlinkEntry(p), ~UnlinkEnd(p), ~LinkUndo(p),
         ~(LinkCount(p) /\ Inode(k[p].ip).type # "dir")
  PROVE  Agrees(ic')
<1>. USE Numbers DEF onDisk, inCache, history
<1>0. k \in [Procs -> Local] /\ ShapeOf(k[p]) /\ k[p] \in Local
  BY DEF TypeOK, Shape
<1>q. ASSUME UNCHANGED ic PROVE Agrees(ic')
  BY <1>q, CacheAgrees
<1>l. ASSUME NEW i \in Inums, ic' = Loaded(i) PROVE Agrees(ic')
  BY <1>l, CacheAgrees
<1>c. ASSUME NEW i \in Inums, NEW j \in Inums, ic' = Cached(Loaded(i), j) PROVE Agrees(ic')
  BY <1>c, CacheAgrees
<1>1. ASSUME PutCheck(p) PROVE Agrees(ic')
  BY <1>1, <1>q DEF PutCheck
<1>2. ASSUME PutFree(p) PROVE Agrees(ic')
  <2>1. ic' = [ic EXCEPT ![k[p].put] = Unread] /\ ic \in [Inums -> Copy] /\ Agrees(ic)
    BY <1>2, CacheAgrees DEF PutFree, TypeOK
  <2>. QED  BY <2>1 DEF Agrees
<1>3. ASSUME PutDrop(p) PROVE Agrees(ic')
  BY <1>3, <1>q DEF PutDrop
<1>4. ASSUME BadInode(p) PROVE Agrees(ic')
  BY <1>4, <1>q DEF BadInode, Panic
<1>5. ASSUME Walk(p) PROVE Agrees(ic')
  <2>1. k[p].ip \in Inums /\ k[p].rest # <<>>
    BY <1>5, LocksAt DEF Walk
  <2>2. \/ ic' = Loaded(k[p].ip)
        \/ /\ Entry(k[p].ip, Head(k[p].rest)) # None
           /\ ic' = Cached(Loaded(k[p].ip), Entry(k[p].ip, Head(k[p].rest)))
    BY <1>5, Zenon DEF Walk
  <2>3. Entry(k[p].ip, Head(k[p].rest)) # None => Entry(k[p].ip, Head(k[p].rest)) \in Inums
    BY <2>1, RestType, EntryType
  <2>. QED  BY <1>l, <1>c, <2>1, <2>2, <2>3
<1>6. ASSUME WalkNoParent(p) PROVE Agrees(ic')
  BY <1>6, <1>q DEF WalkNoParent, Fail, Leave
<1>7. ASSUME Open(p) PROVE Agrees(ic')
  <2>1. k[p].ip \in Inums \/ k[p].jp \in Inums
    BY <1>7, LocksAt DEF Open, Chdir, CreateOld, LinkEntry, UnlinkNot
  <2>2. \/ k[p].ip \in Inums /\ ic' = Loaded(k[p].ip)
        \/ k[p].jp \in Inums /\ ic' = Loaded(k[p].jp)
    BY <1>7, LocksAt DEF Open, Chdir, CreateOld, LinkEntry, UnlinkNot
  <2>. QED  BY <1>l, <2>2
<1>8. ASSUME Close(p) PROVE Agrees(ic')
  BY <1>8, <1>q DEF Close, Leave
<1>9. ASSUME Chdir(p) PROVE Agrees(ic')
  <2>1. k[p].ip \in Inums \/ k[p].jp \in Inums
    BY <1>9, LocksAt DEF Open, Chdir, CreateOld, LinkEntry, UnlinkNot
  <2>2. \/ k[p].ip \in Inums /\ ic' = Loaded(k[p].ip)
        \/ k[p].jp \in Inums /\ ic' = Loaded(k[p].jp)
    BY <1>9, LocksAt DEF Open, Chdir, CreateOld, LinkEntry, UnlinkNot
  <2>. QED  BY <1>l, <2>2
<1>10. ASSUME CreateFound(p) PROVE Agrees(ic')
  <2>1. k[p].ip \in Inums /\ k[p].rest # <<>>
    BY <1>10, <1>0, LocksAt DEF CreateFound, LinkTaken, ShapeOf
  <2>2. Entry(k[p].ip, k[p].rest[1]) \in Inums
    BY <1>10, <2>1, RestType, EntryType DEF CreateFound, LinkTaken
  <2>. QED  BY <1>10, <1>c, <2>1, <2>2 DEF CreateFound, LinkTaken
<1>11. ASSUME CreateOld(p) PROVE Agrees(ic')
  <2>1. k[p].ip \in Inums \/ k[p].jp \in Inums
    BY <1>11, LocksAt DEF Open, Chdir, CreateOld, LinkEntry, UnlinkNot
  <2>2. \/ k[p].ip \in Inums /\ ic' = Loaded(k[p].ip)
        \/ k[p].jp \in Inums /\ ic' = Loaded(k[p].jp)
    BY <1>11, LocksAt DEF Open, Chdir, CreateOld, LinkEntry, UnlinkNot
  <2>. QED  BY <1>l, <2>2
<1>12. ASSUME CreateAlloc(p) PROVE Agrees(ic')
  <2>1. k[p].ip \in Inums
    BY <1>12, LocksAt DEF CreateAlloc
  <2>2. (CHOOSE j \in Free : \A h \in Free : j <= h) \in Inums
    BY <1>12, LeastFree DEF CreateAlloc, Free
  <2>3. ic' = Cached(Loaded(k[p].ip), CHOOSE j \in Free : \A h \in Free : j <= h)
    BY <1>12 DEF CreateAlloc
  <2>. QED  BY <1>c, <2>1, <2>2, <2>3
<1>13. ASSUME NoInodes(p) PROVE Agrees(ic')
  BY <1>13, <1>q DEF NoInodes, Panic
<1>14. ASSUME CreateInit(p) PROVE Agrees(ic')
  BY <1>14
<1>15. ASSUME CreateEnd(p) PROVE Agrees(ic')
  BY <1>15, <1>q DEF CreateEnd, Opened, Leave
<1>16. ASSUME UnlinkLookup(p) PROVE Agrees(ic')
  <2>1. k[p].ip \in Inums /\ k[p].rest # <<>>
    BY <1>16, <1>0, LocksAt DEF UnlinkLookup, ShapeOf
  <2>2. \/ ic' = Loaded(k[p].ip)
        \/ /\ Entry(k[p].ip, k[p].rest[1]) # None
           /\ ic' = Cached(Loaded(k[p].ip), Entry(k[p].ip, k[p].rest[1]))
    BY <1>16, Zenon DEF UnlinkLookup
  <2>3. Entry(k[p].ip, k[p].rest[1]) # None => Entry(k[p].ip, k[p].rest[1]) \in Inums
    BY <2>1, RestType, EntryType
  <2>. QED  BY <1>l, <1>c, <2>1, <2>2, <2>3
<1>17. ASSUME UnlinkNot(p) PROVE Agrees(ic')
  <2>1. k[p].ip \in Inums \/ k[p].jp \in Inums
    BY <1>17, LocksAt DEF Open, Chdir, CreateOld, LinkEntry, UnlinkNot
  <2>2. \/ k[p].ip \in Inums /\ ic' = Loaded(k[p].ip)
        \/ k[p].jp \in Inums /\ ic' = Loaded(k[p].jp)
    BY <1>17, LocksAt DEF Open, Chdir, CreateOld, LinkEntry, UnlinkNot
  <2>. QED  BY <1>l, <2>2
<1>18. ASSUME UnlinkEntry(p) PROVE Agrees(ic')
  BY <1>18
<1>19. ASSUME UnlinkEnd(p) PROVE Agrees(ic')
  BY <1>19
<1>20. ASSUME UnlockDir(p) PROVE Agrees(ic')
  BY <1>20, <1>q DEF UnlockDir, Fail, Leave
<1>21. ASSUME LinkCount(p) PROVE Agrees(ic')
  <2>1. k[p].ip \in Inums
    BY <1>21, LocksAt DEF LinkCount
  <2>2. ic' = Loaded(k[p].ip)
    BY <1>21 DEF LinkCount
  <2>. QED  BY <1>l, <2>1, <2>2
<1>22. ASSUME LinkTaken(p) PROVE Agrees(ic')
  <2>1. k[p].ip \in Inums /\ k[p].rest # <<>>
    BY <1>22, <1>0, LocksAt DEF CreateFound, LinkTaken, ShapeOf
  <2>2. Entry(k[p].ip, k[p].rest[1]) \in Inums
    BY <1>22, <2>1, RestType, EntryType DEF CreateFound, LinkTaken
  <2>. QED  BY <1>22, <1>c, <2>1, <2>2 DEF CreateFound, LinkTaken
<1>23. ASSUME LinkEntry(p) PROVE Agrees(ic')
  <2>1. k[p].ip \in Inums \/ k[p].jp \in Inums
    BY <1>23, LocksAt DEF Open, Chdir, CreateOld, LinkEntry, UnlinkNot
  <2>2. \/ k[p].ip \in Inums /\ ic' = Loaded(k[p].ip)
        \/ k[p].jp \in Inums /\ ic' = Loaded(k[p].jp)
    BY <1>23, LocksAt DEF Open, Chdir, CreateOld, LinkEntry, UnlinkNot
  <2>. QED  BY <1>l, <2>2
<1>24. ASSUME LinkEnd(p) PROVE Agrees(ic')
  BY <1>24, <1>q DEF LinkEnd, Leave
<1>25. ASSUME LinkUndo(p) PROVE Agrees(ic')
  BY <1>25
<1>26. ASSUME NEW call \in CallNames \ {"none", "linkdir"}, NEW path \in NamePaths \cup ParentPaths,
            NEW new \in ParentPaths \cup {NoPath}, Call(p, call, path, new)
     PROVE  Agrees(ic')
  <2>1. StartOf(p, path) \in Inums
    BY StartType
  <2>2. ic' = Cached(ic, StartOf(p, path)) /\ ic \in [Inums -> Copy]
    BY <1>26 DEF Call, TypeOK
  <2>. QED  BY <2>1, <2>2, CacheAgrees
<1>. QED  BY <1>1, <1>2, <1>3, <1>4, <1>5, <1>6, <1>7, <1>8, <1>9, <1>10, <1>11, <1>12, <1>13,
             <1>14, <1>15, <1>16, <1>17, <1>18, <1>19, <1>20, <1>21, <1>22, <1>23, <1>24, <1>25,
             <1>26, CallsIsCall DEF Step

(* Cache and disk agree, since iupdate() writes what the cache has.          *)
LEMMA DiskStep ==
  ASSUME TypeOK, Shape, TypeOK', Sound, NEW p \in Procs, Calls(p) \/ Step(p)
  PROVE  DiskInv'
<1>. USE Numbers DEF onDisk, inCache, history
<1>0. /\ k \in [Procs -> Local] /\ ShapeOf(k[p]) /\ k[p] \in Local
      /\ din \in [Inums -> Copy] /\ ents \in [Inums -> [Names -> Inums \cup {None}]] /\ ic \in [Inums -> Copy]
      /\ TypeOK /\ DiskInv /\ LinkInv
  BY DEF TypeOK, Shape, Sound
<1>d. \A i \in Inums : /\ ic[i] # Unread => ic[i] = din[i]
                       /\ din[i].nlink \in Nat
                       /\ din[i].type = "none" => din[i] = Unread
                       /\ din[i].type # "dir" => ents[i] = NoEntries
  BY <1>0 DEF DiskInv
<1>1. ASSUME ~CreateInit(p), ~UnlinkEntry(p), ~UnlinkEnd(p), ~LinkUndo(p),
             ~(LinkCount(p) /\ Inode(k[p].ip).type # "dir")
      PROVE  Agrees(ic')
  BY <1>0, <1>1, CacheStep
<1>2. CASE Quiet(p) /\ Agrees(ic')
  BY <1>0, <1>2 DEF Quiet, Agrees, DiskInv
<1>3. CASE PutFree(p)
  <2>1. k[p].put \in Inums
    BY <1>0, <1>3 DEF PutFree, Local
  <2>2. /\ din' = [din EXCEPT ![k[p].put] = Unread] /\ ents' = [ents EXCEPT ![k[p].put] = NoEntries]
        /\ ic' = [ic EXCEPT ![k[p].put] = Unread]
    BY <1>3 DEF PutFree
  <2>3. Unread.nlink \in Nat
    BY DEF Unread
  <2>. QED  BY <1>0, <1>d, <2>1, <2>2, <2>3 DEF DiskInv
<1>4. CASE CreateAlloc(p)
  <2>. DEFINE i == CHOOSE h \in Free : \A g \in Free : h <= g
              new == [type |-> IF k[p].call = "mkdir" THEN "dir" ELSE "file", nlink |-> 0]
  <2>1. i \in Inums /\ din[i].type = "none"
    BY <1>4, LeastFree DEF CreateAlloc, Free
  <2>2. din' = [din EXCEPT ![i] = new] /\ UNCHANGED ents
    BY <1>4 DEF CreateAlloc
  <2>3. k[p].pc \in {"create", "mkdir"}
    BY <1>4, LocksAt DEF CreateAlloc
  <2>4. Agrees(ic')
    BY <1>1, <1>4, <2>3, LocksAt DEF CreateInit, UnlinkEntry, UnlinkEnd, LinkUndo, LinkCount, At
  <2>5. din[i] = Unread /\ ic'[i] = Unread
    BY <1>d, <2>1, <2>4 DEF Agrees
  <2>6. new.nlink \in Nat /\ new.type # "none"
    OBVIOUS
  <2>. HIDE DEF i, new
  <2>7. \A j \in Inums : din'[j] = IF j = i THEN new ELSE din[j]
    BY <1>0, <2>1, <2>2
  <2>8. ents[i] = NoEntries
    BY <1>d, <2>1
  <2>. QED  BY <1>d, <2>2, <2>4, <2>5, <2>6, <2>7, <2>8 DEF DiskInv, Agrees
<1>5. CASE CreateInit(p)
  <2>1. /\ k[p].jp \in Inums /\ k[p].ip \in Inums /\ k[p].pc = "init" /\ Inode(k[p].jp).type # "none"
    BY <1>5, <1>0, LocksAt DEF CreateInit, ShapeOf, Local
  <2>2. \A i \in Inums : din'[i] = CASE i = k[p].jp -> [Inode(i) EXCEPT !.nlink = 1]
                                     [] i # k[p].jp /\ i = k[p].ip -> IF k[p].call = "mkdir" THEN OneMore(i) ELSE Inode(i)
                                     [] OTHER -> din[i]
    BY <1>5, <2>1 DEF CreateInit
  <2>3. \A i \in Inums : ic'[i] = IF i \in {k[p].ip, k[p].jp} THEN din'[i] ELSE ic[i]
    BY <1>5, <2>1 DEF CreateInit
  <2>4. ents' = [ents EXCEPT ![k[p].ip][k[p].rest[1]] = k[p].jp]
    BY <1>5 DEF CreateInit
  <2>5. din[k[p].ip].type = "dir" /\ din[k[p].jp].type # "none"
    BY <1>0, <2>1, InodeIsDisk DEF Sound, CallInv
  <2>6. ASSUME NEW i \in Inums PROVE din'[i].type = din[i].type /\ din'[i].nlink \in Nat
    <3>1. Inode(i) = din[i] /\ din[i] \in Copy /\ din[i].nlink \in Nat
      BY <1>0, <1>d, InodeIsDisk
    <3>2. [din[i] EXCEPT !.nlink = 1].type = din[i].type /\ [din[i] EXCEPT !.nlink = 1].nlink = 1
      BY <3>1 DEF Copy
    <3>3. din'[i] = [din[i] EXCEPT !.nlink = 1] \/ din'[i] = OneMore(i) \/ din'[i] = din[i]
      BY <2>2, <3>1
    <3>4. CASE din'[i] = OneMore(i)
      <4>1. OneMore(i).type = din[i].type /\ OneMore(i).nlink \in Nat
        BY <1>0, OneLink
      <4>. QED  BY <3>4, <4>1
    <3>5. CASE din'[i] = [din[i] EXCEPT !.nlink = 1]
      BY <3>2, <3>5
    <3>. QED  BY <3>1, <3>3, <3>4, <3>5
  <2>7. ASSUME NEW i \in Inums
        PROVE  /\ ic'[i] # Unread => ic'[i] = din'[i]
               /\ din'[i].type = "none" => din'[i] = Unread
               /\ din'[i].type # "dir" => ents'[i] = NoEntries
    <3>1. CASE i \in {k[p].ip, k[p].jp}
      <4>1. i # k[p].ip => ents'[i] = ents[i]
        BY <1>0, <2>1, <2>4
      <4>. QED  BY <1>d, <2>3, <2>5, <2>6, <3>1, <4>1
    <3>2. CASE i \notin {k[p].ip, k[p].jp}
      <4>1. din'[i] = din[i] /\ ic'[i] = ic[i] /\ ents'[i] = ents[i]
        BY <1>0, <2>1, <2>2, <2>3, <2>4, <3>2
      <4>. QED  BY <1>d, <4>1
    <3>. QED  BY <3>1, <3>2
  <2>. QED  BY <2>6, <2>7 DEF DiskInv
<1>6. CASE UnlinkEntry(p)
  <2>. DEFINE d == k[p].ip
              i == k[p].jp
              n == k[p].rest[1]
  <2>1. d \in Inums /\ i \in Inums /\ k[p].pc = "unlink_ip"
    BY <1>6, <1>0, LocksAt DEF UnlinkEntry, ShapeOf, Local
  <2>2. din[d].type = "dir" /\ n \in Names /\ ents[d][n] = i
    BY <2>1 DEF Sound, CallInv
  <2>3. din[i].type = "dir" => din[d].nlink > 0
    <3>1. ASSUME din[i].type = "dir" PROVE n \in Subdirs(d)
      BY <2>1, <2>2, <3>1 DEF Subdirs
    <3>. HIDE DEF d, i, n
    <3>. QED  BY <1>0, <2>1, <3>1, NoLinks
  <2>4. /\ din' = [din EXCEPT ![d] = IF din[i].type = "dir" THEN OneLess(d) ELSE din[d]]
        /\ ic' = [Loaded(i) EXCEPT ![d] = IF din[i].type = "dir" THEN OneLess(d) ELSE din[d]]
        /\ ents' = [ents EXCEPT ![d][n] = None]
    BY <1>0, <1>6, <2>1, InodeIsDisk DEF UnlinkEntry
  <2>5. OneLess(d) = [type |-> din[d].type, nlink |-> din[d].nlink - 1] /\ Loaded(i) = [ic EXCEPT ![i] = din[i]]
    BY <1>0, <2>1, InodeIsDisk
  <2>. HIDE DEF d, i, n
  <2>6. din[i].type = "dir" => OneLess(d).nlink \in Nat /\ OneLess(d).type = "dir"
    BY <1>0, <2>1, <2>2, <2>3, OneLink
  <2>7. \A j \in Inums : /\ din'[j] = IF j = d THEN (IF din[i].type = "dir" THEN OneLess(d) ELSE din[d]) ELSE din[j]
                         /\ ic'[j] = IF j = d THEN din'[d] ELSE IF j = i THEN din[i] ELSE ic[j]
                         /\ j # d => ents'[j] = ents[j]
    BY <1>0, <2>1, <2>4, <2>5
  <2>. QED  BY <1>d, <2>1, <2>2, <2>6, <2>7 DEF DiskInv
<1>7. CASE UnlinkEnd(p) \/ LinkUndo(p)
  <2>. DEFINE i == k[p].jp
  <2>1. i \in Inums /\ k[p].pc \in {"unlinked", "undo"}
    BY <1>7, <1>0, LocksAt DEF UnlinkEnd, LinkUndo, At, ShapeOf, Local
  <2>2. din[i].nlink > 0
    <3>1. p \in Owing(i) \/ p \in CountedBy(i)
      BY <1>0, <2>1 DEF Owing, CountedBy, ShapeOf
    <3>. HIDE DEF i
    <3>. QED  BY <1>0, <2>1, <3>1, NoLinks
  <2>3. din' = [din EXCEPT ![i] = OneLess(i)] /\ ic' = [ic EXCEPT ![i] = OneLess(i)] /\ UNCHANGED ents
    BY <1>7 DEF UnlinkEnd, LinkUndo
  <2>4. OneLess(i) = [type |-> din[i].type, nlink |-> din[i].nlink - 1]
    BY <1>0, <2>1, InodeIsDisk
  <2>. HIDE DEF i
  <2>5. OneLess(i).type = din[i].type /\ OneLess(i).nlink \in Nat /\ din[i].type # "none"
    BY <1>0, <2>1, <2>2, Linked, OneLink
  <2>. QED  BY <1>0, <1>d, <2>1, <2>3, <2>5 DEF DiskInv
<1>8. CASE LinkCount(p) /\ Inode(k[p].ip).type # "dir"
  <2>. DEFINE i == k[p].ip
              start == StartOf(p, k[p].new)
  <2>1. i \in Inums /\ Inode(i).type # "none"
    BY <1>8, LocksAt DEF LinkCount
  <2>2. start \in Inums
    BY <1>0, StartType DEF Local
  <2>3. din' = [din EXCEPT ![i] = OneMore(i)] /\ ic' = Cached([ic EXCEPT ![i] = OneMore(i)], start) /\ UNCHANGED ents
    BY <1>8 DEF LinkCount
  <2>4. OneMore(i) = [type |-> din[i].type, nlink |-> din[i].nlink + 1] /\ Inode(i) = din[i]
    BY <1>0, <2>1, InodeIsDisk
  <2>. HIDE DEF i, start
  <2>5. OneMore(i).type = din[i].type /\ OneMore(i).nlink \in Nat /\ din[i].type # "none"
    BY <1>0, <2>1, <2>4, OneLink
  <2>6. \A j \in Inums : ic'[j] # Unread => ic'[j] = IF j = i THEN OneMore(i) ELSE ic[j]
    BY <1>0, <2>1, <2>2, <2>3 DEF Cached
  <2>7. \A j \in Inums : din'[j] = IF j = i THEN OneMore(i) ELSE din[j]
    BY <1>0, <2>1, <2>3
  <2>8. ASSUME NEW j \in Inums
        PROVE  /\ ic'[j] # Unread => ic'[j] = din'[j]
               /\ din'[j].nlink \in Nat
               /\ din'[j].type = "none" => din'[j] = Unread
               /\ din'[j].type # "dir" => ents'[j] = NoEntries
    <3>1. CASE j = i
      <4>1. din'[j] = OneMore(i) /\ (ic'[j] # Unread => ic'[j] = OneMore(i)) /\ ents'[j] = ents[j]
        BY <2>3, <2>6, <2>7, <3>1
      <4>2. din[j].type # "dir" => ents[j] = NoEntries
        BY <1>d
      <4>. QED  BY <2>5, <3>1, <4>1, <4>2
    <3>2. CASE j # i
      <4>1. din'[j] = din[j] /\ (ic'[j] # Unread => ic'[j] = ic[j]) /\ ents'[j] = ents[j]
        BY <2>3, <2>6, <2>7, <3>2
      <4>2. /\ ic[j] # Unread => ic[j] = din[j]
            /\ din[j].nlink \in Nat
            /\ din[j].type = "none" => din[j] = Unread
            /\ din[j].type # "dir" => ents[j] = NoEntries
        BY <1>d
      <4>. QED  BY <4>1, <4>2
    <3>. QED  BY <3>1, <3>2
  <2>. QED  BY <2>8 DEF DiskInv
<1>9. CASE LinkEntry(p)
  <2>1. k[p].ip \in Inums /\ k[p].pc = "linkdir"
    BY <1>9, LocksAt DEF LinkEntry
  <2>2. din[k[p].ip].type = "dir"
    BY <2>1 DEF Sound, CallInv
  <2>3. ents' = [ents EXCEPT ![k[p].ip][k[p].rest[1]] = k[p].jp] /\ UNCHANGED din
    BY <1>9 DEF LinkEntry
  <2>4. Agrees(ic')
    BY <1>0, <1>9, <2>1, CacheAgrees DEF LinkEntry
  <2>. QED  BY <1>0, <1>d, <2>1, <2>2, <2>3, <2>4 DEF DiskInv, Agrees
<1>. QED  BY <1>0, <1>1, <1>2, <1>3, <1>4, <1>5, <1>6, <1>7, <1>8, <1>9, QuietStep

-----------------------------------------------------------------------------
(* Links *)

LEMMA OneMember ==
  ASSUME NEW S, IsFiniteSet(S), NEW x
  PROVE  /\ x \notin S => Cardinality(S \cup {x}) = Cardinality(S) + 1
         /\ x \in S => Cardinality(S \ {x}) = Cardinality(S) - 1
BY FS_AddElement, FS_RemoveElement

(* Only p can begin or cease to be counted.                                  *)
LEMMA CountersStep ==
  ASSUME TypeOK, NEW p \in Procs, Calls(p) \/ Step(p), NEW i
  PROVE  /\ Cardinality(CountedBy(i)') = Cardinality(CountedBy(i))
              + (IF p \in CountedBy(i)' THEN 1 ELSE 0) - (IF p \in CountedBy(i) THEN 1 ELSE 0)
         /\ Cardinality(Owing(i)') = Cardinality(Owing(i))
              + (IF p \in Owing(i)' THEN 1 ELSE 0) - (IF p \in Owing(i) THEN 1 ELSE 0)
<1>1. ASSUME NEW S, NEW T, IsFiniteSet(S), Cardinality(S) \in Nat, S \ {p} = T \ {p}
      PROVE  Cardinality(T) = Cardinality(S) + (IF p \in T THEN 1 ELSE 0) - (IF p \in S THEN 1 ELSE 0)
  <2>1. CASE p \in S <=> p \in T
    <3>1. S = T
      BY <1>1, <2>1
    <3>. QED  BY <1>1, <3>1
  <2>2. CASE p \in S /\ p \notin T
    <3>1. T = S \ {p}
      BY <1>1, <2>2
    <3>. QED  BY <1>1, <2>2, <3>1, OneMember
  <2>3. CASE p \notin S /\ p \in T
    <3>1. T = S \cup {p}
      BY <1>1, <2>3
    <3>. QED  BY <1>1, <2>3, <3>1, OneMember
  <2>. QED  BY <2>1, <2>2, <2>3
<1>2. CountedBy(i) \ {p} = CountedBy(i)' \ {p}
  BY Others DEF CountedBy
<1>3. Owing(i) \ {p} = Owing(i)' \ {p}
  BY Others DEF Owing
<1>4. /\ IsFiniteSet(CountedBy(i)) /\ Cardinality(CountedBy(i)) \in Nat
      /\ IsFiniteSet(Owing(i)) /\ Cardinality(Owing(i)) \in Nat
  BY LinksFinite
<1>. QED  BY <1>1, <1>2, <1>3, <1>4

(* What an entry for i in directory d adds to the counts of inode j.         *)
Made(d, i, j) ==
  /\ Cardinality(Entries(j)') = Cardinality(Entries(j)) + IF j = i THEN 1 ELSE 0
  /\ Cardinality(Subdirs(j)') = Cardinality(Subdirs(j)) + IF j = d /\ din[i].type = "dir" THEN 1 ELSE 0

(* An entry is made or removed.                                              *)
LEMMA EntryMade ==
  ASSUME TypeOK, NEW d \in Inums, NEW n \in Names, NEW i \in Inums, ents[d][n] = None,
         ents' = [ents EXCEPT ![d][n] = i], \A h \in Inums : din'[h].type = din[h].type, NEW j \in Inums
  PROVE  Made(d, i, j)
<1>. USE Numbers
<1>0. ents \in [Inums -> [Names -> Inums \cup {None}]]
  BY DEF TypeOK
<1>1. Entries(j)' = IF j = i THEN Entries(j) \cup {<<d, n>>} ELSE Entries(j)
  BY <1>0 DEF Entries
<1>2. <<d, n>> \notin Entries(j)
  BY DEF Entries
<1>3. Subdirs(j)' = IF j = d /\ din[i].type = "dir" THEN Subdirs(j) \cup {n} ELSE Subdirs(j)
  <2>1. ASSUME NEW m \in Names
        PROVE  m \in Subdirs(j)' <=> m \in Subdirs(j) \/ (j = d /\ m = n /\ din[i].type = "dir")
    <3>1. CASE j = d /\ m = n
      <4>1. ents'[j][m] = i /\ ents[j][m] = None
        BY <1>0, <3>1
      <4>. QED  BY <3>1, <4>1 DEF Subdirs
    <3>2. CASE ~(j = d /\ m = n)
      <4>1. ents'[j][m] = ents[j][m] /\ ents[j][m] \in Inums \cup {None}
        BY <1>0, <3>2
      <4>. QED  BY <3>2, <4>1 DEF Subdirs
    <3>. QED  BY <3>1, <3>2
  <2>2. Subdirs(j) \subseteq Names /\ Subdirs(j)' \subseteq Names
    BY DEF Subdirs
  <2>. QED  BY <2>1, <2>2
<1>4. j = d => n \notin Subdirs(j)
  BY DEF Subdirs
<1>5. /\ IsFiniteSet(Entries(j)) /\ Cardinality(Entries(j)) \in Nat
      /\ IsFiniteSet(Subdirs(j)) /\ Cardinality(Subdirs(j)) \in Nat
  BY LinksFinite
<1>6. Cardinality(Entries(j)') = Cardinality(Entries(j)) + IF j = i THEN 1 ELSE 0
  BY <1>1, <1>2, <1>5, OneMember
<1>7. Cardinality(Subdirs(j)') = Cardinality(Subdirs(j)) + IF j = d /\ din[i].type = "dir" THEN 1 ELSE 0
  BY <1>3, <1>4, <1>5, OneMember
<1>. QED  BY <1>6, <1>7 DEF Made

(* One entry less is one link less, of the inode it named.                   *)
LEMMA EntryRemoved ==
  ASSUME TypeOK, NEW d \in Inums, NEW n \in Names, ents[d][n] \in Inums,
         ents' = [ents EXCEPT ![d][n] = None], \A h \in Inums : din'[h].type = din[h].type, NEW j \in Inums
  PROVE  /\ Cardinality(Entries(j)') = Cardinality(Entries(j)) - IF j = ents[d][n] THEN 1 ELSE 0
         /\ Cardinality(Subdirs(j)') = Cardinality(Subdirs(j)) - IF j = d /\ din[ents[d][n]].type = "dir" THEN 1 ELSE 0
<1>. USE Numbers
<1>. DEFINE i == ents[d][n]
<1>0. ents \in [Inums -> [Names -> Inums \cup {None}]]
  BY DEF TypeOK
<1>1. Entries(j)' = IF j = i THEN Entries(j) \ {<<d, n>>} ELSE Entries(j)
  BY <1>0 DEF Entries
<1>2. j = i => <<d, n>> \in Entries(j)
  BY DEF Entries
<1>3. Subdirs(j)' = IF j = d /\ din[ents[d][n]].type = "dir" THEN Subdirs(j) \ {n} ELSE Subdirs(j)
  <2>1. ASSUME NEW m \in Names
        PROVE  m \in Subdirs(j)' <=> m \in Subdirs(j) /\ ~(j = d /\ m = n)
    <3>1. CASE j = d /\ m = n
      <4>1. ents'[j][m] = None
        BY <1>0, <3>1
      <4>. QED  BY <3>1, <4>1 DEF Subdirs
    <3>2. CASE ~(j = d /\ m = n)
      <4>1. ents'[j][m] = ents[j][m] /\ ents[j][m] \in Inums \cup {None}
        BY <1>0, <3>2
      <4>. QED  BY <3>2, <4>1 DEF Subdirs
    <3>. QED  BY <3>1, <3>2
  <2>2. Subdirs(j) \subseteq Names /\ Subdirs(j)' \subseteq Names
    BY DEF Subdirs
  <2>3. j = d /\ n \in Subdirs(j) => din[i].type = "dir"
    BY DEF Subdirs
  <2>. QED  BY <2>1, <2>2, <2>3
<1>4. j = d /\ din[i].type = "dir" => n \in Subdirs(j)
  BY DEF Subdirs
<1>5. /\ IsFiniteSet(Entries(j)) /\ Cardinality(Entries(j)) \in Nat
      /\ IsFiniteSet(Subdirs(j)) /\ Cardinality(Subdirs(j)) \in Nat
  BY LinksFinite
<1>6. Cardinality(Entries(j)') = Cardinality(Entries(j)) - IF j = ents[d][n] THEN 1 ELSE 0
  BY <1>1, <1>2, <1>5, OneMember
<1>7. Cardinality(Subdirs(j)') = Cardinality(Subdirs(j)) - IF j = d /\ din[ents[d][n]].type = "dir" THEN 1 ELSE 0
  BY <1>3, <1>4, <1>5, OneMember
<1>. QED  BY <1>6, <1>7

(* The entries of a directory that is freed.                                 *)
LEMMA EntriesLost ==
  ASSUME TypeOK, NEW d \in Inums, NEW j \in Inums, ents' = [ents EXCEPT ![d] = NoEntries]
  PROVE  Cardinality(Entries(j)) = Cardinality(Entries(j)') + Cardinality({n \in Names : ents[d][n] = j})
         /\ Cardinality(Entries(j)') \in Nat /\ Cardinality({n \in Names : ents[d][n] = j}) \in Nat
<1>. USE Numbers
<1>. DEFINE N == {n \in Names : ents[d][n] = j}
            here == {<<d, n>> : n \in N}
<1>0. ents \in [Inums -> [Names -> Inums \cup {None}]]
  BY DEF TypeOK
<1>1. Entries(j)' = Entries(j) \ here
  BY <1>0 DEF Entries, NoEntries
<1>2. here \subseteq Entries(j)
  BY DEF Entries
<1>3. IsFiniteSet(Entries(j)) /\ IsFiniteSet(N)
  BY LinksFinite, InodesAssumption, FS_Subset
<1>4. Cardinality(here) = Cardinality(N) /\ IsFiniteSet(here)
  <2>. DEFINE f == [n \in N |-> <<d, n>>]
  <2>1. f \in Bijection(N, here)
    BY DEF Bijection, Injection, Surjection, IsInjective
  <2>. HIDE DEF f, N, here
  <2>. QED  BY <1>3, <2>1, FS_Bijection, Zenon DEF ExistsBijection
<1>5. Entries(j) = Entries(j)' \cup here /\ Entries(j)' \cap here = {} /\ IsFiniteSet(Entries(j)')
  BY <1>1, <1>2, <1>3, FS_Subset
<1>. HIDE DEF here, N
<1>6. Cardinality(Entries(j)) = Cardinality(Entries(j)') + Cardinality(here)
  BY <1>4, <1>5, DisjointUnion
<1>7. Cardinality(Entries(j)') \in Nat /\ Cardinality(N) \in Nat
  BY <1>3, <1>5, FS_CardinalityType
<1>. QED  BY <1>4, <1>6, <1>7 DEF N

(* The links of j stay counted if they change by what their counters do.     *)
LEMMA LinkSum ==
  ASSUME TypeOK, LinkInv, NEW j \in Inums,
         din'[j].nlink - din[j].nlink =
           (Cardinality(Entries(j)') - Cardinality(Entries(j))) + (Cardinality(Subdirs(j)') - Cardinality(Subdirs(j)))
             + (Cardinality(CountedBy(j)') - Cardinality(CountedBy(j)))
             + (Cardinality(Owing(j)') - Cardinality(Owing(j))) + (lost'[j] - lost[j]),
         din'[j].nlink \in Int, lost'[j] \in Int,
         Cardinality(Entries(j)') \in Int, Cardinality(Subdirs(j)') \in Int,
         Cardinality(CountedBy(j)') \in Int, Cardinality(Owing(j)') \in Int
  PROVE  din'[j].nlink = Cardinality(Entries(j)') + Cardinality(Subdirs(j)') + Cardinality(CountedBy(j)')
                   + Cardinality(Owing(j)') + lost'[j] + IF j = Root THEN 1 ELSE 0
<1>1. /\ Cardinality(Entries(j)) \in Nat /\ Cardinality(Subdirs(j)) \in Nat /\ Cardinality(CountedBy(j)) \in Nat
      /\ Cardinality(Owing(j)) \in Nat /\ lost[j] \in Nat /\ din[j].nlink \in Int
  BY LinksFinite DEF TypeOK, Copy
<1>2. din[j].nlink = Cardinality(Entries(j)) + Cardinality(Subdirs(j)) + Cardinality(CountedBy(j))
                   + Cardinality(Owing(j)) + lost[j] + IF j = Root THEN 1 ELSE 0
  BY DEF LinkInv
<1>. QED  BY <1>1, <1>2

(* The count of links changes as the links do.                               *)
LEMMA LinkStep ==
  ASSUME TypeOK, Shape, TypeOK', Sound, DiskInv', NEW p \in Procs, Calls(p) \/ Step(p)
  PROVE  LinkInv'
<1>. USE Numbers DEF onDisk, inCache, history
<1>0. /\ k \in [Procs -> Local] /\ ShapeOf(k[p]) /\ k[p] \in Local
      /\ din \in [Inums -> Copy] /\ ents \in [Inums -> [Names -> Inums \cup {None}]] /\ lost \in [Inums -> Nat]
      /\ TypeOK /\ DiskInv /\ LinkInv
  BY DEF TypeOK, Shape, Sound
<1>. DEFINE c(j) == (IF p \in CountedBy(j)' THEN 1 ELSE 0) - (IF p \in CountedBy(j) THEN 1 ELSE 0)
            o(j) == (IF p \in Owing(j)' THEN 1 ELSE 0) - (IF p \in Owing(j) THEN 1 ELSE 0)
            Right(j) ==
              /\ Cardinality(Entries(j)') \in Int /\ Cardinality(Subdirs(j)') \in Int
              /\ din'[j].nlink - din[j].nlink =
                   (Cardinality(Entries(j)') - Cardinality(Entries(j)))
                     + (Cardinality(Subdirs(j)') - Cardinality(Subdirs(j)))
                     + c(j) + o(j) + (lost'[j] - lost[j])
<1>n. ASSUME NEW j \in Inums
      PROVE  /\ Cardinality(Entries(j)) \in Nat /\ Cardinality(Subdirs(j)) \in Nat /\ Cardinality(CountedBy(j)) \in Nat
             /\ Cardinality(Owing(j)) \in Nat /\ lost[j] \in Nat /\ lost'[j] \in Nat
             /\ din[j].nlink \in Nat /\ din'[j].nlink \in Nat
             /\ c(j) \in Int /\ o(j) \in Int
             /\ Cardinality(CountedBy(j)') = Cardinality(CountedBy(j)) + c(j)
             /\ Cardinality(Owing(j)') = Cardinality(Owing(j)) + o(j)
  <2>1. /\ Cardinality(Entries(j)) \in Nat /\ Cardinality(Subdirs(j)) \in Nat /\ Cardinality(CountedBy(j)) \in Nat
        /\ Cardinality(Owing(j)) \in Nat
    BY LinksFinite
  <2>2. lost[j] \in Nat /\ lost'[j] \in Nat /\ din[j].nlink \in Nat /\ din'[j].nlink \in Nat
    BY <1>0 DEF TypeOK, DiskInv
  <2>. QED  BY <2>1, <2>2, CountersStep
(* It remains to say, for each inode, that the counters change with nlink.   *)
<1>s. ASSUME \A j \in Inums : Right(j)
      PROVE  LinkInv'
  <2>1. ASSUME NEW j \in Inums
        PROVE  din'[j].nlink = Cardinality(Entries(j)') + Cardinality(Subdirs(j)') + Cardinality(CountedBy(j)')
                   + Cardinality(Owing(j)') + lost'[j] + IF j = Root THEN 1 ELSE 0
    <3>1. Right(j)
      BY <1>s
    <3>2. /\ Cardinality(CountedBy(j)') - Cardinality(CountedBy(j)) = c(j) /\ Cardinality(CountedBy(j)') \in Int
          /\ Cardinality(Owing(j)') - Cardinality(Owing(j)) = o(j) /\ Cardinality(Owing(j)') \in Int
          /\ lost'[j] \in Int /\ din'[j].nlink \in Int
      <4>. HIDE DEF c, o, Right
      <4>. QED  BY <1>n
    <3>. HIDE DEF c, o
    <3>. QED  BY <1>0, <3>1, <3>2, LinkSum
  <2>. QED  BY <2>1 DEF LinkInv
<1>m. ASSUME NEW j PROVE /\ p \in CountedBy(j) <=> /\ k[p].jp = j /\ k[p].call = "linkdir"
                                                   /\ k[p].pc \in {"walk", "linkdir", "unlock", "undo"}
                         /\ p \in CountedBy(j)' <=> /\ k'[p].jp = j /\ k'[p].call = "linkdir"
                                                    /\ k'[p].pc \in {"walk", "linkdir", "unlock", "undo"}
                         /\ p \in Owing(j) <=> k[p].pc = "unlinked" /\ k[p].jp = j
                         /\ p \in Owing(j)' <=> k'[p].pc = "unlinked" /\ k'[p].jp = j
  BY DEF CountedBy, Owing
(* The same, when the directories stay as they are.                          *)
<1>e. ASSUME NEW j \in Inums, UNCHANGED <<ents, lost>>, \A i \in Inums : din'[i].type = din[i].type,
             din'[j].nlink = din[j].nlink + c(j) + o(j)
      PROVE  Right(j)
  <2>1. Entries(j)' = Entries(j)
    BY <1>e DEF Entries
  <2>2. Subdirs(j)' = Subdirs(j)
    <3>1. ASSUME NEW n \in Names PROVE n \in Subdirs(j)' <=> n \in Subdirs(j)
      <4>1. ents'[j][n] = ents[j][n] /\ ents[j][n] \in Inums \cup {None}
        <5>1. ents'[j][n] = ents[j][n]
          BY <1>e
        <5>2. ents[j] \in [Names -> Inums \cup {None}]
          BY <1>0
        <5>. QED  BY <5>1, <5>2
      <4>2. ents[j][n] \in Inums => din'[ents[j][n]].type = din[ents[j][n]].type
        BY <1>e
      <4>. QED  BY <4>1, <4>2 DEF Subdirs
    <3>. QED  BY <3>1 DEF Subdirs
  <2>. HIDE DEF c, o
  <2>. QED  BY <1>n, <1>e, <2>1, <2>2
<1>t. ASSUME ~CreateAlloc(p), k[p].stage # "free", NEW i \in Inums PROVE din'[i].type = din[i].type
  BY <1>0, <1>t, DiskKept DEF Sound
<1>2. CASE Quiet(p)
  <2>1. ASSUME NEW j \in Inums PROVE Right(j)
    <3>1. UNCHANGED <<din, ents, lost>>
      BY <1>2 DEF Quiet
    <3>2. c(j) = 0 /\ o(j) = 0
      BY <1>2 DEF Quiet
    <3>. HIDE DEF c, o, Right
    <3>. QED  BY <1>n, <1>e, <3>1, <3>2
  <2>. HIDE DEF Right
  <2>. QED  BY <1>s, <2>1
<1>3. CASE PutFree(p)
  <2>. DEFINE i == k[p].put
  <2>1. i \in Inums /\ k[p].stage = "free"
    BY <1>0, <1>3 DEF PutFree, Local
  <2>2. /\ din' = [din EXCEPT ![i] = Unread] /\ ents' = [ents EXCEPT ![i] = NoEntries]
        /\ lost' = [j \in Inums |-> lost[j] + Cardinality({n \in Names : ents[i][n] = j})]
        /\ k' = [k EXCEPT ![p].stage = "drop"]
    BY <1>3 DEF PutFree
  <2>3. din[i].nlink = 0
    BY <2>1 DEF Sound, FreeInv
  <2>4. k'[p].pc = k[p].pc /\ k'[p].jp = k[p].jp /\ k'[p].call = k[p].call
    BY <1>0, <2>2 DEF Local
  <2>. HIDE DEF i
  <2>5. Entries(i) = {} /\ Subdirs(i) = {}
    BY <1>0, <2>1, <2>3, NoLinks
  <2>6. ASSUME NEW j \in Inums PROVE Right(j)
    <3>. DEFINE x == Cardinality({n \in Names : ents[i][n] = j})
    <3>1. Cardinality(Entries(j)) = Cardinality(Entries(j)') + x /\ Cardinality(Entries(j)') \in Nat /\ x \in Nat
      BY <2>1, <2>2, EntriesLost
    <3>2. Subdirs(j)' = Subdirs(j)
      <4>1. ASSUME NEW n \in Names PROVE ents[j][n] # i
        <5>1. ents[j][n] = i => <<j, n>> \in Entries(i)
          BY DEF Entries
        <5>. QED  BY <2>5, <5>1
      <4>2. CASE j = i
        BY <1>0, <2>1, <2>2, <2>5, <4>2 DEF Subdirs, NoEntries
      <4>3. CASE j # i
        <5>1. ents'[j] = ents[j] /\ \A n \in Names : ents[j][n] # None => din'[ents[j][n]] = din[ents[j][n]]
          BY <1>0, <2>1, <2>2, <4>1, <4>3
        <5>. QED  BY <5>1 DEF Subdirs
      <4>. QED  BY <4>2, <4>3
    <3>3. lost'[j] = lost[j] + x
      BY <2>2
    <3>4. din'[j].nlink = din[j].nlink
      BY <1>0, <2>1, <2>2, <2>3 DEF Unread
    <3>5. c(j) = 0 /\ o(j) = 0
      BY <1>m, <2>4
    <3>. HIDE DEF x, c, o
    <3>. QED  BY <1>n, <3>1, <3>2, <3>3, <3>4, <3>5
  <2>. HIDE DEF Right
  <2>. QED  BY <1>s, <2>6
<1>4. CASE CreateAlloc(p)
  <2>. DEFINE i == CHOOSE h \in Free : \A g \in Free : h <= g
              new == [type |-> IF k[p].call = "mkdir" THEN "dir" ELSE "file", nlink |-> 0]
  <2>1. i \in Inums /\ din[i].type = "none"
    BY <1>4, LeastFree DEF CreateAlloc, Free
  <2>2. din' = [din EXCEPT ![i] = new] /\ UNCHANGED <<ents, lost>> /\ new.nlink = 0
        /\ k' = [k EXCEPT ![p].pc = "init", ![p].jp = i]
    BY <1>4 DEF CreateAlloc
  <2>3. k[p].pc \in {"create", "mkdir"} /\ k[p].call = k[p].pc
    BY <1>0, <1>4, LocksAt DEF CreateAlloc, ShapeOf
  <2>. HIDE DEF i, new
  <2>4. k'[p].pc = "init" /\ k'[p].call = k[p].call
    BY <1>0, <2>2 DEF Local
  <2>5. din[i].nlink = 0
    BY <1>0, <2>1 DEF DiskInv, Unread
  <2>6. Entries(i) = {}
    BY <1>0, <2>1, <2>5, NoLinks
  <2>7. ASSUME NEW j \in Inums PROVE Right(j)
    <3>1. Entries(j)' = Entries(j)
      BY <2>2 DEF Entries
    <3>2. Subdirs(j)' = Subdirs(j)
      <4>1. ASSUME NEW n \in Names PROVE ents[j][n] # i
        <5>1. ents[j][n] = i => <<j, n>> \in Entries(i)
          BY DEF Entries
        <5>. QED  BY <2>6, <5>1
      <4>2. \A n \in Names : ents[j][n] # None => din'[ents[j][n]] = din[ents[j][n]]
        BY <1>0, <2>1, <2>2, <4>1
      <4>. QED  BY <2>2, <4>2 DEF Subdirs
    <3>3. c(j) = 0 /\ o(j) = 0
      BY <1>m, <2>3, <2>4
    <3>4. din'[j].nlink = din[j].nlink /\ lost'[j] = lost[j]
      BY <1>0, <2>1, <2>2, <2>5
    <3>. HIDE DEF c, o
    <3>. QED  BY <1>n, <3>1, <3>2, <3>3, <3>4
  <2>. HIDE DEF Right
  <2>. QED  BY <1>s, <2>7
<1>5. CASE CreateInit(p)
  <2>. DEFINE d == k[p].ip
              i == k[p].jp
              n == k[p].rest[1]
  <2>1. /\ d \in Inums /\ i \in Inums /\ k[p].pc = "init" /\ k[p].stage = "check"
        /\ k[p].call \in {"create", "mkdir"}
    BY <1>5, <1>0, LocksAt DEF CreateInit, ShapeOf, Local
  <2>2. /\ n \in Names /\ ents[d][n] = None /\ i # d
        /\ din[i] = [type |-> IF k[p].call = "mkdir" THEN "dir" ELSE "file", nlink |-> 0]
    BY <2>1 DEF Sound, MakeInv
  <2>3. \A h \in Inums : din'[h].type = din[h].type
    BY <1>t, <2>1 DEF CreateAlloc
  <2>4. \A h \in Inums : din'[h] = CASE h = i -> [Inode(h) EXCEPT !.nlink = 1]
                                     [] h # i /\ h = d -> IF k[p].call = "mkdir" THEN OneMore(h) ELSE Inode(h)
                                     [] OTHER -> din[h]
    BY <1>5, <2>1 DEF CreateInit
  <2>5. /\ ents' = [ents EXCEPT ![d][n] = i] /\ UNCHANGED lost
        /\ k' = [k EXCEPT ![p].pc = "made", ![p].ip = None, ![p].put = d]
    BY <1>5 DEF CreateInit
  <2>. HIDE DEF d, i, n
  <2>6. k'[p].pc = "made" /\ k'[p].call = k[p].call
    BY <1>0, <2>5 DEF Local
  <2>7. din'[i].nlink = 1 /\ din[i].nlink = 0 /\ (din[i].type = "dir" <=> k[p].call = "mkdir")
    <3>1. din'[i] = [Inode(i) EXCEPT !.nlink = 1] /\ Inode(i) \in Copy
      BY <2>1, <2>4, InodeType
    <3>. QED  BY <2>2, <3>1 DEF Copy
  <2>8. din'[d].nlink = din[d].nlink + IF din[i].type = "dir" THEN 1 ELSE 0
    <3>1. din'[d] = IF k[p].call = "mkdir" THEN OneMore(d) ELSE din[d]
      BY <1>0, <2>1, <2>2, <2>4, InodeIsDisk
    <3>2. OneMore(d).nlink = din[d].nlink + 1 /\ din[d].nlink \in Nat
      BY <1>0, <1>n, <2>1, OneLink
    <3>3. CASE k[p].call = "mkdir"
      BY <2>7, <3>1, <3>2, <3>3
    <3>4. CASE k[p].call # "mkdir"
      BY <2>7, <3>1, <3>2, <3>4
    <3>. QED  BY <3>3, <3>4
  <2>9. ASSUME NEW j \in Inums PROVE Right(j)
    <3>1. /\ Cardinality(Entries(j)') = Cardinality(Entries(j)) + IF j = i THEN 1 ELSE 0
          /\ Cardinality(Subdirs(j)') = Cardinality(Subdirs(j)) + IF j = d /\ din[i].type = "dir" THEN 1 ELSE 0
      <4>1. Made(d, i, j)
        BY <2>1, <2>2, <2>3, <2>5, EntryMade, Zenon
      <4>. QED  BY <4>1 DEF Made
    <3>2. c(j) = 0 /\ o(j) = 0
      BY <1>m, <2>1, <2>6
    <3>3. din'[j].nlink = din[j].nlink + (IF j = i THEN 1 ELSE 0) + IF j = d /\ din[i].type = "dir" THEN 1 ELSE 0
      <4>1. j \notin {i, d} => din'[j] = din[j]
        BY <2>4
      <4>. QED  BY <1>n, <2>2, <2>7, <2>8, <4>1
    <3>4. lost'[j] = lost[j]
      BY <2>5
    <3>. HIDE DEF c, o
    <3>. QED  BY <1>n, <3>1, <3>2, <3>3, <3>4
  <2>. HIDE DEF Right
  <2>. QED  BY <1>s, <2>9
<1>6. CASE UnlinkEntry(p)
  <2>. DEFINE d == k[p].ip
              i == k[p].jp
              n == k[p].rest[1]
  <2>1. d \in Inums /\ i \in Inums /\ k[p].pc = "unlink_ip" /\ k[p].call = "unlink" /\ k[p].stage = "check"
    BY <1>6, <1>0, LocksAt DEF UnlinkEntry, ShapeOf, Local
  <2>2. n \in Names /\ ents[d][n] = i
    BY <2>1 DEF Sound, CallInv
  <2>3. \A h \in Inums : din'[h].type = din[h].type
    <3>1. ~CreateAlloc(p)
      BY <2>1 DEF CreateAlloc
    <3>. QED  BY <1>t, <2>1, <3>1
  <2>4. /\ din' = [din EXCEPT ![d] = IF din[i].type = "dir" THEN OneLess(d) ELSE din[d]]
        /\ ents' = [ents EXCEPT ![d][n] = None] /\ UNCHANGED lost
        /\ k' = [k EXCEPT ![p].pc = "unlinked", ![p].ip = None, ![p].put = d]
    BY <1>0, <1>6, <2>1, InodeIsDisk DEF UnlinkEntry
  <2>. HIDE DEF d, i, n
  <2>5. k'[p].pc = "unlinked" /\ k'[p].call = k[p].call /\ k'[p].jp = k[p].jp
    BY <1>0, <2>4 DEF Local
  <2>6. din'[d].nlink = din[d].nlink - IF din[i].type = "dir" THEN 1 ELSE 0
    <3>1. din'[d] = IF din[i].type = "dir" THEN OneLess(d) ELSE din[d]
      BY <1>0, <2>1, <2>4
    <3>2. OneLess(d).nlink = din[d].nlink - 1 /\ din[d].nlink \in Nat
      BY <1>0, <1>n, <2>1, OneLink
    <3>. QED  BY <3>1, <3>2
  <2>9. ASSUME NEW j \in Inums PROVE Right(j)
    <3>1. /\ Cardinality(Entries(j)') = Cardinality(Entries(j)) - IF j = i THEN 1 ELSE 0
          /\ Cardinality(Subdirs(j)') = Cardinality(Subdirs(j)) - IF j = d /\ din[i].type = "dir" THEN 1 ELSE 0
      <4>1. ents' = [ents EXCEPT ![d][n] = None] /\ \A h \in Inums : din'[h].type = din[h].type
        BY <2>3, <2>4
      <4>. HIDE DEF c, o, Right
      <4>2. d \in Inums /\ n \in Names /\ ents[d][n] \in Inums /\ i = ents[d][n]
        BY <2>1, <2>2
      <4>3. /\ Cardinality(Entries(j)') = Cardinality(Entries(j)) - IF j = ents[d][n] THEN 1 ELSE 0
            /\ Cardinality(Subdirs(j)') = Cardinality(Subdirs(j)) - IF j = d /\ din[ents[d][n]].type = "dir" THEN 1 ELSE 0
        BY <4>1, <4>2, EntryRemoved
      <4>. QED  BY <4>2, <4>3
    <3>2. c(j) = 0 /\ o(j) = IF j = i THEN 1 ELSE 0
      BY <1>m, <2>1, <2>5 DEF i
    <3>3. din'[j].nlink = din[j].nlink - IF j = d /\ din[i].type = "dir" THEN 1 ELSE 0
      <4>1. j # d => din'[j] = din[j]
        BY <1>0, <2>4
      <4>. QED  BY <1>n, <2>6, <4>1
    <3>4. lost'[j] = lost[j]
      BY <2>4
    <3>. HIDE DEF c, o
    <3>. QED  BY <1>n, <3>1, <3>2, <3>3, <3>4
  <2>. HIDE DEF Right
  <2>. QED  BY <1>s, <2>9
<1>7. CASE UnlinkEnd(p) \/ LinkUndo(p)
  <2>. DEFINE i == k[p].jp
  <2>1. /\ i \in Inums /\ k[p].stage = "check"
        /\ \/ k[p].pc = "unlinked" /\ k[p].call = "unlink"
           \/ k[p].pc = "undo" /\ k[p].call = "linkdir"
    BY <1>7, <1>0, LocksAt DEF UnlinkEnd, LinkUndo, At, ShapeOf, Local
  <2>2. din' = [din EXCEPT ![i] = OneLess(i)] /\ UNCHANGED <<ents, lost>> /\ k' = Leave(p, i)
    BY <1>7 DEF UnlinkEnd, LinkUndo
  <2>3. k'[p].pc = "user" /\ k'[p].call = "none"
    BY <1>0, <2>2 DEF Leave, AtUser
  <2>4. ~CreateAlloc(p)
    BY <2>1 DEF CreateAlloc
  <2>9. ASSUME NEW j \in Inums PROVE Right(j)
    <3>1. c(j) + o(j) = IF j = i THEN 0 - 1 ELSE 0
      BY <1>m, <2>1, <2>3
    <3>. HIDE DEF i
    <3>2. din'[j].nlink = din[j].nlink + IF j = i THEN 0 - 1 ELSE 0
      <4>1. din'[j] = IF j = i THEN OneLess(i) ELSE din[j]
        BY <1>0, <2>1, <2>2
      <4>2. OneLess(i).nlink = din[i].nlink - 1 /\ din[j].nlink \in Nat
        BY <1>0, <1>n, <2>1, OneLink
      <4>. QED  BY <4>1, <4>2
    <3>3. \A h \in Inums : din'[h].type = din[h].type
      BY <1>t, <2>1, <2>4
    <3>. HIDE DEF c, o, Right
    <3>4. din'[j].nlink = din[j].nlink + c(j) + o(j)
      BY <1>n, <3>1, <3>2
    <3>. QED  BY <1>e, <2>2, <3>3, <3>4
  <2>. HIDE DEF Right
  <2>. QED  BY <1>s, <2>9
<1>8. CASE LinkCount(p) /\ Inode(k[p].ip).type # "dir"
  <2>. DEFINE i == k[p].ip
              start == StartOf(p, k[p].new)
              rest == k[p].new.names
  <2>1. i \in Inums /\ k[p].stage = "check" /\ k[p].pc = "link" /\ k[p].call = "link"
    BY <1>8, <1>0, LocksAt DEF LinkCount, ShapeOf
  <2>2. /\ din' = [din EXCEPT ![i] = OneMore(i)] /\ UNCHANGED <<ents, lost>>
        /\ k' = [k EXCEPT ![p] = [AtUser EXCEPT !.pc = "walk", !.call = "linkdir", !.rest = rest, !.ip = start, !.jp = i]]
    BY <1>8 DEF LinkCount
  <2>. HIDE DEF start, rest, i
  <2>3. k'[p].pc = "walk" /\ k'[p].call = "linkdir" /\ k'[p].jp = i
    BY <1>0, <2>2 DEF AtUser
  <2>4. ~CreateAlloc(p)
    BY <2>1 DEF CreateAlloc
  <2>9. ASSUME NEW j \in Inums PROVE Right(j)
    <3>1. c(j) + o(j) = IF j = i THEN 1 ELSE 0
      BY <1>m, <2>1, <2>3
    <3>2. din'[j].nlink = din[j].nlink + IF j = i THEN 1 ELSE 0
      <4>1. din'[j] = IF j = i THEN OneMore(i) ELSE din[j]
        BY <1>0, <2>1, <2>2
      <4>2. OneMore(i).nlink = din[i].nlink + 1 /\ din[j].nlink \in Nat
        BY <1>0, <1>n, <2>1, OneLink
      <4>. QED  BY <4>1, <4>2
    <3>3. \A h \in Inums : din'[h].type = din[h].type
      BY <1>t, <2>1, <2>4
    <3>. HIDE DEF c, o, Right
    <3>4. din'[j].nlink = din[j].nlink + c(j) + o(j)
      BY <1>n, <3>1, <3>2
    <3>. QED  BY <1>e, <2>2, <3>3, <3>4
  <2>. HIDE DEF Right
  <2>. QED  BY <1>s, <2>9
<1>9. CASE LinkEntry(p)
  <2>. DEFINE d == k[p].ip
              i == k[p].jp
              n == k[p].rest[1]
  <2>1. d \in Inums /\ i \in Inums /\ k[p].pc = "linkdir" /\ k[p].call = "linkdir" /\ k[p].stage = "check"
    BY <1>9, <1>0, LocksAt DEF LinkEntry, ShapeOf, Local
  <2>2. Entry(d, n) = None
    BY <1>9 DEF LinkEntry
  <2>3. n \in Names /\ ents[d][n] = None /\ din[i].type # "dir"
    BY <2>1, <2>2, NewName DEF Sound, CallInv
  <2>4. /\ ents' = [ents EXCEPT ![d][n] = i] /\ UNCHANGED <<din, lost>>
        /\ k' = [k EXCEPT ![p].pc = "linked", ![p].ip = None, ![p].put = d]
    BY <1>9 DEF LinkEntry
  <2>. HIDE DEF d, i, n
  <2>5. k'[p].pc = "linked"
    BY <1>0, <2>4 DEF Local
  <2>9. ASSUME NEW j \in Inums PROVE Right(j)
    <3>0. \A h \in Inums : din'[h].type = din[h].type
      BY <2>4
    <3>1. /\ Cardinality(Entries(j)') = Cardinality(Entries(j)) + IF j = i THEN 1 ELSE 0
          /\ Cardinality(Subdirs(j)') = Cardinality(Subdirs(j)) + IF j = d /\ din[i].type = "dir" THEN 1 ELSE 0
      <4>1. ents' = [ents EXCEPT ![d][n] = i] /\ \A h \in Inums : din'[h].type = din[h].type
        BY <2>4, <3>0
      <4>. HIDE DEF c, o, Right
      <4>2. d \in Inums /\ i \in Inums /\ n \in Names /\ ents[d][n] = None
        BY <2>1, <2>3
      <4>3. Made(d, i, j)
        BY <4>1, <4>2, EntryMade, Zenon
      <4>. QED  BY <4>3 DEF Made
    <3>2. o(j) = 0 /\ c(j) = IF j = i THEN 0 - 1 ELSE 0
      BY <1>m, <2>1, <2>5 DEF i
    <3>3. din'[j].nlink = din[j].nlink /\ lost'[j] = lost[j]
      BY <2>4
    <3>. HIDE DEF c, o
    <3>. QED  BY <1>n, <2>3, <3>1, <3>2, <3>3
  <2>. HIDE DEF Right
  <2>. QED  BY <1>s, <2>9
<1>. QED  BY <1>2, <1>3, <1>4, <1>5, <1>6, <1>7, <1>8, <1>9, QuietStep

-----------------------------------------------------------------------------
(* The tree *)

LEMMA AtInit ==
  ASSUME TypeOK, Shape, NEW p \in Procs, Calls(p) \/ Step(p), k[p].pc = "init"
  PROVE  CreateInit(p) \/ BadInode(p)
<1>. USE Numbers
<1>0. k[p] \in Local /\ ShapeOf(k[p])
  BY DEF TypeOK, Shape
<1>00. k[p].put = None /\ k[p].stage = "check" /\ k[p] # AtUser
  BY <1>0 DEF ShapeOf, AtUser
<1>1. ASSUME PutCheck(p) PROVE CreateInit(p) \/ BadInode(p)
  <2>1. k[p].put # None
    BY <1>1 DEF PutCheck
  <2>. QED  BY <2>1, <1>00
<1>2. ASSUME PutFree(p) PROVE CreateInit(p) \/ BadInode(p)
  <2>1. k[p].put # None
    BY <1>2 DEF PutFree
  <2>. QED  BY <2>1, <1>00
<1>3. ASSUME PutDrop(p) PROVE CreateInit(p) \/ BadInode(p)
  <2>1. k[p].put # None
    BY <1>3 DEF PutDrop
  <2>. QED  BY <2>1, <1>00
<1>4. ASSUME BadInode(p) PROVE CreateInit(p) \/ BadInode(p)
  BY <1>4
<1>5. ASSUME Walk(p) PROVE CreateInit(p) \/ BadInode(p)
  BY <1>5, LocksAt DEF Walk
<1>6. ASSUME WalkNoParent(p) PROVE CreateInit(p) \/ BadInode(p)
  BY <1>6 DEF WalkNoParent, At
<1>7. ASSUME Open(p) PROVE CreateInit(p) \/ BadInode(p)
  BY <1>7, LocksAt DEF Open
<1>8. ASSUME Close(p) PROVE CreateInit(p) \/ BadInode(p)
  <2>1. k[p] = AtUser
    BY <1>8 DEF Close
  <2>. QED  BY <2>1, <1>00
<1>9. ASSUME Chdir(p) PROVE CreateInit(p) \/ BadInode(p)
  BY <1>9, LocksAt DEF Chdir
<1>10. ASSUME CreateFound(p) PROVE CreateInit(p) \/ BadInode(p)
  BY <1>10, LocksAt DEF CreateFound
<1>11. ASSUME CreateOld(p) PROVE CreateInit(p) \/ BadInode(p)
  BY <1>11, LocksAt DEF CreateOld
<1>12. ASSUME CreateAlloc(p) PROVE CreateInit(p) \/ BadInode(p)
  BY <1>12, LocksAt DEF CreateAlloc
<1>13. ASSUME NoInodes(p) PROVE CreateInit(p) \/ BadInode(p)
  BY <1>13 DEF NoInodes
<1>14. ASSUME CreateInit(p) PROVE CreateInit(p) \/ BadInode(p)
  BY <1>14
<1>15. ASSUME CreateEnd(p) PROVE CreateInit(p) \/ BadInode(p)
  BY <1>15 DEF CreateEnd, At
<1>16. ASSUME UnlinkLookup(p) PROVE CreateInit(p) \/ BadInode(p)
  BY <1>16, LocksAt DEF UnlinkLookup
<1>17. ASSUME UnlinkNot(p) PROVE CreateInit(p) \/ BadInode(p)
  BY <1>17, LocksAt DEF UnlinkNot
<1>18. ASSUME UnlinkEntry(p) PROVE CreateInit(p) \/ BadInode(p)
  BY <1>18, LocksAt DEF UnlinkEntry
<1>19. ASSUME UnlinkEnd(p) PROVE CreateInit(p) \/ BadInode(p)
  BY <1>19 DEF UnlinkEnd, At
<1>20. ASSUME UnlockDir(p) PROVE CreateInit(p) \/ BadInode(p)
  BY <1>20 DEF UnlockDir, At
<1>21. ASSUME LinkCount(p) PROVE CreateInit(p) \/ BadInode(p)
  BY <1>21, LocksAt DEF LinkCount
<1>22. ASSUME LinkTaken(p) PROVE CreateInit(p) \/ BadInode(p)
  BY <1>22, LocksAt DEF LinkTaken
<1>23. ASSUME LinkEntry(p) PROVE CreateInit(p) \/ BadInode(p)
  BY <1>23, LocksAt DEF LinkEntry
<1>24. ASSUME LinkEnd(p) PROVE CreateInit(p) \/ BadInode(p)
  BY <1>24 DEF LinkEnd, At
<1>25. ASSUME LinkUndo(p) PROVE CreateInit(p) \/ BadInode(p)
  BY <1>25, LocksAt DEF LinkUndo
<1>26. ASSUME NEW call \in CallNames \ {"none", "linkdir"}, NEW path \in NamePaths \cup ParentPaths,
            NEW new \in ParentPaths \cup {NoPath}, Call(p, call, path, new)
     PROVE  CreateInit(p) \/ BadInode(p)
  <2>1. k[p] = AtUser
    BY <1>26 DEF Close, Call
  <2>. QED  BY <2>1, <1>00
<1>. QED  BY <1>1, <1>2, <1>3, <1>4, <1>5, <1>6, <1>7, <1>8, <1>9, <1>10, <1>11, <1>12, <1>13,
             <1>14, <1>15, <1>16, <1>17, <1>18, <1>19, <1>20, <1>21, <1>22, <1>23, <1>24, <1>25,
             <1>26, CallsIsCall DEF Step

(* Entries are made, and ".." is set, by two steps and one.                  *)
LEMMA TreeChange ==
  ASSUME TypeOK, Shape, NEW p \in Procs, Calls(p) \/ Step(p), NEW j \in Inums
  PROVE  /\ dotdot'[j] # dotdot[j] => (PutFree(p) /\ j = k[p].put) \/ (CreateInit(p) /\ j = k[p].jp)
         /\ \A n \in Names : ents'[j][n] \notin {None, ents[j][n]} =>
              /\ CreateInit(p) \/ LinkEntry(p)
              /\ j = k[p].ip /\ n = k[p].rest[1] /\ ents'[j][n] = k[p].jp
<1>. USE Numbers DEF onDisk, inCache, history
<1>0. /\ ents \in [Inums -> [Names -> Inums \cup {None}]] /\ dotdot \in [Inums -> Inums \cup {None}]
  BY DEF TypeOK
<1>1. CASE Quiet(p)
  BY <1>1 DEF Quiet
<1>2. CASE PutFree(p)
  <2>1. /\ ents' = [ents EXCEPT ![k[p].put] = NoEntries]
        /\ dotdot' = [dotdot EXCEPT ![k[p].put] = None]
    BY <1>2 DEF PutFree
  <2>. QED  BY <1>0, <1>2, <2>1 DEF NoEntries
<1>3. CASE CreateAlloc(p) \/ UnlinkEnd(p) \/ LinkCount(p) \/ LinkUndo(p)
  BY <1>3 DEF CreateAlloc, UnlinkEnd, LinkCount, LinkUndo
<1>4. CASE CreateInit(p)
  <2>1. /\ ents' = [ents EXCEPT ![k[p].ip][k[p].rest[1]] = k[p].jp]
        /\ dotdot' = [dotdot EXCEPT ![k[p].jp] = k[p].ip] \/ dotdot' = dotdot
    BY <1>4 DEF CreateInit
  <2>. QED  BY <1>0, <1>4, <2>1
<1>5. CASE UnlinkEntry(p)
  <2>1. ents' = [ents EXCEPT ![k[p].ip][k[p].rest[1]] = None] /\ dotdot' = dotdot
    BY <1>5 DEF UnlinkEntry
  <2>. QED  BY <1>0, <2>1
<1>6. CASE LinkEntry(p)
  <2>1. ents' = [ents EXCEPT ![k[p].ip][k[p].rest[1]] = k[p].jp] /\ dotdot' = dotdot
    BY <1>6 DEF LinkEntry
  <2>. QED  BY <1>0, <1>6, <2>1
<1>. QED  BY <1>1, <1>2, <1>3, <1>4, <1>5, <1>6, QuietStep

(* A directory that was none was free, and nothing named it.                 *)
LEMMA NewDir ==
  ASSUME TypeOK, Shape, Sound, NEW p \in Procs, Calls(p) \/ Step(p), NEW j \in Inums,
         din[j].type # "dir", din'[j].type = "dir"
  PROVE  /\ CreateAlloc(p) /\ Entries(j) = {} /\ UNCHANGED <<ents, dotdot>> /\ j # Root
         /\ k'[p].pc = "init" /\ k'[p].jp = j
<1>. USE Numbers DEF onDisk
<1>0. k \in [Procs -> Local] /\ din \in [Inums -> Copy]
  BY DEF TypeOK
<1>1. CreateAlloc(p) \/ (PutFree(p) /\ j = k[p].put)
  BY DiskKept DEF Sound
<1>2. CreateAlloc(p)
  <2>1. PutFree(p) /\ j = k[p].put => din'[j] = Unread
    BY <1>0 DEF PutFree
  <2>. QED  BY <1>1, <2>1 DEF Unread
<1>. DEFINE i == CHOOSE h \in Free : \A g \in Free : h <= g
            new == [type |-> IF k[p].call = "mkdir" THEN "dir" ELSE "file", nlink |-> 0]
<1>3. i \in Inums /\ din[i].type = "none"
  BY <1>2, LeastFree DEF CreateAlloc, Free
<1>4. /\ din' = [din EXCEPT ![i] = new] /\ UNCHANGED <<ents, dotdot>>
      /\ k' = [k EXCEPT ![p].pc = "init", ![p].jp = i]
  BY <1>2 DEF CreateAlloc
<1>. HIDE DEF i, new
<1>5. j = i
  BY <1>0, <1>3, <1>4
<1>6. k'[p].pc = "init" /\ k'[p].jp = j
  BY <1>0, <1>4, <1>5 DEF Local
<1>7. din[j].nlink = 0
  BY <1>3, <1>5 DEF Sound, DiskInv, Unread
<1>8. Entries(j) = {} /\ j # Root
  BY <1>7, NoLinks DEF Sound
<1>. QED  BY <1>2, <1>4, <1>6, <1>8


(* A directory stays named by one entry, that of its `..'.                   *)
LEMMA DirStep ==
  ASSUME TypeOK, Shape, TypeOK', Sound, NEW p \in Procs, Calls(p) \/ Step(p)
  PROVE  DirInv'
<1>. USE Numbers
<1>1. /\ LockInv /\ DiskInv /\ LinkInv /\ AllocInv /\ FreeInv /\ MakeInv /\ CallInv /\ DirInv
      /\ k[p] \in Local /\ ShapeOf(k[p]) /\ din[Root].nlink > 0
      /\ din \in [Inums -> Copy] /\ ents \in [Inums -> [Names -> Inums \cup {None}]]
  BY Linked DEF Sound, TypeOK, Shape
<1>2. /\ PutFree(p) => k[p].put # Root
      /\ CreateInit(p) => /\ k[p].pc = "init" /\ k[p].jp \in Inums /\ k[p].jp # Root /\ Entries(k[p].jp) = {}
                          /\ din[k[p].jp].type = IF k[p].call = "mkdir" THEN "dir" ELSE "file"
      /\ LinkEntry(p) => din[k[p].jp].type # "dir" /\ UNCHANGED din
  <2>1. PutFree(p) => k[p].put # Root
    BY <1>1 DEF PutFree, FreeInv
  <2>2. ASSUME CreateInit(p)
        PROVE  /\ k[p].pc = "init" /\ k[p].jp \in Inums
               /\ din[k[p].jp] = [type |-> IF k[p].call = "mkdir" THEN "dir" ELSE "file", nlink |-> 0]
    BY <2>2, <1>1, LocksAt DEF CreateInit, MakeInv
  <2>3. ASSUME CreateInit(p) PROVE Entries(k[p].jp) = {} /\ k[p].jp # Root
    <3>1. ~(din[k[p].jp].nlink > 0)
      BY <2>2, <2>3
    <3>. QED  BY <3>1, <2>2, <2>3, <1>1, NoLinks
  <2>4. ASSUME LinkEntry(p) PROVE din[k[p].jp].type # "dir" /\ UNCHANGED din
    <3>1. k[p].pc = "linkdir" /\ UNCHANGED din
      BY <2>4, LocksAt DEF LinkEntry
    <3>2. k[p].call = "linkdir"
      BY <3>1, <1>1 DEF ShapeOf
    <3>. QED  BY <3>1, <3>2, <1>1 DEF CallInv
  <2>. QED  BY <2>1, <2>2, <2>3, <2>4
(* Only the inode that is made gets an entry.                                *)
<1>3. ASSUME NEW i \in Inums, din[i].type = "dir", NEW e \in Entries(i)', e \notin Entries(i)
      PROVE  /\ CreateInit(p) \/ (LinkEntry(p) /\ din'[i].type # "dir")
             /\ i = k[p].jp /\ e = <<k[p].ip, k[p].rest[1]>>
  <2>1. /\ e \in Inums \X Names /\ e = <<e[1], e[2]>> /\ e[1] \in Inums /\ e[2] \in Names
        /\ ents'[e[1]][e[2]] = i /\ ents[e[1]][e[2]] # i
    BY <1>3 DEF Entries
  <2>2. /\ CreateInit(p) \/ LinkEntry(p)
        /\ e[1] = k[p].ip /\ e[2] = k[p].rest[1] /\ i = k[p].jp
    <3>1. ents'[e[1]][e[2]] # None /\ ents'[e[1]][e[2]] # ents[e[1]][e[2]]
      BY <2>1
    <3>2. \A n \in Names : ents'[e[1]][n] \notin {None, ents[e[1]][n]} =>
              /\ CreateInit(p) \/ LinkEntry(p)
              /\ e[1] = k[p].ip /\ n = k[p].rest[1] /\ ents'[e[1]][n] = k[p].jp
      BY <2>1, TreeChange
    <3>. QED  BY <2>1, <3>1, <3>2
  <2>. QED  BY <2>1, <2>2, <1>2, <1>3
<1>4. din'[Root].type = "dir" /\ dotdot'[Root] = Root /\ Entries(Root)' = {}
  <2>1. din'[Root].type = "dir"
    BY <1>1, <1>2, DiskKept DEF DirInv
  <2>2. dotdot'[Root] = Root
    BY <1>1, <1>2, TreeChange DEF DirInv
  <2>3. ASSUME NEW e \in Entries(Root)' PROVE FALSE
    <3>1. din[Root].type = "dir" /\ e \notin Entries(Root)
      BY <1>1 DEF DirInv
    <3>. QED  BY <3>1, <2>1, <2>3, <1>3, <1>2
  <2>. QED  BY <2>1, <2>2, <2>3
<1>5. ASSUME NEW i \in Inums, din'[i].type = "dir"
      PROVE  /\ \A e, f \in Entries(i)' : e = f
             /\ \A e \in Entries(i)' : e[1] = dotdot'[i]
             /\ dotdot'[i] = None => \E q \in Procs : k'[q].pc = "init" /\ k'[q].jp = i
  <2>1. CASE din[i].type # "dir"
    <3>1. Entries(i) = {} /\ ents' = ents /\ k'[p].pc = "init" /\ k'[p].jp = i
      BY <1>5, <2>1, NewDir
    <3>2. Entries(i)' = {}
      BY <3>1 DEF Entries
    <3>. QED  BY <3>1, <3>2
  <2>2. CASE din[i].type = "dir" /\ CreateInit(p) /\ i = k[p].jp
    <3>1. k[p].call = "mkdir" /\ Entries(i) = {} /\ k[p].ip \in Inums
      BY <1>1, <1>2, <2>2 DEF Local, ShapeOf
    <3>2. dotdot'[i] = k[p].ip
      <4>1. dotdot' = [dotdot EXCEPT ![i] = k[p].ip]
        BY <2>2, <3>1 DEF CreateInit
      <4>. QED  BY <4>1 DEF TypeOK
    <3>3. \A e \in Entries(i)' : e = <<k[p].ip, k[p].rest[1]>>
      BY <2>2, <3>1, <1>3
    <3>. QED  BY <3>1, <3>2, <3>3
  <2>3. CASE din[i].type = "dir" /\ ~(CreateInit(p) /\ i = k[p].jp)
    <3>1. \A e \in Entries(i)' : e \in Entries(i)
      BY <2>3, <1>3, <1>5
    <3>2. dotdot'[i] = dotdot[i]
      <4>1. PutFree(p) /\ i = k[p].put => din'[i].type # "dir"
        BY <1>1 DEF PutFree, Unread
      <4>. QED  BY <4>1, <1>5, <2>3, TreeChange
    <3>3. ASSUME dotdot[i] = None PROVE \E q \in Procs : k'[q].pc = "init" /\ k'[q].jp = i
      <4>1. PICK q \in Procs : k[q].pc = "init" /\ k[q].jp = i
        BY <2>3, <3>3, <1>1 DEF DirInv
      <4>2. k'[q] = k[q]
        <5>1. q # p => k'[q] = k[q]
          BY Others
        <5>2. q = p => BadInode(p)
          BY <4>1, <2>3, AtInit
        <5>3. BadInode(p) => k' = k
          BY PanicKeeps
        <5>. QED  BY <5>1, <5>2, <5>3
      <4>. QED  BY <4>1, <4>2
    <3>4. /\ \A e, f \in Entries(i) : e = f
          /\ \A e \in Entries(i) : e[1] = dotdot[i]
      BY <2>3, <1>1 DEF DirInv
    <3>. QED  BY <3>1, <3>2, <3>3, <3>4
  <2>. QED  BY <2>1, <2>2, <2>3
<1>. QED  BY <1>4, <1>5 DEF DirInv

(* A new directory is given the depth of its parent and one.                 *)
LEMMA DepthStep ==
  ASSUME TypeOK, Shape, TypeOK', Sound, DepthInv, NEW p \in Procs, Calls(p) \/ Step(p)
  PROVE  DepthInv'
<1>. USE Numbers
<1>1. /\ MakeInv /\ CallInv /\ LinkInv
      /\ k[p] \in Local /\ ShapeOf(k[p])
      /\ din \in [Inums -> Copy] /\ ents \in [Inums -> [Names -> Inums \cup {None}]]
      /\ ents' \in [Inums -> [Names -> Inums \cup {None}]]
  BY DEF Sound, TypeOK, Shape
<1>t. /\ \A d \in Inums, n \in Names : ents[d][n] # None => ents[d][n] \in Inums /\ <<d, n>> \in Entries(ents[d][n])
      /\ \A d \in Inums, n \in Names : ents'[d][n] # None => ents'[d][n] \in Inums
  <2>1. ASSUME NEW d \in Inums, NEW n \in Names
        PROVE  ents[d][n] \in Inums \cup {None} /\ ents'[d][n] \in Inums \cup {None}
    BY <1>1
  <2>2. ASSUME NEW d \in Inums, NEW n \in Names PROVE <<d, n>> \in Entries(ents[d][n])
    BY DEF Entries
  <2>. QED  BY <2>1, <2>2
<1>2. PICK depth \in [Inums -> Nat] : Ranked(depth)
  BY DEF DepthInv
(* An entry for a directory is an old one, or that of the one being made.    *)
<1>3. ASSUME NEW d \in Inums, NEW n \in Names, ents'[d][n] # None, din'[ents'[d][n]].type = "dir"
      PROVE  \/ ents[d][n] = ents'[d][n] /\ din[ents[d][n]].type = "dir"
             \/ CreateInit(p) /\ d = k[p].ip /\ ents'[d][n] = k[p].jp
  <2>1. CASE ents'[d][n] = ents[d][n]
    <3>1. ents[d][n] \in Inums /\ <<d, n>> \in Entries(ents[d][n])
      BY <1>t, <1>3, <2>1
    <3>2. din[ents[d][n]].type # "dir" => Entries(ents[d][n]) = {}
      BY <3>1, <1>3, <2>1, NewDir
    <3>. QED  BY <3>1, <3>2, <2>1
  <2>2. CASE ents'[d][n] # ents[d][n]
    <3>1. /\ CreateInit(p) \/ LinkEntry(p)
          /\ d = k[p].ip /\ ents'[d][n] = k[p].jp
      BY <1>3, <2>2, TreeChange
    <3>2. ASSUME LinkEntry(p) PROVE din'[k[p].jp].type # "dir"
      <4>1. k[p].pc = "linkdir" /\ UNCHANGED din
        BY <3>2, LocksAt DEF LinkEntry
      <4>2. k[p].call = "linkdir"
        BY <4>1, <1>1 DEF ShapeOf
      <4>. QED  BY <4>1, <4>2, <1>1 DEF CallInv
    <3>. QED  BY <3>1, <3>2, <1>3
  <2>. QED  BY <2>1, <2>2
<1>4. CASE ~CreateInit(p)
  BY <1>2, <1>3, <1>4 DEF DepthInv, Ranked
<1>5. CASE CreateInit(p)
  <2>1. k[p].pc = "init" /\ k[p].jp \in Inums
    BY <1>5, LocksAt DEF CreateInit
  <2>2. /\ k[p].ip \in Inums /\ k[p].ip # k[p].jp /\ ~(din[k[p].jp].nlink > 0) /\ ents[k[p].jp] = NoEntries
    <3>1. k[p].ip \in Inums \cup {None} /\ k[p].ip # None
      BY <2>1, <1>1 DEF Local, ShapeOf
    <3>2. /\ ents[k[p].jp] = NoEntries /\ k[p].ip # k[p].jp
          /\ din[k[p].jp] = [type |-> IF k[p].call = "mkdir" THEN "dir" ELSE "file", nlink |-> 0]
      BY <2>1, <1>1 DEF MakeInv
    <3>. QED  BY <3>1, <3>2
  <2>3. Entries(k[p].jp) = {}
    BY <2>1, <2>2, <1>1, NoLinks
  <2>. DEFINE new == [depth EXCEPT ![k[p].jp] = depth[k[p].ip] + 1]
  <2>4. new \in [Inums -> Nat] /\ new[k[p].jp] = depth[k[p].ip] + 1
        /\ \A i \in Inums \ {k[p].jp} : new[i] = depth[i]
    <3>1. depth[k[p].ip] \in Nat
      BY <2>2
    <3>. QED  BY <3>1, <2>1
  <2>. HIDE DEF new
  <2>5. ASSUME NEW d \in Inums, NEW n \in Names, ents'[d][n] # None, din'[ents'[d][n]].type = "dir"
        PROVE  new[d] < new[ents'[d][n]]
    <3>1. CASE d = k[p].ip /\ ents'[d][n] = k[p].jp
      <4>1. depth[k[p].ip] \in Nat /\ new[d] = depth[k[p].ip]
        BY <3>1, <2>2, <2>4
      <4>. QED  BY <3>1, <2>4, <4>1
    <3>2. CASE ents[d][n] = ents'[d][n] /\ din[ents[d][n]].type = "dir"
      <4>1. ents[d][n] \in Inums /\ <<d, n>> \in Entries(ents[d][n])
        BY <1>t, <2>5, <3>2
      <4>2. ents[d][n] # k[p].jp
        BY <4>1, <2>3
      <4>3. d # k[p].jp
        BY <2>5, <3>2, <2>2 DEF NoEntries
      <4>4. depth[d] < depth[ents[d][n]]
        BY <1>2, <2>5, <3>2 DEF Ranked
      <4>. QED  BY <4>1, <4>2, <4>3, <4>4, <3>2, <2>4
    <3>. QED  BY <3>1, <3>2, <1>3, <2>5
  <2>. QED  BY <2>4, <2>5 DEF DepthInv, Ranked
<1>. QED  BY <1>4, <1>5

(* What a process wants to lock it refers to, and that is allocated; what    *)
(* unlink() is to remove an entry names, so it has links.                    *)
LEMMA NeverBad ==
  ASSUME TypeOK, Shape, DiskInv, LinkInv, AllocInv, CallInv, NEW p \in Procs
  PROVE  ~BadInode(p) /\ Wants(p) \in Live(p) \cup {None}
<1>. USE Numbers
<1>1. k[p] \in Local /\ ShapeOf(k[p])
  BY DEF TypeOK, Shape
<1>2. Wants(p) \in Live(p) \cup {None}
  BY <1>1 DEF Wants, Live, Refers
<1>3. ASSUME BadInode(p) PROVE FALSE
  <2>1. /\ Wants(p) # None /\ k[p].put = None
        /\ \/ Inode(Wants(p)).type = "none"
           \/ k[p].pc = "unlink_ip" /\ Inode(Wants(p)).nlink < 1
    BY <1>3 DEF BadInode
  <2>2. Wants(p) \in Inums
    BY <2>1, <1>1 DEF Wants, Local
  <2>3. Inode(Wants(p)) = din[Wants(p)]
    BY <2>2, InodeIsDisk
  <2>4. din[Wants(p)].type # "none"
    BY <1>2, <2>1, <2>2 DEF AllocInv
  <2>5. k[p].pc = "unlink_ip" /\ din[Wants(p)].nlink < 1
    BY <2>1, <2>3, <2>4
  <2>6. Wants(p) = k[p].jp /\ k[p].ip \in Inums
    BY <1>1, <2>1, <2>5 DEF Wants, ShapeOf, Local
  <2>7. /\ k[p].rest[1] \in Names
        /\ ents[k[p].ip][k[p].rest[1]] = Wants(p)
    BY <2>5, <2>6 DEF CallInv
  <2>8. din[Wants(p)].nlink > 0
    BY <2>1, <2>6, <2>7, Linked
  <2>9. din[Wants(p)].nlink \in Int
    BY <2>2 DEF TypeOK, Copy
  <2>. QED  BY <2>5, <2>8, <2>9
<1>. QED  BY <1>2, <1>3

(* ilock() finds no free inode, unlink() none without links.                 *)
LEMMA PanicStep ==
  ASSUME TypeOK, Shape, Sound, NEW p \in Procs, Calls(p) \/ Step(p)
  PROVE  panicked' \notin {"no_type", "no_links"}
<1>0. ~BadInode(p) /\ panicked \notin {"no_type", "no_links"}
  BY NeverBad DEF Sound
<1>1. ASSUME PutCheck(p) PROVE panicked' \notin {"no_type", "no_links"}
  BY <1>1, <1>0 DEF PutCheck
<1>2. ASSUME PutFree(p) PROVE panicked' \notin {"no_type", "no_links"}
  BY <1>2, <1>0 DEF PutFree
<1>3. ASSUME PutDrop(p) PROVE panicked' \notin {"no_type", "no_links"}
  BY <1>3, <1>0 DEF PutDrop
<1>4. ASSUME BadInode(p) PROVE panicked' \notin {"no_type", "no_links"}
  BY <1>4, <1>0 DEF BadInode, Panic
<1>5. ASSUME Walk(p) PROVE panicked' \notin {"no_type", "no_links"}
  BY <1>5, <1>0 DEF Walk, Fail, Leave
<1>6. ASSUME WalkNoParent(p) PROVE panicked' \notin {"no_type", "no_links"}
  BY <1>6, <1>0 DEF WalkNoParent, Fail, Leave
<1>7. ASSUME Open(p) PROVE panicked' \notin {"no_type", "no_links"}
  BY <1>7, <1>0 DEF Open, Opened, Leave
<1>8. ASSUME Close(p) PROVE panicked' \notin {"no_type", "no_links"}
  BY <1>8, <1>0 DEF Close, Leave
<1>9. ASSUME Chdir(p) PROVE panicked' \notin {"no_type", "no_links"}
  BY <1>9, <1>0 DEF Chdir, Leave
<1>10. ASSUME CreateFound(p) PROVE panicked' \notin {"no_type", "no_links"}
  BY <1>10, <1>0 DEF CreateFound
<1>11. ASSUME CreateOld(p) PROVE panicked' \notin {"no_type", "no_links"}
  BY <1>11, <1>0 DEF CreateOld, Opened, Leave
<1>12. ASSUME CreateAlloc(p) PROVE panicked' \notin {"no_type", "no_links"}
  BY <1>12, <1>0 DEF CreateAlloc
<1>13. ASSUME NoInodes(p) PROVE panicked' \notin {"no_type", "no_links"}
  BY <1>13, <1>0 DEF NoInodes, Panic
<1>14. ASSUME CreateInit(p) PROVE panicked' \notin {"no_type", "no_links"}
  BY <1>14, <1>0 DEF CreateInit
<1>15. ASSUME CreateEnd(p) PROVE panicked' \notin {"no_type", "no_links"}
  BY <1>15, <1>0 DEF CreateEnd, Opened, Leave
<1>16. ASSUME UnlinkLookup(p) PROVE panicked' \notin {"no_type", "no_links"}
  BY <1>16, <1>0 DEF UnlinkLookup, Leave
<1>17. ASSUME UnlinkNot(p) PROVE panicked' \notin {"no_type", "no_links"}
  BY <1>17, <1>0 DEF UnlinkNot
<1>18. ASSUME UnlinkEntry(p) PROVE panicked' \notin {"no_type", "no_links"}
  BY <1>18, <1>0 DEF UnlinkEntry
<1>19. ASSUME UnlinkEnd(p) PROVE panicked' \notin {"no_type", "no_links"}
  BY <1>19, <1>0 DEF UnlinkEnd, Leave
<1>20. ASSUME UnlockDir(p) PROVE panicked' \notin {"no_type", "no_links"}
  BY <1>20, <1>0 DEF UnlockDir, Fail, Leave
<1>21. ASSUME LinkCount(p) PROVE panicked' \notin {"no_type", "no_links"}
  BY <1>21, <1>0 DEF LinkCount, Leave
<1>22. ASSUME LinkTaken(p) PROVE panicked' \notin {"no_type", "no_links"}
  BY <1>22, <1>0 DEF LinkTaken
<1>23. ASSUME LinkEntry(p) PROVE panicked' \notin {"no_type", "no_links"}
  BY <1>23, <1>0 DEF LinkEntry
<1>24. ASSUME LinkEnd(p) PROVE panicked' \notin {"no_type", "no_links"}
  BY <1>24, <1>0 DEF LinkEnd, Leave
<1>25. ASSUME LinkUndo(p) PROVE panicked' \notin {"no_type", "no_links"}
  BY <1>25, <1>0 DEF LinkUndo, Leave
<1>26. ASSUME NEW call \in CallNames \ {"none", "linkdir"}, NEW path \in NamePaths \cup ParentPaths,
            NEW new \in ParentPaths \cup {NoPath}, Call(p, call, path, new)
     PROVE  panicked' \notin {"no_type", "no_links"}
  BY <1>26, <1>0 DEF Call
<1>. QED  BY <1>1, <1>2, <1>3, <1>4, <1>5, <1>6, <1>7, <1>8, <1>9, <1>10, <1>11, <1>12, <1>13,
             <1>14, <1>15, <1>16, <1>17, <1>18, <1>19, <1>20, <1>21, <1>22, <1>23, <1>24, <1>25,
             <1>26, CallsIsCall DEF Step

(* Once somebody has gone astray it is remembered.                           *)
LEMMA StraysStep ==
  ASSUME NEW p \in Procs, Calls(p) \/ Step(p), strays' = {}
  PROVE  strays = {}
<1>. USE DEF history
<1>1. ASSUME PutCheck(p) PROVE strays = {}
  BY <1>1 DEF PutCheck
<1>2. ASSUME PutFree(p) PROVE strays = {}
  BY <1>2 DEF PutFree
<1>3. ASSUME PutDrop(p) PROVE strays = {}
  BY <1>3 DEF PutDrop
<1>4. ASSUME BadInode(p) PROVE strays = {}
  BY <1>4 DEF BadInode, Panic
<1>5. ASSUME Walk(p) PROVE strays = {}
  <2>1. strays' = strays \/ strays' = strays \cup {p}
    BY <1>5, Zenon DEF Walk
  <2>. QED  BY <2>1
<1>6. ASSUME WalkNoParent(p) PROVE strays = {}
  BY <1>6 DEF WalkNoParent, Fail, Leave
<1>7. ASSUME Open(p) PROVE strays = {}
  BY <1>7 DEF Open, Opened, Leave
<1>8. ASSUME Close(p) PROVE strays = {}
  BY <1>8 DEF Close, Leave
<1>9. ASSUME Chdir(p) PROVE strays = {}
  BY <1>9 DEF Chdir, Leave
<1>10. ASSUME CreateFound(p) PROVE strays = {}
  BY <1>10 DEF CreateFound
<1>11. ASSUME CreateOld(p) PROVE strays = {}
  BY <1>11 DEF CreateOld, Opened, Leave
<1>12. ASSUME CreateAlloc(p) PROVE strays = {}
  BY <1>12 DEF CreateAlloc
<1>13. ASSUME NoInodes(p) PROVE strays = {}
  BY <1>13 DEF NoInodes, Panic
<1>14. ASSUME CreateInit(p) PROVE strays = {}
  BY <1>14 DEF CreateInit
<1>15. ASSUME CreateEnd(p) PROVE strays = {}
  BY <1>15 DEF CreateEnd, Opened, Leave
<1>16. ASSUME UnlinkLookup(p) PROVE strays = {}
  BY <1>16 DEF UnlinkLookup, Leave
<1>17. ASSUME UnlinkNot(p) PROVE strays = {}
  BY <1>17 DEF UnlinkNot
<1>18. ASSUME UnlinkEntry(p) PROVE strays = {}
  BY <1>18 DEF UnlinkEntry
<1>19. ASSUME UnlinkEnd(p) PROVE strays = {}
  BY <1>19 DEF UnlinkEnd, Leave
<1>20. ASSUME UnlockDir(p) PROVE strays = {}
  BY <1>20 DEF UnlockDir, Fail, Leave
<1>21. ASSUME LinkCount(p) PROVE strays = {}
  BY <1>21 DEF LinkCount, Leave
<1>22. ASSUME LinkTaken(p) PROVE strays = {}
  BY <1>22 DEF LinkTaken
<1>23. ASSUME LinkEntry(p) PROVE strays = {}
  BY <1>23 DEF LinkEntry
<1>24. ASSUME LinkEnd(p) PROVE strays = {}
  BY <1>24 DEF LinkEnd, Leave
<1>25. ASSUME LinkUndo(p) PROVE strays = {}
  BY <1>25 DEF LinkUndo, Leave
<1>26. ASSUME NEW call \in CallNames \ {"none", "linkdir"}, NEW path \in NamePaths \cup ParentPaths,
            NEW new \in ParentPaths \cup {NoPath}, Call(p, call, path, new)
     PROVE  strays = {}
  BY <1>26 DEF Call
<1>. QED  BY <1>1, <1>2, <1>3, <1>4, <1>5, <1>6, <1>7, <1>8, <1>9, <1>10, <1>11, <1>12, <1>13,
             <1>14, <1>15, <1>16, <1>17, <1>18, <1>19, <1>20, <1>21, <1>22, <1>23, <1>24, <1>25,
             <1>26, CallsIsCall DEF Step


-----------------------------------------------------------------------------
(* The invariant is inductive *)

LEMMA StepInv ==
  ASSUME IInv, NEW p \in Procs, Calls(p) \/ Step(p)
  PROVE  IInv'
<1>1. TypeOK /\ Shape /\ RefsCounted
  BY DEF IInv
<1>2. TypeOK' /\ Shape' /\ RefsCounted'
  BY <1>1, TypeStep, ShapeStep, RefsStep
<1>3. ASSUME strays' = {} PROVE Sound' /\ DepthInv'
  <2>1. strays = {}
    BY <1>3, StraysStep
  <2>2. Sound /\ DepthInv
    BY <2>1 DEF IInv
  <2>3. LockInv /\ DiskInv
    BY <2>2 DEF Sound
  <2>4. LockInv'
    BY <1>1, <2>3, LockStep
  <2>5. DiskInv'
    BY <1>1, <1>2, <2>2, DiskStep
  <2>6. LinkInv'
    BY <1>1, <1>2, <2>2, <2>5, LinkStep
  <2>7. AllocInv'
    BY <1>1, <1>3, <2>2, AllocStep
  <2>8. FreeInv'
    BY <1>1, <1>2, <1>3, <2>2, FreeStep
  <2>9. MakeInv'
    BY <1>1, <1>2, <1>3, <2>2, MakeStep
  <2>10. CallInv'
    BY <1>1, <1>2, <1>3, <2>2, CallStep
  <2>11. DirInv'
    BY <1>1, <1>2, <2>2, DirStep
  <2>12. DepthInv'
    BY <1>1, <1>2, <2>2, DepthStep
  <2>13. panicked' \notin {"no_type", "no_links"}
    BY <1>1, <2>2, PanicStep
  <2>. QED  BY <2>4, <2>5, <2>6, <2>7, <2>8, <2>9, <2>10, <2>11, <2>12, <2>13 DEF Sound
<1>. QED  BY <1>2, <1>3 DEF IInv

(* References at the start and after a crash are those of cwd.               *)
LEMMA OneEach ==
  ASSUME NEW S \in SUBSET Procs, NEW f
  PROVE  LET pairs == {<<p, f>> : p \in S} IN Cardinality(pairs) = Cardinality(S)
<1>1. {<<p, f>> : p \in S} = S \X {f}
  OBVIOUS
<1>2. IsFiniteSet(S) /\ IsFiniteSet({f}) /\ Cardinality({f}) = 1 /\ Cardinality(S) \in Nat
  BY InodesAssumption, FS_Subset, FS_Singleton, FS_CardinalityType
<1>3. Cardinality(S \X {f}) = Cardinality(S) * Cardinality({f})
  BY <1>2, FS_Product, Zenon
<1>. QED  BY <1>1, <1>2, <1>3

(* After a crash nobody refers to anything.                                  *)
LEMMA CrashInv ==
  ASSUME IInv, Crash
  PROVE  IInv'
<1>. USE Numbers
<1>1. TypeOK /\ Shape
  BY DEF IInv
<1>2. /\ k = [p \in Procs |-> AtUser] /\ k' = k
      /\ ic' = [i \in Inums |-> Unread]
      /\ ref' = [i \in Inums |-> IF i = Root THEN Cardinality(Procs) ELSE 0]
      /\ lock' = [i \in Inums |-> NoProc]
      /\ cwd' = [p \in Procs |-> Root] /\ fd' = [p \in Procs |-> None]
      /\ panicked' = "no" /\ crashes' \in 0 .. MaxCrash
      /\ UNCHANGED <<din, ents, dotdot, calls, strays, lost>>
  <2>1. k = [p \in Procs |-> AtUser]
    BY <1>1 DEF TypeOK, Crash
  <2>2. crashes' \in 0 .. MaxCrash
    BY <1>1, InodesAssumption DEF TypeOK, Crash
  <2>. QED  BY <2>1, <2>2 DEF Crash, onDisk, history
<1>3. Cardinality(Procs) \in Nat
  BY InodesAssumption, FS_CardinalityType
<1>4. TypeOK'
  <2>1. Unread \in Copy
    BY DEF Unread, Copy
  <2>2. ref' \in [Inums -> Nat] /\ lock' \in [Inums -> Procs \cup {NoProc}] /\ ic' \in [Inums -> Copy]
        /\ cwd' \in [Procs -> Inums] /\ fd' \in [Procs -> Inums \cup {None}]
    BY <1>2, <1>3, <2>1
  <2>. QED  BY <1>1, <1>2, <2>2 DEF TypeOK
<1>5. Shape'
  BY <1>1, <1>2 DEF Shape
<1>6. RefsCounted'
  <2>. SUFFICES ASSUME NEW i \in Inums
                PROVE  ref'[i] = Cardinality(UNION {{<<p, f>> : f \in PointersTo(p, i)'} : p \in Procs})
    BY DEF RefsCounted
  <2>1. ASSUME NEW p \in Procs PROVE PointersTo(p, i)' = IF i = Root THEN {"cwd"} ELSE {}
    <3>1. Pointer(p)' = [cwd |-> Root, fd |-> None, ip |-> None, jp |-> None, put |-> None]
      BY <1>2 DEF Pointer, AtUser
    <3>. QED  BY <3>1 DEF PointersTo
  <2>2. UNION {{<<p, f>> : f \in PointersTo(p, i)'} : p \in Procs}
          = IF i = Root THEN {<<p, "cwd">> : p \in Procs} ELSE {}
    BY <2>1
  <2>3. Cardinality({<<p, "cwd">> : p \in Procs}) = Cardinality(Procs)
    BY OneEach
  <2>. QED  BY <1>2, <2>2, <2>3, FS_EmptySet
<1>7. ASSUME strays' = {} PROVE Sound' /\ DepthInv'
  <2>1. Sound /\ DepthInv
    BY <1>2, <1>7 DEF IInv
  <2>2. \A p \in Procs : k'[p] = AtUser /\ cwd'[p] = Root /\ fd'[p] = None
    BY <1>2
  <2>3. LockInv'
    BY <1>2, <2>2, InodesAssumption DEF LockInv, Keeps, Frees, AtUser
  <2>4. DiskInv'
    BY <1>2, <2>1 DEF Sound, DiskInv
  <2>5. LinkInv'
    BY <1>2, <2>1 DEF Sound, LinkInv, Entries, Subdirs, CountedBy, Owing
  <2>6. AllocInv'
    BY <1>2, <2>1, <2>2 DEF Sound, DirInv, AllocInv, Live, Refers, AtUser
  <2>7. FreeInv' /\ MakeInv' /\ CallInv'
    BY <2>2 DEF FreeInv, MakeInv, CallInv, AtUser
  <2>8. DirInv'
    <3>1. \A i : Entries(i)' = Entries(i)
      BY <1>2 DEF Entries
    <3>2. DirInv
      BY <2>1 DEF Sound
    <3>3. din'[Root] = din[Root] /\ dotdot'[Root] = dotdot[Root] /\ Entries(Root)' = Entries(Root)
      BY <1>2, <3>1
    <3>4. ASSUME NEW i \in Inums, din'[i].type = "dir"
          PROVE  /\ \A e, f \in Entries(i)' : e = f
                 /\ \A e \in Entries(i)' : e[1] = dotdot'[i]
                 /\ dotdot'[i] = None => \E p \in Procs : k'[p].pc = "init" /\ k'[p].jp = i
      <4>1. din[i].type = "dir" /\ dotdot'[i] = dotdot[i] /\ k' = k /\ Entries(i)' = Entries(i)
        BY <1>2, <3>1, <3>4
      <4>2. /\ \A e, f \in Entries(i) : e = f
            /\ \A e \in Entries(i) : e[1] = dotdot[i]
            /\ dotdot[i] = None => \E p \in Procs : k[p].pc = "init" /\ k[p].jp = i
        BY <4>1, <3>2, Zenon DEF DirInv
      <4>. QED  BY <4>1, <4>2
    <3>. QED  BY <3>2, <3>3, <3>4 DEF DirInv
  <2>9. DepthInv'
    BY <1>2, <2>1 DEF DepthInv, Ranked
  <2>. QED  BY <1>2, <2>3, <2>4, <2>5, <2>6, <2>7, <2>8, <2>9 DEF Sound
<1>. QED  BY <1>4, <1>5, <1>6, <1>7 DEF IInv

(* A stuttering step changes nothing.                                        *)
LEMMA IdleInv ==
  ASSUME IInv, UNCHANGED vars
  PROVE  IInv'
<1>1. UNCHANGED <<din, ents, dotdot, ic, ref, lock, cwd, fd, k, panicked, calls, crashes, strays, lost>>
  BY DEF vars, onDisk, inCache, history
<1>2. TypeOK' /\ Shape' /\ RefsCounted'
  <2>1. TypeOK' /\ Shape'
    BY <1>1 DEF IInv, TypeOK, Shape
  <2>2. \A i : ref'[i] = ref[i] /\ \A p : PointersTo(p, i)' = PointersTo(p, i)
    BY <1>1 DEF PointersTo, Pointer
  <2>3. RefsCounted'
    <3>1. ASSUME NEW i \in Inums
          PROVE  ref'[i] = Cardinality(UNION {{<<p, f>> : f \in PointersTo(p, i)'} : p \in Procs})
      <4>1. UNION {{<<p, f>> : f \in PointersTo(p, i)'} : p \in Procs}
              = UNION {{<<p, f>> : f \in PointersTo(p, i)} : p \in Procs}
        BY <2>2
      <4>. QED  BY <4>1, <2>2 DEF IInv, RefsCounted
    <3>. QED  BY <3>1 DEF RefsCounted
  <2>. QED  BY <2>1, <2>3
<1>3. ASSUME strays' = {} PROVE Sound' /\ DepthInv'
  <2>1. Sound /\ DepthInv
    BY <1>1, <1>3 DEF IInv
  <2>2. LockInv' /\ DiskInv' /\ DepthInv'
    BY <1>1, <2>1 DEF Sound, LockInv, Keeps, Frees, DiskInv, DepthInv, Ranked
  <2>3. LinkInv' /\ DirInv'
    BY <1>1, <2>1 DEF Sound, LinkInv, DirInv, Entries, Subdirs, CountedBy, Owing
  <2>4. AllocInv' /\ FreeInv' /\ MakeInv' /\ CallInv'
    <3>1. AllocInv' /\ FreeInv'
      BY <1>1, <2>1 DEF Sound, AllocInv, FreeInv, Live, Refers
    <3>2. \A p : Live(p)' = Live(p)
      BY <1>1 DEF Live, Refers
    <3>3. MakeInv'
      BY <1>1, <2>1, <3>2, Zenon DEF Sound, MakeInv
    <3>4. CallInv'
      BY <1>1, <2>1, Zenon DEF Sound, CallInv
    <3>. QED  BY <3>1, <3>3, <3>4
  <2>. QED  BY <1>1, <2>1, <2>2, <2>3, <2>4 DEF Sound
<1>. QED  BY <1>2, <1>3 DEF IInv

(* The disk that mkfs makes.                                                 *)
LEMMA FirstDisk ==
  ASSUME Init
  PROVE  LET last == Len(FirstDirs) + 1 IN
         /\ last \in Inums
         /\ \A i \in Inums : din[i] = IF i < last THEN [type |-> "dir", nlink |-> 2]
                                      ELSE IF i = last THEN [type |-> "dir", nlink |-> 1] ELSE Unread
         /\ \A i \in Inums, n \in Names : ents[i][n] = IF i < last /\ n = FirstDirs[i] THEN i + 1 ELSE None
         /\ \A i \in Inums : dotdot[i] = IF i = Root THEN Root ELSE IF i <= last THEN i - 1 ELSE None
         /\ \A i \in Inums : i < last => FirstDirs[i] \in Names
         /\ \A i \in Inums : i = Root \/ i > Root
<1>. DEFINE last == Len(FirstDirs) + 1
<1>1. last \in Nat /\ last >= 1 /\ last <= NINODES /\ NINODES \in Nat /\ FirstDirs \in Seq(Names)
  BY InodesAssumption
<1>2. last \in Inums /\ Inums = 1 .. NINODES
  BY <1>1 DEF Inums
<1>3. ASSUME NEW i \in Inums
      PROVE  din[i] = IF i < last THEN [type |-> "dir", nlink |-> 2]
                      ELSE IF i = last THEN [type |-> "dir", nlink |-> 1] ELSE Unread
  <2>1. din[i] = CASE i < last -> [type |-> "dir", nlink |-> 2]
                   [] i = last -> [type |-> "dir", nlink |-> 1]
                   [] i > last -> Unread
    BY <1>3 DEF Init
  <2>. QED  BY <2>1, <1>1, <1>2
<1>4. \A i \in Inums, n \in Names : ents[i][n] = IF i < last /\ n = FirstDirs[i] THEN i + 1 ELSE None
  BY DEF Init
<1>5. ASSUME NEW i \in Inums PROVE dotdot[i] = IF i = Root THEN Root ELSE IF i <= last THEN i - 1 ELSE None
  <2>1. dotdot[i] = CASE i = Root -> Root [] i \in 2 .. last -> i - 1 [] i > last -> None
    BY <1>5 DEF Init
  <2>. QED  BY <2>1, <1>1, <1>2 DEF Root
<1>6. ASSUME NEW i \in Inums, i < last PROVE FirstDirs[i] \in Names
  BY <1>1, <1>2, <1>6
<1>7. \A i \in Inums : i = Root \/ i > Root
  BY <1>2, <1>1 DEF Root
<1>. QED  BY <1>2, <1>3, <1>4, <1>5, <1>6, <1>7, Zenon


(* The first tree.                                                           *)
LEMMA InitInv == Init => IInv
<1>. SUFFICES ASSUME Init PROVE IInv
  OBVIOUS
<1>. USE Numbers
<1>. DEFINE last == Len(FirstDirs) + 1
<1>1. /\ last \in Inums
      /\ \A i \in Inums : din[i] = IF i < last THEN [type |-> "dir", nlink |-> 2]
                                   ELSE IF i = last THEN [type |-> "dir", nlink |-> 1] ELSE Unread
      /\ \A i \in Inums, n \in Names : ents[i][n] = IF i < last /\ n = FirstDirs[i] THEN i + 1 ELSE None
      /\ \A i \in Inums : dotdot[i] = IF i = Root THEN Root ELSE IF i <= last THEN i - 1 ELSE None
      /\ \A i \in Inums : i < last => FirstDirs[i] \in Names
      /\ \A i \in Inums : i = Root \/ i > Root
  BY FirstDisk
<1>. HIDE DEF last
<1>2. /\ k = [p \in Procs |-> AtUser] /\ fd = [p \in Procs |-> None] /\ strays = {}
      /\ ic = [i \in Inums |-> Unread] /\ lock = [i \in Inums |-> NoProc]
      /\ ref = [i \in Inums |-> Cardinality({p \in Procs : cwd[p] = i})]
      /\ panicked = "no" /\ calls = 0 /\ crashes = 0 /\ lost = [i \in Inums |-> 0] /\ cwd \in Homes
  BY DEF Init
<1>3. /\ cwd \in [Procs -> 1 .. last] /\ Inums = 1 .. NINODES /\ last \in Nat /\ last <= NINODES /\ last >= 1
      /\ 1 .. last \subseteq Inums
  <2>1. cwd \in [Procs -> 1 .. Len(FirstDirs) + 1]
    BY <1>2, InodesAssumption
  <2>. QED  BY <2>1, <1>1 DEF Inums, last
<1>4. /\ DOMAIN din = Inums /\ DOMAIN ents = Inums /\ DOMAIN dotdot = Inums
      /\ din = [i \in Inums |-> din[i]] /\ ents = [i \in Inums |-> [n \in Names |-> ents[i][n]]]
      /\ dotdot = [i \in Inums |-> dotdot[i]]
  <2>1. /\ DOMAIN din = Inums /\ DOMAIN dotdot = Inums
        /\ din = [i \in Inums |-> din[i]] /\ dotdot = [i \in Inums |-> dotdot[i]]
    <3>. DEFINE D(i) == CASE i < last -> [type |-> "dir", nlink |-> 2]
                          [] i = last -> [type |-> "dir", nlink |-> 1]
                          [] i > last -> Unread
                T(i) == CASE i = Root -> Root [] i \in 2 .. last -> i - 1 [] i > last -> None
    <3>1. din = [i \in Inums |-> D(i)] /\ dotdot = [i \in Inums |-> T(i)]
      BY Zenon DEF Init, last
    <3>. HIDE DEF D, T
    <3>. QED  BY <3>1
  <2>2. ents = [i \in Inums |-> [n \in Names |-> IF i < last /\ n = FirstDirs[i] THEN i + 1 ELSE None]]
    BY DEF Init, last
  <2>3. DOMAIN ents = Inums
    BY <2>2
  <2>4. \A i \in Inums : [n \in Names |-> IF i < last /\ n = FirstDirs[i] THEN i + 1 ELSE None] = [n \in Names |-> ents[i][n]]
    BY <1>1, Zenon
  <2>5. ents = [i \in Inums |-> [n \in Names |-> ents[i][n]]]
    BY <2>2, <2>4, Zenon
  <2>. QED  BY <2>1, <2>3, <2>5
<1>5. TypeOK
  <2>1. AtUser \in Local /\ Unread \in Copy
    BY UserType DEF Unread, Copy
  <2>2. \A i \in Inums : din[i] \in Copy
    BY <1>1, <2>1 DEF Copy
  <2>3. \A i \in Inums, n \in Names : ents[i][n] \in Inums \cup {None}
    BY <1>1, <1>3
  <2>4. \A i \in Inums : dotdot[i] \in Inums \cup {None}
    BY <1>1, <1>3 DEF Root
  <2>5. \A i \in Inums : Cardinality({p \in Procs : cwd[p] = i}) \in Nat
    BY InodesAssumption, FS_Subset, FS_CardinalityType
  <2>6. ents \in [Inums -> [Names -> Inums \cup {None}]]
    <3>1. \A i \in Inums : [n \in Names |-> ents[i][n]] \in [Names -> Inums \cup {None}]
      BY <2>3
    <3>. DEFINE G(i) == [n \in Names |-> ents[i][n]]
    <3>2. ents = [i \in Inums |-> G(i)] /\ \A i \in Inums : G(i) \in [Names -> Inums \cup {None}]
      BY <3>1, <1>4
    <3>. HIDE DEF G
    <3>. QED  BY <3>2
  <2>7. din \in [Inums -> Copy] /\ dotdot \in [Inums -> Inums \cup {None}]
    BY <1>4, <2>2, <2>4, Zenon
  <2>8. ref \in [Inums -> Nat]
    BY <2>5, <1>2, Zenon
  <2>9. cwd \in [Procs -> Inums]
    BY <1>3
  <2>. QED  BY <2>1, <2>6, <2>7, <2>8, <2>9, <1>2, InodesAssumption DEF TypeOK
<1>6. Shape
  BY <1>2 DEF Shape, ShapeOf, AtUser
<1>7. RefsCounted
  <2>. SUFFICES ASSUME NEW i \in Inums
                PROVE  ref[i] = Cardinality(UNION {{<<p, f>> : f \in PointersTo(p, i)} : p \in Procs})
    BY DEF RefsCounted
  <2>1. ASSUME NEW p \in Procs PROVE PointersTo(p, i) = IF cwd[p] = i THEN {"cwd"} ELSE {}
    <3>1. Pointer(p) = [cwd |-> cwd[p], fd |-> None, ip |-> None, jp |-> None, put |-> None]
      BY <1>2 DEF Pointer, AtUser
    <3>. QED  BY <3>1 DEF PointersTo
  <2>2. UNION {{<<p, f>> : f \in PointersTo(p, i)} : p \in Procs} = {<<p, "cwd">> : p \in {q \in Procs : cwd[q] = i}}
    BY <2>1
  <2>3. LET S == {q \in Procs : cwd[q] = i} IN Cardinality({<<p, "cwd">> : p \in S}) = Cardinality(S)
    BY OneEach
  <2>. QED  BY <1>2, <2>2, <2>3
<1>8. \A p \in Procs : k[p] = AtUser /\ cwd[p] \in Inums /\ cwd[p] <= last /\ fd[p] = None
  BY <1>2, <1>3
<1>9. LockInv /\ FreeInv /\ MakeInv /\ CallInv
  BY <1>2, <1>8, InodesAssumption DEF LockInv, Keeps, Frees, FreeInv, MakeInv, CallInv, AtUser
<1>10. DiskInv
  <2>1. \A i \in Inums : ents[i] = [n \in Names |-> ents[i][n]]
    BY <1>4
  <2>2. ASSUME NEW i \in Inums, din[i].type # "dir" PROVE ents[i] = NoEntries
    <3>1. ~(i < last)
      BY <1>1, <2>2
    <3>2. \A n \in Names : ents[i][n] = None
      BY <3>1, <1>1
    <3>. QED  BY <2>1, <3>2 DEF NoEntries
  <2>3. ASSUME NEW i \in Inums PROVE din[i].nlink \in Nat /\ (din[i].type = "none" => din[i] = Unread)
    BY <1>1 DEF Unread
  <2>. QED  BY <1>2, <2>2, <2>3 DEF DiskInv
<1>11. AllocInv
  BY <1>1, <1>3, <1>8 DEF AllocInv, Live, Refers, AtUser
<1>12. \A i \in Inums : Entries(i) = IF i # Root /\ i <= last THEN {<<i - 1, FirstDirs[i - 1]>>} ELSE {}
  <2>. SUFFICES ASSUME NEW i \in Inums PROVE Entries(i) = IF i # Root /\ i <= last THEN {<<i - 1, FirstDirs[i - 1]>>} ELSE {}
    OBVIOUS
  <2>1. ASSUME NEW e \in Entries(i) PROVE i # Root /\ i <= last /\ e = <<i - 1, FirstDirs[i - 1]>>
    <3>1. e = <<e[1], e[2]>> /\ e[1] \in Inums /\ e[2] \in Names /\ ents[e[1]][e[2]] = i
      BY <2>1 DEF Entries
    <3>2. e[1] < last /\ e[2] = FirstDirs[e[1]] /\ i = e[1] + 1
      <4>1. ents[e[1]][e[2]] = IF e[1] < last /\ e[2] = FirstDirs[e[1]] THEN e[1] + 1 ELSE None
        BY <3>1, <1>1
      <4>2. i # None
        OBVIOUS
      <4>. QED  BY <3>1, <4>1, <4>2
    <3>. QED  BY <3>1, <3>2, <1>3 DEF Root
  <2>2. ASSUME i # Root, i <= last PROVE <<i - 1, FirstDirs[i - 1]>> \in Entries(i)
    <3>1. i - 1 \in Inums /\ i - 1 < last /\ (i - 1) + 1 = i
      BY <2>2, <1>1, <1>3 DEF Root
    <3>2. FirstDirs[i - 1] \in Names
      BY <3>1, <1>1
    <3>3. ents[i - 1][FirstDirs[i - 1]] = i
      BY <3>1, <3>2, <1>1
    <3>. QED  BY <3>1, <3>2, <3>3 DEF Entries
  <2>. QED  BY <2>1, <2>2
<1>13. ASSUME NEW i \in Inums PROVE Subdirs(i) = IF i < last THEN {FirstDirs[i]} ELSE {}
  <2>1. ASSUME NEW n \in Subdirs(i) PROVE i < last /\ n = FirstDirs[i]
    BY <2>1, <1>1 DEF Subdirs
  <2>2. ASSUME i < last PROVE FirstDirs[i] \in Subdirs(i)
    <3>1. FirstDirs[i] \in Names /\ ents[i][FirstDirs[i]] = i + 1 /\ i + 1 \in Inums /\ i + 1 <= last
      BY <2>2, <1>1, <1>3
    <3>2. i + 1 < last \/ i + 1 = last
      BY <3>1, <1>3
    <3>3. din[i + 1].type = "dir" /\ i + 1 # None
      <4>1. din[i + 1] = IF i + 1 < last THEN [type |-> "dir", nlink |-> 2]
                         ELSE IF i + 1 = last THEN [type |-> "dir", nlink |-> 1] ELSE Unread
        BY <3>1, <1>1
      <4>. QED  BY <4>1, <3>1, <3>2
    <3>. QED  BY <3>1, <3>3 DEF Subdirs
  <2>. QED  BY <2>1, <2>2
<1>14. LinkInv
  <2>. SUFFICES ASSUME NEW i \in Inums
                PROVE  din[i].nlink = Cardinality(Entries(i)) + Cardinality(Subdirs(i)) + Cardinality(CountedBy(i))
                                        + Cardinality(Owing(i)) + lost[i] + IF i = Root THEN 1 ELSE 0
    BY DEF LinkInv
  <2>1. CountedBy(i) = {} /\ Owing(i) = {} /\ lost[i] = 0
    BY <1>2, <1>8 DEF CountedBy, Owing, AtUser
  <2>2. Cardinality(Entries(i)) = IF i # Root /\ i <= last THEN 1 ELSE 0
    BY <1>12, FS_Singleton, FS_EmptySet, Zenon
  <2>3. Cardinality(Subdirs(i)) = IF i < last THEN 1 ELSE 0
    BY <1>13, FS_Singleton, FS_EmptySet, Zenon
  <2>4. Cardinality({}) = 0
    BY FS_EmptySet
  <2>5. din[i].nlink = IF i < last THEN 2 ELSE IF i = last THEN 1 ELSE 0
    BY <1>1 DEF Unread
  <2>. QED  BY <2>1, <2>2, <2>3, <2>4, <2>5, <1>1, <1>3 DEF Root
<1>15. DirInv
  <2>1. din[Root].type = "dir" /\ dotdot[Root] = Root /\ Entries(Root) = {}
    BY <1>1, <1>3, <1>12 DEF Root
  <2>2. ASSUME NEW i \in Inums, din[i].type = "dir"
        PROVE  /\ \A e, f \in Entries(i) : e = f
               /\ \A e \in Entries(i) : e[1] = dotdot[i]
               /\ dotdot[i] # None
    <3>1. i <= last
      BY <2>2, <1>1, <1>3 DEF Unread
    <3>2. CASE i = Root
      BY <3>2, <2>1
    <3>3. CASE i # Root
      <4>1. dotdot[i] = i - 1 /\ i - 1 # None
        BY <3>1, <3>3, <1>1, <1>3 DEF Root, None
      <4>2. Entries(i) = {<<i - 1, FirstDirs[i - 1]>>}
        BY <3>1, <3>3, <1>12
      <4>. QED  BY <4>1, <4>2
    <3>. QED  BY <3>2, <3>3
  <2>. QED  BY <2>1, <2>2 DEF DirInv
<1>16. DepthInv
  <2>1. [i \in Inums |-> i] \in [Inums -> Nat]
    OBVIOUS
  <2>2. ASSUME NEW d \in Inums, NEW n \in Names, ents[d][n] # None
        PROVE  [i \in Inums |-> i][d] < [i \in Inums |-> i][ents[d][n]]
    <3>1. ents[d][n] = d + 1 /\ d + 1 \in Inums
      BY <2>2, <1>1, <1>3
    <3>. QED  BY <3>1
  <2>3. Ranked([i \in Inums |-> i])
    BY <2>2 DEF Ranked
  <2>. QED  BY <2>1, <2>3 DEF DepthInv
<1>. QED  BY <1>2, <1>5, <1>6, <1>7, <1>9, <1>10, <1>11, <1>14, <1>15, <1>16 DEF IInv, Sound

(* The invariant holds of every behaviour.                                   *)
THEOREM Invariance == Spec => []IInv
<1>1. IInv /\ [Next]_vars => IInv'
  <2>. SUFFICES ASSUME IInv, [Next]_vars PROVE IInv'
    OBVIOUS
  <2>1. CASE \E p \in Procs : Calls(p) \/ Step(p)
    BY <2>1, StepInv
  <2>2. CASE Crash
    BY <2>2, CrashInv
  <2>3. CASE UNCHANGED vars
    BY <2>3, IdleInv
  <2>. QED  BY <2>1, <2>2, <2>3 DEF Next
<1>. QED  BY InitInv, <1>1, PTL DEF Spec

-----------------------------------------------------------------------------
(* Properties *)

(* All variables always have their types.                                    *)
THEOREM TypeCorrect == Spec => []TypeOK
<1>1. IInv => TypeOK
  BY DEF IInv
<1>. QED  BY Invariance, <1>1, PTL

(* The references counted in the cache are the pointers there are to the inode, and, unless  *)
(* somebody has gone astray, an inode that is not locked has as many links as entries name   *)
(* it, with what subdirectories, link() and freed directories account for: sysfile.c counts  *)
(* both right on every path through every call.                                              *)
THEOREM CountedAlways == Spec => []Counted
<1>1. IInv => Counted
  <2>. SUFFICES ASSUME IInv PROVE Counted
    OBVIOUS
  <2>1. TypeOK /\ RefsCounted
    BY DEF IInv
  <2>2. ASSUME strays = {}, NEW i \in Inums, lock[i] = NoProc
        PROVE  /\ Inode(i) = din[i]
               /\ din[i].nlink = Cardinality(Entries(i)) + Cardinality(Subdirs(i))
                                   + Cardinality(CountedBy(i)) + lost[i] + IF i = Root THEN 1 ELSE 0
    <3>1. LockInv /\ DiskInv /\ LinkInv
      BY <2>2 DEF IInv, Sound
    <3>2. Owing(i) = {}
      <4>1. ASSUME NEW q \in Owing(i) PROVE FALSE
        <5>1. q \in Procs /\ Keeps(q) = i
          BY <4>1 DEF Owing, Keeps
        <5>2. lock[i] = q
          BY <5>1, <3>1 DEF LockInv
        <5>. QED  BY <5>1, <5>2, <2>2, InodesAssumption
      <4>. QED  BY <4>1
    <3>3. Cardinality(Owing(i)) = 0
      BY <3>2, FS_EmptySet
    <3>4. Inode(i) = din[i]
      BY <2>1, <3>1, InodeIsDisk
    <3>5. /\ Cardinality(Entries(i)) \in Nat /\ Cardinality(Subdirs(i)) \in Nat
          /\ Cardinality(CountedBy(i)) \in Nat /\ lost[i] \in Nat
      BY <2>1, LinksFinite DEF TypeOK
    <3>. QED  BY <3>1, <3>3, <3>4, <3>5 DEF LinkInv
  <2>. QED  BY <2>1, <2>2 DEF Counted, LinksCounted
<1>. QED  BY Invariance, <1>1, PTL

(* An inode that iput() is freeing has no links and nobody else refers to it, although       *)
(* icache.lock was released after ref was looked at, unless somebody has gone astray.        *)
THEOREM FreedAlone == Spec => []FreeAlone
<1>1. IInv => FreeAlone
  <2>. USE Numbers
  <2>. SUFFICES ASSUME IInv, strays = {}, NEW p \in Procs, k[p].stage = "free"
                PROVE  /\ Entries(k[p].put) = {} /\ PointersTo(p, k[p].put) = {"put"}
                       /\ \A q \in Procs \ {p} : PointersTo(q, k[p].put) = {}
    BY DEF FreeAlone
  <2>1. TypeOK /\ Shape /\ FreeInv /\ LinkInv
    BY DEF IInv, Sound
  <2>2. k[p].put \in Inums
    BY <2>1 DEF TypeOK, Local, Shape, ShapeOf
  <2>3. /\ din[k[p].put].nlink = 0 /\ k[p].put \notin Refers(p)
        /\ \A q \in Procs \ {p} : k[p].put \notin Refers(q) \cup {k[q].put}
    BY <2>1 DEF FreeInv
  <2>4. Entries(k[p].put) = {}
    <3>1. ~(din[k[p].put].nlink > 0)
      BY <2>3
    <3>. QED  BY <3>1, <2>1, <2>2, NoLinks
  <2>5. PointersTo(p, k[p].put) = {"put"}
    BY <2>3 DEF PointersTo, Pointer, Refers
  <2>6. \A q \in Procs \ {p} : PointersTo(q, k[p].put) = {}
    BY <2>3 DEF PointersTo, Pointer, Refers
  <2>. QED  BY <2>4, <2>5, <2>6
<1>. QED  BY Invariance, <1>1, PTL

(* Neither ilock() panics with "ilock: no type" nor unlink() with "unlink: nlink < 1" unless *)
(* somebody has followed the ".." of a directory that had been removed.                      *)
THEOREM TypedAlways == Spec => []TypedUnlessStray
<1>1. IInv => TypedUnlessStray
  BY DEF IInv, Sound, TypedUnlessStray
<1>. QED  BY Invariance, <1>1, PTL

(* Each directory is named by one entry at most, in the directory that its ".." names.       *)
THEOREM TreeAlways == Spec => []Tree
<1>1. IInv => Tree
  <2>. SUFFICES ASSUME IInv, strays = {}, NEW i \in Inums, din[i].type = "dir"
                PROVE  Cardinality(Entries(i)) <= 1 /\ \A e \in Entries(i) : e[1] = dotdot[i]
    BY DEF Tree
  <2>1. DirInv
    BY DEF IInv, Sound
  <2>2. \A e, f \in Entries(i) : e = f
    BY <2>1 DEF DirInv
  <2>3. Cardinality(Entries(i)) <= 1
    <3>1. CASE Entries(i) = {}
      BY <3>1, FS_EmptySet
    <3>2. ASSUME NEW e \in Entries(i) PROVE Cardinality(Entries(i)) = 1
      <4>1. Entries(i) = {e}
        BY <2>2
      <4>. QED  BY <4>1, FS_Singleton
    <3>. QED  BY <3>1, <3>2
  <2>. QED  BY <2>1, <2>3 DEF DirInv
<1>. QED  BY Invariance, <1>1, PTL

(* Depths are bounded, for inodes are finitely many.                         *)
LEMMA DepthBound ==
  ASSUME NEW depth \in [Inums -> Nat]
  PROVE  \E b \in Nat : \A i \in Inums : depth[i] <= b
<1>. DEFINE Bounded(n) == \E b \in Nat : \A i \in Inums : i <= n => depth[i] <= b
            T == {n \in Nat : ~Bounded(n)}
<1>1. T = {}
  <2>. SUFFICES ASSUME T # {} PROVE FALSE
    OBVIOUS
  <2>1. PICK n \in T : \A m \in T : n <= m
    BY LeastElement
  <2>2. n \in Nat /\ ~Bounded(n)
    BY <2>1
  <2>3. n # 0
    <3>1. Bounded(0)
      BY Numbers DEF Inums
    <3>. QED  BY <3>1, <2>2
  <2>4. Bounded(n - 1)
    BY <2>1, <2>2, <2>3
  <2>5. PICK b \in Nat : \A i \in Inums : i <= n - 1 => depth[i] <= b
    BY <2>4
  <2>6. CASE n \in Inums /\ depth[n] > b
    <3>1. depth[n] \in Nat /\ \A i \in Inums : i <= n => depth[i] <= depth[n]
      <4>1. ASSUME NEW i \in Inums, i <= n PROVE depth[i] <= depth[n]
        <5>1. i \in Nat /\ depth[i] \in Nat /\ depth[n] \in Nat
          BY <2>6, Numbers
        <5>. QED  BY <5>1, <4>1, <2>2, <2>5, <2>6
      <4>. QED  BY <4>1, <2>6
    <3>. QED  BY <3>1, <2>2
  <2>7. CASE ~(n \in Inums /\ depth[n] > b)
    <3>1. ASSUME NEW i \in Inums, i <= n PROVE depth[i] <= b
      <4>1. i \in Nat /\ depth[i] \in Nat
        BY Numbers
      <4>. QED  BY <4>1, <3>1, <2>2, <2>5, <2>7
    <3>. QED  BY <3>1, <2>2
  <2>. QED  BY <2>6, <2>7
<1>2. Bounded(NINODES)
  BY <1>1, Numbers
<1>. QED  BY <1>2, Numbers DEF Inums

(* Calls that wait for each other's locks in a cycle include one in iput(): all others lock  *)
(* a directory before what is in it, or an inode that nobody else can name yet.              *)
THEOREM CyclesAlways == Spec => []CyclesThroughIput
<1>1. IInv => CyclesThroughIput
  <2>. USE Numbers
  <2>. SUFFICES ASSUME IInv, strays = {}, NEW S \in SUBSET Procs, S # {},
                       \A p \in S : Wants(p) # None /\ lock[Wants(p)] \in S,
                       ~\E p \in S : k[p].put # None
                PROVE  FALSE
    BY Zenon DEF CyclesThroughIput
  <2>1. TypeOK /\ Shape /\ LockInv /\ MakeInv /\ CallInv /\ DepthInv
    BY DEF IInv, Sound
  <2>2. PICK depth \in [Inums -> Nat] : Ranked(depth)
    BY <2>1 DEF DepthInv
  <2>3. PICK b \in Nat : \A i \in Inums : depth[i] <= b
    BY DepthBound
  <2>. DEFINE holder(p) == lock[Wants(p)]
  (* Who is waited for, and waits, is in create() or unlink(), between two inodes. *)
  <2>4. ASSUME NEW p \in S
        PROVE  /\ holder(p) \in S /\ Wants(p) \in Inums
               /\ k[holder(p)].pc \in {"init", "unlink_ip"} /\ k[holder(p)].ip = Wants(p)
               /\ Wants(holder(p)) = k[holder(p)].jp
    <3>1. holder(p) \in S /\ Wants(p) # None /\ k[p].put = None
      OBVIOUS
    <3>2. Wants(p) \in Inums
      BY <3>1, <2>1 DEF Wants, TypeOK, Local
    <3>3. /\ holder(p) \in Procs /\ Wants(holder(p)) # None /\ k[holder(p)].put = None
          /\ k[holder(p)].stage = "check"
      BY <3>1, <2>1 DEF Shape, ShapeOf
    <3>4. Wants(p) = Keeps(holder(p))
      BY <3>2, <3>3, <2>1 DEF LockInv, Frees
    <3>5. k[holder(p)].pc \in {"init", "unlink_ip"}
      <4>1. Keeps(holder(p)) # None
        BY <3>1, <3>4
      <4>2. k[holder(p)].pc \in {"init", "unlink_ip", "unlock", "made", "unlinked"}
        BY <4>1 DEF Keeps
      <4>. QED  BY <3>3, <4>2 DEF Wants
    <3>6. Keeps(holder(p)) = k[holder(p)].ip
      BY <3>5 DEF Keeps
    <3>7. Wants(holder(p)) = k[holder(p)].jp
      BY <3>3, <3>5 DEF Wants
    <3>. QED  BY <3>1, <3>2, <3>4, <3>5, <3>6, <3>7
  (* A new inode is not waited for. *)
  <2>5. ASSUME NEW p \in S PROVE k[holder(p)].pc = "unlink_ip"
    <3>. DEFINE q == holder(p)
                r == holder(q)
    <3>1. /\ q \in S /\ k[q].pc \in {"init", "unlink_ip"} /\ Wants(q) = k[q].jp
          /\ r \in S /\ k[r].ip = Wants(q)
      BY <2>4
    <3>. HIDE DEF q, r
    <3>2. ASSUME k[q].pc = "init" PROVE FALSE
      <4>1. k[q].jp # k[q].ip /\ \A h \in Procs \ {q} : k[q].jp \notin Live(h)
        BY <3>1, <3>2, <2>1 DEF MakeInv
      <4>2. r # q
        BY <3>1, <4>1
      <4>3. k[r].ip \in Live(r)
        BY DEF Live, Refers
      <4>. QED  BY <3>1, <4>1, <4>2, <4>3
    <3>. QED  BY <3>1, <3>2 DEF q
  (* So whoever is waited for waits for something deeper. *)
  <2>6. ASSUME NEW p \in S PROVE depth[Wants(p)] < depth[Wants(holder(p))]
    <3>. DEFINE q == holder(p)
                r == holder(q)
    <3>1. /\ q \in S /\ k[q].pc = "unlink_ip" /\ k[q].ip = Wants(p) /\ Wants(q) = k[q].jp
          /\ r \in S /\ k[r].pc = "unlink_ip" /\ k[r].ip = Wants(q)
          /\ Wants(p) \in Inums /\ Wants(q) \in Inums
      BY <2>4, <2>5
    <3>. HIDE DEF q, r
    <3>2. k[q].rest[1] \in Names /\ ents[k[q].ip][k[q].rest[1]] = k[q].jp
      BY <3>1, <2>1 DEF CallInv
    <3>3. din[k[r].ip].type = "dir"
      BY <3>1, <2>1 DEF CallInv
    <3>4. ents[Wants(p)][k[q].rest[1]] = Wants(q) /\ din[Wants(q)].type = "dir" /\ Wants(q) # None
      BY <3>1, <3>2, <3>3
    <3>5. depth[Wants(p)] < depth[ents[Wants(p)][k[q].rest[1]]]
      BY <3>1, <3>2, <3>4, <2>2, Zenon DEF Ranked
    <3>6. depth[Wants(p)] < depth[Wants(q)]
      BY <3>4, <3>5
    <3>. QED  BY <3>6 DEF q
  <2>. HIDE DEF holder
  <2>. DEFINE T == {b - depth[Wants(p)] : p \in S}
  <2>7. \A p \in S : depth[Wants(p)] \in Nat /\ b - depth[Wants(p)] \in Nat
    <3>1. ASSUME NEW p \in S PROVE depth[Wants(p)] \in Nat /\ depth[Wants(p)] <= b
      BY <2>2, <2>3, <2>4
    <3>. QED  BY <3>1
  <2>8. T \in SUBSET Nat /\ T # {}
    BY <2>7
  <2>9. PICK n \in T : \A m \in T : n <= m
    BY <2>8, LeastElement
  <2>10. PICK p \in S : n = b - depth[Wants(p)]
    BY <2>9
  <2>11. holder(p) \in S /\ b - depth[Wants(holder(p))] \in T
    BY <2>4
  <2>12. b - depth[Wants(p)] <= b - depth[Wants(holder(p))]
    BY <2>9, <2>10, <2>11
  <2>. QED  BY <2>6, <2>7, <2>11, <2>12
<1>. QED  BY Invariance, <1>1, PTL

=============================================================================
