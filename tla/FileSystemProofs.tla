-------------------------- MODULE FileSystemProofs --------------------------
(***************************************************************************)
(* What is proved of two file systems' parts that share no state.          *)
(*                                                                         *)
(* xv6's log (Log), for any number of processes, blocks and crashes and any *)
(* sizes: IInv of Log is inductive, one lemma for each of its conjuncts,   *)
(* and every step is a step of AtomicDisk or a stutter.                    *)
(*                                                                         *)
(* lab10's emulated file system (Emufs), for any numbers of inodes, blocks *)
(* and handles, any block and file size, any names and paths: EmInv is     *)
(* inductive, one group of lemmas for each operation.                      *)
(***************************************************************************)
EXTENDS Log, Emufs, FiniteSetTheorems, SequenceTheorems, WellFoundedInduction, TLAPS

-----------------------------------------------------------------------------
(* What an absent or complete log means for recovery. *)

(* Without a header the home blocks stay as they are. *)
LEMMA RecoveredEmpty == ASSUME TypeOK, dhead = <<>> PROVE Recovered = disk
BY DEF TypeOK, Recovered, Entries

(* Once the log holds the block of each entry, recovery gives the buffers. *)
LEMMA RecoveredLog ==
  ASSUME TypeOK, HeadInv, dhead = lh, Copied(Len(lh)), Clean PROVE Recovered = mem
<1>1. ASSUME NEW b \in Blocks PROVE Recovered[b] = mem[b]
  <2>1. CASE b \in Entries(dhead)
    <3>1. PICK i \in DOMAIN dhead : dhead[i] = b
      BY <2>1 DEF Entries
    <3>2. (CHOOSE j \in DOMAIN dhead : dhead[j] = b) = i
      BY <3>1 DEF HeadInv
    <3>3. i \in 1 .. Len(lh) /\ lh[i] = b
      BY <3>1 DEF TypeOK
    <3>4. dlog[i] = mem[b]
      BY <3>3 DEF Copied
    <3>. QED  BY <2>1, <3>2, <3>4 DEF Recovered
  <2>2. CASE b \notin Entries(dhead)
    BY <2>2 DEF Recovered, Clean
  <2>. QED  BY <2>1, <2>2
<1>2. mem = [b \in Blocks |-> mem[b]]
  BY DEF TypeOK
<1>3. Recovered = [b \in Blocks |-> Recovered[b]]
  BY DEF Recovered
<1>. QED  BY <1>1, <1>2, <1>3

(* One entry more. *)
LEMMA EntriesAppend ==
  ASSUME NEW S, NEW s \in Seq(S), NEW x \in S
  PROVE Entries(Append(s, x)) = Entries(s) \cup {x}
<1>. DEFINE t == Append(s, x)
<1>1. DOMAIN t = 1 .. Len(s) + 1 /\ DOMAIN s = 1 .. Len(s) /\ Len(s) \in Nat
  OBVIOUS
<1>2. t[Len(s) + 1] = x /\ \A i \in DOMAIN s : t[i] = s[i]
  OBVIOUS
<1>3. ASSUME NEW y \in Entries(t) PROVE y \in Entries(s) \cup {x}
  <2>1. PICK i \in DOMAIN t : t[i] = y
    BY <1>3 DEF Entries
  <2>2. CASE i = Len(s) + 1
    BY <1>2, <2>1, <2>2
  <2>3. CASE i # Len(s) + 1
    <3>1. i \in DOMAIN s
      BY <1>1, <2>3
    <3>. QED  BY <1>2, <2>1, <3>1 DEF Entries
  <2>. QED  BY <2>2, <2>3
<1>4. ASSUME NEW i \in DOMAIN s PROVE s[i] \in Entries(t)
  BY <1>1, <1>2 DEF Entries
<1>5. x \in Entries(t)
  BY <1>1, <1>2 DEF Entries
<1>6. Entries(s) \subseteq Entries(t)
  BY <1>4 DEF Entries
<1>. QED  BY <1>3, <1>5, <1>6

-----------------------------------------------------------------------------
(* Reserved entries are finitely many. *)
LEMMA PairsFinite ==
  ASSUME NEW S \in SUBSET (Procs \X (1 .. MAXOPBLOCKS))
  PROVE IsFiniteSet(S) /\ Cardinality(S) \in Nat
<1>. IsFiniteSet(Procs) /\ 1 \in Int /\ MAXOPBLOCKS \in Int
  BY LogAssumption
<1>1. IsFiniteSet(1 .. MAXOPBLOCKS)
  BY FS_Interval
<1>2. IsFiniteSet(Procs \X (1 .. MAXOPBLOCKS))
  BY <1>1, FS_Product
<1>3. IsFiniteSet(S)
  BY <1>2, FS_Subset
<1>. QED  BY <1>3, FS_CardinalityType

(* One element less is one less.                                             *)
LEMMA RemoveOne ==
  ASSUME NEW S \in SUBSET (Procs \X (1 .. MAXOPBLOCKS)), NEW x \in S
  PROVE Cardinality(S \ {x}) = Cardinality(S) - 1
BY PairsFinite, FS_RemoveElement

(* Two elements are two.                                                     *)
LEMMA AtLeastTwo ==
  ASSUME NEW S \in SUBSET (Procs \X (1 .. MAXOPBLOCKS)), NEW x \in S, NEW y \in S, x # y
  PROVE Cardinality(S) >= 2
<1>1. S \ {x} \in SUBSET (Procs \X (1 .. MAXOPBLOCKS)) /\ S \ {x} # {}
  OBVIOUS
<1>2. IsFiniteSet(S \ {x}) /\ Cardinality(S \ {x}) \in Nat
  BY <1>1, PairsFinite
<1>3. Cardinality(S \ {x}) # 0
  BY <1>1, <1>2, FS_EmptySet
<1>4. Cardinality(S) \in Nat
  BY PairsFinite
<1>. QED  BY <1>2, <1>3, <1>4, RemoveOne

(* Entries of the processes in T are at most MAXOPBLOCKS for each. *)
LEMMA ProductBound ==
  ASSUME NEW T \in SUBSET Procs, NEW S \in SUBSET (T \X (1 .. MAXOPBLOCKS))
  PROVE Cardinality(S) <= Cardinality(T) * MAXOPBLOCKS
<1>. IsFiniteSet(Procs) /\ 1 \in Int /\ MAXOPBLOCKS \in Nat
  BY LogAssumption
<1>1. IsFiniteSet(T)
  BY FS_Subset
<1>2. IsFiniteSet(1 .. MAXOPBLOCKS) /\ Cardinality(1 .. MAXOPBLOCKS) = MAXOPBLOCKS
  BY FS_Interval
<1>3. /\ IsFiniteSet(T \X (1 .. MAXOPBLOCKS))
      /\ Cardinality(T \X (1 .. MAXOPBLOCKS)) = Cardinality(T) * Cardinality(1 .. MAXOPBLOCKS)
  BY <1>1, <1>2, FS_Product
<1>4. Cardinality(S) <= Cardinality(T \X (1 .. MAXOPBLOCKS))
  BY <1>3, FS_Subset
<1>. QED  BY <1>2, <1>3, <1>4

(* Open operations are finitely many.                                        *)
LEMMA OpenFinite == IsFiniteSet(Open) /\ Cardinality(Open) \in Nat
<1>. IsFiniteSet(Procs) /\ Open \subseteq Procs
  BY LogAssumption DEF Open
<1>1. IsFiniteSet(Open)
  BY FS_Subset
<1>. QED  BY <1>1, FS_CardinalityType

(* outstanding counts the operations under way. *)
LEMMA CountStep == ASSUME IInv, [Next]_vars PROVE CountInv'
<1>. USE DEF IInv, TypeOK, CountInv, Running
<1>1. ASSUME NEW p \in Procs, BeginOp(p) PROVE CountInv'
  <2>1. Open' = Open \cup {p} /\ p \notin Open
    BY <1>1 DEF BeginOp, Open
  <2>2. Cardinality(Open \cup {p}) = Cardinality(Open) + 1
    BY <2>1, OpenFinite, FS_AddElement
  <2>. QED  BY <1>1, <2>1, <2>2 DEF BeginOp
<1>2. ASSUME NEW p \in Procs, EndOp(p) \/ EndLast(p) PROVE CountInv'
  <2>1. Open' = Open \ {p} /\ p \in Open
    BY <1>2 DEF EndOp, EndLast, Woken, Open
  <2>2. Cardinality(Open \ {p}) = Cardinality(Open) - 1
    BY <2>1, OpenFinite, FS_RemoveElement
  <2>. QED  BY <1>2, <2>1, <2>2 DEF EndOp, EndLast
<1>3. ASSUME Crash PROVE CountInv'
  <2>1. Open' = {}
    BY <1>3 DEF Crash, Booting, Open
  <2>. QED  BY <1>3, <2>1, FS_EmptySet DEF Crash, Booting
<1>4. ASSUME UNCHANGED outstanding, Open' = Open PROVE CountInv'
  BY <1>4
<1>5. ASSUME NEW p \in Procs,
             \/ BeginSleep(p) \/ \E b \in Blocks, v \in Vals : Modify(p, b, v)
             \/ LogCheck(p) \/ LogAppend(p) \/ WriteLog(p) \/ WriteHead(p)
             \/ CommitInstall(p) \/ CommitClear(p) \/ Finish(p)
      PROVE UNCHANGED outstanding /\ Open' = Open
  BY <1>5 DEF BeginSleep, Modify, LogCheck, LogAppend, WriteLog, WriteHead, CommitInstall,
     CommitClear, Finish, InstallBlock, ClearHead, logVars, procVars, Woken, Open
<1>6. ASSUME BootStep \/ UNCHANGED vars PROVE UNCHANGED outstanding /\ Open' = Open
  BY <1>6 DEF BootStep, ReadHead, RecoverInstall, RecoverClear, InstallBlock, ClearHead,
     vars, logVars, procVars, Open
<1>. QED
  BY <1>1, <1>2, <1>3, <1>4, <1>5, <1>6 DEF Next, OpStep

(* Room: the entry that log_write() makes was reserved, and begin_op() reserves only *)
(* what there is.                                                                    *)
LEMMA ReservedStep == ASSUME IInv, [Next]_vars PROVE ReservedFits'
<1>. USE LogAssumption DEF IInv, TypeOK, ReservedFits, Running
<1>a. Reserved \in SUBSET (Procs \X (1 .. MAXOPBLOCKS))
  BY DEF Reserved, Open
<1>b. IsFiniteSet(Reserved) /\ Cardinality(Reserved) \in Nat /\ Len(lh) \in Nat
  BY <1>a, PairsFinite
<1>1. ASSUME NEW p \in Procs, BeginOp(p) PROVE ReservedFits'
  <2>1. Open' \in SUBSET Procs /\ Reserved' \in SUBSET (Open' \X (1 .. MAXOPBLOCKS))
    BY DEF Reserved, Open
  <2>2. Cardinality(Open') = outstanding + 1
    BY CountStep, <1>1 DEF BeginOp, CountInv
  <2>5. Cardinality(Reserved') <= (outstanding + 1) * MAXOPBLOCKS
    BY <2>1, <2>2, ProductBound
  <2>6. Cardinality(Reserved') \in Nat /\ (outstanding + 1) * MAXOPBLOCKS \in Nat
    <3>1. Reserved' \in SUBSET (Procs \X (1 .. MAXOPBLOCKS))
      BY <2>1
    <3>. QED  BY <3>1, PairsFinite
  <2>7. lh' = lh /\ ~panicked' /\ Len(lh) + (outstanding + 1) * MAXOPBLOCKS <= LOGSIZE
    BY <1>1 DEF BeginOp, Admits
  <2>. DEFINE room == (outstanding + 1) * MAXOPBLOCKS
  <2>8. /\ room \in Nat /\ LOGSIZE \in Nat /\ Len(lh) \in Nat /\ Cardinality(Reserved') \in Nat
        /\ Cardinality(Reserved') <= room /\ Len(lh) + room <= LOGSIZE
    BY <1>b, <2>5, <2>6, <2>7
  <2>. HIDE DEF room
  <2>9. Len(lh) + Cardinality(Reserved') <= LOGSIZE
    BY ONLY <2>8
  <2>. QED  BY <2>7, <2>9
<1>2. ASSUME NEW p \in Procs, LogAppend(p) PROVE ReservedFits'
  <2>. DEFINE e == <<p, OpBlocks[p] - left[p]>>
  <2>1. cur[p] # NoBlock /\ left[p] < OpBlocks[p]
    BY <1>2 DEF LogAppend, CurInv
  <2>2. e \in Reserved
    BY <1>2, <2>1 DEF LogAppend, Reserved, Open, Logged
  <2>3. Reserved' = Reserved \ {e}
    <3>1. \A q \in Procs : Logged(q)' = IF q = p THEN OpBlocks[p] - left[p] ELSE Logged(q)
      BY <1>2, <2>1 DEF LogAppend, Logged
    <3>2. Logged(p) = OpBlocks[p] - left[p] - 1
      BY <2>1 DEF Logged
    <3>3. Open' = Open /\ p \in Open
      BY <1>2 DEF LogAppend, Open
    <3>4. \A n \in 1 .. MAXOPBLOCKS : n > OpBlocks[p] - left[p] - 1 /\ n # OpBlocks[p] - left[p]
                                        <=> n > OpBlocks[p] - left[p]
      OBVIOUS
    <3>. QED  BY <3>1, <3>2, <3>3, <3>4, Open \subseteq Procs, SMTT(30) DEF Reserved, Open
  <2>4. Cardinality(Reserved') = Cardinality(Reserved) - 1
    BY <1>a, <2>2, <2>3, RemoveOne
  <2>5. Len(lh') <= Len(lh) + 1 /\ Len(lh') \in Nat /\ ~panicked'
    BY <1>2, <2>1 DEF LogAppend
  <2>. QED  BY <1>b, <2>4, <2>5, SMTT(30)
<1>3. ASSUME NEW p \in Procs, NEW b \in Blocks, NEW v \in Vals, Modify(p, b, v)
      PROVE Reserved' = Reserved
  <2>1. \A q \in Procs : Logged(q)' = Logged(q)
    <3>1. cur[p] = NoBlock /\ b # NoBlock /\ left[p] \in Nat /\ OpBlocks[p] \in Nat
      BY <1>3 DEF Modify, CurInv
    <3>2. cur' = [cur EXCEPT ![p] = b] /\ left' = [left EXCEPT ![p] = left[p] - 1]
      BY <1>3 DEF Modify
    <3>3. cur'[p] = b /\ left'[p] = left[p] - 1
      BY <3>2
    <3>4. Logged(p)' = Logged(p)
      BY <3>1, <3>3 DEF Logged
    <3>5. \A q \in Procs \ {p} : cur'[q] = cur[q] /\ left'[q] = left[q]
      BY <3>2
    <3>. QED  BY <3>4, <3>5 DEF Logged
  <2>2. Open' = Open /\ Open \subseteq Procs
    BY <1>3 DEF Modify, Open
  <2>. QED  BY <2>1, <2>2 DEF Reserved
<1>4. ASSUME NEW p \in Procs, LogCheck(p) PROVE ReservedFits' /\ pc'[p] = "append"
  <2>1. left[p] < OpBlocks[p] /\ Logged(p) = OpBlocks[p] - left[p] - 1 /\ p \in Open
    BY <1>4 DEF LogCheck, CurInv, Logged, Open
  <2>2. <<p, MAXOPBLOCKS>> \in Reserved /\ <<p, MAXOPBLOCKS - 1>> \in Reserved
    BY <2>1 DEF Reserved
  <2>3. Cardinality(Reserved) >= 2
    <3>1. <<p, MAXOPBLOCKS>> # <<p, MAXOPBLOCKS - 1>>
      OBVIOUS
    <3>. QED  BY <1>a, <2>2, <3>1, AtLeastTwo
  <2>4. Len(lh) + 2 <= LOGSIZE
    BY <1>b, <2>3
  <2>5. outstanding >= 1
    <3>1. Cardinality(Open) # 0
      BY <2>1, OpenFinite, FS_EmptySet
    <3>. QED  BY <3>1, OpenFinite DEF CountInv
  <2>6. ~panicked' /\ pc' = [pc EXCEPT ![p] = "append"] /\ UNCHANGED <<lh, cur, left>>
    BY <1>4, <1>b, <2>4, <2>5 DEF LogCheck, logVars
  <2>7. Reserved' = Reserved
    BY <1>4, <2>6 DEF LogCheck, Reserved, Open, Logged
  <2>. QED  BY <2>6, <2>7
<1>5. ASSUME NEW p \in Procs, EndOp(p) \/ EndLast(p) PROVE ReservedFits'
  <2>1. Reserved' \subseteq Reserved
    BY <1>5 DEF EndOp, EndLast, Reserved, Open, Logged, Woken
  <2>2. Cardinality(Reserved') <= Cardinality(Reserved) /\ IsFiniteSet(Reserved')
    BY <1>b, <2>1, FS_Subset
  <2>3. ~committing
    BY <1>5 DEF EndOp, EndLast, CommitInv, Open
  <2>4. lh' = lh /\ ~panicked'
    BY <1>5, <2>3 DEF EndOp, EndLast
  <2>. QED  BY <1>b, <2>2, <2>4, FS_CardinalityType, SMTT(30)
<1>6. ASSUME NEW p \in Procs, CommitClear(p) PROVE ReservedFits'
  <2>1. Reserved' = Reserved
    BY <1>6 DEF CommitClear, ClearHead, Reserved, Open, Logged
  <2>. QED  BY <1>6, <1>b, <2>1 DEF CommitClear, ClearHead
<1>7. ASSUME BootStep \/ Crash PROVE ReservedFits'
  <2>1. Reserved' = {}
    BY <1>7 DEF BootStep, ReadHead, RecoverInstall, RecoverClear, InstallBlock, ClearHead,
       Crash, Booting, procVars, Reserved, Open, PhaseInv, BootInv
  <2>2. ~panicked' /\ Len(lh') \in Nat /\ Len(lh') <= LOGSIZE
    BY <1>7 DEF BootStep, ReadHead, RecoverInstall, RecoverClear, InstallBlock, ClearHead,
       Crash, Booting, logVars
  <2>. QED  BY <2>1, <2>2, FS_EmptySet
<1>8. ASSUME NEW p \in Procs, BeginSleep(p) \/ WriteHead(p) \/ Finish(p)
      PROVE Reserved' = Reserved
  <2>1. Open' = Open /\ \A q \in Procs : Logged(q)' = Logged(q)
    BY <1>8 DEF BeginSleep, WriteHead, Finish, Woken, Open, Logged
  <2>. QED  BY <2>1, Open \subseteq Procs DEF Reserved, Open
<1>9. ASSUME UNCHANGED <<lh, panicked>>, Reserved' = Reserved PROVE ReservedFits'
  BY <1>9
<1>10. ASSUME UNCHANGED procVars PROVE Reserved' = Reserved
  BY <1>10 DEF procVars, Reserved, Open, Logged
<1>. QED
  BY <1>1, <1>2, <1>3, <1>4, <1>5, <1>6, <1>7, <1>8, <1>9, <1>10
     DEF Next, OpStep, Modify, BeginSleep, WriteLog, WriteHead, CommitInstall, InstallBlock,
         Finish, vars, logVars

-----------------------------------------------------------------------------
(* Types stay.                                                               *)
LEMMA TypeOKStep == ASSUME IInv, [Next]_vars PROVE TypeOK'
<1>. USE DEF IInv, TypeOK, onDisk, logVars, procVars, Running
<1>. OpBlocks \in [Procs -> Nat] /\ MaxCrash \in Nat /\ LOGSIZE \in Nat /\ NoBlock \notin Blocks
  BY LogAssumption
<1>1. ASSUME NEW p \in Procs, BeginOp(p) PROVE TypeOK'
  BY <1>1 DEF BeginOp
<1>16. ASSUME NEW p \in Procs, BeginSleep(p) PROVE TypeOK'
  BY <1>16 DEF BeginSleep
<1>2. ASSUME NEW p \in Procs, NEW b \in Blocks, NEW v \in Vals, Modify(p, b, v) PROVE TypeOK'
  BY <1>2 DEF Modify
<1>3. ASSUME NEW p \in Procs, LogCheck(p) PROVE TypeOK'
  BY <1>3 DEF LogCheck
<1>5. ASSUME NEW p \in Procs, EndOp(p) PROVE TypeOK'
  BY <1>5 DEF EndOp, Woken
<1>17. ASSUME NEW p \in Procs, EndLast(p) PROVE TypeOK'
  BY <1>17 DEF EndLast
<1>18. ASSUME InstallBlock PROVE /\ disk' \in [Blocks -> Vals] /\ mem' \in [Blocks -> Vals]
                                /\ dirty' \subseteq Blocks /\ tail' \in 0 .. Len(lh)
  <2>1. lh[tail + 1] \in Blocks /\ dlog[tail + 1] \in Vals
    BY <1>18 DEF InstallBlock
  <2>. QED  BY <1>18, <2>1 DEF InstallBlock
<1>6. ASSUME NEW p \in Procs, WriteLog(p) PROVE TypeOK'
  BY <1>6 DEF WriteLog, Bread
<1>7. ASSUME NEW p \in Procs, WriteHead(p) PROVE TypeOK'
  BY <1>7 DEF WriteHead
<1>8. ASSUME NEW p \in Procs, CommitInstall(p) PROVE TypeOK'
  BY <1>8, <1>18 DEF CommitInstall, InstallBlock
<1>9. ASSUME NEW p \in Procs, CommitClear(p) PROVE TypeOK'
  BY <1>9 DEF CommitClear, ClearHead
<1>10. ASSUME NEW p \in Procs, Finish(p) PROVE TypeOK'
  BY <1>10 DEF Finish, Woken
<1>11. ASSUME ReadHead PROVE TypeOK'
  BY <1>11 DEF ReadHead, BootInv, PhaseInv, HeadInv
<1>12. ASSUME RecoverInstall PROVE TypeOK'
  BY <1>12, <1>18 DEF RecoverInstall, InstallBlock
<1>13. ASSUME RecoverClear PROVE TypeOK'
  BY <1>13 DEF RecoverClear, ClearHead
<1>14. ASSUME Crash PROVE TypeOK'
  <2>1. crashes' \in 0 .. MaxCrash /\ mem' \in [Blocks -> Vals] /\ UNCHANGED onDisk
    BY <1>14 DEF Crash
  <2>2. /\ pc' = [p \in Procs |-> "begin"] /\ cur' = [p \in Procs |-> NoBlock]
        /\ left' = OpBlocks
        /\ lh' = <<>> /\ tail' = 0 /\ dirty' = {} /\ outstanding' = 0
        /\ committing' = FALSE /\ panicked' = FALSE /\ boot' = "head"
    BY <1>14 DEF Crash, Booting
  <2>3. left' \in [Procs -> Nat] /\ \A p \in Procs : left'[p] <= OpBlocks[p]
    BY <2>2
  <2>4. lh' \in Seq(Blocks) /\ Len(lh') = 0
    BY <2>2
  <2>5. \A i, j \in DOMAIN lh' : lh'[i] = lh'[j] => i = j
    BY <2>2
  <2>6. /\ disk' \in [Blocks -> Vals] /\ dlog' \in [1 .. LOGSIZE -> Vals]
        /\ dhead' \in Seq(Blocks) /\ Len(dhead') <= LOGSIZE
    BY <2>1
  <2>7. pc' \in [Procs -> {"begin", "asleep", "op", "check", "append",
                          "write", "install", "finish", "done"}]
    BY <2>2
  <2>8. cur' \in [Procs -> Blocks \cup {NoBlock}] /\ dirty' \subseteq Blocks
    BY <2>2
  <2>9. tail' \in 0 .. Len(lh') /\ Len(lh') <= LOGSIZE /\ outstanding' \in Nat
    BY <2>2, <2>4
  <2>10. committing' \in BOOLEAN /\ panicked' \in BOOLEAN /\ boot' \in {"head", "install", "up"}
    BY <2>2
  <2>. QED  BY <2>1, <2>3, <2>4, <2>5, <2>6, <2>7, <2>8, <2>9, <2>10
<1>15. ASSUME UNCHANGED vars PROVE TypeOK'
  BY <1>15 DEF vars
<1>4. ASSUME NEW p \in Procs, LogAppend(p) PROVE TypeOK'
  <2>1. cur[p] \in Blocks
    BY <1>4 DEF LogAppend, CurInv
  <2>2. Len(lh') <= LOGSIZE
    <3>1. Reserved' \in SUBSET (Procs \X (1 .. MAXOPBLOCKS))
      BY DEF Reserved, Open
    <3>2. Cardinality(Reserved') \in Nat /\ Len(lh') + Cardinality(Reserved') <= LOGSIZE
      BY <3>1, PairsFinite, ReservedStep DEF ReservedFits
    <3>3. Len(lh') \in Nat
      BY <1>4, <2>1 DEF LogAppend
    <3>. QED  BY <3>2, <3>3
  <2>3. lh' \in Seq(Blocks) /\ \A i, j \in DOMAIN lh' : lh'[i] = lh'[j] => i = j
    <3>1. CASE cur[p] \in Entries(lh)
      BY <1>4, <3>1 DEF LogAppend
    <3>2. CASE cur[p] \notin Entries(lh)
      <4>1. lh' = Append(lh, cur[p])
        BY <1>4, <3>2 DEF LogAppend
      <4>2. \A i \in DOMAIN lh : lh[i] # cur[p]
        BY <3>2 DEF Entries
      <4>. QED  BY <2>1, <4>1, <4>2
    <3>. QED  BY <3>1, <3>2
  <2>4. tail <= Len(lh')
    BY <1>4, <2>1 DEF LogAppend
  <2>. QED  BY <1>4, <2>1, <2>2, <2>3, <2>4 DEF LogAppend
<1>. QED
  BY <1>1, <1>2, <1>3, <1>4, <1>5, <1>6, <1>7, <1>8, <1>9, <1>10, <1>11, <1>12, <1>13,
     <1>14, <1>15, <1>16, <1>17 DEF Next, OpStep, BootStep

-----------------------------------------------------------------------------
(* A process that ends its operation or takes a buffer is the only one to. *)
LEMMA CurStep == ASSUME IInv, [Next]_vars PROVE CurInv'
<1>. USE DEF IInv, TypeOK, CurInv, Running
<1>. OpBlocks \in [Procs -> Nat] /\ NoBlock \notin Blocks
  BY LogAssumption
<1>1. ASSUME NEW p \in Procs, BeginOp(p) \/ BeginSleep(p) PROVE CurInv'
  BY <1>1 DEF BeginOp, BeginSleep
<1>2. ASSUME NEW p \in Procs, NEW b \in Blocks, NEW v \in Vals, Modify(p, b, v) PROVE CurInv'
  <2>1. \A q \in Procs : cur[q] # b
    BY <1>2 DEF Modify, Held
  <2>. QED  BY <1>2, <2>1 DEF Modify
<1>3. ASSUME NEW p \in Procs, LogCheck(p) \/ LogAppend(p) PROVE CurInv'
  BY <1>3, ZenonT(60) DEF LogCheck, LogAppend
<1>4. ASSUME NEW p \in Procs, EndOp(p) \/ EndLast(p) PROVE CurInv'
  BY <1>4 DEF EndOp, EndLast, Woken
<1>5. ASSUME NEW p \in Procs, WriteHead(p) \/ CommitClear(p) \/ Finish(p) PROVE CurInv'
  BY <1>5 DEF WriteHead, CommitClear, Finish, Woken
<1>6. ASSUME Crash PROVE CurInv'
  BY <1>6 DEF Crash, Booting
<1>7. ASSUME UNCHANGED procVars PROVE CurInv'
  BY <1>7 DEF procVars
<1>. QED
  BY <1>1, <1>2, <1>3, <1>4, <1>5, <1>6, <1>7 DEF Next, OpStep, BootStep, ReadHead,
     RecoverInstall, RecoverClear, WriteLog, CommitInstall, vars

(* The one committer is the last of the operations: begin_op() admits nobody meanwhile. *)
LEMMA CommitStep == ASSUME IInv, [Next]_vars PROVE CommitInv'
<1>0. ASSUME NEW p \in Procs, EndLast(p) PROVE Open = {p}
  <2>1. Cardinality(Open) = 1 /\ p \in Open /\ IsFiniteSet(Open)
    BY <1>0, OpenFinite DEF EndLast, IInv, CountInv, Open
  <2>2. IsFiniteSet(Open \ {p}) /\ Cardinality(Open \ {p}) = 0
    BY <2>1, FS_RemoveElement
  <2>3. Open \ {p} = {}
    BY <2>2, FS_EmptySet
  <2>. QED  BY <2>1, <2>3
<1>. USE DEF IInv, TypeOK, CommitInv, Commits, Open, Running, logVars, procVars
<1>1. ASSUME NEW p \in Procs, BeginOp(p) \/ BeginSleep(p) PROVE CommitInv'
  <2>1. \A q \in Procs : Commits(q)' <=> Commits(q)
    BY <1>1 DEF BeginOp, BeginSleep
  <2>2. committing' = committing /\ (committing => Open' = Open)
    BY <1>1 DEF BeginOp, BeginSleep, Admits
  <2>. QED  BY <2>1, <2>2
<1>2. ASSUME NEW p \in Procs,
             (\E b \in Blocks, v \in Vals : Modify(p, b, v)) \/ LogCheck(p) \/ LogAppend(p)
      PROVE CommitInv'
  <2>1. \A q \in Procs : Commits(q)' <=> Commits(q)
    BY <1>2 DEF Modify, LogCheck, LogAppend
  <2>2. committing' = committing /\ Open' = Open
    BY <1>2 DEF Modify, LogCheck, LogAppend
  <2>. QED  BY <2>1, <2>2
<1>3. ASSUME NEW p \in Procs, EndOp(p) PROVE CommitInv'
  BY <1>3 DEF EndOp, Woken
<1>4. ASSUME NEW p \in Procs, EndLast(p) PROVE CommitInv'
  <2>2. Open = {p}
    BY <1>0, <1>4
  <2>3. ~committing /\ \A q \in Procs : ~Commits(q)
    BY <2>2
  <2>4. /\ committing' /\ Commits(p)'
        /\ \A q \in Procs \ {p} : pc'[q] = pc[q]
    BY <1>4 DEF EndLast
  <2>. QED  BY <2>2, <2>3, <2>4
<1>5. ASSUME NEW p \in Procs, WriteHead(p) \/ CommitClear(p) PROVE CommitInv'
  BY <1>5 DEF WriteHead, CommitClear, ClearHead, logVars
<1>6. ASSUME NEW p \in Procs, Finish(p) PROVE CommitInv'
  <2>1. \A q \in Procs : ~Commits(q)'
    BY <1>6 DEF Finish, Woken
  <2>. QED  BY <1>6, <2>1 DEF Finish
<1>7. ASSUME Crash PROVE CommitInv'
  BY <1>7 DEF Crash, Booting
<1>8. ASSUME UNCHANGED <<pc, committing>> PROVE CommitInv'
  BY <1>8
<1>. QED
  BY <1>1, <1>2, <1>3, <1>4, <1>5, <1>6, <1>7, <1>8 DEF Next, OpStep, BootStep, ReadHead,
     RecoverInstall, RecoverClear, InstallBlock, ClearHead, WriteLog, CommitInstall, vars,
     logVars, procVars

-----------------------------------------------------------------------------
(* Where the phases stand to each other. *)
LEMMA Phases ==
  ASSUME IInv
  PROVE /\ \A p \in Procs : Commits(p) => committing /\ boot = "up" /\ Open = {} /\ Held = {}
        /\ \A p \in Procs : p \in Open => ~committing /\ \A q \in Procs : ~Commits(q)
        /\ boot # "up" => ~committing /\ Held = {} /\ Open = {}
<1>. USE DEF IInv, CommitInv, Commits, Open, CurInv, PhaseInv, BootInv, TypeOK
<1>1. ASSUME NEW p \in Procs, Commits(p) PROVE committing /\ boot = "up" /\ Open = {}
  BY <1>1
<1>2. Open = {} => Held = {}
  BY DEF Held
<1>3. ASSUME NEW p \in Procs, p \in Open PROVE ~committing /\ \A q \in Procs : ~Commits(q)
  BY <1>3
<1>4. boot # "up" => ~committing /\ Open = {}
  OBVIOUS
<1>. QED  BY <1>1, <1>2, <1>3, <1>4

(* The installation of one block, in commit() as in recovery: lh lists no block twice, so *)
(* the blocks that are home stay home.                                                    *)
LEMMA InstallKeeps ==
  ASSUME IInv, InstallBlock, Home
  PROVE /\ Home'
        /\ tail + 1 \in DOMAIN lh /\ lh[tail + 1] \in Blocks
        /\ \A b \in Blocks \ {lh[tail + 1]} : disk'[b] = disk[b] /\ mem'[b] = mem[b]
        /\ disk'[lh[tail + 1]] = dlog[tail + 1] /\ mem'[lh[tail + 1]] = dlog[tail + 1]
<1>. USE DEF IInv, TypeOK, InstallBlock, logVars
<1>1. tail + 1 \in DOMAIN lh /\ lh[tail + 1] \in Blocks
  OBVIOUS
<1>2. \A b \in Blocks \ {lh[tail + 1]} : disk'[b] = disk[b] /\ mem'[b] = mem[b]
  BY <1>1
<1>3. disk'[lh[tail + 1]] = dlog[tail + 1] /\ mem'[lh[tail + 1]] = dlog[tail + 1]
  BY <1>1
<1>4. ASSUME NEW i \in 1 .. tail' PROVE disk'[lh'[i]] = dlog'[i]
  <2>1. CASE i = tail + 1
    BY <2>1, <1>3
  <2>2. CASE i # tail + 1
    <3>1. i \in 1 .. tail /\ i \in DOMAIN lh /\ lh[i] \in Blocks
      BY <2>2
    <3>2. lh[i] # lh[tail + 1]
      BY <1>1, <2>2, <3>1
    <3>. QED  BY <1>2, <3>1, <3>2 DEF Home
  <2>. QED  BY <2>1, <2>2
<1>. QED  BY <1>1, <1>2, <1>3, <1>4 DEF Home

(* Each step of commit and recovery leads from phase to phase.               *)
LEMMA PhaseStep == ASSUME IInv, [Next]_vars PROVE PhaseInv'
<1>. USE Phases DEF IInv, TypeOK, PhaseInv, Running, onDisk, logVars, procVars
<1>0. ASSUME boot' = "up" PROVE BootInv'
  BY <1>0 DEF BootInv
<1>1. ASSUME NEW p \in Procs, BeginOp(p) \/ BeginSleep(p) \/ LogCheck(p) PROVE PhaseInv'
  <2>1. /\ UNCHANGED <<onDisk, mem, dirty, lh, committing, tail, cur>>
        /\ boot = "up" /\ boot' = "up"
    BY <1>1 DEF BeginOp, BeginSleep, LogCheck
  <2>2. \A q \in Procs : pc'[q] \in {"write", "install", "finish"} => pc'[q] = pc[q]
    BY <1>1 DEF BeginOp, BeginSleep, LogCheck
  <2>. QED  BY <1>0, <2>1, <2>2
            DEF HeadInv, IdleInv, WriteInv, InstallInv, FinishInv, Copied, Home, Clean, Held
<1>2. ASSUME NEW p \in Procs, ~committing', boot' = "up", UNCHANGED onDisk, IdleInv',
             \A q \in Procs : ~Commits(q)'
      PROVE PhaseInv'
  BY <1>0, <1>2 DEF HeadInv, WriteInv, InstallInv, FinishInv, Commits
<1>3. ASSUME NEW p \in Procs, NEW b \in Blocks, NEW v \in Vals, Modify(p, b, v) PROVE PhaseInv'
  <2>1. p \in Open /\ \A q \in Procs : Commits(q)' <=> Commits(q)
    BY <1>3 DEF Modify, Open, Commits
  <2>2. Held' = Held \cup {b}
    <3>1. cur[p] = NoBlock /\ b # NoBlock /\ cur' = [cur EXCEPT ![p] = b]
      BY <1>3, LogAssumption DEF Modify, CurInv
    <3>. QED  BY <3>1 DEF Held
  <2>3. \A c \in Blocks \ {b} : mem'[c] = mem[c]
    BY <1>3 DEF Modify
  <2>4. IdleInv'
    BY <1>3, <2>1, <2>2, <2>3 DEF Modify, IdleInv, Entries
  <2>. QED  BY <1>2, <1>3, <2>1, <2>4 DEF Modify
<1>4. ASSUME NEW p \in Procs, LogAppend(p) PROVE PhaseInv'
  <2>1. p \in Open /\ \A q \in Procs : Commits(q)' <=> Commits(q)
    BY <1>4 DEF LogAppend, Open, Commits
  <2>2. cur[p] \in Blocks
    BY <1>4 DEF LogAppend, CurInv
  <2>3. Held \subseteq Held' \cup {cur[p]}
    BY <1>4 DEF LogAppend, Held
  <2>4. Entries(lh') = Entries(lh) \cup {cur[p]}
    <3>1. CASE cur[p] \in Entries(lh)
      BY <1>4, <3>1 DEF LogAppend
    <3>2. CASE cur[p] \notin Entries(lh)
      <4>1. lh' = Append(lh, cur[p])
        BY <1>4, <3>2 DEF LogAppend
      <4>. QED  BY <2>2, <4>1, EntriesAppend
    <3>. QED  BY <3>1, <3>2
  <2>5. IdleInv'
    BY <1>4, <2>1, <2>3, <2>4 DEF LogAppend, IdleInv
  <2>. QED  BY <1>2, <1>4, <2>1, <2>5 DEF LogAppend
<1>5. ASSUME NEW p \in Procs, EndOp(p) PROVE PhaseInv'
  <2>1. p \in Open /\ \A q \in Procs : Commits(q)' <=> Commits(q)
    BY <1>5 DEF EndOp, Woken, Open, Commits
  <2>2. IdleInv'
    BY <1>5, <2>1 DEF EndOp, IdleInv, Held
  <2>. QED  BY <1>2, <1>5, <2>1, <2>2 DEF EndOp
<1>6. ASSUME NEW p \in Procs, EndLast(p) PROVE PhaseInv'
  <2>1. p \in Open /\ ~committing /\ boot = "up"
    BY <1>6 DEF EndLast, Open
  <2>2. dhead = <<>> /\ tail = 0 /\ dirty = Entries(lh)
    BY <2>1 DEF IdleInv
  <2>3. Held = {}
    <3>1. committing' /\ CommitInv'
      BY <1>6, CommitStep DEF EndLast
    <3>2. \A q \in Procs : pc'[q] \notin {"check", "append"}
      BY <3>1 DEF CommitInv, Open
    <3>3. \A q \in Procs : cur'[q] = NoBlock
      BY <3>2, CurStep DEF CurInv
    <3>. QED  BY <1>6, <3>3 DEF EndLast, Held
  <2>4. Clean
    BY <2>1, <2>3 DEF IdleInv, Clean
  <2>5. \A q \in Procs : Commits(q)' => q = p
    BY <1>6, <2>1 DEF EndLast, Commits
  <2>6. lh = <<>> => mem = disk /\ dirty = {}
    BY <2>2, <2>4 DEF Clean, Entries
  <2>7. pc'[p] = IF lh = <<>> THEN "finish" ELSE "write"
    BY <1>6 DEF EndLast
  <2>8. UNCHANGED <<onDisk, mem, dirty, lh, tail, boot>> /\ committing'
    BY <1>6 DEF EndLast
  <2>9. WriteInv' /\ InstallInv' /\ FinishInv'
    BY <2>2, <2>4, <2>5, <2>6, <2>7, <2>8
       DEF WriteInv, InstallInv, FinishInv, Commits, Copied, Clean
  <2>. QED  BY <1>0, <2>1, <2>8, <2>9 DEF HeadInv, IdleInv
<1>7. ASSUME NEW p \in Procs, Commits(p)
      PROVE /\ Open = {} /\ Held = {} /\ committing /\ boot = "up"
            /\ \A q \in Procs \ {p} : ~Commits(q)
  BY <1>7 DEF CommitInv
<1>8. ASSUME NEW p \in Procs, WriteLog(p) PROVE PhaseInv'
  <2>1. Commits(p) /\ pc[p] = "write"
    BY <1>8 DEF WriteLog, Commits
  <2>2. tail + 1 \in DOMAIN lh /\ lh[tail + 1] \in dirty
    BY <1>8, <2>1 DEF WriteLog, WriteInv, Entries
  <2>3. dlog' = [dlog EXCEPT ![tail + 1] = mem[lh[tail + 1]]]
    BY <1>8, <2>2 DEF WriteLog, Bread
  <2>4. UNCHANGED <<disk, dhead, mem, dirty, logVars, boot, procVars>> /\ tail' = tail + 1
    BY <1>8 DEF WriteLog
  <2>5. Copied(tail)
    BY <2>1 DEF WriteInv
  <2>6. \A i \in 1 .. tail' : dlog'[i] = mem'[lh'[i]]
    <3>1. tail + 1 \in 1 .. LOGSIZE /\ tail + 1 \in 1 .. Len(lh)
      BY <2>2, LogAssumption
    <3>2. dlog'[tail + 1] = mem[lh[tail + 1]]
      BY <2>3, <3>1
    <3>3. ASSUME NEW i \in 1 .. tail PROVE dlog'[i] = mem[lh[i]]
      BY <2>3, <2>5, <3>1, <3>3 DEF Copied
    <3>. QED  BY <2>4, <3>2, <3>3
  <2>7. WriteInv'
    BY <2>1, <2>4, <2>6 DEF WriteInv, Copied, Clean
  <2>8. InstallInv' /\ FinishInv' /\ IdleInv'
    BY <1>7, <2>1, <2>4 DEF InstallInv, FinishInv, IdleInv, Commits
  <2>. QED  BY <1>0, <1>7, <2>1, <2>4, <2>7, <2>8 DEF HeadInv
<1>9. ASSUME NEW p \in Procs, WriteHead(p) PROVE PhaseInv'
  <2>1. Commits(p) /\ pc[p] = "write" /\ tail = Len(lh)
    BY <1>9 DEF WriteHead, Commits
  <2>2. /\ UNCHANGED <<disk, dlog, mem, dirty, logVars, boot>> /\ tail' = 0 /\ dhead' = lh
        /\ pc' = [pc EXCEPT ![p] = "install"]
    BY <1>9 DEF WriteHead
  <2>3. dirty = {lh[i] : i \in 0 + 1 .. Len(lh)}
    <3>1. DOMAIN lh = 1 .. Len(lh) /\ 0 + 1 = 1
      OBVIOUS
    <3>. QED  BY <2>1, <3>1 DEF WriteInv, Entries
  <2>4. InstallInv'
    BY <2>1, <2>2, <2>3 DEF WriteInv, InstallInv, Copied, Home, Clean
  <2>5. WriteInv' /\ FinishInv' /\ IdleInv'
    BY <1>7, <2>1, <2>2 DEF WriteInv, FinishInv, IdleInv, Commits
  <2>6. HeadInv'
    BY <2>2 DEF HeadInv
  <2>. QED  BY <1>0, <1>7, <2>1, <2>2, <2>4, <2>5, <2>6
<1>10. ASSUME NEW p \in Procs, CommitInstall(p) PROVE PhaseInv'
  <2>1. Commits(p) /\ pc[p] = "install" /\ InstallBlock /\ UNCHANGED <<boot, procVars>>
    BY <1>10 DEF CommitInstall, Commits
  <2>2. dhead = lh /\ dirty = {lh[i] : i \in tail + 1 .. Len(lh)} /\ Copied(Len(lh)) /\ Home /\ Clean
    BY <2>1 DEF InstallInv
  <2>. DEFINE c == lh[tail + 1]
  <2>3. /\ Home' /\ tail + 1 \in DOMAIN lh /\ c \in Blocks
        /\ \A b \in Blocks \ {c} : disk'[b] = disk[b] /\ mem'[b] = mem[b]
        /\ disk'[c] = dlog[tail + 1] /\ mem'[c] = dlog[tail + 1]
    BY <2>1, <2>2, InstallKeeps
  <2>4. UNCHANGED <<dhead, lh, dlog, committing>> /\ tail' = tail + 1 /\ dirty' = dirty \ {c}
    BY <2>1 DEF InstallBlock
  <2>5. mem'[c] = mem[c]
    BY <2>2, <2>3 DEF Copied
  <2>6. Copied(Len(lh))'
    <3>1. \A i \in 1 .. Len(lh) : lh[i] \in Blocks
      OBVIOUS
    <3>. QED  BY <2>2, <2>3, <2>4, <2>5, <3>1 DEF Copied
  <2>7. Clean'
    BY <2>2, <2>3, <2>4 DEF Clean, Entries
  <2>8. dirty' = {lh[i] : i \in tail + 2 .. Len(lh)}
    BY <2>2, <2>3, <2>4
  <2>9. InstallInv'
    BY <2>2, <2>3, <2>4, <2>6, <2>7, <2>8 DEF InstallInv
  <2>10. WriteInv' /\ FinishInv' /\ IdleInv'
    BY <1>7, <2>1, <2>4 DEF WriteInv, FinishInv, IdleInv, Commits
  <2>. QED  BY <1>0, <1>7, <2>1, <2>4, <2>9, <2>10 DEF HeadInv
<1>11. ASSUME NEW p \in Procs, CommitClear(p) PROVE PhaseInv'
  <2>1. Commits(p) /\ pc[p] = "install" /\ tail = Len(lh)
    BY <1>11 DEF CommitClear, ClearHead, Commits
  <2>2. /\ lh' = <<>> /\ dhead' = <<>> /\ tail' = 0 /\ pc' = [pc EXCEPT ![p] = "finish"]
        /\ UNCHANGED <<disk, dlog, mem, dirty, committing, boot>>
    BY <1>11 DEF CommitClear, ClearHead
  <2>3. dirty = {} /\ Copied(Len(lh)) /\ Home /\ Clean
    BY <2>1 DEF InstallInv
  <2>4. \A b \in Blocks : mem[b] = disk[b]
    BY <2>1, <2>3 DEF Copied, Home, Clean, Entries
  <2>5. mem = disk
    BY <2>4
  <2>6. FinishInv'
    BY <2>2, <2>3, <2>5 DEF FinishInv
  <2>7. WriteInv' /\ InstallInv' /\ IdleInv'
    BY <1>7, <2>1, <2>2 DEF WriteInv, InstallInv, IdleInv, Commits
  <2>. QED  BY <1>0, <1>7, <2>1, <2>2, <2>6, <2>7 DEF HeadInv
<1>12. ASSUME NEW p \in Procs, Finish(p) PROVE PhaseInv'
  <2>1. Commits(p) /\ pc[p] = "finish"
    BY <1>12 DEF Finish, Commits
  <2>2. UNCHANGED <<onDisk, mem, dirty, lh, tail, boot>> /\ ~committing'
    BY <1>12 DEF Finish
  <2>3. \A q \in Procs : ~Commits(q)'
    BY <1>7, <1>12, <2>1 DEF Finish, Woken, Commits
  <2>4. IdleInv'
    BY <2>1, <2>2 DEF FinishInv, IdleInv, Entries
  <2>. QED  BY <1>2, <1>7, <2>1, <2>2, <2>3, <2>4
<1>13. ASSUME boot' # "up", boot # "up", ~committing', UNCHANGED pc, HeadInv', BootInv' PROVE PhaseInv'
  BY <1>13 DEF BootInv, IdleInv, WriteInv, InstallInv, FinishInv
<1>14. ASSUME ReadHead PROVE PhaseInv'
  BY <1>13, <1>14 DEF ReadHead, BootInv, HeadInv, Home
<1>15. ASSUME RecoverInstall PROVE PhaseInv'
  <2>1. InstallBlock /\ UNCHANGED <<boot, procVars>> /\ boot = "install"
    BY <1>15 DEF RecoverInstall
  <2>2. lh = dhead /\ Home /\ mem = disk /\ dirty = {} /\ ~committing
    BY <2>1 DEF BootInv
  <2>3. Home'
    BY <2>1, <2>2, InstallKeeps
  <2>4. /\ UNCHANGED <<dhead, lh, committing>> /\ dirty' = {}
        /\ mem' = disk'
    BY <2>1, <2>2 DEF InstallBlock
  <2>5. HeadInv' /\ BootInv'
    BY <2>1, <2>2, <2>3, <2>4 DEF HeadInv, BootInv
  <2>. QED  BY <1>13, <2>1, <2>2, <2>4, <2>5
<1>16. ASSUME RecoverClear PROVE PhaseInv'
  <2>1. /\ boot = "install" /\ boot' = "up" /\ lh' = <<>> /\ dhead' = <<>> /\ tail' = 0
        /\ UNCHANGED <<disk, mem, dirty, committing, pc>>
    BY <1>16 DEF RecoverClear, ClearHead
  <2>2. mem = disk /\ dirty = {} /\ ~committing /\ \A q \in Procs : pc[q] = "begin"
    BY <2>1 DEF BootInv
  <2>. QED  BY <1>0, <2>1, <2>2
            DEF HeadInv, IdleInv, WriteInv, InstallInv, FinishInv, Entries
<1>17. ASSUME Crash PROVE PhaseInv'
  BY <1>17 DEF Crash, Booting, HeadInv, BootInv, IdleInv, WriteInv, InstallInv, FinishInv
<1>18. ASSUME UNCHANGED vars PROVE PhaseInv'
  BY <1>18 DEF vars, HeadInv, BootInv, IdleInv, WriteInv, InstallInv, FinishInv, Copied,
     Home, Clean, Held
<1>. QED
  BY <1>1, <1>3, <1>4, <1>5, <1>6, <1>8, <1>9, <1>10, <1>11, <1>12, <1>14, <1>15, <1>16,
     <1>17, <1>18 DEF Next, OpStep, BootStep

-----------------------------------------------------------------------------
(* The invariant. *)

LEMMA InitIInv == Init => IInv
<1>. SUFFICES ASSUME Init PROVE IInv
  OBVIOUS
<1>. USE DEF Init
<1>1. TypeOK
  <2>1. <<>> \in Seq(Blocks) /\ Len(<<>>) = 0 /\ LOGSIZE \in Nat /\ OpBlocks \in [Procs -> Nat]
    BY LogAssumption
  <2>2. dlog \in [1 .. LOGSIZE -> Vals] /\ disk \in [Blocks -> Vals] /\ mem \in [Blocks -> Vals]
    BY LogAssumption
  <2>3. /\ left \in [Procs -> Nat] /\ crashes \in 0 .. MaxCrash
        /\ \A p \in Procs : left[p] <= OpBlocks[p]
    BY LogAssumption
  <2>4. lh = <<>> /\ dhead = <<>> /\ tail = 0
    OBVIOUS
  <2>5. Len(dhead) <= LOGSIZE /\ Len(lh) <= LOGSIZE /\ tail \in 0 .. Len(lh)
    BY <2>1, <2>4
  <2>6. \A i, j \in DOMAIN lh : lh[i] = lh[j] => i = j
    BY <2>4
  <2>7. pc \in [Procs -> {"begin", "asleep", "op", "check", "append",
                         "write", "install", "finish", "done"}]
    OBVIOUS
  <2>8. cur \in [Procs -> Blocks \cup {NoBlock}] /\ dirty \subseteq Blocks /\ outstanding \in Nat
    OBVIOUS
  <2>9. committing \in BOOLEAN /\ panicked \in BOOLEAN /\ boot \in {"head", "install", "up"}
    OBVIOUS
  <2>10. dhead \in Seq(Blocks) /\ lh \in Seq(Blocks)
    BY <2>1, <2>4
  <2>. HIDE DEF Init
  <2>. QED  BY <2>2, <2>3, <2>5, <2>6, <2>7, <2>8, <2>9, <2>10 DEF TypeOK
<1>2. Open = {} /\ Reserved = {}
  BY DEF Open, Reserved
<1>3. Cardinality({}) = 0
  BY FS_EmptySet
<1>4. CurInv /\ CountInv /\ CommitInv
  BY <1>2, <1>3 DEF CurInv, CountInv, CommitInv, Commits
<1>5. ReservedFits
  BY <1>2, <1>3, LogAssumption DEF ReservedFits
<1>6. PhaseInv
  BY DEF PhaseInv, HeadInv, BootInv, IdleInv, WriteInv, InstallInv, FinishInv
<1>. QED  BY <1>1, <1>4, <1>5, <1>6 DEF IInv

(* The state of memory and disk in each phase of the log's work, in every reachable state. *)
THEOREM Invariance == Spec => []IInv
<1>1. ASSUME IInv, [Next]_vars PROVE IInv'
  BY <1>1, TypeOKStep, CurStep, CountStep, CommitStep, ReservedStep, PhaseStep DEF IInv
<1>. QED  BY InitIInv, <1>1, PTL DEF Spec

(* The log's variables keep their types; lh lists no block twice and fits lh.block[]. *)
THEOREM TypeCorrect == Spec => []TypeOK
<1>1. IInv => TypeOK
  BY DEF IInv
<1>. QED  BY Invariance, <1>1, PTL

(* log_write() finds the room that begin_op() reserved, and no test of log.c panics. *)
THEOREM RoomFits == Spec => []ReservedFits
<1>1. IInv => ReservedFits
  BY DEF IInv
<1>. QED  BY Invariance, <1>1, PTL

(* A modified buffer stays locked or pinned until its block is home. *)
THEOREM Pinned == Spec => []PinnedUntilHome
<1>1. ASSUME IInv PROVE PinnedUntilHome
  <2>. USE <1>1 DEF IInv, TypeOK, PhaseInv
  <2>. SUFFICES ASSUME boot = "up", NEW b \in Blocks, mem[b] # disk[b]
                PROVE b \in Held \/ b \in dirty \cap Entries(lh)
    BY DEF PinnedUntilHome
  <2>1. CASE ~committing
    BY <2>1 DEF IdleInv
  <2>2. CASE committing
    <3>1. PICK p \in Procs : pc[p] \in {"write", "install", "finish"}
      BY <2>2 DEF CommitInv, Commits
    <3>2. CASE pc[p] = "write"
      BY <3>2 DEF WriteInv, Clean
    <3>3. CASE pc[p] = "install"
      <4>1. b \in Entries(lh)
        BY <3>3 DEF InstallInv, Clean
      <4>2. PICK i \in DOMAIN lh : lh[i] = b
        BY <4>1 DEF Entries
      <4>3. i \notin 1 .. tail
        <5>1. Copied(Len(lh)) /\ Home
          BY <3>3 DEF InstallInv
        <5>2. dlog[i] = mem[b]
          BY <4>2, <5>1, SMTT(30) DEF Copied
        <5>3. i \in 1 .. tail => disk[b] = dlog[i]
          BY <4>2, <5>1 DEF Home
        <5>. QED  BY <5>2, <5>3
      <4>4. i \in tail + 1 .. Len(lh)
        BY <4>2, <4>3
      <4>. QED  BY <3>3, <4>1, <4>2, <4>4 DEF InstallInv
    <3>4. CASE pc[p] = "finish"
      BY <3>4 DEF FinishInv
    <3>. QED  BY <3>1, <3>2, <3>3, <3>4
  <2>. QED  BY <2>1, <2>2
<1>. QED  BY Invariance, <1>1, PTL

(* When end_op() of the last operation returns, a crash gives back what the buffers hold. *)
THEOREM Durable == Spec => DurableReturn
<1>1. ASSUME IInv, [Next]_vars, NEW p \in Procs, pc[p] = "finish", pc'[p] = "done"
      PROVE Recovered' = mem'
  <2>1. UNCHANGED <<onDisk, mem>>
    <3>. USE <1>1 DEF IInv, TypeOK, Running, onDisk
    <3>1. ASSUME NEW q \in Procs, OpStep(q) PROVE UNCHANGED <<onDisk, mem>>
      <4>1. CASE q = p
        BY <3>1, <4>1 DEF OpStep, BeginOp, BeginSleep, Modify, LogCheck, LogAppend, EndOp,
           EndLast, WriteLog, WriteHead, CommitInstall, CommitClear, Finish
      <4>2. CASE q # p /\ pc'[p] = pc[p]
        BY <4>2
      <4>3. CASE q # p /\ pc'[p] # pc[p]
        BY <3>1, <4>3 DEF OpStep, BeginOp, BeginSleep, Modify, LogCheck, LogAppend, EndOp,
           EndLast, WriteLog, WriteHead, CommitInstall, CommitClear, Finish, Woken, procVars
      <4>. QED  BY <4>1, <4>2, <4>3
    <3>2. ~Crash /\ ~UNCHANGED vars /\ ~BootStep
      BY DEF Crash, Booting, BootStep, ReadHead, RecoverInstall, RecoverClear, vars, procVars
    <3>. QED  BY <3>1, <3>2 DEF Next
  <2>2. mem = disk /\ Recovered = disk
    BY <1>1, RecoveredEmpty DEF IInv, PhaseInv, FinishInv
  <2>3. Recovered' = Recovered
    BY <2>1 DEF Recovered, onDisk
  <2>. QED  BY <2>1, <2>2, <2>3 DEF onDisk
<1>2. IInv /\ [Next]_vars =>
        [\A p \in Procs : pc[p] = "finish" /\ pc'[p] = "done" => Recovered' = mem']_vars
  BY <1>1
<1>. QED  BY Invariance, <1>2, PTL DEF Spec, DurableReturn

-----------------------------------------------------------------------------
(* Refinement. *)

(* What recovery leaves in commit() once the header is on disk, and without a header. *)
RecoveryKnown ==
  /\ (\E p \in Procs : pc[p] = "install") => Recovered = mem
  /\ dhead = <<>> => Recovered = disk

(* What recovery would make of the disk, by phase,                           *)
LEMMA RecoveredPhases == IInv => RecoveryKnown
BY RecoveredLog, RecoveredEmpty DEF IInv, PhaseInv, InstallInv, RecoveryKnown

(* and after a step.                                                         *)
LEMMA RecoveredPhasesNext == IInv' => RecoveryKnown'
BY RecoveredPhases, PTL

(* A step of the log that neither begins nor ends an operation nor writes to a buffer does  *)
(* not show, except the write of the header, by which all that was logged becomes stable.  *)
LEMMA AbstractStep ==
  ASSUME IInv, IInv', [Next]_vars PROVE [Abstract!DiskNext]_(Abstract!diskVars)
<1>. DEFINE Goal == [Abstract!DiskNext]_(Abstract!diskVars)
<1>. USE DEF IInv, TypeOK, Running, onDisk
<1>0. RecoveryKnown /\ RecoveryKnown' /\ PhaseInv /\ PhaseInv'
  BY RecoveredPhases, RecoveredPhasesNext
<1>a. ASSUME UNCHANGED <<View, Recovered, Open>> PROVE Goal
  BY <1>a DEF Abstract!diskVars
<1>b. ASSUME UNCHANGED onDisk PROVE Recovered' = Recovered
  BY <1>b DEF Recovered
<1>1. ASSUME NEW p \in Procs, BeginOp(p) PROVE Goal
  <2>1. p \notin Open /\ Open' = Open \cup {p}
    BY <1>1 DEF BeginOp, Open
  <2>2. UNCHANGED <<View, Recovered>>
    BY <1>1, <1>b DEF BeginOp, View
  <2>3. Abstract!DiskBegin(p)
    BY <2>1, <2>2 DEF Abstract!DiskBegin
  <2>. QED  BY <2>3 DEF Abstract!DiskNext
<1>2. ASSUME NEW p \in Procs, EndOp(p) \/ EndLast(p) PROVE Goal
  <2>1. p \in Open /\ Open' = Open \ {p}
    BY <1>2 DEF EndOp, EndLast, Woken, Open
  <2>2. UNCHANGED <<View, Recovered>>
    BY <1>2, <1>b DEF EndOp, EndLast, View
  <2>3. Abstract!DiskEnd(p)
    BY <2>1, <2>2 DEF Abstract!DiskEnd
  <2>. QED  BY <2>3 DEF Abstract!DiskNext
<1>3. ASSUME NEW p \in Procs, NEW b \in Blocks, NEW v \in Vals, Modify(p, b, v) PROVE Goal
  <2>1. p \in Open /\ Open' = Open
    BY <1>3 DEF Modify, Open
  <2>2. Recovered' = Recovered /\ View' = [View EXCEPT ![b] = v]
    BY <1>3, <1>b DEF Modify, View
  <2>3. Abstract!DiskWrite(p, b, v)
    BY <2>1, <2>2 DEF Abstract!DiskWrite
  <2>. QED  BY <2>3 DEF Abstract!DiskNext
<1>4. ASSUME NEW p \in Procs, BeginSleep(p) \/ LogCheck(p) \/ LogAppend(p) \/ Finish(p)
      PROVE Goal
  <2>1. UNCHANGED <<onDisk, mem, boot>> /\ Open' = Open
    BY <1>4 DEF BeginSleep, LogCheck, LogAppend, Finish, Woken, Open
  <2>2. UNCHANGED <<View, Recovered>>
    BY <1>b, <2>1 DEF View
  <2>. QED  BY <1>a, <2>1, <2>2
<1>5. ASSUME NEW p \in Procs, WriteLog(p) PROVE Goal
  <2>1. dhead = <<>> /\ UNCHANGED <<disk, dhead, mem, boot, pc>> /\ boot = "up"
    BY <1>0, <1>5 DEF WriteLog, PhaseInv, WriteInv, procVars
  <2>2. UNCHANGED <<View, Recovered, Open>>
    BY <1>0, <2>1 DEF RecoveryKnown, View, Open
  <2>. QED  BY <1>a, <2>2
<1>6. ASSUME NEW p \in Procs, WriteHead(p) PROVE Goal
  <2>1. pc[p] = "write" /\ pc'[p] = "install" /\ UNCHANGED <<mem, boot>> /\ boot = "up"
    BY <1>6 DEF WriteHead
  <2>2. Recovered' = mem'
    BY <1>0, <2>1 DEF RecoveryKnown
  <2>3. Open = {} /\ Open' = Open
    <3>1. Open = {}
      BY <2>1, Phases DEF Commits
    <3>. QED  BY <1>6, <3>1 DEF WriteHead, Open
  <2>4. Abstract!DiskCommit
    BY <2>1, <2>2, <2>3 DEF Abstract!DiskCommit, View
  <2>. QED  BY <2>4 DEF Abstract!DiskNext
<1>7. ASSUME NEW p \in Procs, CommitInstall(p) PROVE Goal
  <2>1. pc[p] = "install" /\ UNCHANGED <<boot, pc, lh>> /\ InstallBlock /\ boot = "up"
    BY <1>7 DEF CommitInstall, InstallBlock, procVars, logVars
  <2>2. Recovered = mem /\ Recovered' = mem'
    BY <1>0, <2>1 DEF RecoveryKnown
  <2>3. Copied(Len(lh)) /\ Home
    BY <1>0, <2>1 DEF PhaseInv, InstallInv
  <2>. DEFINE c == lh[tail + 1]
  <2>4. mem' = mem
    <3>1. /\ c \in Blocks /\ mem'[c] = dlog[tail + 1] /\ tail + 1 \in 1 .. Len(lh)
          /\ \A b \in Blocks \ {c} : mem'[b] = mem[b]
      BY <2>1, <2>3, InstallKeeps, SMTT(30)
    <3>2. mem'[c] = mem[c]
      BY <2>3, <3>1 DEF Copied
    <3>. QED  BY <3>1, <3>2
  <2>5. UNCHANGED <<View, Recovered, Open>>
    BY <2>1, <2>2, <2>4 DEF View, Open
  <2>. QED  BY <1>a, <2>5
<1>8. ASSUME NEW p \in Procs, CommitClear(p) PROVE Goal
  <2>1. /\ pc[p] = "install" /\ pc'[p] = "finish" /\ boot = "up" /\ dhead' = <<>>
        /\ UNCHANGED <<boot, disk, mem>> /\ Open' = Open
    BY <1>8 DEF CommitClear, ClearHead, Open
  <2>2. Recovered = mem /\ Recovered' = disk'
    BY <1>0, <2>1 DEF RecoveryKnown
  <2>3. mem' = disk'
    BY <1>0, <2>1 DEF PhaseInv, FinishInv
  <2>4. UNCHANGED <<View, Recovered>>
    BY <2>1, <2>2, <2>3 DEF View
  <2>. QED  BY <1>a, <2>1, <2>4
<1>9. ASSUME ReadHead PROVE Goal
  <2>1. UNCHANGED <<onDisk, pc>> /\ boot # "up" /\ boot' # "up"
    BY <1>9 DEF ReadHead, procVars
  <2>2. UNCHANGED <<View, Recovered, Open>>
    BY <1>b, <2>1 DEF View, Open
  <2>. QED  BY <1>a, <2>2
<1>10. ASSUME RecoverInstall PROVE Goal
  <2>1. boot = "install" /\ boot' = boot /\ InstallBlock /\ UNCHANGED <<dhead, dlog, pc>>
    BY <1>10 DEF RecoverInstall, InstallBlock, procVars
  <2>2. lh = dhead /\ Home
    BY <1>0, <2>1 DEF PhaseInv, BootInv
  <2>3. \A b \in Blocks \ Entries(dhead) : disk'[b] = disk[b]
    <3>1. \A b \in Blocks \ {lh[tail + 1]} : disk'[b] = disk[b]
      BY <2>1, <2>2, InstallKeeps
    <3>2. lh[tail + 1] \in Entries(dhead)
      BY <2>1, <2>2, InstallKeeps DEF Entries
    <3>. QED  BY <3>1, <3>2
  <2>4. Recovered' = Recovered
    BY <2>1, <2>3 DEF Recovered
  <2>5. UNCHANGED <<View, Open>>
    BY <2>1, <2>4 DEF View, Open
  <2>. QED  BY <1>a, <2>4, <2>5
<1>11. ASSUME RecoverClear PROVE Goal
  <2>1. /\ boot = "install" /\ boot' = "up" /\ tail = Len(lh) /\ dhead' = <<>>
        /\ UNCHANGED <<disk, mem, pc>>
    BY <1>11 DEF RecoverClear, ClearHead, procVars
  <2>2. lh = dhead /\ mem = disk /\ Home
    BY <1>0, <2>1 DEF PhaseInv, BootInv
  <2>3. Copied(Len(lh)) /\ Clean
    BY <2>1, <2>2 DEF Copied, Clean, Home
  <2>4. Recovered = mem
    BY <1>0, <2>2, <2>3, RecoveredLog DEF PhaseInv
  <2>5. Recovered' = disk'
    BY <1>0, <2>1 DEF RecoveryKnown
  <2>6. UNCHANGED <<View, Recovered, Open>>
    BY <2>1, <2>2, <2>4, <2>5 DEF View, Open
  <2>. QED  BY <1>a, <2>6
<1>12. ASSUME Crash PROVE Goal
  <2>1. Recovered' = Recovered
    BY <1>12, <1>b DEF Crash
  <2>2. View' = Recovered' /\ Open' = {}
    BY <1>12 DEF Crash, Booting, View, Open
  <2>3. Abstract!DiskCrash
    BY <2>1, <2>2 DEF Abstract!DiskCrash
  <2>. QED  BY <2>3 DEF Abstract!DiskNext
<1>13. ASSUME UNCHANGED vars PROVE Goal
  BY <1>13, <1>a DEF vars, procVars, View, Recovered, Open
<1>. QED
  BY <1>1, <1>2, <1>3, <1>4, <1>5, <1>6, <1>7, <1>8, <1>9, <1>10, <1>11, <1>12, <1>13
     DEF Next, OpStep, BootStep

(* log.c keeps AtomicDisk's promise: what operations write becomes stable all at once, at   *)
(* the write of the header with none of them under way, and a crash restores exactly that.  *)
THEOREM Implementation == Spec => ImplementsAtomicDisk
<1>1. Init => Abstract!DiskInit
  <2>. SUFFICES ASSUME Init PROVE Abstract!DiskInit
    OBVIOUS
  <2>1. Recovered = disk
    BY InitIInv, RecoveredPhases DEF RecoveryKnown, Init
  <2>2. View = disk /\ Open = {} /\ disk \in [Blocks -> Vals]
    BY <2>1 DEF View, Open, Init
  <2>. QED  BY <2>1, <2>2 DEF Abstract!DiskInit
<1>2. IInv /\ IInv' /\ [Next]_vars => [Abstract!DiskNext]_(Abstract!diskVars)
  BY AbstractStep
<1>. QED  BY Invariance, <1>1, <1>2, PTL DEF Spec, ImplementsAtomicDisk, Abstract!DiskSpec

-----------------------------------------------------------------------------
(* lab10's emulated file system: its numbers *)

(* What the assumptions on the constants say. *)
LEMMA EmNumbers ==
  /\ MAX_INODES \in Nat \ {0} /\ MAX_BLOCKS \in Nat \ 0..2
  /\ BLOCKSIZE \in Nat \ {0} /\ MAX_FILE_SIZE \in Nat \ {0}
  /\ DirHandles \subseteq Nat /\ FileHandles \subseteq Nat
  /\ Inodes \subseteq Nat /\ 0 \in Inodes /\ -1 \notin Inodes
  /\ DataBlocks \subseteq Nat
BY EmufsAssumption DEF Inodes, DataBlocks

(* There are so many inodes and blocks. *)
LEMMA EmFinite ==
  /\ IsFiniteSet(Inodes) /\ Cardinality(Inodes) = MAX_INODES
  /\ IsFiniteSet(DataBlocks) /\ Cardinality(DataBlocks) = MAX_BLOCKS - 3
<1>1. /\ 0 \in Int /\ MAX_INODES - 1 \in Int /\ ~(0 > MAX_INODES - 1)
      /\ (MAX_INODES - 1) - 0 + 1 = MAX_INODES
  BY EmNumbers
<1>2. 3 \in Int /\ MAX_BLOCKS - 1 \in Int /\ MAX_BLOCKS >= 3
  BY EmNumbers
<1>3. IsFiniteSet(Inodes) /\ Cardinality(Inodes) = MAX_INODES
  BY <1>1, FS_Interval DEF Inodes
<1>4. IsFiniteSet(3..(MAX_BLOCKS - 1))
      /\ Cardinality(3..(MAX_BLOCKS - 1)) =
           IF 3 > MAX_BLOCKS - 1 THEN 0 ELSE (MAX_BLOCKS - 1) - 3 + 1
  BY <1>2, FS_Interval
<1>5. Cardinality(DataBlocks) = MAX_BLOCKS - 3
  <2>1. CASE 3 > MAX_BLOCKS - 1
    BY <1>2, <1>4, <2>1, EmNumbers DEF DataBlocks
  <2>2. CASE ~(3 > MAX_BLOCKS - 1)
    BY <1>2, <1>4, <2>2, EmNumbers DEF DataBlocks
  <2>. QED  BY <2>1, <2>2
<1>. QED  BY <1>3, <1>4, <1>5 DEF DataBlocks

(* A set of numbers that is not empty has a least one. *)
LEMMA LeastElement == ASSUME NEW T \in SUBSET Nat, T # {} PROVE \E n \in T : \A m \in T : n <= m
<1>1. PICK n \in T : \A m \in T : <<m, n>> \notin OpToRel(<, Nat)
  BY NatLessThanWellFounded, WFMin
<1>2. ASSUME NEW m \in T PROVE n <= m
  <2>1. <<m, n>> \in Nat \X Nat /\ <<m, n>>[1] = m /\ <<m, n>>[2] = n
    OBVIOUS
  <2>2. ~(m < n)
    BY <1>1, <2>1 DEF OpToRel
  <2>. QED  BY <2>2
<1>. QED  BY <1>2

(* Induction, over a set instead of a predicate. *)
LEMMA SetInduction ==
  ASSUME NEW A, 0 \in A, \A n \in Nat : n \in A => n + 1 \in A
  PROVE Nat \subseteq A
<1>. DEFINE T == Nat \ A
<1>1. SUFFICES ASSUME T # {} PROVE FALSE
  OBVIOUS
<1>2. PICK n \in T : \A m \in T : n <= m
  BY <1>1, LeastElement
<1>3. n # 0 /\ n \in Nat /\ n - 1 \in Nat
  BY <1>2
<1>4. n - 1 \in A
  BY <1>2, <1>3
<1>. QED  BY <1>2, <1>3, <1>4

(* alloc_inode() and the allocation of handles find one that is free. *)
LEMMA FirstFreeIn == ASSUME NEW S \in SUBSET Nat, S # {} PROVE FirstFree(S) \in S
<1>1. \E x \in S : \A y \in S : x <= y
  BY LeastElement
<1>. QED  BY <1>1 DEF FirstFree

-----------------------------------------------------------------------------
(* Looking up *)

(* The walk along a path is what its recursive definition says. *)
WalkFrom(i, path, f) ==
  f = [n \in 0..Len(path.parts) |->
         IF n = 0 THEN IF path.abs THEN 0 ELSE i
         ELSE PathStep(f[n - 1], path.parts[n])]

(* There is such a walk along every path. *)
LEMMA WalkExists == ASSUME NEW i, NEW path, Len(path.parts) \in Nat PROVE \E f : WalkFrom(i, path, f)
<1>. DEFINE start == IF path.abs THEN 0 ELSE i
            Follows(f, m) ==
              f = [n \in 0..m |-> IF n = 0 THEN start ELSE PathStep(f[n - 1], path.parts[n])]
            A == {m \in Nat : \E f : Follows(f, m)}
<1>1. 0 \in A
  <2>1. Follows([n \in 0..0 |-> start], 0)
    OBVIOUS
  <2>. QED  BY <2>1
<1>2. ASSUME NEW m \in Nat, m \in A PROVE m + 1 \in A
  <2>1. PICK f : Follows(f, m)
    BY <1>2
  <2>. DEFINE g == [n \in 0..(m + 1) |->
                      IF n = m + 1 THEN PathStep(f[m], path.parts[m + 1]) ELSE f[n]]
  <2>2. ASSUME NEW n \in 0..(m + 1)
        PROVE g[n] = IF n = 0 THEN start ELSE PathStep(g[n - 1], path.parts[n])
    <3>1. CASE n = m + 1
      BY <3>1
    <3>2. CASE n \in 1..m
      <4>1. f[n] = IF n = 0 THEN start ELSE PathStep(f[n - 1], path.parts[n])
        <5>1. n \in 0..m
          BY <3>2
        <5>. QED  BY <2>1, <5>1, Zenon
      <4>2. f[n] = PathStep(f[n - 1], path.parts[n])
        BY <3>2, <4>1
      <4>3. g[n] = f[n] /\ g[n - 1] = f[n - 1] /\ n # 0
        BY <3>2
      <4>. HIDE DEF g, Follows, start
      <4>. QED  BY <4>2, <4>3
    <3>3. CASE n = 0
      BY <2>1, <3>3
    <3>. QED  BY <3>1, <3>2, <3>3
  <2>3. Follows(g, m + 1)
    BY <2>2
  <2>. HIDE DEF Follows, g
  <2>. QED  BY <2>3
<1>3. Len(path.parts) \in A
  <2>. HIDE DEF A
  <2>. QED  BY <1>1, <1>2, SetInduction
<1>. QED  BY <1>3 DEF WalkFrom

(* return_inode() gives where it ends. *)
LEMMA WalkEnd ==
  ASSUME NEW i, NEW path, Len(path.parts) \in Nat
  PROVE  \E f : WalkFrom(i, path, f) /\ return_inode(i, path) = f[Len(path.parts)]
<1>. DEFINE f == CHOOSE g : WalkFrom(i, path, g)
<1>1. WalkFrom(i, path, f)
  BY WalkExists
<1>2. return_inode(i, path) = f[Len(path.parts)]
  BY DEF return_inode, WalkFrom
<1>. QED  BY <1>1, <1>2

-----------------------------------------------------------------------------
(* What is below an inode, whatever the inodes are. *)

(* The layers that the recursion of delete_entity() adds one after the other. *)
Layers(nodes, i, f) ==
  f = [n \in 0..MAX_INODES |->
         IF n = 0 THEN {i}
         ELSE f[n - 1] \cup UNION {Range(nodes[j].mappings) :
                                     j \in {k \in f[n - 1] : nodes[k].type = "dir"}}]

(* What the last of them has reached. *)
Under(nodes, i) == (CHOOSE f : Layers(nodes, i, f))[MAX_INODES]

(* What the directories of S name. *)
Children(nodes, S) == UNION {Range(nodes[j].mappings) : j \in {k \in S : nodes[k].type = "dir"}}

(* Below is Under, for the inodes as they are. *)
LEMMA BelowIsUnder == \A i : Below(i) = Under(inodes, i)
BY DEF Below, Under, Layers

(* There are such layers, whatever the inodes are. *)
LEMMA LayersExist == ASSUME NEW nodes, NEW i PROVE \E f : Layers(nodes, i, f)
<1>. DEFINE Follows(f, m) ==
              f = [n \in 0..m |-> IF n = 0 THEN {i} ELSE f[n - 1] \cup Children(nodes, f[n - 1])]
            A == {m \in Nat : \E f : Follows(f, m)}
<1>1. 0 \in A
  <2>1. Follows([n \in 0..0 |-> {i}], 0)
    OBVIOUS
  <2>. QED  BY <2>1
<1>2. ASSUME NEW m \in Nat, m \in A PROVE m + 1 \in A
  <2>1. PICK f : Follows(f, m)
    BY <1>2
  <2>. DEFINE g == [n \in 0..(m + 1) |->
                      IF n = m + 1 THEN f[m] \cup Children(nodes, f[m]) ELSE f[n]]
  <2>2. ASSUME NEW n \in 0..(m + 1)
        PROVE g[n] = IF n = 0 THEN {i} ELSE g[n - 1] \cup Children(nodes, g[n - 1])
    <3>1. CASE n = m + 1
      BY <3>1
    <3>2. CASE n \in 1..m
      <4>0. f[n] = IF n = 0 THEN {i} ELSE f[n - 1] \cup Children(nodes, f[n - 1])
        <5>1. n \in 0..m
          BY <3>2
        <5>. QED  BY <2>1, <5>1, Zenon
      <4>1. f[n] = f[n - 1] \cup Children(nodes, f[n - 1])
        BY <3>2, <4>0
      <4>2. g[n] = f[n] /\ g[n - 1] = f[n - 1] /\ n # 0
        BY <3>2
      <4>. HIDE DEF g, Follows
      <4>. QED  BY <4>1, <4>2
    <3>3. CASE n = 0
      BY <2>1, <3>3
    <3>. QED  BY <3>1, <3>2, <3>3
  <2>3. Follows(g, m + 1)
    BY <2>2
  <2>. HIDE DEF Follows, g
  <2>. QED  BY <2>3
<1>3. MAX_INODES \in A
  <2>. HIDE DEF A
  <2>. QED  BY <1>1, <1>2, SetInduction, EmNumbers
<1>. QED  BY <1>3 DEF Layers, Children

(* The layers f of what is under i. *)
Layered(nodes, i, f) ==
  /\ f[0] = {i}
  /\ \A n \in Nat : n < MAX_INODES => f[n + 1] = f[n] \cup Children(nodes, f[n])
  /\ Under(nodes, i) = f[MAX_INODES]

(* The subtree is the last of its layers. *)
LEMMA UnderDef == ASSUME NEW nodes, NEW i PROVE \E f : Layered(nodes, i, f)
<1>. DEFINE f == CHOOSE g : Layers(nodes, i, g)
<1>1. Layers(nodes, i, f)
  BY LayersExist
<1>. HIDE DEF f
<1>2. \A n \in 0..MAX_INODES : f[n] = IF n = 0 THEN {i} ELSE f[n - 1] \cup Children(nodes, f[n - 1])
  BY <1>1 DEF Layers, Children
<1>3. f[0] = {i}
  <2>1. 0 \in 0..MAX_INODES
    BY EmNumbers
  <2>. QED  BY <1>2, <2>1, Zenon
<1>4. ASSUME NEW n \in Nat, n < MAX_INODES PROVE f[n + 1] = f[n] \cup Children(nodes, f[n])
  <2>1. n + 1 \in 0..MAX_INODES /\ n + 1 # 0 /\ (n + 1) - 1 = n
    BY <1>4, EmNumbers
  <2>2. f[n + 1] = IF n + 1 = 0 THEN {i}
                   ELSE f[(n + 1) - 1] \cup Children(nodes, f[(n + 1) - 1])
    BY <1>2, <2>1, Zenon
  <2>. QED  BY <2>1, <2>2
<1>5. Under(nodes, i) = f[MAX_INODES]
  BY DEF Under, f
<1>. QED  BY <1>3, <1>4, <1>5 DEF Layered

(* S holds whatever its directories name. *)
Whole(nodes, S) == \A j \in S : nodes[j].type = "dir" => Range(nodes[j].mappings) \subseteq S

(* In other words: it holds its children. *)
LEMMA WholeChildren ==
  ASSUME NEW nodes, NEW S PROVE Whole(nodes, S) <=> Children(nodes, S) \subseteq S
BY DEF Whole, Children

(* An inode is in its subtree. *)
LEMMA UnderTop == ASSUME NEW nodes, NEW i PROVE i \in Under(nodes, i)
<1>1. PICK f : Layered(nodes, i, f)
  BY UnderDef
<1>. USE DEF Layered
<1>. DEFINE A == {n \in Nat : n <= MAX_INODES => i \in f[n]}
<1>2. 0 \in A
  BY <1>1, EmNumbers
<1>3. ASSUME NEW n \in Nat, n \in A PROVE n + 1 \in A
  <2>1. SUFFICES ASSUME n + 1 <= MAX_INODES PROVE i \in f[n + 1]
    OBVIOUS
  <2>2. f[n + 1] = f[n] \cup Children(nodes, f[n])
    BY <1>1, <2>1, EmNumbers
  <2>3. i \in f[n]
    BY <1>3, <2>1, EmNumbers
  <2>. QED  BY <2>2, <2>3
<1>4. MAX_INODES \in A
  <2>. HIDE DEF A
  <2>. QED  BY <1>2, <1>3, SetInduction, EmNumbers
<1>. QED  BY <1>1, <1>4, EmNumbers

(* The subtree is in every whole set that holds its top. *)
LEMMA UnderLeast ==
  ASSUME NEW nodes, NEW i, NEW S, i \in S, Whole(nodes, S) PROVE Under(nodes, i) \subseteq S
<1>1. PICK f : Layered(nodes, i, f)
  BY UnderDef
<1>. USE DEF Layered
<1>. DEFINE A == {n \in Nat : n <= MAX_INODES => f[n] \subseteq S}
<1>2. 0 \in A
  BY <1>1, EmNumbers
<1>3. ASSUME NEW n \in Nat, n \in A PROVE n + 1 \in A
  <2>1. SUFFICES ASSUME n + 1 <= MAX_INODES PROVE f[n + 1] \subseteq S
    OBVIOUS
  <2>2. f[n + 1] = f[n] \cup Children(nodes, f[n])
    BY <1>1, <2>1, EmNumbers
  <2>3. f[n] \subseteq S
    BY <1>3, <2>1, EmNumbers
  <2>4. Children(nodes, f[n]) \subseteq S
    BY <2>3 DEF Whole, Children
  <2>. QED  BY <2>2, <2>3, <2>4
<1>4. MAX_INODES \in A
  <2>. HIDE DEF A
  <2>. QED  BY <1>2, <1>3, SetInduction, EmNumbers
<1>. QED  BY <1>1, <1>4, EmNumbers

(* It is whole itself: a layer that adds nothing is whole, and there are not *)
(* inodes enough for each of MAX_INODES layers to add one.                   *)
LEMMA UnderWhole ==
  ASSUME NEW nodes, NEW i \in Inodes, Whole(nodes, Inodes) PROVE Whole(nodes, Under(nodes, i))
<1>1. PICK f : Layered(nodes, i, f)
  BY UnderDef
<1>. USE DEF Layered
<1>. DEFINE Grown(n) == f[n] \subseteq Inodes /\ (Whole(nodes, f[n]) \/ Cardinality(f[n]) >= n + 1)
            A == {n \in Nat : n <= MAX_INODES => Grown(n)}
<1>2. 0 \in A
  <2>1. f[0] = {i}
    BY <1>1, EmNumbers
  <2>2. Cardinality({i}) = 1
    BY FS_Singleton
  <2>. QED  BY <2>1, <2>2
<1>3. ASSUME NEW n \in Nat, n \in A PROVE n + 1 \in A
  <2>1. SUFFICES ASSUME n + 1 <= MAX_INODES PROVE Grown(n + 1)
    OBVIOUS
  <2>2. f[n + 1] = f[n] \cup Children(nodes, f[n])
    BY <1>1, <2>1, EmNumbers
  <2>3. Grown(n)
    BY <1>3, <2>1, EmNumbers
  <2>4. Children(nodes, f[n]) \subseteq Inodes
    BY <2>3 DEF Whole, Children
  <2>5. f[n + 1] \subseteq Inodes
    BY <2>2, <2>3, <2>4
  <2>6. CASE Children(nodes, f[n]) \subseteq f[n]
    <3>1. f[n + 1] = f[n]
      BY <2>2, <2>6
    <3>2. Whole(nodes, f[n])
      BY <2>6, WholeChildren
    <3>. QED  BY <2>5, <3>1, <3>2
  <2>7. CASE ~(Children(nodes, f[n]) \subseteq f[n])
    <3>1. ~Whole(nodes, f[n])
      BY <2>7, WholeChildren
    <3>2. Cardinality(f[n]) >= n + 1
      BY <2>3, <3>1
    <3>3. f[n] \in SUBSET f[n + 1] /\ f[n] # f[n + 1]
      BY <2>2, <2>7
    <3>4. IsFiniteSet(f[n + 1])
      BY <2>5, EmFinite, FS_Subset
    <3>5. Cardinality(f[n]) <= Cardinality(f[n + 1]) /\ Cardinality(f[n]) # Cardinality(f[n + 1])
          /\ IsFiniteSet(f[n])
      BY <3>3, <3>4, FS_Subset
    <3>6. Cardinality(f[n]) \in Nat /\ Cardinality(f[n + 1]) \in Nat
      BY <3>4, <3>5, FS_CardinalityType
    <3>7. Cardinality(f[n + 1]) >= (n + 1) + 1
      BY <3>2, <3>5, <3>6
    <3>. QED  BY <2>5, <3>7
  <2>. QED  BY <2>6, <2>7
<1>4. MAX_INODES \in A
  <2>. HIDE DEF A
  <2>. QED  BY <1>2, <1>3, SetInduction, EmNumbers
<1>5. Grown(MAX_INODES)
  BY <1>4, EmNumbers
<1>6. f[MAX_INODES] \in SUBSET Inodes
  BY <1>5
<1>7. Cardinality(f[MAX_INODES]) <= MAX_INODES
  BY <1>6, EmFinite, FS_Subset
<1>8. Cardinality(f[MAX_INODES]) \in Nat
  BY <1>6, EmFinite, FS_Subset, FS_CardinalityType
<1>9. Whole(nodes, f[MAX_INODES])
  BY <1>5, <1>7, <1>8, EmNumbers
<1>. QED  BY <1>1, <1>9

(* The data blocks that are free. *)
Free == DataBlocks \ block_bitmap

(* alloc_datablock() gives the free blocks one after the other, each once. *)
LEMMA FreeBlocksOnce ==
  /\ Cardinality(Free) \in Nat /\ IsFiniteSet(Free)
  /\ FreeBlockSeq \in Seq(Free) /\ Len(FreeBlockSeq) = Cardinality(Free)
  /\ IsInjective(FreeBlockSeq)
<1>. DEFINE N == Cardinality(Free)
            Before(b) == {c \in Free : c < b}
            rank == [b \in Free |-> Cardinality(Before(b))]
<1>1. Free \subseteq Nat /\ Free \in SUBSET DataBlocks
  BY EmNumbers DEF Free
<1>2. IsFiniteSet(Free) /\ N \in Nat
  BY <1>1, EmFinite, FS_Subset, FS_CardinalityType
<1>3. ASSUME NEW b \in Free
      PROVE  Before(b) \in SUBSET Free /\ IsFiniteSet(Before(b)) /\ Cardinality(Before(b)) \in Nat
  <2>1. Before(b) \in SUBSET Free
    OBVIOUS
  <2>. HIDE DEF Before
  <2>. QED  BY <1>2, <2>1, FS_Subset, FS_CardinalityType
<1>4. ASSUME NEW b \in Free PROVE Cardinality(Before(b)) \in 0..(N - 1)
  <2>1. b \notin Before(b)
    BY <1>1
  <2>2. Before(b) # Free
    BY <2>1
  <2>3. Cardinality(Before(b)) <= N /\ Cardinality(Before(b)) # N
    <3>. HIDE DEF Before
    <3>. QED  BY <1>2, <1>3, <2>2, FS_Subset
  <2>. QED  BY <1>2, <1>3, <2>3
<1>5. ASSUME NEW b \in Free, NEW c \in Free, b < c PROVE Cardinality(Before(b)) < Cardinality(Before(c))
  <2>1. ASSUME NEW x \in Before(b) PROVE x \in Before(c)
    <3>1. x \in Nat /\ b \in Nat /\ c \in Nat /\ x < b /\ x \in Free
      BY <1>1
    <3>. QED  BY <1>5, <3>1
  <2>2. b \notin Before(b) /\ b \in Before(c)
    BY <1>1, <1>5
  <2>3. Before(b) \in SUBSET Before(c) /\ Before(b) # Before(c)
    BY <2>1, <2>2
  <2>4. Cardinality(Before(b)) <= Cardinality(Before(c))
        /\ Cardinality(Before(b)) # Cardinality(Before(c))
    <3>. HIDE DEF Before
    <3>. QED  BY <1>3, <2>3, FS_Subset
  <2>. QED  BY <1>3, <2>4
<1>6. rank \in Injection(Free, 0..(N - 1))
  <2>1. rank \in [Free -> 0..(N - 1)]
    BY <1>4
  <2>2. ASSUME NEW b \in Free, NEW c \in Free, rank[b] = rank[c] PROVE b = c
    <3>1. Cardinality(Before(b)) = Cardinality(Before(c))
      BY <2>2
    <3>2. ~(b < c) /\ ~(c < b)
      <4>. HIDE DEF Before
      <4>. QED  BY <1>3, <1>5, <3>1
    <3>. QED  BY <1>1, <3>2
  <2>3. \A b, c \in DOMAIN rank : rank[b] = rank[c] => b = c
    <3>1. DOMAIN rank = Free
      OBVIOUS
    <3>. QED  BY <2>2, <3>1
  <2>. HIDE DEF rank
  <2>. QED  BY <2>1, <2>3 DEF Injection, IsInjective
<1>7. IsFiniteSet(0..(N - 1)) /\ Cardinality(0..(N - 1)) = N
  <2>1. 0 \in Int /\ N - 1 \in Int
    BY <1>2
  <2>2. IsFiniteSet(0..(N - 1)) /\ Cardinality(0..(N - 1)) = IF 0 > N - 1 THEN 0 ELSE (N - 1) - 0 + 1
    <3>. HIDE DEF N
    <3>. QED  BY <2>1, FS_Interval
  <2>. QED  BY <1>2, <2>2
<1>8. rank \in Surjection(Free, 0..(N - 1))
  <2>. HIDE DEF rank
  <2>. QED  BY <1>6, <1>7, FS_Injection
<1>9. ASSUME NEW n \in 1..N
      PROVE  /\ FreeBlockSeq[n] \in Free
             /\ Cardinality({c \in Free : c < FreeBlockSeq[n]}) = n - 1
  <2>1. n - 1 \in 0..(N - 1)
    BY <1>2
  <2>2. PICK b \in Free : rank[b] = n - 1
    <3>. HIDE DEF rank
    <3>. QED  BY <1>8, <2>1 DEF Surjection
  <2>3. Cardinality({c \in Free : c < b}) = n - 1
    BY <2>2
  <2>4. FreeBlockSeq[n] = CHOOSE d \in Free : Cardinality({c \in Free : c < d}) = n - 1
    BY DEF FreeBlockSeq, Free
  <2>. QED  BY <2>3, <2>4
<1>10. FreeBlockSeq \in [1..N -> Free]
  <2>. DEFINE e(n) == CHOOSE b \in Free : Cardinality({c \in Free : c < b}) = n - 1
  <2>1. FreeBlockSeq = [n \in 1..N |-> e(n)]
    BY DEF FreeBlockSeq, Free
  <2>. HIDE DEF e
  <2>2. \A n \in 1..N : e(n) \in Free
    BY <1>9, <2>1
  <2>. QED  BY <2>1, <2>2
<1>11. FreeBlockSeq \in Seq(Free) /\ Len(FreeBlockSeq) = N /\ DOMAIN FreeBlockSeq = 1..N
  <2>. HIDE DEF N
  <2>. QED  BY <1>2, <1>10
<1>12. ASSUME NEW m \in 1..N, NEW n \in 1..N, FreeBlockSeq[m] = FreeBlockSeq[n] PROVE m = n
  <2>1. m - 1 = n - 1
    BY <1>9, <1>12
  <2>. QED  BY <2>1
<1>13. IsInjective(FreeBlockSeq)
  BY <1>11, <1>12 DEF IsInjective
<1>. QED  BY <1>2, <1>11, <1>13

-----------------------------------------------------------------------------
(* Sequences *)

(* A sequence without one of its elements. *)
LEMMA Removed ==
  ASSUME NEW S, NEW m \in Seq(S), IsInjective(m), NEW k \in DOMAIN m
  PROVE  /\ RemoveAt(m, k) \in Seq(S)
         /\ Len(RemoveAt(m, k)) = Len(m) - 1
         /\ Range(RemoveAt(m, k)) = Range(m) \ {m[k]}
         /\ IsInjective(RemoveAt(m, k))
<1>. DEFINE r == RemoveAt(m, k)
            old(n) == IF n < k THEN n ELSE n + 1
            p == SubSeq(m, 1, k - 1)
            q == SubSeq(m, k + 1, Len(m))
<1>1. k \in 1..Len(m) /\ DOMAIN m = 1..Len(m) /\ Len(m) \in Nat /\ \A n \in 1..Len(m) : m[n] \in S
  OBVIOUS
<1>2. /\ p \in Seq(S) /\ Len(p) = k - 1 /\ \A n \in 1..(k - 1) : p[n] = m[n]
  <2>1. 1 \in Int /\ k - 1 \in Int /\ \A n \in 1..(k - 1) : m[n] \in S
    BY <1>1
  <2>2. /\ p \in Seq(S) /\ Len(p) = IF 1 <= k - 1 THEN (k - 1) - 1 + 1 ELSE 0
        /\ \A n \in 1..((k - 1) - 1 + 1) : p[n] = m[1 + n - 1]
    BY <2>1, SubSeqProperties
  <2>. HIDE DEF p
  <2>3. Len(p) = k - 1 /\ \A n \in 1..(k - 1) : n \in 1..((k - 1) - 1 + 1) /\ 1 + n - 1 = n
    BY <1>1, <2>2
  <2>. QED  BY <2>2, <2>3
<1>3. /\ q \in Seq(S) /\ Len(q) = Len(m) - k /\ \A n \in 1..(Len(m) - k) : q[n] = m[n + k]
  <2>1. k + 1 \in Int /\ Len(m) \in Int /\ \A n \in (k + 1)..Len(m) : m[n] \in S
    BY <1>1
  <2>2. /\ q \in Seq(S) /\ Len(q) = IF k + 1 <= Len(m) THEN Len(m) - (k + 1) + 1 ELSE 0
        /\ \A n \in 1..(Len(m) - (k + 1) + 1) : q[n] = m[(k + 1) + n - 1]
    BY <2>1, SubSeqProperties
  <2>. HIDE DEF q
  <2>3. Len(q) = Len(m) - k
    BY <1>1, <2>2
  <2>4. \A n \in 1..(Len(m) - k) : n \in 1..(Len(m) - (k + 1) + 1) /\ (k + 1) + n - 1 = n + k
    BY <1>1
  <2>. QED  BY <2>2, <2>3, <2>4
<1>a. r = p \o q
  BY DEF RemoveAt
<1>. HIDE DEF p, q, r
<1>b. /\ p \o q \in Seq(S) /\ Len(p \o q) = Len(p) + Len(q)
      /\ \A n \in 1..(Len(p) + Len(q)) : (p \o q)[n] = IF n <= Len(p) THEN p[n] ELSE q[n - Len(p)]
  BY <1>2, <1>3, ConcatProperties
<1>4. r \in Seq(S) /\ Len(r) = Len(m) - 1 /\ DOMAIN r = 1..(Len(m) - 1)
  <2>1. r \in Seq(S) /\ Len(r) = Len(m) - 1
    BY <1>1, <1>2, <1>3, <1>a, <1>b
  <2>2. DOMAIN r = 1..Len(r)
    BY <2>1
  <2>. QED  BY <2>1, <2>2
<1>5. ASSUME NEW n \in 1..(Len(m) - 1) PROVE r[n] = m[old(n)]
  <2>1. r[n] = IF n <= k - 1 THEN p[n] ELSE q[n - (k - 1)]
    <3>1. n \in 1..(Len(p) + Len(q))
      BY <1>1, <1>2, <1>3
    <3>2. r[n] = IF n <= Len(p) THEN p[n] ELSE q[n - Len(p)]
      BY <1>a, <1>b, <3>1, Zenon
    <3>. QED  BY <1>2, <3>2
  <2>2. CASE n < k
    <3>1. n <= k - 1 /\ n \in 1..(k - 1)
      BY <1>1, <2>2
    <3>. QED  BY <1>2, <2>1, <2>2, <3>1
  <2>3. CASE ~(n < k)
    <3>1. ~(n <= k - 1) /\ n - (k - 1) \in 1..(Len(m) - k) /\ n - (k - 1) + k = n + 1
      BY <1>1, <2>3
    <3>2. q[n - (k - 1)] = m[n + 1]
      BY <1>3, <3>1
    <3>. QED  BY <2>1, <2>3, <3>1, <3>2
  <2>. QED  BY <2>2, <2>3
<1>6. ASSUME NEW n \in 1..(Len(m) - 1) PROVE old(n) \in DOMAIN m /\ old(n) # k
  BY <1>1
<1>7. ASSUME NEW x \in DOMAIN m, x # k PROVE \E n \in 1..(Len(m) - 1) : old(n) = x
  <2>1. CASE x < k
    <3>1. x \in 1..(Len(m) - 1) /\ old(x) = x
      BY <1>1, <2>1
    <3>. QED  BY <3>1
  <2>2. CASE ~(x < k)
    <3>1. x - 1 \in 1..(Len(m) - 1) /\ old(x - 1) = x
      BY <1>1, <1>7, <2>2
    <3>. QED  BY <3>1
  <2>. QED  BY <2>1, <2>2
<1>8. ASSUME NEW a \in 1..(Len(m) - 1), NEW b \in 1..(Len(m) - 1), old(a) = old(b) PROVE a = b
  BY <1>1, <1>8
<1>. HIDE DEF r, old
<1>9. Range(r) = Range(m) \ {m[k]}
  <2>1. ASSUME NEW y \in Range(r) PROVE y \in Range(m) \ {m[k]}
    <3>1. PICK n \in 1..(Len(m) - 1) : r[n] = y
      BY <1>4, <2>1 DEF Range
    <3>2. y = m[old(n)] /\ old(n) \in DOMAIN m /\ old(n) # k
      BY <1>5, <1>6, <3>1
    <3>. QED  BY <3>2 DEF Range, IsInjective
  <2>2. ASSUME NEW y \in Range(m) \ {m[k]} PROVE y \in Range(r)
    <3>1. PICK x \in DOMAIN m : m[x] = y /\ x # k
      BY <2>2 DEF Range
    <3>2. PICK n \in 1..(Len(m) - 1) : old(n) = x
      BY <1>7, <3>1
    <3>3. r[n] = y /\ n \in DOMAIN r
      BY <1>4, <1>5, <3>1, <3>2
    <3>. QED  BY <3>3 DEF Range
  <2>. QED  BY <2>1, <2>2
<1>10. IsInjective(r)
  <2>1. ASSUME NEW a \in DOMAIN r, NEW b \in DOMAIN r, r[a] = r[b] PROVE a = b
    <3>1. a \in 1..(Len(m) - 1) /\ b \in 1..(Len(m) - 1)
      BY <1>4
    <3>2. m[old(a)] = m[old(b)] /\ old(a) \in DOMAIN m /\ old(b) \in DOMAIN m
      BY <1>5, <1>6, <2>1, <3>1
    <3>3. old(a) = old(b)
      BY <3>2 DEF IsInjective
    <3>. QED  BY <1>8, <3>1, <3>3
  <2>. QED  BY <2>1 DEF IsInjective
<1>. QED  BY <1>4, <1>9, <1>10 DEF r

(* Two sequences without a common element, one after the other. *)
LEMMA Joined ==
  ASSUME NEW S, NEW m \in Seq(S), NEW n \in Seq(S), IsInjective(m), IsInjective(n),
         Range(m) \cap Range(n) = {}
  PROVE  /\ m \o n \in Seq(S) /\ Len(m \o n) = Len(m) + Len(n)
         /\ Range(m \o n) = Range(m) \cup Range(n)
         /\ IsInjective(m \o n)
         /\ \A x \in DOMAIN m : x \in DOMAIN (m \o n) /\ (m \o n)[x] = m[x]
<1>. DEFINE s == m \o n
<1>1. /\ s \in Seq(S) /\ Len(m) \in Nat /\ Len(n) \in Nat /\ Len(s) = Len(m) + Len(n)
      /\ DOMAIN s = 1..(Len(m) + Len(n)) /\ DOMAIN m = 1..Len(m) /\ DOMAIN n = 1..Len(n)
  OBVIOUS
<1>2. /\ \A x \in 1..Len(m) : s[x] = m[x]
      /\ \A x \in 1..Len(n) : s[Len(m) + x] = n[x]
  OBVIOUS
<1>. HIDE DEF s
<1>3. ASSUME NEW x \in DOMAIN s PROVE x \in DOMAIN m \/ \E y \in DOMAIN n : x = Len(m) + y
  <2>1. CASE x <= Len(m)
    BY <1>1, <2>1
  <2>2. CASE ~(x <= Len(m))
    <3>1. x - Len(m) \in DOMAIN n /\ x = Len(m) + (x - Len(m))
      BY <1>1, <2>2
    <3>. QED  BY <3>1
  <2>. QED  BY <2>1, <2>2
<1>4. /\ \A x \in DOMAIN m : x \in DOMAIN s
      /\ \A y \in DOMAIN n : Len(m) + y \in DOMAIN s
  BY <1>1
<1>5. Range(s) = Range(m) \cup Range(n)
  <2>1. ASSUME NEW z \in Range(s) PROVE z \in Range(m) \cup Range(n)
    BY <1>1, <1>2, <1>3 DEF Range
  <2>2. ASSUME NEW z \in Range(m) PROVE z \in Range(s)
    BY <1>1, <1>2, <1>4 DEF Range
  <2>3. ASSUME NEW z \in Range(n) PROVE z \in Range(s)
    <3>1. PICK y \in DOMAIN n : n[y] = z
      BY DEF Range
    <3>. QED  BY <1>1, <1>2, <1>4, <3>1 DEF Range
  <2>. QED  BY <2>1, <2>2, <2>3
<1>6. ASSUME NEW a \in DOMAIN s, NEW b \in DOMAIN s, s[a] = s[b] PROVE a = b
  <2>1. CASE a \in DOMAIN m /\ b \in DOMAIN m
    BY <1>1, <1>2, <1>6, <2>1 DEF IsInjective
  <2>2. CASE a \in DOMAIN m /\ b \notin DOMAIN m
    <3>1. s[a] \in Range(m)
      BY <1>1, <1>2, <2>2 DEF Range
    <3>2. PICK y \in DOMAIN n : b = Len(m) + y
      BY <1>3, <2>2
    <3>3. s[b] \in Range(n)
      BY <1>1, <1>2, <3>2 DEF Range
    <3>. QED  BY <1>6, <3>1, <3>3
  <2>3. CASE a \notin DOMAIN m /\ b \in DOMAIN m
    <3>1. s[b] \in Range(m)
      BY <1>1, <1>2, <2>3 DEF Range
    <3>2. PICK y \in DOMAIN n : a = Len(m) + y
      BY <1>3, <2>3
    <3>3. s[a] \in Range(n)
      BY <1>1, <1>2, <3>2 DEF Range
    <3>. QED  BY <1>6, <3>1, <3>3
  <2>4. CASE a \notin DOMAIN m /\ b \notin DOMAIN m
    BY <1>1, <1>2, <1>3, <1>6, <2>4 DEF IsInjective
  <2>. QED  BY <2>1, <2>2, <2>3, <2>4
<1>7. IsInjective(s)
  BY <1>6 DEF IsInjective
<1>8. \A x \in DOMAIN m : x \in DOMAIN s /\ s[x] = m[x]
  BY <1>1, <1>2, <1>4
<1>. QED  BY <1>1, <1>5, <1>7, <1>8 DEF s

(* The first elements of a sequence. *)
LEMMA Prefix ==
  ASSUME NEW S, NEW m \in Seq(S), IsInjective(m), NEW k \in 0..Len(m)
  PROVE  /\ SubSeq(m, 1, k) \in Seq(S) /\ Len(SubSeq(m, 1, k)) = k
         /\ IsInjective(SubSeq(m, 1, k)) /\ Range(SubSeq(m, 1, k)) \subseteq S
<1>. DEFINE s == SubSeq(m, 1, k)
<1>1. s \in Seq(S) /\ Len(s) = k /\ DOMAIN s = 1..k /\ \A x \in 1..k : s[x] = m[x] /\ x \in DOMAIN m
  OBVIOUS
<1>. HIDE DEF s
<1>2. IsInjective(s)
  BY <1>1 DEF IsInjective
<1>3. Range(s) \subseteq S
  BY <1>1 DEF Range
<1>. QED  BY <1>1, <1>2, <1>3 DEF s

(* A new last element. *)
LEMMA Appended ==
  ASSUME NEW S, NEW m \in Seq(S), NEW x \in S
  PROVE  /\ Append(m, x) \in Seq(S) /\ Len(Append(m, x)) = Len(m) + 1
         /\ Range(Append(m, x)) = Range(m) \cup {x}
         /\ IsInjective(m) /\ x \notin Range(m) => IsInjective(Append(m, x))
<1>. DEFINE s == Append(m, x)
<1>1. /\ s \in Seq(S) /\ Len(m) \in Nat /\ Len(s) = Len(m) + 1
      /\ DOMAIN s = 1..(Len(m) + 1) /\ DOMAIN m = 1..Len(m)
  OBVIOUS
<1>2. s[Len(m) + 1] = x /\ \A y \in DOMAIN m : s[y] = m[y]
  OBVIOUS
<1>. HIDE DEF s
<1>3. \A y \in DOMAIN s : y \in DOMAIN m \/ y = Len(m) + 1
  BY <1>1
<1>4. \A y \in DOMAIN m : y \in DOMAIN s
  BY <1>1
<1>5. Len(m) + 1 \in DOMAIN s /\ Len(m) + 1 \notin DOMAIN m
  BY <1>1
<1>6. Range(s) = Range(m) \cup {x}
  BY <1>2, <1>3, <1>4, <1>5 DEF Range
<1>7. ASSUME IsInjective(m), x \notin Range(m) PROVE IsInjective(s)
  BY <1>2, <1>3, <1>4, <1>5, <1>7 DEF IsInjective, Range
<1>. QED  BY <1>1, <1>6, <1>7 DEF s

(* The place of position k: its block and its byte in it. *)
LEMMA Place ==
  ASSUME NEW y \in Nat \ {0}, NEW k \in Nat
  PROVE  /\ k \div y \in Nat /\ k % y \in 0..(y - 1)
         /\ (k \div y) * y + (k % y) = k
<1>. DEFINE d == k \div y
            r == k % y
<1>1. r \in 0..(y - 1) /\ d \in Nat
  OBVIOUS
<1>2. k - r = y * d
  OBVIOUS
<1>3. y * d = d * y /\ y * d \in Nat
  BY ONLY <1>1, y \in Nat
<1>. HIDE DEF d, r
<1>4. d * y + r = k
  BY ONLY <1>1, <1>2, <1>3, k \in Nat, y \in Nat
<1>. QED  BY <1>1, <1>4 DEF d, r

(* The blocks of a file hold the positions below its size. *)
LEMMA PlaceInside ==
  ASSUME NEW y \in Nat \ {0}, NEW k \in Nat, NEW n \in Nat, k < n * y
  PROVE  k \div y < n
<1>. DEFINE d == k \div y
            r == k % y
<1>1. d \in Nat /\ r \in 0..(y - 1) /\ d * y + r = k
  BY Place
<1>. HIDE DEF d, r
<1>2. SUFFICES ASSUME d >= n PROVE FALSE
  BY <1>1 DEF d
<1>3. d * y >= n * y
  BY ONLY <1>1, <1>2, n \in Nat, y \in Nat
<1>4. d * y \in Nat /\ n * y \in Nat
  BY ONLY <1>1, n \in Nat, y \in Nat
<1>. QED  BY ONLY <1>1, <1>3, <1>4, k < n * y, k \in Nat, n \in Nat, y \in Nat

(* The blocks that e bytes need are enough for them, and no more than m if m *)
(* are enough.                                                               *)
LEMMA RoundedUp ==
  ASSUME NEW y \in Nat \ {0}, NEW e \in Nat, NEW m \in Nat, e <= m * y
  PROVE  LET w == (e + y - 1) \div y IN w \in Nat /\ e <= w * y /\ w <= m
<1>. DEFINE w == (e + y - 1) \div y
            r == (e + y - 1) % y
<1>1. w \in Nat /\ r \in 0..(y - 1) /\ w * y + r = e + y - 1
  <2>1. e + y - 1 \in Nat
    OBVIOUS
  <2>. QED  BY <2>1, Place
<1>. HIDE DEF w, r
<1>2. w * y \in Nat /\ m * y \in Nat
  BY ONLY <1>1, m \in Nat, y \in Nat
<1>3. e <= w * y
  BY ONLY <1>1, <1>2, e \in Nat, y \in Nat
<1>4. w <= m
  <2>1. SUFFICES ASSUME w >= m + 1 PROVE FALSE
    BY <1>1
  <2>2. w * y >= (m + 1) * y
    BY ONLY <1>1, <2>1, m \in Nat, y \in Nat
  <2>3. (m + 1) * y = m * y + y
    BY ONLY m \in Nat, y \in Nat
  <2>. QED  BY ONLY <1>1, <1>2, <2>2, <2>3, e <= m * y, e \in Nat, y \in Nat \ {0}
<1>. QED  BY <1>1, <1>3, <1>4 DEF w

-----------------------------------------------------------------------------
(* The tree *)

(* An inode. *)
Node == [name : Names \cup {"", "/"}, type : Type, parent : Inodes \cup {-1},
         findable : BOOLEAN, mappings : Seq(Inodes \cup DataBlocks)]

(* What the types say of one inode. *)
LEMMA NodeTypes ==
  ASSUME EmTypeOK, NEW i \in Inodes
  PROVE  /\ inodes[i] \in Node
         /\ inodes[i].type \in Type /\ inodes[i].parent \in Inodes \cup {-1}
         /\ inodes[i].mappings \in Seq(Inodes \cup DataBlocks)
         /\ Len(inodes[i].mappings) \in Nat /\ Len(inodes[i].mappings) <= MAX_FILE_SIZE
         /\ inodes[i].type = "dir" => Range(inodes[i].mappings) \subseteq Inodes
         /\ inodes[i].type = "file" => Range(inodes[i].mappings) \subseteq DataBlocks
<1>1. inodes[i] \in Node
  BY DEF EmTypeOK, Node
<1>2. inodes[i].type \in Type /\ inodes[i].parent \in Inodes \cup {-1}
      /\ inodes[i].mappings \in Seq(Inodes \cup DataBlocks)
  BY <1>1 DEF Node
<1>3. Len(inodes[i].mappings) \in Nat
  BY <1>2
<1>4. /\ Len(inodes[i].mappings) <= MAX_FILE_SIZE
      /\ Range(inodes[i].mappings) \subseteq
            (IF inodes[i].type = "dir" THEN Inodes ELSE DataBlocks)
  BY DEF EmTypeOK
<1>. QED  BY <1>1, <1>2, <1>3, <1>4

(* A size is a number. *)
LEMMA SizeTyped == ASSUME EmTypeOK, NEW i \in Inodes PROVE Size(i) \in Nat
<1>. DEFINE n == Len(inodes[i].mappings)
<1>1. n \in Nat /\ BLOCKSIZE \in Nat
  BY NodeTypes, EmNumbers
<1>2. Size(i) = IF inodes[i].type = "dir" THEN n ELSE n * BLOCKSIZE
  BY DEF Size
<1>. HIDE DEF n
<1>3. n * BLOCKSIZE \in Nat
  BY ONLY <1>1
<1>. QED  BY <1>1, <1>2, <1>3

(* Allocated directories name allocated inodes only, and each of these but   *)
(* the root is named by its parent, an allocated directory.                  *)
LEMMA TreeFacts ==
  ASSUME EmTypeOK, Rooted, Tree
  PROVE  /\ inode_bitmap \subseteq Inodes /\ 0 \in inode_bitmap
         /\ Whole(inodes, Inodes) /\ Whole(inodes, inode_bitmap)
         /\ \A p \in Allocated("dir") : Range(inodes[p].mappings) \subseteq inode_bitmap \ {0}
         /\ \A i \in inode_bitmap \ {0} :
              /\ inodes[i].parent \in Allocated("dir")
              /\ i \in Range(inodes[inodes[i].parent].mappings)
<1>1. inode_bitmap \subseteq Inodes /\ 0 \in inode_bitmap
  BY DEF EmTypeOK, Rooted, Allocated
<1>2. Whole(inodes, Inodes)
  BY NodeTypes DEF Whole
<1>3. Under(inodes, 0) = inode_bitmap
  BY BelowIsUnder DEF Tree
<1>4. Whole(inodes, inode_bitmap)
  <2>1. 0 \in Inodes
    BY EmNumbers
  <2>. QED  BY <1>2, <1>3, <2>1, UnderWhole
<1>5. ASSUME NEW p \in Allocated("dir")
      PROVE  Range(inodes[p].mappings) \subseteq inode_bitmap \ {0}
  BY <1>4 DEF Whole, Allocated, Rooted
<1>. DEFINE S == {i \in inode_bitmap : i = 0 \/ \E p \in Allocated("dir") : i \in Range(inodes[p].mappings)}
<1>6. Whole(inodes, S)
  BY <1>4 DEF Whole, Allocated
<1>7. 0 \in S
  BY <1>1
<1>8. inode_bitmap \subseteq S
  <2>. HIDE DEF S
  <2>. QED  BY <1>3, <1>6, <1>7, UnderLeast
<1>9. ASSUME NEW i \in inode_bitmap \ {0}
      PROVE  inodes[i].parent \in Allocated("dir") /\ i \in Range(inodes[inodes[i].parent].mappings)
  <2>1. PICK p \in Allocated("dir") : i \in Range(inodes[p].mappings)
    BY <1>8
  <2>2. p = inodes[i].parent
    BY <2>1 DEF Tree
  <2>. QED  BY <2>1, <2>2
<1>. QED  BY <1>1, <1>2, <1>4, <1>5, <1>9

(* One component of a path leads from an allocated inode to another.         *)
LEMMA StepAllocated ==
  ASSUME EmTypeOK, Rooted, Tree, NEW i \in inode_bitmap \cup {-1}, NEW part
  PROVE  PathStep(i, part) \in inode_bitmap \cup {-1}
<1>1. CASE i = -1 \/ inodes[i].type = "file"
  BY <1>1 DEF PathStep
<1>2. CASE i # -1 /\ inodes[i].type # "file"
  <2>1. i \in Allocated("dir")
    <3>1. i \in inode_bitmap /\ i \in Inodes
      BY <1>2, TreeFacts
    <3>. QED  BY <1>2, <3>1, NodeTypes DEF Allocated, Type
  <2>2. inodes[i].parent \in inode_bitmap \cup {-1}
    BY <2>1, TreeFacts DEF Rooted, Allocated
  <2>3. Lookup(i, part) \in inode_bitmap \cup {-1}
    <3>. DEFINE m == inodes[i].mappings
                found == {k \in DOMAIN m : inodes[m[k]].name = part /\ inodes[m[k]].findable}
    <3>1. Lookup(i, part) = IF found = {} THEN -1 ELSE m[Min(found)]
      BY DEF Lookup
    <3>2. CASE found = {}
      BY <3>1, <3>2
    <3>3. CASE found # {}
      <4>1. i \in Inodes
        BY <2>1, TreeFacts DEF Allocated
      <4>2. DOMAIN m \subseteq Nat
        BY <4>1, NodeTypes
      <4>3. found \in SUBSET Nat
        BY <4>2
      <4>4. \E x \in found : \A y \in found : x <= y
        <5>. HIDE DEF found
        <5>. QED  BY <3>3, <4>3, LeastElement
      <4>5. Min(found) \in found
        <5>. HIDE DEF found
        <5>. QED  BY <4>4 DEF Min
      <4>6. m[Min(found)] \in Range(m)
        BY <4>5 DEF Range
      <4>7. Range(m) \subseteq inode_bitmap
        BY <2>1, TreeFacts
      <4>. QED  BY <3>1, <3>3, <4>6, <4>7
    <3>. QED  BY <3>2, <3>3
  <2>. QED  BY <1>2, <2>1, <2>2, <2>3 DEF PathStep
<1>. QED  BY <1>1, <1>2

(* So does a whole path.                                                     *)
LEMMA PathAllocated ==
  ASSUME EmTypeOK, Rooted, Tree, NEW i \in inode_bitmap, NEW path \in Paths
  PROVE  return_inode(i, path) \in inode_bitmap \cup {-1}
<1>1. Len(path.parts) \in Nat
  <2>1. path.parts \in Seq(Names \cup {".", ".."})
    BY EmufsAssumption
  <2>. QED  BY <2>1
<1>2. PICK f : WalkFrom(i, path, f) /\ return_inode(i, path) = f[Len(path.parts)]
  BY <1>1, WalkEnd
<1>. DEFINE start == IF path.abs THEN 0 ELSE i
            A == {n \in Nat : n <= Len(path.parts) => f[n] \in inode_bitmap \cup {-1}}
<1>3. \A n \in 0..Len(path.parts) : f[n] = IF n = 0 THEN start ELSE PathStep(f[n - 1], path.parts[n])
  BY <1>2 DEF WalkFrom
<1>4. 0 \in A
  <2>1. 0 \in 0..Len(path.parts)
    BY <1>1
  <2>2. f[0] = start
    BY <1>3, <2>1, Zenon
  <2>3. start \in inode_bitmap
    BY TreeFacts
  <2>. QED  BY <2>2, <2>3
<1>5. ASSUME NEW n \in Nat, n \in A PROVE n + 1 \in A
  <2>1. SUFFICES ASSUME n + 1 <= Len(path.parts) PROVE f[n + 1] \in inode_bitmap \cup {-1}
    OBVIOUS
  <2>2. n + 1 \in 0..Len(path.parts) /\ n + 1 # 0 /\ (n + 1) - 1 = n /\ n <= Len(path.parts)
    BY <1>1, <2>1
  <2>3. f[n + 1] = IF n + 1 = 0 THEN start ELSE PathStep(f[(n + 1) - 1], path.parts[n + 1])
    BY <1>3, <2>2, Zenon
  <2>4. f[n + 1] = PathStep(f[n], path.parts[n + 1])
    BY <2>2, <2>3
  <2>5. f[n] \in inode_bitmap \cup {-1}
    BY <1>5, <2>2
  <2>. QED  BY <2>4, <2>5, StepAllocated
<1>6. Len(path.parts) \in A
  <2>. HIDE DEF A
  <2>. QED  BY <1>1, <1>4, <1>5, SetInduction
<1>. QED  BY <1>1, <1>2, <1>6

(* An inode that is not the root, and what is below it: the root and the     *)
(* parent are not, and the parents of all others are.                        *)
LEMMA SubtreeFacts ==
  ASSUME EmTypeOK, Rooted, Tree, NEW i \in inode_bitmap \ {0}, NEW D, D = Below(i)
  PROVE  /\ i \in D /\ D \subseteq inode_bitmap \ {0} /\ Whole(inodes, D)
         /\ \A c \in D \ {i} : inodes[c].parent \in D
         /\ inodes[i].parent \notin D
<1>1. D = Under(inodes, i)
  BY BelowIsUnder
<1>2. i \in D
  BY <1>1, UnderTop
<1>3. Whole(inodes, D)
  <2>1. i \in Inodes /\ Whole(inodes, Inodes)
    BY TreeFacts
  <2>. QED  BY <1>1, <2>1, UnderWhole
<1>4. D \subseteq inode_bitmap \ {0}
  <2>1. Whole(inodes, inode_bitmap \ {0})
    BY TreeFacts DEF Whole, Allocated
  <2>. QED  BY <1>1, <2>1, UnderLeast
<1>5. ASSUME NEW j \in D, inodes[j].type = "dir", NEW c \in Range(inodes[j].mappings)
      PROVE  inodes[c].parent = j /\ c \in inode_bitmap \ {0}
  <2>1. j \in Allocated("dir")
    BY <1>4, <1>5 DEF Allocated
  <2>2. c \in inode_bitmap \ {0}
    BY <1>5, <2>1, TreeFacts
  <2>. QED  BY <1>5, <2>1, <2>2 DEF Tree
<1>. DEFINE S == {c \in D : c = i \/ inodes[c].parent \in D}
<1>6. Whole(inodes, S)
  BY <1>3, <1>5 DEF Whole
<1>7. D \subseteq S
  <2>1. i \in S
    BY <1>2
  <2>. HIDE DEF S
  <2>. QED  BY <1>1, <1>6, <2>1, UnderLeast
<1>. DEFINE T == inode_bitmap \ D
<1>8. ASSUME inodes[i].parent \in D PROVE FALSE
  <2>1. ASSUME NEW j \in T, inodes[j].type = "dir", NEW c \in Range(inodes[j].mappings) PROVE c \in T
    <3>1. j \in Allocated("dir")
      BY <2>1 DEF Allocated
    <3>2. c \in inode_bitmap \ {0}
      BY <2>1, <3>1, TreeFacts
    <3>3. j = inodes[c].parent
      BY <2>1, <3>1, <3>2 DEF Tree
    <3>. QED  BY <1>7, <1>8, <2>1, <3>2, <3>3
  <2>2. Whole(inodes, T)
    BY <2>1 DEF Whole
  <2>3. 0 \in T
    BY <1>4, TreeFacts
  <2>4. inode_bitmap \subseteq T
    <3>1. Under(inodes, 0) = inode_bitmap
      BY BelowIsUnder DEF Tree
    <3>. HIDE DEF T
    <3>. QED  BY <2>2, <2>3, <3>1, UnderLeast
  <2>. QED  BY <1>2, <1>4, <2>4
<1>. QED  BY <1>2, <1>3, <1>4, <1>7, <1>8

-----------------------------------------------------------------------------
(* An empty file system *)

(* Only the root directory, no block in use, no handle open. *)
EmptySystem ==
  /\ inode_bitmap = {0} /\ used_inodes = 1
  /\ block_bitmap = {} /\ used_blocks = 3
  /\ inodes = [i \in Inodes |-> IF i = 0 THEN Root ELSE NoInode]
  /\ data = [b \in DataBlocks |-> Blank]
  /\ dir = [h \in DirHandles |-> Closed]
  /\ files = [h \in FileHandles |-> NoFile]
  /\ full = FALSE
  /\ written = [i \in Inodes |-> Nothing]

(* It has the invariant. *)
LEMMA EmptyInv == EmptySystem /\ mounted \in BOOLEAN => EmInv
<1>. SUFFICES ASSUME EmptySystem, mounted \in BOOLEAN PROVE EmInv
  OBVIOUS
<1>. USE DEF EmptySystem
<1>1. inodes[0] = Root /\ \A i \in Inodes : inodes[i] \in {Root, NoInode}
  BY EmNumbers
<1>2. Root \in Node /\ NoInode \in Node /\ Range(<<>>) = {}
  <2>2. Range(<<>>) = {}
    BY DEF Range
  <2>3. <<>> \in Seq(Inodes \cup DataBlocks)
    OBVIOUS
  <2>4. Root \in Node
    BY <2>3 DEF Root, Node, Type
  <2>5. NoInode \in Node
    BY <2>3 DEF NoInode, Node, Type
  <2>. QED  BY <2>2, <2>4, <2>5
<1>3. EmTypeOK
  <2>1. inodes \in [Inodes -> Node]
    BY <1>1, <1>2
  <2>2. \A i \in Inodes : /\ Len(inodes[i].mappings) <= MAX_FILE_SIZE
                          /\ Range(inodes[i].mappings) = {}
    <3>1. Root.mappings = <<>> /\ NoInode.mappings = <<>> /\ Len(<<>>) = 0
      BY DEF Root, NoInode
    <3>. QED  BY <1>1, <1>2, <3>1, EmNumbers
  <2>3. /\ data \in [DataBlocks -> [0..(BLOCKSIZE - 1) -> Bytes \cup {Junk}]]
        /\ written \in [Inodes -> [Positions -> Bytes \cup {Junk}]]
    BY DEF Blank, Nothing
  <2>4. inode_bitmap \subseteq Inodes /\ used_inodes \in 1..MAX_INODES
        /\ block_bitmap \subseteq DataBlocks /\ used_blocks \in 3..MAX_BLOCKS
    BY EmNumbers
  <2>5. dir \in [DirHandles -> Inodes \cup {Closed}]
        /\ files \in [FileHandles -> [inode : Inodes \cup {Closed}, offset : Nat]]
    BY DEF NoFile
  <2>. QED  BY <2>1, <2>2, <2>3, <2>4, <2>5 DEF EmTypeOK, Node
<1>4. Allocated("dir") = {0} /\ Allocated("file") = {}
  BY <1>1 DEF Allocated, Root
<1>5. inodes[0].mappings = <<>> /\ Range(inodes[0].mappings) = {} /\ DOMAIN inodes[0].mappings = {}
  BY <1>1, <1>2 DEF Root
<1>6. Rooted
  <2>1. inodes[0].parent = -1
    BY <1>1 DEF Root
  <2>. QED  BY <1>4, <1>5, <2>1 DEF Rooted
<1>7. Allocation
  <2>1. Counters
    <3>1. Cardinality({}) = 0
      BY FS_EmptySet
    <3>2. Cardinality({0}) = 1
      BY FS_Singleton, Zenon
    <3>. QED  BY <3>1, <3>2 DEF Counters
  <2>2. BlocksOf(inode_bitmap) = {}
    BY <1>1 DEF BlocksOf, Root
  <2>3. BlocksOwned
    BY <1>4, <2>2 DEF BlocksOwned
  <2>. QED  BY <2>1, <2>3 DEF Allocation
<1>8. Tree
  <2>1. Whole(inodes, {0})
    BY <1>5 DEF Whole
  <2>2. Under(inodes, 0) = {0}
    BY <2>1, UnderTop, UnderLeast
  <2>3. Below(0) = inode_bitmap
    BY <2>2, BelowIsUnder
  <2>. QED  BY <1>4, <1>5, <2>3 DEF Tree, IsInjective
<1>9. HandlesValid
  BY DEF HandlesValid
<1>10. FilesKeepWrites
  BY <1>4 DEF FilesKeepWrites
<1>11. Unwritten
  BY DEF Unwritten
<1>. QED  BY <1>3, <1>6, <1>7, <1>8, <1>9, <1>10, <1>11 DEF EmInv

(* So has the one that a step leaves. *)
LEMMA EmptyInvNext == (EmptySystem /\ mounted \in BOOLEAN)' => EmInv'
BY EmptyInv, PTL

(* The device starts with it. *)
LEMMA InitEmInv == EmInit => EmInv
BY EmptyInv DEF EmInit, EmptySystem

-----------------------------------------------------------------------------
(* Steps that change handles and nothing else *)

(* Handles that lead where they should keep the invariant. *)
LEMMA OnlyHandles ==
  ASSUME EmInv, UNCHANGED <<superblock, inodes, data, full, written>>,
         mounted' \in BOOLEAN,
         dir' \in [DirHandles -> Inodes \cup {Closed}],
         files' \in [FileHandles -> [inode : Inodes \cup {Closed}, offset : Nat]],
         \A h \in DirHandles : dir'[h] # Closed => dir'[h] \in Allocated("dir"),
         \A f \in FileHandles : files'[f] # NoFile =>
            /\ files'[f].inode \in Allocated("file")
            /\ files'[f].offset <= Size(files'[f].inode)
  PROVE  EmInv'
<1>1. EmTypeOK /\ Rooted /\ Unwritten /\ Allocation /\ Tree /\ FilesKeepWrites
  BY DEF EmInv
<1>2. EmTypeOK'
  BY <1>1 DEF EmTypeOK, superblock
<1>3. /\ Allocated("dir")' = Allocated("dir") /\ Allocated("file")' = Allocated("file")
      /\ \A i : Size(i)' = Size(i)
  BY DEF Allocated, Size, superblock
<1>4. Rooted'
  BY <1>1, <1>3 DEF Rooted
<1>5. Allocation'
  <2>1. BlocksOf(inode_bitmap)' = BlocksOf(inode_bitmap)
    BY DEF BlocksOf, superblock
  <2>. QED  BY <1>1, <1>3, <2>1 DEF Allocation, Counters, BlocksOwned, superblock
<1>6. Tree'
  <2>1. Below(0)' = Below(0)
    BY DEF Below
  <2>. QED  BY <1>1, <1>3, <2>1 DEF Tree, superblock
<1>7. HandlesValid'
  BY <1>3 DEF HandlesValid
<1>8. FilesKeepWrites'
  <2>1. \A i, k : ByteOf(i, k)' = ByteOf(i, k)
    BY DEF ByteOf
  <2>. QED  BY <1>1, <1>3, <2>1 DEF FilesKeepWrites
<1>9. Unwritten'
  BY <1>1 DEF Unwritten, superblock
<1>. QED  BY <1>2, <1>4, <1>5, <1>6, <1>7, <1>8, <1>9 DEF EmInv

(* What the handles are before a step.                                       *)
LEMMA HandleFacts ==
  ASSUME EmInv
  PROVE  /\ mounted \in BOOLEAN
         /\ dir \in [DirHandles -> Inodes \cup {Closed}]
         /\ files \in [FileHandles -> [inode : Inodes \cup {Closed}, offset : Nat]]
         /\ \A h \in DirHandles : dir[h] # Closed => dir[h] \in Allocated("dir") /\ dir[h] \in inode_bitmap
         /\ \A f \in FileHandles : files[f] # NoFile =>
              /\ files[f].inode \in Allocated("file") /\ files[f].inode \in Inodes
              /\ files[f].offset \in Nat /\ files[f].offset <= Size(files[f].inode)
BY DEF EmInv, EmTypeOK, HandlesValid, Allocated

(* Handles of directories.                                                   *)
LEMMA DirSteps ==
  ASSUME EmInv, UNCHANGED <<mounted, superblock, inodes, data, files, full, written>>,
         NEW h \in DirHandles, NEW i \in Allocated("dir") \cup {Closed},
         dir' = [dir EXCEPT ![h] = i]
  PROVE  EmInv'
<1>1. i \in Inodes \cup {Closed}
  BY DEF EmInv, EmTypeOK, Allocated
<1>2. dir' \in [DirHandles -> Inodes \cup {Closed}]
  BY <1>1, HandleFacts
<1>3. \A g \in DirHandles : dir'[g] # Closed => dir'[g] \in Allocated("dir")
  BY HandleFacts
<1>4. UNCHANGED <<superblock, inodes, data, full, written>>
  OBVIOUS
<1>. QED  BY <1>2, <1>3, <1>4, HandleFacts, OnlyHandles

(* Handles of files.                                                         *)
LEMMA FileSteps ==
  ASSUME EmInv, UNCHANGED <<mounted, superblock, inodes, data, dir, full, written>>,
         NEW f \in FileHandles, NEW r \in [inode : Inodes \cup {Closed}, offset : Nat],
         r = NoFile \/ (r.inode \in Allocated("file") /\ r.offset <= Size(r.inode)),
         files' = [files EXCEPT ![f] = r]
  PROVE  EmInv'
<1>1. files' \in [FileHandles -> [inode : Inodes \cup {Closed}, offset : Nat]]
  BY HandleFacts
<1>2. \A g \in FileHandles : files'[g] # NoFile =>
            /\ files'[g].inode \in Allocated("file")
            /\ files'[g].offset <= Size(files'[g].inode)
  BY HandleFacts
<1>3. UNCHANGED <<superblock, inodes, data, full, written>>
  OBVIOUS
<1>. QED  BY <1>1, <1>2, <1>3, HandleFacts, OnlyHandles

(* A closed handle is a handle. *)
LEMMA NoFileTyped == NoFile \in [inode : Inodes \cup {Closed}, offset : Nat]
BY DEF NoFile

(* Only the offset of a handle changes. *)
LEMMA OffsetStep ==
  ASSUME EmInv, UNCHANGED <<mounted, superblock, inodes, data, dir, full, written>>,
         NEW f \in FileHandles, files[f] # NoFile,
         NEW n \in Nat, n <= Size(files[f].inode),
         files' = [files EXCEPT ![f].offset = n]
  PROVE  EmInv'
<1>. DEFINE r == [files[f] EXCEPT !.offset = n]
<1>1. files[f] \in [inode : Inodes \cup {Closed}, offset : Nat]
  BY HandleFacts
<1>2. r \in [inode : Inodes \cup {Closed}, offset : Nat] /\ r.inode = files[f].inode /\ r.offset = n
  BY <1>1
<1>3. files' = [files EXCEPT ![f] = r]
  BY HandleFacts
<1>4. r.inode \in Allocated("file") /\ r.offset <= Size(r.inode)
  BY <1>2, HandleFacts
<1>. HIDE DEF r
<1>. QED  BY <1>2, <1>3, <1>4, FileSteps

(* Every operation on handles alone keeps the invariant. *)
LEMMA HandleStep ==
  ASSUME EmInv,
         \/ CloseDevice \/ OpenDevice \/ OpenRoot
         \/ \E h \in DirHandles :
              \/ CloseDir(h)
              \/ \E path \in Paths : LeadsTo(h, path, "dir") /\ ChangeDir(h, path)
              \/ \E path \in Paths : LeadsTo(h, path, "file") /\ OpenFile(h, path)
         \/ \E f \in FileHandles :
              \/ CloseFile(f)
              \/ \E n \in Sizes : Seek(f, files[f].offset - n) \/ Seek(f, files[f].offset + n)
              \/ \E size \in Sizes : Read(f, size)
  PROVE  EmInv'
<1>0. EmTypeOK /\ Rooted /\ Tree /\ Sizes \subseteq Nat
  BY EmufsAssumption DEF EmInv
<1>1. CASE CloseDevice
  <2>1. /\ dir' \in [DirHandles -> Inodes \cup {Closed}]
        /\ files' \in [FileHandles -> [inode : Inodes \cup {Closed}, offset : Nat]]
    BY <1>1, NoFileTyped DEF CloseDevice
  <2>2. \A h \in DirHandles : dir'[h] = Closed
    BY <1>1 DEF CloseDevice
  <2>3. \A f \in FileHandles : files'[f] = NoFile
    BY <1>1 DEF CloseDevice
  <2>4. UNCHANGED <<superblock, inodes, data, full, written>> /\ mounted' \in BOOLEAN
    BY <1>1 DEF CloseDevice
  <2>. QED  BY <2>1, <2>2, <2>3, <2>4, OnlyHandles
<1>2. CASE OpenDevice
  <2>1. UNCHANGED <<superblock, inodes, data, full, written>> /\ mounted' \in BOOLEAN /\ UNCHANGED <<dir, files>>
    BY <1>2 DEF OpenDevice
  <2>. QED  BY <2>1, HandleFacts, OnlyHandles
<1>3. CASE OpenRoot
  <2>. DEFINE free == {h \in DirHandles : dir[h] = Closed}
  <2>1. free # {} /\ free \in SUBSET Nat
    BY <1>3, EmNumbers DEF OpenRoot
  <2>2. FirstFree(free) \in free
    <3>. HIDE DEF free
    <3>. QED  BY <2>1, FirstFreeIn
  <2>3. FirstFree(free) \in DirHandles /\ 0 \in Allocated("dir")
    BY <1>0, <2>2 DEF Rooted
  <2>4. dir' = [dir EXCEPT ![FirstFree(free)] = 0]
        /\ UNCHANGED <<mounted, superblock, inodes, data, files, full, written>>
    BY <1>3 DEF OpenRoot
  <2>. HIDE DEF free
  <2>. QED  BY <2>3, <2>4, DirSteps
<1>4. ASSUME NEW h \in DirHandles, CloseDir(h) PROVE EmInv'
  BY <1>4, DirSteps DEF CloseDir
<1>5. ASSUME NEW h \in DirHandles, NEW path \in Paths,
            LeadsTo(h, path, "dir"), ChangeDir(h, path)
      PROVE  EmInv'
  <2>. DEFINE i == return_inode(dir[h], path)
  <2>1. dir[h] \in inode_bitmap
    BY <1>5, HandleFacts DEF ChangeDir
  <2>2. i \in inode_bitmap \cup {-1}
    BY <1>0, <2>1, PathAllocated
  <2>3. i # -1 /\ inodes[i].type = "dir" /\ dir' = [dir EXCEPT ![h] = i]
        /\ UNCHANGED <<mounted, superblock, inodes, data, files, full, written>>
    BY <1>5 DEF ChangeDir, LeadsTo
  <2>. HIDE DEF i
  <2>4. i \in Allocated("dir")
    BY <2>2, <2>3 DEF Allocated
  <2>. QED  BY <2>3, <2>4, DirSteps
<1>6. ASSUME NEW h \in DirHandles, NEW path \in Paths,
            LeadsTo(h, path, "file"), OpenFile(h, path)
      PROVE  EmInv'
  <2>. DEFINE i == return_inode(dir[h], path)
              free == {f \in FileHandles : files[f] = NoFile}
              r == [inode |-> i, offset |-> 0]
  <2>1. dir[h] \in inode_bitmap
    BY <1>6, HandleFacts DEF OpenFile
  <2>2. i \in inode_bitmap \cup {-1}
    BY <1>0, <2>1, PathAllocated
  <2>3. i # -1 /\ inodes[i].type = "file" /\ free # {} /\ files' = [files EXCEPT ![FirstFree(free)] = r]
        /\ UNCHANGED <<mounted, superblock, inodes, data, dir, full, written>>
    BY <1>6 DEF OpenFile, LeadsTo
  <2>4. free \in SUBSET Nat
    BY EmNumbers
  <2>5. FirstFree(free) \in free
    <3>. HIDE DEF free, i
    <3>. QED  BY <2>3, <2>4, FirstFreeIn
  <2>6. FirstFree(free) \in FileHandles
    BY <2>5
  <2>. HIDE DEF i, free
  <2>7. i \in Allocated("file") /\ i \in Inodes
    BY <1>0, <2>2, <2>3, TreeFacts DEF Allocated
  <2>8. Size(i) \in Nat
    BY <1>0, <2>7, SizeTyped
  <2>9. r \in [inode : Inodes \cup {Closed}, offset : Nat] /\ r.inode = i /\ r.offset = 0
    BY <2>7
  <2>. HIDE DEF r
  <2>10. r.inode \in Allocated("file") /\ r.offset <= Size(r.inode)
    BY <2>7, <2>8, <2>9
  <2>. QED  BY <2>3, <2>6, <2>9, <2>10, FileSteps
<1>7. ASSUME NEW f \in FileHandles, CloseFile(f) PROVE EmInv'
  BY <1>7, FileSteps, NoFileTyped DEF CloseFile
<1>8. ASSUME NEW f \in FileHandles, NEW n \in Int, Seek(f, n) PROVE EmInv'
  <2>1. /\ files[f] # NoFile /\ n >= 0 /\ n < Size(files[f].inode)
        /\ files' = [files EXCEPT ![f].offset = n]
        /\ UNCHANGED <<mounted, superblock, inodes, data, dir, full, written>>
    BY <1>8 DEF Seek
  <2>2. Size(files[f].inode) \in Nat
    <3>1. files[f].inode \in Inodes
      BY <2>1, HandleFacts
    <3>. QED  BY <1>0, <3>1, SizeTyped
  <2>3. n \in Nat /\ n <= Size(files[f].inode)
    BY <2>1, <2>2
  <2>. QED  BY <2>1, <2>3, OffsetStep
<1>9. ASSUME NEW f \in FileHandles, NEW size \in Sizes, Read(f, size) PROVE EmInv'
  <2>1. /\ files[f] # NoFile /\ files[f].offset + size <= Size(files[f].inode)
        /\ files' = [files EXCEPT ![f].offset = @ + size]
        /\ UNCHANGED <<mounted, superblock, inodes, data, dir, full, written>>
    BY <1>9 DEF Read
  <2>2. files[f].offset \in Nat
    BY <2>1, HandleFacts
  <2>3. files' = [files EXCEPT ![f].offset = files[f].offset + size]
    BY <2>1, HandleFacts
  <2>4. files[f].offset + size \in Nat
    BY <1>0, <2>2
  <2>. QED  BY <2>1, <2>3, <2>4, OffsetStep
<1>10. ASSUME NEW f \in FileHandles, NEW n \in Sizes,
              Seek(f, files[f].offset - n) \/ Seek(f, files[f].offset + n)
       PROVE  EmInv'
  <2>1. files[f] # NoFile
    BY <1>10 DEF Seek
  <2>2. files[f].offset - n \in Int /\ files[f].offset + n \in Int
    BY <1>0, <2>1, HandleFacts
  <2>. QED  BY <1>8, <1>10, <2>2
<1>. QED  BY <1>1, <1>2, <1>3, <1>4, <1>5, <1>6, <1>7, <1>9, <1>10

(* create_file_system() leaves an empty one.                                 *)
LEMMA CreateFileSystemStep == ASSUME EmInv, HandlesClosed, CreateFileSystem PROVE EmInv'
<1>1. EmptySystem'
  <2>1. dir' = [h \in DirHandles |-> Closed] /\ files' = [h \in FileHandles |-> NoFile]
    <3>1. dir = [h \in DirHandles |-> dir[h]] /\ files = [h \in FileHandles |-> files[h]]
      BY HandleFacts
    <3>2. \A h \in DirHandles : dir[h] = Closed
      BY DEF HandlesClosed
    <3>3. \A h \in FileHandles : files[h] = NoFile
      BY DEF HandlesClosed
    <3>4. dir' = dir /\ files' = files
      BY DEF CreateFileSystem
    <3>. QED  BY <3>1, <3>2, <3>3, <3>4
  <2>2. data' = [b \in DataBlocks |-> Blank] /\ written' = [i \in Inodes |-> Nothing]
    BY DEF CreateFileSystem, Forget
  <2>. QED  BY <2>1, <2>2 DEF CreateFileSystem, EmptySystem
<1>2. mounted' \in BOOLEAN
  BY HandleFacts DEF CreateFileSystem
<1>. QED  BY <1>1, <1>2, EmptyInvNext

-----------------------------------------------------------------------------
(* Creation: inode n becomes an entry of directory p. *)

(* What emufs_create() has found when it makes the inode. *)
Made(p, n, name, type) ==
  /\ p \in Allocated("dir") /\ n \in Inodes \ inode_bitmap
  /\ name \in Names /\ type \in Type
  /\ Len(inodes[p].mappings) < MAX_FILE_SIZE
  /\ \A c \in Range(inodes[p].mappings) : ~(inodes[c].type = type /\ inodes[c].name = name)
  /\ NewInode(n, p, name, type)

(* emufs_create() makes a free inode an entry of an allocated directory.   *)
LEMMA CreateMakes ==
  ASSUME EmInv, NEW h \in DirHandles, NEW name \in Names, NEW type \in Type, Create(h, name, type)
  PROVE  \E p, n : Made(p, n, name, type)
<1>. DEFINE free == Inodes \ inode_bitmap
<1>1. free # {} /\ free \in SUBSET Nat
  BY EmNumbers DEF Create
<1>2. FirstFree(free) \in free
  <2>. HIDE DEF free
  <2>. QED  BY <1>1, FirstFreeIn
<1>3. dir[h] \in Allocated("dir")
  BY HandleFacts DEF Create
<1>4. Made(dir[h], FirstFree(free), name, type)
  BY <1>2, <1>3 DEF Create, Made
<1>. QED  BY <1>4

(* The inodes afterwards: n is new, and p names it. *)
LEMMA MadeNodes ==
  ASSUME EmTypeOK, Rooted, NEW p, NEW n, NEW name, NEW type, Made(p, n, name, type)
  PROVE  /\ p \in Inodes /\ p \in inode_bitmap /\ n # p /\ n # 0 /\ inodes[p].type = "dir"
         /\ inodes' \in [Inodes -> Node]
         /\ inodes'[n].mappings = <<>> /\ inodes'[n].type = type /\ inodes'[n].name = name
         /\ inodes'[n].parent = p
         /\ inodes'[p].type = "dir" /\ inodes'[p].name = inodes[p].name
         /\ inodes'[p].parent = inodes[p].parent
         /\ inodes'[p].mappings = Append(inodes[p].mappings, n)
         /\ \A j \in Inodes \ {n, p} : inodes'[j] = inodes[j]
         /\ inode_bitmap' = inode_bitmap \cup {n}
<1>1. /\ p \in Inodes /\ p \in inode_bitmap /\ n # p /\ n # 0 /\ inodes[p].type = "dir" /\ n \in Inodes
      /\ inode_bitmap' = inode_bitmap \cup {n}
  BY DEF Made, EmTypeOK, Rooted, Allocated, NewInode
<1>2. PICK clean \in BOOLEAN :
        inodes' = [inodes EXCEPT
          ![p].mappings = Append(@, n),
          ![n] = [name |-> name, type |-> type, parent |-> p, findable |-> clean, mappings |-> <<>>]]
  BY DEF Made, NewInode
<1>3. inodes \in [Inodes -> Node]
  BY DEF EmTypeOK, Node
<1>. DEFINE new == [name |-> name, type |-> type, parent |-> p, findable |-> clean, mappings |-> <<>>]
            up == [inodes[p] EXCEPT !.mappings = Append(inodes[p].mappings, n)]
<1>4. inodes' = [j \in Inodes |-> IF j = n THEN new ELSE IF j = p THEN up ELSE inodes[j]]
  BY <1>1, <1>2, <1>3
<1>5. new \in Node
  <2>1. <<>> \in Seq(Inodes \cup DataBlocks)
    OBVIOUS
  <2>2. name \in Names /\ type \in Type
    BY DEF Made
  <2>. QED  BY <1>1, <2>1, <2>2 DEF Node
<1>6. inodes[p] \in Node
  BY <1>1, <1>3
<1>7. Append(inodes[p].mappings, n) \in Seq(Inodes \cup DataBlocks)
  <2>1. inodes[p].mappings \in Seq(Inodes \cup DataBlocks) /\ n \in Inodes \cup DataBlocks
    BY <1>1, NodeTypes
  <2>. QED  BY <2>1, Appended
<1>8. up \in Node /\ up.type = "dir" /\ up.name = inodes[p].name /\ up.parent = inodes[p].parent
      /\ up.mappings = Append(inodes[p].mappings, n)
  <2>. DEFINE m == Append(inodes[p].mappings, n)
  <2>1. m \in Seq(Inodes \cup DataBlocks)
    BY <1>7
  <2>. HIDE DEF m
  <2>2. up = [inodes[p] EXCEPT !.mappings = m]
    BY DEF m
  <2>. HIDE DEF up
  <2>3. up \in Node /\ up.type = inodes[p].type /\ up.name = inodes[p].name
        /\ up.parent = inodes[p].parent /\ up.mappings = m
    BY <1>6, <2>1, <2>2 DEF Node
  <2>. QED  BY <1>1, <2>3 DEF m
<1>9. new.mappings = <<>> /\ new.type = type /\ new.name = name /\ new.parent = p
  OBVIOUS
<1>10. inodes'[n] = new /\ inodes'[p] = up /\ \A j \in Inodes \ {n, p} : inodes'[j] = inodes[j]
  <2>. HIDE DEF new, up
  <2>. QED  BY <1>1, <1>4
<1>. HIDE DEF new, up
<1>11. inodes' \in [Inodes -> Node]
  BY <1>3, <1>4, <1>5, <1>8
<1>. QED  BY <1>1, <1>8, <1>9, <1>10, <1>11

(* The entries of p afterwards. *)
LEMMA MadeEntries ==
  ASSUME EmTypeOK, Rooted, Tree, NEW p, NEW n, NEW name, NEW type, Made(p, n, name, type)
  PROVE  /\ Range(inodes'[p].mappings) = Range(inodes[p].mappings) \cup {n}
         /\ Len(inodes'[p].mappings) <= MAX_FILE_SIZE
         /\ IsInjective(inodes'[p].mappings)
         /\ Range(inodes'[n].mappings) = {} /\ Len(inodes'[n].mappings) = 0
         /\ IsInjective(inodes'[n].mappings)
<1>1. /\ inodes'[p].mappings = Append(inodes[p].mappings, n) /\ inodes'[n].mappings = <<>>
      /\ p \in Inodes
  BY MadeNodes
<1>2. inodes[p].mappings \in Seq(Inodes \cup DataBlocks) /\ n \in Inodes \cup DataBlocks
      /\ Len(inodes[p].mappings) \in Nat
  BY <1>1, NodeTypes DEF Made
<1>3. n \notin Range(inodes[p].mappings) /\ IsInjective(inodes[p].mappings)
  BY TreeFacts DEF Made, Tree
<1>4. Len(inodes[p].mappings) < MAX_FILE_SIZE /\ MAX_FILE_SIZE \in Nat
  BY EmNumbers DEF Made
<1>5. Range(<<>>) = {} /\ Len(<<>>) = 0 /\ IsInjective(<<>>)
  BY DEF Range, IsInjective
<1>6. /\ Len(inodes'[p].mappings) = Len(inodes[p].mappings) + 1
      /\ Range(inodes'[p].mappings) = Range(inodes[p].mappings) \cup {n}
      /\ IsInjective(inodes'[p].mappings)
  BY <1>1, <1>2, <1>3, Appended
<1>. QED  BY <1>1, <1>2, <1>4, <1>5, <1>6

(* One inode more, in the bitmap and in the counter. *)
LEMMA MadeCounted ==
  ASSUME EmTypeOK, Rooted, Counters, NEW p, NEW n, NEW name, NEW type, Made(p, n, name, type)
  PROVE  Counters' /\ used_inodes' \in 1..MAX_INODES
<1>1. inode_bitmap' = inode_bitmap \cup {n} /\ n \in Inodes \ inode_bitmap
      /\ used_inodes' = used_inodes + 1 /\ UNCHANGED <<block_bitmap, used_blocks>>
  BY DEF Made, NewInode
<1>2. IsFiniteSet(inode_bitmap) /\ used_inodes = Cardinality(inode_bitmap) /\ used_inodes \in 1..MAX_INODES
  BY EmFinite, FS_Subset DEF EmTypeOK, Counters
<1>3. Cardinality(inode_bitmap') = used_inodes + 1
  BY <1>1, <1>2, FS_AddElement
<1>4. inode_bitmap' \in SUBSET Inodes
  BY <1>1 DEF EmTypeOK
<1>5. Cardinality(inode_bitmap') <= MAX_INODES
  BY <1>4, EmFinite, FS_Subset
<1>. QED  BY <1>1, <1>2, <1>3, <1>5, EmNumbers DEF Counters

(* The inodes are a tree with one leaf more. *)
LEMMA MadeTree ==
  ASSUME EmTypeOK, Rooted, Tree, NEW p, NEW n, NEW name, NEW type, Made(p, n, name, type)
  PROVE  Tree' /\ Rooted'
<1>. DEFINE A == inode_bitmap
<1>1. /\ A \subseteq Inodes /\ 0 \in A /\ n \in Inodes /\ n \notin A /\ n # 0
      /\ A' = A \cup {n} /\ type \in Type
  BY TreeFacts, MadeNodes DEF Made
<1>2. /\ p \in A /\ inodes[p].type = "dir" /\ inodes'[p].type = "dir" /\ n # p
      /\ inodes'[p].name = inodes[p].name /\ inodes'[p].parent = inodes[p].parent
      /\ inodes'[n].type = type /\ inodes'[n].name = name /\ inodes'[n].parent = p
  BY MadeNodes
<1>3. \A j \in Inodes \ {n, p} : inodes'[j] = inodes[j]
  BY MadeNodes
<1>4. /\ Range(inodes'[p].mappings) = Range(inodes[p].mappings) \cup {n}
      /\ IsInjective(inodes'[p].mappings)
      /\ Range(inodes'[n].mappings) = {} /\ IsInjective(inodes'[n].mappings)
  BY MadeEntries
<1>5. ASSUME NEW j \in A PROVE inodes'[j].type = inodes[j].type /\ inodes'[j].name = inodes[j].name
                               /\ inodes'[j].parent = inodes[j].parent
  BY <1>1, <1>2, <1>3
<1>6. ASSUME NEW j \in A, inodes[j].type = "dir"
      PROVE  Range(inodes[j].mappings) \subseteq A \ {0}
  BY <1>6, TreeFacts DEF Allocated
<1>7. ASSUME NEW j \in Allocated("dir")'
      PROVE  j = n \/ (j \in A /\ j \in Allocated("dir"))
  BY <1>1, <1>5 DEF Allocated
<1>8. ASSUME NEW j \in A
      PROVE  /\ Range(inodes[j].mappings) \subseteq Range(inodes'[j].mappings)
             /\ Range(inodes'[j].mappings) \subseteq Range(inodes[j].mappings) \cup {n}
             /\ j # p => Range(inodes'[j].mappings) = Range(inodes[j].mappings)
  BY <1>1, <1>3, <1>4
<1>9. Below(0)' = A'
  <2>1. Below(0)' = Under(inodes', 0)
    BY DEF Below, Under, Layers
  <2>. DEFINE U == Under(inodes', 0)
  <2>2. Whole(inodes', A \cup {n})
    BY <1>4, <1>5, <1>6, <1>8 DEF Whole
  <2>3. U \subseteq A \cup {n}
    BY <1>1, <2>2, UnderLeast
  <2>4. Whole(inodes', Inodes)
    <3>1. ASSUME NEW j \in Inodes, inodes'[j].type = "dir", NEW c \in Range(inodes'[j].mappings)
          PROVE  c \in Inodes
      BY <1>1, <1>3, <1>4, <1>6, <1>2, <3>1, NodeTypes
    <3>. QED  BY <3>1 DEF Whole
  <2>5. Whole(inodes', U) /\ 0 \in U
    BY <1>1, <2>4, UnderWhole, UnderTop
  <2>. HIDE DEF U
  <2>6. Whole(inodes, U \cap A)
    BY <1>5, <1>6, <1>8, <2>5 DEF Whole
  <2>7. A \subseteq U \cap A
    <3>1. Under(inodes, 0) = A
      BY BelowIsUnder DEF Tree
    <3>2. 0 \in U \cap A
      BY <1>1, <2>5
    <3>. QED  BY <2>6, <3>1, <3>2, UnderLeast
  <2>8. n \in U
    BY <1>2, <1>4, <2>5, <2>7 DEF Whole
  <2>9. U = A'
    BY <1>1, <2>3, <2>7, <2>8
  <2>. QED  BY <2>1, <2>9 DEF U
<1>10. \A q \in Allocated("dir")' : IsInjective(inodes'[q].mappings)
  <2>1. ASSUME NEW q \in Allocated("dir"), q # p PROVE IsInjective(inodes'[q].mappings)
    BY <1>1, <1>3, <2>1 DEF Tree, Allocated
  <2>. QED  BY <1>4, <1>7, <2>1
<1>11. ASSUME NEW i \in A' \ {0}, NEW q \in Allocated("dir")'
       PROVE  i \in Range(inodes'[q].mappings) <=> q = inodes'[i].parent
  <2>1. CASE q = n
    <3>1. ASSUME i \in A PROVE inodes'[i].parent # n
      <4>1. inodes[i].parent \in A
        BY <1>11, <3>1, TreeFacts DEF Allocated
      <4>. QED  BY <1>1, <1>5, <3>1, <4>1
    <3>2. ASSUME i = n PROVE inodes'[i].parent # n
      BY <1>2, <3>2
    <3>. QED  BY <1>1, <1>4, <2>1, <3>1, <3>2
  <2>2. CASE q \in A /\ q \in Allocated("dir") /\ i = n
    <3>1. n \notin Range(inodes[q].mappings)
      BY <1>1, <2>2, TreeFacts
    <3>. QED  BY <1>2, <1>4, <1>8, <2>2, <3>1
  <2>3. CASE q \in A /\ q \in Allocated("dir") /\ i # n
    <3>1. i \in A \ {0}
      BY <1>1, <2>3
    <3>2. i \in Range(inodes[q].mappings) <=> q = inodes[i].parent
      BY <2>3, <3>1 DEF Tree
    <3>3. i \in Range(inodes'[q].mappings) <=> i \in Range(inodes[q].mappings)
      BY <1>8, <2>3
    <3>. QED  BY <1>5, <3>1, <3>2, <3>3
  <2>. QED  BY <1>1, <1>7, <2>1, <2>2, <2>3
<1>12. ASSUME NEW q \in Allocated("dir")', NEW c \in Range(inodes'[q].mappings),
              NEW d \in Range(inodes'[q].mappings),
              inodes'[c].name = inodes'[d].name, inodes'[c].type = inodes'[d].type
       PROVE  c = d
  <2>1. q # n /\ q \in A /\ q \in Allocated("dir")
    BY <1>4, <1>7, <1>12
  <2>2. Range(inodes[q].mappings) \subseteq A
    BY <2>1, TreeFacts
  <2>3. CASE c # n /\ d # n
    <3>1. c \in Range(inodes[q].mappings) /\ d \in Range(inodes[q].mappings)
      BY <1>8, <1>12, <2>1, <2>3
    <3>2. inodes[c].name = inodes[d].name /\ inodes[c].type = inodes[d].type
      BY <1>5, <1>12, <2>2, <3>1
    <3>. QED  BY <2>1, <3>1, <3>2 DEF Tree
  <2>4. ASSUME NEW e \in Range(inodes'[q].mappings), e # n, n \in Range(inodes'[q].mappings),
               inodes'[e].name = name, inodes'[e].type = type
        PROVE  FALSE
    <3>1. q = p
      BY <1>1, <1>8, <2>1, <2>2, <2>4
    <3>2. e \in Range(inodes[p].mappings) /\ e \in A
      BY <1>4, <2>2, <2>4, <3>1
    <3>3. inodes[e].name = name /\ inodes[e].type = type
      BY <1>5, <2>4, <3>2
    <3>. QED  BY <3>2, <3>3 DEF Made
  <2>5. CASE c = n /\ d # n
    BY <1>2, <1>12, <2>4, <2>5
  <2>6. CASE c # n /\ d = n
    BY <1>2, <1>12, <2>4, <2>6
  <2>. QED  BY <2>3, <2>5, <2>6
<1>13. Rooted'
  <2>1. 0 \in Allocated("dir")' /\ inodes'[0].parent = -1
    BY <1>1, <1>5 DEF Rooted, Allocated
  <2>2. ASSUME NEW q \in Allocated("dir")' PROVE 0 \notin Range(inodes'[q].mappings)
    BY <1>1, <1>4, <1>7, <1>8 DEF Rooted
  <2>. QED  BY <2>1, <2>2 DEF Rooted
<1>14. Tree'
  BY <1>9, <1>10, <1>11, <1>12 DEF Tree
<1>. QED  BY <1>13, <1>14

(* What is in the blocks of a file depends on its mappings and on them.      *)
LEMMA SameBytes ==
  ASSUME EmTypeOK, NEW i \in Inodes, inodes[i].type = "file",
         inodes'[i].mappings = inodes[i].mappings,
         \A b \in Range(inodes[i].mappings) : data'[b] = data[b],
         NEW k \in Positions
  PROVE  ByteOf(i, k)' = ByteOf(i, k)
<1>. DEFINE m == inodes[i].mappings
<1>1. m \in Seq(Inodes \cup DataBlocks) /\ Len(m) \in Nat /\ DOMAIN m = 1..Len(m)
  BY NodeTypes
<1>2. k \in Nat
  BY EmNumbers DEF Positions
<1>3. CASE k < Len(m) * BLOCKSIZE
  <2>1. k \div BLOCKSIZE \in Nat /\ k \div BLOCKSIZE < Len(m)
    BY <1>1, <1>2, <1>3, EmNumbers, Place, PlaceInside
  <2>2. k \div BLOCKSIZE + 1 \in DOMAIN m
    BY <1>1, <2>1
  <2>3. m[k \div BLOCKSIZE + 1] \in Range(m)
    BY <2>2 DEF Range
  <2>4. data'[m[k \div BLOCKSIZE + 1]] = data[m[k \div BLOCKSIZE + 1]]
    BY <2>3
  <2>5. ByteOf(i, k) = data[m[k \div BLOCKSIZE + 1]][k % BLOCKSIZE]
    BY <1>3 DEF ByteOf
  <2>6. ByteOf(i, k)' = data'[m[k \div BLOCKSIZE + 1]][k % BLOCKSIZE]
    BY <1>3 DEF ByteOf
  <2>. QED  BY <2>4, <2>5, <2>6
<1>4. CASE ~(k < Len(m) * BLOCKSIZE)
  BY <1>4 DEF ByteOf
<1>. QED  BY <1>3, <1>4

(* Creation keeps the invariant. *)
LEMMA MadeStep ==
  ASSUME EmInv, NEW p, NEW n, NEW name, NEW type, Made(p, n, name, type) PROVE EmInv'
<1>. DEFINE A == inode_bitmap
<1>0. EmTypeOK /\ Rooted /\ Unwritten /\ Counters /\ BlocksOwned /\ Tree /\ HandlesValid /\ FilesKeepWrites
  BY DEF EmInv, Allocation
<1>1. /\ A \subseteq Inodes /\ n \in Inodes /\ n \notin A /\ A' = A \cup {n} /\ type \in Type
      /\ UNCHANGED <<mounted, block_bitmap, used_blocks, data, dir, files, full, written>>
  BY <1>0, TreeFacts, MadeNodes DEF Made, NewInode
<1>2. /\ p \in A /\ p \in Inodes /\ inodes[p].type = "dir" /\ inodes'[p].type = "dir" /\ n # p
      /\ inodes'[n].type = type
  BY <1>0, MadeNodes
<1>3. /\ \A j \in Inodes \ {n, p} : inodes'[j] = inodes[j]
      /\ inodes' \in [Inodes -> Node]
  BY <1>0, MadeNodes
<1>4. /\ Range(inodes'[p].mappings) = Range(inodes[p].mappings) \cup {n}
      /\ Len(inodes'[p].mappings) <= MAX_FILE_SIZE
      /\ Range(inodes'[n].mappings) = {} /\ Len(inodes'[n].mappings) = 0
      /\ IsInjective(inodes'[n].mappings)
  BY <1>0, MadeEntries
<1>5. EmTypeOK'
  <2>1. \A i \in Inodes :
           /\ Len(inodes'[i].mappings) <= MAX_FILE_SIZE
           /\ Range(inodes'[i].mappings) \subseteq (IF inodes'[i].type = "dir" THEN Inodes ELSE DataBlocks)
    <3>1. ASSUME NEW i \in Inodes \ {n, p}
          PROVE  /\ Len(inodes'[i].mappings) <= MAX_FILE_SIZE
                 /\ Range(inodes'[i].mappings) \subseteq
                      (IF inodes'[i].type = "dir" THEN Inodes ELSE DataBlocks)
      BY <1>0, <1>3 DEF EmTypeOK
    <3>2. Range(inodes'[p].mappings) \subseteq Inodes
      BY <1>0, <1>1, <1>2, <1>4, NodeTypes
    <3>. QED  BY <1>2, <1>4, <3>1, <3>2, EmNumbers
  <2>2. inode_bitmap' \subseteq Inodes /\ used_inodes' \in 1..MAX_INODES
    BY <1>0, <1>1, MadeCounted
  <2>. QED  BY <1>0, <1>1, <1>3, <2>1, <2>2 DEF EmTypeOK, Node
<1>6. /\ Allocated("file") \subseteq Allocated("file")' /\ Allocated("dir") \subseteq Allocated("dir")'
      /\ \A i \in Allocated("file") :
            /\ i \in Inodes /\ inodes[i].type = "file" /\ i # n /\ i # p /\ inodes'[i] = inodes[i]
      /\ \A i \in Allocated("file")' : i = n \/ i \in Allocated("file")
  BY <1>1, <1>2, <1>3 DEF Allocated
<1>7. BlocksOf(A)' = BlocksOf(A)
  <2>1. \A i \in A' : inodes'[i].type = "file" => i = n \/ i \in Allocated("file")
    BY <1>6 DEF Allocated
  <2>2. \A i \in A : inodes[i].type = "file" => i \in Allocated("file") /\ i \in A'
    BY <1>1 DEF Allocated
  <2>3. BlocksOf(A)' = UNION {Range(inodes'[j].mappings) : j \in {i \in A' : inodes'[i].type = "file"}}
    BY DEF BlocksOf
  <2>4. BlocksOf(A) = UNION {Range(inodes[j].mappings) : j \in {i \in A : inodes[i].type = "file"}}
    BY DEF BlocksOf
  <2>5. ASSUME NEW b \in BlocksOf(A)' PROVE b \in BlocksOf(A)
    <3>1. PICK j \in A' : inodes'[j].type = "file" /\ b \in Range(inodes'[j].mappings)
      BY <2>3
    <3>2. j \in Allocated("file") /\ b \in Range(inodes[j].mappings)
      BY <1>4, <1>6, <2>1, <3>1
    <3>. QED  BY <2>4, <3>2 DEF Allocated
  <2>6. ASSUME NEW b \in BlocksOf(A) PROVE b \in BlocksOf(A)'
    <3>1. PICK j \in A : inodes[j].type = "file" /\ b \in Range(inodes[j].mappings)
      BY <2>4
    <3>2. j \in Allocated("file") /\ j \in A'
      BY <2>2, <3>1
    <3>3. inodes'[j].type = "file" /\ b \in Range(inodes'[j].mappings)
      BY <1>6, <3>1, <3>2
    <3>. QED  BY <2>3, <3>2, <3>3
  <2>. QED  BY <2>5, <2>6
<1>8. Allocation'
  <2>1. Counters'
    BY <1>0, MadeCounted
  <2>2. \A i \in Allocated("file")' : IsInjective(inodes'[i].mappings)
    BY <1>0, <1>4, <1>6 DEF BlocksOwned
  <2>3. \A i, j \in Allocated("file")' :
           i # j => Range(inodes'[i].mappings) \cap Range(inodes'[j].mappings) = {}
    BY <1>0, <1>4, <1>6 DEF BlocksOwned
  <2>4. BlocksOwned'
    BY <1>0, <1>1, <1>7, <2>2, <2>3 DEF BlocksOwned
  <2>. QED  BY <2>1, <2>4 DEF Allocation
<1>9. HandlesValid'
  <2>1. \A i \in Allocated("file") : Size(i)' = Size(i)
    BY <1>6 DEF Size
  <2>. QED  BY <1>0, <1>1, <1>6, <2>1 DEF HandlesValid
<1>10. FilesKeepWrites'
  <2>1. \A i \in Allocated("file") : \A k \in Positions : ByteOf(i, k)' = ByteOf(i, k)
    BY <1>0, <1>1, <1>6, SameBytes
  <2>2. \A k \in Positions : written[n][k] = Junk
    BY <1>0, <1>1 DEF Unwritten, Nothing
  <2>. QED  BY <1>0, <1>1, <1>6, <2>1, <2>2 DEF FilesKeepWrites
<1>11. Unwritten'
  BY <1>0, <1>1 DEF Unwritten
<1>12. Tree' /\ Rooted'
  BY <1>0, MadeTree
<1>. QED  BY <1>5, <1>8, <1>9, <1>10, <1>11, <1>12 DEF EmInv

-----------------------------------------------------------------------------
(* Deletion of inode i and of all that is below it, D.                       *)

(* What emufs_delete() does when it has found i. *)
Removal(i, D) ==
  /\ i \in inode_bitmap \ {0} /\ D = Below(i)
  /\ FreeInodes(D) /\ FreeBlocks(D) /\ CloseHandles(D)
  /\ RemoveEntry(inodes[i].parent, i, D)
  /\ Forget(D, BlocksOf(D))
  /\ UNCHANGED <<mounted, full>>

(* What the path leads to is allocated and not the root. *)
LEMMA DeleteRemoves ==
  ASSUME EmInv, NEW h \in DirHandles, NEW path \in Paths,
         SparesRoot(h, path), Delete(h, path)
  PROVE  \E i, D : Removal(i, D)
<1>. DEFINE i == return_inode(dir[h], path)
<1>1. EmTypeOK /\ Rooted /\ Tree
  BY DEF EmInv
<1>2. dir[h] \in inode_bitmap
  BY HandleFacts DEF Delete
<1>3. i \in inode_bitmap \cup {-1}
  BY <1>1, <1>2, PathAllocated
<1>4. i \notin {-1, 0}
  BY DEF Delete, SparesRoot
<1>5. /\ FreeInodes(Below(i)) /\ FreeBlocks(Below(i)) /\ CloseHandles(Below(i))
      /\ RemoveEntry(inodes[i].parent, i, Below(i))
      /\ Forget(Below(i), BlocksOf(Below(i)))
      /\ UNCHANGED <<mounted, full>>
  BY DEF Delete
<1>. HIDE DEF i
<1>6. Removal(i, Below(i))
  BY <1>3, <1>4, <1>5 DEF Removal
<1>. QED  BY <1>6

(* What is left when i, an entry of q, is cut off with all that is below it.  *)
CutOff(i, D, q) ==
  /\ i \in D /\ D \subseteq inode_bitmap \ {0} /\ Whole(inodes, D)
  /\ \A c \in D \ {i} : inodes[c].parent \in D
  /\ q \in Allocated("dir") /\ q \notin D /\ i \in Range(inodes[q].mappings)
  /\ inode_bitmap' = inode_bitmap \ D
  /\ inodes' \in [Inodes -> Node]
  /\ \A j \in D : inodes'[j] = NoInode
  /\ \A j \in Inodes \ D : j # q => inodes'[j] = inodes[j]
  /\ \A j \in Inodes \ D : /\ inodes'[j].type = inodes[j].type /\ inodes'[j].name = inodes[j].name
                           /\ inodes'[j].parent = inodes[j].parent
  /\ Range(inodes'[q].mappings) = Range(inodes[q].mappings) \ {i}
  /\ IsInjective(inodes'[q].mappings)
  /\ Len(inodes'[q].mappings) <= MAX_FILE_SIZE

(* Deletion cuts i off its parent. *)
LEMMA RemovedNodes ==
  ASSUME EmTypeOK, Rooted, Tree, NEW i, NEW D, Removal(i, D)
  PROVE  CutOff(i, D, inodes[i].parent)
<1>. DEFINE q == inodes[i].parent
<1>1. i \in inode_bitmap \ {0} /\ D = Below(i)
  BY DEF Removal
<1>2. /\ i \in D /\ D \subseteq inode_bitmap \ {0} /\ Whole(inodes, D)
      /\ \A c \in D \ {i} : inodes[c].parent \in D
      /\ q \notin D
  BY <1>1, SubtreeFacts
<1>3. q \in Allocated("dir") /\ i \in Range(inodes[q].mappings)
  BY <1>1, TreeFacts
<1>4. q \in Inodes /\ D \subseteq Inodes
  BY <1>2, <1>3, TreeFacts DEF Allocated
<1>. DEFINE m == inodes[q].mappings
            k == CHOOSE x \in DOMAIN m : m[x] = i
            r == RemoveAt(m, k)
            up == [inodes[q] EXCEPT !.mappings = r]
<1>5. m \in Seq(Inodes \cup DataBlocks) /\ Len(m) \in Nat /\ Len(m) <= MAX_FILE_SIZE
      /\ inodes[q] \in Node
  BY <1>4, NodeTypes
<1>6. IsInjective(m)
  BY <1>3 DEF Tree
<1>7. k \in DOMAIN m /\ m[k] = i
  BY <1>3 DEF Range
<1>8. /\ r \in Seq(Inodes \cup DataBlocks) /\ Len(r) = Len(m) - 1
      /\ Range(r) = Range(m) \ {i} /\ IsInjective(r)
  <2>. HIDE DEF m, k
  <2>. QED  BY <1>5, <1>6, <1>7, Removed
<1>9. inodes' = [j \in Inodes |-> IF j \in D THEN NoInode ELSE IF j = q THEN up ELSE inodes[j]]
  BY DEF Removal, RemoveEntry
<1>10. up \in Node /\ up.type = inodes[q].type /\ up.name = inodes[q].name
       /\ up.parent = inodes[q].parent /\ up.mappings = r
  <2>. HIDE DEF r, m
  <2>. QED  BY <1>5, <1>8 DEF Node
<1>11. NoInode \in Node
  <2>1. <<>> \in Seq(Inodes \cup DataBlocks)
    OBVIOUS
  <2>. QED  BY <2>1 DEF NoInode, Node, Type
<1>12. inodes \in [Inodes -> Node]
  BY DEF EmTypeOK, Node
<1>13. inode_bitmap' = inode_bitmap \ D
  BY DEF Removal, FreeInodes
<1>. HIDE DEF up, r, k, m
<1>14. /\ inodes' \in [Inodes -> Node]
       /\ \A j \in D : inodes'[j] = NoInode
       /\ \A j \in Inodes \ D : j # q => inodes'[j] = inodes[j]
       /\ inodes'[q] = up
  BY <1>2, <1>4, <1>9, <1>10, <1>11, <1>12
<1>15. \A j \in Inodes \ D : /\ inodes'[j].type = inodes[j].type /\ inodes'[j].name = inodes[j].name
                             /\ inodes'[j].parent = inodes[j].parent
  BY <1>10, <1>14
<1>16. /\ Range(inodes'[q].mappings) = Range(inodes[q].mappings) \ {i}
       /\ IsInjective(inodes'[q].mappings)
       /\ Len(inodes'[q].mappings) <= MAX_FILE_SIZE
  BY <1>5, <1>8, <1>10, <1>14, EmNumbers DEF m
<1>. HIDE DEF q
<1>17. CutOff(i, D, q)
  BY <1>2, <1>3, <1>13, <1>14, <1>15, <1>16 DEF CutOff
<1>. QED  BY <1>17 DEF q

(* The inodes that stay are a tree. *)
LEMMA RemovedTree ==
  ASSUME EmTypeOK, Rooted, Tree, NEW i, NEW D, Removal(i, D)
  PROVE  Tree' /\ Rooted'
<1>. DEFINE A == inode_bitmap
<1>0. PICK q : q = inodes[i].parent /\ CutOff(i, D, q)
  BY RemovedNodes
<1>1. A \subseteq Inodes /\ 0 \in A
  BY TreeFacts
<1>2. /\ i \in D /\ D \subseteq A \ {0} /\ Whole(inodes, D)
      /\ \A c \in D \ {i} : inodes[c].parent \in D
      /\ q \in Allocated("dir") /\ q \notin D /\ i \in Range(inodes[q].mappings)
      /\ A' = A \ D
  BY <1>0 DEF CutOff
<1>3. /\ \A j \in Inodes \ D : j # q => inodes'[j] = inodes[j]
      /\ \A j \in Inodes \ D : /\ inodes'[j].type = inodes[j].type /\ inodes'[j].name = inodes[j].name
                               /\ inodes'[j].parent = inodes[j].parent
      /\ Range(inodes'[q].mappings) = Range(inodes[q].mappings) \ {i}
      /\ IsInjective(inodes'[q].mappings)
  BY <1>0 DEF CutOff
<1>4. \A j \in D : inodes'[j] = NoInode
  BY <1>0 DEF CutOff
<1>5. Allocated("dir")' = Allocated("dir") \ D
  <2>1. \A j \in A \ D : inodes'[j].type = inodes[j].type
    BY <1>1, <1>3
  <2>2. Allocated("dir")' = {j \in A \ D : inodes'[j].type = "dir"}
    BY <1>2 DEF Allocated
  <2>. QED  BY <2>1, <2>2 DEF Allocated
<1>6. ASSUME NEW j \in Allocated("dir"), NEW c \in Range(inodes[j].mappings)
      PROVE  c \in A \ {0} /\ inodes[c].parent = j
  <2>1. c \in A \ {0}
    BY <1>6, TreeFacts
  <2>. QED  BY <1>6, <2>1 DEF Tree
(* What a directory that stays names is what it named, without i.            *)
<1>7. ASSUME NEW j \in Allocated("dir") \ D
      PROVE  /\ Range(inodes'[j].mappings) = Range(inodes[j].mappings) \ {i}
             /\ Range(inodes'[j].mappings) \subseteq A \ D
  <2>1. Range(inodes'[j].mappings) = Range(inodes[j].mappings) \ {i}
    <3>1. CASE j = q
      BY <1>3, <3>1
    <3>2. CASE j # q
      <4>1. i \notin Range(inodes[j].mappings)
        BY <1>0, <1>6, <3>2
      <4>2. j \in Inodes
        BY <1>1 DEF Allocated
      <4>. QED  BY <1>3, <1>7, <3>2, <4>1, <4>2
    <3>. QED  BY <3>1, <3>2
  <2>2. ASSUME NEW c \in Range(inodes[j].mappings), c # i PROVE c \in A \ D
    BY <1>2, <1>6, <1>7, <2>2
  <2>. QED  BY <2>1, <2>2
<1>8. Below(0)' = A'
  <2>1. Below(0)' = Under(inodes', 0)
    BY DEF Below, Under, Layers
  <2>. DEFINE U == Under(inodes', 0)
  <2>2. Whole(inodes', A \ D)
    BY <1>1, <1>3, <1>7 DEF Whole, Allocated
  <2>3. U \subseteq A \ D
    BY <1>1, <1>2, <2>2, UnderLeast
  <2>4. Whole(inodes', Inodes)
    <3>1. ASSUME NEW j \in Inodes, inodes'[j].type = "dir" PROVE Range(inodes'[j].mappings) \subseteq Inodes
      <4>1. j \notin D
        <5>1. NoInode.type = "file"
          BY DEF NoInode
        <5>. QED  BY <1>4, <3>1, <5>1
      <4>2. CASE j = q
        BY <1>1, <1>2, <1>7, <4>2
      <4>3. CASE j # q
        <5>1. inodes'[j] = inodes[j]
          BY <1>3, <4>1, <4>3
        <5>. QED  BY <3>1, <5>1, NodeTypes
      <4>. QED  BY <4>2, <4>3
    <3>. QED  BY <3>1 DEF Whole
  <2>5. Whole(inodes', U) /\ 0 \in U
    BY <1>1, <2>4, UnderWhole, UnderTop
  <2>. HIDE DEF U
  <2>. DEFINE S == U \cup D
  <2>6. Whole(inodes, S)
    <3>1. ASSUME NEW j \in U, inodes[j].type = "dir" PROVE Range(inodes[j].mappings) \subseteq S
      <4>1. j \in Allocated("dir") \ D /\ inodes'[j].type = "dir"
        BY <1>1, <1>3, <2>3, <3>1 DEF Allocated
      <4>2. Range(inodes'[j].mappings) \subseteq U
        BY <2>5, <4>1 DEF Whole
      <4>. QED  BY <1>2, <1>7, <4>1, <4>2
    <3>. QED  BY <1>2, <3>1 DEF Whole
  <2>7. A \subseteq S
    <3>1. Under(inodes, 0) = A
      BY BelowIsUnder DEF Tree
    <3>2. 0 \in S
      BY <2>5
    <3>. HIDE DEF S
    <3>. QED  BY <2>6, <3>1, <3>2, UnderLeast
  <2>8. U = A'
    BY <1>2, <2>3, <2>7
  <2>. QED  BY <2>1, <2>8 DEF U
<1>9. ASSUME NEW p \in Allocated("dir")' PROVE IsInjective(inodes'[p].mappings)
  <2>1. p \in Allocated("dir") \ D /\ p \in Inodes
    BY <1>1, <1>5 DEF Allocated
  <2>. QED  BY <1>3, <2>1 DEF Tree
<1>10. ASSUME NEW c \in A' \ {0}, NEW p \in Allocated("dir")'
       PROVE  c \in Range(inodes'[p].mappings) <=> p = inodes'[c].parent
  <2>1. p \in Allocated("dir") \ D /\ c \in A \ {0} /\ c # i /\ c \in Inodes \ D
    BY <1>1, <1>2, <1>5
  <2>2. c \in Range(inodes[p].mappings) <=> p = inodes[c].parent
    BY <2>1 DEF Tree
  <2>. QED  BY <1>3, <1>7, <2>1, <2>2
<1>11. ASSUME NEW p \in Allocated("dir")', NEW c \in Range(inodes'[p].mappings),
              NEW d \in Range(inodes'[p].mappings),
              inodes'[c].name = inodes'[d].name, inodes'[c].type = inodes'[d].type
       PROVE  c = d
  <2>1. p \in Allocated("dir") \ D
    BY <1>5
  <2>2. /\ c \in Range(inodes[p].mappings) /\ c \in Inodes \ D
        /\ d \in Range(inodes[p].mappings) /\ d \in Inodes \ D
    BY <1>1, <1>7, <2>1
  <2>3. inodes[c].name = inodes[d].name /\ inodes[c].type = inodes[d].type
    BY <1>3, <1>11, <2>2
  <2>. QED  BY <2>1, <2>2, <2>3 DEF Tree
<1>12. Tree'
  BY <1>8, <1>9, <1>10, <1>11 DEF Tree
<1>13. Rooted'
  <2>1. 0 \in Allocated("dir")'
    BY <1>2, <1>5 DEF Rooted
  <2>2. inodes'[0].parent = -1
    BY <1>1, <1>2, <1>3 DEF Rooted
  <2>3. ASSUME NEW p \in Allocated("dir")' PROVE 0 \notin Range(inodes'[p].mappings)
    <3>1. p \in Allocated("dir") \ D
      BY <1>5
    <3>. QED  BY <1>6, <1>7, <3>1
  <2>. QED  BY <2>1, <2>2, <2>3 DEF Rooted
<1>. QED  BY <1>12, <1>13

(* Deleted inodes and blocks leave the bitmaps and the counters.             *)
LEMMA RemovedCounted ==
  ASSUME EmTypeOK, Counters, NEW i, NEW D, Removal(i, D), 0 \in inode_bitmap \ D
  PROVE  /\ Counters'
         /\ inode_bitmap' \subseteq Inodes /\ used_inodes' \in 1..MAX_INODES
         /\ block_bitmap' \subseteq DataBlocks /\ used_blocks' \in 3..MAX_BLOCKS
<1>. DEFINE B == BlocksOf(D)
<1>1. /\ inode_bitmap' = inode_bitmap \ D /\ used_inodes' = used_inodes - Cardinality(inode_bitmap \cap D)
      /\ block_bitmap' = block_bitmap \ B /\ used_blocks' = used_blocks - Cardinality(block_bitmap \cap B)
  BY DEF Removal, FreeInodes, FreeBlocks
<1>2. /\ inode_bitmap \in SUBSET Inodes /\ IsFiniteSet(inode_bitmap)
      /\ block_bitmap \in SUBSET DataBlocks /\ IsFiniteSet(block_bitmap)
      /\ used_inodes = Cardinality(inode_bitmap) /\ used_blocks = 3 + Cardinality(block_bitmap)
  BY EmFinite, FS_Subset DEF EmTypeOK, Counters
<1>. HIDE DEF B
<1>3. /\ Cardinality(inode_bitmap \ D) = Cardinality(inode_bitmap) - Cardinality(inode_bitmap \cap D)
      /\ IsFiniteSet(inode_bitmap \ D)
  BY <1>2, FS_Difference
<1>4. /\ Cardinality(block_bitmap \ B) = Cardinality(block_bitmap) - Cardinality(block_bitmap \cap B)
      /\ IsFiniteSet(block_bitmap \ B)
  BY <1>2, FS_Difference
<1>5. /\ Cardinality(inode_bitmap) \in Nat /\ Cardinality(block_bitmap) \in Nat
      /\ Cardinality(inode_bitmap \ D) \in Nat /\ Cardinality(block_bitmap \ B) \in Nat
  BY <1>2, <1>3, <1>4, FS_CardinalityType
<1>6. IsFiniteSet(block_bitmap \cap B) /\ IsFiniteSet(inode_bitmap \cap D)
  BY <1>2, FS_Intersection
<1>7. Cardinality(block_bitmap \cap B) \in Nat /\ Cardinality(inode_bitmap \cap D) \in Nat
  BY <1>6, FS_CardinalityType
<1>8. used_inodes' = Cardinality(inode_bitmap') /\ used_blocks' = 3 + Cardinality(block_bitmap')
  BY <1>1, <1>2, <1>3, <1>4, <1>5, <1>7
<1>9. inode_bitmap' \in SUBSET Inodes /\ block_bitmap' \in SUBSET DataBlocks
  BY <1>1, <1>2
<1>10. Cardinality(inode_bitmap') <= MAX_INODES /\ Cardinality(block_bitmap') <= MAX_BLOCKS - 3
  BY <1>9, EmFinite, FS_Subset
<1>11. Cardinality(inode_bitmap') # 0
  <2>1. inode_bitmap' # {} /\ IsFiniteSet(inode_bitmap')
    BY <1>1, <1>3
  <2>. QED  BY <2>1, FS_EmptySet
<1>12. Cardinality(inode_bitmap') \in Nat /\ Cardinality(block_bitmap') \in Nat
  BY <1>1, <1>5
<1>. QED  BY <1>8, <1>9, <1>10, <1>11, <1>12, EmNumbers DEF Counters

(* Deletion keeps the invariant. *)
LEMMA RemovedStep == ASSUME EmInv, NEW i, NEW D, Removal(i, D) PROVE EmInv'
<1>. DEFINE A == inode_bitmap
<1>0. EmTypeOK /\ Rooted /\ Unwritten /\ Counters /\ BlocksOwned /\ Tree /\ HandlesValid /\ FilesKeepWrites
  BY DEF EmInv, Allocation
<1>1. PICK q : q = inodes[i].parent /\ CutOff(i, D, q)
  BY <1>0, RemovedNodes
<1>2. /\ A \subseteq Inodes /\ D \subseteq A \ {0} /\ A' = A \ D /\ 0 \in A
      /\ q \in Allocated("dir") /\ q \notin D
  BY <1>0, <1>1, TreeFacts DEF CutOff
<1>3. /\ inodes' \in [Inodes -> Node]
      /\ \A j \in D : inodes'[j] = NoInode
      /\ \A j \in Inodes \ D : j # q => inodes'[j] = inodes[j]
      /\ \A j \in Inodes \ D : inodes'[j].type = inodes[j].type
      /\ Range(inodes'[q].mappings) = Range(inodes[q].mappings) \ {i}
      /\ Len(inodes'[q].mappings) <= MAX_FILE_SIZE
  BY <1>1 DEF CutOff
<1>4. /\ UNCHANGED <<mounted, full>>
      /\ block_bitmap' = block_bitmap \ BlocksOf(D)
      /\ written' = [j \in Inodes |-> IF j \in D THEN Nothing ELSE written[j]]
      /\ data' = [b \in DataBlocks |-> IF b \in BlocksOf(D) THEN Blank ELSE data[b]]
      /\ dir' = [h \in DirHandles |-> IF dir[h] \in D THEN Closed ELSE dir[h]]
      /\ files' = [h \in FileHandles |-> IF files[h].inode \in D THEN NoFile ELSE files[h]]
  BY DEF Removal, FreeBlocks, Forget, CloseHandles
<1>5. /\ Counters'
      /\ inode_bitmap' \subseteq Inodes /\ used_inodes' \in 1..MAX_INODES
      /\ block_bitmap' \subseteq DataBlocks /\ used_blocks' \in 3..MAX_BLOCKS
  BY <1>0, <1>2, RemovedCounted
<1>6. EmTypeOK'
  <2>1. \A j \in Inodes :
           /\ Len(inodes'[j].mappings) <= MAX_FILE_SIZE
           /\ Range(inodes'[j].mappings) \subseteq (IF inodes'[j].type = "dir" THEN Inodes ELSE DataBlocks)
    <3>1. ASSUME NEW j \in D
          PROVE  /\ Len(inodes'[j].mappings) <= MAX_FILE_SIZE /\ Range(inodes'[j].mappings) = {}
      <4>1. NoInode.mappings = <<>> /\ Len(<<>>) = 0
        BY DEF NoInode
      <4>2. Range(<<>>) = {}
        BY DEF Range
      <4>. QED  BY <1>3, <4>1, <4>2, EmNumbers
    <3>2. ASSUME NEW j \in Inodes \ D, j # q
          PROVE  /\ Len(inodes'[j].mappings) <= MAX_FILE_SIZE
                 /\ Range(inodes'[j].mappings) \subseteq
                      (IF inodes'[j].type = "dir" THEN Inodes ELSE DataBlocks)
      BY <1>0, <1>3, <3>2 DEF EmTypeOK
    <3>3. q \in Inodes \ D /\ inodes'[q].type = "dir" /\ Range(inodes'[q].mappings) \subseteq Inodes
      BY <1>0, <1>2, <1>3, NodeTypes DEF Allocated
    <3>. QED  BY <1>3, <3>1, <3>2, <3>3
  <2>2. /\ written' \in [Inodes -> [Positions -> Bytes \cup {Junk}]]
        /\ data' \in [DataBlocks -> [0..(BLOCKSIZE - 1) -> Bytes \cup {Junk}]]
    <3>1. /\ Nothing \in [Positions -> Bytes \cup {Junk}]
          /\ Blank \in [0..(BLOCKSIZE - 1) -> Bytes \cup {Junk}]
      BY DEF Nothing, Blank
    <3>. QED  BY <1>0, <1>4, <3>1 DEF EmTypeOK
  <2>3. /\ dir' \in [DirHandles -> Inodes \cup {Closed}]
        /\ files' \in [FileHandles -> [inode : Inodes \cup {Closed}, offset : Nat]]
    BY <1>0, <1>4, NoFileTyped DEF EmTypeOK
  <2>. QED  BY <1>0, <1>3, <1>4, <1>5, <2>1, <2>2, <2>3 DEF EmTypeOK, Node
(* The allocated files are those that were, without D. *)
<1>7. /\ Allocated("file")' = Allocated("file") \ D
      /\ Allocated("dir")' = Allocated("dir") \ D
      /\ \A j \in Allocated("file") \ D : j \in Inodes /\ inodes[j].type = "file" /\ inodes'[j] = inodes[j]
  <2>1. \A j \in A \ D : inodes'[j].type = inodes[j].type
    BY <1>2, <1>3
  <2>2. \A type : Allocated(type)' = {j \in A \ D : inodes'[j].type = type}
    BY <1>2 DEF Allocated
  <2>3. Allocated("file")' = Allocated("file") \ D
    BY <2>1, <2>2 DEF Allocated
  <2>4. Allocated("dir")' = Allocated("dir") \ D
    BY <2>1, <2>2 DEF Allocated
  <2>5. ASSUME NEW j \in Allocated("file") \ D PROVE j \in Inodes /\ inodes[j].type = "file" /\ inodes'[j] = inodes[j]
    <3>1. j \in Inodes \ D /\ inodes[j].type = "file"
      BY <1>2 DEF Allocated
    <3>2. j # q
      BY <1>2, <3>1 DEF Allocated
    <3>. QED  BY <1>3, <3>1, <3>2
  <2>. QED  BY <2>3, <2>4, <2>5
<1>8. ASSUME NEW j \in Allocated("file") \ D PROVE Range(inodes[j].mappings) \cap BlocksOf(D) = {}
  <2>1. SUFFICES ASSUME NEW b \in Range(inodes[j].mappings), b \in BlocksOf(D) PROVE FALSE
    OBVIOUS
  <2>2. PICK c \in D : inodes[c].type = "file" /\ b \in Range(inodes[c].mappings)
    BY <2>1 DEF BlocksOf
  <2>3. c \in Allocated("file") /\ c # j
    BY <1>2, <1>8, <2>2 DEF Allocated
  <2>. QED  BY <1>0, <1>8, <2>1, <2>2, <2>3 DEF BlocksOwned
<1>9. BlocksOf(A)' = BlocksOf(A) \ BlocksOf(D)
  <2>1. BlocksOf(A)' = UNION {Range(inodes'[j].mappings) : j \in {k \in A \ D : inodes'[k].type = "file"}}
    BY <1>2 DEF BlocksOf
  <2>2. {k \in A \ D : inodes'[k].type = "file"} = Allocated("file") \ D
    BY <1>2, <1>7 DEF Allocated
  <2>3. ASSUME NEW b \in BlocksOf(A)' PROVE b \in BlocksOf(A) \ BlocksOf(D)
    <3>1. PICK j \in Allocated("file") \ D : b \in Range(inodes'[j].mappings)
      BY <2>1, <2>2
    <3>2. b \in Range(inodes[j].mappings) /\ b \notin BlocksOf(D)
      BY <1>7, <1>8, <3>1
    <3>. QED  BY <3>2 DEF BlocksOf, Allocated
  <2>4. ASSUME NEW b \in BlocksOf(A) \ BlocksOf(D) PROVE b \in BlocksOf(A)'
    <3>1. PICK j \in A : inodes[j].type = "file" /\ b \in Range(inodes[j].mappings)
      BY DEF BlocksOf
    <3>2. j \notin D
      BY <2>4, <3>1 DEF BlocksOf
    <3>3. j \in Allocated("file") \ D
      BY <3>1, <3>2 DEF Allocated
    <3>4. b \in Range(inodes'[j].mappings)
      BY <1>7, <3>1, <3>3
    <3>. QED  BY <2>1, <2>2, <3>3, <3>4
  <2>. QED  BY <2>3, <2>4
<1>10. Allocation'
  <2>1. \A j \in Allocated("file")' : IsInjective(inodes'[j].mappings)
    BY <1>0, <1>7 DEF BlocksOwned
  <2>2. \A j, k \in Allocated("file")' :
           j # k => Range(inodes'[j].mappings) \cap Range(inodes'[k].mappings) = {}
    BY <1>0, <1>7 DEF BlocksOwned
  <2>3. BlocksOf(A)' \subseteq block_bitmap' /\ (~full' => block_bitmap' = BlocksOf(A)')
    BY <1>0, <1>4, <1>9 DEF BlocksOwned
  <2>4. BlocksOwned'
    BY <2>1, <2>2, <2>3 DEF BlocksOwned
  <2>. QED  BY <1>5, <2>4 DEF Allocation
<1>11. HandlesValid'
  <2>1. \A j \in Allocated("file") \ D : Size(j)' = Size(j)
    BY <1>7 DEF Size
  <2>2. ASSUME NEW h \in DirHandles, dir'[h] # Closed PROVE dir'[h] \in Allocated("dir")'
    <3>1. dir'[h] = dir[h] /\ dir[h] \notin D
      BY <1>4, <2>2
    <3>. QED  BY <1>0, <1>7, <2>2, <3>1 DEF HandlesValid
  <2>3. ASSUME NEW f \in FileHandles, files'[f] # NoFile
        PROVE  /\ files'[f].inode \in Allocated("file")'
               /\ files'[f].offset <= Size(files[f].inode)'
    <3>1. files'[f] = files[f] /\ files[f].inode \notin D
      BY <1>4, <2>3
    <3>2. files[f].inode \in Allocated("file") \ D /\ files[f].offset <= Size(files[f].inode)
      BY <1>0, <2>3, <3>1 DEF HandlesValid
    <3>3. PICK j : j = files[f].inode
      OBVIOUS
    <3>4. j \in Allocated("file") \ D /\ files'[f].inode = j /\ files'[f].offset <= Size(j)
      BY <3>1, <3>2, <3>3
    <3>5. Size(files[f].inode)' = Size(j)'
      BY <3>4 DEF Size
    <3>6. Size(j)' = Size(j)
      BY <2>1, <3>4
    <3>. QED  BY <1>7, <3>4, <3>5, <3>6
  <2>. QED  BY <2>2, <2>3 DEF HandlesValid
<1>12. FilesKeepWrites'
  <2>1. ASSUME NEW j \in Allocated("file")', NEW k \in Positions, written'[j][k] # Junk
        PROVE  ByteOf(j, k)' = written'[j][k]
    <3>1. j \in Allocated("file") \ D
      BY <1>7
    <3>2. written'[j] = written[j]
      BY <1>4, <1>7, <3>1
    <3>3. \A b \in Range(inodes[j].mappings) : b \in DataBlocks /\ b \notin BlocksOf(D)
      BY <1>0, <1>7, <1>8, <3>1, NodeTypes
    <3>4. \A b \in Range(inodes[j].mappings) : data'[b] = data[b]
      BY <1>4, <3>3
    <3>5. ByteOf(j, k)' = ByteOf(j, k)
      BY <1>0, <1>7, <3>1, <3>4, SameBytes
    <3>. QED  BY <1>0, <2>1, <3>1, <3>2, <3>5 DEF FilesKeepWrites
  <2>. QED  BY <2>1 DEF FilesKeepWrites
<1>13. Unwritten'
  BY <1>0, <1>2, <1>4 DEF Unwritten
<1>14. Tree' /\ Rooted'
  BY <1>0, RemovedTree
<1>. QED  BY <1>6, <1>10, <1>11, <1>12, <1>13, <1>14 DEF EmInv

(* An injective sequence has as many elements as it is long. *)
LEMMA RangeCounted ==
  ASSUME NEW S, NEW m \in Seq(S), IsInjective(m)
  PROVE  IsFiniteSet(Range(m)) /\ Cardinality(Range(m)) = Len(m)
<1>. DEFINE D == 1..Len(m)
<1>1. Len(m) \in Nat /\ DOMAIN m = D /\ m \in [D -> S]
  OBVIOUS
<1>2. IsFiniteSet(D) /\ Cardinality(D) = Len(m)
  <2>1. 1 \in Int /\ Len(m) \in Int
    OBVIOUS
  <2>2. IsFiniteSet(1..Len(m)) /\ Cardinality(1..Len(m)) = IF 1 > Len(m) THEN 0 ELSE Len(m) - 1 + 1
    BY <2>1, FS_Interval
  <2>. QED  BY <1>1, <2>2
<1>. HIDE DEF D
<1>3. m \in [D -> Range(m)] /\ (\A x \in Range(m) : \E n \in D : m[n] = x)
  BY <1>1 DEF Range
<1>4. m \in Surjection(D, Range(m)) /\ m \in Injection(D, Range(m))
  BY <1>1, <1>3 DEF Surjection, Injection, IsInjective
<1>. QED  BY <1>2, <1>4, FS_Surjection

(* Taking free blocks keeps the counters right. *)
LEMMA TakenCounted ==
  ASSUME EmTypeOK, Counters, NEW N \in SUBSET Free,
         block_bitmap' = block_bitmap \cup N, used_blocks' = used_blocks + Cardinality(N),
         UNCHANGED <<inode_bitmap, used_inodes>>
  PROVE  Counters' /\ block_bitmap' \subseteq DataBlocks /\ used_blocks' \in 3..MAX_BLOCKS
<1>1. /\ block_bitmap \in SUBSET DataBlocks /\ N \in SUBSET DataBlocks /\ block_bitmap \cap N = {}
      /\ block_bitmap \cup N \in SUBSET DataBlocks
  BY DEF EmTypeOK, Free
<1>2. IsFiniteSet(block_bitmap) /\ IsFiniteSet(N)
  BY <1>1, EmFinite, FS_Subset
<1>3. Cardinality(block_bitmap) \in Nat /\ Cardinality(N) \in Nat
  BY <1>2, FS_CardinalityType
<1>4. Cardinality(block_bitmap \cup N)
      = Cardinality(block_bitmap) + Cardinality(N) - Cardinality(block_bitmap \cap N)
  BY <1>2, FS_Union
<1>5. Cardinality(block_bitmap \cup N) = Cardinality(block_bitmap) + Cardinality(N)
  <2>1. Cardinality(block_bitmap \cap N) = 0
    BY <1>1, FS_EmptySet, Zenon
  <2>. QED  BY <1>3, <1>4, <2>1
<1>6. Cardinality(block_bitmap \cup N) <= MAX_BLOCKS - 3
  BY <1>1, EmFinite, FS_Subset
<1>7. Cardinality(block_bitmap') = Cardinality(block_bitmap) + Cardinality(N)
      /\ Cardinality(block_bitmap') <= MAX_BLOCKS - 3
  BY <1>5, <1>6
<1>8. /\ used_inodes' = Cardinality(inode_bitmap') /\ used_blocks' = 3 + Cardinality(block_bitmap')
      /\ Cardinality(block_bitmap') \in Nat
  BY <1>3, <1>7 DEF Counters
<1>9. used_blocks' \in 3..MAX_BLOCKS
  BY <1>7, <1>8, EmNumbers
<1>10. block_bitmap' \subseteq DataBlocks
  BY <1>1
<1>. QED  BY <1>8, <1>9, <1>10 DEF Counters

(* A write that finds the disk full keeps the invariant. *)
LEMMA WriteFullStep ==
  ASSUME EmInv, NEW f \in FileHandles, NEW size \in Sizes, WriteFull(f, size) PROVE EmInv'
<1>1. EmTypeOK /\ Rooted /\ Unwritten /\ Counters /\ BlocksOwned /\ Tree /\ HandlesValid /\ FilesKeepWrites
  BY DEF EmInv, Allocation
<1>2. /\ block_bitmap' = block_bitmap \cup Free /\ used_blocks' = used_blocks + Cardinality(Free)
      /\ full' = TRUE
      /\ UNCHANGED <<mounted, inode_bitmap, used_inodes, inodes, data, dir, files, written>>
  BY <1>1, FreeBlocksOnce DEF WriteFull, Free, EmTypeOK
<1>3. Counters' /\ block_bitmap' \subseteq DataBlocks /\ used_blocks' \in 3..MAX_BLOCKS
  <2>1. Free \in SUBSET Free /\ UNCHANGED <<inode_bitmap, used_inodes>>
    BY <1>2
  <2>. QED  BY <1>1, <1>2, <2>1, TakenCounted
<1>4. EmTypeOK'
  BY <1>1, <1>2, <1>3 DEF EmTypeOK
<1>5. BlocksOwned'
  BY <1>1, <1>2 DEF BlocksOwned, BlocksOf, Allocated
<1>6. Tree' /\ Rooted' /\ Unwritten'
  BY <1>1, <1>2 DEF Tree, Below, Rooted, Unwritten, Allocated
<1>7. HandlesValid' /\ FilesKeepWrites'
  BY <1>1, <1>2 DEF HandlesValid, FilesKeepWrites, Allocated, Size, ByteOf
<1>. QED  BY <1>3, <1>4, <1>5, <1>6, <1>7 DEF EmInv, Allocation

-----------------------------------------------------------------------------
(* A write: file i, with the mappings m afterwards, up to position end. *)

(* What a write that has got its blocks leaves. *)
Longer(i, m, from, end, byte) ==
  /\ i \in Allocated("file") /\ i \in Inodes /\ inodes[i].type = "file"
  /\ from \in Nat /\ end \in Nat /\ from <= end /\ byte \in Bytes
  /\ m \in Seq(DataBlocks) /\ IsInjective(m)
  /\ Len(m) \in Nat /\ Len(m) <= MAX_FILE_SIZE
  /\ end <= Len(m) * BLOCKSIZE
  /\ Len(inodes[i].mappings) <= Len(m)
  /\ \A x \in DOMAIN inodes[i].mappings : x \in DOMAIN m /\ m[x] = inodes[i].mappings[x]
  /\ Range(m) \ Range(inodes[i].mappings) \subseteq Free
  /\ block_bitmap' = block_bitmap \cup Range(m)
  /\ inodes' = [inodes EXCEPT ![i].mappings = m]
  /\ WriteBlocks(i, m, from, end, byte)
  /\ written' = [written EXCEPT ![i] =
                   [k \in Positions |-> IF k >= from /\ k < end THEN byte ELSE @[k]]]
  /\ UNCHANGED <<mounted, inode_bitmap, used_inodes, dir, full>>

(* emufs_write() makes its file as long as it has to be, with free blocks.   *)
LEMMA WriteLengthens ==
  ASSUME EmInv, NEW f \in FileHandles, NEW size \in Sizes, NEW byte \in Bytes, Write(f, size, byte)
  PROVE  \E i, m, from, end :
           /\ Longer(i, m, from, end, byte)
           /\ Counters' /\ used_blocks' \in 3..MAX_BLOCKS
           /\ files[f] # NoFile /\ files[f].inode = i
           /\ files' = [files EXCEPT ![f].offset = end]
<1>. DEFINE i == files[f].inode
            from == files[f].offset
            end == from + size
            old == inodes[i].mappings
            want == (end + BLOCKSIZE - 1) \div BLOCKSIZE
            new == SubSeq(FreeBlockSeq, 1, Missing(i, end))
            m == old \o new
<1>1. EmTypeOK /\ Counters /\ BlocksOwned
  BY DEF EmInv, Allocation
<1>2. /\ i \in Allocated("file") /\ i \in Inodes /\ inodes[i].type = "file" /\ i \in inode_bitmap
      /\ from \in Nat /\ size \in Nat /\ end \in Nat /\ from <= end /\ files[f] # NoFile
  <2>1. files[f] # NoFile
    BY DEF Write
  <2>2. i \in Allocated("file") /\ i \in Inodes /\ from \in Nat
    BY <2>1, HandleFacts
  <2>3. size \in Nat
    BY EmufsAssumption
  <2>4. inodes[i].type = "file" /\ i \in inode_bitmap
    BY <2>2 DEF Allocated
  <2>5. end \in Nat /\ from <= end
    <3>. HIDE DEF from
    <3>. QED  BY <2>2, <2>3
  <2>. QED  BY <2>1, <2>2, <2>3, <2>4, <2>5
<1>3. /\ end <= MAX_FILE_SIZE * BLOCKSIZE
      /\ Missing(i, end) <= Len(FreeBlockSeq)
      /\ block_bitmap' = block_bitmap \cup Range(new)
      /\ used_blocks' = used_blocks + Len(new)
      /\ inodes' = [inodes EXCEPT ![i].mappings = m]
      /\ WriteBlocks(i, m, from, end, byte)
      /\ files' = [files EXCEPT ![f].offset = end]
      /\ written' = [written EXCEPT ![i] =
                       [k \in Positions |-> IF k >= from /\ k < end THEN byte ELSE @[k]]]
      /\ UNCHANGED <<mounted, inode_bitmap, used_inodes, dir, full>>
  BY DEF Write
<1>4. /\ old \in Seq(Inodes \cup DataBlocks) /\ Range(old) \subseteq DataBlocks
      /\ Len(old) \in Nat /\ Len(old) <= MAX_FILE_SIZE /\ IsInjective(old)
  BY <1>1, <1>2, NodeTypes DEF BlocksOwned
<1>5. old \in Seq(DataBlocks)
  <2>. DEFINE o == old
  <2>1. o \in Seq(Inodes \cup DataBlocks) /\ \A x \in DOMAIN o : o[x] \in DataBlocks
    BY <1>4 DEF Range
  <2>. HIDE DEF o
  <2>2. o \in Seq(DataBlocks)
    BY <2>1
  <2>. QED  BY <2>2 DEF o
<1>6. want \in Nat /\ end <= want * BLOCKSIZE /\ want <= MAX_FILE_SIZE
  <2>. HIDE DEF end
  <2>. QED  BY <1>2, <1>3, EmNumbers, RoundedUp
<1>7. Missing(i, end) = IF want > Len(old) THEN want - Len(old) ELSE 0
  BY DEF Missing
<1>8. /\ Missing(i, end) \in 0..Len(FreeBlockSeq)
      /\ Len(old) + Missing(i, end) \in Nat
      /\ Len(old) + Missing(i, end) <= MAX_FILE_SIZE
      /\ want <= Len(old) + Missing(i, end)
  <2>1. Len(FreeBlockSeq) \in Nat
    BY FreeBlocksOnce
  <2>. HIDE DEF want, old, i, end
  <2>. QED  BY <1>3, <1>4, <1>6, <1>7, <2>1
<1>9. /\ new \in Seq(Free) /\ Len(new) = Missing(i, end)
      /\ IsInjective(new) /\ Range(new) \subseteq Free
  BY <1>8, FreeBlocksOnce, Prefix
<1>10. Range(old) \subseteq block_bitmap
  BY <1>1, <1>2 DEF BlocksOwned, BlocksOf
<1>11. Range(old) \cap Range(new) = {} /\ new \in Seq(DataBlocks)
  <2>1. Free \subseteq DataBlocks /\ Free \cap block_bitmap = {}
    BY DEF Free
  <2>. HIDE DEF new, old
  <2>2. Range(old) \cap Range(new) = {}
    BY <1>9, <1>10, <2>1
  <2>3. \A x \in 1..Len(new) : new[x] \in DataBlocks
    BY <1>9, <2>1
  <2>4. new \in Seq(DataBlocks)
    BY <1>9, <2>3
  <2>. QED  BY <2>2, <2>4
<1>12. /\ m \in Seq(DataBlocks) /\ Len(m) = Len(old) + Len(new)
       /\ Range(m) = Range(old) \cup Range(new) /\ IsInjective(m)
       /\ \A x \in DOMAIN old : x \in DOMAIN m /\ m[x] = old[x]
  <2>1. old \in Seq(DataBlocks) /\ new \in Seq(DataBlocks) /\ IsInjective(old) /\ IsInjective(new)
        /\ Range(old) \cap Range(new) = {}
    BY <1>4, <1>5, <1>9, <1>11
  <2>. HIDE DEF old, new
  <2>. QED  BY ONLY <2>1, Joined
<1>13. end <= Len(m) * BLOCKSIZE
  <2>1. Len(m) \in Nat /\ want <= Len(m) /\ BLOCKSIZE \in Nat
    BY <1>8, <1>9, <1>12, EmNumbers
  <2>. HIDE DEF want, m, end
  <2>2. want * BLOCKSIZE <= Len(m) * BLOCKSIZE
    BY ONLY <1>6, <2>1
  <2>3. want * BLOCKSIZE \in Nat /\ Len(m) * BLOCKSIZE \in Nat
    BY ONLY <1>6, <2>1
  <2>. QED  BY <1>2, <1>6, <2>2, <2>3
<1>14. Counters' /\ used_blocks' \in 3..MAX_BLOCKS
  <2>1. Cardinality(Range(new)) = Len(new) /\ Range(new) \in SUBSET Free
    BY <1>9, RangeCounted
  <2>. HIDE DEF new
  <2>. QED  BY <1>1, <1>3, <2>1, TakenCounted
<1>15. Longer(i, m, from, end, byte)
  <2>1. block_bitmap' = block_bitmap \cup Range(m) /\ Range(m) \ Range(old) \subseteq Free
    <3>. HIDE DEF new, old, m
    <3>. QED  BY <1>3, <1>9, <1>10, <1>12
  <2>2. Len(m) \in Nat /\ Len(m) <= MAX_FILE_SIZE /\ Len(old) <= Len(m)
    <3>. HIDE DEF new, old, m
    <3>. QED  BY <1>4, <1>8, <1>9, <1>12
  <2>. HIDE DEF new, m, from, end, i
  <2>. QED  BY <1>2, <1>3, <1>12, <1>13, <2>1, <2>2 DEF Longer
<1>. HIDE DEF m, from, end, i
<1>16. files[f].inode = i
  BY DEF i
<1>. QED  BY <1>2, <1>3, <1>14, <1>15, <1>16

(* A byte of a file is one somebody has written or junk. *)
LEMMA ByteTyped ==
  ASSUME EmTypeOK, NEW i \in Inodes, inodes[i].type = "file", NEW k \in Nat
  PROVE  ByteOf(i, k) \in Bytes \cup {Junk}
<1>. DEFINE m == inodes[i].mappings
<1>1. /\ m \in Seq(Inodes \cup DataBlocks) /\ Len(m) \in Nat /\ DOMAIN m = 1..Len(m)
      /\ Range(m) \subseteq DataBlocks
  BY NodeTypes
<1>2. CASE k < Len(m) * BLOCKSIZE
  <2>1. k \div BLOCKSIZE \in Nat /\ k \div BLOCKSIZE < Len(m) /\ k % BLOCKSIZE \in 0..(BLOCKSIZE - 1)
    BY <1>1, <1>2, EmNumbers, Place, PlaceInside
  <2>2. k \div BLOCKSIZE + 1 \in DOMAIN m
    BY <1>1, <2>1
  <2>3. m[k \div BLOCKSIZE + 1] \in DataBlocks
    BY <1>1, <2>2 DEF Range
  <2>4. data[m[k \div BLOCKSIZE + 1]][k % BLOCKSIZE] \in Bytes \cup {Junk}
    <3>1. data \in [DataBlocks -> [0..(BLOCKSIZE - 1) -> Bytes \cup {Junk}]]
      BY DEF EmTypeOK
    <3>2. data[m[k \div BLOCKSIZE + 1]] \in [0..(BLOCKSIZE - 1) -> Bytes \cup {Junk}]
      BY <2>3, <3>1
    <3>. QED  BY <2>1, <3>2
  <2>. QED  BY <1>2, <2>4 DEF ByteOf
<1>3. CASE ~(k < Len(m) * BLOCKSIZE)
  BY <1>3 DEF ByteOf
<1>. QED  BY <1>2, <1>3

(* What a write leaves at position k of its file. *)
LEMMA BlockWritten ==
  ASSUME NEW i, NEW m \in Seq(DataBlocks), IsInjective(m), NEW from, NEW end, NEW byte,
         WriteBlocks(i, m, from, end, byte), NEW k \in Nat, k < Len(m) * BLOCKSIZE
  PROVE  data'[m[k \div BLOCKSIZE + 1]][k % BLOCKSIZE]
         = IF k >= from /\ k < end THEN byte ELSE ByteOf(i, k)
<1>. DEFINE d == k \div BLOCKSIZE
            r == k % BLOCKSIZE
            b == m[d + 1]
<1>1. Len(m) \in Nat /\ DOMAIN m = 1..Len(m) /\ \A x \in DOMAIN m : m[x] \in DataBlocks
  OBVIOUS
<1>2. d \in Nat /\ d < Len(m) /\ r \in 0..(BLOCKSIZE - 1) /\ d * BLOCKSIZE + r = k
  BY <1>1, EmNumbers, Place, PlaceInside
<1>. HIDE DEF d, r
<1>3. d + 1 \in DOMAIN m /\ b \in DataBlocks /\ b \in Range(m)
  BY <1>1, <1>2 DEF Range
<1>4. (CHOOSE n \in DOMAIN m : m[n] = b) = d + 1
  <2>. DEFINE c == CHOOSE n \in DOMAIN m : m[n] = b
  <2>1. c \in DOMAIN m /\ m[c] = b
    BY <1>3
  <2>. HIDE DEF c
  <2>2. c = d + 1
    BY <1>3, <2>1 DEF IsInjective
  <2>. QED  BY <2>2 DEF c
<1>5. ((CHOOSE n \in DOMAIN m : m[n] = b) - 1) * BLOCKSIZE + r = k
  <2>1. (d + 1) - 1 = d
    BY <1>2
  <2>. QED  BY <1>2, <1>4, <2>1
<1>6. data'[b][r] = LET pos == ((CHOOSE n \in DOMAIN m : m[n] = b) - 1) * BLOCKSIZE + r
                    IN  IF pos >= from /\ pos < end THEN byte ELSE ByteOf(i, pos)
  <2>. HIDE DEF b
  <2>. QED  BY <1>2, <1>3 DEF WriteBlocks
<1>. HIDE DEF b
<1>7. data'[b][r] = IF k >= from /\ k < end THEN byte ELSE ByteOf(i, k)
  BY <1>5, <1>6
<1>. QED  BY <1>7 DEF b, d, r

(* The other blocks stay as they are, and all of them hold bytes. *)
LEMMA BlocksTyped ==
  ASSUME EmTypeOK, NEW i, NEW m, NEW from, NEW end, NEW byte, Longer(i, m, from, end, byte)
  PROVE  /\ data' \in [DataBlocks -> [0..(BLOCKSIZE - 1) -> Bytes \cup {Junk}]]
         /\ \A b \in DataBlocks \ Range(m) : data'[b] = data[b]
<1>. DEFINE Rest == 0..(BLOCKSIZE - 1)
            pos(b, k) == ((CHOOSE n \in DOMAIN m : m[n] = b) - 1) * BLOCKSIZE + k
            new(b, k) == IF b \notin Range(m) THEN data[b][k]
                         ELSE IF pos(b, k) >= from /\ pos(b, k) < end THEN byte
                         ELSE ByteOf(i, pos(b, k))
<1>1. data' = [b \in DataBlocks |-> [k \in Rest |-> new(b, k)]]
  BY DEF Longer, WriteBlocks
<1>2. ASSUME NEW b \in Range(m), NEW k \in Rest PROVE pos(b, k) \in Nat
  <2>. DEFINE c == CHOOSE n \in DOMAIN m : m[n] = b
  <2>1. c \in DOMAIN m
    BY DEF Range
  <2>. HIDE DEF c
  <2>2. c \in Nat \ {0}
    <3>1. m \in Seq(DataBlocks)
      BY DEF Longer
    <3>. QED  BY <2>1, <3>1
  <2>3. c - 1 \in Nat /\ BLOCKSIZE \in Nat /\ k \in Nat
    BY <2>2, EmNumbers
  <2>4. (c - 1) * BLOCKSIZE \in Nat
    BY ONLY <2>3
  <2>5. (c - 1) * BLOCKSIZE + k \in Nat
    BY ONLY <2>3, <2>4
  <2>. QED  BY <2>5 DEF c
<1>3. ASSUME NEW b \in DataBlocks, NEW k \in Rest PROVE new(b, k) \in Bytes \cup {Junk}
  <2>1. CASE b \notin Range(m)
    <3>1. data \in [DataBlocks -> [Rest -> Bytes \cup {Junk}]]
      BY DEF EmTypeOK
    <3>2. data[b][k] \in Bytes \cup {Junk}
      BY <3>1
    <3>. QED  BY <2>1, <3>2
  <2>2. CASE b \in Range(m)
    <3>1. byte \in Bytes
      BY DEF Longer
    <3>2. ByteOf(i, pos(b, k)) \in Bytes \cup {Junk}
      <4>1. pos(b, k) \in Nat
        BY <1>2, <2>2
      <4>. HIDE DEF pos
      <4>. QED  BY <4>1, ByteTyped DEF Longer
    <3>. HIDE DEF pos
    <3>. QED  BY <2>2, <3>1, <3>2
  <2>. QED  BY <2>1, <2>2
<1>4. ASSUME NEW b \in DataBlocks \ Range(m) PROVE data'[b] = data[b]
  <2>1. data'[b] = [k \in Rest |-> data[b][k]]
    BY <1>1
  <2>2. data[b] \in [Rest -> Bytes \cup {Junk}]
    BY DEF EmTypeOK
  <2>. QED  BY <2>1, <2>2
<1>. HIDE DEF new
<1>5. data' \in [DataBlocks -> [Rest -> Bytes \cup {Junk}]]
  BY <1>1, <1>3
<1>. QED  BY <1>4, <1>5

(* The inodes afterwards: only the mappings of i are new. *)
LEMMA LongerNodes ==
  ASSUME EmTypeOK, NEW i, NEW m, NEW from, NEW end, NEW byte, Longer(i, m, from, end, byte)
  PROVE  /\ inodes' \in [Inodes -> Node]
         /\ inodes'[i].mappings = m
         /\ \A j \in Inodes \ {i} : inodes'[j] = inodes[j]
         /\ \A j \in Inodes : /\ inodes'[j].type = inodes[j].type /\ inodes'[j].name = inodes[j].name
                              /\ inodes'[j].parent = inodes[j].parent
<1>1. i \in Inodes /\ m \in Seq(DataBlocks) /\ inodes' = [inodes EXCEPT ![i].mappings = m]
  BY DEF Longer
<1>2. inodes \in [Inodes -> Node] /\ inodes[i] \in Node
  BY <1>1 DEF EmTypeOK, Node
<1>3. m \in Seq(Inodes \cup DataBlocks)
  BY <1>1
<1>. DEFINE up == [inodes[i] EXCEPT !.mappings = m]
<1>4. inodes' = [j \in Inodes |-> IF j = i THEN up ELSE inodes[j]]
  BY <1>1, <1>2
<1>5. up \in Node /\ up.type = inodes[i].type /\ up.name = inodes[i].name
      /\ up.parent = inodes[i].parent /\ up.mappings = m
  BY <1>2, <1>3 DEF Node
<1>. HIDE DEF up
<1>6. inodes'[i] = up /\ \A j \in Inodes \ {i} : inodes'[j] = inodes[j]
  BY <1>1, <1>4
<1>7. inodes' \in [Inodes -> Node]
  BY <1>2, <1>4, <1>5
<1>. QED  BY <1>5, <1>6, <1>7

(* The tree does not change. *)
LEMMA LongerTree ==
  ASSUME EmTypeOK, Rooted, Tree,
         NEW i, NEW m, NEW from, NEW end, NEW byte, Longer(i, m, from, end, byte)
  PROVE  Tree' /\ Rooted' /\ \A type \in Type : Allocated(type)' = Allocated(type)
<1>. DEFINE A == inode_bitmap
<1>1. /\ A \subseteq Inodes /\ A' = A /\ 0 \in A
      /\ \A j \in Inodes \ {i} : inodes'[j] = inodes[j]
      /\ \A j \in Inodes : /\ inodes'[j].type = inodes[j].type /\ inodes'[j].name = inodes[j].name
                           /\ inodes'[j].parent = inodes[j].parent
      /\ i \in Inodes /\ inodes[i].type = "file"
  BY TreeFacts, LongerNodes DEF Longer
<1>2. \A type \in Type : Allocated(type)' = Allocated(type)
  <2>1. \A j \in A : inodes'[j].type = inodes[j].type
    BY <1>1
  <2>. QED  BY <1>1, <2>1 DEF Allocated
<1>3. \A j \in Inodes : inodes[j].type = "dir" => inodes'[j] = inodes[j]
  BY <1>1
<1>4. \A S \in SUBSET Inodes : Whole(inodes', S) <=> Whole(inodes, S)
  BY <1>1, <1>3 DEF Whole
<1>5. Below(0)' = A'
  <2>1. Below(0)' = Under(inodes', 0)
    BY DEF Below, Under, Layers
  <2>. DEFINE U == Under(inodes', 0)
  <2>2. Whole(inodes, A) /\ Whole(inodes, Inodes)
    BY TreeFacts
  <2>3. Whole(inodes', A) /\ Whole(inodes', Inodes)
    BY <1>1, <1>4, <2>2
  <2>4. U \subseteq A
    BY <1>1, <2>3, UnderLeast
  <2>5. Whole(inodes', U) /\ 0 \in U
    BY <1>1, <2>3, UnderWhole, UnderTop
  <2>. HIDE DEF U
  <2>6. Whole(inodes, U)
    BY <1>1, <1>4, <2>4, <2>5
  <2>7. Under(inodes, 0) = A
    BY BelowIsUnder DEF Tree
  <2>8. A \subseteq U
    BY <2>5, <2>6, <2>7, UnderLeast
  <2>. QED  BY <1>1, <2>1, <2>4, <2>8 DEF U
<1>6. Allocated("dir")' = Allocated("dir") /\ \A p \in Allocated("dir") : p \in Inodes /\ inodes'[p] = inodes[p]
  BY <1>1, <1>2, <1>3 DEF Allocated, Type
<1>7. Rooted'
  BY <1>1, <1>6 DEF Rooted
<1>8. ASSUME NEW p \in Allocated("dir"), NEW c \in Range(inodes[p].mappings), NEW d \in Range(inodes[p].mappings),
             inodes'[c].name = inodes'[d].name, inodes'[c].type = inodes'[d].type
      PROVE  c = d
  <2>1. c \in Inodes /\ d \in Inodes
    BY <1>1, TreeFacts
  <2>. QED  BY <1>1, <1>8, <2>1 DEF Tree
<1>9. ASSUME NEW j \in A \ {0}, NEW p \in Allocated("dir")
      PROVE  j \in Range(inodes'[p].mappings) <=> p = inodes'[j].parent
  BY <1>1, <1>6 DEF Tree
<1>10. \A p \in Allocated("dir") : IsInjective(inodes'[p].mappings)
  BY <1>6 DEF Tree
<1>11. Tree'
  BY <1>1, <1>5, <1>6, <1>8, <1>9, <1>10 DEF Tree
<1>. QED  BY <1>2, <1>7, <1>11

(* The types stay. *)
LEMMA LongerTyped ==
  ASSUME EmTypeOK, NEW i, NEW m, NEW from, NEW end, NEW byte, Longer(i, m, from, end, byte),
         Counters', block_bitmap' \subseteq DataBlocks, used_blocks' \in 3..MAX_BLOCKS,
         NEW f \in FileHandles, files' = [files EXCEPT ![f].offset = end]
  PROVE  EmTypeOK'
<1>1. /\ inodes' \in [Inodes -> Node]
      /\ inodes'[i].mappings = m
      /\ \A j \in Inodes \ {i} : inodes'[j] = inodes[j]
      /\ \A j \in Inodes : inodes'[j].type = inodes[j].type
  BY LongerNodes
<1>2. /\ i \in Inodes /\ inodes[i].type = "file" /\ Len(m) <= MAX_FILE_SIZE /\ m \in Seq(DataBlocks)
      /\ byte \in Bytes /\ end \in Nat
      /\ written' = [written EXCEPT ![i] =
                       [k \in Positions |-> IF k >= from /\ k < end THEN byte ELSE @[k]]]
      /\ UNCHANGED <<mounted, inode_bitmap, used_inodes, dir, full>>
  BY DEF Longer
<1>3. \A j \in Inodes :
         /\ Len(inodes'[j].mappings) <= MAX_FILE_SIZE
         /\ Range(inodes'[j].mappings) \subseteq (IF inodes'[j].type = "dir" THEN Inodes ELSE DataBlocks)
  <2>1. Range(m) \subseteq DataBlocks
    BY <1>2 DEF Range
  <2>2. ASSUME NEW j \in Inodes, j # i
        PROVE  /\ Len(inodes'[j].mappings) <= MAX_FILE_SIZE
               /\ Range(inodes'[j].mappings) \subseteq
                    (IF inodes'[j].type = "dir" THEN Inodes ELSE DataBlocks)
    BY <1>1, <2>2 DEF EmTypeOK
  <2>3. Len(inodes'[i].mappings) <= MAX_FILE_SIZE
        /\ Range(inodes'[i].mappings) \subseteq (IF inodes'[i].type = "dir" THEN Inodes ELSE DataBlocks)
    BY <1>1, <1>2, <2>1
  <2>. QED  BY <2>2, <2>3
<1>4. data' \in [DataBlocks -> [0..(BLOCKSIZE - 1) -> Bytes \cup {Junk}]]
  BY BlocksTyped
<1>5. written' \in [Inodes -> [Positions -> Bytes \cup {Junk}]]
  <2>1. written \in [Inodes -> [Positions -> Bytes \cup {Junk}]]
    BY DEF EmTypeOK
  <2>. DEFINE new == [k \in Positions |-> IF k >= from /\ k < end THEN byte ELSE written[i][k]]
  <2>2. new \in [Positions -> Bytes \cup {Junk}]
    BY <1>2, <2>1
  <2>3. written' = [written EXCEPT ![i] = new]
    BY <1>2
  <2>. HIDE DEF new
  <2>. QED  BY <1>2, <2>1, <2>2, <2>3
<1>6. files' \in [FileHandles -> [inode : Inodes \cup {Closed}, offset : Nat]]
  <2>1. files \in [FileHandles -> [inode : Inodes \cup {Closed}, offset : Nat]]
    BY DEF EmTypeOK
  <2>. QED  BY <1>2, <2>1
<1>. QED  BY <1>1, <1>2, <1>3, <1>4, <1>5, <1>6 DEF EmTypeOK, Node

(* Every block still belongs to one place of one file. *)
LEMMA LongerOwned ==
  ASSUME EmTypeOK, BlocksOwned, NEW i, NEW m, NEW from, NEW end, NEW byte, Longer(i, m, from, end, byte),
         Allocated("file")' = Allocated("file")
  PROVE  BlocksOwned' /\ block_bitmap' \subseteq DataBlocks
<1>. DEFINE old == inodes[i].mappings
            new == Range(m) \ Range(old)
<1>1. /\ i \in Allocated("file") /\ i \in Inodes /\ inodes[i].type = "file"
      /\ m \in Seq(DataBlocks) /\ IsInjective(m) /\ new \subseteq Free
      /\ (\A x \in DOMAIN old : x \in DOMAIN m /\ m[x] = old[x])
      /\ block_bitmap' = block_bitmap \cup Range(m) /\ UNCHANGED <<inode_bitmap, full>>
  BY DEF Longer
<1>2. Range(m) \subseteq DataBlocks
  BY <1>1 DEF Range
<1>3. Range(old) \subseteq Range(m)
  BY <1>1 DEF Range
<1>4. \A j \in Allocated("file") : j \in Inodes /\ j \in inode_bitmap /\ inodes[j].type = "file"
  BY DEF Allocated, EmTypeOK
<1>5. /\ inodes'[i].mappings = m
      /\ \A j \in Allocated("file") : j # i => inodes'[j].mappings = inodes[j].mappings
  BY <1>4, LongerNodes
<1>6. \A j \in Allocated("file") : Range(inodes[j].mappings) \subseteq block_bitmap
  BY <1>4 DEF BlocksOwned, BlocksOf
<1>7. \A j \in Allocated("file") : j # i => Range(inodes[j].mappings) \cap Range(m) = {}
  <2>1. SUFFICES ASSUME NEW j \in Allocated("file"), j # i,
                        NEW b \in Range(inodes[j].mappings), b \in Range(m)
                 PROVE  FALSE
    OBVIOUS
  <2>2. b \in block_bitmap /\ b \notin Range(old)
    BY <1>1, <1>6, <2>1 DEF BlocksOwned
  <2>. QED  BY <1>1, <2>1, <2>2 DEF Free
<1>8. \A j \in Allocated("file") : IsInjective(inodes'[j].mappings)
  BY <1>1, <1>5 DEF BlocksOwned
<1>9. \A j, k \in Allocated("file") :
         j # k => Range(inodes'[j].mappings) \cap Range(inodes'[k].mappings) = {}
  BY <1>5, <1>7 DEF BlocksOwned
<1>10. BlocksOf(inode_bitmap) = UNION {Range(inodes[j].mappings) : j \in Allocated("file")}
  BY DEF BlocksOf, Allocated
<1>11. BlocksOf(inode_bitmap)' = UNION {Range(inodes'[j].mappings) : j \in Allocated("file")}
  <2>1. BlocksOf(inode_bitmap)' = UNION {Range(inodes'[j].mappings) : j \in Allocated("file")'}
    BY DEF BlocksOf, Allocated
  <2>. QED  BY <2>1
<1>12. BlocksOf(inode_bitmap)' = BlocksOf(inode_bitmap) \cup Range(m)
  <2>1. ASSUME NEW b \in BlocksOf(inode_bitmap)' PROVE b \in BlocksOf(inode_bitmap) \cup Range(m)
    <3>1. PICK j \in Allocated("file") : b \in Range(inodes'[j].mappings)
      BY <1>11
    <3>. QED  BY <1>5, <1>10, <3>1
  <2>2. ASSUME NEW b \in BlocksOf(inode_bitmap) PROVE b \in BlocksOf(inode_bitmap)'
    <3>1. PICK j \in Allocated("file") : b \in Range(inodes[j].mappings)
      BY <1>10
    <3>. QED  BY <1>3, <1>5, <1>11, <3>1
  <2>3. Range(m) \subseteq BlocksOf(inode_bitmap)'
    BY <1>1, <1>5, <1>11
  <2>. QED  BY <2>1, <2>2, <2>3
<1>13. BlocksOf(inode_bitmap)' \subseteq block_bitmap' /\ (~full' => block_bitmap' = BlocksOf(inode_bitmap)')
  BY <1>1, <1>12 DEF BlocksOwned
<1>14. block_bitmap' \subseteq DataBlocks
  BY <1>1, <1>2 DEF EmTypeOK
<1>. QED  BY <1>8, <1>9, <1>13, <1>14 DEF BlocksOwned

(* Every file holds what was last written to it. *)
LEMMA LongerKeeps ==
  ASSUME EmTypeOK, BlocksOwned, FilesKeepWrites,
         NEW i, NEW m, NEW from, NEW end, NEW byte, Longer(i, m, from, end, byte),
         Allocated("file")' = Allocated("file"), BlocksOwned'
  PROVE  FilesKeepWrites'
<1>. DEFINE old == inodes[i].mappings
<1>1. /\ i \in Allocated("file") /\ i \in Inodes /\ inodes[i].type = "file"
      /\ m \in Seq(DataBlocks) /\ IsInjective(m) /\ Len(m) \in Nat /\ Len(old) <= Len(m)
      /\ from \in Nat /\ end \in Nat /\ end <= Len(m) * BLOCKSIZE
      /\ WriteBlocks(i, m, from, end, byte)
      /\ written' = [written EXCEPT ![i] =
                       [k \in Positions |-> IF k >= from /\ k < end THEN byte ELSE @[k]]]
  BY DEF Longer
<1>2. /\ inodes'[i].mappings = m
      /\ \A j \in Inodes \ {i} : inodes'[j] = inodes[j]
  BY LongerNodes
<1>3. Positions \subseteq Nat
  BY EmNumbers DEF Positions
<1>4. written \in [Inodes -> [Positions -> Bytes \cup {Junk}]]
  BY DEF EmTypeOK
<1>5. ASSUME NEW k \in Positions, written'[i][k] # Junk PROVE ByteOf(i, k)' = written'[i][k]
  <2>. DEFINE v == IF k >= from /\ k < end THEN byte ELSE written[i][k]
  <2>1. written'[i][k] = v
    BY <1>1, <1>4
  <2>2. ~(k >= from /\ k < end) => ByteOf(i, k) = v
    BY <1>1, <1>5, <2>1 DEF FilesKeepWrites
  <2>3. k < Len(m) * BLOCKSIZE
    <3>1. k \in Nat /\ Len(old) \in Nat /\ BLOCKSIZE \in Nat
      BY <1>1, <1>3, NodeTypes, EmNumbers
    <3>2. Len(m) * BLOCKSIZE \in Nat /\ Len(old) * BLOCKSIZE \in Nat
          /\ Len(old) * BLOCKSIZE <= Len(m) * BLOCKSIZE
      <4>. DEFINE x == Len(old)
                  y == Len(m)
      <4>1. x \in Nat /\ y \in Nat /\ x <= y /\ BLOCKSIZE \in Nat
        BY <1>1, <3>1
      <4>. HIDE DEF x, y
      <4>2. x * BLOCKSIZE \in Nat /\ y * BLOCKSIZE \in Nat /\ x * BLOCKSIZE <= y * BLOCKSIZE
        BY ONLY <4>1
      <4>. QED  BY <4>2 DEF x, y
    <3>3. CASE k >= from /\ k < end
      BY <1>1, <3>1, <3>2, <3>3
    <3>4. CASE ~(k >= from /\ k < end)
      <4>1. ByteOf(i, k) # Junk
        BY <1>5, <2>1, <2>2, <3>4
      <4>2. k < Len(old) * BLOCKSIZE
        BY <4>1 DEF ByteOf
      <4>. QED  BY <3>1, <3>2, <4>2
    <3>. QED  BY <3>3, <3>4
  <2>4. data'[m[k \div BLOCKSIZE + 1]][k % BLOCKSIZE]
        = IF k >= from /\ k < end THEN byte ELSE ByteOf(i, k)
    <3>1. /\ m \in Seq(DataBlocks) /\ IsInjective(m) /\ WriteBlocks(i, m, from, end, byte)
          /\ k \in Nat
      BY <1>1, <1>3
    <3>. QED  BY ONLY <2>3, <3>1, BlockWritten
  <2>5. ByteOf(i, k)' = data'[m[k \div BLOCKSIZE + 1]][k % BLOCKSIZE]
    BY <1>2, <2>3 DEF ByteOf
  <2>6. ByteOf(i, k)' = v
    BY <2>2, <2>4, <2>5
  <2>. QED  BY <2>1, <2>6
<1>6. ASSUME NEW j \in Allocated("file"), j # i, NEW k \in Positions, written'[j][k] # Junk
      PROVE  ByteOf(j, k)' = written'[j][k]
  <2>1. j \in Inodes /\ inodes[j].type = "file" /\ inodes'[j] = inodes[j]
    BY <1>2, <1>6 DEF Allocated, EmTypeOK
  <2>2. written'[j] = written[j]
    BY <1>1, <1>4, <1>6, <2>1
  <2>3. Range(inodes'[j].mappings) \cap Range(inodes'[i].mappings) = {}
    BY <1>1, <1>6 DEF BlocksOwned
  <2>4. \A b \in Range(inodes[j].mappings) : b \in DataBlocks \ Range(m)
    BY <1>2, <2>1, <2>3, NodeTypes
  <2>5. \A b \in Range(inodes[j].mappings) : data'[b] = data[b]
    BY <2>4, BlocksTyped
  <2>6. ByteOf(j, k)' = ByteOf(j, k)
    BY <2>1, <2>5, SameBytes
  <2>. QED  BY <1>6, <2>2, <2>6 DEF FilesKeepWrites
<1>7. ASSUME NEW j \in Allocated("file")', NEW k \in Positions, written'[j][k] # Junk
      PROVE  ByteOf(j, k)' = written'[j][k]
  <2>1. CASE j = i
    <3>1. ByteOf(i, k)' = written'[i][k]
      BY <1>5, <1>7, <2>1
    <3>2. ByteOf(j, k)' = ByteOf(i, k)'
      BY <2>1
    <3>. QED  BY <2>1, <3>1, <3>2
  <2>2. CASE j # i
    BY <1>6, <1>7, <2>2
  <2>. QED  BY <2>1, <2>2
<1>. QED  BY <1>7 DEF FilesKeepWrites

(* A write keeps the invariant. *)
LEMMA WriteStep ==
  ASSUME EmInv, NEW f \in FileHandles, NEW size \in Sizes, NEW byte \in Bytes, Write(f, size, byte)
  PROVE  EmInv'
<1>1. EmTypeOK /\ Rooted /\ Unwritten /\ Counters /\ BlocksOwned /\ Tree /\ HandlesValid /\ FilesKeepWrites
  BY DEF EmInv, Allocation
<1>2. PICK i, m, from, end :
        /\ Longer(i, m, from, end, byte)
        /\ Counters' /\ used_blocks' \in 3..MAX_BLOCKS
        /\ files[f] # NoFile /\ files[f].inode = i
        /\ files' = [files EXCEPT ![f].offset = end]
  BY WriteLengthens
<1>3. /\ i \in Allocated("file") /\ i \in Inodes /\ i \in inode_bitmap /\ inodes[i].type = "file"
      /\ end \in Nat /\ end <= Len(m) * BLOCKSIZE
      /\ Len(inodes[i].mappings) <= Len(m) /\ Len(m) \in Nat
      /\ written' = [written EXCEPT ![i] =
                       [k \in Positions |-> IF k >= from /\ k < end THEN byte ELSE @[k]]]
      /\ UNCHANGED <<mounted, inode_bitmap, used_inodes, dir, full>>
  BY <1>2 DEF Longer, Allocated
<1>4. Tree' /\ Rooted' /\ Allocated("file")' = Allocated("file") /\ Allocated("dir")' = Allocated("dir")
  BY <1>1, <1>2, LongerTree DEF Type
<1>5. BlocksOwned' /\ block_bitmap' \subseteq DataBlocks
  BY <1>1, <1>2, <1>4, LongerOwned
<1>6. EmTypeOK'
  BY <1>1, <1>2, <1>5, LongerTyped
<1>7. FilesKeepWrites'
  BY <1>1, <1>2, <1>4, <1>5, LongerKeeps
<1>8. Unwritten'
  BY <1>1, <1>3 DEF Unwritten, EmTypeOK
<1>9. /\ inodes'[i].mappings = m /\ inodes'[i].type = "file"
      /\ \A j \in Inodes \ {i} : inodes'[j] = inodes[j]
  BY <1>1, <1>2, <1>3, LongerNodes
<1>10. \A j \in Allocated("file") : Size(j) <= Size(j)' /\ Size(j) \in Nat /\ Size(j)' \in Nat
  <2>1. Len(inodes[i].mappings) * BLOCKSIZE <= Len(m) * BLOCKSIZE
        /\ Len(inodes[i].mappings) * BLOCKSIZE \in Nat /\ Len(m) * BLOCKSIZE \in Nat
    <3>. DEFINE x == Len(inodes[i].mappings)
                y == Len(m)
    <3>1. x \in Nat /\ y \in Nat /\ x <= y /\ BLOCKSIZE \in Nat
      BY <1>1, <1>3, NodeTypes, EmNumbers
    <3>. HIDE DEF x, y
    <3>2. x * BLOCKSIZE \in Nat /\ y * BLOCKSIZE \in Nat /\ x * BLOCKSIZE <= y * BLOCKSIZE
      BY ONLY <3>1
    <3>. QED  BY <3>2 DEF x, y
  <2>2. Size(i) = Len(inodes[i].mappings) * BLOCKSIZE /\ Size(i)' = Len(m) * BLOCKSIZE
    BY <1>3, <1>9 DEF Size
  <2>3. ASSUME NEW j \in Allocated("file"), j # i
        PROVE  Size(j)' = Size(j) /\ Size(j) \in Nat
    <3>1. j \in Inodes /\ inodes[j].type = "file" /\ inodes'[j] = inodes[j]
      BY <1>1, <1>9, <2>3 DEF Allocated, EmTypeOK
    <3>2. Len(inodes[j].mappings) \in Nat /\ BLOCKSIZE \in Nat
      BY <1>1, <3>1, NodeTypes, EmNumbers
    <3>3. Len(inodes[j].mappings) * BLOCKSIZE \in Nat
      BY ONLY <3>2
    <3>. QED  BY <3>1, <3>3 DEF Size
  <2>4. ASSUME NEW j \in Allocated("file"), j = i PROVE Size(j) <= Size(j)' /\ Size(j) \in Nat /\ Size(j)' \in Nat
    BY <2>1, <2>2, <2>4
  <2>5. ASSUME NEW j \in Allocated("file"), j # i PROVE Size(j) <= Size(j)' /\ Size(j) \in Nat /\ Size(j)' \in Nat
    BY <2>3, <2>5
  <2>. QED  BY <2>4, <2>5
<1>11. HandlesValid'
  <2>1. \A h \in DirHandles : dir'[h] # Closed => dir'[h] \in Allocated("dir")'
    BY <1>1, <1>3, <1>4 DEF HandlesValid
  <2>2. ASSUME NEW g \in FileHandles, files'[g] # NoFile
        PROVE  files'[g].inode \in Allocated("file")' /\ files'[g].offset <= Size(files[g].inode)'
    <3>1. files \in [FileHandles -> [inode : Inodes \cup {Closed}, offset : Nat]]
      BY <1>1 DEF EmTypeOK
    <3>2. PICK j : j = files'[g].inode
      OBVIOUS
    <3>3. files[g].inode = j
      BY <1>2, <3>1, <3>2
    <3>4. Size(files[g].inode)' = Size(j)'
      BY <3>2 DEF Size
    <3>5. CASE g = f
      <4>1. j = i /\ files'[g].offset = end
        BY <1>2, <3>1, <3>3, <3>5
      <4>2. Size(i)' = Len(m) * BLOCKSIZE
        BY <1>9 DEF Size
      <4>3. Size(j)' = Size(i)'
        BY <4>1
      <4>. QED  BY <1>3, <1>4, <3>2, <3>4, <4>1, <4>2, <4>3
    <3>6. CASE g # f
      <4>1. files'[g] = files[g] /\ files[g] # NoFile
        BY <1>2, <2>2, <3>1, <3>6
      <4>2. j \in Allocated("file") /\ files'[g].offset <= Size(j) /\ files'[g].offset \in Nat
        BY <1>1, <3>1, <3>3, <4>1 DEF HandlesValid
      <4>3. Size(j) <= Size(j)' /\ Size(j) \in Nat /\ Size(j)' \in Nat
        BY <1>10, <4>2
      <4>. QED  BY <1>4, <3>2, <3>4, <4>2, <4>3
    <3>. QED  BY <3>5, <3>6
  <2>. QED  BY <2>1, <2>2 DEF HandlesValid
<1>. QED  BY <1>2, <1>4, <1>5, <1>6, <1>7, <1>8, <1>11 DEF EmInv, Allocation

(* Every step keeps the inductive invariant. *)
LEMMA StepEmInv == EmInv /\ [EmNext]_emVars => EmInv'
<1>. SUFFICES ASSUME EmInv, [EmNext]_emVars PROVE EmInv'
  OBVIOUS
<1>1. CASE \/ CloseDevice \/ OpenDevice \/ OpenRoot
           \/ \E h \in DirHandles :
                \/ CloseDir(h)
                \/ \E path \in Paths : LeadsTo(h, path, "dir") /\ ChangeDir(h, path)
                \/ \E path \in Paths : LeadsTo(h, path, "file") /\ OpenFile(h, path)
           \/ \E f \in FileHandles :
                \/ CloseFile(f)
                \/ \E n \in Sizes : Seek(f, files[f].offset - n) \/ Seek(f, files[f].offset + n)
                \/ \E size \in Sizes : Read(f, size)
  BY <1>1, HandleStep
<1>2. CASE HandlesClosed /\ CreateFileSystem
  BY <1>2, CreateFileSystemStep
<1>3. CASE \E h \in DirHandles, name \in Names, type \in Type : Create(h, name, type)
  BY <1>3, CreateMakes, MadeStep
<1>4. CASE \E h \in DirHandles, path \in Paths : SparesRoot(h, path) /\ Delete(h, path)
  BY <1>4, DeleteRemoves, RemovedStep
<1>5. CASE \E f \in FileHandles, size \in Sizes : WriteFull(f, size)
  BY <1>5, WriteFullStep
<1>6. CASE \E f \in FileHandles, size \in Sizes, byte \in Bytes : Write(f, size, byte)
  BY <1>6, WriteStep
<1>7. CASE UNCHANGED emVars
  <2>1. EmTypeOK /\ HandlesValid
    BY DEF EmInv
  <2>. QED  BY <1>7, <2>1, OnlyHandles DEF emVars, EmTypeOK, HandlesValid
<1>. QED  BY <1>1, <1>2, <1>3, <1>4, <1>5, <1>6, <1>7 DEF EmNext

-----------------------------------------------------------------------------
(* What it gives for every history of the file system. *)

(* EmInv holds always. *)
THEOREM EmInvariance == EmSpec => []EmInv
<1>. QED  BY InitEmInv, StepEmInv, PTL DEF EmSpec

(* The superblock, the inodes, the blocks and the handles keep their types:  *)
(* what a recursive deletion or a failing write leaves is a disk again.      *)
THEOREM EmTypeCorrect == EmSpec => []EmTypeOK
<1>1. EmInv => EmTypeOK
  BY DEF EmInv
<1>. QED  BY <1>1, EmInvariance, PTL

(* The bitmaps say what the files have, and the superblock counts it. *)
THEOREM AllocationAlways == EmSpec => []Allocation
<1>1. EmInv => Allocation
  BY DEF EmInv
<1>. QED  BY <1>1, EmInvariance, PTL

(* The allocated inodes are a tree whose root is the root directory. *)
THEOREM TreeAlways == EmSpec => []Tree
<1>1. EmInv => Tree
  BY DEF EmInv
<1>. QED  BY <1>1, EmInvariance, PTL

(* No handle outlives what it stands for. *)
THEOREM HandlesAlways == EmSpec => []HandlesValid
<1>1. EmInv => HandlesValid
  BY DEF EmInv
<1>. QED  BY <1>1, EmInvariance, PTL

(* A file holds what was last written to it. *)
THEOREM WritesKept == EmSpec => []FilesKeepWrites
<1>1. EmInv => FilesKeepWrites
  BY DEF EmInv
<1>. QED  BY <1>1, EmInvariance, PTL
=============================================================================
