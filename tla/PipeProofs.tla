----------------------------- MODULE PipeProofs -----------------------------
(***************************************************************************)
(* What is proved of xv6's pipes, for any number of processes, files and     *)
(* descriptors, any size of the ring and any width of the counters: IInv of  *)
(* Pipe is inductive, one lemma for each of its conjuncts, and each step of  *)
(* Pipe is a step of BytePipe or none.                                       *)
(***************************************************************************)
EXTENDS Pipe, FiniteSetTheorems, SequenceTheorems, TLAPS

(* What the assumptions say, unfolded.                                       *)
LEMMA Constants ==
  /\ First \in Procs /\ IsFiniteSet(Procs) /\ NoFile \notin Files
  /\ NOFILE \in Nat /\ PIPESIZE \in Nat /\ PIPESIZE > 0 /\ Width \in Nat /\ Width > PIPESIZE
  /\ ReadSizes \subseteq Nat /\ Msgs \subseteq Seq(Bytes) /\ Fill \in Bytes
  /\ IsFiniteSet(Fds) /\ Cardinality(Fds) = NOFILE
  /\ Cardinality(Procs) \in Nat
<1>1. /\ First \in Procs /\ IsFiniteSet(Procs) /\ NoFile \notin Files
      /\ NOFILE \in Nat /\ PIPESIZE \in Nat /\ PIPESIZE > 0 /\ Width \in Nat /\ Width > PIPESIZE
      /\ ReadSizes \subseteq Nat /\ Msgs \subseteq Seq(Bytes) /\ Fill \in Bytes
  BY PipeAssumption
<1>2. IsFiniteSet(Fds) /\ Cardinality(Fds) = NOFILE
  <2>1. 0 \in Int /\ NOFILE - 1 \in Int
    BY <1>1
  <2>2. IsFiniteSet(0 .. NOFILE - 1)
        /\ Cardinality(0 .. NOFILE - 1) = IF 0 > NOFILE - 1 THEN 0 ELSE (NOFILE - 1) - 0 + 1
    BY <2>1, FS_Interval
  <2>. QED  BY <1>1, <2>2 DEF Fds
<1>3. Cardinality(Procs) \in Nat
  BY <1>1, FS_CardinalityType
<1>. QED  BY <1>1, <1>2, <1>3

-----------------------------------------------------------------------------
(* Descriptors that name a file *)

Descriptors == Procs \X Fds
RefsIn(o, f) == {x \in Descriptors : o[x[1]][x[2]] = f}
Tables == [Procs -> [Fds -> Files \cup {NoFile}]]

\* o with descriptor d of p changed, and with a child q of p.
Put(o, p, d, f) == [o EXCEPT ![p][d] = f]
Child(o, p, q) == [o EXCEPT ![q] = o[p]]

(* The descriptors of a file are finitely many.                              *)
LEMMA RefsFinite ==
  ASSUME NEW o, NEW f
  PROVE IsFiniteSet(RefsIn(o, f)) /\ Cardinality(RefsIn(o, f)) \in 0 .. Cardinality(Procs) * NOFILE
<1>1. IsFiniteSet(Descriptors) /\ Cardinality(Descriptors) = Cardinality(Procs) * NOFILE
  BY Constants, FS_Product DEF Descriptors
<1>2. RefsIn(o, f) \in SUBSET Descriptors
  BY DEF RefsIn
<1>3. IsFiniteSet(RefsIn(o, f)) /\ Cardinality(RefsIn(o, f)) <= Cardinality(Descriptors)
  BY <1>1, <1>2, FS_Subset
<1>4. Cardinality(RefsIn(o, f)) \in Nat /\ Cardinality(Descriptors) \in Nat
  BY <1>1, <1>3, FS_CardinalityType
<1>. QED  BY <1>1, <1>3, <1>4

(* Their number is a number.                                                 *)
LEMMA RefsNat ==
  ASSUME NEW o, NEW f
  PROVE IsFiniteSet(RefsIn(o, f)) /\ Cardinality(RefsIn(o, f)) \in Nat
BY RefsFinite, FS_CardinalityType

(* A descriptor more. *)
LEMMA SetRef ==
  ASSUME NEW o \in Tables, NEW p \in Procs, NEW d \in Fds, NEW f \in Files, o[p][d] = NoFile
  PROVE /\ Put(o, p, d, f) \in Tables
        /\ Cardinality(RefsIn(Put(o, p, d, f), f)) = Cardinality(RefsIn(o, f)) + 1
        /\ \A g \in Files : g # f => RefsIn(Put(o, p, d, f), g) = RefsIn(o, g)
<1>. DEFINE n == Put(o, p, d, f)
<1>. USE Constants
<1>1. n \in Tables
  BY DEF Tables, Put
<1>2. ASSUME NEW x \in Descriptors
      PROVE n[x[1]][x[2]] = IF x = <<p, d>> THEN f ELSE o[x[1]][x[2]]
  BY DEF Tables, Descriptors, Put
<1>. HIDE DEF n
<1>3. <<p, d>> \in Descriptors
  BY DEF Descriptors
<1>4. RefsIn(n, f) = RefsIn(o, f) \cup {<<p, d>>} /\ <<p, d>> \notin RefsIn(o, f)
  BY <1>2, <1>3 DEF RefsIn
<1>5. \A g \in Files : g # f => RefsIn(n, g) = RefsIn(o, g)
  BY <1>2, <1>3 DEF RefsIn
<1>6. Cardinality(RefsIn(n, f)) = Cardinality(RefsIn(o, f)) + 1
  BY <1>4, RefsNat, FS_AddElement
<1>. QED  BY <1>1, <1>5, <1>6 DEF n

(* A descriptor less. *)
LEMMA ClearRef ==
  ASSUME NEW o \in Tables, NEW p \in Procs, NEW d \in Fds, NEW f \in Files, o[p][d] = f
  PROVE /\ Put(o, p, d, NoFile) \in Tables
        /\ Cardinality(RefsIn(o, f)) = Cardinality(RefsIn(Put(o, p, d, NoFile), f)) + 1
        /\ \A g \in Files : g # f => RefsIn(Put(o, p, d, NoFile), g) = RefsIn(o, g)
<1>. DEFINE n == Put(o, p, d, NoFile)
<1>. USE Constants
<1>1. n \in Tables
  BY DEF Tables, Put
<1>2. ASSUME NEW x \in Descriptors
      PROVE n[x[1]][x[2]] = IF x = <<p, d>> THEN NoFile ELSE o[x[1]][x[2]]
  BY DEF Tables, Descriptors, Put
<1>. HIDE DEF n
<1>3. <<p, d>> \in Descriptors
  BY DEF Descriptors
<1>4. RefsIn(o, f) = RefsIn(n, f) \cup {<<p, d>>} /\ <<p, d>> \notin RefsIn(n, f)
  BY <1>2, <1>3 DEF RefsIn
<1>5. \A g \in Files : g # f => RefsIn(n, g) = RefsIn(o, g)
  BY <1>2, <1>3 DEF RefsIn
<1>6. Cardinality(RefsIn(o, f)) = Cardinality(RefsIn(n, f)) + 1
  <2>. DEFINE S == RefsIn(n, f)
  <2>1. IsFiniteSet(S) /\ <<p, d>> \notin S
    BY <1>4, RefsNat
  <2>. HIDE DEF S
  <2>2. Cardinality(S \cup {<<p, d>>}) = Cardinality(S) + 1
    BY <2>1, FS_AddElement
  <2>. QED  BY <1>4, <2>2 DEF S
<1>. QED  BY <1>1, <1>5, <1>6 DEF n

(* A child with the parent's descriptors. *)
LEMMA CopyRefs ==
  ASSUME NEW o \in Tables, NEW p \in Procs, NEW q \in Procs, \A d \in Fds : o[q][d] = NoFile
  PROVE /\ Child(o, p, q) \in Tables
        /\ \A f \in Files : Cardinality(RefsIn(Child(o, p, q), f))
             = Cardinality(RefsIn(o, f)) + Cardinality({d \in Fds : o[p][d] = f})
<1>. DEFINE n == Child(o, p, q)
<1>. USE Constants
<1>1. n \in Tables
  BY DEF Tables, Child
<1>2. ASSUME NEW f \in Files
      PROVE Cardinality(RefsIn(n, f))
              = Cardinality(RefsIn(o, f)) + Cardinality({d \in Fds : o[p][d] = f})
  <2>. DEFINE S == {d \in Fds : o[p][d] = f}
              T == {q} \X S
  <2>1. ASSUME NEW x \in Descriptors
        PROVE n[x[1]][x[2]] = IF x[1] = q THEN o[p][x[2]] ELSE o[x[1]][x[2]]
    BY DEF Tables, Descriptors, Child
  <2>. HIDE DEF n
  <2>2. S \in SUBSET Fds
    OBVIOUS
  <2>3. IsFiniteSet(S) /\ Cardinality(S) \in Nat
    BY <2>2, FS_Subset, FS_CardinalityType
  <2>4. IsFiniteSet({q}) /\ Cardinality({q}) = 1
    BY FS_Singleton
  <2>5. \A x \in T : x \in Descriptors /\ x[1] = q /\ o[p][x[2]] = f
    BY DEF Descriptors
  <2>6. \A x \in Descriptors : x[1] = q /\ o[p][x[2]] = f => x \in T
    BY DEF Descriptors
  <2>7. RefsIn(n, f) = RefsIn(o, f) \cup T
    <3>1. ASSUME NEW x \in RefsIn(n, f) PROVE x \in RefsIn(o, f) \cup T
      BY <2>1, <2>6 DEF RefsIn
    <3>2. ASSUME NEW x \in T PROVE x \in RefsIn(n, f)
      BY <2>1, <2>5 DEF RefsIn
    <3>3. ASSUME NEW x \in RefsIn(o, f) PROVE x \in RefsIn(n, f)
      <4>1. x \in Descriptors /\ o[x[1]][x[2]] = f
        BY DEF RefsIn
      <4>2. x[1] # q
        BY <4>1 DEF Descriptors
      <4>. QED  BY <2>1, <4>1, <4>2 DEF RefsIn
    <3>. HIDE DEF T
    <3>. QED  BY <3>1, <3>2, <3>3
  <2>8. RefsIn(o, f) \cap T = {}
    <3>1. ASSUME NEW x \in RefsIn(o, f), x \in T PROVE FALSE
      BY <2>5, <3>1 DEF RefsIn, Descriptors
    <3>. HIDE DEF T
    <3>. QED  BY <3>1
  <2>9. IsFiniteSet(T) /\ Cardinality(T) = Cardinality(S)
    <3>1. IsFiniteSet(T) /\ Cardinality(T) = Cardinality({q}) * Cardinality(S)
      <4>. HIDE DEF S
      <4>. QED  BY <2>3, <2>4, FS_Product
    <3>. HIDE DEF S, T
    <3>. QED  BY <2>3, <2>4, <3>1
  <2>. HIDE DEF S, T
  <2>10. Cardinality(RefsIn(o, f) \cup T) = Cardinality(RefsIn(o, f)) + Cardinality(T) - Cardinality(RefsIn(o, f) \cap T)
    BY <2>9, RefsNat, FS_Union
  <2>11. Cardinality(RefsIn(o, f) \cap T) = 0
    BY <2>8, FS_EmptySet
  <2>12. Cardinality(RefsIn(n, f)) = Cardinality(RefsIn(o, f)) + Cardinality(S)
    <3>1. Cardinality(RefsIn(n, f)) = Cardinality(RefsIn(o, f)) + Cardinality(T) - 0
      BY <2>7, <2>10, <2>11
    <3>2. Cardinality(RefsIn(o, f)) \in Nat
      BY RefsNat
    <3>. QED  BY <2>3, <2>9, <3>1, <3>2
  <2>. QED  BY <2>12 DEF S
<1>. QED  BY <1>1, <1>2 DEF n
-----------------------------------------------------------------------------
(* The counters *)

LEMMA ModOnce ==
  ASSUME NEW q \in Nat \ {0}, NEW a \in 0 .. (2 * q - 1)
  PROVE a % q = IF a < q THEN a ELSE a - q
OBVIOUS

\* From r to n, and i after n, among w numbers.
Gap(n, r, w) == (n + w - r) % w
Plus(n, i, w) == (n + i) % w

(* The subtraction of counters, with and without a wrap-around.              *)
LEMMA CountIs ==
  ASSUME NEW w \in Nat \ {0}, NEW n \in 0 .. (w - 1), NEW r \in 0 .. (w - 1)
  PROVE Gap(n, r, w) = IF n >= r THEN n - r ELSE n + w - r
<1>. DEFINE a == n + w - r
<1>1. a \in 0 .. (2 * w - 1) /\ (a < w <=> n < r) /\ a - w = n - r
  OBVIOUS
<1>. HIDE DEF a
<1>2. a % w = IF a < w THEN a ELSE a - w
  BY <1>1, ModOnce
<1>3. Gap(n, r, w) = IF a < w THEN a ELSE a - w
  BY <1>2 DEF a, Gap
<1>4. a = n + w - r
  BY DEF a
<1>. QED  BY <1>1, <1>3, <1>4

(* The addition to a counter, likewise.                                      *)
LEMMA Advance ==
  ASSUME NEW w \in Nat \ {0}, NEW n \in 0 .. (w - 1), NEW i \in 0 .. (w - 1)
  PROVE Plus(n, i, w) = IF n + i < w THEN n + i ELSE n + i - w
<1>. DEFINE a == n + i
<1>1. a \in 0 .. (2 * w - 1)
  OBVIOUS
<1>. HIDE DEF a
<1>2. a % w = IF a < w THEN a ELSE a - w
  BY <1>1, ModOnce
<1>. QED  BY <1>2 DEF a, Plus

(* i more written, i more read. *)
LEMMA CountPut ==
  ASSUME NEW w \in Nat \ {0}, NEW n \in 0 .. (w - 1), NEW r \in 0 .. (w - 1), NEW i \in 0 .. (w - 1),
         Gap(n, r, w) + i < w
  PROVE /\ Plus(n, i, w) \in 0 .. (w - 1)
        /\ Gap(Plus(n, i, w), r, w) = Gap(n, r, w) + i
<1>1. Gap(n, r, w) = IF n >= r THEN n - r ELSE n + w - r
  BY CountIs
<1>. DEFINE m == Plus(n, i, w)
<1>2. m = IF n + i < w THEN n + i ELSE n + i - w
  BY Advance
<1>. HIDE DEF m
<1>3. m \in 0 .. (w - 1)
  BY <1>2
<1>4. Gap(m, r, w) = IF m >= r THEN m - r ELSE m + w - r
  BY <1>3, CountIs
<1>. DEFINE c == IF n >= r THEN n - r ELSE n + w - r
<1>5. c + i < w
  BY <1>1
<1>6. (IF m >= r THEN m - r ELSE m + w - r) = c + i
  BY <1>2, <1>5
<1>. QED  BY <1>1, <1>3, <1>4, <1>6 DEF m

(* Reading i bytes leaves i fewer.                                           *)
LEMMA CountGet ==
  ASSUME NEW w \in Nat \ {0}, NEW n \in 0 .. (w - 1), NEW r \in 0 .. (w - 1), NEW i \in 0 .. (w - 1),
         i <= Gap(n, r, w)
  PROVE /\ Plus(r, i, w) \in 0 .. (w - 1)
        /\ Gap(n, Plus(r, i, w), w) = Gap(n, r, w) - i
<1>1. Gap(n, r, w) = IF n >= r THEN n - r ELSE n + w - r
  BY CountIs
<1>. DEFINE m == Plus(r, i, w)
<1>2. m = IF r + i < w THEN r + i ELSE r + i - w
  BY Advance
<1>. HIDE DEF m
<1>3. m \in 0 .. (w - 1)
  BY <1>2
<1>4. Gap(n, m, w) = IF n >= m THEN n - m ELSE n + w - m
  BY <1>3, CountIs
<1>. DEFINE c == IF n >= r THEN n - r ELSE n + w - r
<1>5. i <= c
  BY <1>1
<1>6. (IF n >= m THEN n - m ELSE n + w - m) = c - i
  BY <1>2, <1>5
<1>. QED  BY <1>1, <1>3, <1>4, <1>6 DEF m

(* The distance is 0 only between equal counters.                            *)
LEMMA GapFacts ==
  ASSUME NEW w \in Nat \ {0}, NEW n \in 0 .. (w - 1), NEW r \in 0 .. (w - 1)
  PROVE Gap(n, r, w) \in 0 .. (w - 1) /\ (Gap(n, r, w) = 0 <=> r = n)
BY CountIs

(* The number of bytes in the ring.                                          *)
LEMMA CountFacts ==
  ASSUME TypeOK
  PROVE Count \in 0 .. (Width - 1) /\ (Count = 0 <=> Empty)
<1>1. Width \in Nat \ {0} /\ nwrite \in 0 .. (Width - 1) /\ nread \in 0 .. (Width - 1)
  BY Constants DEF TypeOK
<1>2. Count = Gap(nwrite, nread, Width)
  BY DEF Count, Gap
<1>. QED  BY <1>1, <1>2, GapFacts DEF Empty

-----------------------------------------------------------------------------
(* At the start.                                                             *)
LEMMA InitIInv == Init => IInv
<1>. SUFFICES ASSUME Init PROVE IInv
  OBVIOUS
<1>. USE Constants DEF Init
<1>1. \A f : RefsIn(ofile, f) = {} \/ f = NoFile
  BY DEF RefsIn, Descriptors
<1>2. RefsCounted
  <2>1. \A f \in Files : RefsIn(ofile, f) = {}
    BY <1>1
  <2>2. \A f \in Files : Cardinality(RefsIn(ofile, f)) = 0
    BY <2>1, FS_EmptySet
  <2>. QED  BY <2>2 DEF RefsCounted, RefsIn, Descriptors
<1>3. TypeOK
  <2>1. 0 \in 0 .. Cardinality(Procs) * (NOFILE + 1)
    OBVIOUS
  <2>2. 0 \in 0 .. Width - 1
    OBVIOUS
  <2>3. data \in [0 .. PIPESIZE - 1 -> Bytes]
    BY DEF Filled
  <2>4. nread = 0 /\ nwrite = 0 /\ got \in Seq(Bytes) /\ todo \in [Procs -> Seq(Bytes)]
    OBVIOUS
  <2>. QED  BY <2>1, <2>2, <2>3, <2>4 DEF TypeOK
<1>4. FileInv
  BY DEF FileInv, Using, Closing
<1>5. EndInv
  BY DEF EndInv, Carried, Closing
<1>6. WaitInv
  <2>1. Count = 0
    BY <1>3, CountFacts DEF Empty
  <2>2. \A p \in Procs : pc[p] \in {"user", "unused"}
    OBVIOUS
  <2>. HIDE DEF Init
  <2>. QED  BY <2>1, <2>2 DEF WaitInv
<1>7. RoleInv
  BY DEF RoleInv
<1>. QED  BY <1>2, <1>3, <1>4, <1>5, <1>6, <1>7 DEF IInv

-----------------------------------------------------------------------------
(* Reference counts *)

LEMMA RefPositive ==
  ASSUME RefsCounted, NEW p \in Procs, NEW d \in Fds, ofile[p][d] \in Files
  PROVE ref[ofile[p][d]] \in Nat /\ ref[ofile[p][d]] >= 1
<1>. DEFINE f == ofile[p][d]
<1>1. ref[f] = Cardinality(RefsIn(ofile, f))
  BY DEF RefsCounted, RefsIn, Descriptors
<1>2. <<p, d>> \in RefsIn(ofile, f)
  BY DEF RefsIn, Descriptors
<1>. HIDE DEF f
<1>3. IsFiniteSet(RefsIn(ofile, f)) /\ Cardinality(RefsIn(ofile, f)) \in Nat
  BY RefsNat
<1>4. Cardinality(RefsIn(ofile, f)) # 0
  BY <1>2, <1>3, FS_EmptySet
<1>5. ref[f] \in Nat /\ ref[f] >= 1
  BY <1>1, <1>3, <1>4
<1>. QED  BY <1>5 DEF f

(* A file has no more references than there are descriptors.                 *)
LEMMA RefsBounded ==
  ASSUME NEW o \in Tables, NEW r, r = [f \in Files |-> r[f]],
         \A f \in Files : r[f] = Cardinality(RefsIn(o, f))
  PROVE r \in [Files -> 0 .. Cardinality(Procs) * (NOFILE + 1)]
<1>1. ASSUME NEW f \in Files PROVE r[f] \in 0 .. Cardinality(Procs) * (NOFILE + 1)
  <2>1. r[f] \in 0 .. Cardinality(Procs) * NOFILE
    BY RefsFinite
  <2>2. Cardinality(Procs) * (NOFILE + 1) = Cardinality(Procs) * NOFILE + Cardinality(Procs)
    BY Constants
  <2>3. Cardinality(Procs) * NOFILE \in Nat /\ Cardinality(Procs) \in Nat
    BY Constants
  <2>. QED  BY <2>1, <2>2, <2>3
<1>. QED  BY <1>1

(* fileclose() of a descriptor that is not the last, and of the last. *)
LEMMA DropFacts ==
  ASSUME IInv, NEW p \in Procs, NEW d \in Fds, NEW last, NEW more, DropRef(p, d, last, more)
  PROVE /\ ofile[p][d] \in Files /\ ref[ofile[p][d]] \in Nat /\ ref[ofile[p][d]] >= 1
        /\ ref' = [ref EXCEPT ![ofile[p][d]] = @ - 1]
        /\ ofile' = [ofile EXCEPT ![p][d] = NoFile]
        /\ UNCHANGED <<writable, pipeVars, killed, todo, got, unannounced>>
        /\ \/ /\ ref[ofile[p][d]] = 1 /\ opened' = opened \ {ofile[p][d]}
              /\ file' = [file EXCEPT ![p] = ofile[p][d]] /\ pc' = [pc EXCEPT ![p] = last]
           \/ /\ ref[ofile[p][d]] > 1 /\ UNCHANGED <<opened, file>>
              /\ pc' = [pc EXCEPT ![p] = more]
<1>1. ofile[p][d] \in Files
  BY DEF DropRef, IInv, TypeOK
<1>2. ref[ofile[p][d]] \in Nat /\ ref[ofile[p][d]] >= 1
  BY <1>1, RefPositive DEF IInv
<1>. QED  BY <1>1, <1>2 DEF DropRef

(* References follow descriptors in every step.                              *)
LEMMA TableStep ==
  ASSUME IInv, [Next]_vars
  PROVE /\ ref' \in [Files -> 0 .. Cardinality(Procs) * (NOFILE + 1)]
        /\ ofile' \in Tables
        /\ RefsCounted'
<1>. USE Constants DEF IInv
<1>0. /\ ofile \in Tables /\ ref = [f \in Files |-> ref[f]] /\ ref \in [Files -> Nat]
      /\ \A f \in Files : ref[f] = Cardinality(RefsIn(ofile, f))
  BY DEF TypeOK, Tables, RefsCounted, RefsIn, Descriptors
<1>1. SUFFICES /\ ofile' \in Tables /\ ref' = [f \in Files |-> ref'[f]]
               /\ \A f \in Files : ref'[f] = Cardinality(RefsIn(ofile', f))
  <2>1. RefsCounted'
    BY <1>1 DEF RefsCounted, RefsIn, Descriptors
  <2>2. ref' \in [Files -> 0 .. Cardinality(Procs) * (NOFILE + 1)]
    BY <1>1, RefsBounded
  <2>. QED  BY <1>1, <2>1, <2>2
<1>2. CASE UNCHANGED <<ref, ofile>>
  BY <1>0, <1>2
<1>3. ASSUME NEW p \in Procs, SysPipe(p)
      PROVE /\ ofile' \in Tables /\ ref' = [f \in Files |-> ref'[f]]
            /\ \A f \in Files : ref'[f] = Cardinality(RefsIn(ofile', f))
  <2>1. PICK f0, f1 \in Files, d0, d1 \in Fds :
               /\ ref[f0] = 0 /\ ref[f1] = 0 /\ f0 # f1
               /\ ofile[p][d0] = NoFile /\ ofile[p][d1] = NoFile /\ d0 < d1
               /\ ref' = [ref EXCEPT ![f0] = 1, ![f1] = 1]
               /\ writable' = [writable EXCEPT ![f0] = FALSE, ![f1] = TRUE]
               /\ opened' = opened \cup {f0, f1}
               /\ ofile' = [ofile EXCEPT ![p][d0] = f0, ![p][d1] = f1]
    BY <1>3, Zenon DEF SysPipe
  <2>. DEFINE o == Put(ofile, p, d0, f0)
  <2>2. d0 # d1
    BY <2>1 DEF Fds
  <2>3. o[p][d1] = NoFile /\ ofile' = Put(o, p, d1, f1)
    BY <1>0, <2>1, <2>2 DEF Tables, Put
  <2>4. /\ o \in Tables /\ Cardinality(RefsIn(o, f0)) = 1
        /\ \A g \in Files : g # f0 => RefsIn(o, g) = RefsIn(ofile, g)
    <3>1. /\ o \in Tables /\ Cardinality(RefsIn(o, f0)) = Cardinality(RefsIn(ofile, f0)) + 1
          /\ \A g \in Files : g # f0 => RefsIn(o, g) = RefsIn(ofile, g)
      BY <1>0, <2>1, SetRef
    <3>2. Cardinality(RefsIn(ofile, f0)) = 0
      BY <1>0, <2>1
    <3>. QED  BY <3>1, <3>2
  <2>. HIDE DEF o
  <2>5. /\ ofile' \in Tables /\ Cardinality(RefsIn(ofile', f1)) = Cardinality(RefsIn(o, f1)) + 1
        /\ \A g \in Files : g # f1 => RefsIn(ofile', g) = RefsIn(o, g)
    BY <2>3, <2>4, SetRef
  <2>6. Cardinality(RefsIn(ofile', f1)) = 1
    <3>1. Cardinality(RefsIn(ofile, f1)) = 0
      BY <1>0, <2>1
    <3>2. RefsIn(o, f1) = RefsIn(ofile, f1)
      BY <2>1, <2>4
    <3>. QED  BY <2>5, <3>1, <3>2
  <2>7. ASSUME NEW f \in Files PROVE ref'[f] = Cardinality(RefsIn(ofile', f))
    <3>1. CASE f = f0
      BY <1>0, <2>1, <2>4, <2>5, <3>1
    <3>2. CASE f = f1
      BY <1>0, <2>1, <2>6, <3>2
    <3>3. CASE f # f0 /\ f # f1
      BY <1>0, <2>1, <2>4, <2>5, <3>3
    <3>. QED  BY <3>1, <3>2, <3>3
  <2>8. ref' = [f \in Files |-> ref'[f]]
    BY <1>0, <2>1
  <2>. QED  BY <2>5, <2>7, <2>8
<1>4. ASSUME NEW p \in Procs, SysDup(p)
      PROVE /\ ofile' \in Tables /\ ref' = [f \in Files |-> ref'[f]]
            /\ \A f \in Files : ref'[f] = Cardinality(RefsIn(ofile', f))
  <2>1. PICK d, e \in Fds :
               /\ ofile[p][d] # NoFile /\ ofile[p][e] = NoFile
               /\ ofile' = [ofile EXCEPT ![p][e] = ofile[p][d]]
               /\ ref' = [ref EXCEPT ![ofile[p][d]] = @ + 1]
    BY <1>4 DEF SysDup
  <2>2. ofile[p][d] \in Files
    BY <1>0, <2>1 DEF Tables
  <2>3. PICK f \in Files : f = ofile[p][d]
    BY <2>2
  <2>4. /\ ofile' \in Tables /\ Cardinality(RefsIn(ofile', f)) = Cardinality(RefsIn(ofile, f)) + 1
        /\ \A g \in Files : g # f => RefsIn(ofile', g) = RefsIn(ofile, g)
    <3>1. ofile' = Put(ofile, p, e, f)
      BY <2>1, <2>3 DEF Put
    <3>2. ofile[p][e] = NoFile
      BY <2>1
    <3>. QED  BY <1>0, <3>1, <3>2, SetRef
  <2>5. ref' = [g \in Files |-> ref'[g]] /\ \A g \in Files : ref'[g] = IF g = f THEN ref[g] + 1 ELSE ref[g]
    BY <1>0, <2>1, <2>3
  <2>. QED  BY <1>0, <2>4, <2>5
<1>5. ASSUME NEW p \in Procs, Fork(p)
      PROVE /\ ofile' \in Tables /\ ref' = [f \in Files |-> ref'[f]]
            /\ \A f \in Files : ref'[f] = Cardinality(RefsIn(ofile', f))
  <2>1. PICK q \in Procs :
               /\ pc[q] = "unused" /\ ofile' = [ofile EXCEPT ![q] = ofile[p]]
               /\ ref' = [f \in Files |-> ref[f] + Uses(p, f)]
    BY <1>5 DEF Fork
  <2>2. \A d \in Fds : ofile[q][d] = NoFile
    BY <2>1 DEF FileInv
  <2>3. /\ ofile' \in Tables
        /\ \A f \in Files : Cardinality(RefsIn(ofile', f))
             = Cardinality(RefsIn(ofile, f)) + Cardinality({d \in Fds : ofile[p][d] = f})
    <3>1. ofile' = Child(ofile, p, q)
      BY <2>1 DEF Child
    <3>. QED  BY <1>0, <2>2, <3>1, CopyRefs
  <2>. QED  BY <1>0, <2>1, <2>3 DEF Uses
<1>6. ASSUME NEW p \in Procs, NEW d \in Fds, NEW last, NEW more, DropRef(p, d, last, more)
      PROVE /\ ofile' \in Tables /\ ref' = [f \in Files |-> ref'[f]]
            /\ \A f \in Files : ref'[f] = Cardinality(RefsIn(ofile', f))
  <2>1. /\ ofile[p][d] \in Files /\ ref' = [ref EXCEPT ![ofile[p][d]] = @ - 1]
        /\ ofile' = [ofile EXCEPT ![p][d] = NoFile]
    BY <1>6, DropFacts
  <2>2. PICK f \in Files : f = ofile[p][d]
    BY <2>1
  <2>3. /\ ofile' \in Tables /\ Cardinality(RefsIn(ofile, f)) = Cardinality(RefsIn(ofile', f)) + 1
        /\ \A g \in Files : g # f => RefsIn(ofile', g) = RefsIn(ofile, g)
    <3>1. ofile' = Put(ofile, p, d, NoFile) /\ ofile[p][d] = f
      BY <2>1, <2>2 DEF Put
    <3>. QED  BY <1>0, <3>1, ClearRef
  <2>4. ref' = [g \in Files |-> ref'[g]] /\ \A g \in Files : ref'[g] = IF g = f THEN ref[g] - 1 ELSE ref[g]
    BY <1>0, <2>1, <2>2
  <2>5. Cardinality(RefsIn(ofile', f)) \in Nat
    BY RefsNat
  <2>. QED  BY <1>0, <2>3, <2>4, <2>5
<1>7. ASSUME NEW p \in Procs,
             \/ Exit(p) \/ ExitDone(p) \/ PipeClose(p) \/ SysWrite(p) \/ PipeWrite(p)
             \/ PipeWriteFull(p) \/ SysRead(p) \/ PipeReadEmpty(p) \/ PipeRead(p) \/ Park(p)
      PROVE UNCHANGED <<ref, ofile>>
  BY <1>7 DEF Exit, ExitDone, PipeClose, SysWrite, PipeWrite, PipeWriteFull, SysRead,
              PipeReadEmpty, PipeRead, Park, tableVars
<1>8. ASSUME NEW p \in Procs, Kill(p) PROVE UNCHANGED <<ref, ofile>>
  BY <1>8 DEF Kill, tableVars
<1>9. CASE UNCHANGED vars
  BY <1>2, <1>9 DEF vars, tableVars
<1>. QED
  BY <1>2, <1>3, <1>4, <1>5, <1>6, <1>7, <1>8, <1>9 DEF Next, ProcStep, SysClose, ExitClose

-----------------------------------------------------------------------------
(* Types *)

LEMMA CopyFacts ==
  ASSUME TypeOK, NEW p \in Procs, NEW k \in Nat, k <= Len(todo[p]), k <= PIPESIZE - Count, Copy(p, k)
  PROVE /\ data' \in [0 .. PIPESIZE - 1 -> Bytes]
        /\ nwrite' \in 0 .. Width - 1
        /\ nread' = nread => Count' = Count + k
<1>. USE Constants DEF TypeOK
<1>1. /\ nwrite \in 0 .. (Width - 1) /\ nread \in 0 .. (Width - 1)
      /\ nwrite' = Plus(nwrite, k, Width) /\ Width \in Nat \ {0}
      /\ Count = Gap(nwrite, nread, Width) /\ Count \in 0 .. (Width - 1)
  BY CountFacts DEF Copy, Count, Gap, Plus
<1>2. k \in 0 .. (Width - 1) /\ Count + k < Width
  BY <1>1, SMTT(30)
<1>3. nwrite' \in 0 .. (Width - 1) /\ Gap(nwrite', nread, Width) = Count + k
  <2>. HIDE DEF TypeOK
  <2>. QED  BY <1>1, <1>2, CountPut
<1>4. data' \in [0 .. PIPESIZE - 1 -> Bytes]
  <2>. DEFINE src(j) == {i \in 1 .. k : (nwrite + i - 1) % PIPESIZE = j}
  <2>1. data' = [j \in DOMAIN data |-> IF src(j) = {} THEN data[j] ELSE todo[p][CHOOSE i \in src(j) : TRUE]]
    BY DEF Copy
  <2>2. ASSUME NEW j, src(j) # {} PROVE todo[p][CHOOSE i \in src(j) : TRUE] \in Bytes
    <3>1. (CHOOSE i \in src(j) : TRUE) \in src(j)
      BY <2>2
    <3>2. \A i \in src(j) : i \in 1 .. Len(todo[p])
      OBVIOUS
    <3>3. todo[p] \in Seq(Bytes)
      OBVIOUS
    <3>. HIDE DEF src
    <3>. QED  BY <3>1, <3>2, <3>3
  <2>. HIDE DEF src
  <2>. QED  BY <2>1, <2>2
<1>. QED  BY <1>3, <1>4 DEF Count, Gap

(* What piperead() takes. *)
LEMMA TakeFacts ==
  ASSUME TypeOK, NEW n \in ReadSizes, NEW k, k = Smaller(n, Count), nread' = (nread + k) % Width
  PROVE /\ k \in Nat /\ k <= Count
        /\ nread' \in 0 .. Width - 1
        /\ nwrite' = nwrite => Count' = Count - k
<1>. USE Constants
<1>1. /\ nwrite \in 0 .. (Width - 1) /\ nread \in 0 .. (Width - 1) /\ n \in Nat /\ Width \in Nat \ {0}
      /\ Count = Gap(nwrite, nread, Width) /\ Count \in 0 .. (Width - 1)
  BY CountFacts DEF TypeOK, Count, Gap
<1>2. k \in 0 .. (Width - 1) /\ k <= Count
  BY <1>1 DEF Smaller
<1>3. nread' = Plus(nread, k, Width)
  BY DEF Plus
<1>4. nread' \in 0 .. (Width - 1) /\ Gap(nwrite, nread', Width) = Count - k
  BY <1>1, <1>2, <1>3, CountGet, SMTT(30)
<1>. QED  BY <1>2, <1>4 DEF Count, Gap

(* Types stay.                                                               *)
LEMMA TypeOKStep ==
  ASSUME IInv, [Next]_vars
  PROVE TypeOK'
<1>. USE Constants DEF IInv
<1>1. /\ ref' \in [Files -> 0 .. Cardinality(Procs) * (NOFILE + 1)]
      /\ ofile' \in [Procs -> [Fds -> Files \cup {NoFile}]]
  BY TableStep DEF Tables
<1>2. Filled \in [0 .. PIPESIZE - 1 -> Bytes] /\ 0 \in 0 .. Width - 1
  BY DEF Filled
<1>3. ASSUME NEW p \in Procs, SysPipe(p) PROVE TypeOK'
  BY <1>1, <1>2, <1>3 DEF TypeOK, SysPipe
<1>4. ASSUME NEW p \in Procs, SysDup(p) PROVE TypeOK'
  BY <1>1, <1>4 DEF TypeOK, SysDup, pipeVars
<1>5. ASSUME NEW p \in Procs, Fork(p) PROVE TypeOK'
  BY <1>1, <1>5 DEF TypeOK, Fork, pipeVars
<1>6. ASSUME NEW p \in Procs, NEW d \in Fds, NEW last \in {"close", "exitclose"}, NEW more \in {"user", "exit"},
             DropRef(p, d, last, more)
      PROVE TypeOK'
  <2>1. ofile[p][d] \in Files
    BY <1>6, DropFacts
  <2>2. pc' = [pc EXCEPT ![p] = last] \/ pc' = [pc EXCEPT ![p] = more]
    BY <1>6, DropFacts
  <2>3. opened' \subseteq Files /\ file' \in [Procs -> Files \cup {NoFile}]
    BY <1>6, <2>1, DropFacts, ZenonT(60) DEF TypeOK
  <2>. QED  BY <1>1, <1>6, <2>2, <2>3, DropFacts, ZenonT(60) DEF TypeOK, pipeVars
<1>7. ASSUME NEW p \in Procs, Exit(p) PROVE TypeOK'
  BY <1>1, <1>7 DEF TypeOK, Exit, pipeVars, tableVars
<1>8. ASSUME NEW p \in Procs, ExitDone(p) PROVE TypeOK'
  BY <1>1, <1>8 DEF TypeOK, ExitDone, pipeVars, tableVars
<1>9. ASSUME NEW p \in Procs, PipeClose(p) PROVE TypeOK'
  <2>1. file[p] \in Files /\ writable[file[p]] \in BOOLEAN
    BY <1>9 DEF PipeClose, FileInv, Closing, TypeOK
  <2>2. readopen' \in BOOLEAN /\ writeopen' \in BOOLEAN /\ allocated' \in BOOLEAN
    BY <1>9, <2>1 DEF PipeClose, TypeOK
  <2>3. /\ nread' \in 0 .. Width - 1 /\ nwrite' \in 0 .. Width - 1
        /\ data' \in [0 .. PIPESIZE - 1 -> Bytes] /\ got' \in Seq(Bytes)
    <3>1. \/ nread' = nread /\ nwrite' = nwrite /\ data' = data /\ got' = got
          \/ nread' = 0 /\ nwrite' = 0 /\ data' = Filled /\ got' = <<>>
      BY <1>9 DEF PipeClose
    <3>2. <<>> \in Seq(Bytes)
      OBVIOUS
    <3>. QED  BY <1>2, <3>1, <3>2 DEF TypeOK
  <2>4. unannounced' \in BOOLEAN
    <3>1. /\ allocated' => unannounced' = (unannounced /\ ~writable[file[p]])
          /\ ~allocated' => unannounced' = FALSE
      BY <1>9 DEF PipeClose
    <3>. QED  BY <2>1, <2>2, <3>1 DEF TypeOK
  <2>5. file' \in [Procs -> Files \cup {NoFile}]
    BY <1>9 DEF PipeClose, TypeOK
  <2>6. pc' \in [Procs -> {"unused", "user", "write", "wpark", "wsleep", "read", "rpark", "rsleep",
                           "close", "exit", "exitclose"}]
    BY <1>9 DEF PipeClose, TypeOK, WakeReaders, WakeWriters, Wake
  <2>. QED
    BY <1>1, <1>9, <2>2, <2>3, <2>4, <2>5, <2>6 DEF PipeClose, TypeOK, tableVars
<1>10. ASSUME NEW p \in Procs, SysWrite(p) PROVE TypeOK'
  BY <1>1, <1>10 DEF TypeOK, SysWrite, pipeVars, tableVars
<1>11. ASSUME NEW p \in Procs, PipeWrite(p) PROVE TypeOK'
  <2>1. Len(todo[p]) \in Nat /\ Len(todo[p]) <= PIPESIZE - Count /\ Copy(p, Len(todo[p]))
    BY <1>11 DEF PipeWrite, TypeOK
  <2>2. data' \in [0 .. PIPESIZE - 1 -> Bytes] /\ nwrite' \in 0 .. Width - 1
    BY <2>1, CopyFacts
  <2>. QED
    <3>1. todo' \in [Procs -> Seq(Bytes)] /\ file' \in [Procs -> Files \cup {NoFile}]
      BY <1>11 DEF PipeWrite, TypeOK, Return
    <3>2. pc' \in [Procs -> {"unused", "user", "write", "wpark", "wsleep", "read", "rpark", "rsleep",
                             "close", "exit", "exitclose"}]
      BY <1>11 DEF PipeWrite, TypeOK, Return, WakeReaders, Wake
    <3>. QED  BY <1>1, <1>11, <2>2, <3>1, <3>2 DEF PipeWrite, TypeOK, tableVars
<1>12. ASSUME NEW p \in Procs, PipeWriteFull(p) PROVE TypeOK'
  <2>. DEFINE k == PIPESIZE - Count
  <2>1. k \in Nat /\ k <= Len(todo[p]) /\ k <= PIPESIZE - Count /\ Copy(p, k)
    BY <1>12, CountFacts, SMTT(30) DEF PipeWriteFull, TypeOK, WaitInv
  <2>2. data' \in [0 .. PIPESIZE - 1 -> Bytes] /\ nwrite' \in 0 .. Width - 1
    BY <2>1, CopyFacts
  <2>3. (k > 0) \in BOOLEAN
    OBVIOUS
  <2>4. todo' \in [Procs -> Seq(Bytes)]
    <3>1. todo \in [Procs -> Seq(Bytes)] /\ todo[p] \in Seq(Bytes) /\ <<>> \in Seq(Bytes)
      BY DEF TypeOK
    <3>2. todo' = [todo EXCEPT ![p] = <<>>] \/ todo' = [todo EXCEPT ![p] = SubSeq(@, k + 1, Len(@))]
      BY <1>12 DEF PipeWriteFull
    <3>3. SubSeq(todo[p], k + 1, Len(todo[p])) \in Seq(Bytes)
      <4>1. Len(todo[p]) \in Nat /\ k + 1 \in Nat \ {0}
        BY <2>1, <3>1
      <4>. HIDE DEF k
      <4>. QED  BY <3>1, <4>1
    <3>. HIDE DEF k
    <3>. QED  BY <3>1, <3>2, <3>3
  <2>5. /\ unannounced' \in BOOLEAN /\ file' \in [Procs -> Files \cup {NoFile}]
        /\ pc' \in [Procs -> {"unused", "user", "write", "wpark", "wsleep", "read", "rpark", "rsleep",
                              "close", "exit", "exitclose"}]
    BY <1>12 DEF PipeWriteFull, TypeOK, Return, WakeReaders, Wake
  <2>. QED
    BY <1>1, <1>12, <2>2, <2>4, <2>5 DEF PipeWriteFull, TypeOK, tableVars
<1>13. ASSUME NEW p \in Procs, SysRead(p) PROVE TypeOK'
  BY <1>1, <1>13 DEF TypeOK, SysRead, pipeVars, tableVars
<1>14. ASSUME NEW p \in Procs, PipeReadEmpty(p) PROVE TypeOK'
  BY <1>1, <1>14 DEF TypeOK, PipeReadEmpty, Return, pipeVars, tableVars
<1>15. ASSUME NEW p \in Procs, PipeRead(p) PROVE TypeOK'
  <2>1. PICK n \in ReadSizes :
               /\ got' = [i \in 1 .. Smaller(n, Count) |-> data[(nread + i - 1) % PIPESIZE]]
               /\ nread' = (nread + Smaller(n, Count)) % Width
    BY <1>15 DEF PipeRead
  <2>2. Smaller(n, Count) \in Nat /\ nread' \in 0 .. Width - 1
    BY <2>1, TakeFacts
  <2>3. got' \in Seq(Bytes)
    <3>1. \A i \in Nat \ {0} : (nread + i - 1) % PIPESIZE \in 0 .. PIPESIZE - 1
      BY DEF TypeOK
    <3>2. \A i \in 1 .. Smaller(n, Count) : data[(nread + i - 1) % PIPESIZE] \in Bytes
      BY <2>2, <3>1 DEF TypeOK
    <3>. QED  BY <2>1, <2>2, <3>2
  <2>. QED
    BY <1>1, <1>15, <2>2, <2>3 DEF PipeRead, TypeOK, tableVars, Return, WakeWriters, Wake
<1>16. ASSUME NEW p \in Procs, Park(p) PROVE TypeOK'
  BY <1>1, <1>16 DEF TypeOK, Park, pipeVars, tableVars
<1>17. ASSUME NEW p \in Procs, Kill(p) PROVE TypeOK'
  BY <1>1, <1>17 DEF TypeOK, Kill, pipeVars, tableVars
<1>18. CASE UNCHANGED vars
  BY <1>18 DEF TypeOK, vars, pipeVars, tableVars
<1>. QED
  BY <1>3, <1>4, <1>5, <1>6, <1>7, <1>8, <1>9, <1>10, <1>11, <1>12, <1>13, <1>14, <1>15, <1>16, <1>17, <1>18
  DEF Next, ProcStep, SysClose, ExitClose

-----------------------------------------------------------------------------
(* Files in use *)

LEMMA FileStep ==
  ASSUME IInv, [Next]_vars
  PROVE FileInv'
<1>. USE Constants DEF IInv
<1>0. /\ ofile \in Tables /\ ofile' \in Tables
      /\ ref \in [Files -> Nat] /\ file \in [Procs -> Files \cup {NoFile}] /\ DOMAIN pc = Procs
      /\ opened \subseteq Files
  <2>1. \A f \in Files : ref[f] \in Nat
    BY DEF TypeOK
  <2>. QED  BY <2>1, TableStep DEF TypeOK, Tables
<1>1. ASSUME NEW p \in Procs, SysPipe(p) PROVE FileInv'
  <2>1. PICK f0, f1 \in Files, d0, d1 \in Fds :
               /\ ref[f0] = 0 /\ ref[f1] = 0 /\ f0 # f1
               /\ ofile[p][d0] = NoFile /\ ofile[p][d1] = NoFile /\ d0 < d1
               /\ ref' = [ref EXCEPT ![f0] = 1, ![f1] = 1]
               /\ writable' = [writable EXCEPT ![f0] = FALSE, ![f1] = TRUE]
               /\ opened' = opened \cup {f0, f1}
               /\ ofile' = [ofile EXCEPT ![p][d0] = f0, ![p][d1] = f1]
    BY <1>1, Zenon DEF SysPipe
  <2>2. pc[p] = "user" /\ pc' = pc /\ file' = file
    BY <1>1 DEF SysPipe, User
  <2>3. \A q \in Procs : q # p => ofile'[q] = ofile[q]
    BY <1>0, <2>1 DEF Tables
  <2>4. \A f \in Files : ref'[f] = IF f \in {f0, f1} THEN 1 ELSE ref[f]
    BY <1>0, <2>1
  <2>5. \A f \in Files : f \in opened' <=> ref'[f] > 0
    <3>1. \A f \in Files : f \in opened <=> ref[f] > 0
      BY DEF FileInv
    <3>2. f0 \notin opened /\ f1 \notin opened /\ opened' = opened \cup {f0, f1}
      BY <2>1, <3>1
    <3>. QED  BY <2>4, <3>1, <3>2
  <2>6. \A q \in Procs : pc[q] \in Using \cup Closing \cup {"unused"} => q # p
    BY <2>2 DEF Using, Closing
  <2>. QED  BY <2>2, <2>3, <2>5, <2>6 DEF FileInv
<1>2. ASSUME NEW p \in Procs, SysDup(p) PROVE FileInv'
  <2>1. PICK d, e \in Fds :
               /\ ofile[p][d] # NoFile /\ ofile[p][e] = NoFile
               /\ ofile' = [ofile EXCEPT ![p][e] = ofile[p][d]]
               /\ ref' = [ref EXCEPT ![ofile[p][d]] = @ + 1]
    BY <1>2 DEF SysDup
  <2>2. pc[p] = "user" /\ pc' = pc /\ file' = file /\ opened' = opened
    BY <1>2 DEF SysDup, User
  <2>3. \A q \in Procs : q # p => ofile'[q] = ofile[q]
    BY <1>0, <2>1 DEF Tables
  <2>4. ofile[p][d] \in Files /\ ref[ofile[p][d]] >= 1
    BY <1>0, <2>1, RefPositive DEF Tables
  <2>5. \A f \in Files : ref'[f] > 0 <=> ref[f] > 0
    BY <1>0, <2>1, <2>4
  <2>. QED  BY <1>0, <2>2, <2>3, <2>5 DEF FileInv, Using, Closing
<1>3. ASSUME NEW p \in Procs, Fork(p) PROVE FileInv'
  <2>1. PICK q \in Procs :
               /\ pc[q] = "unused" /\ ofile' = [ofile EXCEPT ![q] = ofile[p]]
               /\ ref' = [f \in Files |-> ref[f] + Uses(p, f)]
               /\ pc' = [pc EXCEPT ![q] = "user"]
    BY <1>3 DEF Fork
  <2>2. file' = file /\ opened' = opened
    BY <1>3 DEF Fork
  <2>3. \A r \in Procs : r # q => ofile'[r] = ofile[r]
    BY <1>0, <2>1 DEF Tables
  <2>4. ASSUME NEW f \in Files PROVE ref'[f] > 0 <=> ref[f] > 0
    <3>. DEFINE S == {d \in Fds : ofile[p][d] = f}
    <3>1. S \in SUBSET Fds
      OBVIOUS
    <3>2. IsFiniteSet(S) /\ Cardinality(S) \in Nat
      BY <3>1, FS_Subset, FS_CardinalityType
    <3>3. ref'[f] = ref[f] + Cardinality(S) /\ ref[f] \in Nat
      BY <1>0, <2>1 DEF Uses
    <3>4. CASE S = {}
      <4>1. Cardinality(S) = 0
        BY <3>4, FS_EmptySet
      <4>. HIDE DEF S
      <4>. QED  BY <3>3, <4>1
    <3>5. CASE S # {}
      <4>1. PICK d \in Fds : ofile[p][d] = f
        BY <3>5
      <4>2. ref[f] >= 1
        BY <4>1, RefPositive
      <4>. HIDE DEF S
      <4>. QED  BY <3>2, <3>3, <4>2
    <3>. QED  BY <3>4, <3>5
  <2>5. \A r \in Procs : pc'[r] = IF r = q THEN "user" ELSE pc[r]
    BY <1>0, <2>1
  <2>6. \A r \in Procs : pc'[r] \in Using \cup Closing \cup {"unused"} => r # q /\ pc'[r] = pc[r]
    BY <2>5 DEF Using, Closing
  <2>. QED  BY <2>2, <2>3, <2>4, <2>6 DEF FileInv
<1>4. ASSUME NEW p \in Procs, NEW d \in Fds, NEW last \in Closing, NEW more \in {"user", "exit"},
             pc[p] \in {"user", "exit"}, DropRef(p, d, last, more)
      PROVE FileInv'
  <2>1. /\ ofile[p][d] \in Files /\ ref[ofile[p][d]] \in Nat /\ ref[ofile[p][d]] >= 1
        /\ ref' = [ref EXCEPT ![ofile[p][d]] = @ - 1]
        /\ ofile' = [ofile EXCEPT ![p][d] = NoFile]
    BY <1>4, DropFacts
  <2>2. PICK f \in Files : f = ofile[p][d]
    BY <2>1
  <2>3. \A q \in Procs : q # p => ofile'[q] = ofile[q]
    BY <1>0, <2>1 DEF Tables
  <2>4. \A g \in Files : ref'[g] = IF g = f THEN ref[g] - 1 ELSE ref[g]
    BY <1>0, <2>1, <2>2
  <2>5. CASE ref[f] = 1 /\ opened' = opened \ {f}
             /\ file' = [file EXCEPT ![p] = f] /\ pc' = [pc EXCEPT ![p] = last]
    <3>1. \A q \in Procs : pc'[q] = (IF q = p THEN last ELSE pc[q]) /\ file'[q] = IF q = p THEN f ELSE file[q]
      BY <1>0, <2>5
    <3>2. last \notin Using \cup {"unused"}
      BY DEF Using, Closing
    <3>3. \A g \in Files : g \in opened' <=> ref'[g] > 0
      BY <1>0, <2>4, <2>5 DEF FileInv
    <3>. QED  BY <2>3, <3>1, <3>2, <3>3 DEF FileInv
  <2>6. CASE ref[f] > 1 /\ UNCHANGED <<opened, file>> /\ pc' = [pc EXCEPT ![p] = more]
    <3>1. \A q \in Procs : pc'[q] = IF q = p THEN more ELSE pc[q]
      BY <1>0, <2>6
    <3>2. more \notin Using \cup Closing \cup {"unused"}
      BY DEF Using, Closing
    <3>3. \A g \in Files : g \in opened' <=> ref'[g] > 0
      BY <1>0, <2>4, <2>6 DEF FileInv
    <3>. QED  BY <2>3, <2>6, <3>1, <3>2, <3>3 DEF FileInv
  <2>. QED  BY <1>4, <2>2, <2>5, <2>6, DropFacts
<1>5. ASSUME UNCHANGED <<ref, opened, ofile>>,
             \A q \in Procs : pc'[q] = "unused" => \A d \in Fds : ofile[q][d] = NoFile,
             \A q \in Procs : pc'[q] \in Using \cup Closing =>
               \/ /\ pc[q] \in Using \cup Closing /\ file'[q] = file[q]
                  /\ pc'[q] \in Using => pc[q] \in Using
               \/ /\ file'[q] \in Files /\ pc'[q] \in Using
                  /\ \E d \in Fds : ofile[q][d] = file'[q]
      PROVE FileInv'
  BY <1>5 DEF FileInv
<1>6. ASSUME NEW p \in Procs, Exit(p) \/ ExitDone(p) PROVE FileInv'
  <2>1. CASE Exit(p)
    BY <1>0, <1>5, <2>1 DEF Exit, tableVars, Using, Closing, FileInv
  <2>2. CASE ExitDone(p)
    BY <1>0, <1>5, <2>2 DEF ExitDone, tableVars, Using, Closing, FileInv
  <2>. QED  BY <1>6, <2>1, <2>2
<1>7. ASSUME NEW p \in Procs, PipeClose(p) PROVE FileInv'
  <2>1. \A q \in Procs : q # p => file'[q] = file[q]
                                  /\ (pc'[q] = pc[q] \/ (pc'[q] = "read" /\ pc[q] = "rsleep")
                                                     \/ (pc'[q] = "write" /\ pc[q] = "wsleep"))
    BY <1>0, <1>7 DEF PipeClose, WakeReaders, WakeWriters, Wake
  <2>2. pc'[p] \in {"user", "exit"}
    BY <1>0, <1>7 DEF PipeClose, WakeReaders, WakeWriters, Wake
  <2>3. UNCHANGED <<ref, opened, ofile>>
    BY <1>7 DEF PipeClose, tableVars
  <2>. QED  BY <1>5, <2>1, <2>2, <2>3 DEF Using, Closing, FileInv
<1>8. ASSUME NEW p \in Procs, SysWrite(p) PROVE FileInv'
  <2>1. PICK d \in Fds : ofile[p][d] # NoFile /\ file' = [file EXCEPT ![p] = ofile[p][d]]
    BY <1>8 DEF SysWrite
  <2>2. ofile[p][d] \in Files /\ file'[p] = ofile[p][d] /\ \A q \in Procs : q # p => file'[q] = file[q]
    BY <1>0, <2>1 DEF Tables
  <2>3. pc' = [pc EXCEPT ![p] = "write"] /\ UNCHANGED <<ref, opened, ofile>>
    BY <1>8 DEF SysWrite, tableVars
  <2>. QED  BY <1>0, <1>5, <2>2, <2>3 DEF Using, Closing, FileInv
<1>9. ASSUME NEW p \in Procs, SysRead(p) PROVE FileInv'
  <2>1. PICK d \in Fds : ofile[p][d] # NoFile /\ file' = [file EXCEPT ![p] = ofile[p][d]]
    BY <1>9 DEF SysRead
  <2>2. ofile[p][d] \in Files /\ file'[p] = ofile[p][d] /\ \A q \in Procs : q # p => file'[q] = file[q]
    BY <1>0, <2>1 DEF Tables
  <2>3. pc' = [pc EXCEPT ![p] = "read"] /\ UNCHANGED <<ref, opened, ofile>>
    BY <1>9 DEF SysRead, tableVars
  <2>. QED  BY <1>0, <1>5, <2>2, <2>3 DEF Using, Closing, FileInv
<1>10. ASSUME NEW p \in Procs, PipeWrite(p) \/ PipeRead(p) PROVE FileInv'
  <2>1. \A q \in Procs : q # p => file'[q] = file[q]
                                  /\ (pc'[q] = pc[q] \/ (pc'[q] = "read" /\ pc[q] = "rsleep")
                                                     \/ (pc'[q] = "write" /\ pc[q] = "wsleep"))
    BY <1>0, <1>10 DEF PipeWrite, PipeRead, Return, WakeReaders, WakeWriters, Wake
  <2>2. pc'[p] = "user"
    BY <1>0, <1>10 DEF PipeWrite, PipeRead, Return, WakeReaders, WakeWriters, Wake
  <2>3. UNCHANGED <<ref, opened, ofile>>
    BY <1>10 DEF PipeWrite, PipeRead, tableVars
  <2>. QED  BY <1>5, <2>1, <2>2, <2>3 DEF Using, Closing, FileInv
<1>11. ASSUME NEW p \in Procs, PipeWriteFull(p) PROVE FileInv'
  <2>1. \A q \in Procs : q # p => file'[q] = file[q]
                                  /\ (pc'[q] = pc[q] \/ (pc'[q] = "read" /\ pc[q] = "rsleep"))
    BY <1>0, <1>11 DEF PipeWriteFull, Return, WakeReaders, Wake
  <2>2. pc[p] = "write" /\ (pc'[p] = "user" \/ (pc'[p] = "wpark" /\ file' = file))
    BY <1>0, <1>11 DEF PipeWriteFull, Return, WakeReaders, Wake
  <2>3. UNCHANGED <<ref, opened, ofile>>
    BY <1>11 DEF PipeWriteFull, tableVars
  <2>. QED  BY <1>5, <2>1, <2>2, <2>3 DEF Using, Closing, FileInv
<1>12. ASSUME NEW p \in Procs, PipeReadEmpty(p) PROVE FileInv'
  <2>1. \A q \in Procs : q # p => file'[q] = file[q] /\ pc'[q] = pc[q]
    BY <1>0, <1>12 DEF PipeReadEmpty, Return
  <2>2. pc[p] = "read" /\ (pc'[p] = "user" \/ (pc'[p] = "rpark" /\ file' = file))
    BY <1>0, <1>12 DEF PipeReadEmpty, Return
  <2>3. UNCHANGED <<ref, opened, ofile>>
    BY <1>12 DEF PipeReadEmpty, tableVars
  <2>. QED  BY <1>5, <2>1, <2>2, <2>3 DEF Using, Closing, FileInv
<1>13. ASSUME NEW p \in Procs, Park(p) PROVE FileInv'
  BY <1>0, <1>5, <1>13 DEF Park, tableVars, Using, Closing, FileInv
<1>14. ASSUME NEW p \in Procs, Kill(p) PROVE FileInv'
  BY <1>0, <1>5, <1>14 DEF Kill, tableVars, Using, Closing, FileInv
<1>15. CASE UNCHANGED vars
  BY <1>15 DEF FileInv, vars, tableVars
<1>16. ASSUME NEW p \in Procs, SysClose(p) \/ ExitClose(p) PROVE FileInv'
  BY <1>4, <1>16 DEF SysClose, ExitClose, User, Closing
<1>. QED
  BY <1>1, <1>2, <1>3, <1>6, <1>7, <1>8, <1>9, <1>10, <1>11, <1>12, <1>13, <1>14, <1>15, <1>16
  DEF Next, ProcStep

-----------------------------------------------------------------------------
(* The two ends *)

LEMMA EndStep ==
  ASSUME IInv, [Next]_vars
  PROVE EndInv'
<1>. USE Constants DEF IInv
<1>0. /\ DOMAIN pc = Procs /\ file \in [Procs -> Files \cup {NoFile}] /\ writable \in [Files -> BOOLEAN]
      /\ opened \subseteq Files /\ readopen \in BOOLEAN /\ writeopen \in BOOLEAN /\ allocated \in BOOLEAN
      /\ \A p \in Procs : pc[p] \in Closing => file[p] \in Files
  BY DEF TypeOK, FileInv
<1>1. ASSUME NEW p \in Procs, SysPipe(p) PROVE EndInv'
  <2>1. PICK f0, f1 \in Files :
               /\ ref[f0] = 0 /\ ref[f1] = 0 /\ f0 # f1
               /\ writable' = [writable EXCEPT ![f0] = FALSE, ![f1] = TRUE]
               /\ opened' = opened \cup {f0, f1}
    BY <1>1 DEF SysPipe
  <2>2. ~allocated /\ allocated' = TRUE /\ readopen' = TRUE /\ writeopen' = TRUE /\ pc' = pc /\ file' = file
    BY <1>1 DEF SysPipe
  <2>3. ~Carried(FALSE) /\ ~Carried(TRUE)
    BY <1>0, <2>2 DEF EndInv
  <2>4. opened = {}
    <3>1. ASSUME NEW f \in opened PROVE FALSE
      <4>1. writable[f] \in BOOLEAN
        BY <1>0
      <4>. QED  BY <2>3, <4>1 DEF Carried
    <3>. QED  BY <3>1
  <2>5. \A q \in Procs : pc[q] \notin Closing
    <3>1. ASSUME NEW q \in Procs, pc[q] \in Closing PROVE FALSE
      <4>1. writable[file[q]] \in BOOLEAN
        BY <1>0, <3>1
      <4>. QED  BY <2>3, <3>1, <4>1 DEF Carried
    <3>. QED  BY <3>1
  <2>6. writable'[f0] = FALSE /\ writable'[f1] = TRUE /\ opened' = {f0, f1}
    BY <1>0, <2>1, <2>4
  <2>7. Carried(FALSE)' /\ Carried(TRUE)'
    BY <2>6 DEF Carried
  <2>. QED  BY <2>2, <2>5, <2>6, <2>7 DEF EndInv
<1>2. ASSUME NEW p \in Procs, NEW d \in Fds, NEW last \in Closing, NEW more \in {"user", "exit"},
             pc[p] \in {"user", "exit"}, DropRef(p, d, last, more)
      PROVE EndInv'
  <2>1. ofile[p][d] \in Files /\ UNCHANGED <<writable, allocated, readopen, writeopen>>
    BY <1>2, DropFacts DEF pipeVars
  <2>2. PICK f \in Files : f = ofile[p][d]
    BY <2>1
  <2>3. pc[p] \notin Closing
    BY <1>2 DEF Closing
  <2>4. CASE ref[f] = 1 /\ opened' = opened \ {f}
             /\ file' = [file EXCEPT ![p] = f] /\ pc' = [pc EXCEPT ![p] = last]
    <3>1. f \in opened
      BY <2>4 DEF FileInv
    <3>2. /\ pc'[p] \in Closing /\ file'[p] = f
          /\ \A q \in Procs : q # p => pc'[q] = pc[q] /\ file'[q] = file[q]
      BY <1>0, <2>4
    <3>3. ASSUME NEW w \in BOOLEAN PROVE Carried(w)' <=> Carried(w)
      BY <2>1, <2>3, <2>4, <3>1, <3>2 DEF Carried
    <3>4. \A g, h \in opened' : writable'[g] = writable'[h] => g = h
      BY <2>1, <2>4 DEF EndInv
    <3>5. ASSUME NEW q \in Procs, NEW r \in Procs, pc'[q] \in Closing, pc'[r] \in Closing,
                 writable'[file'[q]] = writable'[file'[r]]
          PROVE q = r
      BY <2>1, <3>1, <3>2, <3>5 DEF EndInv
    <3>6. ASSUME NEW g \in opened', NEW q \in Procs, pc'[q] \in Closing
          PROVE writable'[g] # writable'[file'[q]]
      BY <2>1, <2>4, <3>1, <3>2, <3>6 DEF EndInv
    <3>. QED  BY <2>1, <3>3, <3>4, <3>5, <3>6 DEF EndInv
  <2>5. CASE ref[f] > 1 /\ UNCHANGED <<opened, file>> /\ pc' = [pc EXCEPT ![p] = more]
    <3>1. \A q \in Procs : (pc'[q] \in Closing <=> pc[q] \in Closing)
      BY <1>0, <2>3, <2>5 DEF Closing
    <3>. QED  BY <2>1, <2>5, <3>1 DEF EndInv, Carried
  <2>. QED  BY <1>2, <2>2, <2>4, <2>5, DropFacts
<1>3. ASSUME NEW p \in Procs, PipeClose(p) PROVE EndInv'
  <2>0. pc[p] \in Closing /\ writable[file[p]] \in BOOLEAN
    <3>1. pc[p] \in Closing
      BY <1>3 DEF PipeClose, Closing
    <3>. QED  BY <1>0, <3>1
  <2>1. PICK w \in BOOLEAN : w = writable[file[p]]
    BY <2>0
  <2>2. /\ readopen' = (readopen /\ w) /\ writeopen' = (writeopen /\ ~w)
        /\ allocated' = (readopen' \/ writeopen') /\ UNCHANGED <<writable, opened>>
    BY <1>3, <2>1 DEF PipeClose, tableVars
  <2>3. \A q \in Procs : q # p => file'[q] = file[q] /\ (pc'[q] \in Closing <=> pc[q] \in Closing)
    BY <1>0, <1>3 DEF PipeClose, WakeReaders, WakeWriters, Wake, Closing
  <2>4. pc'[p] \notin Closing
    BY <1>0, <1>3 DEF PipeClose, WakeReaders, WakeWriters, Wake, Closing
  <2>5. ~Carried(w)'
    <3>1. \A f \in opened : writable[f] # w
      BY <2>0, <2>1 DEF EndInv
    <3>2. ASSUME NEW q \in Procs, q # p, pc[q] \in Closing PROVE writable[file[q]] # w
      BY <2>0, <2>1, <3>2 DEF EndInv
    <3>. QED  BY <2>2, <2>3, <2>4, <3>1, <3>2 DEF Carried
  <2>6. ASSUME NEW v \in BOOLEAN, v # w PROVE Carried(v)' <=> Carried(v)
    <3>1. ASSUME NEW q \in Procs
          PROVE pc'[q] \in Closing /\ writable'[file'[q]] = v <=> pc[q] \in Closing /\ writable[file[q]] = v
      BY <2>1, <2>2, <2>3, <2>4, <2>6
    <3>. QED  BY <2>2, <3>1 DEF Carried
  <2>7. (readopen' <=> Carried(FALSE)') /\ (writeopen' <=> Carried(TRUE)')
    <3>0. (readopen <=> Carried(FALSE)) /\ (writeopen <=> Carried(TRUE))
      BY DEF EndInv
    <3>1. CASE w = TRUE
      <4>1. (readopen' <=> readopen) /\ ~writeopen'
        BY <2>2, <3>1
      <4>2. Carried(FALSE)' <=> Carried(FALSE)
        BY <2>6, <3>1
      <4>3. ~Carried(TRUE)'
        BY <2>5, <3>1
      <4>. QED  BY <3>0, <4>1, <4>2, <4>3
    <3>2. CASE w = FALSE
      <4>1. (writeopen' <=> writeopen) /\ ~readopen'
        BY <2>2, <3>2
      <4>2. Carried(TRUE)' <=> Carried(TRUE)
        BY <2>6, <3>2
      <4>3. ~Carried(FALSE)'
        BY <2>5, <3>2
      <4>. QED  BY <3>0, <4>1, <4>2, <4>3
    <3>. QED  BY <3>1, <3>2
  <2>8. /\ \A f, g \in opened' : writable'[f] = writable'[g] => f = g
        /\ \A f \in opened', q \in Procs : pc'[q] \in Closing => writable'[f] # writable'[file'[q]]
        /\ \A q, r \in Procs :
             pc'[q] \in Closing /\ pc'[r] \in Closing /\ writable'[file'[q]] = writable'[file'[r]] => q = r
    BY <2>2, <2>3, <2>4 DEF EndInv
  <2>. QED  BY <2>2, <2>7, <2>8 DEF EndInv
(* Every other step leaves the ends alone. *)
<1>4. ASSUME UNCHANGED <<opened, writable, allocated, readopen, writeopen>>,
             \A q \in Procs : (pc'[q] \in Closing <=> pc[q] \in Closing)
                              /\ (pc[q] \in Closing => file'[q] = file[q])
      PROVE EndInv'
  BY <1>4 DEF EndInv, Carried
<1>5. ASSUME NEW p \in Procs, SysDup(p) \/ Exit(p) \/ ExitDone(p) PROVE EndInv'
  BY <1>0, <1>4, <1>5 DEF SysDup, Exit, ExitDone, tableVars, pipeVars, Closing
<1>6. ASSUME NEW p \in Procs, Fork(p) PROVE EndInv'
  BY <1>0, <1>4, <1>6 DEF Fork, tableVars, pipeVars, Closing
<1>7. ASSUME NEW p \in Procs, SysWrite(p) \/ SysRead(p) PROVE EndInv'
  BY <1>0, <1>4, <1>7 DEF SysWrite, SysRead, User, tableVars, pipeVars, Closing
<1>8. ASSUME NEW p \in Procs, PipeWrite(p) PROVE EndInv'
  BY <1>0, <1>4, <1>8 DEF PipeWrite, Return, WakeReaders, Wake, tableVars, Closing
<1>9. ASSUME NEW p \in Procs, PipeWriteFull(p) PROVE EndInv'
  BY <1>0, <1>4, <1>9 DEF PipeWriteFull, Return, WakeReaders, Wake, tableVars, Closing
<1>10. ASSUME NEW p \in Procs, PipeRead(p) PROVE EndInv'
  BY <1>0, <1>4, <1>10 DEF PipeRead, Return, WakeWriters, Wake, tableVars, Closing
<1>11. ASSUME NEW p \in Procs, PipeReadEmpty(p) PROVE EndInv'
  BY <1>0, <1>4, <1>11 DEF PipeReadEmpty, Return, tableVars, pipeVars, Closing
<1>12. ASSUME NEW p \in Procs, Park(p) \/ Kill(p) PROVE EndInv'
  BY <1>0, <1>4, <1>12 DEF Park, Kill, tableVars, pipeVars, Closing
<1>13. CASE UNCHANGED vars
  BY <1>4, <1>13 DEF vars, tableVars, pipeVars
<1>14. ASSUME NEW p \in Procs, SysClose(p) \/ ExitClose(p) PROVE EndInv'
  BY <1>2, <1>14 DEF SysClose, ExitClose, User, Closing
<1>. QED
  BY <1>1, <1>3, <1>5, <1>6, <1>7, <1>8, <1>9, <1>10, <1>11, <1>12, <1>13, <1>14 DEF Next, ProcStep

(* Who is in a call has the pipe. *)
LEMMA InUse ==
  ASSUME IInv, NEW p \in Procs, pc[p] \in Using \cup Closing
  PROVE allocated
<1>. USE DEF IInv
<1>1. \A w \in BOOLEAN : Carried(w) => allocated
  BY DEF EndInv
<1>2. file[p] \in Files /\ writable[file[p]] \in BOOLEAN
  BY DEF FileInv, TypeOK
<1>3. CASE pc[p] \in Closing
  <2>1. Carried(writable[file[p]])
    BY <1>3 DEF Carried
  <2>. QED  BY <1>1, <1>2, <2>1
<1>4. CASE pc[p] \in Using
  <2>1. PICK d \in Fds : ofile[p][d] = file[p]
    BY <1>4 DEF FileInv
  <2>2. ref[file[p]] \in Nat /\ ref[file[p]] >= 1
    BY <1>2, <2>1, RefPositive
  <2>3. file[p] \in opened
    BY <1>2, <2>2 DEF FileInv
  <2>4. Carried(writable[file[p]])
    BY <2>3 DEF Carried
  <2>. QED  BY <1>1, <1>2, <2>4
<1>. QED  BY <1>3, <1>4

-----------------------------------------------------------------------------
(* Sleepers *)

LEMMA WaitStep ==
  ASSUME IInv, [Next]_vars
  PROVE WaitInv'
<1>. USE Constants DEF IInv
<1>0. /\ DOMAIN pc = Procs /\ readopen \in BOOLEAN /\ writeopen \in BOOLEAN /\ unannounced \in BOOLEAN
      /\ Count \in 0 .. (Width - 1) /\ (Count = 0 <=> Empty) /\ Count <= PIPESIZE
      /\ TypeOK' /\ Count' \in 0 .. (Width - 1) /\ (Count' = 0 <=> Empty')
  <2>1. TypeOK'
    BY TypeOKStep
  <2>2. Count \in 0 .. (Width - 1) /\ (Count = 0 <=> Empty)
    BY CountFacts
  <2>3. Count' \in 0 .. (Width - 1) /\ (Count' = 0 <=> Empty')
    <3>1. Width \in Nat \ {0} /\ nwrite' \in 0 .. (Width - 1) /\ nread' \in 0 .. (Width - 1)
      BY <2>1 DEF TypeOK
    <3>2. Count' = Gap(nwrite', nread', Width)
      BY DEF Count, Gap
    <3>. QED  BY <3>1, <3>2, GapFacts DEF Empty
  <2>. QED  BY <2>1, <2>2, <2>3 DEF TypeOK, WaitInv
<1>1. ASSUME NEW p \in Procs, SysPipe(p) PROVE WaitInv'
  <2>1. ~allocated /\ nread' = 0 /\ nwrite' = 0 /\ pc' = pc
    BY <1>1 DEF SysPipe
  <2>2. Count' = 0
    BY <1>0, <2>1 DEF Empty
  <2>3. \A q \in Procs : pc[q] \notin {"rpark", "rsleep", "wpark", "wsleep"}
    BY <2>1, InUse DEF Using
  <2>. QED  BY <2>1, <2>2, <2>3 DEF WaitInv
<1>2. ASSUME NEW p \in Procs, PipeClose(p) PROVE WaitInv'
  <2>. DEFINE w == writable[file[p]]
  <2>1. w \in BOOLEAN
    <3>1. pc[p] \in Closing
      BY <1>2 DEF PipeClose, Closing
    <3>. QED  BY <3>1 DEF FileInv, TypeOK
  <2>2. /\ readopen' = (readopen /\ w) /\ writeopen' = (writeopen /\ ~w)
        /\ allocated' = (readopen' \/ writeopen')
        /\ allocated' => unannounced' = (unannounced /\ ~w) /\ UNCHANGED <<nread, nwrite>>
        /\ ~allocated' => nread' = 0 /\ nwrite' = 0
    BY <1>2 DEF PipeClose
  <2>3. \A q \in Procs : pc'[q] \notin {"rpark", "wpark"}
    BY <1>0, <1>2 DEF PipeClose, LockFree, WakeReaders, WakeWriters, Wake
  <2>4. CASE w = TRUE
    <3>1. \A q \in Procs : pc'[q] # "rsleep" /\ (pc'[q] = "wsleep" => pc[q] = "wsleep")
      BY <1>0, <1>2, <2>4 DEF PipeClose, WakeReaders, Wake
    <3>2. readopen' = readopen
      BY <1>0, <2>2, <2>4
    <3>3. \A q \in Procs : pc'[q] = "wsleep" => readopen /\ Count = PIPESIZE
      BY <3>1 DEF WaitInv
    <3>4. CASE allocated'
      <4>1. Count' = Count
        BY <2>2, <3>4 DEF Count
      <4>. QED  BY <1>0, <2>3, <3>1, <3>2, <3>3, <4>1 DEF WaitInv
    <3>5. CASE ~allocated'
      <4>1. Count' = 0 /\ ~readopen'
        BY <1>0, <2>2, <3>5 DEF Empty
      <4>. QED  BY <1>0, <2>3, <3>1, <3>2, <3>3, <4>1 DEF WaitInv
    <3>. QED  BY <3>4, <3>5
  <2>5. CASE w = FALSE
    <3>1. \A q \in Procs : pc'[q] # "wsleep" /\ (pc'[q] = "rsleep" => pc[q] = "rsleep")
      BY <1>0, <1>2, <2>5 DEF PipeClose, WakeWriters, Wake
    <3>2. writeopen' = writeopen
      BY <1>0, <2>2, <2>5
    <3>3. \A q \in Procs : pc'[q] = "rsleep" => writeopen /\ (Empty \/ unannounced)
      BY <3>1 DEF WaitInv
    <3>4. CASE allocated'
      <4>1. Count' = Count /\ Empty' = Empty /\ unannounced' = unannounced
        BY <1>0, <2>2, <2>5, <3>4 DEF Count, Empty
      <4>. QED  BY <1>0, <2>3, <3>1, <3>2, <3>3, <4>1 DEF WaitInv
    <3>5. CASE ~allocated'
      <4>1. Count' = 0 /\ ~writeopen'
        BY <1>0, <2>2, <3>5 DEF Empty
      <4>. QED  BY <1>0, <2>3, <3>1, <3>2, <3>3, <4>1 DEF WaitInv
    <3>. QED  BY <3>4, <3>5
  <2>. QED  BY <2>1, <2>4, <2>5
<1>3. ASSUME NEW p \in Procs, PipeWrite(p) PROVE WaitInv'
  <2>. DEFINE k == Len(todo[p])
  <2>1. k \in Nat /\ k <= PIPESIZE - Count /\ Copy(p, k) /\ nread' = nread
        /\ UNCHANGED <<readopen, writeopen>>
    BY <1>3 DEF PipeWrite, TypeOK
  <2>2. Count' = Count + k
    BY <2>1, CopyFacts
  <2>3. \A q \in Procs : pc'[q] \notin {"rpark", "wpark", "rsleep"} /\ (pc'[q] = "wsleep" => pc[q] = "wsleep")
    BY <1>0, <1>3 DEF PipeWrite, Return, LockFree, WakeReaders, Wake
  <2>4. \A q \in Procs : pc'[q] = "wsleep" => readopen /\ Count = PIPESIZE
    BY <2>3 DEF WaitInv
  <2>. HIDE DEF k
  <2>5. Count' <= PIPESIZE /\ (Count = PIPESIZE => Count' = PIPESIZE)
    BY <1>0, <2>1, <2>2
  <2>. QED  BY <2>1, <2>3, <2>4, <2>5 DEF WaitInv
<1>4. ASSUME NEW p \in Procs, PipeWriteFull(p) PROVE WaitInv'
  <2>. DEFINE k == PIPESIZE - Count
  <2>1. k \in Nat /\ k <= Len(todo[p]) /\ Copy(p, k) /\ nread' = nread
        /\ UNCHANGED <<readopen, writeopen>>
    BY <1>0, <1>4 DEF PipeWriteFull, TypeOK
  <2>2. Count' = PIPESIZE
    <3>1. Count' = Count + k
      BY <2>1, CopyFacts
    <3>. QED  BY <1>0, <3>1
  <2>3. \A q \in Procs : q # p => /\ pc'[q] \notin {"rpark", "wpark"}
                                  /\ pc'[q] = "wsleep" => pc[q] = "wsleep"
                                  /\ pc'[q] = "rsleep" => pc[q] = "rsleep"
    BY <1>0, <1>4 DEF PipeWriteFull, Return, LockFree, WakeReaders, Wake
  <2>4. \A q \in Procs : q # p /\ pc'[q] = "wsleep" => readopen
    BY <2>3 DEF WaitInv
  <2>5. CASE ~readopen \/ p \in killed
    <3>1. pc' = [pc EXCEPT ![p] = "user"] /\ unannounced' = (unannounced \/ k > 0)
      BY <1>4, <2>5 DEF PipeWriteFull, Return
    <3>2. pc'[p] = "user"
      BY <1>0, <3>1
    <3>3. ASSUME NEW q \in Procs, pc'[q] = "rsleep" PROVE writeopen /\ unannounced'
      <4>1. writeopen /\ (Empty \/ unannounced)
        BY <2>3, <3>2, <3>3 DEF WaitInv
      <4>2. CASE Empty
        <5>1. k > 0
          BY <1>0, <4>2
        <5>. QED  BY <3>1, <4>1, <5>1
      <4>3. CASE unannounced
        BY <3>1, <4>1, <4>3
      <4>. QED  BY <4>1, <4>2, <4>3
    <3>. QED  BY <2>1, <2>2, <2>3, <2>4, <3>2, <3>3 DEF WaitInv
  <2>6. CASE readopen /\ p \notin killed
    <3>1. pc' = [WakeReaders EXCEPT ![p] = "wpark"]
      BY <1>4, <2>6 DEF PipeWriteFull
    <3>2. pc'[p] = "wpark" /\ \A q \in Procs : pc'[q] # "rsleep"
      BY <1>0, <3>1 DEF WakeReaders, Wake
    <3>3. \A q \in Procs : pc'[q] # "rpark"
      BY <2>3, <3>2
    <3>. QED  BY <2>1, <2>2, <2>3, <2>4, <2>6, <3>2, <3>3 DEF WaitInv
  <2>. QED  BY <2>5, <2>6
<1>5. ASSUME NEW p \in Procs, PipeRead(p) PROVE WaitInv'
  <2>1. PICK n \in ReadSizes : nread' = (nread + Smaller(n, Count)) % Width
    BY <1>5 DEF PipeRead
  <2>. DEFINE k == Smaller(n, Count)
  <2>2. UNCHANGED <<nwrite, readopen, writeopen, unannounced>>
    BY <1>5 DEF PipeRead
  <2>3. k \in Nat /\ k <= Count /\ Count' = Count - k
    BY <2>1, <2>2, TakeFacts
  <2>. HIDE DEF k
  <2>4. \A q \in Procs : pc'[q] \notin {"rpark", "wpark", "wsleep"} /\ (pc'[q] = "rsleep" => pc[q] = "rsleep")
    BY <1>0, <1>5 DEF PipeRead, Return, LockFree, WakeWriters, Wake
  <2>5. \A q \in Procs : pc'[q] = "rsleep" => writeopen /\ (Empty \/ unannounced)
    BY <2>4 DEF WaitInv
  <2>6. Count' <= PIPESIZE /\ (Empty => Empty')
    BY <1>0, <2>3
  <2>. QED  BY <2>2, <2>4, <2>5, <2>6 DEF WaitInv
<1>6. ASSUME NEW p \in Procs, PipeReadEmpty(p) PROVE WaitInv'
  <2>1. Count' = Count /\ Empty' = Empty /\ Empty /\ writeopen /\ UNCHANGED <<readopen, writeopen, unannounced>>
    BY <1>6 DEF PipeReadEmpty, pipeVars, Count, Empty
  <2>2. /\ pc'[p] \in {"user", "rpark"}
        /\ \A q \in Procs : q # p => pc'[q] = pc[q]
    BY <1>0, <1>6 DEF PipeReadEmpty, Return
  <2>. QED  BY <2>1, <2>2 DEF WaitInv
(* The other steps change neither the pipe's bytes nor its ends, and put nobody to sleep. *)
<1>7. ASSUME UNCHANGED <<readopen, writeopen, nread, nwrite, unannounced>>,
             \A q \in Procs : pc'[q] \in {"rpark", "rsleep", "wpark", "wsleep"} =>
               \/ pc'[q] = pc[q]
               \/ pc[q] = "rpark" /\ pc'[q] = "rsleep"
               \/ pc[q] = "wpark" /\ pc'[q] = "wsleep"
      PROVE WaitInv'
  <2>1. Count' = Count /\ Empty' = Empty
    BY <1>7 DEF Count, Empty
  <2>. QED  BY <1>7, <2>1 DEF WaitInv
<1>8. ASSUME NEW p \in Procs, SysDup(p) \/ Exit(p) \/ ExitDone(p) PROVE WaitInv'
  BY <1>0, <1>7, <1>8 DEF SysDup, Exit, ExitDone, pipeVars
<1>9. ASSUME NEW p \in Procs, Fork(p) PROVE WaitInv'
  BY <1>0, <1>7, <1>9 DEF Fork, pipeVars
<1>10. ASSUME NEW p \in Procs, SysWrite(p) \/ SysRead(p) PROVE WaitInv'
  BY <1>0, <1>7, <1>10 DEF SysWrite, SysRead, pipeVars
<1>11. ASSUME NEW p \in Procs, Park(p) \/ Kill(p) PROVE WaitInv'
  BY <1>0, <1>7, <1>11 DEF Park, Kill, pipeVars
<1>12. CASE UNCHANGED vars
  BY <1>7, <1>12 DEF vars, pipeVars
<1>13. ASSUME NEW p \in Procs, NEW d \in Fds, NEW last \in Closing, NEW more \in {"user", "exit"},
              DropRef(p, d, last, more)
       PROVE WaitInv'
  <2>1. UNCHANGED <<readopen, writeopen, nread, nwrite, unannounced>>
    BY <1>13, DropFacts DEF pipeVars
  <2>2. pc' = [pc EXCEPT ![p] = last] \/ pc' = [pc EXCEPT ![p] = more]
    BY <1>13, DropFacts
  <2>3. \A q \in Procs : pc'[q] \in {"rpark", "rsleep", "wpark", "wsleep"} => pc'[q] = pc[q]
    BY <1>0, <2>2 DEF Closing
  <2>. QED  BY <1>7, <2>1, <2>3
<1>14. ASSUME NEW p \in Procs, SysClose(p) \/ ExitClose(p) PROVE WaitInv'
  BY <1>13, <1>14 DEF SysClose, ExitClose, Closing
<1>. QED
  BY <1>1, <1>2, <1>3, <1>4, <1>5, <1>6, <1>8, <1>9, <1>10, <1>11, <1>12, <1>14 DEF Next, ProcStep

-----------------------------------------------------------------------------
(* Who reads and who writes *)

Writing == {"write", "wpark", "wsleep"}
Reading == {"read", "rpark", "rsleep"}

(* The file of a call is open. *)
LEMMA UsedIsOpen ==
  ASSUME IInv, NEW p \in Procs, pc[p] \in Using
  PROVE file[p] \in opened /\ ref[file[p]] >= 1 /\ ref[file[p]] \in Nat
<1>. USE DEF IInv
<1>1. file[p] \in Files
  BY DEF FileInv
<1>2. PICK d \in Fds : ofile[p][d] = file[p]
  BY DEF FileInv
<1>3. ref[file[p]] \in Nat /\ ref[file[p]] >= 1
  BY <1>1, <1>2, RefPositive
<1>4. file[p] \in opened
  BY <1>1, <1>3 DEF FileInv
<1>. QED  BY <1>3, <1>4

(* Who closes an end is the only one to.                                     *)
LEMMA RoleStep ==
  ASSUME IInv, [Next]_vars
  PROVE RoleInv'
<1>. USE Constants DEF IInv
<1>0. /\ DOMAIN pc = Procs /\ file \in [Procs -> Files \cup {NoFile}]
      /\ \A q \in Procs : pc[q] \in Writing => writable[file[q]]
      /\ \A q \in Procs : pc[q] \in Reading => ~writable[file[q]]
  BY DEF TypeOK, RoleInv, Writing, Reading
<1>1. ASSUME \A q \in Procs : pc'[q] \in Writing => writable'[file'[q]],
             \A q \in Procs : pc'[q] \in Reading => ~writable'[file'[q]]
      PROVE RoleInv'
  BY <1>1 DEF RoleInv, Writing, Reading
(* Nobody comes into a call. *)
<1>2. ASSUME UNCHANGED writable,
             \A q \in Procs : pc'[q] \in Writing \cup Reading => file'[q] = file[q],
             \A q \in Procs : pc'[q] \in Writing => pc[q] \in Writing,
             \A q \in Procs : pc'[q] \in Reading => pc[q] \in Reading
      PROVE RoleInv'
  BY <1>0, <1>1, <1>2
<1>3. ASSUME NEW p \in Procs, SysPipe(p) PROVE RoleInv'
  <2>1. PICK f0, f1 \in Files : /\ ref[f0] = 0 /\ ref[f1] = 0
                                /\ writable' = [writable EXCEPT ![f0] = FALSE, ![f1] = TRUE]
    BY <1>3 DEF SysPipe
  <2>2. pc' = pc /\ file' = file
    BY <1>3 DEF SysPipe
  <2>3. ASSUME NEW q \in Procs, pc[q] \in Using PROVE writable'[file[q]] = writable[file[q]]
    <3>1. file[q] # f0 /\ file[q] # f1
      BY <2>1, <2>3, UsedIsOpen
    <3>2. file[q] \in Files /\ DOMAIN writable = Files
      BY <2>3 DEF FileInv, TypeOK
    <3>. QED  BY <2>1, <3>1, <3>2
  <2>4. \A q \in Procs : pc[q] \in Writing \cup Reading => pc[q] \in Using
    BY DEF Using, Writing, Reading
  <2>. QED  BY <1>0, <1>1, <2>2, <2>3, <2>4
<1>4. ASSUME NEW p \in Procs, SysWrite(p) PROVE RoleInv'
  <2>1. PICK d \in Fds : writable[ofile[p][d]] /\ file' = [file EXCEPT ![p] = ofile[p][d]]
    BY <1>4 DEF SysWrite
  <2>2. writable' = writable /\ pc' = [pc EXCEPT ![p] = "write"]
    BY <1>4 DEF SysWrite, tableVars
  <2>3. pc'[p] \notin Reading /\ writable'[file'[p]]
    BY <1>0, <2>1, <2>2 DEF Reading
  <2>4. \A q \in Procs : q # p => pc'[q] = pc[q] /\ file'[q] = file[q]
    BY <1>0, <2>1, <2>2
  <2>. QED  BY <1>0, <1>1, <2>2, <2>3, <2>4
<1>5. ASSUME NEW p \in Procs, SysRead(p) PROVE RoleInv'
  <2>1. PICK d \in Fds : ~writable[ofile[p][d]] /\ file' = [file EXCEPT ![p] = ofile[p][d]]
    BY <1>5 DEF SysRead
  <2>2. writable' = writable /\ pc' = [pc EXCEPT ![p] = "read"]
    BY <1>5 DEF SysRead, tableVars
  <2>3. pc'[p] \notin Writing /\ ~writable'[file'[p]]
    BY <1>0, <2>1, <2>2 DEF Writing
  <2>4. \A q \in Procs : q # p => pc'[q] = pc[q] /\ file'[q] = file[q]
    BY <1>0, <2>1, <2>2
  <2>. QED  BY <1>0, <1>1, <2>2, <2>3, <2>4
<1>6. ASSUME NEW p \in Procs, SysDup(p) \/ Exit(p) \/ ExitDone(p) PROVE RoleInv'
  BY <1>0, <1>2, <1>6 DEF SysDup, Exit, ExitDone, tableVars, Writing, Reading
<1>7. ASSUME NEW p \in Procs, Fork(p) PROVE RoleInv'
  BY <1>0, <1>2, <1>7 DEF Fork, Writing, Reading
<1>8. ASSUME NEW p \in Procs, PipeClose(p) PROVE RoleInv'
  BY <1>0, <1>2, <1>8 DEF PipeClose, WakeReaders, WakeWriters, Wake, tableVars, Writing, Reading
<1>9. ASSUME NEW p \in Procs, PipeWrite(p) PROVE RoleInv'
  BY <1>0, <1>2, <1>9 DEF PipeWrite, Return, WakeReaders, Wake, tableVars, Writing, Reading
<1>10. ASSUME NEW p \in Procs, PipeWriteFull(p) PROVE RoleInv'
  BY <1>0, <1>2, <1>10, ZenonT(60) DEF PipeWriteFull, Return, WakeReaders, Wake, tableVars, Writing, Reading
<1>11. ASSUME NEW p \in Procs, PipeRead(p) PROVE RoleInv'
  BY <1>0, <1>2, <1>11 DEF PipeRead, Return, WakeWriters, Wake, tableVars, Writing, Reading
<1>12. ASSUME NEW p \in Procs, PipeReadEmpty(p) PROVE RoleInv'
  BY <1>0, <1>2, <1>12 DEF PipeReadEmpty, Return, tableVars, Writing, Reading
<1>13. ASSUME NEW p \in Procs, Park(p) \/ Kill(p) PROVE RoleInv'
  BY <1>0, <1>2, <1>13 DEF Park, Kill, tableVars, Writing, Reading
<1>14. CASE UNCHANGED vars
  BY <1>2, <1>14 DEF vars, tableVars, Writing, Reading
<1>15. ASSUME NEW p \in Procs, NEW d \in Fds, NEW last \in Closing, NEW more \in {"user", "exit"},
              pc[p] \in {"user", "exit"}, DropRef(p, d, last, more)
       PROVE RoleInv'
  <2>1. UNCHANGED writable /\ (pc' = [pc EXCEPT ![p] = last] \/ pc' = [pc EXCEPT ![p] = more])
    BY <1>15, DropFacts
  <2>2. pc'[p] \notin Writing \cup Reading /\ \A q \in Procs : q # p => pc'[q] = pc[q]
    BY <1>0, <2>1 DEF Closing, Writing, Reading
  <2>3. \A q \in Procs : q # p => file'[q] = file[q]
    BY <1>0, <1>15 DEF DropRef
  <2>. QED  BY <1>2, <2>1, <2>2, <2>3
<1>16. ASSUME NEW p \in Procs, SysClose(p) \/ ExitClose(p) PROVE RoleInv'
  BY <1>15, <1>16 DEF SysClose, ExitClose, User, Closing
<1>. QED
  BY <1>3, <1>4, <1>5, <1>6, <1>7, <1>8, <1>9, <1>10, <1>11, <1>12, <1>13, <1>14, <1>16 DEF Next, ProcStep

(* The end a call is about is open. *)
LEMMA EndOfCall ==
  ASSUME IInv, NEW p \in Procs
  PROVE /\ pc[p] \in Writing => allocated /\ writeopen
        /\ pc[p] \in Reading => allocated /\ readopen
        /\ pc[p] \in Closing => allocated /\ (IF writable[file[p]] THEN writeopen ELSE readopen)
<1>. USE DEF IInv
<1>1. /\ allocated <=> readopen \/ writeopen
      /\ readopen <=> Carried(FALSE)
      /\ writeopen <=> Carried(TRUE)
  BY DEF EndInv
<1>2. ASSUME pc[p] \in Using \cup Closing PROVE writable[file[p]] \in BOOLEAN
  BY <1>2 DEF FileInv, TypeOK
<1>3. ASSUME pc[p] \in Writing PROVE writeopen
  <2>1. file[p] \in opened /\ writable[file[p]] = TRUE
    <3>1. pc[p] \in Using
      BY <1>3 DEF Using, Writing
    <3>2. writable[file[p]]
      BY <1>3 DEF RoleInv, Writing
    <3>. QED  BY <1>2, <3>1, <3>2, UsedIsOpen
  <2>. QED  BY <1>1, <2>1 DEF Carried
<1>4. ASSUME pc[p] \in Reading PROVE readopen
  <2>1. file[p] \in opened /\ writable[file[p]] = FALSE
    <3>1. pc[p] \in Using
      BY <1>4 DEF Using, Reading
    <3>2. ~writable[file[p]]
      BY <1>4 DEF RoleInv, Reading
    <3>. QED  BY <1>2, <3>1, <3>2, UsedIsOpen
  <2>. QED  BY <1>1, <2>1 DEF Carried
<1>5. ASSUME pc[p] \in Closing PROVE IF writable[file[p]] THEN writeopen ELSE readopen
  <2>1. CASE writable[file[p]] = TRUE
    <3>1. Carried(TRUE)
      BY <1>5, <2>1 DEF Carried
    <3>. QED  BY <1>1, <2>1, <3>1
  <2>2. CASE writable[file[p]] = FALSE
    <3>1. Carried(FALSE)
      BY <1>5, <2>2 DEF Carried
    <3>. QED  BY <1>1, <2>2, <3>1
  <2>. QED  BY <1>2, <1>5, <2>1, <2>2
<1>. QED  BY <1>1, <1>3, <1>4, <1>5

-----------------------------------------------------------------------------
(* Places in the ring *)

LEMMA ModFacts ==
  ASSUME NEW y \in Nat \ {0}, NEW a \in Nat, NEW r, r = a % y
  PROVE r \in 0 .. (y - 1) /\ \E d \in Nat : a = y * d + r
<1>. DEFINE d == a \div y
<1>1. r \in 0 .. (y - 1) /\ d \in Nat
  OBVIOUS
<1>2. a - r = y * d
  OBVIOUS
<1>. HIDE DEF d
<1>3. a = y * d + r
  BY ONLY <1>1, <1>2, a \in Nat, y \in Nat
<1>. QED  BY ONLY <1>1, <1>3

(* A multiple of y smaller than y is none. *)
LEMMA NoMultiple ==
  ASSUME NEW y \in Nat \ {0}, NEW t \in Int, y * t < y, y * t > 0 - y
  PROVE t = 0
<1>1. CASE t >= 1
  <2>1. y * t >= y
    BY <1>1
  <2>. QED  BY <2>1
<1>2. CASE t <= 0 - 1
  <2>1. y * t <= 0 - y
    BY <1>2
  <2>. QED  BY <2>1
<1>. QED  BY <1>1, <1>2

(* Two numbers less than y apart with the same remainder are one. *)
LEMMA SameMultiple ==
  ASSUME NEW y \in Nat \ {0}, NEW d \in Int, NEW e \in Int, NEW t \in Int,
         y * e - y * d = t, t < y, t > 0 - y
  PROVE t = 0
<1>1. y * (e - d) = t
  <2>1. y * (e - d) = y * e - y * d
    OBVIOUS
  <2>. QED  BY <2>1
<1>2. e - d = 0
  <2>1. e - d \in Int /\ y * (e - d) < y /\ y * (e - d) > 0 - y
    BY <1>1
  <2>. QED  BY <2>1, NoMultiple
<1>. QED  BY ONLY <1>1, <1>2, y \in Nat

(* The remainder is determined by its equation.                              *)
LEMMA ModUnique ==
  ASSUME NEW y \in Nat \ {0}, NEW a \in Nat, NEW d \in Int, NEW r \in 0 .. (y - 1), a = y * d + r
  PROVE a % y = r
<1>. DEFINE s == a % y
<1>1. s = a % y
  OBVIOUS
<1>. HIDE DEF s
<1>2. s \in 0 .. (y - 1) /\ \E e \in Nat : a = y * e + s
  BY <1>1, ModFacts
<1>3. PICK e \in Nat : a = y * e + s
  BY <1>2
<1>4. y * e - y * d = r - s
  <2>. DEFINE u == y * e
              v == y * d
  <2>1. u \in Int /\ v \in Int
    OBVIOUS
  <2>. HIDE DEF u, v
  <2>2. a = u + s /\ a = v + r
    BY <1>3 DEF u, v
  <2>3. u - v = r - s
    BY ONLY <1>2, <2>1, <2>2, r \in Int, y \in Int
  <2>. QED  BY <2>3 DEF u, v
<1>5. r - s = 0
  <2>1. r - s \in Int /\ r - s < y /\ r - s > 0 - y
    BY <1>2
  <2>. QED  BY <1>4, <2>1, SameMultiple
<1>. QED  BY <1>1, <1>2, <1>5

(* Positions in a ring of y places: w further on, w a multiple of y, is the same place; *)
(* less than y apart are two places.                                                    *)
LEMMA Around ==
  ASSUME NEW y \in Nat \ {0}, NEW a \in Nat, NEW w \in Nat, w % y = 0
  PROVE (a + w) % y = a % y
<1>. DEFINE r == a % y
<1>1. r = a % y
  OBVIOUS
<1>. HIDE DEF r
<1>2. r \in 0 .. (y - 1) /\ \E d \in Nat : a = y * d + r
  BY ONLY <1>1, y \in Nat \ {0}, a \in Nat, ModFacts
<1>3. PICK d \in Nat : a = y * d + r
  BY <1>2
<1>4. \E e \in Nat : w = y * e
  <2>. DEFINE z == w % y
  <2>1. z = w % y /\ z = 0
    OBVIOUS
  <2>. HIDE DEF z
  <2>2. \E e \in Nat : w = y * e + z
    BY ONLY <2>1, y \in Nat \ {0}, w \in Nat, ModFacts, ZenonT(60)
  <2>3. PICK e \in Nat : w = y * e + z
    BY <2>2
  <2>. QED  BY ONLY <2>1, <2>3, y \in Nat, w \in Nat
<1>5. PICK e \in Nat : w = y * e
  BY <1>4
<1>6. a + w = y * (d + e) + r
  <2>1. y * (d + e) = y * d + y * e
    OBVIOUS
  <2>. QED  BY <1>2, <1>3, <1>5, <2>1
<1>7. a + w \in Nat /\ d + e \in Int
  OBVIOUS
<1>. QED  BY <1>1, <1>2, <1>6, <1>7, ModUnique

(* Places less than a round apart are different.                             *)
LEMMA Apart ==
  ASSUME NEW y \in Nat \ {0}, NEW a \in Nat, NEW b \in Nat, a < b, b < a + y
  PROVE a % y # b % y
<1>. SUFFICES ASSUME a % y = b % y PROVE FALSE
  OBVIOUS
<1>. DEFINE r == a % y
<1>1. r = a % y /\ r = b % y
  OBVIOUS
<1>. HIDE DEF r
<1>2. r \in 0 .. (y - 1) /\ (\E d \in Nat : a = y * d + r) /\ (\E e \in Nat : b = y * e + r)
  <2>1. y \in Nat \ {0} /\ a \in Nat /\ b \in Nat
    OBVIOUS
  <2>2. r \in 0 .. (y - 1) /\ \E d \in Nat : a = y * d + r
    BY ONLY <1>1, <2>1, ModFacts, ZenonT(60)
  <2>3. \E e \in Nat : b = y * e + r
    BY ONLY <1>1, <2>1, ModFacts, ZenonT(60)
  <2>. QED  BY <2>2, <2>3
<1>3. PICK d \in Nat : a = y * d + r
  BY <1>2
<1>4. PICK e \in Nat : b = y * e + r
  BY <1>2
<1>5. y * e - y * d = b - a
  <2>. DEFINE u == y * e
              v == y * d
  <2>1. u \in Int /\ v \in Int
    OBVIOUS
  <2>. HIDE DEF u, v
  <2>2. b = u + r /\ a = v + r
    BY <1>3, <1>4 DEF u, v
  <2>3. u - v = b - a
    BY ONLY <1>2, <2>1, <2>2, y \in Int
  <2>. QED  BY <2>3 DEF u, v
<1>6. b - a \in Int /\ b - a < y /\ b - a > 0 - y
  OBVIOUS
<1>7. b - a = 0
  BY <1>5, <1>6, SameMultiple
<1>. QED  BY <1>7

(* The writers' place in the ring is Count after the readers'. *)
LEMMA WritePlace ==
  ASSUME TypeOK, NEW i \in Nat \ {0}
  PROVE (nwrite + i - 1) % PIPESIZE = (nread + Count + i - 1) % PIPESIZE
<1>. DEFINE c == Count
            P == PIPESIZE
            W == Width
            n == nwrite
            r == nread
<1>1. /\ W \in Nat \ {0} /\ P \in Nat \ {0} /\ W % P = 0
      /\ n \in 0 .. (W - 1) /\ r \in 0 .. (W - 1) /\ c = Gap(n, r, W)
  BY Constants, PipeAssumption DEF TypeOK, Count, Gap
<1>. HIDE DEF c, P, W, n, r
<1>2. c = IF n >= r THEN n - r ELSE n + W - r
  BY <1>1, CountIs
<1>3. CASE n >= r
  <2>1. n + i - 1 = r + c + i - 1
    BY <1>1, <1>2, <1>3
  <2>. QED  BY <2>1 DEF c, P, n, r
<1>4. CASE n < r
  <2>1. n + i - 1 \in Nat /\ r + c + i - 1 = (n + i - 1) + W
    BY <1>1, <1>2, <1>4
  <2>2. ((n + i - 1) + W) % P = (n + i - 1) % P
    BY <1>1, <2>1, Around
  <2>. QED  BY <2>1, <2>2 DEF c, P, n, r
<1>. QED  BY <1>1, <1>3, <1>4

(* The readers' place when they have taken k bytes. *)
LEMMA ReadPlace ==
  ASSUME TypeOK, NEW k \in 0 .. (Width - 1), NEW i \in Nat \ {0}, NEW s, s = (nread + k) % Width
  PROVE (s + i - 1) % PIPESIZE = (nread + k + i - 1) % PIPESIZE
<1>. DEFINE P == PIPESIZE
            W == Width
            r == nread
<1>1. /\ W \in Nat \ {0} /\ P \in Nat \ {0} /\ W % P = 0
      /\ r \in 0 .. (W - 1) /\ k \in 0 .. (W - 1) /\ s = Plus(r, k, W)
  BY Constants, PipeAssumption DEF TypeOK, Plus
<1>. HIDE DEF P, W, r
<1>2. s = IF r + k < W THEN r + k ELSE r + k - W
  BY <1>1, Advance
<1>3. CASE r + k < W
  BY <1>1, <1>2, <1>3 DEF P, r
<1>4. CASE r + k >= W
  <2>1. s + i - 1 \in Nat /\ r + k + i - 1 = (s + i - 1) + W
    BY <1>1, <1>2, <1>4
  <2>2. ((s + i - 1) + W) % P = (s + i - 1) % P
    BY <1>1, <2>1, Around
  <2>. QED  BY <2>1, <2>2 DEF P, r
<1>. QED  BY <1>1, <1>3, <1>4

-----------------------------------------------------------------------------
(* The bytes in the ring as a queue *)

LEMMA QueueFacts ==
  ASSUME TypeOK, Count <= PIPESIZE
  PROVE /\ Queue \in Seq(Bytes)
        /\ Len(Queue) = IF allocated THEN Count ELSE 0
        /\ allocated => \A i \in 1 .. Count : Queue[i] = data[(nread + i - 1) % PIPESIZE]
<1>1. Count \in Nat
  BY CountFacts
<1>2. ASSUME NEW i \in 1 .. Count PROVE data[(nread + i - 1) % PIPESIZE] \in Bytes
  <2>1. PIPESIZE \in Nat \ {0} /\ nread + i - 1 \in Nat
    BY <1>1, Constants DEF TypeOK
  <2>2. (nread + i - 1) % PIPESIZE \in 0 .. PIPESIZE - 1
    BY ONLY <2>1
  <2>. QED  BY <2>2 DEF TypeOK
<1>3. CASE allocated
  <2>1. Queue = [i \in 1 .. Count |-> data[(nread + i - 1) % PIPESIZE]]
    BY <1>3 DEF Queue
  <2>2. Queue \in [1 .. Count -> Bytes]
    BY <1>2, <2>1
  <2>3. Queue \in Seq(Bytes) /\ Len(Queue) = Count
    BY <1>1, <2>2
  <2>. QED  BY <1>3, <2>1, <2>3
<1>4. CASE ~allocated
  BY <1>4, EmptySeq DEF Queue
<1>. QED  BY <1>3, <1>4

(* Copy() appends the first k bytes there are to write. *)
LEMMA QueueAfterPut ==
  ASSUME TypeOK, TypeOK', allocated, allocated', nread' = nread, NEW p \in Procs, NEW k \in Nat,
         k <= Len(todo[p]), Count + k <= PIPESIZE, Copy(p, k)
  PROVE Queue' = Queue \o SubSeq(todo[p], 1, k) /\ SubSeq(todo[p], 1, k) \in [1 .. k -> Bytes]
<1>. USE Constants
<1>. DEFINE m == SubSeq(todo[p], 1, k)
            place(i) == (nread + i - 1) % PIPESIZE
            src(j) == {i \in 1 .. k : (nwrite + i - 1) % PIPESIZE = j}
<1>1. Count \in Nat /\ Count' = Count + k /\ Count' \in Nat /\ nread \in Nat
  <2>1. Count \in Nat
    BY CountFacts
  <2>2. k <= PIPESIZE - Count
    BY <2>1
  <2>3. Count' = Count + k
    BY <2>2, CopyFacts
  <2>4. nread \in Nat
    BY DEF TypeOK
  <2>. QED  BY <2>1, <2>3, <2>4
<1>2. m \in Seq(Bytes) /\ Len(m) = k /\ \A i \in 1 .. k : m[i] = todo[p][i]
  <2>1. todo[p] \in Seq(Bytes) /\ 1 \in Int /\ k \in Int
    BY DEF TypeOK
  <2>2. \A i \in 1 .. k : todo[p][i] \in Bytes
    BY <2>1
  <2>3. /\ m \in Seq(Bytes) /\ Len(m) = (IF 1 <= k THEN k - 1 + 1 ELSE 0)
        /\ \A i \in 1 .. k - 1 + 1 : m[i] = todo[p][1 + i - 1]
    BY <2>1, <2>2, SubSeqProperties
  <2>. QED  BY <2>3
<1>4. ASSUME NEW i \in 1 .. Count + k
      PROVE /\ place(i) \in DOMAIN data
            /\ i <= Count => src(place(i)) = {}
            /\ i > Count => src(place(i)) = {i - Count}
  <2>1. ASSUME NEW h \in 1 .. k PROVE (nwrite + h - 1) % PIPESIZE = place(Count + h)
    <3>1. (nwrite + h - 1) % PIPESIZE = (nread + Count + h - 1) % PIPESIZE
      BY WritePlace
    <3>2. nread + Count + h - 1 = nread + (Count + h) - 1
      BY <1>1
    <3>. QED  BY <3>1, <3>2
  <2>2. ASSUME NEW g \in 1 .. Count + k, NEW h \in 1 .. Count + k, g < h PROVE place(g) # place(h)
    <3>1. /\ PIPESIZE \in Nat \ {0} /\ nread + g - 1 \in Nat /\ nread + h - 1 \in Nat
          /\ nread + g - 1 < nread + h - 1 /\ nread + h - 1 < (nread + g - 1) + PIPESIZE
      BY <1>1, <2>2
    <3>. QED  BY ONLY <3>1, Apart
  <2>3. place(i) \in DOMAIN data
    <3>1. PIPESIZE \in Nat \ {0} /\ nread + i - 1 \in Nat
      BY <1>1
    <3>2. place(i) \in 0 .. PIPESIZE - 1
      BY ONLY <3>1
    <3>. QED  BY <3>2 DEF TypeOK
  <2>. HIDE DEF place
  <2>4. ASSUME i <= Count PROVE src(place(i)) = {}
    <3>1. ASSUME NEW h \in 1 .. k PROVE (nwrite + h - 1) % PIPESIZE # place(i)
      <4>1. i < Count + h /\ Count + h \in 1 .. Count + k
        BY <1>1, <2>4
      <4>. QED  BY <2>1, <2>2, <4>1
    <3>. QED  BY <3>1
  <2>5. ASSUME i > Count PROVE src(place(i)) = {i - Count}
    <3>1. i - Count \in 1 .. k /\ Count + (i - Count) = i
      BY <1>1, <2>5
    <3>2. ASSUME NEW h \in 1 .. k, h # i - Count PROVE (nwrite + h - 1) % PIPESIZE # place(i)
      <4>1. Count + h \in 1 .. Count + k /\ (i < Count + h \/ Count + h < i)
        BY <1>1, <3>2
      <4>. QED  BY <2>1, <2>2, <4>1
    <3>3. (nwrite + (i - Count) - 1) % PIPESIZE = place(i)
      BY <2>1, <3>1
    <3>. QED  BY <3>1, <3>2, <3>3
  <2>. QED  BY <2>3, <2>4, <2>5
<1>5. /\ Queue \in Seq(Bytes) /\ Len(Queue) = Count
      /\ \A i \in 1 .. Count : Queue[i] = data[place(i)]
  BY <1>1, QueueFacts
<1>6. /\ Queue' \in Seq(Bytes) /\ Len(Queue') = Count + k
      /\ \A i \in 1 .. Count + k : Queue'[i] = data'[place(i)]
  <2>1. Queue' = [i \in 1 .. Count' |-> data'[(nread' + i - 1) % PIPESIZE]]
    BY DEF Queue
  <2>2. Queue' = [i \in 1 .. Count + k |-> data'[place(i)]]
    BY <1>1, <2>1
  <2>3. \A i \in 1 .. Count + k : data'[place(i)] \in Bytes
    BY <1>4 DEF TypeOK
  <2>. HIDE DEF place
  <2>4. Queue' \in [1 .. Count + k -> Bytes] /\ Count + k \in Nat
    BY <1>1, <2>2, <2>3
  <2>. QED  BY <2>2, <2>4
<1>7. data' = [j \in DOMAIN data |-> IF src(j) = {} THEN data[j] ELSE todo[p][CHOOSE i \in src(j) : TRUE]]
  BY DEF Copy
<1>. HIDE DEF m, place, src
<1>8. /\ Queue \o m \in Seq(Bytes) /\ Len(Queue \o m) = Count + k
      /\ \A i \in 1 .. Count + k : (Queue \o m)[i] = IF i <= Count THEN Queue[i] ELSE m[i - Count]
  <2>1. Queue \in Seq(Bytes) /\ m \in Seq(Bytes) /\ Len(Queue) = Count /\ Len(m) = k
    BY <1>2, <1>5
  <2>2. /\ Queue \o m \in Seq(Bytes) /\ Len(Queue \o m) = Len(Queue) + Len(m)
        /\ \A i \in 1 .. Len(Queue) + Len(m) :
             (Queue \o m)[i] = IF i <= Len(Queue) THEN Queue[i] ELSE m[i - Len(Queue)]
    BY ONLY <2>1, ConcatProperties
  <2>. QED  BY ONLY <2>1, <2>2
<1>9. ASSUME NEW i \in 1 .. Count + k PROVE Queue'[i] = (Queue \o m)[i]
  <2>1. CASE i <= Count
    <3>1. data'[place(i)] = data[place(i)]
      BY <1>4, <1>7, <2>1
    <3>2. i \in 1 .. Count
      BY <1>1, <2>1
    <3>. QED  BY <1>5, <1>6, <1>8, <2>1, <3>1, <3>2
  <2>2. CASE i > Count
    <3>1. src(place(i)) = {i - Count} /\ place(i) \in DOMAIN data
      BY <1>4, <2>2
    <3>2. (CHOOSE h \in {i - Count} : TRUE) = i - Count
      OBVIOUS
    <3>3. data'[place(i)] = todo[p][i - Count]
      BY <1>7, <3>1, <3>2
    <3>4. i - Count \in 1 .. k /\ ~(i <= Count)
      BY <1>1, <2>2
    <3>. QED  BY <1>2, <1>6, <1>8, <3>3, <3>4
  <2>3. i <= Count \/ i > Count
    BY <1>1
  <2>. QED  BY <2>1, <2>2, <2>3
<1>10. Queue' = Queue \o m
  BY <1>6, <1>8, <1>9, SeqEqual
<1>11. m \in [1 .. k -> Bytes]
  BY <1>2, LenProperties
<1>. QED  BY <1>10, <1>11 DEF m

(* piperead() takes the first k bytes of the queue. *)
LEMMA QueueAfterGet ==
  ASSUME TypeOK, TypeOK', Count <= PIPESIZE, allocated, allocated', nwrite' = nwrite, data' = data,
         NEW n \in ReadSizes, NEW k, k = Smaller(n, Count), nread' = (nread + k) % Width
  PROVE /\ k \in 0 .. Len(Queue)
        /\ [i \in 1 .. k |-> data[(nread + i - 1) % PIPESIZE]] = SubSeq(Queue, 1, k)
        /\ Queue' = SubSeq(Queue, k + 1, Len(Queue))
<1>. DEFINE place(i) == (nread + i - 1) % PIPESIZE
<1>0. nread \in Nat /\ nread' \in Nat /\ PIPESIZE \in Nat \ {0} /\ Width \in Nat
  BY Constants DEF TypeOK
<1>1. k \in Nat /\ k <= Count /\ Count' = Count - k /\ Count \in 0 .. (Width - 1) /\ Count \in Nat
  <2>1. k \in Nat /\ k <= Count /\ Count' = Count - k
    BY TakeFacts
  <2>2. Count \in 0 .. (Width - 1)
    BY CountFacts
  <2>. QED  BY <1>0, <2>1, <2>2
<1>2. /\ Queue \in Seq(Bytes) /\ Len(Queue) = Count
      /\ \A i \in 1 .. Count : Queue[i] = data[place(i)]
  BY QueueFacts
<1>3. [i \in 1 .. k |-> data[place(i)]] = SubSeq(Queue, 1, k)
  <2>. DEFINE s == SubSeq(Queue, 1, k)
  <2>1. \A i \in 1 .. k : i \in 1 .. Count /\ Queue[i] \in Bytes
    <3>1. \A i \in 1 .. k : i \in 1 .. Count
      BY <1>1
    <3>. QED  BY <1>2, <3>1
  <2>2. 1 \in Int /\ k \in Int
    BY <1>1
  <2>3. /\ s \in Seq(Bytes) /\ Len(s) = (IF 1 <= k THEN k - 1 + 1 ELSE 0)
        /\ \A i \in 1 .. k - 1 + 1 : s[i] = Queue[1 + i - 1]
    BY <2>1, <2>2, SubSeqProperties
  <2>. HIDE DEF s, place
  <2>4. Len(s) = k /\ DOMAIN s = 1 .. Len(s) /\ s = [i \in DOMAIN s |-> s[i]]
    BY <1>1, <2>3, LenProperties
  <2>5. ASSUME NEW i \in 1 .. k PROVE s[i] = data[place(i)]
    <3>1. i \in 1 .. k - 1 + 1 /\ 1 + i - 1 = i
      BY <1>1
    <3>2. s[i] = Queue[i]
      BY <2>3, <3>1
    <3>. QED  BY <1>2, <2>1, <3>2
  <2>6. [i \in 1 .. k |-> data[place(i)]] = s
    BY <2>4, <2>5
  <2>. QED  BY <2>6 DEF s
<1>4. Queue' = SubSeq(Queue, k + 1, Len(Queue))
  <2>. DEFINE t == SubSeq(Queue, k + 1, Len(Queue))
  <2>1. \A i \in k + 1 .. Count : i \in 1 .. Count /\ Queue[i] \in Bytes
    <3>1. \A i \in k + 1 .. Count : i \in 1 .. Count
      BY <1>1
    <3>. QED  BY <1>2, <3>1
  <2>2. k + 1 \in Int /\ Count \in Int
    BY <1>1
  <2>3. /\ t \in Seq(Bytes) /\ Len(t) = (IF k + 1 <= Count THEN Count - (k + 1) + 1 ELSE 0)
        /\ \A i \in 1 .. Count - (k + 1) + 1 : t[i] = Queue[(k + 1) + i - 1]
    <3>1. /\ SubSeq(Queue, k + 1, Count) \in Seq(Bytes)
          /\ Len(SubSeq(Queue, k + 1, Count)) = (IF k + 1 <= Count THEN Count - (k + 1) + 1 ELSE 0)
          /\ \A i \in 1 .. Count - (k + 1) + 1 : SubSeq(Queue, k + 1, Count)[i] = Queue[(k + 1) + i - 1]
      BY <2>1, <2>2, SubSeqProperties
    <3>. QED  BY <1>2, <3>1
  <2>. HIDE DEF t
  <2>4. Len(t) = Count - k
    BY <1>1, <2>3
  <2>5. /\ Queue' \in Seq(Bytes) /\ Len(Queue') = Count - k
        /\ \A i \in 1 .. Count - k : Queue'[i] = data[(nread' + i - 1) % PIPESIZE]
    <3>1. Queue' = [i \in 1 .. Count - k |-> data[(nread' + i - 1) % PIPESIZE]]
      BY <1>1 DEF Queue
    <3>2. ASSUME NEW i \in 1 .. Count - k PROVE data[(nread' + i - 1) % PIPESIZE] \in Bytes
      <4>1. PIPESIZE \in Nat \ {0} /\ nread' + i - 1 \in Nat
        <5>1. i \in Nat /\ i >= 1
          BY <1>1
        <5>. QED  BY <1>0, <5>1
      <4>2. (nread' + i - 1) % PIPESIZE \in 0 .. PIPESIZE - 1
        BY ONLY <4>1
      <4>. QED  BY <4>2 DEF TypeOK
    <3>. DEFINE c == Count - k
    <3>3. c \in Nat /\ Queue' \in [1 .. c -> Bytes]
      <4>1. c \in Nat
        BY <1>1
      <4>. QED  BY ONLY <3>1, <3>2, <4>1
    <3>. HIDE DEF c
    <3>4. Queue' \in Seq(Bytes) /\ Len(Queue') = c
      BY <3>3
    <3>. QED  BY <3>1, <3>4 DEF c
  <2>6. ASSUME NEW i \in 1 .. Count - k PROVE Queue'[i] = t[i]
    <3>1. (nread' + i - 1) % PIPESIZE = (nread + k + i - 1) % PIPESIZE
      <4>1. k \in 0 .. (Width - 1) /\ i \in Nat \ {0}
        BY <1>0, <1>1
      <4>. QED  BY <4>1, ReadPlace
    <3>2. k + i \in 1 .. Count /\ nread + k + i - 1 = nread + (k + i) - 1 /\ (k + 1) + i - 1 = k + i
      <4>. DEFINE c == Count
                  r == nread
      <4>1. c \in Nat /\ r \in Nat /\ k \in Nat /\ k <= c /\ i \in 1 .. c - k
        BY <1>0, <1>1
      <4>. HIDE DEF c, r
      <4>2. k + i \in 1 .. c /\ r + k + i - 1 = r + (k + i) - 1 /\ (k + 1) + i - 1 = k + i
        BY ONLY <4>1
      <4>. QED  BY <4>2 DEF c, r
    <3>3. Queue[k + i] = data[place(k + i)]
      BY <1>2, <3>2
    <3>4. i \in 1 .. Count - (k + 1) + 1
      BY <1>1
    <3>5. t[i] = Queue[k + i]
      BY <2>3, <3>2, <3>4
    <3>. QED  BY <2>5, <3>1, <3>2, <3>3, <3>5
  <2>7. Queue' = t
    BY <2>3, <2>4, <2>5, <2>6, SeqEqual
  <2>. QED  BY <2>7 DEF t
<1>. QED  BY <1>1, <1>2, <1>3, <1>4
-----------------------------------------------------------------------------
(* The refinement *)

Goal == [Abstract!ByteNext]_(Abstract!byteVars)

(* A step that leaves the pipe alone is a stutter. *)
LEMMA AloneIsStutter ==
  ASSUME UNCHANGED <<allocated, readopen, writeopen, nread, nwrite, data, got>>
  PROVE Goal
<1>1. Count' = Count
  BY DEF Count
<1>2. Queue' = Queue
  BY <1>1 DEF Queue
<1>. QED  BY <1>2 DEF Goal, Abstract!byteVars

(* Count is 0 when both counters are. *)
LEMMA NewIsEmpty == nread' = 0 /\ nwrite' = 0 => Queue' = <<>>
<1>. SUFFICES ASSUME nread' = 0, nwrite' = 0 PROVE Queue' = <<>>
  OBVIOUS
<1>1. Gap(0, 0, Width) = 0
  <2>1. Width \in Nat \ {0} /\ 0 \in 0 .. (Width - 1)
    BY Constants
  <2>. QED  BY <2>1, CountIs
<1>2. Count' = 0
  BY <1>1 DEF Count, Gap
<1>3. Queue' = IF allocated' THEN [i \in 1 .. 0 |-> data'[(nread' + i - 1) % PIPESIZE]] ELSE <<>>
  BY <1>2 DEF Queue
<1>. QED  BY <1>3

(* pipe() makes an empty queue.                                              *)
LEMMA MakeStep == ASSUME IInv, NEW p \in Procs, SysPipe(p) PROVE Goal
<1>1. ~allocated /\ allocated' = TRUE /\ readopen' = TRUE /\ writeopen' = TRUE /\ got' = got
  BY DEF SysPipe
<1>2. Queue' = <<>>
  BY NewIsEmpty DEF SysPipe
<1>3. Abstract!ByteMake
  BY <1>1, <1>2 DEF Abstract!ByteMake
<1>. QED  BY <1>3 DEF Goal, Abstract!ByteNext

(* The last close of an end closes it.                                       *)
LEMMA CloseStep == ASSUME IInv, NEW p \in Procs, PipeClose(p) PROVE Goal
<1>. DEFINE w == writable[file[p]]
<1>1. /\ w \in BOOLEAN /\ allocated /\ IF w THEN writeopen ELSE readopen
      /\ readopen \in BOOLEAN /\ writeopen \in BOOLEAN
  <2>1. pc[p] \in Closing
    BY DEF PipeClose, Closing
  <2>2. file[p] \in Files
    BY <2>1 DEF IInv, FileInv
  <2>. QED  BY <2>1, <2>2, EndOfCall DEF IInv, TypeOK
<1>2. /\ readopen' = (readopen /\ w) /\ writeopen' = (writeopen /\ ~w)
      /\ allocated' = (readopen' \/ writeopen')
      /\ allocated' => UNCHANGED <<nread, nwrite, data, got>>
      /\ ~allocated' => got' = <<>>
  BY DEF PipeClose
<1>3. ~allocated' => Queue' = <<>>
  BY DEF Queue
<1>4. allocated' => Queue' = Queue /\ got' = got
  <2>. SUFFICES ASSUME allocated' PROVE Queue' = Queue /\ got' = got
    OBVIOUS
  <2>1. Count' = Count
    BY <1>2 DEF Count
  <2>. QED  BY <1>1, <1>2, <2>1 DEF Queue
<1>. HIDE DEF w
<1>5. CASE w = TRUE
  <2>1. (readopen' <=> readopen) /\ ~writeopen' /\ (allocated' <=> readopen) /\ writeopen
    BY <1>1, <1>2, <1>5
  <2>2. Abstract!ByteCloseWrite
    BY <1>1, <1>2, <1>3, <1>4, <2>1 DEF Abstract!ByteCloseWrite
  <2>. QED  BY <2>2 DEF Goal, Abstract!ByteNext
<1>6. CASE w = FALSE
  <2>1. (writeopen' <=> writeopen) /\ ~readopen' /\ (allocated' <=> writeopen) /\ readopen
    BY <1>1, <1>2, <1>6
  <2>2. Abstract!ByteCloseRead
    BY <1>1, <1>2, <1>3, <1>4, <2>1 DEF Abstract!ByteCloseRead
  <2>. QED  BY <2>2 DEF Goal, Abstract!ByteNext
<1>. QED  BY <1>1, <1>5, <1>6

(* k bytes are written, or none. *)
LEMMA PutStep ==
  ASSUME IInv, TypeOK', NEW p \in Procs, pc[p] = "write", NEW k \in Nat, k <= Len(todo[p]),
         Count + k <= PIPESIZE, Copy(p, k), UNCHANGED <<allocated, readopen, writeopen, nread, got>>
  PROVE Goal
<1>. DEFINE s == SubSeq(todo[p], 1, k)
<1>1. allocated /\ writeopen /\ TypeOK
  BY EndOfCall DEF IInv, Writing
<1>2. Count \in Nat /\ PIPESIZE \in Nat /\ Count <= PIPESIZE
  BY <1>1, CountFacts, Constants DEF IInv, WaitInv
<1>3. Queue' = Queue \o s /\ s \in [1 .. k -> Bytes]
  BY <1>1, QueueAfterPut
<1>4. Queue \in Seq(Bytes) /\ Len(Queue) = Count
  BY <1>1, <1>2, QueueFacts
<1>. HIDE DEF s
<1>5. CASE k = 0
  <2>1. s = <<>>
    BY <1>5, SubSeqEmpty DEF s
  <2>2. Queue' = Queue
    BY <1>3, <1>4, <2>1, ConcatEmptySeq
  <2>. QED  BY <2>2 DEF Goal, Abstract!byteVars
<1>6. CASE k > 0
  <2>1. Len(s) = k /\ k \in 1 .. PIPESIZE
    BY <1>2, <1>3, <1>6
  <2>2. Len(Queue) + Len(s) <= PIPESIZE
    BY <1>4, <2>1
  <2>3. Abstract!BytePut(s)
    BY <1>1, <1>3, <2>2 DEF Abstract!BytePut
  <2>. QED  BY <1>3, <2>1, <2>3 DEF Goal, Abstract!ByteNext
<1>. QED  BY <1>5, <1>6

(* A write appends.                                                          *)
LEMMA WriteStep ==
  ASSUME IInv, TypeOK', NEW p \in Procs, PipeWrite(p) \/ PipeWriteFull(p)
  PROVE Goal
<1>. USE Constants DEF IInv
<1>1. Count \in Nat /\ Count <= PIPESIZE /\ Len(todo[p]) \in Nat
  <2>1. Count \in 0 .. (Width - 1) /\ todo[p] \in Seq(Bytes)
    BY CountFacts DEF TypeOK
  <2>. QED  BY <2>1 DEF WaitInv
<1>2. UNCHANGED <<allocated, readopen, writeopen, nread, got>> /\ pc[p] = "write"
  BY DEF PipeWrite, PipeWriteFull
<1>3. CASE PipeWrite(p)
  <2>1. Count + Len(todo[p]) <= PIPESIZE /\ Copy(p, Len(todo[p]))
    BY <1>1, <1>3 DEF PipeWrite
  <2>. QED  BY <1>1, <1>2, <2>1, PutStep
<1>4. CASE PipeWriteFull(p)
  <2>. DEFINE k == PIPESIZE - Count
  <2>1. k \in Nat /\ k <= Len(todo[p]) /\ Count + k <= PIPESIZE /\ Copy(p, k)
    BY <1>1, <1>4 DEF PipeWriteFull
  <2>. HIDE DEF k
  <2>. QED  BY <1>2, <2>1, PutStep
<1>. QED  BY <1>3, <1>4

(* A read takes the front.                                                   *)
LEMMA ReadStep ==
  ASSUME IInv, TypeOK', NEW p \in Procs, PipeRead(p)
  PROVE Goal
<1>1. allocated /\ readopen /\ TypeOK /\ Count <= PIPESIZE /\ (~Empty \/ ~writeopen)
  BY EndOfCall DEF IInv, WaitInv, PipeRead, Reading
<1>2. PICK n \in ReadSizes :
        /\ got' = [i \in 1 .. Smaller(n, Count) |-> data[(nread + i - 1) % PIPESIZE]]
        /\ nread' = (nread + Smaller(n, Count)) % Width
  BY DEF PipeRead
<1>3. UNCHANGED <<allocated, readopen, writeopen, nwrite, data>>
  BY DEF PipeRead
<1>. DEFINE k == Smaller(n, Count)
<1>4. /\ k \in 0 .. Len(Queue) /\ got' = SubSeq(Queue, 1, k)
      /\ Queue' = SubSeq(Queue, k + 1, Len(Queue))
  BY <1>1, <1>2, <1>3, QueueAfterGet
<1>5. /\ Queue \in Seq(Bytes) /\ Len(Queue) = Count /\ Count \in Nat
      /\ (Count = 0 <=> Empty)
  BY <1>1, QueueFacts, CountFacts
<1>6. k = 0 => Count = 0
  BY <1>5, PipeAssumption DEF Smaller
<1>. HIDE DEF k
<1>7. CASE k = 0
  <2>1. Empty /\ ~writeopen /\ Len(Queue) = 0
    BY <1>1, <1>5, <1>6, <1>7
  <2>2. Queue = <<>>
    BY <1>5, <2>1, EmptySeq
  <2>3. got' = <<>> /\ Queue' = <<>>
    BY <1>4, <1>7, <2>1, SubSeqEmpty
  <2>4. Abstract!ByteEof
    BY <1>1, <1>3, <2>1, <2>2, <2>3 DEF Abstract!ByteEof
  <2>. QED  BY <2>4 DEF Goal, Abstract!ByteNext
<1>8. CASE k # 0
  <2>1. k \in 1 .. Len(Queue) /\ k \in 1 .. PIPESIZE
    BY <1>1, <1>4, <1>5, <1>8, Constants
  <2>2. Abstract!ByteGet(k)
    BY <1>1, <1>3, <1>4, <2>1 DEF Abstract!ByteGet
  <2>. QED  BY <2>1, <2>2 DEF Goal, Abstract!ByteNext
<1>. QED  BY <1>7, <1>8

(* Every step is one of BytePipe or changes nothing it can see.              *)
LEMMA RefinesStep == ASSUME IInv, IInv', [Next]_vars PROVE Goal
<1>. USE DEF pipeVars
<1>0. TypeOK'
  BY DEF IInv
<1>1. ASSUME NEW p \in Procs,
             \/ SysDup(p) \/ Fork(p) \/ Exit(p) \/ ExitDone(p) \/ SysWrite(p) \/ SysRead(p)
             \/ PipeReadEmpty(p) \/ Park(p) \/ Kill(p)
      PROVE Goal
  BY <1>1, AloneIsStutter DEF SysDup, Fork, Exit, ExitDone, SysWrite, SysRead, PipeReadEmpty, Park, Kill
<1>2. ASSUME NEW p \in Procs, SysClose(p) \/ ExitClose(p) PROVE Goal
  BY <1>2, AloneIsStutter DEF SysClose, ExitClose, DropRef
<1>3. CASE UNCHANGED vars
  BY <1>3, AloneIsStutter DEF vars
<1>4. ASSUME NEW p \in Procs, SysPipe(p) \/ PipeClose(p) \/ PipeWrite(p) \/ PipeWriteFull(p) \/ PipeRead(p)
      PROVE Goal
  BY <1>0, <1>4, MakeStep, CloseStep, WriteStep, ReadStep
<1>. QED  BY <1>1, <1>2, <1>3, <1>4 DEF Next, ProcStep

-----------------------------------------------------------------------------
(* The theorems *)

(* IInv holds in every reachable state of pipe.c and file.c: the counts of ftable, the ends *)
(* of the pipe and the processes asleep in it agree after every step of every process.      *)
THEOREM Invariance == Spec => []IInv
<1>1. Init => IInv
  BY InitIInv
<1>2. IInv /\ [Next]_vars => IInv'
  <2>. SUFFICES ASSUME IInv, [Next]_vars PROVE IInv'
    OBVIOUS
  <2>1. RefsCounted'
    BY TableStep
  <2>. QED  BY <2>1, TypeOKStep, FileStep, EndStep, WaitStep, RoleStep DEF IInv
<1>. QED  BY <1>1, <1>2, PTL DEF Spec

(* Type correctness: the counters of struct pipe stay in the range of a uint and the reference *)
(* counts of struct file in the number of descriptors there are.                               *)
THEOREM TypeCorrect == Spec => []TypeOK
<1>1. IInv => TypeOK
  BY DEF IInv
<1>. QED  BY <1>1, Invariance, PTL

(* f->ref is the number of descriptors that name f, and an end of the pipe is open as long as   *)
(* one of its files has references or its last fileclose() is on the way to pipeclose().        *)
THEOREM EndsFollowFiles == Spec => []EndsOpen
<1>1. IInv => EndsOpen
  <2>. SUFFICES ASSUME IInv PROVE EndsOpen
    OBVIOUS
  <2>. USE DEF IInv
  <2>1. \A f \in opened : ref[f] > 0
    BY DEF FileInv, TypeOK
  <2>2. /\ readopen = ((\E f \in opened : ref[f] > 0 /\ writable[f] = FALSE)
                       \/ \E p \in Procs : pc[p] \in {"close", "exitclose"} /\ writable[file[p]] = FALSE)
        /\ writeopen = ((\E f \in opened : ref[f] > 0 /\ writable[f] = TRUE)
                       \/ \E p \in Procs : pc[p] \in {"close", "exitclose"} /\ writable[file[p]] = TRUE)
    <3>1. readopen \in BOOLEAN /\ writeopen \in BOOLEAN
      BY DEF TypeOK
    <3>. QED  BY <2>1, <3>1 DEF EndInv, Carried, Closing
  <2>3. EndsMatchRefs
    BY <2>2 DEF EndsMatchRefs
  <2>. QED  BY <2>3 DEF EndsOpen
<1>. QED  BY <1>1, Invariance, PTL

(* Nobody reads, writes, closes or sleeps on a pipe whose page pipeclose() has given to kfree(). *)
THEOREM PipeOutlivesItsUsers == Spec => []NoUseAfterFree
<1>1. IInv => NoUseAfterFree
  <2>. SUFFICES ASSUME IInv, NEW p \in Procs, pc[p] \notin {"unused", "user", "exit"} PROVE allocated
    BY DEF NoUseAfterFree
  <2>1. pc[p] \in Using \cup Closing
    BY DEF IInv, TypeOK, Using, Closing
  <2>. QED  BY <2>1, InUse
<1>. QED  BY <1>1, Invariance, PTL

(* Whoever sleeps in piperead() or pipewrite() has to: no wakeup is lost, but for the one a   *)
(* killed writer forgets.                                                                     *)
THEOREM SleepersHaveToWait == Spec => []SleepersWait
<1>1. IInv => SleepersWait
  BY DEF IInv, WaitInv, SleepersWait
<1>. QED  BY <1>1, Invariance, PTL

(* pipe.c implements its promise: whatever the writers' sizes, wherever the counters and the     *)
(* ring wrap around, the bytes are read once, in the order in which they were written, and a     *)
(* read returns 0 only when the pipe is empty and no process can write.                          *)
THEOREM Implementation == Spec => ImplementsBytePipe
<1>1. Init => Abstract!ByteInit
  <2>. SUFFICES ASSUME Init PROVE Abstract!ByteInit
    OBVIOUS
  <2>. QED  BY DEF Init, Abstract!ByteInit, Queue
<1>2. IInv /\ IInv' /\ [Next]_vars => [Abstract!ByteNext]_(Abstract!byteVars)
  BY RefinesStep DEF Goal
<1>. QED  BY <1>1, <1>2, Invariance, PTL DEF Spec, ImplementsBytePipe, Abstract!ByteSpec
=============================================================================
