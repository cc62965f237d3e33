--------------------------- MODULE CricketCvProofs ---------------------------
(***************************************************************************)
(* What is proved of lab7's cricket matches, for any size of a team and any  *)
(* number of matches: IInv of CricketCv is inductive, so that each match is  *)
(* played by two complete teams, and their runs are those of their players.  *)
(***************************************************************************)
EXTENDS CricketCv, FiniteSetTheorems, WellFoundedInduction, TLAPS

(* What the assumptions say, unfolded.                                       *)
LEMMA Constants ==
  /\ Game \in Threads /\ Players \subseteq Threads /\ Game \notin Players
  /\ NoThread \notin Threads /\ NoCond \notin Conds
  /\ Team \in Nat /\ Team > 0 /\ Matches \in Nat
  /\ IsFiniteSet(Players) /\ Cardinality(Players) = 2 * Team * Matches
  /\ Mutexes = {"counters_runs_lock"} /\ Conds = {"can_enter", "match_done"}
  /\ Scores \subseteq Nat
  /\ \A t \in Threads : t = Game \/ t \in Players
BY CricketCvAssumption, PthreadsAssumption DEF Players

(* One match more takes two teams more.                                      *)
LEMMA OneMatchMore ==
  ASSUME NEW a \in Nat, NEW m \in Nat
  PROVE 2 * a * (m + 1) = 2 * a * m + a + a
OBVIOUS

-----------------------------------------------------------------------------
(* The teams are finite sets. *)
LEMMA TeamsFinite ==
  /\ IsFiniteSet(Played) /\ Cardinality(Played) \in Nat
  /\ \A i, team : IsFiniteSet(TeamOf(i, team)) /\ Cardinality(TeamOf(i, team)) \in Nat
<1>1. \A S \in SUBSET Players : IsFiniteSet(S) /\ Cardinality(S) \in Nat
  BY Constants, FS_Subset, FS_CardinalityType
<1>2. Played \in SUBSET Players /\ \A i, team : TeamOf(i, team) \in SUBSET Players
  BY DEF Played, TeamOf
<1>. QED  BY <1>1, <1>2

(* At the start.                                                             *)
LEMMA InitIInv == Init => IInv
<1>. SUFFICES ASSUME Init PROVE IInv
  OBVIOUS
<1>. USE Constants DEF Init, PtInit
<1>1. TypeOK
  BY DEF TypeOK, PtTypeOK
<1>2. LockInv
  <2>1. pc[Game] \in {"lock", "join"} /\ (pc[Game] = "lock" => 0 < Matches) /\ match = 0
    OBVIOUS
  <2>2. \A p \in Players : pc[p] = "lock" /\ owner["counters_runs_lock"] # p
    OBVIOUS
  <2>3. owner["counters_runs_lock"] # Game
    OBVIOUS
  <2>. HIDE DEF Init
  <2>. QED  BY <2>1, <2>2, <2>3 DEF LockInv
<1>3. TeamInv
  <2>1. Played = {} /\ \A team \in {"capitals", "titans"} : TeamOf(1, team) = {}
    BY DEF Played, TeamOf
  <2>2. Cardinality(Played) = 0 /\ Cardinality(TeamOf(1, "capitals")) = 0
        /\ Cardinality(TeamOf(1, "titans")) = 0
    BY <2>1, FS_EmptySet
  <2>3. TeamsComplete
    BY DEF TeamsComplete
  <2>4. \A p \in Players : p \notin Played /\ pc[p] = "lock" /\ playedIn[p][1] = 0
    BY <2>1
  <2>5. match = 0 /\ capitals_counter = 0 /\ titans_counter = 0
    OBVIOUS
  <2>. HIDE DEF Init
  <2>. QED  BY <2>2, <2>3, <2>4, <2>5 DEF TeamInv
<1>. QED  BY <1>1, <1>2, <1>3 DEF IInv

-----------------------------------------------------------------------------
(* Signals change waiting only. *)
LEMMA SignalTyped ==
  ASSUME PtTypeOK, NEW c, Signal(c), UNCHANGED owner
  PROVE PtTypeOK'
BY Constants DEF PtTypeOK, Signal, Waiters

(* A player who is still to play finds a match that is still to be played. *)
LEMMA MatchLeft ==
  ASSUME IInv, NEW p \in Players, pc[p] = "test"
  PROVE match < Matches
<1>. USE Constants DEF IInv, TypeOK, TeamInv
<1>1. Played \in SUBSET Players /\ p \notin Played
  BY DEF Played
<1>2. Cardinality(Played) <= Cardinality(Players) /\ Cardinality(Played) # Cardinality(Players)
  BY <1>1, FS_Subset
<1>3. Cardinality(Played) >= 2 * Team * match
  <2>1. 2 * Team * match \in Nat
    OBVIOUS
  <2>. QED  BY <2>1, TeamsFinite
<1>4. match # Matches
  <2>1. ASSUME match = Matches PROVE FALSE
    BY <2>1, <1>2, <1>3, TeamsFinite
  <2>. QED  BY <2>1
<1>. QED  BY <1>4

(* Types stay.                                                               *)
LEMMA TypeOKStep == ASSUME IInv, [Next]_vars PROVE TypeOK'
<1>. USE Constants DEF IInv, TypeOK, gameVars, dayVars, history, ptVars, Goto
<1>1. ASSUME NEW t \in Threads, TakeLock(t) PROVE TypeOK'
  BY <1>1 DEF TakeLock, Lock, PtTypeOK
<1>2. ASSUME NEW p \in Players, PlayerWait(p) PROVE TypeOK'
  BY <1>2 DEF PlayerWait, BeginWait, Unlock, PtTypeOK
<1>3. ASSUME NEW p \in Players, PlayerPlay(p) PROVE TypeOK'
  <2>1. match + 1 \in 0..Matches /\ score[p] \in Nat
    <3>1. match < Matches
      BY <1>3, MatchLeft DEF PlayerPlay
    <3>2. match + 1 \in 0..Matches
      BY <3>1
    <3>3. score[p] \in Nat
      OBVIOUS
    <3>. QED  BY <3>2, <3>3
  <2>2. PtTypeOK'
    <3>1. CASE UNCHANGED waiting
      BY <1>3, <3>1 DEF PlayerPlay, PtTypeOK
    <3>2. CASE Signal("match_done")
      BY <1>3, <3>2, SignalTyped DEF PlayerPlay
    <3>. QED  BY <1>3, <3>1, <3>2 DEF PlayerPlay
  <2>3. titans_counter > 0 => capitals_counter = Team
    BY DEF TeamInv
  <2>4. capitals_counter' \in 0..Team /\ titans_counter' \in 0..Team
    <3>1. CASE capitals_counter < Team
      BY <1>3, <3>1 DEF PlayerPlay
    <3>2. CASE ~(capitals_counter < Team)
      <4>1. titans_counter < Team
        BY <1>3, <3>2 DEF PlayerPlay, Full
      <4>. QED  BY <1>3, <3>2, <4>1 DEF PlayerPlay
    <3>. QED  BY <3>1, <3>2
  <2>5. capitals_runs' \in Nat /\ titans_runs' \in Nat /\ max_indiv_score' \in Nat
    BY <1>3, <2>1 DEF PlayerPlay, MaxOf
  <2>6. playedIn' \in [Players -> (0..Matches) \X {"none", "capitals", "titans"}]
    BY <1>3, <2>1 DEF PlayerPlay
  <2>7. pc' \in [Threads -> {"lock", "test", "waiting", "unlock", "signal", "join", "done"}]
    BY <1>3 DEF PlayerPlay
  <2>8. UNCHANGED <<dayVars, match, signals, score>>
    BY <1>3 DEF PlayerPlay
  <2>. QED  BY <2>2, <2>4, <2>5, <2>6, <2>7, <2>8
<1>4. ASSUME NEW p \in Players, PlayerUnlock(p) PROVE TypeOK'
  BY <1>4 DEF PlayerUnlock, Unlock, PtTypeOK
<1>5. CASE GameWait
  BY <1>5 DEF GameWait, BeginWait, Unlock, PtTypeOK
<1>6. CASE GameMatch
  <2>1. match < Matches
    BY <1>6 DEF GameMatch, LockInv
  <2>2. /\ max_team_score' \in Nat /\ max_individual_score' \in Nat
        /\ capitals_wins' \in Nat /\ titans_wins' \in Nat
    BY <1>6 DEF GameMatch, SumUp, MaxOf
  <2>. QED  BY <1>6, <2>1, <2>2 DEF GameMatch, PtTypeOK
<1>7. CASE GameSignal
  <2>1. PtTypeOK'
    BY <1>7, SignalTyped DEF GameSignal
  <2>. QED  BY <1>7, <2>1 DEF GameSignal
<1>8. CASE GameUnlock
  BY <1>8 DEF GameUnlock, Unlock, PtTypeOK
<1>9. CASE GameJoin
  BY <1>9 DEF GameJoin, PtTypeOK
<1>10. ASSUME NEW t \in Threads, Spurious(t) PROVE TypeOK'
  BY <1>10 DEF Spurious, SpuriousWakeup, PtTypeOK
<1>11. CASE UNCHANGED vars
  BY <1>11 DEF vars, PtTypeOK
<1>. QED
  BY <1>1, <1>2, <1>3, <1>4, <1>5, <1>6, <1>7, <1>8, <1>9, <1>10, <1>11
     DEF Next, GameStep, PlayerStep

(* Who is at a place under the mutex has it.                                 *)
LEMMA LockStep == ASSUME IInv, [Next]_vars PROVE LockInv'
<1>. USE Constants DEF IInv, TypeOK, PtTypeOK, LockInv, gameVars, dayVars, history, ptVars, Goto
<1>1. ASSUME NEW t \in Threads, TakeLock(t) PROVE LockInv'
  BY <1>1 DEF TakeLock, Lock
<1>2. ASSUME NEW p \in Players, PlayerWait(p) PROVE LockInv'
  BY <1>2 DEF PlayerWait, BeginWait, Unlock
<1>3. ASSUME NEW p \in Players, PlayerPlay(p) PROVE LockInv'
  <2>1. pc[p] = "test" /\ pc' = [pc EXCEPT ![p] = "unlock"] /\ UNCHANGED <<owner, match>>
    BY <1>3 DEF PlayerPlay
  <2>. QED  BY <2>1
<1>4. ASSUME NEW p \in Players, PlayerUnlock(p) PROVE LockInv'
  BY <1>4 DEF PlayerUnlock, Unlock
<1>5. CASE GameWait
  BY <1>5 DEF GameWait, BeginWait, Unlock
<1>6. CASE GameMatch
  BY <1>6 DEF GameMatch
<1>7. CASE GameSignal
  BY <1>7 DEF GameSignal
<1>8. CASE GameUnlock
  BY <1>8 DEF GameUnlock, Unlock
<1>9. CASE GameJoin
  BY <1>9 DEF GameJoin
<1>10. ASSUME NEW t \in Threads, Spurious(t) PROVE LockInv'
  BY <1>10 DEF Spurious, SpuriousWakeup
<1>11. CASE UNCHANGED vars
  BY <1>11 DEF vars
<1>. QED
  BY <1>1, <1>2, <1>3, <1>4, <1>5, <1>6, <1>7, <1>8, <1>9, <1>10, <1>11
     DEF Next, GameStep, PlayerStep

-----------------------------------------------------------------------------
(* Steps in which nobody plays and no match ends. *)
LEMMA SameTeams ==
  ASSUME TeamInv, UNCHANGED <<capitals_counter, titans_counter, match, playedIn>>,
         \A p \in Players : pc'[p] \in {"unlock", "done"} <=> pc[p] \in {"unlock", "done"}
  PROVE TeamInv'
<1>1. Played' = Played /\ \A i, team : TeamOf(i, team)' = TeamOf(i, team)
  BY DEF Played, TeamOf
<1>2. TeamsComplete'
  BY <1>1 DEF TeamInv, TeamsComplete
<1>. QED  BY <1>1, <1>2 DEF TeamInv

(* A player who has not played joins team te of match m. *)
LEMMA Join ==
  ASSUME TypeOK, NEW p \in Players, NEW m \in Nat, NEW te \in {"capitals", "titans"},
         playedIn[p] = <<0, "none">>, playedIn' = [playedIn EXCEPT ![p] = <<m, te>>]
  PROVE /\ Cardinality(TeamOf(m, te))' = Cardinality(TeamOf(m, te)) + 1
        /\ Cardinality(Played)' = Cardinality(Played) + 1
        /\ \A q \in Players : q \in Played' <=> q \in Played \/ q = p
        /\ TeamOf(m, te)' = TeamOf(m, te) \cup {p} /\ p \notin TeamOf(m, te)
        /\ \A i, u : u \in {"capitals", "titans"} /\ (i # m \/ u # te) => TeamOf(i, u)' = TeamOf(i, u)
<1>. USE DEF TypeOK
<1>1. ASSUME NEW q \in Players
      PROVE playedIn'[q] = IF q = p THEN <<m, te>> ELSE playedIn[q]
  OBVIOUS
<1>2. TeamOf(m, te)' = TeamOf(m, te) \cup {p} /\ p \notin TeamOf(m, te)
  BY <1>1 DEF TeamOf
<1>3. Played' = Played \cup {p} /\ p \notin Played
  BY <1>1 DEF Played
<1>4. ASSUME NEW i, NEW u, u \in {"capitals", "titans"}, i # m \/ u # te
      PROVE TeamOf(i, u)' = TeamOf(i, u)
  <2>1. ASSUME NEW q \in Players PROVE playedIn'[q] = <<i, u>> <=> playedIn[q] = <<i, u>>
    BY <1>1, <1>4
  <2>. QED  BY <2>1 DEF TeamOf
<1>5. Cardinality(TeamOf(m, te) \cup {p}) = Cardinality(TeamOf(m, te)) + 1
  BY <1>2, TeamsFinite, FS_AddElement
<1>6. Cardinality(Played \cup {p}) = Cardinality(Played) + 1
  BY <1>3, TeamsFinite, FS_AddElement
<1>. QED  BY <1>2, <1>3, <1>4, <1>5, <1>6

(* A player who plays makes a team fuller and leaves the others.             *)
LEMMA PlayStep ==
  ASSUME IInv, NEW p \in Players, PlayerPlay(p)
  PROVE TeamInv'
<1>. USE Constants DEF IInv, TypeOK
<1>1. ASSUME NEW m, m = match + 1,
             NEW te, te = IF capitals_counter < Team THEN "capitals" ELSE "titans"
      PROVE TeamInv'
  <2>1. /\ pc[p] = "test" /\ ~Full /\ match' = match
        /\ pc' = [pc EXCEPT ![p] = "unlock"]
        /\ playedIn' = [playedIn EXCEPT ![p] = <<m, te>>]
    BY <1>1 DEF PlayerPlay, Goto
  <2>2. /\ capitals_counter' = IF te = "capitals" THEN capitals_counter + 1 ELSE capitals_counter
        /\ titans_counter' = IF te = "titans" THEN titans_counter + 1 ELSE titans_counter
    BY <1>1 DEF PlayerPlay
  <2>3. playedIn[p] = <<0, "none">> /\ p \notin Played
    BY <2>1 DEF TeamInv, Played
  <2>4. m \in Nat /\ te \in {"capitals", "titans"}
    BY <1>1
  <2>5. /\ Cardinality(TeamOf(m, te))' = Cardinality(TeamOf(m, te)) + 1
        /\ Cardinality(Played)' = Cardinality(Played) + 1
        /\ \A q \in Players : q \in Played' <=> q \in Played \/ q = p
        /\ \A i, u : u \in {"capitals", "titans"} /\ (i # m \/ u # te) => TeamOf(i, u)' = TeamOf(i, u)
    <3>1. TypeOK
      OBVIOUS
    <3>. HIDE DEF IInv, TypeOK
    <3>. QED  BY <2>1, <2>3, <2>4, <3>1, Join, ZenonT(60)
  <2>6. TeamsComplete'
    <3>1. ASSUME NEW i \in 1..match, NEW u \in {"capitals", "titans"}
          PROVE Cardinality(TeamOf(i, u)') = Team
      <4>1. TeamOf(i, u)' = TeamOf(i, u)
        BY <1>1, <2>5
      <4>. QED  BY <4>1 DEF TeamInv, TeamsComplete, Teams
    <3>. QED  BY <2>1, <3>1 DEF TeamsComplete, Teams
  <2>7. /\ Cardinality(TeamOf(m, "capitals"))' = capitals_counter'
        /\ Cardinality(TeamOf(m, "titans"))' = titans_counter'
    <3>1. CASE te = "capitals"
      BY <1>1, <2>2, <2>5, <3>1 DEF TeamInv
    <3>2. CASE te = "titans"
      BY <1>1, <2>2, <2>5, <3>2 DEF TeamInv
    <3>. QED  BY <2>4, <3>1, <3>2
  <2>8. Cardinality(Played)' = 2 * Team * match + capitals_counter' + titans_counter'
    <3>1. 2 * Team * match \in Nat
      OBVIOUS
    <3>. QED  BY <2>2, <2>4, <2>5, <3>1 DEF TeamInv
  <2>9. titans_counter' > 0 => capitals_counter' = Team
    BY <1>1, <2>1, <2>2 DEF TeamInv, Full
  <2>10. \A q \in Players : q \in Played' <=> pc'[q] \in {"unlock", "done"}
    BY <2>1, <2>5 DEF TeamInv
  <2>11. \A q \in Players : playedIn'[q][1] <= match' + 1
    BY <1>1, <2>1 DEF TeamInv
  <2>12. m = match' + 1
    BY <1>1, <2>1
  <2>. QED  BY <2>1, <2>6, <2>7, <2>8, <2>9, <2>10, <2>11, <2>12 DEF TeamInv
<1>. QED  BY <1>1

(* The end of a match empties the teams.                                     *)
LEMMA MatchStep ==
  ASSUME IInv, GameMatch
  PROVE TeamInv'
<1>. USE Constants DEF IInv, TypeOK
<1>1. /\ Full /\ match' = match + 1 /\ capitals_counter' = 0 /\ titans_counter' = 0
      /\ pc[Game] = "test" /\ pc' = [pc EXCEPT ![Game] = "signal"] /\ playedIn' = playedIn
  BY DEF GameMatch, Goto
<1>2. \A p \in Players : pc'[p] = pc[p]
  BY <1>1
<1>3. Played' = Played /\ \A i, team : TeamOf(i, team)' = TeamOf(i, team)
  BY <1>1 DEF Played, TeamOf
<1>4. \A team : TeamOf(match + 2, team) = {}
  BY DEF TeamOf, TeamInv
<1>5. \A team : Cardinality(TeamOf(match + 2, team)) = 0
  BY <1>4, FS_EmptySet
<1>6. TeamsComplete'
  <2>1. ASSUME NEW i \in 1..match', NEW team \in {"capitals", "titans"}
        PROVE Cardinality(TeamOf(i, team)) = Team
    <3>1. CASE i \in 1..match
      BY <3>1 DEF TeamInv, TeamsComplete, Teams
    <3>2. CASE i = match + 1
      BY <1>1, <3>2 DEF TeamInv, Full
    <3>. QED  BY <1>1, <3>1, <3>2
  <2>. QED  BY <1>3, <2>1 DEF TeamsComplete, Teams
<1>7. 2 * Team * match' = 2 * Team * match + Team + Team
  BY <1>1, OneMatchMore
<1>8. Cardinality(Played) = 2 * Team * match + Team + Team
  BY <1>1 DEF TeamInv, Full
<1>9. \A p \in Players : playedIn'[p][1] <= match' + 1
  BY <1>1 DEF TeamInv
<1>10. match' + 1 = match + 2
  BY <1>1
<1>11. Cardinality(Played)' = 2 * Team * match' + capitals_counter' + titans_counter'
  BY <1>1, <1>3, <1>7, <1>8, TeamsFinite
<1>12. /\ Cardinality(TeamOf(match + 1, "capitals"))' = capitals_counter'
       /\ Cardinality(TeamOf(match + 1, "titans"))' = titans_counter'
  BY <1>1, <1>3, <1>5, <1>10
<1>13. \A p \in Players : p \in Played' <=> pc'[p] \in {"unlock", "done"}
  BY <1>2, <1>3 DEF TeamInv
<1>. QED  BY <1>1, <1>6, <1>9, <1>11, <1>12, <1>13 DEF TeamInv

(* Teams are counted at every step.                                          *)
LEMMA TeamStep == ASSUME IInv, [Next]_vars PROVE TeamInv'
<1>. USE Constants DEF IInv, TypeOK, gameVars, dayVars, history, ptVars, Goto
<1>1. ASSUME NEW t \in Threads, TakeLock(t) PROVE TeamInv'
  BY <1>1, SameTeams DEF TakeLock
<1>2. ASSUME NEW p \in Players, PlayerWait(p) PROVE TeamInv'
  BY <1>2, SameTeams DEF PlayerWait
<1>3. ASSUME NEW p \in Players, PlayerUnlock(p) PROVE TeamInv'
  BY <1>3, SameTeams DEF PlayerUnlock
<1>4. CASE GameWait \/ GameSignal
  BY <1>4, SameTeams DEF GameWait, GameSignal
<1>5. CASE GameUnlock \/ GameJoin
  BY <1>5, SameTeams DEF GameUnlock, GameJoin
<1>6. ASSUME NEW t \in Threads, Spurious(t) PROVE TeamInv'
  BY <1>6, SameTeams DEF Spurious
<1>7. CASE UNCHANGED vars
  BY <1>7, SameTeams DEF vars
<1>. QED
  BY <1>1, <1>2, <1>3, <1>4, <1>5, <1>6, <1>7, PlayStep, MatchStep DEF Next, GameStep, PlayerStep

-----------------------------------------------------------------------------
(* IInv is inductive. *)
THEOREM Invariance == Spec => []IInv
<1>1. ASSUME IInv, [Next]_vars PROVE IInv'
  BY <1>1, TypeOKStep, LockStep, TeamStep DEF IInv
<1>. QED  BY <1>1, InitIInv, PTL DEF Spec

(* The variables keep their types: no team has more players than it should, and nobody  *)
(* plays in a match after the last.                                                      *)
THEOREM TypeCorrect == Spec => []TypeOK
<1>1. IInv => TypeOK
  BY DEF IInv
<1>. QED  BY <1>1, Invariance, PTL

(* Every match the game thread has summed up was played by two complete teams. *)
THEOREM CompleteTeams == Spec => []TeamsComplete
<1>1. IInv => TeamsComplete
  BY DEF IInv, TeamInv
<1>. QED  BY <1>1, Invariance, PTL

-----------------------------------------------------------------------------
(* Induction.  The library's theorems of induction take an operator as a     *)
(* parameter; this one speaks of a set.                                      *)
LEMMA LeastElement == ASSUME NEW T \in SUBSET Nat, T # {} PROVE \E n \in T : \A m \in T : n <= m
<1>1. PICK n \in T : \A m \in T : <<m, n>> \notin OpToRel(<, Nat)
  BY NatLessThanWellFounded, WFMin
<1>2. ASSUME NEW m \in T PROVE n <= m
  <2>1. <<m, n>> \in Nat \X Nat /\ <<m, n>>[1] = m /\ <<m, n>>[2] = n
    OBVIOUS
  <2>2. ~(m < n)
    BY <1>1, <2>1 DEF OpToRel
  <2>. QED  BY <2>2
<1>. QED  BY <1>2

(* Induction, over a set instead of a predicate.                             *)
LEMMA SetInduction ==
  ASSUME NEW A, 0 \in A, \A n \in Nat : n \in A => n + 1 \in A
  PROVE Nat \subseteq A
<1>. DEFINE T == Nat \ A
<1>1. SUFFICES ASSUME T # {} PROVE FALSE
  OBVIOUS
<1>2. PICK n \in T : \A m \in T : n <= m
  BY <1>1, LeastElement
<1>3. n # 0 /\ n \in Nat /\ n - 1 \in Nat
  BY <1>2
<1>4. n - 1 \in A
  BY <1>2, <1>3
<1>. QED  BY <1>2, <1>3, <1>4

-----------------------------------------------------------------------------
(* Sums.  As many pairs as f adds up to on S. *)
Pieces(f, S) == UNION {{x} \X (1..f[x]) : x \in S}

(* One element more. *)
LEMMA PiecesAdd ==
  ASSUME NEW S, NEW x, x \notin S, NEW f, f[x] \in Nat, IsFiniteSet(Pieces(f, S))
  PROVE /\ IsFiniteSet(Pieces(f, S \cup {x}))
        /\ Cardinality(Pieces(f, S \cup {x})) = Cardinality(Pieces(f, S)) + f[x]
<1>. DEFINE X == {x} \X (1..f[x])
<1>1. IsFiniteSet(X) /\ Cardinality(X) = f[x]
  <2>1. 1 \in Int /\ f[x] \in Int
    OBVIOUS
  <2>2. /\ IsFiniteSet(1..f[x])
        /\ Cardinality(1..f[x]) = IF 1 > f[x] THEN 0 ELSE f[x] - 1 + 1
    BY <2>1, FS_Interval, Zenon
  <2>3. Cardinality(1..f[x]) = f[x]
    BY <2>2
  <2>4. IsFiniteSet({x}) /\ Cardinality({x}) = 1
    BY FS_Singleton
  <2>5. IsFiniteSet(X) /\ Cardinality(X) = Cardinality({x}) * Cardinality(1..f[x])
    BY <2>2, <2>4, FS_Product
  <2>. QED  BY <2>3, <2>4, <2>5
<1>2. Pieces(f, S \cup {x}) = Pieces(f, S) \cup X
  BY DEF Pieces
<1>3. Pieces(f, S) \cap X = {}
  BY DEF Pieces
<1>. HIDE DEF X
<1>4. Cardinality(Pieces(f, S) \cap X) = 0
  BY <1>3, FS_EmptySet
<1>5. /\ IsFiniteSet(Pieces(f, S) \cup X)
      /\ Cardinality(Pieces(f, S) \cup X)
           = Cardinality(Pieces(f, S)) + Cardinality(X) - Cardinality(Pieces(f, S) \cap X)
  BY <1>1, FS_Union
<1>6. Cardinality(Pieces(f, S)) \in Nat
  BY FS_CardinalityType
<1>7. Cardinality(Pieces(f, S) \cup X) = Cardinality(Pieces(f, S)) + f[x]
  BY <1>1, <1>4, <1>5, <1>6
<1>. QED  BY <1>2, <1>5, <1>7

(* One element less. *)
LEMMA PiecesRemove ==
  ASSUME NEW S, NEW x \in S, NEW f, f[x] \in Nat, IsFiniteSet(Pieces(f, S))
  PROVE /\ IsFiniteSet(Pieces(f, S \ {x}))
        /\ Cardinality(Pieces(f, S)) = Cardinality(Pieces(f, S \ {x})) + f[x]
<1>. DEFINE R == S \ {x}
<1>1. S = R \cup {x} /\ x \notin R
  OBVIOUS
<1>2. Pieces(f, R) \subseteq Pieces(f, S)
  BY DEF Pieces
<1>3. IsFiniteSet(Pieces(f, R))
  BY <1>2, FS_Subset
<1>. HIDE DEF R
<1>4. Cardinality(Pieces(f, R \cup {x})) = Cardinality(Pieces(f, R)) + f[x]
  BY <1>1, <1>3, PiecesAdd
<1>. QED  BY <1>1, <1>3, <1>4 DEF R

(* A sum of numbers over a finite set is a number.                           *)
LEMMA PiecesFinite ==
  ASSUME NEW S, IsFiniteSet(S), NEW f, \A x \in S : f[x] \in Nat
  PROVE IsFiniteSet(Pieces(f, S)) /\ Cardinality(Pieces(f, S)) \in Nat
<1>. DEFINE F == {{x} \X (1..f[x]) : x \in S}
<1>1. IsFiniteSet(F)
  <2>1. [x \in S |-> {x} \X (1..f[x])] \in Surjection(S, F)
    BY DEF Surjection
  <2>. HIDE DEF F
  <2>. QED  BY <2>1, FS_Surjection
<1>2. ASSUME NEW x \in S PROVE IsFiniteSet({x} \X (1..f[x]))
  <2>1. 1 \in Int /\ f[x] \in Int
    OBVIOUS
  <2>2. IsFiniteSet(1..f[x])
    BY <2>1, FS_Interval, Zenon
  <2>3. IsFiniteSet({x})
    BY FS_Singleton
  <2>. QED  BY <2>2, <2>3, FS_Product
<1>3. \A T \in F : IsFiniteSet(T)
  BY <1>2
<1>. HIDE DEF F
<1>4. IsFiniteSet(UNION F)
  BY <1>1, <1>3, FS_UNION
<1>5. IsFiniteSet(Pieces(f, S))
  BY <1>4 DEF F, Pieces
<1>. QED  BY <1>5, FS_CardinalityType

(* Runs adds up the scores, in whatever order FoldSet takes the players. *)
LEMMA RunsSum ==
  ASSUME NEW S, IsFiniteSet(S), \A p \in S : score[p] \in Nat
  PROVE Runs(S) = Cardinality(Pieces(score, S))
<1>. DEFINE It(f) == f = [s \in SUBSET S |->
                            IF s = {} THEN 0
                            ELSE score[CHOOSE x \in s : TRUE] + f[s \ {CHOOSE x \in s : TRUE}]]
            g == [s \in SUBSET S |-> Cardinality(Pieces(score, s))]
            h == CHOOSE f : It(f)
<1>1. ASSUME NEW s \in SUBSET S
      PROVE IsFiniteSet(s) /\ IsFiniteSet(Pieces(score, s)) /\ Cardinality(Pieces(score, s)) \in Nat
  BY FS_Subset, PiecesFinite
<1>2. ASSUME NEW s \in SUBSET S, s # {}, NEW x \in s
      PROVE Cardinality(Pieces(score, s)) = score[x] + Cardinality(Pieces(score, s \ {x}))
  <2>1. score[x] \in Nat /\ IsFiniteSet(Pieces(score, s)) /\ s \ {x} \in SUBSET S
    BY <1>1
  <2>2. Cardinality(Pieces(score, s)) = Cardinality(Pieces(score, s \ {x})) + score[x]
    BY <2>1, PiecesRemove
  <2>3. Cardinality(Pieces(score, s \ {x})) \in Nat
    BY <1>1, <2>1
  <2>. QED  BY <2>1, <2>2, <2>3
<1>3. It(g)
  <2>1. ASSUME NEW s \in SUBSET S
        PROVE g[s] = IF s = {} THEN 0
                     ELSE score[CHOOSE x \in s : TRUE] + g[s \ {CHOOSE x \in s : TRUE}]
    <3>1. CASE s = {}
      <4>1. Pieces(score, {}) = {}
        BY DEF Pieces
      <4>. QED  BY <3>1, <4>1, FS_EmptySet
    <3>2. CASE s # {}
      <4>1. (CHOOSE x \in s : TRUE) \in s
        BY <3>2
      <4>2. ASSUME NEW x \in s PROVE g[s] = score[x] + g[s \ {x}]
        BY <1>2, <3>2
      <4>. QED  BY <3>2, <4>1, <4>2
    <3>. QED  BY <3>1, <3>2
  <2>2. g = [s \in SUBSET S |-> g[s]]
    OBVIOUS
  <2>. HIDE DEF g
  <2>. QED  BY <2>1, <2>2
<1>4. It(h)
  <2>. HIDE DEF It, g
  <2>. QED  BY <1>3
<1>5. Runs(S) = h[S]
  BY DEF Runs, FoldSet, MapThenFoldSet
<1>6. ASSUME NEW s \in SUBSET S
      PROVE h[s] = IF s = {} THEN 0
                   ELSE score[CHOOSE x \in s : TRUE] + h[s \ {CHOOSE x \in s : TRUE}]
  <2>. HIDE DEF h
  <2>. QED  BY <1>4
<1>. HIDE DEF h, It
<1>. DEFINE A == {n \in Nat : \A s \in SUBSET S : Cardinality(s) = n => h[s] = g[s]}
<1>7. 0 \in A
  <2>1. ASSUME NEW s \in SUBSET S, Cardinality(s) = 0 PROVE h[s] = g[s]
    <3>1. s = {}
      BY <1>1, <2>1, FS_EmptySet
    <3>2. Pieces(score, {}) = {}
      BY DEF Pieces
    <3>. QED  BY <1>6, <3>1, <3>2, FS_EmptySet
  <2>. QED  BY <2>1
<1>8. ASSUME NEW n \in Nat, n \in A PROVE n + 1 \in A
  <2>1. ASSUME NEW s \in SUBSET S, Cardinality(s) = n + 1 PROVE h[s] = g[s]
    <3>1. IsFiniteSet(s) /\ s # {}
      BY <1>1, <2>1, FS_EmptySet
    <3>2. PICK x \in s : x = CHOOSE y \in s : TRUE
      BY <3>1
    <3>3. h[s] = score[x] + h[s \ {x}]
      BY <1>6, <3>1, <3>2
    <3>4. Cardinality(s \ {x}) = n
      <4>1. Cardinality(s \ {x}) = Cardinality(s) - 1
        BY <3>1, FS_RemoveElement
      <4>. QED  BY <2>1, <4>1
    <3>5. h[s \ {x}] = g[s \ {x}]
      BY <1>8, <3>4
    <3>. QED  BY <1>2, <3>1, <3>3, <3>5
  <2>2. n + 1 \in Nat
    OBVIOUS
  <2>. HIDE DEF g
  <2>. QED  BY <2>1, <2>2
<1>9. Cardinality(S) \in A
  <2>. HIDE DEF A
  <2>1. Nat \subseteq A
    BY <1>7, <1>8, SetInduction
  <2>. QED  BY <2>1, FS_CardinalityType
<1>. QED  BY <1>5, <1>9

-----------------------------------------------------------------------------
(* The counters of the match under way, and the best score of the day. *)
Scored == {p \in Players : playedIn[p][1] > 0}

ScoreInv ==
  /\ capitals_runs = Cardinality(Pieces(score, TeamOf(match + 1, "capitals")))
  /\ titans_runs = Cardinality(Pieces(score, TeamOf(match + 1, "titans")))
  /\ max_indiv_score \in {0} \cup {score[p] : p \in Scored}
  /\ \A p \in Scored : score[p] <= max_indiv_score

(* At the start.                                                             *)
LEMMA InitScoreInv == Init => ScoreInv
<1>. SUFFICES ASSUME Init PROVE ScoreInv
  OBVIOUS
<1>1. \A team \in {"capitals", "titans"} : TeamOf(match + 1, team) = {}
  BY DEF Init, TeamOf
<1>2. Pieces(score, {}) = {}
  BY DEF Pieces
<1>3. Scored = {}
  BY DEF Init, Scored
<1>. QED  BY <1>1, <1>2, <1>3, FS_EmptySet DEF Init, ScoreInv

(* Steps in which nobody plays and no match ends. *)
LEMMA SameScores ==
  ASSUME ScoreInv, UNCHANGED <<capitals_runs, titans_runs, max_indiv_score, match, history>>
  PROVE ScoreInv'
<1>1. Scored' = Scored /\ \A i, team : TeamOf(i, team)' = TeamOf(i, team)
  BY DEF Scored, TeamOf, history
<1>2. \A i, team : Pieces(score, TeamOf(i, team))' = Pieces(score, TeamOf(i, team))
  BY <1>1 DEF history, Pieces
<1>. QED  BY <1>1, <1>2 DEF ScoreInv, history

(* A player's runs go to one team and to the match.                          *)
LEMMA PlayScores ==
  ASSUME IInv, ScoreInv, NEW p \in Players, PlayerPlay(p)
  PROVE ScoreInv'
<1>. USE Constants DEF IInv, TypeOK
<1>1. \A q \in Players : score[q] \in Nat
  OBVIOUS
<1>2. ASSUME NEW m, m = match + 1,
             NEW te, te = IF capitals_counter < Team THEN "capitals" ELSE "titans"
      PROVE ScoreInv'
  <2>1. /\ pc[p] = "test" /\ match' = match /\ score' = score
        /\ playedIn' = [playedIn EXCEPT ![p] = <<m, te>>]
        /\ max_indiv_score' = MaxOf(max_indiv_score, score[p])
    BY <1>2 DEF PlayerPlay
  <2>2. /\ capitals_runs' = IF te = "capitals" THEN capitals_runs + score[p] ELSE capitals_runs
        /\ titans_runs' = IF te = "titans" THEN titans_runs + score[p] ELSE titans_runs
    BY <1>2 DEF PlayerPlay
  <2>3. playedIn[p] = <<0, "none">>
    BY <2>1 DEF TeamInv, Played
  <2>4. m \in Nat /\ te \in {"capitals", "titans"}
    BY <1>2
  <2>5. /\ TeamOf(m, te)' = TeamOf(m, te) \cup {p} /\ p \notin TeamOf(m, te)
        /\ \A u \in {"capitals", "titans"} : u # te => TeamOf(m, u)' = TeamOf(m, u)
    <3>1. TypeOK
      OBVIOUS
    <3>2. playedIn' = [playedIn EXCEPT ![p] = <<m, te>>]
      BY <2>1
    <3>. HIDE Constants DEF IInv, TypeOK
    <3>3. ASSUME NEW u \in {"capitals", "titans"}, u # te PROVE TeamOf(m, u)' = TeamOf(m, u)
      <4>1. \A q \in Players : playedIn'[q] = IF q = p THEN <<m, te>> ELSE playedIn[q]
        BY <3>1, <3>2 DEF TypeOK
      <4>2. ASSUME NEW q \in Players PROVE playedIn'[q] = <<m, u>> <=> playedIn[q] = <<m, u>>
        BY <2>3, <3>3, <4>1
      <4>. QED  BY <4>2 DEF TeamOf
    <3>4. TeamOf(m, te)' = TeamOf(m, te) \cup {p} /\ p \notin TeamOf(m, te)
      BY <2>3, <2>4, <3>1, <3>2, Join
    <3>. QED  BY <3>3, <3>4
  <2>6. Cardinality(Pieces(score, TeamOf(m, te) \cup {p})) = Cardinality(Pieces(score, TeamOf(m, te))) + score[p]
    <3>1. IsFiniteSet(TeamOf(m, te)) /\ \A q \in TeamOf(m, te) : score[q] \in Nat
      <4>1. TeamOf(m, te) \subseteq Players
        BY DEF TeamOf
      <4>. QED  BY <1>1, <4>1, TeamsFinite
    <3>2. IsFiniteSet(Pieces(score, TeamOf(m, te)))
      BY <3>1, PiecesFinite
    <3>. HIDE DEF IInv, TypeOK
    <3>. QED  BY <1>1, <2>5, <3>2, PiecesAdd
  <2>7. \A u : Pieces(score, TeamOf(match + 1, u))' = Pieces(score, TeamOf(m, u)')
    BY <1>2, <2>1 DEF Pieces
  <2>8. /\ capitals_runs' = Cardinality(Pieces(score, TeamOf(match + 1, "capitals")))'
        /\ titans_runs' = Cardinality(Pieces(score, TeamOf(match + 1, "titans")))'
    <3>. HIDE DEF IInv, TypeOK
    <3>1. CASE te = "capitals"
      BY <1>2, <2>2, <2>5, <2>6, <2>7, <3>1 DEF ScoreInv
    <3>2. CASE te = "titans"
      BY <1>2, <2>2, <2>5, <2>6, <2>7, <3>2 DEF ScoreInv
    <3>. QED  BY <2>4, <3>1, <3>2
  <2>9. Scored' = Scored \cup {p}
    <3>1. \A q \in Players : playedIn'[q] = IF q = p THEN <<m, te>> ELSE playedIn[q]
      BY <2>1
    <3>2. <<m, te>>[1] > 0
      BY <1>2
    <3>3. \A q \in Players : playedIn'[q][1] > 0 <=> playedIn[q][1] > 0 \/ q = p
      BY <3>1, <3>2
    <3>. QED  BY <3>3 DEF Scored
  <2>10. /\ max_indiv_score' \in {0} \cup {score'[q] : q \in Scored'}
         /\ \A q \in Scored' : score'[q] <= max_indiv_score'
    <3>1. max_indiv_score' = IF max_indiv_score >= score[p] THEN max_indiv_score ELSE score[p]
      BY <2>1 DEF MaxOf
    <3>2. score[p] \in Nat /\ max_indiv_score \in Nat /\ \A q \in Scored : score[q] \in Nat
      BY <1>1 DEF Scored
    <3>3. max_indiv_score \in {0} \cup {score[q] : q \in Scored} /\ \A q \in Scored : score[q] <= max_indiv_score
      BY DEF ScoreInv
    <3>4. score' = score
      BY <2>1
    <3>. HIDE DEF IInv, TypeOK
    <3>. QED  BY <2>9, <3>1, <3>2, <3>3, <3>4
  <2>. QED  BY <2>8, <2>10 DEF ScoreInv
<1>. QED  BY <1>2

(* Runs are counted at every step.                                           *)
LEMMA ScoreStep == ASSUME IInv, ScoreInv, [Next]_vars PROVE ScoreInv'
<1>. USE DEF gameVars, dayVars
<1>1. ASSUME NEW t \in Threads, TakeLock(t) PROVE ScoreInv'
  BY <1>1, SameScores DEF TakeLock
<1>2. ASSUME NEW p \in Players, PlayerWait(p) \/ PlayerUnlock(p) PROVE ScoreInv'
  BY <1>2, SameScores DEF PlayerWait, PlayerUnlock
<1>3. CASE GameWait \/ GameSignal
  BY <1>3, SameScores DEF GameWait, GameSignal
<1>4. CASE GameUnlock \/ GameJoin
  BY <1>4, SameScores DEF GameUnlock, GameJoin
<1>5. ASSUME NEW t \in Threads, Spurious(t) PROVE ScoreInv'
  BY <1>5, SameScores DEF Spurious
<1>6. CASE UNCHANGED vars
  BY <1>6, SameScores DEF vars
<1>7. CASE GameMatch
  <2>1. /\ capitals_runs' = 0 /\ titans_runs' = 0 /\ match' = match + 1
        /\ UNCHANGED <<max_indiv_score, score, playedIn>>
    BY <1>7 DEF GameMatch
  <2>2. match' + 1 = match + 2 /\ \A p \in Players : playedIn[p][1] <= match + 1
    BY <2>1 DEF IInv, TypeOK, TeamInv
  <2>3. \A team \in {"capitals", "titans"} : TeamOf(match + 1, team)' = {}
    <3>1. ASSUME NEW team \in {"capitals", "titans"}, NEW p \in Players, playedIn[p] = <<match + 2, team>>
          PROVE FALSE
      <4>1. playedIn[p][1] = match + 2 /\ match \in Nat
        BY <3>1, Constants DEF IInv, TypeOK
      <4>. QED  BY <2>2, <4>1
    <3>. QED  BY <2>1, <2>2, <3>1 DEF TeamOf
  <2>4. Pieces(score', {}) = {}
    BY DEF Pieces
  <2>5. /\ Cardinality(Pieces(score, TeamOf(match + 1, "capitals")))' = 0
        /\ Cardinality(Pieces(score, TeamOf(match + 1, "titans")))' = 0
    BY <2>3, <2>4, FS_EmptySet
  <2>6. Scored' = Scored
    BY <2>1 DEF Scored
  <2>. QED  BY <2>1, <2>5, <2>6 DEF ScoreInv
<1>. QED
  BY <1>1, <1>2, <1>3, <1>4, <1>5, <1>6, <1>7, PlayScores, Constants DEF Next, GameStep, PlayerStep

-----------------------------------------------------------------------------
(* The summary of the day. *)
Sum(i, team) == Cardinality(Pieces(score, TeamOf(i, team)))

\* Who has played in a match that has ended.
ScoredBefore == {p \in Players : playedIn[p][1] \in 1..match}

Sums == {Sum(i, team) : i \in 1..match, team \in Teams}

DayInv ==
  /\ max_team_score \in {0} \cup Sums /\ \A n \in Sums : n <= max_team_score
  /\ max_individual_score \in {0} \cup {score[p] : p \in ScoredBefore}
  /\ \A p \in ScoredBefore : score[p] <= max_individual_score
  /\ capitals_wins = Cardinality({i \in 1..match : Sum(i, "capitals") > Sum(i, "titans")})
  /\ titans_wins = Cardinality({i \in 1..match : Sum(i, "capitals") < Sum(i, "titans")})

(* At the start.                                                             *)
LEMMA InitDayInv == Init => DayInv
<1>. SUFFICES ASSUME Init PROVE DayInv
  OBVIOUS
<1>1. 1..match = {}
  BY DEF Init
<1>2. ScoredBefore = {} /\ Sums = {}
  BY <1>1 DEF ScoredBefore, Sums
<1>4. /\ {i \in 1..match : Sum(i, "capitals") > Sum(i, "titans")} = {}
      /\ {i \in 1..match : Sum(i, "capitals") < Sum(i, "titans")} = {}
  BY <1>1
<1>. QED  BY <1>2, <1>4, FS_EmptySet DEF Init, DayInv

(* Steps that leave the matches that have ended alone. *)
LEMMA SameDay ==
  ASSUME DayInv, UNCHANGED <<dayVars, match, score>>, ScoredBefore' = ScoredBefore,
         \A i \in 1..match, team \in Teams : TeamOf(i, team)' = TeamOf(i, team)
  PROVE DayInv'
<1>1. \A i \in 1..match, team \in Teams : Sum(i, team)' = Sum(i, team)
  BY DEF Sum, Pieces
<1>2. Sums' = Sums
  BY <1>1 DEF Sums
<1>3. /\ {i \in 1..match : Sum(i, "capitals") > Sum(i, "titans")}'
           = {i \in 1..match : Sum(i, "capitals") > Sum(i, "titans")}
      /\ {i \in 1..match : Sum(i, "capitals") < Sum(i, "titans")}'
           = {i \in 1..match : Sum(i, "capitals") < Sum(i, "titans")}
  BY <1>1 DEF Teams
<1>. QED  BY <1>2, <1>3 DEF DayInv, dayVars

(* Nobody plays and no match ends. *)
LEMMA SameDayQuiet ==
  ASSUME DayInv, UNCHANGED <<dayVars, match, history>> PROVE DayInv'
<1>1. ScoredBefore' = ScoredBefore /\ \A i, team : TeamOf(i, team)' = TeamOf(i, team)
  BY DEF ScoredBefore, TeamOf, history
<1>. QED  BY <1>1, SameDay DEF history

(* A player plays in the match under way. *)
LEMMA PlayDay ==
  ASSUME IInv, DayInv, NEW p \in Players, PlayerPlay(p) PROVE DayInv'
<1>. USE Constants DEF IInv, TypeOK
<1>1. PICK te \in Teams : playedIn' = [playedIn EXCEPT ![p] = <<match + 1, te>>]
  BY DEF PlayerPlay, Teams
<1>2. playedIn[p] = <<0, "none">> /\ UNCHANGED <<dayVars, match, score>>
  BY DEF PlayerPlay, TeamInv, Played
<1>3. \A q \in Players : playedIn'[q] = IF q = p THEN <<match + 1, te>> ELSE playedIn[q]
  BY <1>1
<1>4. ASSUME NEW q \in Players
      PROVE /\ playedIn'[q][1] \in 1..match <=> playedIn[q][1] \in 1..match
            /\ \A i \in 1..match, team \in Teams : playedIn'[q] = <<i, team>> <=> playedIn[q] = <<i, team>>
  <2>1. CASE q = p
    <3>1. playedIn'[q] = <<match + 1, te>> /\ playedIn[q] = <<0, "none">>
      BY <1>2, <1>3, <2>1
    <3>2. match + 1 \notin 1..match /\ 0 \notin 1..match
      OBVIOUS
    <3>. QED  BY <3>1, <3>2
  <2>2. CASE q # p
    BY <1>3, <2>2
  <2>. QED  BY <2>1, <2>2
<1>5. ScoredBefore' = ScoredBefore
  BY <1>2, <1>4 DEF ScoredBefore
<1>6. \A i \in 1..match, team \in Teams : TeamOf(i, team)' = TeamOf(i, team)
  BY <1>4 DEF TeamOf
<1>. QED  BY <1>2, <1>5, <1>6, SameDay

(* The sums are numbers. *)
LEMMA SumTyped == ASSUME TypeOK, NEW i, NEW team PROVE Sum(i, team) \in Nat
<1>1. \A p \in TeamOf(i, team) : score[p] \in Nat
  BY Constants DEF TypeOK, TeamOf
<1>. QED  BY <1>1, TeamsFinite, PiecesFinite DEF Sum

(* How many of the matches are counted, when one more ends. *)
LEMMA CountOneMore ==
  ASSUME NEW m \in Nat, NEW S \in SUBSET (1..m), NEW T,
         T = S \/ T = S \cup {m + 1}
  PROVE Cardinality(T) = IF m + 1 \in T THEN Cardinality(S) + 1 ELSE Cardinality(S)
<1>1. IsFiniteSet(1..m)
  BY FS_Interval
<1>2. IsFiniteSet(S)
  BY <1>1, FS_Subset
<1>3. m + 1 \notin S
  OBVIOUS
<1>4. Cardinality(S \cup {m + 1}) = Cardinality(S) + 1
  BY <1>2, <1>3, FS_AddElement
<1>. QED  BY <1>3, <1>4

(* A match ends and is summed up. *)
LEMMA MatchDay ==
  ASSUME IInv, ScoreInv, DayInv, GameMatch PROVE DayInv'
<1>. USE Constants DEF IInv, TypeOK
<1>. DEFINE m == match + 1
<1>1. match' = m /\ UNCHANGED <<score, playedIn>> /\ SumUp /\ match \in Nat
  BY DEF GameMatch
<1>2. \A i, team : Sum(i, team)' = Sum(i, team)
  BY <1>1 DEF Sum, Pieces, TeamOf
<1>3. 1..match' = (1..match) \cup {m}
  BY <1>1
<1>4. capitals_runs = Sum(m, "capitals") /\ titans_runs = Sum(m, "titans")
  BY DEF ScoreInv, Sum
<1>5. Sums' = Sums \cup {capitals_runs, titans_runs}
  <2>1. Sums' = {Sum(i, team) : i \in (1..match) \cup {m}, team \in Teams}
    BY <1>2, <1>3 DEF Sums
  <2>. HIDE DEF m
  <2>2. {Sum(i, team) : i \in (1..match) \cup {m}, team \in Teams}
          = Sums \cup {Sum(m, team) : team \in Teams}
    <3>1. ASSUME NEW i \in (1..match) \cup {m}, NEW team \in Teams
          PROVE Sum(i, team) \in Sums \cup {Sum(m, t) : t \in Teams}
      BY DEF Sums
    <3>2. ASSUME NEW n \in Sums
          PROVE n \in {Sum(i, team) : i \in (1..match) \cup {m}, team \in Teams}
      BY DEF Sums
    <3>3. ASSUME NEW t \in Teams
          PROVE Sum(m, t) \in {Sum(i, team) : i \in (1..match) \cup {m}, team \in Teams}
      OBVIOUS
    <3>. HIDE DEF Sums
    <3>. QED  BY <3>1, <3>2, <3>3
  <2>3. {Sum(m, team) : team \in Teams} = {Sum(m, "capitals"), Sum(m, "titans")}
    BY DEF Teams
  <2>. QED  BY <1>4, <2>1, <2>2, <2>3
<1>6. ScoredBefore' = Scored
  <2>1. ASSUME NEW p \in Players PROVE playedIn[p][1] \in 1..m <=> playedIn[p][1] > 0
    <3>1. playedIn[p][1] \in Nat /\ playedIn[p][1] <= m
      BY DEF TeamInv
    <3>. QED  BY <1>1, <3>1
  <2>. QED  BY <1>1, <2>1 DEF ScoredBefore, Scored
<1>7. /\ \A n \in Sums : n \in Nat
      /\ \A p \in Scored : score[p] \in Nat
      /\ ScoredBefore \subseteq Scored
  <2>1. \A n \in Sums : n \in Nat
    BY SumTyped DEF Sums
  <2>2. \A p \in Players : playedIn[p][1] \in 1..match => playedIn[p][1] > 0
    BY <1>1
  <2>. QED  BY <2>1, <2>2 DEF Scored, ScoredBefore
<1>8. /\ max_team_score' = MaxOf(max_team_score, MaxOf(capitals_runs, titans_runs))
      /\ max_individual_score' = MaxOf(max_individual_score, max_indiv_score)
      /\ capitals_wins' = IF capitals_runs > titans_runs THEN capitals_wins + 1 ELSE capitals_wins
      /\ titans_wins' = IF capitals_runs < titans_runs THEN titans_wins + 1 ELSE titans_wins
  BY <1>1 DEF SumUp
<1>9. max_team_score' \in {0} \cup Sums' /\ \A n \in Sums' : n <= max_team_score'
  <2>1. max_team_score \in {0} \cup Sums /\ \A n \in Sums : n <= max_team_score
    BY DEF DayInv
  <2>2. max_team_score \in Nat /\ capitals_runs \in Nat /\ titans_runs \in Nat
    OBVIOUS
  <2>. HIDE DEF IInv, TypeOK
  <2>. QED  BY <1>5, <1>7, <1>8, <2>1, <2>2 DEF MaxOf
<1>10. /\ max_individual_score' \in {0} \cup {score'[p] : p \in ScoredBefore'}
       /\ \A p \in ScoredBefore' : score'[p] <= max_individual_score'
  <2>1. /\ max_individual_score \in {0} \cup {score[p] : p \in ScoredBefore}
        /\ max_indiv_score \in {0} \cup {score[p] : p \in Scored}
        /\ \A p \in Scored : score[p] <= max_indiv_score
    BY DEF DayInv, ScoreInv
  <2>2. max_individual_score \in Nat /\ max_indiv_score \in Nat /\ score' = score
    BY <1>1
  <2>3. max_individual_score \in {0} \cup {score[p] : p \in Scored}
    BY <1>7, <2>1
  <2>. HIDE DEF IInv, TypeOK
  <2>. QED  BY <1>6, <1>7, <1>8, <2>1, <2>2, <2>3 DEF MaxOf
<1>11. capitals_wins' = Cardinality({i \in 1..match : Sum(i, "capitals") > Sum(i, "titans")})'
  <2>. DEFINE S == {i \in 1..match : Sum(i, "capitals") > Sum(i, "titans")}
              T == {i \in (1..match) \cup {m} : Sum(i, "capitals") > Sum(i, "titans")}
  <2>1. {i \in 1..match : Sum(i, "capitals") > Sum(i, "titans")}' = T
    BY <1>2, <1>3
  <2>2. T = IF capitals_runs > titans_runs THEN S \cup {m} ELSE S
    BY <1>4
  <2>3. m \in T <=> capitals_runs > titans_runs
    BY <1>4
  <2>4. Cardinality(T) = IF m \in T THEN Cardinality(S) + 1 ELSE Cardinality(S)
    <3>1. S \in SUBSET (1..match) /\ (T = S \/ T = S \cup {match + 1})
      BY <2>2
    <3>. HIDE DEF S, T
    <3>. QED  BY <1>1, <3>1, CountOneMore
  <2>5. capitals_wins = Cardinality(S)
    BY DEF DayInv
  <2>. HIDE DEF S, T, m, IInv, TypeOK
  <2>. QED  BY <1>8, <2>1, <2>3, <2>4, <2>5
<1>12. titans_wins' = Cardinality({i \in 1..match : Sum(i, "capitals") < Sum(i, "titans")})'
  <2>. DEFINE S == {i \in 1..match : Sum(i, "capitals") < Sum(i, "titans")}
              T == {i \in (1..match) \cup {m} : Sum(i, "capitals") < Sum(i, "titans")}
  <2>1. {i \in 1..match : Sum(i, "capitals") < Sum(i, "titans")}' = T
    BY <1>2, <1>3
  <2>2. T = IF capitals_runs < titans_runs THEN S \cup {m} ELSE S
    BY <1>4
  <2>3. m \in T <=> capitals_runs < titans_runs
    BY <1>4
  <2>4. Cardinality(T) = IF m \in T THEN Cardinality(S) + 1 ELSE Cardinality(S)
    <3>1. S \in SUBSET (1..match) /\ (T = S \/ T = S \cup {match + 1})
      BY <2>2
    <3>. HIDE DEF S, T
    <3>. QED  BY <1>1, <3>1, CountOneMore
  <2>5. titans_wins = Cardinality(S)
    BY DEF DayInv
  <2>. HIDE DEF S, T, m, IInv, TypeOK
  <2>. QED  BY <1>8, <2>1, <2>3, <2>4, <2>5
<1>. QED  BY <1>9, <1>10, <1>11, <1>12 DEF DayInv

(* The summary is right at every step. *)
LEMMA DayStep == ASSUME IInv, ScoreInv, DayInv, [Next]_vars PROVE DayInv'
<1>. USE DEF gameVars
<1>1. ASSUME NEW t \in Threads, TakeLock(t) PROVE DayInv'
  BY <1>1, SameDayQuiet DEF TakeLock
<1>2. ASSUME NEW p \in Players, PlayerWait(p) \/ PlayerUnlock(p) PROVE DayInv'
  BY <1>2, SameDayQuiet DEF PlayerWait, PlayerUnlock
<1>3. CASE GameWait \/ GameSignal
  BY <1>3, SameDayQuiet DEF GameWait, GameSignal
<1>4. CASE GameUnlock \/ GameJoin
  BY <1>4, SameDayQuiet DEF GameUnlock, GameJoin
<1>5. ASSUME NEW t \in Threads, Spurious(t) PROVE DayInv'
  BY <1>5, SameDayQuiet DEF Spurious
<1>6. CASE UNCHANGED vars
  BY <1>6, SameDayQuiet DEF vars
<1>. QED
  BY <1>1, <1>2, <1>3, <1>4, <1>5, <1>6, PlayDay, MatchDay, Constants DEF Next, GameStep, PlayerStep

(* The largest element.                                                      *)
LEMMA MaxUnique ==
  ASSUME NEW S \in SUBSET Nat, NEW m \in S, \A x \in S : x <= m
  PROVE Max(S) = m
<1>1. \A x \in S : m >= x
  OBVIOUS
<1>2. \A y \in S : (\A x \in S : y >= x) => y = m
  OBVIOUS
<1>3. Max(S) \in S /\ \A x \in S : Max(S) >= x
  BY <1>1, Zenon DEF Max
<1>. QED  BY <1>2, <1>3

(* What is counted for a match is as many players as have entered, with the sum of their   *)
(* scores as runs, however they interleave with newcomers; and the summary of the day is    *)
(* that of its matches.                                                                    *)
THEOREM RunsCounted == Spec => []SummariesRight
<1>0. ASSUME TypeOK, NEW i, NEW team PROVE Runs(TeamOf(i, team)) = Sum(i, team)
  <2>1. \A p \in Players : score[p] \in Nat
    BY <1>0, Constants DEF TypeOK
  <2>2. IsFiniteSet(TeamOf(i, team)) /\ \A p \in TeamOf(i, team) : score[p] \in Nat
    BY <2>1, TeamsFinite DEF TeamOf
  <2>. QED  BY <2>2, RunsSum DEF Sum
<1>1. ASSUME IInv, ScoreInv PROVE RunsOfMatch
  <2>1. /\ Cardinality(TeamOf(match + 1, "capitals")) = capitals_counter
        /\ Cardinality(TeamOf(match + 1, "titans")) = titans_counter
    BY <1>1 DEF IInv, TeamInv
  <2>. QED  BY <1>0, <1>1, <2>1 DEF RunsOfMatch, ScoreInv, Sum, IInv
<1>2. ASSUME IInv, DayInv PROVE RunsOfDay
  <2>0. TypeOK
    BY <1>2 DEF IInv
  <2>1. \A i, team : Runs(TeamOf(i, team)) = Sum(i, team)
    BY <1>0, <2>0
  <2>2. max_team_score = Max({0} \cup Sums)
    <3>. DEFINE S == {0} \cup Sums
    <3>1. S \in SUBSET Nat
      BY <2>0, SumTyped DEF Sums
    <3>2. max_team_score \in S /\ \A x \in S : x <= max_team_score
      BY <1>2 DEF DayInv, IInv, TypeOK
    <3>. HIDE DEF S
    <3>3. Max(S) = max_team_score
      BY <3>1, <3>2, MaxUnique
    <3>. QED  BY <3>3 DEF S
  <2>3. max_individual_score = Max({0} \cup {score[p] : p \in ScoredBefore})
    <3>. DEFINE S == {0} \cup {score[p] : p \in ScoredBefore}
    <3>0. \A p \in Players : score[p] \in Nat
      BY <2>0, Constants DEF TypeOK
    <3>1. S \in SUBSET Nat
      BY <3>0 DEF ScoredBefore
    <3>2. max_individual_score \in S /\ \A x \in S : x <= max_individual_score
      BY <1>2 DEF DayInv, IInv, TypeOK
    <3>. HIDE DEF S
    <3>3. Max(S) = max_individual_score
      BY <3>1, <3>2, MaxUnique
    <3>. QED  BY <3>3 DEF S
  <2>. DEFINE Q == {score[p] : p \in {q \in Players : playedIn[q][1] \in 1..match}}
              C == {i \in 1..match : Runs(TeamOf(i, "capitals")) > Runs(TeamOf(i, "titans"))}
              T == {i \in 1..match : Runs(TeamOf(i, "capitals")) < Runs(TeamOf(i, "titans"))}
  <2>4. TeamScores = Sums /\ Q = {score[p] : p \in ScoredBefore}
    BY <2>1 DEF TeamScores, Sums, ScoredBefore
  <2>5. /\ C = {i \in 1..match : Sum(i, "capitals") > Sum(i, "titans")}
        /\ T = {i \in 1..match : Sum(i, "capitals") < Sum(i, "titans")}
    BY <2>1
  <2>6. /\ capitals_wins = Cardinality({i \in 1..match : Sum(i, "capitals") > Sum(i, "titans")})
        /\ titans_wins = Cardinality({i \in 1..match : Sum(i, "capitals") < Sum(i, "titans")})
    BY <1>2 DEF DayInv
  <2>. HIDE DEF Q, C, T
  <2>7. /\ max_team_score = Max({0} \cup TeamScores) /\ max_individual_score = Max({0} \cup Q)
        /\ capitals_wins = Cardinality(C) /\ titans_wins = Cardinality(T)
    BY <2>2, <2>3, <2>4, <2>5, <2>6
  <2>. QED  BY <2>7, Zenon DEF RunsOfDay, Q, C, T
<1>3. IInv /\ ScoreInv /\ [Next]_vars => ScoreInv'
  BY ScoreStep
<1>4. IInv /\ ScoreInv /\ DayInv /\ [Next]_vars => DayInv'
  BY DayStep
<1>5. IInv /\ ScoreInv /\ DayInv => SummariesRight
  BY <1>1, <1>2 DEF SummariesRight
<1>. QED  BY <1>3, <1>4, <1>5, InitScoreInv, InitDayInv, Invariance, PTL DEF Spec
=============================================================================
