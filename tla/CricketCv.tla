------------------------------ MODULE CricketCv ------------------------------
(***************************************************************************)
(* lab7's cricket matches with a mutex and condition variables,            *)
(* 200050157_lab7/cricket-cv-mutex.c.  All players of the day start at once *)
(* and enter the two teams as they come; the game thread ends a match when  *)
(* both teams are complete and lets the next players in with one signal for *)
(* each place.                                                             *)
(***************************************************************************)
EXTENDS Pthreads, Integers, FiniteSets, FiniteSetsExt

CONSTANTS
  Game,       \* the thread of game_fn()
  Team,       \* players in a team, 11 in the code
  Matches,    \* num_matches
  Scores      \* what rand() % 101 may give

Players == Threads \ {Game}

ASSUME CricketCvAssumption ==
  /\ Game \in Threads
  /\ Team \in Nat \ {0}
  /\ Matches \in Nat
  /\ IsFiniteSet(Players)
  /\ Cardinality(Players) = 2 * Team * Matches
  /\ Scores \subseteq Nat
  /\ Mutexes = {"counters_runs_lock"}
  /\ Conds = {"can_enter", "match_done"}

VARIABLES
  capitals_counter, titans_counter,
  capitals_runs, titans_runs, max_indiv_score,
  max_team_score, max_individual_score,    \* of the day
  capitals_wins, titans_wins,
  pc,
  match,      \* how many matches the game thread has ended
  signals,    \* signals of can_enter it has still to give
  score,      \* score[p], drawn when p starts
  playedIn    \* playedIn[p]: the match and team of p, or <<0, "none">>

dayVars == <<max_team_score, max_individual_score, capitals_wins, titans_wins>>
gameVars == <<capitals_counter, titans_counter, capitals_runs, titans_runs, max_indiv_score, dayVars>>
history == <<score, playedIn>>
vars == <<ptVars, gameVars, pc, match, signals, history>>

TypeOK ==
  /\ PtTypeOK
  /\ capitals_counter \in 0..Team
  /\ titans_counter \in 0..Team
  /\ capitals_runs \in Nat /\ titans_runs \in Nat /\ max_indiv_score \in Nat
  /\ max_team_score \in Nat /\ max_individual_score \in Nat
  /\ capitals_wins \in Nat /\ titans_wins \in Nat
  /\ pc \in [Threads -> {"lock", "test", "waiting", "unlock", "signal", "join", "done"}]
  /\ match \in 0..Matches
  /\ signals \in 0..(2 * Team)
  /\ score \in [Players -> Scores]
  /\ playedIn \in [Players -> (0..Matches) \X {"none", "capitals", "titans"}]

Init ==
  /\ PtInit
  /\ capitals_counter = 0 /\ titans_counter = 0
  /\ capitals_runs = 0 /\ titans_runs = 0 /\ max_indiv_score = 0
  /\ max_team_score = 0 /\ max_individual_score = 0
  /\ capitals_wins = 0 /\ titans_wins = 0
  /\ pc = [t \in Threads |-> IF t = Game /\ Matches = 0 THEN "join" ELSE "lock"]
  /\ match = 0
  /\ signals = 0
  /\ score \in [Players -> Scores]
  /\ playedIn = [p \in Players |-> <<0, "none">>]

Goto(t, l) == pc' = [pc EXCEPT ![t] = l]

MaxOf(a, b) == IF a >= b THEN a ELSE b

(* pthread_mutex_lock(), or the return from pthread_cond_wait(). *)
TakeLock(t) ==
  /\ pc[t] \in {"lock", "waiting"}
  /\ Lock(t, "counters_runs_lock")
  /\ Goto(t, "test")
  /\ UNCHANGED <<waiting, gameVars, match, signals, history>>

-----------------------------------------------------------------------------
(* play() *)

Full == capitals_counter = Team /\ titans_counter = Team

PlayerWait(p) ==
  /\ pc[p] = "test"
  /\ Full
  /\ BeginWait(p, "can_enter", "counters_runs_lock")
  /\ Goto(p, "waiting")
  /\ UNCHANGED <<gameVars, match, signals, history>>

PlayerPlay(p) ==
  /\ pc[p] = "test"
  /\ ~Full
  /\ LET team == IF capitals_counter < Team THEN "capitals" ELSE "titans" IN
     /\ IF team = "capitals"
        THEN /\ capitals_counter' = capitals_counter + 1
             /\ capitals_runs' = capitals_runs + score[p]
             /\ UNCHANGED <<titans_counter, titans_runs>>
        ELSE /\ titans_counter' = titans_counter + 1
             /\ titans_runs' = titans_runs + score[p]
             /\ UNCHANGED <<capitals_counter, capitals_runs>>
     /\ playedIn' = [playedIn EXCEPT ![p] = <<match + 1, team>>]
  /\ max_indiv_score' = MaxOf(max_indiv_score, score[p])
  /\ IF capitals_counter' = Team /\ titans_counter' = Team
     THEN Signal("match_done") ELSE UNCHANGED waiting
  /\ Goto(p, "unlock")
  /\ UNCHANGED <<owner, dayVars, match, signals, score>>

PlayerUnlock(p) ==
  /\ pc[p] = "unlock"
  /\ Unlock("counters_runs_lock")
  /\ Goto(p, "done")
  /\ UNCHANGED <<waiting, gameVars, match, signals, history>>

-----------------------------------------------------------------------------
(* game_fn() *)

GameWait ==
  /\ pc[Game] = "test"
  /\ ~Full
  /\ BeginWait(Game, "match_done", "counters_runs_lock")
  /\ Goto(Game, "waiting")
  /\ UNCHANGED <<gameVars, match, signals, history>>

(* What a match adds to the summary of the day. *)
SumUp ==
  /\ max_team_score' = MaxOf(max_team_score, MaxOf(capitals_runs, titans_runs))
  /\ max_individual_score' = MaxOf(max_individual_score, max_indiv_score)
  /\ capitals_wins' = IF capitals_runs > titans_runs THEN capitals_wins + 1 ELSE capitals_wins
  /\ titans_wins' = IF capitals_runs < titans_runs THEN titans_wins + 1 ELSE titans_wins

(* Faulty variants: the game thread does not test that the teams are         *)
(* complete; a signal too few; the runs are not reset.                       *)
GameMatchAnyway ==
  /\ pc[Game] = "test"
  /\ capitals_runs' = 0 /\ titans_runs' = 0
  /\ capitals_counter' = 0 /\ titans_counter' = 0
  /\ match' = match + 1
  /\ signals' = 2 * Team
  /\ SumUp
  /\ Goto(Game, "signal")
  /\ UNCHANGED <<ptVars, max_indiv_score, score, playedIn>>

GameMatchFewSignals ==
  /\ pc[Game] = "test"
  /\ Full
  /\ capitals_runs' = 0 /\ titans_runs' = 0
  /\ capitals_counter' = 0 /\ titans_counter' = 0
  /\ match' = match + 1
  /\ signals' = 2 * Team - 1
  /\ SumUp
  /\ Goto(Game, "signal")
  /\ UNCHANGED <<ptVars, max_indiv_score, score, playedIn>>

GameMatchNoReset ==
  /\ pc[Game] = "test"
  /\ Full
  /\ capitals_counter' = 0 /\ titans_counter' = 0
  /\ match' = match + 1
  /\ signals' = 2 * Team
  /\ SumUp
  /\ Goto(Game, "signal")
  /\ UNCHANGED <<ptVars, capitals_runs, titans_runs, max_indiv_score, score, playedIn>>

(* The summary of the match, and the reset for the next: max_indiv_score stays. *)
GameMatch ==
  /\ pc[Game] = "test"
  /\ Full
  /\ capitals_runs' = 0 /\ titans_runs' = 0
  /\ capitals_counter' = 0 /\ titans_counter' = 0
  /\ match' = match + 1
  /\ signals' = 2 * Team
  /\ SumUp
  /\ Goto(Game, "signal")
  /\ UNCHANGED <<ptVars, max_indiv_score, score, playedIn>>

GameSignal ==
  /\ pc[Game] = "signal"
  /\ signals > 0
  /\ signals' = signals - 1
  /\ Signal("can_enter")
  /\ UNCHANGED <<owner, gameVars, pc, match, history>>

GameUnlock ==
  /\ pc[Game] = "signal"
  /\ signals = 0
  /\ Unlock("counters_runs_lock")
  /\ Goto(Game, IF match = Matches THEN "join" ELSE "lock")
  /\ UNCHANGED <<waiting, gameVars, match, signals, history>>

GameJoin ==
  /\ pc[Game] = "join"
  /\ \A p \in Players : pc[p] = "done"
  /\ Goto(Game, "done")
  /\ UNCHANGED <<ptVars, gameVars, match, signals, history>>

-----------------------------------------------------------------------------
GameStep ==
  TakeLock(Game) \/ GameWait \/ GameMatch \/ GameSignal \/ GameUnlock \/ GameJoin

PlayerStep(p) == TakeLock(p) \/ PlayerWait(p) \/ PlayerPlay(p) \/ PlayerUnlock(p)

Spurious(t) == SpuriousWakeup(t) /\ UNCHANGED <<gameVars, pc, match, signals, history>>

Next ==
  \/ GameStep
  \/ \E p \in Players : PlayerStep(p)
  \/ \E t \in Threads : Spurious(t)

Spec == Init /\ [][Next]_vars

(* Every thread runs and gets a mutex that is free again and again; a wait   *)
(* need not end without a signal.                                            *)
Fairness == SF_vars(GameStep) /\ \A p \in Players : SF_vars(PlayerStep(p))

FairSpec == Spec /\ Fairness

-----------------------------------------------------------------------------
TeamOf(i, team) == {p \in Players : playedIn[p] = <<i, team>>}

Runs(S) == FoldSet(LAMBDA p, r : score[p] + r, 0, S)

Teams == {"capitals", "titans"}

(* The match under way is counted right: no player is counted in two         *)
(* matches, late ones do not slip into a complete team, and the runs are     *)
(* those of the players counted.                                             *)
RunsOfMatch ==
  /\ Cardinality(TeamOf(match + 1, "capitals")) = capitals_counter
  /\ Cardinality(TeamOf(match + 1, "titans")) = titans_counter
  /\ capitals_runs = Runs(TeamOf(match + 1, "capitals"))
  /\ titans_runs = Runs(TeamOf(match + 1, "titans"))

TeamScores == {Runs(TeamOf(i, team)) : i \in 1..match, team \in Teams}

(* The summary of the day is that of the matches ended: the best team, the    *)
(* best player, and who won how often.                                       *)
RunsOfDay ==
  /\ max_team_score = Max({0} \cup TeamScores)
  /\ max_individual_score = Max({0} \cup {score[p] : p \in {q \in Players : playedIn[q][1] \in 1..match}})
  /\ capitals_wins = Cardinality({i \in 1..match : Runs(TeamOf(i, "capitals")) > Runs(TeamOf(i, "titans"))})
  /\ titans_wins = Cardinality({i \in 1..match : Runs(TeamOf(i, "capitals")) < Runs(TeamOf(i, "titans"))})

(* What the game thread prints of teams and of the day is right, in whatever  *)
(* order players of this match and the next get the mutex.                   *)
SummariesRight == RunsOfMatch /\ RunsOfDay

(* Every match that has been summed up was played by two complete teams.     *)
TeamsComplete ==
  \A i \in 1..match : \A team \in Teams : Cardinality(TeamOf(i, team)) = Team

(* All matches are played and all players come home: 22 signals, to whoever  *)
(* waits, are enough even when newcomers take the places of those woken.     *)
Terminates == <>(pc[Game] = "done")

-----------------------------------------------------------------------------
(* The inductive invariant *)

(* Who is where, and who has the lock. *)
LockInv ==
  /\ pc[Game] \in {"lock", "test", "waiting", "signal", "join", "done"}
  /\ owner["counters_runs_lock"] = Game <=> pc[Game] \in {"test", "signal"}
  /\ pc[Game] \in {"lock", "test", "waiting"} => match < Matches
  /\ \A p \in Players :
       /\ pc[p] \in {"lock", "test", "waiting", "unlock", "done"}
       /\ owner["counters_runs_lock"] = p <=> pc[p] \in {"test", "unlock"}

Played == {p \in Players : playedIn[p] # <<0, "none">>}

(* The teams of the matches so far, and that the day has players enough for  *)
(* no more than Matches matches.                                             *)
TeamInv ==
  /\ \A p \in Players : p \in Played <=> pc[p] \in {"unlock", "done"}
  /\ \A p \in Players : playedIn[p][1] <= match + 1
  /\ titans_counter > 0 => capitals_counter = Team
  /\ TeamsComplete
  /\ Cardinality(TeamOf(match + 1, "capitals")) = capitals_counter
  /\ Cardinality(TeamOf(match + 1, "titans")) = titans_counter
  /\ Cardinality(Played) = 2 * Team * match + capitals_counter + titans_counter

IInv == TypeOK /\ LockInv /\ TeamInv

-----------------------------------------------------------------------------
(* What the program says and does not do. *)

(* Line 12: capitals_runs, titans_runs and max_indiv_score are "in a single  *)
(* match", and line 99 prints the last among "this match's stats".  It is    *)
(* never reset, and says what the best player of the day so far has scored.  *)
MaxOfMatch ==
  max_indiv_score = Max({0} \cup {score[p] : p \in {q \in Players : playedIn[q][1] = match + 1}})
=============================================================================
