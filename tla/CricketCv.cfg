SPECIFICATION FairSpec
CONSTANTS
  Game = Game
  NoThread = NoThread
  NoCond = NoCond
  Mutexes = {"counters_runs_lock"}
  Conds = {"can_enter", "match_done"}
  Threads = {Game, a, b, c, d}
  Team = 1
  Matches = 2
  Scores = {0, 1}
INVARIANTS SummariesRight TeamsComplete
PROPERTY Terminates
CHECK_DEADLOCK FALSE
