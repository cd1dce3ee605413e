\* Expected to be violated: "play again" fails, and "retry" is of no use.
SPECIFICATION Spec
CONSTANTS
  Req = {q1, q2}
  SURVIVAL_LIVES = 1
  BOSS_ROUND_SIZE = 1
  DAILY_20_ROUND_SIZE = 2
  ROUND_MAX_ANSWERS = 3
  SprintDurations = {1}
  ROUND_LENGTH = 2
  Picked <- MCPicked
  Verdicts = {"CORRECT", "INCORRECT"}
  Latencies = {l1, l2}
  MaxRounds = 2
  MaxTime = 1
  NoRound = NoRound
  NoReq = NoReq
  Null = Null
INVARIANTS
  ErrorsRecover
CHECK_DEADLOCK FALSE
