\* One submission at a time per round: two rounds share a grade cache.
SPECIFICATION SerialSpec
CONSTANTS
  RoundId = {r1, r2}
  Req = {q1, q2}
  Key <- MCKey
  Evaluate <- MCEvaluate
  Judgments <- MCJudgments
  Jobs <- WebJobs
  NoRound = NoRound
  NoGrade = NoGrade
  NoJob = NoJob
  SURVIVAL_LIVES = 1
  BOSS_ROUND_SIZE = 1
  DAILY_20_ROUND_SIZE = 2
  ROUND_MAX_ANSWERS = 2
  SprintDurations = {1}
  MaxTime = 1
  MaxCrashes = 1
  BrokerMayFail = FALSE
INVARIANTS
  TrustedVerdicts
  JudgedOnlyFromCache
PROPERTIES
  LogSpec
SYMMETRY Interchangeable
CHECK_DEADLOCK FALSE
