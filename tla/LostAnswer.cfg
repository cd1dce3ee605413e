\* Two overlapping submissions against "append-only".
SPECIFICATION Spec
CONSTANTS
  RoundId = {r1}
  Req = {q1, q2}
  Key <- MCKey
  Evaluate <- MCEvaluate
  Judgments <- MCJudgments
  Jobs <- WebJobs
  NoRound = NoRound
  NoGrade = NoGrade
  NoJob = NoJob
  SURVIVAL_LIVES = 1
  BOSS_ROUND_SIZE = 1
  DAILY_20_ROUND_SIZE = 1
  ROUND_MAX_ANSWERS = 2
  SprintDurations = {1}
  MaxTime = 0
  MaxCrashes = 0
  BrokerMayFail = FALSE
PROPERTIES
  AppendOnly
SYMMETRY Interchangeable
CHECK_DEADLOCK FALSE
