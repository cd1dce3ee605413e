\* Two submissions that overlap on one round, a crash, a deadline.
SPECIFICATION FairSpec
CONSTANTS
  RoundId = {r1}
  Req = {q1, q2}
  Key <- MCKey
  Evaluate <- MCEvaluate
  Judgments <- MCJudgments
  Jobs <- WebJobs
  NoRound = NoRound
  NoGrade = NoGrade
  NoJob = NoJob
  SURVIVAL_LIVES = 1
  BOSS_ROUND_SIZE = 1
  DAILY_20_ROUND_SIZE = 1
  ROUND_MAX_ANSWERS = 2
  SprintDurations = {1}
  MaxTime = 1
  MaxCrashes = 1
  BrokerMayFail = FALSE
INVARIANTS
  TypeOK
  RoundsLegal
  AnswersKept
  EventsAccountForGrades
PROPERTIES
  RoundTermsFixed
  EverySubmissionEnds
CHECK_DEADLOCK FALSE
