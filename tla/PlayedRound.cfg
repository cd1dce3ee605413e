\* A round of each mode over a bank of up to three terms.
SPECIFICATION Spec
CONSTANTS
  a = a
  b = b
  c = c
  d = d
  e = e
  t1 = t1
  t2 = t2
  t3 = t3
  web = web
  Letter = {a, b, c, d, e}
  Blank = Blank
  Offensive <- MCOffensive
  CONCEPT_WEIGHT = 40
  EXPANSION_WEIGHT = 30
  PURPOSE_WEIGHT = 20
  EXAMPLE_WEIGHT = 10
  STOPWORDS <- MCSTOPWORDS
  PURPOSE_MARKERS <- MCPURPOSE_MARKERS
  EXAMPLE_MARKERS <- MCEXAMPLE_MARKERS
  Req <- MCReq
  SURVIVAL_LIVES = 1
  BOSS_ROUND_SIZE = 1
  DAILY_20_ROUND_SIZE = 2
  ROUND_MAX_ANSWERS = 2
  SprintDurations = {1}
  Term = {t1, t2, t3}
  Category = {web}
  Profile <- MCProfile
  Expansions <- MCExpansions
  Shuffle <- MCShuffle
  Texts <- MCTexts
  RawJudgments <- MCRawJudgments
  MODERATE = 2
  TERM_PRIMARY_DEFINITION_MIN_LEN = 2
  Anything = Anything
  Nothing = Nothing
INVARIANTS
  TypeOK
  BossTermsEligible
  DailyIsShared
  ShortcutsSound
  ScoresFollowVerdicts
PROPERTIES
  FreshTerm
CHECK_DEADLOCK FALSE
