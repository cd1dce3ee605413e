\* Two launches of the job, over repositories whose sources name the same terms.
SPECIFICATION Spec
CONSTANTS
  TCP_IP = TCP_IP
  TcpIp = TcpIp
  WAL = WAL
  Name = {TCP_IP, TcpIp, WAL}
  Key <- MCKey
  Repo <- MCRepo
  Draft <- MCDraft
  BOSS_ELIGIBLE_MIN_DIFFICULTY = 3
  BOSS_ELIGIBLE_MIN_DEFINITION_LEN = 2
  MAX_RETRIEVAL_PASSES = 2
  MaxLaunches = 2
INVARIANTS
  TypeOK
  MostTrusted
  EachOnce
PROPERTIES
  EveryRunEnds
CHECK_DEADLOCK FALSE
