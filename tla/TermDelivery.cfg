\* Two versions of a term, two lookups at a time, a failing RPC, a restart.
SPECIFICATION FairSpec
CONSTANTS
  t1 = t1
  TermId = {t1}
  Candidate = {}
  Req = {q1, q2}
  TermOf <- MCTermOf
  Jobs <- MCJobs
  NoTerm = NoTerm
  NoJob = NoJob
  BrokerMayFail = TRUE
  Lookup = {l1, l2}
  TTL = 2
  RpcTicks = 1
  MaxFailures = 1
  MaxRestarts = 1
INVARIANT TypeOK
PROPERTIES
  StaleBounded
  EventuallyFresh
CHECK_DEADLOCK FALSE
