\* Three requests, two candidates and an author on one term.
SPECIFICATION FairBankSpec
CONSTANTS
  t1 = t1
  TermId = {t1}
  Candidate = {c1, c2}
  Req = {q1, q2, q3}
  TermOf <- MCTermOf
  Jobs <- MCJobs
  NoTerm = NoTerm
  NoJob = NoJob
  BrokerMayFail = TRUE
INVARIANTS
  BankTypeOK
  DecisionsStand
  AnnouncedInOrder
PROPERTIES
  EveryRequestEnds
  LedgerSpec
CHECK_DEADLOCK FALSE
