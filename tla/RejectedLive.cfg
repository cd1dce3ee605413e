\* Two reviewers of one candidate.
SPECIFICATION BankSpec
CONSTANTS
  t1 = t1
  TermId = {t1}
  Candidate = {c1}
  Req = {q1, q2}
  TermOf <- MCTermOf
  Jobs <- MCJobs
  NoTerm = NoTerm
  NoJob = NoJob
  BrokerMayFail = FALSE
INVARIANT RejectedNeverLive
CHECK_DEADLOCK FALSE
