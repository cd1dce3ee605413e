\* Two members that meet on one row, one of them started twice.
SPECIFICATION FairSpec
CONSTANTS
  Partition = {p1, p2}
  TermId = {t1}
  Verdict = {"correct"}
  Malformed = Malformed
  NoOffset = NoOffset
  MessageTimeout = 1
  Backoff = 1
  MaxAge = 1
  p1 = p1
  Messages1 = 2
  Messages2 = 1
  Restarts = 1
  MaxMessages <- MCMaxMessages
  MaxRestarts <- MCMaxRestarts
INVARIANTS
  TypeOK
  CountsAreExact
  PassedAreCounted
  BusyNeverStale
PROPERTY EveryMessagePassed
CHECK_DEADLOCK FALSE
