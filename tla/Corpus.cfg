\* Three ingestions that overlap each other and two passes that embed the chunks;
\* one of all these requests fails.
SPECIFICATION FairSpec
CONSTANTS
  a = a
  b = b
  Source = {a, b}
  MaxIngests = 3
  Pass = {e1, e2}
  Batches <- MCBatches
  Choices <- MCChoices
  BatchSize = 2
  MaxFaults = 1
  NoVector = NoVector
INVARIANTS
  TypeOK
  FullySuperseded
  EmbeddingsMatch
PROPERTIES
  EveryIngestionEnds
  BacklogCleared
CHECK_DEADLOCK FALSE
