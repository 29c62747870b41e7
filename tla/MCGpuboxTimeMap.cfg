SPECIFICATION Spec
CONSTANTS
  w1 = w1
  w2 = w2
  NoTime = NoTime
  Workers <- MCWorkers
  Times <- MCTimes
  Batches <- MCBatches
  Channels <- MCChannels
  FileLists <- MCFileLists
INVARIANTS
  ScansAreIndependent
  EntriesLeadToTheirTime
PROPERTIES
  ImplementsIndex
  Returns
\* The function has returned.
CHECK_DEADLOCK FALSE
