SPECIFICATION Spec
CONSTANTS
  NoTime = NoTime
  Names <- MCNames
  Contents <- MCContents
  Offers <- MCOffers
  Times <- MCTimes
  RecChans <- MCRecChans
  MetaFirst = 2
  MetaLast = 6
  GoodTime = 4
  IntTime = 2
  FineChans = 2
  Baselines = 3
  MaxChanges = 1
INVARIANTS
  ContextIsReadable
  AcceptedFilesAreSound
  DecidesForAReason
  ReadServesRequested
  GoodAreCommonAfterQuack
PROPERTIES
  Decides
\* The context is built or refused, and nobody changes a file any more.
CHECK_DEADLOCK FALSE
