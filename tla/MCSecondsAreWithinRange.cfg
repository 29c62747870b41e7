SPECIFICATION SpecRead
CONSTANTS
  Names <- MCNames
  Contents <- MCContents
  Offers <- MCOffers
  ReadOffers <- MCReadOffers
  NewSizes <- MCNewSizes
  RecChans <- MCRecChans
  SchedStart = 4
  SchedSeconds = 4
  GoodTime = 5
  Seconds <- MCSeconds
  CounterLimit = 3
  MaxChanges = 0
  BlocksPerTimestep <- MCBlocks
  Prefix <- MCPrefix
  MaxCount = 4
INVARIANTS
  SecondsAreWithinRange
\* A context that is refused has no reader.
CHECK_DEADLOCK FALSE
