SPECIFICATION Spec
CONSTANTS
  Files <- SomeFiles
  Replacements <- OtherChannels
  GONE = GONE
  NONE = NONE
  Lanes = 2
  PerLane = 3
INVARIANTS
  DecidesForAReason
  InputsAndAntennasAgree
  FineChannelsAreCentred
  ExpectedFilesCoverObservation
CHECK_DEADLOCK FALSE
