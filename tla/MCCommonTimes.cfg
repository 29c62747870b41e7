SPECIFICATION Spec
CONSTANTS
  Channels <- MCChannels
  Times <- MCTimes
  IntTime <- MCIntTime
INVARIANTS
  CommonIsContiguous
  StopsOnlyAtAGap
  SelectedAreComplete
PROPERTIES
  ImplementsCommonRange
\* The function has returned.
CHECK_DEADLOCK FALSE
