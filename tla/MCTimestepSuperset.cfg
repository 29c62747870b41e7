SPECIFICATION Spec
CONSTANTS
  Times <- MCTimes
  Duration <- MCDuration
INVARIANTS
  TimestepsAreSound
PROPERTIES
  ComputesTheSuperset
\* The function has returned.
CHECK_DEADLOCK FALSE
