SPECIFICATION SpecSelect
CONSTANTS
  ReceiverChans <- MCReceiverChans
  MaxChans <- MCMaxChans
INVARIANTS
  NumberedAsTheFiles
PROPERTIES
  SortedAndComplete
\* The function has returned.
CHECK_DEADLOCK FALSE
