CONSTANTS
  Sectors = 2
  Slots = 2
  MaxCalls = 3
  MaxDepth = 2
SPECIFICATION Spec
INVARIANTS CallsDoWhatTheyReport
PROPERTIES OnlyAskedSectorsChange CallsEnd
CHECK_DEADLOCK FALSE
