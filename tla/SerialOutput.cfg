CONSTANTS
  com1 = com1
  com2 = com2
  task = task
  handler = handler
  NoPort = NoPort
  Port <- MCPort
  Console = com1
  Context <- MCContext
  OutSize = 6
  InSize = 2
  TtySize = 3
  MaxPrinted = 5
  MaxTyped = 2
SYMMETRY MCSymmetry
SPECIFICATION Spec
INVARIANTS PortKeepsBytes TextComesOut
CHECK_DEADLOCK FALSE
