CONSTANTS
  ttya = ttya
  ttyb = ttyb
  RawTTY = {ttya}
  a = a
  b = b
  TTY <- MCTTY
  Char <- MCChar
  NoTTY = NoTTY
  Above <- MCAbove
  Keys <- MCKeys
  NUL = NUL
  Junk = Junk
  LineSize = 3
  InSize = 3
  MaxTyped = 4
  MaxSubs = 2
SPECIFICATION Spec
INVARIANTS OnlyTypedBytesArrive
PROPERTIES TerminalGivesLines ServedTerminalIsEmpty WalksEnd
