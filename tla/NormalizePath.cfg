CONSTANTS
  a = a
  b = b
  Letter = {a, b}
  Slash = Slash
  Dot = Dot
  NUL = NUL
  Length = {0, 1, 2, 3, 4, 5, 6}
SPECIFICATION NormalizeSpec
INVARIANTS RewritesInPlace
PROPERTIES DotsAreSubstituted
CHECK_DEADLOCK FALSE
