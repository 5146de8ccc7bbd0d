\* Three codes, two pairings under a limit of one, two overlapping calls.
SPECIFICATION Spec
CONSTANTS
  Codes = {c1, c2, c3}
  Pairings = {p1, p2}
  Calls = {q1, q2}
  None = None
  MaxCodes = 2
  MaxPairings = 1
  MaxFailed = 2
  CodeTtl = 1
  MaxTime = 2
SYMMETRY Symmetry
INVARIANTS
  OneTimeCode
  CodesBounded
PROPERTIES
  RevocationSticks
