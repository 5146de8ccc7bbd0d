\* Two reviews, two texts, one request of the reviewer in flight. No symmetry:
\* it is not sound for liveness.
SPECIFICATION FairSpec
CONSTANTS
  r1 = r1
  r2 = r2
  a = a
  b = b
  c1 = c1
  Reviews = {r1, r2}
  Texts = {a, b}
  Calls = {c1}
  None = None
  Blank = b
  MaxActs = 3
PROPERTIES
  SettledEditsKept
  Converges
