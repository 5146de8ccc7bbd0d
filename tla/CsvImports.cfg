\* Three requests that upload two files with rows in opposite orders, or an
\* empty one. No symmetry: it is not sound for liveness.
SPECIFICATION FairSpec
CONSTANTS
  Imports = {i1, i2, i3}
  Files = {ordered, reversed, overflowing, empty}
  Keys = {k1, k2}
  Names = {n1, n2}
  Times = {t1}
  None = None
  k1 = k1
  k2 = k2
  n1 = n1
  n2 = n2
  t1 = t1
  ordered = ordered
  reversed = reversed
  overflowing = overflowing
  empty = empty
  Lines <- MCLines
INVARIANTS
  OneImportPerFile
  EveryRowStored
  ReportIsTrue
PROPERTIES
  ImplementsLedger
  ImportEnds
CHECK_DEADLOCK FALSE
