\* A client in front of its bucket and of a smaller global one, and the
\* uploads of one pairing, which read the clock early.
SPECIFICATION BucketsSpec
CONSTANTS
  Clients = {a1}
  Uploaders = {p1}
  Global = global
  Uploads = {q1, q2}
  Never = Never
  Minute = 20000
  Second = 10000
  Steps = {9991, 10001, 10010}
  ClientPerMinute = 2
  GlobalPerMinute = 1
  UploadCapacity = 2
  UploadPerMinute = 1
  OneLoop = TRUE
  MaxTicks = 30030
SYMMETRY Symmetry
INVARIANTS
  WindowBounded
  RetrySuffices
