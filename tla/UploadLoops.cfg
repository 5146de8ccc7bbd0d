\* Two uploads on loops of their own, with stalls longer than the window. No
\* symmetry: it is not sound for liveness.
SPECIFICATION FairSpec
CONSTANTS
  Uploads = {u1, u2}
  Pairings = {p1, p2}
  Captures = {h1}
  None = None
  MaxReviews = 1
  Window = 1
  OneLoop = FALSE
  MaxTime = 2
INVARIANTS
  NothingDangling
  SameCapture
PROPERTIES
  UploadAnswered
