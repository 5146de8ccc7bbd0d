\* Three uploads on one event loop, over two windows.
SPECIFICATION Spec
CONSTANTS
  Uploads = {u1, u2, u3}
  Pairings = {p1, p2}
  Captures = {h1}
  None = None
  MaxReviews = 2
  Window = 2
  OneLoop = TRUE
  MaxTime = 4
SYMMETRY Symmetry
INVARIANTS
  FilesOwned
  OneReviewPerWindow
  LoopNeverWaits
