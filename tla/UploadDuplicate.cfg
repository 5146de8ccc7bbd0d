\* A duplicate of a review that has been deleted.
SPECIFICATION Spec
CONSTANTS
  Uploads = {u1, u2}
  Pairings = {p1, p2}
  Captures = {h1}
  None = None
  MaxReviews = 1
  Window = 1
  OneLoop = TRUE
  MaxTime = 1
INVARIANTS
  DuplicatesSucceed
