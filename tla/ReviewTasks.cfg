\* Two uploads into a store of one, their OCR tasks under the fairness of the
\* thread pool, a confirm request, and every way for a record to leave. No
\* symmetry: it is not sound for liveness.
SPECIFICATION FairSpec
CONSTANTS
  Reviews = {r1, r2}
  Editors = {}
  Confirmers = {c1}
  Fields = {bid}
  Name = bid
  Required = {bid}
  Values = {v1}
  None = None
  MaxReviews = 1
  Ttl = 1
  MaxTime = 2
PROPERTIES
  NoLiveEviction
  FollowsStateMachine
  ProcessingEnds
  ImageDeleted
