\* One review, one PATCH and two confirm requests in flight, OCR, expiry.
SPECIFICATION Spec
CONSTANTS
  Reviews = {r1}
  Editors = {e1}
  Confirmers = {c1, c2}
  Fields = {name, bid}
  Name = name
  Required = {bid}
  Values = {v1}
  None = None
  MaxReviews = 1
  Ttl = 1
  MaxTime = 2
SYMMETRY Symmetry
INVARIANTS
  ConfirmedIsUnedited
PROPERTIES
  FinalIsFrozen
  NothingDecidedLate
