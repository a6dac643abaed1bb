\* One event of each kind, two instants, two requests and a reader of the
\* timeline.  An operation may always be rolled back.
SPECIFICATION FollowUpSpec
CONSTANTS
  a1 = a1
  v1 = v1
  f1 = f1
  Activities = {a1}
  Visits = {v1}
  Flows = {f1}
  Order <- MCOrder
  Edits = {r1, r2}
  Limit = 1
  OtherStatuses = {"CANCELADA"}
  MaxTime = 1
  Prices = {0, 1, 2, 3, 90, 100, 109, 3000, 3001}
  Areas = {0, 1, 7, 80, 100, 119, 2000, 2001}
  Bedrooms = {0, 1, 2, 3, 4}
  None = None
  Keep = Keep
SYMMETRY Symmetry
INVARIANTS
  FollowUpConsistent
  TimelineComplete
PROPERTIES
  VisitEndsOnce
