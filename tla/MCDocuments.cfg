\* Two documents, a person and an investment to link them with, and two
\* requests at once.
SPECIFICATION Spec
CONSTANTS
  DocumentIds = {d1, d2}
  People = {p1}
  Investments = {i1}
  Requests = {r1, r2}
  Null = Null
SYMMETRY Symmetry
INVARIANTS
  AcknowledgedIsKept
  RemovedLeavesNothing
  OrphanExplained
