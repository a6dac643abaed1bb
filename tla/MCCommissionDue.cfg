\* A stale markCommissionDue revives a commission that was cancelled.
SPECIFICATION Spec
CONSTANTS
  Null = Null
  MaxDay = 1
  Sales = {s1}
  Manual = {}
  Commissions = {c1}
  Returns = {}
  Payments = {x1, x2}
  Amounts = {1}
  Parts = 1
  TiesUp = {}
  ReturnAmounts = {}
  Requests = {q1, q2}
\* Nothing is left to do once the sale is rescinded.
CHECK_DEADLOCK FALSE
SYMMETRY Symmetry
PROPERTIES
  CancelledCommissionNeverDue
