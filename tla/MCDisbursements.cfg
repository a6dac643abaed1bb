\* An account entered by hand, an investor's return and a commission: edits,
\* payments, reversals, falling due and the distrato at once.  Returns are of
\* 1.25 cents and of 1.5, which the account rounds up and the reports do not.
SPECIFICATION Spec
CONSTANTS
  Null = Null
  MaxDay = 1
  Sales = {s1}
  Manual = {m1}
  Commissions = {c1}
  Returns = {r1}
  Payments = {x1, x2}
  Amounts = {1, 2}
  Parts = 4
  TiesUp = {}
  ReturnAmounts = {5, 6}
  Requests = {q1, q2}
\* Nothing is left to do once the sale is rescinded.
CHECK_DEADLOCK FALSE
SYMMETRY Symmetry
INVARIANTS
  LedgerConsistent
  SourcesFollowPayables
PROPERTIES
  ClosedIsFinal
