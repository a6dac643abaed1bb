\* Two instalments of one sale: receipts, reversals, corrections up and down,
\* a bank statement line and the distrato at once.
SPECIFICATION Spec
CONSTANTS
  Null = Null
  MaxDay = 2
  Price = 2
  Instalments = 2
  Payments = {x1, x2}
  Entries = {e1}
  Amounts = {1, 2}
  Competences = {1, 2}
  Periods <- MCPeriods
  Rates <- MCRates
  Requests = {q1, q2}
  MaxSplit = 12
  MaxMonth = 47
\* Nothing is left to do on a rescinded sale.
CHECK_DEADLOCK FALSE
SYMMETRY Symmetry
INVARIANTS
  LedgerConsistent
  SaleFollowsInstalments
  ReconciledIsLive
PROPERTIES
  ClosedIsFinal
