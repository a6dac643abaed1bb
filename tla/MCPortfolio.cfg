\* One row of each table, two allocations, and two requests at once.  An
\* operation may always be rolled back.
SPECIFICATION PortfolioSpec
CONSTANTS
  Companies = {c1}
  Developments = {d1, d2}
  UnitTypes = {t1}
  Units = {u1}
  PriceTables = {p1}
  UnitPrices = {x1}
  Interests = {q1}
  Investments = {i1}
  Allocations = {l1, l2}
  Returns = {n1}
  Operations = {r1, r2}
  Dates = {1, 2}
  Amounts = {1, 2}
  Shares = {1, 2}
  Parts = 2
  TiesUp = {1}
  MaxRows = 4
  NULL = NULL
  Keep = Keep
SYMMETRY Symmetry
CONSTRAINT DatesAlone
INVARIANTS
  PortfolioConsistent
  CascadeAudited
PROPERTIES
  RemovalDetachesNothing
  OverAllocatedOnlyByRace
