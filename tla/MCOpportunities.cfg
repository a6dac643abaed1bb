\* Two units of two developments, two clients, one opportunity and two versions
\* of a proposal, while no validity runs out.
SPECIFICATION Spec
CONSTANTS
  u1 = u1
  u2 = u2
  d1 = d1
  d2 = d2
  Null = Null
  Units = {u1, u2}
  Reservations = {r1}
  Proposals = {p1}
  Sales = {s1}
  Opportunities = {o1}
  People = {c1, c2}
  Developments = {d1, d2}
  DevelopmentOf <- MCDevelopmentTwo
  Requests = {q1}
  Deadlines = {1}
  ManualStatus = {"DISPONIVEL"}
  MaxTime = 0
  MaxVersion = 2
SYMMETRY Symmetry
INVARIANTS
  SaleMatchesProposal
PROPERTIES
  SaleWinsOpportunity
