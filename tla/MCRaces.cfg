\* Two concurrent accept / convert requests over one unit; the tables implement
\* the abstract allocation of the unit.
SPECIFICATION Spec
CONSTANTS
  u1 = u1
  u2 = u2
  d1 = d1
  d2 = d2
  Null = Null
  Units = {u1}
  Reservations = {r1, r2}
  Proposals = {p1, p2}
  Sales = {s1, s2}
  Opportunities = {}
  People = {c1}
  Developments = {d1}
  DevelopmentOf <- MCDevelopmentOne
  Requests = {q1, q2}
  Deadlines = {1}
  ManualStatus = {"DISPONIVEL"}
  MaxTime = 2
  MaxVersion = 1
SYMMETRY Symmetry
INVARIANTS
  TypeOK
  ActiveReservationHoldsUnit
  ExclusiveClaim
  AcceptedKeepsUnit
  OneLiveSalePerUnit
PROPERTIES
  DecidedIsFinal
  ImplementsUnitAllocation
