\* Two requests at once of any kind, over two e-mails and two organisations.
\* The roles of OtherRoles only do less, and are left out here.
SPECIFICATION Spec
CONSTANTS
  Null = Null
  Emails = {e1, e2}
  Orgs = {o1, o2}
  Invitations = {i1, i2}
  Tokens = {t1, t2}
  Requests = {r1, r2}
  OtherRoles = {}
SYMMETRY Symmetry
INVARIANTS
  OwnerRemains
  EmailBelongsToOne
  AcceptedMadeAccount
  NewestTokenOnly
