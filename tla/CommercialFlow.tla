--------------------------- MODULE CommercialFlow ---------------------------
(***************************************************************************)
(* The commercial pipeline of Harpia: a unit is reserved, a proposal is    *)
(* negotiated and accepted, the accepted proposal is converted into a      *)
(* sale, and the sale may be rescinded ("distrato").  The state is the     *)
(* PostgreSQL tables the four services share; an action is one database    *)
(* transaction.  Every writer that touches the status of a unit takes the  *)
(* row lock of the unit first, so the transactions of one unit are serial; *)
(* what a handler reads BEFORE its transaction is kept in `req', and what  *)
(* it still has to do AFTER it in `owed', because other requests run in    *)
(* between.                                                                *)
(*                                                                         *)
(* The unique indexes (one active reservation per unit, one live sale per  *)
(* unit, one sale per proposal) are deliberately NOT guards here: the      *)
(* invariants below show that the locks and re-checks alone are enough.    *)
(***************************************************************************)
EXTENDS Integers

CONSTANTS
  Units, Reservations, Proposals, Sales, Opportunities, People, Developments,
  DevelopmentOf,  \* the development of each unit; no endpoint changes it
  Null,           \* SQL NULL
  Requests,       \* accept / convert requests that can be in flight at once
  Deadlines,      \* the instants a caller may ask for as expiresAt / validUntil
  ManualStatus,   \* the statuses a caller of the units endpoints may ask for
  MaxTime,        \* bound: the clock stops here
  MaxVersion      \* bound: versions of one proposal

UnitStatuses == {"DISPONIVEL", "RESERVADA", "VENDIDA", "QUITADA",
                 "DISTRATADA", "BLOQUEADA", "PERMUTADA"}

ASSUME DevelopmentAssumption == DevelopmentOf \in [Units -> Developments]

\* assertReservationManagedStatus: RESERVADA cannot be asked for.
ASSUME ManualAssumption == ManualStatus \subseteq (UnitStatuses \ {"RESERVADA"})

ASSUME NullAssumption ==
  /\ Null \notin Units \cup People \cup Developments
  /\ Null \notin Reservations \cup Proposals \cup Opportunities
  /\ Null \notin Nat

ASSUME BoundAssumption ==
  /\ MaxTime \in Nat
  /\ MaxVersion \in Nat \ {0}
  /\ Deadlines \subseteq Nat

VARIABLES
  now,    \* the clock
  unit,   \* Unit.status, or "ABSENT"
  resv,   \* UnitReservation rows
  prop,   \* SalesProposal rows, with the number of the current version
  sale,   \* Sale rows
  opp,    \* Opportunity rows; the stages of a pipeline are OPEN, WON or LOST
  req,    \* accept / convert requests between their first read and their tx
  owed    \* proposals whose handler committed but has not run its findOne yet

vars == <<now, unit, resv, prop, sale, opp, req, owed>>

OrNull(S) == S \cup {Null}

Times == Nat

AbsentReservation ==
  [status |-> "ABSENT", unit |-> Null, person |-> Null, opp |-> Null,
   expiresAt |-> 0]

ReservationRow ==
  [status    : {"ATIVA", "CANCELADA", "EXPIRADA", "CONVERTIDA"},
   unit      : Units,
   person    : People,
   opp       : OrNull(Opportunities),
   expiresAt : Times]

AbsentProposal ==
  [status |-> "ABSENT", unit |-> Null, person |-> Null, opp |-> Null,
   resv |-> Null, validUntil |-> Null, version |-> 0, converted |-> FALSE]

ProposalRow ==
  [status     : {"RASCUNHO", "ENVIADA", "EM_NEGOCIACAO",
                 "ACEITA", "RECUSADA", "EXPIRADA"},
   unit       : Units,
   person     : People,
   opp        : OrNull(Opportunities),
   resv       : OrNull(Reservations),
   validUntil : OrNull(Times),
   version    : Nat,
   converted  : BOOLEAN]          \* convertedToSaleAt IS NOT NULL

AbsentSale ==
  [status |-> "ABSENT", unit |-> Null, prop |-> Null, opp |-> Null,
   version |-> 0, paid |-> FALSE]

SaleRow ==
  [status  : {"ATIVA", "QUITADA", "DISTRATADA"},
   unit    : Units,
   prop    : Proposals,
   opp     : OrNull(Opportunities),
   version : Nat,                 \* the version whose amounts were copied
   paid    : BOOLEAN]             \* some receivable has paidAmount # 0

AbsentOpportunity ==
  [stage |-> "ABSENT", person |-> Null, dev |-> Null, unit |-> Null]

OpportunityRow ==
  [stage  : {"OPEN", "WON", "LOST"},
   person : People,
   dev    : OrNull(Developments),
   unit   : OrNull(Units)]

Idle == [op |-> "idle", prop |-> Null, resv |-> Null]

RequestState ==
  [op   : {"accept", "convert"},
   prop : Proposals,
   resv : OrNull(Reservations)]

\* Every row is absent or complete: a reservation, proposal or sale names a
\* unit, a client and a proposal that exist as such.
TypeOK ==
  /\ now \in Times
  /\ unit \in [Units -> UnitStatuses \cup {"ABSENT"}]
  /\ resv \in [Reservations -> ReservationRow \cup {AbsentReservation}]
  /\ prop \in [Proposals -> ProposalRow \cup {AbsentProposal}]
  /\ sale \in [Sales -> SaleRow \cup {AbsentSale}]
  /\ opp \in [Opportunities -> OpportunityRow \cup {AbsentOpportunity}]
  /\ req \in [Requests -> RequestState \cup {Idle}]
  /\ owed \subseteq Proposals

Init ==
  /\ now = 0
  /\ unit = [u \in Units |-> "ABSENT"]
  /\ resv = [r \in Reservations |-> AbsentReservation]
  /\ prop = [p \in Proposals |-> AbsentProposal]
  /\ sale = [s \in Sales |-> AbsentSale]
  /\ opp = [o \in Opportunities |-> AbsentOpportunity]
  /\ req = [q \in Requests |-> Idle]
  /\ owed = {}

-----------------------------------------------------------------------------
(* Reservations: src/src/reservations/reservations.service.ts              *)

\* Mutant: the hand-off reservation of an accepted proposal lapses as well.
BugExpiredOn(u) ==
  {r \in Reservations : /\ resv[r].status \in {"ATIVA", "CONVERTIDA"}
                        /\ resv[r].unit = u
                        /\ resv[r].expiresAt <= now}

ExpiredOn(u) ==
  {r \in Reservations : /\ resv[r].status = "ATIVA"
                        /\ resv[r].unit = u
                        /\ resv[r].expiresAt <= now}

\* expireLockedUnit: the reservation rows and the unit status it leaves.
ExpiredRows(u) ==
  [r \in Reservations |->
     IF r \in ExpiredOn(u) THEN [resv[r] EXCEPT !.status = "EXPIRADA"]
     ELSE resv[r]]

\* Mutant: the status of the expired row is written to the unit.
BugReleasedStatus(u) ==
  IF ExpiredOn(u) # {} /\ unit[u] = "RESERVADA" THEN "EXPIRADA" ELSE unit[u]

ReleasedStatus(u) ==
  IF ExpiredOn(u) # {} /\ unit[u] = "RESERVADA" THEN "DISPONIVEL" ELSE unit[u]

\* normalizeExpiredUnit, the transaction run by findAll, findOne, and as a
\* preamble by ProposalsService.create and accept.
NormalizeExpiredUnit(u) ==
  /\ ExpiredOn(u) # {}
  /\ resv' = ExpiredRows(u)
  /\ unit' = [unit EXCEPT ![u] = ReleasedStatus(u)]
  /\ UNCHANGED <<now, prop, sale, opp, req, owed>>

\* The opportunity named by a new reservation or proposal must be open, of
\* the same client and not bound to another development or unit.
OpportunityFits(o, person, u) ==
  \/ o = Null
  \/ /\ o # Null
     /\ opp[o].stage = "OPEN"
     /\ opp[o].person = person
     /\ opp[o].dev \in {Null, DevelopmentOf[u]}
     /\ opp[o].unit \in {Null, u}

\* create: the expiry was compared with the clock when the request arrived, at
\* some instant no later than now; the unit is locked and re-checked.
CreateReservation(r, u, person, o, expiresAt) ==
  /\ resv[r].status = "ABSENT"
  /\ \E arrival \in 0..now : expiresAt > arrival
  /\ ReleasedStatus(u) = "DISPONIVEL"
  /\ OpportunityFits(o, person, u)
  /\ resv' = [ExpiredRows(u) EXCEPT
                ![r] = [status |-> "ATIVA", unit |-> u, person |-> person,
                        opp |-> o, expiresAt |-> expiresAt]]
  /\ unit' = [unit EXCEPT ![u] = "RESERVADA"]
  /\ UNCHANGED <<now, prop, sale, opp, req, owed>>

\* transition: expire the unit's reservations, then r must still be active; if
\* it is not, the exception rolls the expiry back too.
StillActive(r) ==
  /\ resv[r].status = "ATIVA"
  /\ r \notin ExpiredOn(resv[r].unit)

CancelReservation(r) ==
  /\ StillActive(r)
  /\ LET u == resv[r].unit IN
       /\ resv' = [ExpiredRows(u) EXCEPT ![r].status = "CANCELADA"]
       /\ unit' = [unit EXCEPT
                     ![u] = IF @ = "RESERVADA" THEN "DISPONIVEL" ELSE @]
  /\ UNCHANGED <<now, prop, sale, opp, req, owed>>

\* convert: the reservation ends, the unit stays RESERVADA for the hand-off.
ConvertReservation(r) ==
  /\ StillActive(r)
  /\ LET u == resv[r].unit IN
       /\ resv' = [ExpiredRows(u) EXCEPT ![r].status = "CONVERTIDA"]
       /\ unit' = [unit EXCEPT ![u] = ReleasedStatus(u)]
  /\ UNCHANGED <<now, prop, sale, opp, req, owed>>

-----------------------------------------------------------------------------
(* Proposals: src/src/proposals/proposals.service.ts                       *)

Negotiable(p) == prop[p].status \in {"ENVIADA", "EM_NEGOCIACAO"}

\* Mutant: any reservation of the client backs the proposal, ended ones too.
BugReservationStatus(r, u, person, o) ==
  /\ resv[r].expiresAt > now
  /\ resv[r].unit = u
  /\ resv[r].person = person
  /\ resv[r].opp = o
  /\ unit[u] = "RESERVADA"

\* Mutant: an expiry nobody has normalised yet is not looked at.
BugReservationExpiry(r, u, person, o) ==
  /\ resv[r].status = "ATIVA"
  /\ resv[r].unit = u
  /\ resv[r].person = person
  /\ resv[r].opp = o
  /\ unit[u] = "RESERVADA"

\* validateReservation / validateReservationForProposal
ReservationBacks(r, u, person, o) ==
  /\ resv[r].status = "ATIVA"
  /\ resv[r].expiresAt > now
  /\ resv[r].unit = u
  /\ resv[r].person = person
  /\ resv[r].opp = o
  /\ unit[u] = "RESERVADA"

\* futureDateOrNull, evaluated when the request arrived.
FutureOrNull(t) == t # Null => \E arrival \in 0..now : t > arrival

CreateProposal(p, u, person, o, r, validUntil) ==
  /\ prop[p].status = "ABSENT"
  /\ FutureOrNull(validUntil)
  /\ \/ r # Null /\ ReservationBacks(r, u, person, o)
     \/ r = Null /\ unit[u] = "DISPONIVEL"
  /\ OpportunityFits(o, person, u)
  /\ prop' = [prop EXCEPT
                ![p] = [status |-> "RASCUNHO", unit |-> u, person |-> person,
                        opp |-> o, resv |-> r, validUntil |-> validUntil,
                        version |-> 1, converted |-> FALSE]]
  /\ owed' = owed \cup {p}
  /\ UNCHANGED <<now, unit, resv, sale, opp, req>>

\* Mutant: an accepted proposal can still be renegotiated.
BugCreateVersion(p, validUntil) ==
  /\ prop[p].status \notin {"ABSENT", "RECUSADA", "EXPIRADA"}
  /\ FutureOrNull(validUntil)
  /\ prop[p].version < MaxVersion
  /\ prop' = [prop EXCEPT
                ![p].version = @ + 1,
                ![p].validUntil = validUntil,
                ![p].status = IF @ = "RASCUNHO" THEN "RASCUNHO"
                              ELSE "EM_NEGOCIACAO"]
  /\ owed' = owed \cup {p}
  /\ UNCHANGED <<now, unit, resv, sale, opp, req>>

CreateVersion(p, validUntil) ==
  /\ prop[p].status \in {"RASCUNHO", "ENVIADA", "EM_NEGOCIACAO"}
  /\ FutureOrNull(validUntil)
  /\ prop[p].version < MaxVersion
  /\ prop' = [prop EXCEPT
                ![p].version = @ + 1,
                ![p].validUntil = validUntil,
                ![p].status = IF @ = "RASCUNHO" THEN "RASCUNHO"
                              ELSE "EM_NEGOCIACAO"]
  /\ owed' = owed \cup {p}
  /\ UNCHANGED <<now, unit, resv, sale, opp, req>>

\* assertCurrentAndValid (every proposal has a current version)
StillValid(p) == prop[p].validUntil # Null => prop[p].validUntil > now

Send(p) ==
  /\ prop[p].status \in {"RASCUNHO", "EM_NEGOCIACAO"}
  /\ StillValid(p)
  /\ prop' = [prop EXCEPT ![p].status = "ENVIADA"]
  /\ owed' = owed \cup {p}
  /\ UNCHANGED <<now, unit, resv, sale, opp, req>>

Reject(p) ==
  /\ Negotiable(p)
  /\ prop' = [prop EXCEPT ![p].status = "RECUSADA"]
  /\ owed' = owed \cup {p}
  /\ UNCHANGED <<now, unit, resv, sale, opp, req>>

\* Mutant: the validity is compared, the status is not.
BugOverdue(p) == prop[p].validUntil # Null /\ prop[p].validUntil < now

\* normalizeExpired: a negotiable proposal strictly past its validity expires.
Overdue(p) ==
  /\ Negotiable(p)
  /\ prop[p].validUntil # Null
  /\ prop[p].validUntil < now

\* A reader, or a handler before its own transaction, normalises p.
NormalizeExpired(p) ==
  /\ Overdue(p)
  /\ prop' = [prop EXCEPT ![p].status = "EXPIRADA"]
  /\ UNCHANGED <<now, unit, resv, sale, opp, req, owed>>

\* The findOne that ends create, createVersion, send, reject and accept.
TrailingFindOne(p) ==
  /\ p \in owed
  /\ owed' = owed \ {p}
  /\ prop' = IF Overdue(p) THEN [prop EXCEPT ![p].status = "EXPIRADA"]
             ELSE prop
  /\ UNCHANGED <<now, unit, resv, sale, opp, req>>

-----------------------------------------------------------------------------
(* Accepting and converting: both read the reservation of the proposal     *)
(* before the transaction that locks unit, reservation and proposal.       *)

ReadCandidate(q, op, p) ==
  /\ req[q] = Idle
  /\ prop[p].status # "ABSENT"
  /\ req' = [req EXCEPT ![q] = [op |-> op, prop |-> p, resv |-> prop[p].resv]]
  /\ UNCHANGED <<now, unit, resv, prop, sale, opp, owed>>

\* Mutant: the conversion does not compare the development either.
BugWinsOpportunity(o, person, u, devs) ==
  \/ o = Null
  \/ /\ o # Null
     /\ opp[o].stage \in {"OPEN", "WON"}
     /\ opp[o].person = person
     /\ opp[o].unit \in {Null, u}

\* winOpportunity and ensureOpportunityWon: the locked opportunity must still
\* match, must not be lost, and ends won and bound to the unit.  Only the
\* conversion compares the development.
WinsOpportunity(o, person, u, devs) ==
  \/ o = Null
  \/ /\ o # Null
     /\ opp[o].stage \in {"OPEN", "WON"}
     /\ opp[o].person = person
     /\ opp[o].dev \in devs
     /\ opp[o].unit \in {Null, u}

\* accept: an opportunity already won is left as it is.
AcceptedOpportunity(o, u) ==
  IF o # Null /\ opp[o].stage = "OPEN"
  THEN [opp EXCEPT ![o].stage = "WON", ![o].unit = u] ELSE opp

\* convertProposal: an opportunity already won still receives the unit.
SoldOpportunity(o, u) ==
  IF o # Null THEN [opp EXCEPT ![o].stage = "WON", ![o].unit = u] ELSE opp

AcceptGuard(p) == Negotiable(p) /\ StillValid(p)

\* accept of a proposal that names a reservation: the reservation is converted.
AcceptReserved(q) ==
  LET p == req[q].prop
      r == req[q].resv
      u == prop[p].unit
      o == prop[p].opp
  IN /\ req[q].op = "accept"
     /\ r # Null
     /\ AcceptGuard(p)
     /\ ReservationBacks(r, u, prop[p].person, o)
     /\ WinsOpportunity(o, prop[p].person, u, OrNull(Developments))
     /\ resv' = [resv EXCEPT ![r].status = "CONVERTIDA"]
     /\ prop' = [prop EXCEPT ![p].status = "ACEITA", ![p].resv = r]
     /\ opp' = AcceptedOpportunity(o, u)
     /\ req' = [req EXCEPT ![q] = Idle]
     /\ owed' = owed \cup {p}
     /\ UNCHANGED <<now, unit, sale>>

\* accept without a reservation: an available unit is taken, and a hand-off
\* reservation is born CONVERTIDA (valid for 24 hours, one tick here).
AcceptAvailable(q, r) ==
  LET p == req[q].prop
      u == prop[p].unit
      o == prop[p].opp
  IN /\ req[q].op = "accept"
     /\ req[q].resv = Null
     /\ AcceptGuard(p)
     /\ unit[u] = "DISPONIVEL"
     /\ resv[r].status = "ABSENT"
     /\ WinsOpportunity(o, prop[p].person, u, OrNull(Developments))
     /\ resv' = [resv EXCEPT
                   ![r] = [status |-> "CONVERTIDA", unit |-> u,
                           person |-> prop[p].person, opp |-> o,
                           expiresAt |-> now + 1]]
     /\ unit' = [unit EXCEPT ![u] = "RESERVADA"]
     /\ prop' = [prop EXCEPT ![p].status = "ACEITA", ![p].resv = r]
     /\ opp' = AcceptedOpportunity(o, u)
     /\ req' = [req EXCEPT ![q] = Idle]
     /\ owed' = owed \cup {p}
     /\ UNCHANGED <<now, sale>>

LiveSale(s) == sale[s].status \in {"ATIVA", "QUITADA"}

\* Mutant: a paid-off sale is not counted as a live one.
BugNoLiveSale(u) ==
  \A t \in Sales : sale[t].status = "ATIVA" => sale[t].unit # u

NoLiveSale(u) == \A t \in Sales : LiveSale(t) => sale[t].unit # u

\* SalesService.validateReservation
ReservationSellable(r, p) ==
  /\ resv[r].unit = prop[p].unit
  /\ resv[r].person = prop[p].person
  /\ resv[r].opp = prop[p].opp
  /\ \/ resv[r].status = "CONVERTIDA"
     \/ resv[r].status = "ATIVA" /\ resv[r].expiresAt > now

\* convertProposal, the transaction that writes the sale.
ConvertProposal(q, s) ==
  LET p == req[q].prop
      r == req[q].resv
      u == prop[p].unit
      o == prop[p].opp
  IN /\ req[q].op = "convert"
     /\ sale[s].status = "ABSENT"
     /\ \A t \in Sales : sale[t].prop # p
     /\ prop[p].status = "ACEITA"
     /\ ~prop[p].converted
     /\ unit[u] = "RESERVADA"
     /\ r # Null
     /\ ReservationSellable(r, p)
     /\ NoLiveSale(u)
     /\ WinsOpportunity(o, prop[p].person, u, {DevelopmentOf[u]})
     /\ resv' = [resv EXCEPT ![r].status = "CONVERTIDA"]
     /\ opp' = SoldOpportunity(o, u)
     /\ sale' = [sale EXCEPT
                   ![s] = [status |-> "ATIVA", unit |-> u, prop |-> p,
                           opp |-> o, version |-> prop[p].version,
                           paid |-> FALSE]]
     /\ prop' = [prop EXCEPT ![p].converted = TRUE]
     /\ unit' = [unit EXCEPT ![u] = "VENDIDA"]
     /\ req' = [req EXCEPT ![q] = Idle]
     /\ UNCHANGED <<now, owed>>

\* The transaction throws (a guard fails, the sale already exists, a database
\* error) and is rolled back.
RequestFails(q) ==
  /\ req[q] # Idle
  /\ req' = [req EXCEPT ![q] = Idle]
  /\ UNCHANGED <<now, unit, resv, prop, sale, opp, owed>>

\* The API process stops: nothing in memory survives, committed rows do.
Crash ==
  /\ req' = [q \in Requests |-> Idle]
  /\ owed' = {}
  /\ UNCHANGED <<now, unit, resv, prop, sale, opp>>

-----------------------------------------------------------------------------
(* Units: src/src/units/units.service.ts                                   *)

CreateUnit(u, status) ==
  /\ unit[u] = "ABSENT"
  /\ unit' = [unit EXCEPT ![u] = status]
  /\ UNCHANGED <<now, resv, prop, sale, opp, req, owed>>

\* update with a status: refused while the unit is RESERVADA, and only then; a
\* unit under a live sale may be put back to DISPONIVEL by hand.
UpdateUnit(u, status) ==
  /\ unit[u] \notin {"ABSENT", "RESERVADA"}
  /\ unit' = [unit EXCEPT ![u] = status]
  /\ UNCHANGED <<now, resv, prop, sale, opp, req, owed>>

\* remove: any reservation, of any status, forbids it; the foreign keys of
\* SalesProposal and Sale do too, and Opportunity.unitId is set to NULL.
RemoveUnit(u) ==
  /\ unit[u] # "ABSENT"
  /\ \A r \in Reservations : resv[r].unit # u
  /\ \A p \in Proposals : prop[p].unit # u
  /\ \A s \in Sales : sale[s].unit # u
  /\ unit' = [unit EXCEPT ![u] = "ABSENT"]
  /\ opp' = [o \in Opportunities |->
               IF opp[o].unit = u THEN [opp[o] EXCEPT !.unit = Null]
               ELSE opp[o]]
  /\ UNCHANGED <<now, resv, prop, sale, req, owed>>

-----------------------------------------------------------------------------
(* Opportunities: src/src/crm/crm.service.ts                               *)

\* resolveSalesTarget: a unit fixes the development, and must agree with the
\* one that was asked for.
TargetValid(dev, u) ==
  u # Null => unit[u] # "ABSENT" /\ dev \in {Null, DevelopmentOf[u]}

TargetDevelopment(dev, u) == IF u = Null THEN dev ELSE DevelopmentOf[u]

CreateOpportunity(o, person, dev, u) ==
  /\ opp[o].stage = "ABSENT"
  /\ TargetValid(dev, u)
  /\ opp' = [opp EXCEPT
               ![o] = [stage |-> "OPEN", person |-> person,
                       dev |-> TargetDevelopment(dev, u), unit |-> u]]
  /\ UNCHANGED <<now, unit, resv, prop, sale, req, owed>>

\* lockUnitSelectionAvailability (prices and the development's own status are
\* not modelled: they can only refuse more).
Selectable(u) ==
  /\ unit[u] = "DISPONIVEL"
  /\ \A r \in Reservations : resv[r].status = "ATIVA" => resv[r].unit # u
  /\ NoLiveSale(u)

\* updateOpportunity, in any stage; a field left out keeps its value, which is
\* the same as sending the current one.
UpdateOpportunity(o, person, dev, u) ==
  /\ opp[o].stage # "ABSENT"
  /\ u \notin {Null, opp[o].unit} => Selectable(u)
  /\ TargetValid(dev, u)
  /\ opp' = [opp EXCEPT ![o].person = person,
                        ![o].dev = TargetDevelopment(dev, u),
                        ![o].unit = u]
  /\ UNCHANGED <<now, unit, resv, prop, sale, req, owed>>

\* moveOpportunity: from any stage to any other, out of a won or lost one too.
MoveOpportunity(o, stage) ==
  /\ opp[o].stage \notin {"ABSENT", stage}
  /\ opp' = [opp EXCEPT ![o].stage = stage]
  /\ UNCHANGED <<now, unit, resv, prop, sale, req, owed>>

\* The row goes, and the optional references to it become NULL.
Unlink(row, o) == IF row.opp = o THEN [row EXCEPT !.opp = Null] ELSE row

RemoveOpportunity(o) ==
  /\ opp[o].stage # "ABSENT"
  /\ opp' = [opp EXCEPT ![o] = AbsentOpportunity]
  /\ resv' = [r \in Reservations |-> Unlink(resv[r], o)]
  /\ prop' = [p \in Proposals |-> Unlink(prop[p], o)]
  /\ sale' = [s \in Sales |-> Unlink(sale[s], o)]
  /\ UNCHANGED <<now, unit, req, owed>>

-----------------------------------------------------------------------------
(* After the sale: ReceivablesService.syncSaleStatus and                   *)
(* SaleCancellationsService.cancel                                         *)

\* A receipt or a reversal leaves the sale with nothing paid, partly paid or
\* fully paid (the ledger itself is abstracted to that).
SyncSaleStatus(s, paid, status) ==
  /\ LiveSale(s)
  /\ status = "QUITADA" => paid
  /\ sale' = [sale EXCEPT ![s].paid = paid, ![s].status = status]
  /\ UNCHANGED <<now, unit, resv, prop, opp, req, owed>>

\* Mutant: the unit is marked whatever it has become since the sale.
BugCancelSale(s) ==
  /\ LiveSale(s)
  /\ ~sale[s].paid
  /\ sale' = [sale EXCEPT ![s].status = "DISTRATADA"]
  /\ unit' = [unit EXCEPT ![sale[s].unit] = "DISTRATADA"]
  /\ UNCHANGED <<now, resv, prop, opp, req, owed>>

\* cancel (distrato), one serializable transaction.
CancelSale(s) ==
  /\ LiveSale(s)
  /\ ~sale[s].paid
  /\ sale' = [sale EXCEPT ![s].status = "DISTRATADA"]
  /\ unit' = [unit EXCEPT
                ![sale[s].unit] = IF @ \in {"VENDIDA", "QUITADA"}
                                  THEN "DISTRATADA" ELSE @]
  /\ UNCHANGED <<now, resv, prop, opp, req, owed>>

Tick ==
  /\ now < MaxTime
  /\ now' = now + 1
  /\ UNCHANGED <<unit, resv, prop, sale, opp, req, owed>>

-----------------------------------------------------------------------------
ReservationNext ==
  \/ \E u \in Units : NormalizeExpiredUnit(u)
  \/ \E r \in Reservations, u \in Units, c \in People,
       o \in OrNull(Opportunities), t \in Deadlines :
       CreateReservation(r, u, c, o, t)
  \/ \E r \in Reservations : CancelReservation(r) \/ ConvertReservation(r)

ProposalNext ==
  \/ \E p \in Proposals, u \in Units, c \in People,
       o \in OrNull(Opportunities), r \in OrNull(Reservations),
       t \in OrNull(Deadlines) : CreateProposal(p, u, c, o, r, t)
  \/ \E p \in Proposals, t \in OrNull(Deadlines) : CreateVersion(p, t)
  \/ \E p \in Proposals : \/ Send(p)
                         \/ Reject(p)
                         \/ NormalizeExpired(p)
                         \/ TrailingFindOne(p)

RequestNext ==
  \E q \in Requests :
    \/ \E op \in {"accept", "convert"}, p \in Proposals :
         ReadCandidate(q, op, p)
    \/ AcceptReserved(q)
    \/ \E r \in Reservations : AcceptAvailable(q, r)
    \/ \E s \in Sales : ConvertProposal(q, s)
    \/ RequestFails(q)

UnitNext ==
  \E u \in Units :
    \/ \E status \in ManualStatus : CreateUnit(u, status) \/ UpdateUnit(u, status)
    \/ RemoveUnit(u)

OpportunityNext ==
  \E o \in Opportunities :
    \/ \E c \in People, d \in OrNull(Developments), u \in OrNull(Units) :
         CreateOpportunity(o, c, d, u) \/ UpdateOpportunity(o, c, d, u)
    \/ \E stage \in {"OPEN", "WON", "LOST"} : MoveOpportunity(o, stage)
    \/ RemoveOpportunity(o)

SaleNext ==
  \E s \in Sales :
    \/ \E paid \in BOOLEAN, status \in {"ATIVA", "QUITADA"} :
         SyncSaleStatus(s, paid, status)
    \/ CancelSale(s)

Next ==
  \/ ReservationNext
  \/ ProposalNext
  \/ RequestNext
  \/ UnitNext
  \/ OpportunityNext
  \/ SaleNext
  \/ Crash
  \/ Tick

Spec == Init /\ [][Next]_vars

-----------------------------------------------------------------------------
(* What the pipeline promises.                                             *)

HoldersOf(u) == {r \in Reservations : resv[r].status = "ATIVA"
                                       /\ resv[r].unit = u}

Committed(p) == prop[p].status = "ACEITA" /\ ~prop[p].converted

BuyersOf(u) == {p \in Proposals : Committed(p) /\ prop[p].unit = u}

OwnersOf(u) == {s \in Sales : LiveSale(s) /\ sale[s].unit = u}

\* While a reservation is ATIVA its unit is RESERVADA: no expiry, cancellation,
\* sale or manual edit of a unit takes the unit from under its holder.
ActiveReservationHoldsUnit ==
  \A r \in Reservations :
    resv[r].status = "ATIVA" => unit[resv[r].unit] = "RESERVADA"

\* A unit has at most one taker: one active reservation, or one accepted
\* proposal that is not yet sold, and never both, whatever the interleaving of
\* create, accept, cancel, convert and the lazy expiries.
ExclusiveClaim ==
  /\ \A r1, r2 \in Reservations :
       /\ resv[r1].status = "ATIVA"
       /\ resv[r2].status = "ATIVA"
       /\ resv[r1].unit = resv[r2].unit
       => r1 = r2
  /\ \A p1, p2 \in Proposals :
       Committed(p1) /\ Committed(p2) /\ prop[p1].unit = prop[p2].unit
       => p1 = p2
  /\ \A p \in Proposals, r \in Reservations :
       Committed(p) /\ resv[r].status = "ATIVA" => resv[r].unit # prop[p].unit

\* From accept to convertProposal the accepted proposal keeps its unit
\* RESERVADA, through its own CONVERTIDA reservation of the same unit, client
\* and opportunity (also when the opportunity is deleted meanwhile), so that
\* the checks on unit and reservation in convertProposal cannot fail.
AcceptedKeepsUnit ==
  \A p \in Proposals : Committed(p) =>
    /\ unit[prop[p].unit] = "RESERVADA"
    /\ prop[p].resv # Null
    /\ LET r == resv[prop[p].resv] IN
         /\ r.status = "CONVERTIDA"
         /\ r.unit = prop[p].unit
         /\ r.person = prop[p].person
         /\ r.opp = prop[p].opp

\* The inductive core of the three properties above (TypeOK makes every row
\* that is not absent name a unit).
ClaimInv ==
  /\ TypeOK
  /\ ActiveReservationHoldsUnit
  /\ ExclusiveClaim
  /\ AcceptedKeepsUnit

\* Two live sales never share a unit, even when a unit under a live sale is
\* put back to DISPONIVEL by hand and goes through the pipeline again.
OneLiveSalePerUnit ==
  \A s1, s2 \in Sales :
    LiveSale(s1) /\ LiveSale(s2) /\ sale[s1].unit = sale[s2].unit => s1 = s2

\* A sale is the sale of one accepted proposal, of its unit and opportunity
\* and with the amounts of the version that was accepted; a converted proposal
\* has its sale, and no other proposal shares it (convertProposal called twice
\* creates one sale).
SaleMatchesProposal ==
  /\ \A s \in Sales : sale[s].status # "ABSENT" =>
       /\ sale[s].prop # Null
       /\ LET p == prop[sale[s].prop] IN
            /\ p.status = "ACEITA"
            /\ p.converted
            /\ p.unit = sale[s].unit
            /\ p.opp = sale[s].opp
            /\ p.version = sale[s].version
  /\ \A s1, s2 \in Sales :
       sale[s1].prop # Null /\ sale[s1].prop = sale[s2].prop => s1 = s2
  /\ \A p \in Proposals : prop[p].converted =>
       \E s \in Sales : sale[s].prop = p

\* A decision is final: an accepted, refused or expired proposal keeps its
\* status and its version, and a reservation that ended stays ended, also when
\* a trailing findOne, a stale request or a second cancel arrives later.
DecidedIsFinal ==
  [][ /\ \A p \in Proposals :
           prop[p].status \in {"ACEITA", "RECUSADA", "EXPIRADA"} =>
             /\ prop'[p].status = prop[p].status
             /\ prop'[p].version = prop[p].version
             /\ prop[p].converted => prop'[p].converted
      /\ \A r \in Reservations :
           resv[r].status \in {"CANCELADA", "EXPIRADA", "CONVERTIDA"} =>
             resv'[r].status = resv[r].status ]_vars

\* The sale of a proposal with an opportunity leaves that opportunity won, of
\* the same client, bound to the unit sold and to its development, although
\* the opportunity can be edited, moved or deleted between accept and sale.
SaleWinsOpportunity ==
  [][ \A s \in Sales :
        /\ sale[s].status = "ABSENT"
        /\ sale'[s].status # "ABSENT"
        /\ sale'[s].opp # Null
        => opp'[sale'[s].opp] = [stage |-> "WON",
                                 person |-> prop[sale'[s].prop].person,
                                 dev |-> DevelopmentOf[sale'[s].unit],
                                 unit |-> sale'[s].unit] ]_vars

-----------------------------------------------------------------------------
(* The abstract view of the tables.                                        *)

Allocation == INSTANCE UnitAllocation WITH
  holder <- [u \in Units |-> HoldersOf(u)],
  buyer  <- [u \in Units |-> BuyersOf(u)],
  owner  <- [u \in Units |-> OwnersOf(u)],
  lapsed <- {r \in Reservations : /\ resv[r].status = "ATIVA"
                                  /\ resv[r].expiresAt <= now},
  frozen <- {u \in Units : /\ unit[u] = "RESERVADA"
                           /\ HoldersOf(u) \cup BuyersOf(u) = {}}

\* The four services together implement the unit allocation: a unit passes
\* from one holder to the next only once the first has let go or lapsed, is
\* committed to one buyer at a time, is sold only to that buyer and only when
\* nobody owns it, and a unit frozen by a stand-alone reservation conversion
\* is never held, committed or sold again.
ImplementsUnitAllocation == Allocation!AllocationSpec

=============================================================================
