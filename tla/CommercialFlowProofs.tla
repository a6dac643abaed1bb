------------------------ MODULE CommercialFlowProofs ------------------------
(***************************************************************************)
(* Theorems of CommercialFlow, for every set of units, reservations,       *)
(* proposals, sales, clients, opportunities and concurrent requests: the   *)
(* claims on a unit, then decisions, sales and opportunities, which rest   *)
(* on them, and at last that the tables implement UnitAllocation.          *)
(***************************************************************************)
EXTENDS CommercialFlow, TLAPS

-----------------------------------------------------------------------------
(* Facts about the operators of the model.                                 *)

\* Expiring a unit's reservations keeps every reservation row well formed.
LEMMA ExpiredRowsType ==
  ASSUME TypeOK, NEW u
  PROVE  ExpiredRows(u) \in [Reservations -> ReservationRow \cup {AbsentReservation}]
<1>1. ASSUME NEW r \in ExpiredOn(u)
      PROVE  [resv[r] EXCEPT !.status = "EXPIRADA"] \in ReservationRow
  BY <1>1 DEF ExpiredOn, TypeOK, ReservationRow, AbsentReservation
<1>2. QED
  BY <1>1 DEF ExpiredRows, ExpiredOn, TypeOK

\* The status expireLockedUnit leaves is a status.
LEMMA ReleasedStatusType ==
  ASSUME TypeOK, NEW u \in Units
  PROVE  ReleasedStatus(u) \in UnitStatuses \cup {"ABSENT"}
BY DEF ReleasedStatus, TypeOK, UnitStatuses

\* ON DELETE SET NULL keeps a row well formed.
LEMMA UnlinkType ==
  ASSUME TypeOK, NEW o \in Opportunities
  PROVE  /\ \A r \in Reservations :
              Unlink(resv[r], o) \in ReservationRow \cup {AbsentReservation}
         /\ \A p \in Proposals :
              Unlink(prop[p], o) \in ProposalRow \cup {AbsentProposal}
         /\ \A s \in Sales : Unlink(sale[s], o) \in SaleRow \cup {AbsentSale}
<1>1. ASSUME NEW r \in Reservations
      PROVE  Unlink(resv[r], o) \in ReservationRow \cup {AbsentReservation}
  BY <1>1 DEF TypeOK, Unlink, ReservationRow, AbsentReservation, OrNull
<1>2. ASSUME NEW p \in Proposals
      PROVE  Unlink(prop[p], o) \in ProposalRow \cup {AbsentProposal}
  <2> DEFINE nulled == [prop[p] EXCEPT !.opp = Null]
  <2>1. CASE prop[p] \in ProposalRow
    <3>1. nulled \in ProposalRow
      BY <2>1 DEF ProposalRow, OrNull
    <3>2. Unlink(prop[p], o) \in {nulled, prop[p]}
      BY DEF Unlink
    <3>3. QED
      BY <2>1, <3>1, <3>2
  <2>2. CASE prop[p] = AbsentProposal
    BY <2>2, NullAssumption DEF Unlink, AbsentProposal
  <2>3. QED
    BY <2>1, <2>2 DEF TypeOK
<1>3. ASSUME NEW s \in Sales
      PROVE  Unlink(sale[s], o) \in SaleRow \cup {AbsentSale}
  <2> DEFINE nulled == [sale[s] EXCEPT !.opp = Null]
  <2>1. CASE sale[s] \in SaleRow
    <3>1. nulled \in SaleRow
      BY <2>1 DEF SaleRow, OrNull
    <3>2. Unlink(sale[s], o) \in {nulled, sale[s]}
      BY DEF Unlink
    <3>3. QED
      BY <2>1, <3>1, <3>2
  <2>2. CASE sale[s] = AbsentSale
    BY <2>2, NullAssumption DEF Unlink, AbsentSale
  <2>3. QED
    BY <2>1, <2>2 DEF TypeOK
<1>4. QED
  BY <1>1, <1>2, <1>3

-----------------------------------------------------------------------------
(* The type invariant.                                                     *)

LEMMA InitType == Init => TypeOK
BY BoundAssumption DEF Init, TypeOK, Times, UnitStatuses

LEMMA ReservationNextType == TypeOK /\ ReservationNext => TypeOK'
<1> SUFFICES ASSUME TypeOK, ReservationNext PROVE TypeOK'
  OBVIOUS
<1>1. ASSUME NEW u \in Units, NormalizeExpiredUnit(u) PROVE TypeOK'
  BY <1>1, ExpiredRowsType, ReleasedStatusType DEF NormalizeExpiredUnit, TypeOK
<1>2. ASSUME NEW r \in Reservations, NEW u \in Units, NEW c \in People,
             NEW o \in OrNull(Opportunities), NEW t \in Deadlines,
             CreateReservation(r, u, c, o, t)
      PROVE  TypeOK'
  <2>1. [status |-> "ATIVA", unit |-> u, person |-> c, opp |-> o,
         expiresAt |-> t] \in ReservationRow
    BY <1>2, BoundAssumption DEF ReservationRow, Times
  <2>2. resv' \in [Reservations -> ReservationRow \cup {AbsentReservation}]
    BY <1>2, <2>1, ExpiredRowsType DEF CreateReservation
  <2>3. unit' \in [Units -> UnitStatuses \cup {"ABSENT"}]
    BY <1>2 DEF CreateReservation, TypeOK, UnitStatuses
  <2>4. QED
    BY <1>2, <2>2, <2>3 DEF CreateReservation, TypeOK
<1>3. ASSUME NEW r \in Reservations, NEW to \in {"CANCELADA", "CONVERTIDA"},
             NEW u, StillActive(r)
      PROVE  [ExpiredRows(u) EXCEPT ![r].status = to]
               \in [Reservations -> ReservationRow \cup {AbsentReservation}]
  <2>1. ExpiredRows(u)[r] \in ReservationRow
    BY <1>3, ExpiredRowsType
       DEF StillActive, ExpiredRows, TypeOK, ReservationRow, AbsentReservation
  <2>2. [ExpiredRows(u)[r] EXCEPT !.status = to] \in ReservationRow
    BY <2>1 DEF ReservationRow
  <2>3. QED
    BY <2>2, ExpiredRowsType
<1>4. ASSUME NEW r \in Reservations, CancelReservation(r) PROVE TypeOK'
  <2>1. unit' \in [Units -> UnitStatuses \cup {"ABSENT"}]
    BY <1>4 DEF CancelReservation, TypeOK, UnitStatuses
  <2>2. QED
    BY <1>3, <1>4, <2>1 DEF CancelReservation, TypeOK
<1>5. ASSUME NEW r \in Reservations, ConvertReservation(r) PROVE TypeOK'
  <2>1. unit' \in [Units -> UnitStatuses \cup {"ABSENT"}]
    BY <1>5, ReleasedStatusType DEF ConvertReservation, TypeOK
  <2>2. QED
    BY <1>3, <1>5, <2>1 DEF ConvertReservation, TypeOK
<1>6. QED
  BY <1>1, <1>2, <1>4, <1>5 DEF ReservationNext

\* A proposal row that changes one of its fields stays well formed.
LEMMA ProposalStatusType ==
  ASSUME TypeOK, NEW p \in Proposals, prop[p].status # "ABSENT",
         NEW to \in {"ENVIADA", "RECUSADA", "EXPIRADA", "ACEITA"}
  PROVE  /\ prop[p] \in ProposalRow
         /\ [prop[p] EXCEPT !.status = to] \in ProposalRow
BY DEF TypeOK, ProposalRow, AbsentProposal

LEMMA ProposalNextType == TypeOK /\ ProposalNext => TypeOK'
<1> SUFFICES ASSUME TypeOK, ProposalNext PROVE TypeOK'
  OBVIOUS
<1>1. ASSUME NEW p \in Proposals, NEW u \in Units, NEW c \in People,
             NEW o \in OrNull(Opportunities), NEW r \in OrNull(Reservations),
             NEW t \in OrNull(Deadlines), CreateProposal(p, u, c, o, r, t)
      PROVE  TypeOK'
  <2>1. [status |-> "RASCUNHO", unit |-> u, person |-> c, opp |-> o,
         resv |-> r, validUntil |-> t, version |-> 1, converted |-> FALSE]
          \in ProposalRow
    BY BoundAssumption DEF ProposalRow, OrNull, Times
  <2>2. QED
    BY <1>1, <2>1 DEF CreateProposal, TypeOK
<1>2. ASSUME NEW p \in Proposals, NEW t \in OrNull(Deadlines), CreateVersion(p, t)
      PROVE  TypeOK'
  <2>1. prop[p] \in ProposalRow
    BY <1>2 DEF CreateVersion, TypeOK, AbsentProposal
  <2>2. prop'[p] \in ProposalRow
    <3>1. t \in OrNull(Times) /\ prop[p].version + 1 \in Nat
      BY <2>1, BoundAssumption DEF ProposalRow, OrNull, Times
    <3>2. ASSUME NEW to \in {"RASCUNHO", "EM_NEGOCIACAO"}
          PROVE  [prop[p] EXCEPT !.version = @ + 1, !.validUntil = t,
                                 !.status = to] \in ProposalRow
      BY <2>1, <3>1 DEF ProposalRow
    <3>3. QED
      BY <1>2, <3>2 DEF CreateVersion, TypeOK
  <2>3. QED
    BY <1>2, <2>2 DEF CreateVersion, TypeOK
<1>3. ASSUME NEW p \in Proposals, Send(p) PROVE TypeOK'
  BY <1>3, ProposalStatusType DEF Send, TypeOK
<1>4. ASSUME NEW p \in Proposals, Reject(p) PROVE TypeOK'
  BY <1>4, ProposalStatusType DEF Reject, Negotiable, TypeOK
<1>5. ASSUME NEW p \in Proposals, NormalizeExpired(p) PROVE TypeOK'
  BY <1>5, ProposalStatusType DEF NormalizeExpired, Overdue, Negotiable, TypeOK
<1>6. ASSUME NEW p \in Proposals, TrailingFindOne(p) PROVE TypeOK'
  <2>1. CASE Overdue(p)
    BY <1>6, <2>1, ProposalStatusType
       DEF TrailingFindOne, Overdue, Negotiable, TypeOK
  <2>2. CASE ~Overdue(p)
    BY <1>6, <2>2 DEF TrailingFindOne, TypeOK
  <2>3. QED
    BY <2>1, <2>2
<1>7. QED
  BY <1>1, <1>2, <1>3, <1>4, <1>5, <1>6 DEF ProposalNext

\* A request that is about to accept or convert names a proposal.
LEMMA RequestType ==
  ASSUME TypeOK, NEW q \in Requests, req[q].op \in {"accept", "convert"}
  PROVE  /\ req[q].prop \in Proposals
         /\ req[q].resv \in OrNull(Reservations)
BY DEF TypeOK, RequestState, Idle

\* The status of a reservation that exists can be replaced.
LEMMA ReservationStatusType ==
  ASSUME TypeOK, NEW r \in Reservations, resv[r].status # "ABSENT"
  PROVE  /\ resv[r] \in ReservationRow
         /\ [resv[r] EXCEPT !.status = "CONVERTIDA"] \in ReservationRow
BY DEF TypeOK, ReservationRow, AbsentReservation

\* Winning an opportunity keeps the table well formed.
LEMMA WonOpportunityType ==
  ASSUME TypeOK, NEW o \in OrNull(Opportunities), NEW u \in Units,
         o # Null => opp[o].stage \in {"OPEN", "WON"}
  PROVE  /\ AcceptedOpportunity(o, u)
               \in [Opportunities -> OpportunityRow \cup {AbsentOpportunity}]
         /\ SoldOpportunity(o, u)
               \in [Opportunities -> OpportunityRow \cup {AbsentOpportunity}]
<1>1. CASE o = Null
  BY <1>1 DEF AcceptedOpportunity, SoldOpportunity, TypeOK
<1>2. CASE o # Null
  <2>1. opp[o] \in OpportunityRow
    BY <1>2 DEF TypeOK, AbsentOpportunity, OrNull
  <2>2. [opp[o] EXCEPT !.stage = "WON", !.unit = u] \in OpportunityRow
    BY <2>1 DEF OpportunityRow, OrNull
  <2>3. QED
    BY <1>2, <2>2 DEF AcceptedOpportunity, SoldOpportunity, TypeOK
<1>3. QED
  BY <1>1, <1>2

LEMMA RequestNextType == TypeOK /\ RequestNext => TypeOK'
<1> SUFFICES ASSUME TypeOK, NEW q \in Requests,
                    \/ \E op \in {"accept", "convert"}, p \in Proposals :
                         ReadCandidate(q, op, p)
                    \/ AcceptReserved(q)
                    \/ \E r \in Reservations : AcceptAvailable(q, r)
                    \/ \E s \in Sales : ConvertProposal(q, s)
                    \/ RequestFails(q)
             PROVE  TypeOK'
  BY DEF RequestNext
<1> DEFINE p == req[q].prop
           r == req[q].resv
           u == prop[p].unit
           o == prop[p].opp
<1>1. ASSUME NEW op \in {"accept", "convert"}, NEW cand \in Proposals,
             ReadCandidate(q, op, cand)
      PROVE  TypeOK'
  <2>1. prop[cand].resv \in OrNull(Reservations)
    BY DEF TypeOK, ProposalRow, AbsentProposal, OrNull
  <2>2. [op |-> op, prop |-> cand, resv |-> prop[cand].resv] \in RequestState
    BY <2>1 DEF RequestState
  <2>3. QED
    BY <1>1, <2>2 DEF ReadCandidate, TypeOK
<1>2. req' = [req EXCEPT ![q] = Idle] =>
        req' \in [Requests -> RequestState \cup {Idle}]
  BY DEF TypeOK
<1>3. ASSUME p \in Proposals, prop[p].status # "ABSENT"
      PROVE  /\ prop[p] \in ProposalRow
             /\ u \in Units
             /\ o \in OrNull(Opportunities)
  BY <1>3 DEF TypeOK, ProposalRow, AbsentProposal
<1>4. ASSUME NEW w \in Reservations, prop[p] \in ProposalRow
      PROVE  [prop[p] EXCEPT !.status = "ACEITA", !.resv = w] \in ProposalRow
  BY <1>4 DEF ProposalRow, OrNull
<1>5. ASSUME AcceptReserved(q) PROVE TypeOK'
  <2>1. /\ p \in Proposals
        /\ r \in Reservations
        /\ prop[p].status # "ABSENT"
        /\ resv[r].status # "ABSENT"
    BY <1>5, RequestType
       DEF AcceptReserved, AcceptGuard, Negotiable, ReservationBacks, OrNull
  <2>2. resv' \in [Reservations -> ReservationRow \cup {AbsentReservation}]
    BY <1>5, <2>1, ReservationStatusType DEF AcceptReserved, TypeOK
  <2>3. prop' \in [Proposals -> ProposalRow \cup {AbsentProposal}]
    BY <1>3, <1>4, <1>5, <2>1 DEF AcceptReserved, TypeOK
  <2>4. opp' \in [Opportunities -> OpportunityRow \cup {AbsentOpportunity}]
    BY <1>3, <1>5, <2>1, WonOpportunityType DEF AcceptReserved, WinsOpportunity
  <2>5. QED
    BY <1>2, <1>5, <2>1, <2>2, <2>3, <2>4 DEF AcceptReserved, TypeOK
<1>6. ASSUME NEW h \in Reservations, AcceptAvailable(q, h) PROVE TypeOK'
  <2>1. p \in Proposals /\ prop[p].status # "ABSENT"
    BY <1>6, RequestType DEF AcceptAvailable, AcceptGuard, Negotiable
  <2>2. /\ prop[p].person \in People
        /\ now + 1 \in Times
    BY <1>3, <2>1 DEF ProposalRow, TypeOK, Times
  <2>3. [status |-> "CONVERTIDA", unit |-> u, person |-> prop[p].person,
         opp |-> o, expiresAt |-> now + 1] \in ReservationRow
    BY <1>3, <2>1, <2>2 DEF ReservationRow
  <2>4. resv' \in [Reservations -> ReservationRow \cup {AbsentReservation}]
    BY <1>6, <2>3 DEF AcceptAvailable, TypeOK
  <2>5. prop' \in [Proposals -> ProposalRow \cup {AbsentProposal}]
    BY <1>3, <1>4, <1>6, <2>1 DEF AcceptAvailable, TypeOK
  <2>6. opp' \in [Opportunities -> OpportunityRow \cup {AbsentOpportunity}]
    BY <1>3, <1>6, <2>1, WonOpportunityType DEF AcceptAvailable, WinsOpportunity
  <2>7. unit' \in [Units -> UnitStatuses \cup {"ABSENT"}]
    BY <1>6 DEF AcceptAvailable, TypeOK, UnitStatuses
  <2>8. QED
    BY <1>2, <1>6, <2>1, <2>4, <2>5, <2>6, <2>7 DEF AcceptAvailable, TypeOK
<1>7. ASSUME NEW s \in Sales, ConvertProposal(q, s) PROVE TypeOK'
  <2>1. /\ p \in Proposals
        /\ r \in Reservations
        /\ prop[p].status # "ABSENT"
        /\ resv[r].status # "ABSENT"
    BY <1>7, RequestType DEF ConvertProposal, ReservationSellable, OrNull
  <2>2. resv' \in [Reservations -> ReservationRow \cup {AbsentReservation}]
    BY <1>7, <2>1, ReservationStatusType DEF ConvertProposal, TypeOK
  <2>3. [prop[p] EXCEPT !.converted = TRUE] \in ProposalRow
    BY <1>3, <2>1 DEF ProposalRow
  <2>4. prop' \in [Proposals -> ProposalRow \cup {AbsentProposal}]
    BY <1>7, <2>3 DEF ConvertProposal, TypeOK
  <2>5. opp' \in [Opportunities -> OpportunityRow \cup {AbsentOpportunity}]
    BY <1>3, <1>7, <2>1, WonOpportunityType DEF ConvertProposal, WinsOpportunity
  <2>6. [status |-> "ATIVA", unit |-> u, prop |-> p, opp |-> o,
         version |-> prop[p].version, paid |-> FALSE] \in SaleRow
    BY <1>3, <2>1 DEF ProposalRow, SaleRow
  <2>7. /\ sale' \in [Sales -> SaleRow \cup {AbsentSale}]
        /\ unit' \in [Units -> UnitStatuses \cup {"ABSENT"}]
    BY <1>7, <2>6 DEF ConvertProposal, TypeOK, UnitStatuses
  <2>8. QED
    BY <1>2, <1>7, <2>2, <2>4, <2>5, <2>7 DEF ConvertProposal, TypeOK
<1>8. ASSUME RequestFails(q) PROVE TypeOK'
  BY <1>2, <1>8 DEF RequestFails, TypeOK
<1>9. QED
  BY <1>1, <1>5, <1>6, <1>7, <1>8

LEMMA UnitNextType == TypeOK /\ UnitNext => TypeOK'
<1> SUFFICES ASSUME TypeOK, NEW u \in Units,
                    \/ \E status \in ManualStatus :
                         CreateUnit(u, status) \/ UpdateUnit(u, status)
                    \/ RemoveUnit(u)
             PROVE  TypeOK'
  BY DEF UnitNext
<1>1. ASSUME NEW status \in ManualStatus,
             CreateUnit(u, status) \/ UpdateUnit(u, status)
      PROVE  TypeOK'
  BY <1>1, ManualAssumption DEF CreateUnit, UpdateUnit, TypeOK
<1>2. ASSUME RemoveUnit(u) PROVE TypeOK'
  <2>1. ASSUME NEW o \in Opportunities, opp[o].unit = u
        PROVE  [opp[o] EXCEPT !.unit = Null] \in OpportunityRow
    <3>1. opp[o] \in OpportunityRow
      BY <2>1, NullAssumption DEF TypeOK, AbsentOpportunity
    <3>2. QED
      BY <3>1 DEF OpportunityRow, OrNull
  <2>2. opp' \in [Opportunities -> OpportunityRow \cup {AbsentOpportunity}]
    BY <1>2, <2>1 DEF RemoveUnit, TypeOK
  <2>3. unit' \in [Units -> UnitStatuses \cup {"ABSENT"}]
    BY <1>2 DEF RemoveUnit, TypeOK
  <2>4. QED
    BY <1>2, <2>2, <2>3 DEF RemoveUnit, TypeOK
<1>3. QED
  BY <1>1, <1>2

LEMMA OpportunityNextType == TypeOK /\ OpportunityNext => TypeOK'
<1> SUFFICES ASSUME TypeOK, NEW o \in Opportunities,
                    \/ \E c \in People, d \in OrNull(Developments),
                         u \in OrNull(Units) :
                         \/ CreateOpportunity(o, c, d, u)
                         \/ UpdateOpportunity(o, c, d, u)
                    \/ \E stage \in {"OPEN", "WON", "LOST"} :
                         MoveOpportunity(o, stage)
                    \/ RemoveOpportunity(o)
             PROVE  TypeOK'
  BY DEF OpportunityNext
<1>1. ASSUME NEW d \in OrNull(Developments), NEW u \in OrNull(Units)
      PROVE  TargetDevelopment(d, u) \in OrNull(Developments)
  BY DevelopmentAssumption DEF TargetDevelopment, OrNull
<1>2. ASSUME NEW c \in People, NEW d \in OrNull(Developments),
             NEW u \in OrNull(Units), CreateOpportunity(o, c, d, u)
      PROVE  TypeOK'
  <2>1. [stage |-> "OPEN", person |-> c, dev |-> TargetDevelopment(d, u),
         unit |-> u] \in OpportunityRow
    BY <1>1 DEF OpportunityRow
  <2>2. QED
    BY <1>2, <2>1 DEF CreateOpportunity, TypeOK
<1>3. ASSUME NEW c \in People, NEW d \in OrNull(Developments),
             NEW u \in OrNull(Units), UpdateOpportunity(o, c, d, u)
      PROVE  TypeOK'
  <2>1. opp[o] \in OpportunityRow
    <3>1. opp[o].stage # "ABSENT"
      BY <1>3 DEF UpdateOpportunity
    <3>2. QED
      BY <3>1 DEF TypeOK, AbsentOpportunity
  <2>2. [opp[o] EXCEPT !.person = c, !.dev = TargetDevelopment(d, u),
                       !.unit = u] \in OpportunityRow
    BY <1>1, <2>1 DEF OpportunityRow
  <2>3. QED
    BY <1>3, <2>2 DEF UpdateOpportunity, TypeOK
<1>4. ASSUME NEW stage \in {"OPEN", "WON", "LOST"}, MoveOpportunity(o, stage)
      PROVE  TypeOK'
  <2>1. opp[o] \in OpportunityRow
    BY <1>4 DEF MoveOpportunity, TypeOK, AbsentOpportunity
  <2>2. [opp[o] EXCEPT !.stage = stage] \in OpportunityRow
    BY <2>1 DEF OpportunityRow
  <2>3. QED
    BY <1>4, <2>2 DEF MoveOpportunity, TypeOK
<1>5. ASSUME RemoveOpportunity(o) PROVE TypeOK'
  BY <1>5, UnlinkType DEF RemoveOpportunity, TypeOK
<1>6. QED
  BY <1>2, <1>3, <1>4, <1>5

LEMMA SaleNextType == TypeOK /\ SaleNext => TypeOK'
<1> SUFFICES ASSUME TypeOK, NEW s \in Sales,
                    \/ \E paid \in BOOLEAN, status \in {"ATIVA", "QUITADA"} :
                         SyncSaleStatus(s, paid, status)
                    \/ CancelSale(s)
             PROVE  TypeOK'
  BY DEF SaleNext
<1>1. LiveSale(s) => sale[s] \in SaleRow
  BY DEF LiveSale, TypeOK, AbsentSale
<1>2. ASSUME NEW paid \in BOOLEAN, NEW status \in {"ATIVA", "QUITADA"},
             SyncSaleStatus(s, paid, status)
      PROVE  TypeOK'
  <2>1. [sale[s] EXCEPT !.paid = paid, !.status = status] \in SaleRow
    BY <1>1, <1>2 DEF SyncSaleStatus, SaleRow
  <2>2. QED
    BY <1>2, <2>1 DEF SyncSaleStatus, TypeOK
<1>3. ASSUME CancelSale(s) PROVE TypeOK'
  <2>1. [sale[s] EXCEPT !.status = "DISTRATADA"] \in SaleRow
    BY <1>1, <1>3 DEF CancelSale, SaleRow
  <2>2. sale' \in [Sales -> SaleRow \cup {AbsentSale}]
    BY <1>3, <2>1 DEF CancelSale, TypeOK
  <2>3. unit' \in [Units -> UnitStatuses \cup {"ABSENT"}]
    BY <1>3 DEF CancelSale, TypeOK, UnitStatuses
  <2>4. QED
    BY <1>3, <2>2, <2>3 DEF CancelSale, TypeOK
<1>4. QED
  BY <1>2, <1>3

LEMMA NextType == TypeOK /\ [Next]_vars => TypeOK'
<1> SUFFICES ASSUME TypeOK, [Next]_vars PROVE TypeOK'
  OBVIOUS
<1>1. CASE Crash
  BY <1>1 DEF Crash, TypeOK
<1>2. CASE Tick
  BY <1>2 DEF Tick, TypeOK, Times
<1>3. CASE UNCHANGED vars
  BY <1>3 DEF vars, TypeOK
<1>4. QED
  BY <1>1, <1>2, <1>3, ReservationNextType, ProposalNextType, RequestNextType,
     UnitNextType, OpportunityNextType, SaleNextType DEF Next

\* Type correctness: every row of every table is absent or complete, however
\* many units, requests and rows there are.
THEOREM TypeCorrect == Spec => []TypeOK
BY InitType, NextType, PTL DEF Spec

-----------------------------------------------------------------------------
(* The claims on a unit.  ClaimInv is inductive: AcceptedKeepsUnit is what  *)
(* keeps a second taker out between accept and sale, and ExclusiveClaim is  *)
(* what makes releasing a unit on expiry safe.                              *)

Active(r) == resv[r].status = "ATIVA"

\* What expireLockedUnit does to one row.
LEMMA ExpiredRowsFacts ==
  ASSUME TypeOK, NEW u, NEW r \in Reservations
  PROVE  /\ ExpiredRows(u)[r].unit = resv[r].unit
         /\ ExpiredRows(u)[r].status = "ATIVA" <=> Active(r) /\ r \notin ExpiredOn(u)
         /\ ~Active(r) => ExpiredRows(u)[r] = resv[r]
BY DEF ExpiredRows, ExpiredOn, Active, TypeOK, ReservationRow, AbsentReservation

\* A unit whose reservation has expired has no other taker.
LEMMA ExpiredIsAlone ==
  ASSUME ClaimInv, NEW u, ExpiredOn(u) # {}
  PROVE  /\ \A r \in Reservations :
              Active(r) /\ resv[r].unit = u => r \in ExpiredOn(u)
         /\ \A p \in Proposals : Committed(p) => prop[p].unit # u
BY DEF ClaimInv, ExclusiveClaim, ExpiredOn, Active

\* An available unit has no taker.
LEMMA AvailableIsFree ==
  ASSUME ClaimInv, NEW u, unit[u] # "RESERVADA"
  PROVE  /\ \A r \in Reservations : Active(r) => resv[r].unit # u
         /\ \A p \in Proposals : Committed(p) => prop[p].unit # u
BY DEF ClaimInv, ActiveReservationHoldsUnit, AcceptedKeepsUnit, Active

\* Rows that exist name units.
LEMMA ClaimUnits ==
  ASSUME TypeOK
  PROVE  /\ \A r \in Reservations : Active(r) => resv[r].unit \in Units
         /\ \A p \in Proposals : Committed(p) =>
              /\ prop[p].unit \in Units
              /\ prop[p].resv \in OrNull(Reservations)
<1>1. \A r \in Reservations : Active(r) => resv[r].unit \in Units
  BY DEF TypeOK, Active, ReservationRow, AbsentReservation
<1>2. \A p \in Proposals : Committed(p) =>
        prop[p].unit \in Units /\ prop[p].resv \in OrNull(Reservations)
  BY DEF TypeOK, Committed, ProposalRow, AbsentProposal
<1>3. QED
  BY <1>1, <1>2

\* A step that creates no taker keeps the claims, provided that the units it
\* takes out of RESERVADA have no taker left.
LEMMA NoNewTaker ==
  ASSUME ClaimInv, TypeOK',
         \A r \in Reservations :
           Active(r)' => Active(r) /\ resv'[r].unit = resv[r].unit,
         \A p \in Proposals : Committed(p)' =>
           /\ Committed(p)
           /\ prop'[p].unit = prop[p].unit
           /\ prop'[p].person = prop[p].person
           /\ prop'[p].resv = prop[p].resv
           /\ LET r == prop[p].resv IN
                /\ resv'[r].status = "CONVERTIDA"
                /\ resv'[r].unit = resv[r].unit
                /\ resv'[r].person = resv[r].person
                /\ resv'[r].opp = prop'[p].opp,
         \A u \in Units : unit[u] = "RESERVADA" /\ unit'[u] # "RESERVADA" =>
           /\ \A r \in Reservations : Active(r)' => resv[r].unit # u
           /\ \A p \in Proposals : Committed(p)' => prop[p].unit # u
  PROVE  ClaimInv'
<1> USE DEF ClaimInv
<1>1. ActiveReservationHoldsUnit'
  BY ClaimUnits DEF ActiveReservationHoldsUnit, Active
<1>2. ExclusiveClaim'
  BY DEF ExclusiveClaim, Active
<1>3. AcceptedKeepsUnit'
  BY ClaimUnits DEF AcceptedKeepsUnit
<1>4. QED
  BY <1>1, <1>2, <1>3

\* In particular a step that touches none of the three tables.
LEMMA ClaimFrame ==
  ASSUME ClaimInv, TypeOK', UNCHANGED <<unit, resv, prop>>
  PROVE  ClaimInv'
BY DEF ClaimInv, ActiveReservationHoldsUnit, ExclusiveClaim, AcceptedKeepsUnit,
       Committed

LEMMA ReservationNextClaims == ClaimInv /\ ReservationNext /\ TypeOK' => ClaimInv'
<1> SUFFICES ASSUME ClaimInv, ReservationNext, TypeOK' PROVE ClaimInv'
  OBVIOUS
<1> TypeOK
  BY DEF ClaimInv
<1>1. ASSUME NEW u \in Units, NormalizeExpiredUnit(u) PROVE ClaimInv'
  <2>1. \A r \in Reservations :
          Active(r)' => /\ Active(r) /\ resv'[r].unit = resv[r].unit
                        /\ r \notin ExpiredOn(u)
    BY <1>1, ExpiredRowsFacts DEF NormalizeExpiredUnit, Active
  <2>2. ASSUME NEW p \in Proposals, Committed(p)'
        PROVE  /\ Committed(p)
               /\ prop'[p] = prop[p]
               /\ resv'[prop[p].resv] = resv[prop[p].resv]
    <3>1. Committed(p) /\ prop'[p] = prop[p]
      BY <1>1, <2>2 DEF NormalizeExpiredUnit, Committed
    <3>2. prop[p].resv \in Reservations /\ ~Active(prop[p].resv)
      BY <3>1, ClaimUnits DEF ClaimInv, AcceptedKeepsUnit, OrNull, Active
    <3>3. QED
      BY <1>1, <3>1, <3>2, ExpiredRowsFacts DEF NormalizeExpiredUnit
  <2>3. \A v \in Units : unit[v] = "RESERVADA" /\ unit'[v] # "RESERVADA" => v = u
    BY <1>1 DEF NormalizeExpiredUnit, TypeOK
  <2>4. ExpiredOn(u) # {}
    BY <1>1 DEF NormalizeExpiredUnit
  <2>5. QED
    BY <2>1, <2>2, <2>3, <2>4, ExpiredIsAlone, NoNewTaker
       DEF ClaimInv, AcceptedKeepsUnit
\* Takers that were there before are still there, and any other rows changed
\* by the step are not theirs.
<1>2. ASSUME NEW r \in Reservations, NEW u \in Units, NEW c \in People,
             NEW o \in OrNull(Opportunities), NEW t \in Deadlines,
             CreateReservation(r, u, c, o, t)
      PROVE  ClaimInv'
  <2>1. /\ \A s \in Reservations :
             Active(s) /\ s \notin ExpiredOn(u) => resv[s].unit # u
        /\ \A p \in Proposals : Committed(p) => prop[p].unit # u
    <3>1. unit[u] # "RESERVADA" \/ ExpiredOn(u) # {}
      BY <1>2 DEF CreateReservation, ReleasedStatus
    <3>2. QED
      BY <3>1, AvailableIsFree, ExpiredIsAlone
  <2>2. /\ resv'[r].status = "ATIVA"
        /\ resv'[r].unit = u
        /\ \A s \in Reservations \ {r} : resv'[s] = ExpiredRows(u)[s]
    BY <1>2, ExpiredRowsType DEF CreateReservation
  <2>3. \A s \in Reservations \ {r} : Active(s)' =>
          /\ Active(s)
          /\ resv'[s].unit = resv[s].unit
          /\ resv[s].unit # u
    BY <2>1, <2>2, ExpiredRowsFacts DEF Active
  <2>4. \A p \in Proposals : Committed(p)' =>
          Committed(p) /\ prop'[p] = prop[p] /\ prop[p].unit # u
    BY <1>2, <2>1 DEF CreateReservation, Committed
  <2>5. unit'[u] = "RESERVADA" /\ \A v \in Units \ {u} : unit'[v] = unit[v]
    BY <1>2 DEF CreateReservation, TypeOK
  <2>6. ActiveReservationHoldsUnit'
    BY <2>2, <2>3, <2>5, ClaimUnits
       DEF ClaimInv, ActiveReservationHoldsUnit, Active
  <2>7. ExclusiveClaim'
    BY <2>2, <2>3, <2>4 DEF ClaimInv, ExclusiveClaim, Active
  <2>8. AcceptedKeepsUnit'
    <3> SUFFICES ASSUME NEW p \in Proposals, Committed(p)'
                 PROVE  /\ unit'[prop'[p].unit] = "RESERVADA"
                        /\ prop'[p].resv # Null
                        /\ LET w == resv'[prop'[p].resv] IN
                             /\ w.status = "CONVERTIDA"
                             /\ w.unit = prop'[p].unit
                             /\ w.person = prop'[p].person
                             /\ w.opp = prop'[p].opp
      BY DEF AcceptedKeepsUnit
    <3>1. /\ prop[p].resv \in Reservations
          /\ resv[prop[p].resv].status = "CONVERTIDA"
          /\ unit[prop[p].unit] = "RESERVADA"
          /\ prop[p].unit \in Units
      BY <2>4, ClaimUnits DEF ClaimInv, AcceptedKeepsUnit, OrNull
    <3>2. resv'[prop[p].resv] = resv[prop[p].resv]
      BY <1>2, <2>2, <3>1, ExpiredRowsFacts DEF CreateReservation, Active
    <3>3. QED
      BY <2>4, <2>5, <3>1, <3>2 DEF ClaimInv, AcceptedKeepsUnit
  <2>9. QED
    BY <2>6, <2>7, <2>8 DEF ClaimInv
<1>3. ASSUME NEW r \in Reservations, NEW to \in {"CANCELADA", "CONVERTIDA"},
             StillActive(r), prop' = prop,
             resv' = [ExpiredRows(resv[r].unit) EXCEPT ![r].status = to],
             \A v \in Units \ {resv[r].unit} : unit'[v] = unit[v]
      PROVE  ClaimInv'
  <2> DEFINE u == resv[r].unit
  <2>1. /\ \A s \in Reservations \ {r} : Active(s) => resv[s].unit # u
        /\ \A p \in Proposals : Committed(p) => prop[p].unit # u
    BY <1>3 DEF StillActive, ClaimInv, ExclusiveClaim, Active
  <2>2. /\ resv'[r].status = to
        /\ \A s \in Reservations \ {r} : resv'[s] = ExpiredRows(u)[s]
    BY <1>3, ExpiredRowsType DEF StillActive, ReservationRow, AbsentReservation
  <2>3. \A s \in Reservations : Active(s)' =>
          Active(s) /\ resv'[s].unit = resv[s].unit /\ resv[s].unit # u
    BY <2>1, <2>2, ExpiredRowsFacts DEF Active
  <2>4. ASSUME NEW p \in Proposals, Committed(p)'
        PROVE  /\ Committed(p)
               /\ prop'[p] = prop[p]
               /\ prop[p].unit # u
               /\ resv'[prop[p].resv] = resv[prop[p].resv]
    <3>1. Committed(p) /\ prop'[p] = prop[p]
      BY <1>3, <2>4 DEF Committed
    <3>2. prop[p].resv \in Reservations /\ ~Active(prop[p].resv)
      BY <3>1, ClaimUnits DEF ClaimInv, AcceptedKeepsUnit, OrNull, Active
    <3>3. Active(r)
      BY <1>3 DEF StillActive, Active
    <3>4. QED
      BY <2>1, <2>2, <3>1, <3>2, <3>3, ExpiredRowsFacts
  <2>5. QED
    BY <1>3, <2>3, <2>4, NoNewTaker DEF ClaimInv, AcceptedKeepsUnit
<1>4. ASSUME NEW r \in Reservations, CancelReservation(r) PROVE ClaimInv'
  <2>1. \A v \in Units \ {resv[r].unit} : unit'[v] = unit[v]
    BY <1>4 DEF CancelReservation, TypeOK
  <2>2. QED
    BY <1>3, <1>4, <2>1 DEF CancelReservation
<1>5. ASSUME NEW r \in Reservations, ConvertReservation(r) PROVE ClaimInv'
  <2>1. \A v \in Units \ {resv[r].unit} : unit'[v] = unit[v]
    BY <1>5 DEF ConvertReservation, TypeOK
  <2>2. QED
    BY <1>3, <1>5, <2>1 DEF ConvertReservation
<1>6. QED
  BY <1>1, <1>2, <1>4, <1>5 DEF ReservationNext

LEMMA ProposalNextClaims == ClaimInv /\ ProposalNext /\ TypeOK' => ClaimInv'
<1> SUFFICES ASSUME ClaimInv, ProposalNext, TypeOK' PROVE ClaimInv'
  OBVIOUS
<1> TypeOK
  BY DEF ClaimInv
\* No proposal step but accept commits a proposal or touches a committed one.
<1>1. ASSUME UNCHANGED <<unit, resv>>,
             \A p \in Proposals : Committed(p)' => prop'[p] = prop[p]
      PROVE  ClaimInv'
  <2>1. \A p \in Proposals : Committed(p)' => Committed(p)
    BY <1>1 DEF Committed
  <2>2. QED
    BY <1>1, <2>1, NoNewTaker DEF ClaimInv, AcceptedKeepsUnit, Active
<1>2. ASSUME NEW p \in Proposals, NEW row, prop' = [prop EXCEPT ![p] = row],
             row.status # "ACEITA", UNCHANGED <<unit, resv>>
      PROVE  ClaimInv'
  BY <1>1, <1>2 DEF Committed, TypeOK
<1>3. ASSUME NEW p \in Proposals, NEW u \in Units, NEW c \in People,
             NEW o \in OrNull(Opportunities), NEW r \in OrNull(Reservations),
             NEW t \in OrNull(Deadlines), CreateProposal(p, u, c, o, r, t)
      PROVE  ClaimInv'
  <2> DEFINE row == [status |-> "RASCUNHO", unit |-> u, person |-> c, opp |-> o,
                     resv |-> r, validUntil |-> t, version |-> 1,
                     converted |-> FALSE]
  <2>1. row.status # "ACEITA"
    OBVIOUS
  <2>2. prop' = [prop EXCEPT ![p] = row] /\ UNCHANGED <<unit, resv>>
    BY <1>3 DEF CreateProposal
  <2> HIDE DEF row
  <2>3. QED
    BY <1>2, <2>1, <2>2
<1>4. ASSUME NEW p \in Proposals, NEW t \in OrNull(Deadlines), CreateVersion(p, t)
      PROVE  ClaimInv'
  <2>1. prop'[p].status # "ACEITA"
    BY <1>4 DEF CreateVersion, TypeOK, ProposalRow, AbsentProposal
  <2>2. \A s \in Proposals \ {p} : prop'[s] = prop[s]
    BY <1>4 DEF CreateVersion, TypeOK
  <2>3. QED
    BY <1>1, <1>4, <2>1, <2>2 DEF CreateVersion, Committed
<1>5. ASSUME NEW p \in Proposals, NEW to \in {"ENVIADA", "RECUSADA", "EXPIRADA"},
             prop' = [prop EXCEPT ![p].status = to], UNCHANGED <<unit, resv>>
      PROVE  ClaimInv'
  <2>1. prop'[p].status = to
    BY <1>5 DEF TypeOK, ProposalRow, AbsentProposal
  <2>2. \A s \in Proposals \ {p} : prop'[s] = prop[s]
    BY <1>5 DEF TypeOK
  <2>3. QED
    BY <1>1, <1>5, <2>1, <2>2 DEF Committed
<1>6. ASSUME NEW p \in Proposals, Send(p) PROVE ClaimInv'
  BY <1>5, <1>6 DEF Send
<1>7. ASSUME NEW p \in Proposals, Reject(p) PROVE ClaimInv'
  BY <1>5, <1>7 DEF Reject
<1>8. ASSUME NEW p \in Proposals, NormalizeExpired(p) PROVE ClaimInv'
  BY <1>5, <1>8 DEF NormalizeExpired
<1>9. ASSUME NEW p \in Proposals, TrailingFindOne(p) PROVE ClaimInv'
  <2>1. CASE Overdue(p)
    BY <1>5, <1>9, <2>1 DEF TrailingFindOne
  <2>2. CASE ~Overdue(p)
    BY <1>9, <2>2, ClaimFrame DEF TrailingFindOne
  <2>3. QED
    BY <2>1, <2>2
<1>10. QED
  BY <1>3, <1>4, <1>6, <1>7, <1>8, <1>9 DEF ProposalNext

\* Both ways to accept: afterwards p is the only taker of its unit u, through
\* the reservation h.
LEMMA AcceptClaims ==
  ASSUME ClaimInv, TypeOK',
         NEW p \in Proposals, NEW u \in Units, NEW h \in Reservations,
         prop[p].status # "ABSENT",
         prop[p].unit = u,
         prop' = [prop EXCEPT ![p].status = "ACEITA", ![p].resv = h],
         \A s \in Reservations \ {h} : resv'[s] = resv[s],
         resv'[h].status = "CONVERTIDA",
         resv'[h].unit = u,
         resv'[h].person = prop[p].person,
         resv'[h].opp = prop[p].opp,
         resv[h].status # "CONVERTIDA",
         unit'[u] = "RESERVADA",
         \A v \in Units \ {u} : unit'[v] = unit[v],
         \A s \in Reservations \ {h} : Active(s) => resv[s].unit # u,
         \A s \in Proposals : Committed(s) => prop[s].unit # u
  PROVE  ClaimInv'
<1> TypeOK
  BY DEF ClaimInv
<1>1. /\ prop'[p].status = "ACEITA"
      /\ prop'[p].resv = h
      /\ prop'[p].unit = u
      /\ prop'[p].person = prop[p].person
      /\ prop'[p].opp = prop[p].opp
      /\ \A s \in Proposals \ {p} : prop'[s] = prop[s]
  BY DEF TypeOK, ProposalRow, AbsentProposal
<1>2. \A s \in Reservations : Active(s)' =>
        Active(s) /\ resv'[s] = resv[s] /\ resv[s].unit # u
  BY DEF Active
<1>3. \A s \in Proposals \ {p} : Committed(s)' =>
        Committed(s) /\ prop'[s] = prop[s] /\ prop[s].unit # u
  BY <1>1 DEF Committed
<1>4. ActiveReservationHoldsUnit'
  BY <1>2, ClaimUnits DEF ClaimInv, ActiveReservationHoldsUnit, Active
<1>5. ExclusiveClaim'
  <2>1. \A r1, r2 \in Reservations :
          Active(r1)' /\ Active(r2)' /\ resv'[r1].unit = resv'[r2].unit => r1 = r2
    BY <1>2 DEF ClaimInv, ExclusiveClaim, Active
  <2>2. \A p1, p2 \in Proposals :
          Committed(p1)' /\ Committed(p2)' /\ prop'[p1].unit = prop'[p2].unit
          => p1 = p2
    <3>1. ASSUME NEW s \in Proposals \ {p}, Committed(s)'
          PROVE  Committed(s) /\ prop'[s].unit = prop[s].unit /\ prop[s].unit # u
      BY <1>3, <3>1
    <3>2. \A p1, p2 \in Proposals :
            Committed(p1) /\ Committed(p2) /\ prop[p1].unit = prop[p2].unit
            => p1 = p2
      BY DEF ClaimInv, ExclusiveClaim
    <3>3. prop'[p].unit = u
      BY <1>1
    <3>4. QED
      BY ONLY <3>1, <3>2, <3>3
  <2>3. \A s \in Proposals, r \in Reservations :
          Committed(s)' /\ Active(r)' => resv'[r].unit # prop'[s].unit
    <3>1. ASSUME NEW s \in Proposals, NEW r \in Reservations,
                 Committed(s)', Active(r)'
          PROVE  resv'[r].unit # prop'[s].unit
      <4>1. Active(r) /\ resv'[r].unit = resv[r].unit /\ resv[r].unit # u
        BY <1>2, <3>1
      <4>2. CASE s = p
        BY <1>1, <4>1, <4>2
      <4>3. CASE s # p
        <5>1. Committed(s) /\ prop'[s].unit = prop[s].unit
          BY <1>3, <3>1, <4>3
        <5>2. QED
          BY <4>1, <5>1 DEF ClaimInv, ExclusiveClaim, Active
      <4>4. QED
        BY <4>2, <4>3
    <3>2. QED
      BY <3>1
  <2>4. QED
    BY <2>1, <2>2, <2>3 DEF ExclusiveClaim, Active
<1>6. AcceptedKeepsUnit'
  <2> DEFINE Kept(s) ==
               /\ unit[prop[s].unit] = "RESERVADA"
               /\ prop[s].resv # Null
               /\ LET w == resv[prop[s].resv] IN
                    /\ w.status = "CONVERTIDA"
                    /\ w.unit = prop[s].unit
                    /\ w.person = prop[s].person
                    /\ w.opp = prop[s].opp
  <2>1. ASSUME NEW s \in Proposals \ {p}, Committed(s)'
        PROVE  Kept(s)'
    <3>1. /\ prop'[s] = prop[s]
          /\ unit'[prop[s].unit] = unit[prop[s].unit]
          /\ prop[s].resv \in Reservations
          /\ resv'[prop[s].resv] = resv[prop[s].resv]
          /\ Committed(s)
      BY <1>3, <2>1, ClaimUnits DEF ClaimInv, AcceptedKeepsUnit, OrNull
    <3>2. QED
      BY <3>1 DEF ClaimInv, AcceptedKeepsUnit
  <2>2. Kept(p)'
    BY <1>1, NullAssumption
  <2>3. QED
    BY <2>1, <2>2 DEF AcceptedKeepsUnit
<1>7. QED
  BY <1>4, <1>5, <1>6 DEF ClaimInv

LEMMA RequestNextClaims == ClaimInv /\ RequestNext /\ TypeOK' => ClaimInv'
<1> SUFFICES ASSUME ClaimInv, TypeOK', NEW q \in Requests,
                    \/ \E op \in {"accept", "convert"}, p \in Proposals :
                         ReadCandidate(q, op, p)
                    \/ AcceptReserved(q)
                    \/ \E r \in Reservations : AcceptAvailable(q, r)
                    \/ \E s \in Sales : ConvertProposal(q, s)
                    \/ RequestFails(q)
             PROVE  ClaimInv'
  BY DEF RequestNext
<1> TypeOK
  BY DEF ClaimInv
<1> DEFINE p == req[q].prop
           r == req[q].resv
           u == prop[p].unit
<1>1. ASSUME p \in Proposals, prop[p].status # "ABSENT"
      PROVE  u \in Units
  BY <1>1 DEF TypeOK, ProposalRow, AbsentProposal
<1>2. ASSUME AcceptReserved(q) PROVE ClaimInv'
  <2>1. /\ p \in Proposals
        /\ prop[p].status # "ABSENT"
        /\ r \in Reservations
    BY <1>2, RequestType DEF AcceptReserved, AcceptGuard, Negotiable, OrNull
  <2>2. /\ Active(r)
        /\ resv[r].unit = u
        /\ resv[r].person = prop[p].person
        /\ resv[r].opp = prop[p].opp
        /\ unit[u] = "RESERVADA"
        /\ unit' = unit
        /\ resv' = [resv EXCEPT ![r].status = "CONVERTIDA"]
        /\ prop' = [prop EXCEPT ![p].status = "ACEITA", ![p].resv = r]
    BY <1>2 DEF AcceptReserved, ReservationBacks, Active
  <2>3. /\ resv'[r].status = "CONVERTIDA"
        /\ resv'[r].unit = u
        /\ resv'[r].person = prop[p].person
        /\ resv'[r].opp = prop[p].opp
        /\ \A s \in Reservations \ {r} : resv'[s] = resv[s]
    BY <2>1, <2>2 DEF TypeOK, ReservationRow, AbsentReservation, Active
  <2>4. /\ \A s \in Reservations \ {r} : Active(s) => resv[s].unit # u
        /\ \A s \in Proposals : Committed(s) => prop[s].unit # u
    BY <2>1, <2>2 DEF ClaimInv, ExclusiveClaim, Active
  <2>5. resv[r].status # "CONVERTIDA"
    BY <2>2 DEF Active
  <2>6. QED
    BY <1>1, <2>1, <2>2, <2>3, <2>4, <2>5, AcceptClaims
<1>3. ASSUME NEW h \in Reservations, AcceptAvailable(q, h) PROVE ClaimInv'
  <2>1. p \in Proposals /\ prop[p].status # "ABSENT"
    BY <1>3, RequestType DEF AcceptAvailable, AcceptGuard, Negotiable
  <2>2. /\ unit[u] = "DISPONIVEL"
        /\ unit' = [unit EXCEPT ![u] = "RESERVADA"]
        /\ resv[h].status = "ABSENT"
        /\ prop' = [prop EXCEPT ![p].status = "ACEITA", ![p].resv = h]
    BY <1>3 DEF AcceptAvailable
  <2>3. /\ resv'[h].status = "CONVERTIDA"
        /\ resv'[h].unit = u
        /\ resv'[h].person = prop[p].person
        /\ resv'[h].opp = prop[p].opp
        /\ \A s \in Reservations \ {h} : resv'[s] = resv[s]
    BY <1>3 DEF AcceptAvailable, TypeOK
  <2>4. /\ unit'[u] = "RESERVADA"
        /\ \A v \in Units \ {u} : unit'[v] = unit[v]
    BY <1>1, <2>1, <2>2 DEF TypeOK
  <2>5. /\ \A s \in Reservations \ {h} : Active(s) => resv[s].unit # u
        /\ \A s \in Proposals : Committed(s) => prop[s].unit # u
    BY <2>2, AvailableIsFree
  <2>6. u \in Units /\ resv[h].status # "CONVERTIDA"
    BY <1>1, <2>1, <2>2
  <2>7. /\ prop' = [prop EXCEPT ![p].status = "ACEITA", ![p].resv = h]
        /\ prop[p].unit = u
    BY <2>2
  <2> HIDE DEF p, u
  <2>8. QED
    BY <2>1, <2>3, <2>4, <2>5, <2>6, <2>7, AcceptClaims
\* The sale ends the commitment, and with it the last claim on the unit.
<1>4. ASSUME NEW s \in Sales, ConvertProposal(q, s) PROVE ClaimInv'
  <2>1. /\ p \in Proposals
        /\ r \in Reservations
        /\ Committed(p)
    BY <1>4, RequestType DEF ConvertProposal, Committed, OrNull
  <2>2. /\ \A w \in Reservations : Active(w) => resv[w].unit # u
        /\ \A w \in Proposals \ {p} : Committed(w) => prop[w].unit # u
    BY <2>1 DEF ClaimInv, ExclusiveClaim, Active
  <2>3. resv[r].unit = u /\ resv[r].status = "CONVERTIDA"
    BY <1>4, <2>1, <2>2 DEF ConvertProposal, ReservationSellable, Active
  <2>4. \A w \in Reservations :
          /\ resv'[w].status = resv[w].status
          /\ resv'[w].unit = resv[w].unit
          /\ resv'[w].person = resv[w].person
          /\ resv'[w].opp = resv[w].opp
    <3>1. resv' = [resv EXCEPT ![r].status = "CONVERTIDA"]
      BY <1>4 DEF ConvertProposal
    <3>2. resv[r] \in ReservationRow
      BY <2>1, <2>3 DEF TypeOK, AbsentReservation
    <3>3. QED
      BY <2>1, <2>3, <3>1, <3>2 DEF TypeOK, ReservationRow
  <2>5. \A w \in Proposals : Committed(w)' =>
          w # p /\ Committed(w) /\ prop'[w] = prop[w]
    <3>1. prop'[p].converted
      BY <1>4, <2>1 DEF ConvertProposal, TypeOK, ProposalRow, AbsentProposal
    <3>2. \A w \in Proposals \ {p} : prop'[w] = prop[w]
      BY <1>4, <2>1 DEF ConvertProposal, TypeOK
    <3>3. QED
      BY <3>1, <3>2 DEF Committed
  <2>6. \A v \in Units \ {u} : unit'[v] = unit[v]
    BY <1>4 DEF ConvertProposal, TypeOK
  <2>7. \A w \in Proposals : Committed(w) =>
          prop[w].resv \in Reservations
    BY ClaimUnits DEF ClaimInv, AcceptedKeepsUnit, OrNull
  <2>8. QED
    BY <2>2, <2>4, <2>5, <2>6, <2>7, NoNewTaker
       DEF ClaimInv, AcceptedKeepsUnit, Active
<1>5. QED
  BY <1>2, <1>3, <1>4, ClaimFrame DEF ReadCandidate, RequestFails

LEMMA UnitNextClaims == ClaimInv /\ UnitNext /\ TypeOK' => ClaimInv'
<1> SUFFICES ASSUME ClaimInv, UnitNext, TypeOK' PROVE ClaimInv'
  OBVIOUS
<1> TypeOK
  BY DEF ClaimInv
<1>1. ASSUME UNCHANGED <<resv, prop>>, NEW u \in Units,
             \A v \in Units \ {u} : unit'[v] = unit[v],
             \/ unit[u] # "RESERVADA"
             \/ /\ \A r \in Reservations : resv[r].unit # u
                /\ \A p \in Proposals : prop[p].unit # u
      PROVE  ClaimInv'
  BY <1>1, NoNewTaker DEF ClaimInv, AcceptedKeepsUnit, Active, Committed
<1>2. ASSUME NEW u \in Units, NEW status \in ManualStatus,
             CreateUnit(u, status) \/ UpdateUnit(u, status)
      PROVE  ClaimInv'
  BY <1>1, <1>2 DEF CreateUnit, UpdateUnit, TypeOK
<1>3. ASSUME NEW u \in Units, RemoveUnit(u) PROVE ClaimInv'
  BY <1>1, <1>3 DEF RemoveUnit, TypeOK
<1>4. QED
  BY <1>2, <1>3 DEF UnitNext

\* Deleting an opportunity clears it from a proposal and from the proposal's
\* reservation alike, so they still agree.
LEMMA OpportunityNextClaims == ClaimInv /\ OpportunityNext /\ TypeOK' => ClaimInv'
<1> SUFFICES ASSUME ClaimInv, OpportunityNext, TypeOK' PROVE ClaimInv'
  OBVIOUS
<1> TypeOK
  BY DEF ClaimInv
<1>1. ASSUME NEW o \in Opportunities, RemoveOpportunity(o) PROVE ClaimInv'
  <2>1. \A r \in Reservations :
          /\ resv'[r].status = resv[r].status
          /\ resv'[r].unit = resv[r].unit
          /\ resv'[r].person = resv[r].person
          /\ resv'[r].opp = IF resv[r].opp = o THEN Null ELSE resv[r].opp
    BY <1>1 DEF RemoveOpportunity, Unlink, TypeOK, ReservationRow,
       AbsentReservation
  <2>2. \A p \in Proposals :
          /\ prop'[p].status = prop[p].status
          /\ prop'[p].converted = prop[p].converted
          /\ prop'[p].unit = prop[p].unit
          /\ prop'[p].person = prop[p].person
          /\ prop'[p].resv = prop[p].resv
          /\ prop'[p].opp = IF prop[p].opp = o THEN Null ELSE prop[p].opp
    BY <1>1 DEF RemoveOpportunity, Unlink, TypeOK, ProposalRow, AbsentProposal
  <2>3. ASSUME NEW p \in Proposals, Committed(p)'
        PROVE  Committed(p) /\ prop[p].resv \in Reservations
    BY <2>2, <2>3, ClaimUnits DEF Committed, ClaimInv, AcceptedKeepsUnit, OrNull
  <2>4. unit' = unit
    BY <1>1 DEF RemoveOpportunity
  <2>5. QED
    BY <2>1, <2>2, <2>3, <2>4, NoNewTaker DEF ClaimInv, AcceptedKeepsUnit, Active
<1>2. ASSUME NEW o \in Opportunities, NEW c \in People,
             NEW d \in OrNull(Developments), NEW u \in OrNull(Units),
             CreateOpportunity(o, c, d, u) \/ UpdateOpportunity(o, c, d, u)
      PROVE  UNCHANGED <<unit, resv, prop>>
  BY <1>2 DEF CreateOpportunity, UpdateOpportunity
<1>3. ASSUME NEW o \in Opportunities, NEW stage, MoveOpportunity(o, stage)
      PROVE  UNCHANGED <<unit, resv, prop>>
  BY <1>3 DEF MoveOpportunity
<1>4. QED
  BY <1>1, <1>2, <1>3, ClaimFrame DEF OpportunityNext

LEMMA SaleNextClaims == ClaimInv /\ SaleNext /\ TypeOK' => ClaimInv'
<1> SUFFICES ASSUME ClaimInv, SaleNext, TypeOK' PROVE ClaimInv'
  OBVIOUS
<1>1. ASSUME NEW s \in Sales, CancelSale(s) PROVE ClaimInv'
  <2>1. \A v \in Units : unit[v] = "RESERVADA" => unit'[v] = "RESERVADA"
    BY <1>1 DEF CancelSale, ClaimInv, TypeOK
  <2>2. QED
    BY <1>1, <2>1, NoNewTaker
       DEF CancelSale, ClaimInv, AcceptedKeepsUnit, Active, Committed
<1>2. QED
  BY <1>1, ClaimFrame DEF SaleNext, SyncSaleStatus

LEMMA InitClaims == Init => ClaimInv
BY InitType DEF Init, ClaimInv, ActiveReservationHoldsUnit, ExclusiveClaim,
   AcceptedKeepsUnit, Committed, AbsentReservation, AbsentProposal

LEMMA NextClaims == ClaimInv /\ [Next]_vars => ClaimInv'
<1> SUFFICES ASSUME ClaimInv, [Next]_vars PROVE ClaimInv'
  OBVIOUS
<1>1. TypeOK'
  BY NextType DEF ClaimInv
<1>2. CASE Crash \/ Tick \/ UNCHANGED vars
  BY <1>1, <1>2, ClaimFrame DEF Crash, Tick, vars
<1>3. QED
  BY <1>1, <1>2, ReservationNextClaims, ProposalNextClaims, RequestNextClaims,
     UnitNextClaims, OpportunityNextClaims, SaleNextClaims DEF Next

LEMMA ClaimInvariant == Spec => []ClaimInv
BY InitClaims, NextClaims, PTL DEF Spec

\* A unit never has two takers, for any number of units, rows and concurrent
\* requests, and without the partial unique index on active reservations.
THEOREM ClaimsAreExclusive == Spec => []ExclusiveClaim
<1>1. ClaimInv => ExclusiveClaim
  BY DEF ClaimInv
<1>2. QED
  BY <1>1, ClaimInvariant, PTL

\* A unit is RESERVADA for as long as its active reservation lasts.
THEOREM ActiveHolds == Spec => []ActiveReservationHoldsUnit
<1>1. ClaimInv => ActiveReservationHoldsUnit
  BY DEF ClaimInv
<1>2. QED
  BY <1>1, ClaimInvariant, PTL

\* An accepted proposal keeps its unit and its reservation until it is sold.
THEOREM AcceptedIsKept == Spec => []AcceptedKeepsUnit
<1>1. ClaimInv => AcceptedKeepsUnit
  BY DEF ClaimInv
<1>2. QED
  BY <1>1, ClaimInvariant, PTL

-----------------------------------------------------------------------------
(* Decisions.                                                              *)

\* What DecidedIsFinal says of a step.
KeepsDecisions ==
  /\ \A p \in Proposals :
       prop[p].status \in {"ACEITA", "RECUSADA", "EXPIRADA"} =>
         /\ prop'[p].status = prop[p].status
         /\ prop'[p].version = prop[p].version
         /\ prop[p].converted => prop'[p].converted
  /\ \A r \in Reservations :
       resv[r].status \in {"CANCELADA", "EXPIRADA", "CONVERTIDA"} =>
         resv'[r].status = resv[r].status

\* A step that writes only into undecided rows.
LEMMA DecisionFrame ==
  ASSUME \A p \in Proposals :
           prop[p].status \in {"ACEITA", "RECUSADA", "EXPIRADA"} => prop'[p] = prop[p],
         \A r \in Reservations :
           resv[r].status \in {"CANCELADA", "EXPIRADA", "CONVERTIDA"} => resv'[r] = resv[r]
  PROVE  KeepsDecisions
BY DEF KeepsDecisions

LEMMA ReservationsKeepDecisions ==
  ASSUME TypeOK, ReservationNext
  PROVE  KeepsDecisions
<1>1. prop' = prop
  BY DEF ReservationNext, NormalizeExpiredUnit, CreateReservation, CancelReservation,
         ConvertReservation
<1>2. ASSUME NEW r \in Reservations,
             resv[r].status \in {"CANCELADA", "EXPIRADA", "CONVERTIDA"}
      PROVE  resv'[r] = resv[r]
  <2>1. \A u : ExpiredRows(u)[r] = resv[r]
    BY <1>2, ExpiredRowsFacts DEF Active
  <2>2. \A u : ExpiredRows(u) \in [Reservations -> ReservationRow \cup {AbsentReservation}]
    BY ExpiredRowsType
  <2>3. ASSUME NEW u \in Units, NormalizeExpiredUnit(u) PROVE resv'[r] = resv[r]
    BY <2>1, <2>3 DEF NormalizeExpiredUnit
  <2>4. ASSUME NEW h \in Reservations, NEW u, NEW c, NEW o, NEW t,
               CreateReservation(h, u, c, o, t)
        PROVE  resv'[r] = resv[r]
    BY <1>2, <2>1, <2>2, <2>4 DEF CreateReservation
  <2>5. ASSUME NEW h \in Reservations, CancelReservation(h) \/ ConvertReservation(h)
        PROVE  resv'[r] = resv[r]
    BY <1>2, <2>1, <2>2, <2>5 DEF CancelReservation, ConvertReservation, StillActive
  <2> QED
    BY <2>3, <2>4, <2>5 DEF ReservationNext
<1> QED
  BY <1>1, <1>2, DecisionFrame

LEMMA ProposalsKeepDecisions ==
  ASSUME TypeOK, ProposalNext
  PROVE  KeepsDecisions
<1>1. resv' = resv
  BY DEF ProposalNext, CreateProposal, CreateVersion, Send, Reject, NormalizeExpired,
         TrailingFindOne
<1>2. ASSUME NEW p \in Proposals,
             prop[p].status \in {"ACEITA", "RECUSADA", "EXPIRADA"}
      PROVE  prop'[p] = prop[p]
  <2>1. ASSUME NEW h \in Proposals, NEW x, prop' = [prop EXCEPT ![h] = x],
               prop[h].status \in {"ABSENT", "RASCUNHO", "ENVIADA", "EM_NEGOCIACAO"}
        PROVE  prop'[p] = prop[p]
    BY <1>2, <2>1 DEF TypeOK
  <2>2. ASSUME NEW h \in Proposals, NEW u, NEW c, NEW o, NEW r, NEW t,
               CreateProposal(h, u, c, o, r, t)
        PROVE  prop'[p] = prop[p]
    BY <2>1, <2>2 DEF CreateProposal
  <2>3. ASSUME NEW h \in Proposals, NEW t, CreateVersion(h, t)
        PROVE  prop'[p] = prop[p]
    BY <2>1, <2>3 DEF CreateVersion
  <2>4. ASSUME NEW h \in Proposals,
               Send(h) \/ Reject(h) \/ NormalizeExpired(h) \/ TrailingFindOne(h)
        PROVE  prop'[p] = prop[p]
    BY <2>1, <2>4 DEF Send, Reject, NormalizeExpired, TrailingFindOne, Overdue, Negotiable
  <2> QED
    BY <2>2, <2>3, <2>4 DEF ProposalNext
<1> QED
  BY <1>1, <1>2, DecisionFrame

LEMMA RequestsKeepDecisions ==
  ASSUME TypeOK, NEW q \in Requests,
         \/ \E op \in {"accept", "convert"}, p \in Proposals : ReadCandidate(q, op, p)
         \/ AcceptReserved(q)
         \/ \E r \in Reservations : AcceptAvailable(q, r)
         \/ \E s \in Sales : ConvertProposal(q, s)
         \/ RequestFails(q)
  PROVE  KeepsDecisions
<1>1. ASSUME NEW p \in Proposals, Negotiable(p), NEW x, prop' = [prop EXCEPT ![p] = x],
             NEW r \in Reservations, resv[r].status \in {"ABSENT", "ATIVA"},
             NEW y, resv' = [resv EXCEPT ![r] = y]
      PROVE  KeepsDecisions
  BY <1>1, DecisionFrame DEF Negotiable, TypeOK
<1>2. CASE \E op \in {"accept", "convert"}, p \in Proposals : ReadCandidate(q, op, p)
  BY <1>2, DecisionFrame DEF ReadCandidate
<1>3. CASE AcceptReserved(q)
  <2>1. req[q].prop \in Proposals /\ req[q].resv \in Reservations
    BY <1>3, RequestType DEF AcceptReserved, OrNull
  <2>2. Negotiable(req[q].prop) /\ resv[req[q].resv].status = "ATIVA"
    BY <1>3 DEF AcceptReserved, AcceptGuard, ReservationBacks
  <2>3. PICK x : prop' = [prop EXCEPT ![req[q].prop] = x]
    BY <1>3, <2>1 DEF AcceptReserved, TypeOK
  <2>4. PICK y : resv' = [resv EXCEPT ![req[q].resv] = y]
    BY <1>3, <2>1 DEF AcceptReserved, TypeOK
  <2> QED
    BY <1>1, <2>1, <2>2, <2>3, <2>4
<1>4. ASSUME NEW r \in Reservations, AcceptAvailable(q, r) PROVE KeepsDecisions
  <2>1. req[q].prop \in Proposals
    BY <1>4, RequestType DEF AcceptAvailable
  <2>2. Negotiable(req[q].prop) /\ resv[r].status = "ABSENT"
    BY <1>4 DEF AcceptAvailable, AcceptGuard
  <2>3. PICK x : prop' = [prop EXCEPT ![req[q].prop] = x]
    BY <1>4, <2>1 DEF AcceptAvailable, TypeOK
  <2>4. PICK y : resv' = [resv EXCEPT ![r] = y]
    BY <1>4 DEF AcceptAvailable
  <2> QED
    BY <1>1, <2>1, <2>2, <2>3, <2>4
<1>5. ASSUME NEW s \in Sales, ConvertProposal(q, s) PROVE KeepsDecisions
  <2> PICK p \in Proposals, r \in Reservations : p = req[q].prop /\ r = req[q].resv
    BY <1>5, RequestType DEF ConvertProposal, OrNull
  <2>1. /\ prop[p].status = "ACEITA"
        /\ prop' = [prop EXCEPT ![p].converted = TRUE]
        /\ resv[r].status \in {"ATIVA", "CONVERTIDA"}
        /\ resv' = [resv EXCEPT ![r].status = "CONVERTIDA"]
    BY <1>5 DEF ConvertProposal, ReservationSellable
  <2>2. prop[p] \in ProposalRow
    BY <2>1 DEF TypeOK, AbsentProposal
  <2>3. /\ prop'[p].status = "ACEITA"
        /\ prop'[p].version = prop[p].version
        /\ prop'[p].converted
        /\ \A e \in Proposals \ {p} : prop'[e] = prop[e]
    BY <2>1, <2>2 DEF TypeOK, ProposalRow
  <2>4. /\ resv[r] \in ReservationRow
        /\ resv'[r].status = "CONVERTIDA"
        /\ \A e \in Reservations \ {r} : resv'[e] = resv[e]
    BY <2>1, ReservationStatusType DEF TypeOK, ReservationRow
  <2> QED
    BY <2>1, <2>3, <2>4 DEF KeepsDecisions
<1>6. CASE RequestFails(q)
  BY <1>6, DecisionFrame DEF RequestFails
<1> QED
  BY <1>2, <1>3, <1>4, <1>5, <1>6

\* Deleting an opportunity unlinks rows, decided ones too.
LEMMA UnlinkKeeps ==
  ASSUME TypeOK, NEW o \in Opportunities
  PROVE  /\ \A p \in Proposals :
              /\ Unlink(prop[p], o).status = prop[p].status
              /\ Unlink(prop[p], o).unit = prop[p].unit
              /\ Unlink(prop[p], o).resv = prop[p].resv
              /\ Unlink(prop[p], o).version = prop[p].version
              /\ Unlink(prop[p], o).converted <=> prop[p].converted
              /\ Unlink(prop[p], o).opp = IF prop[p].opp = o THEN Null ELSE prop[p].opp
         /\ \A r \in Reservations :
              /\ Unlink(resv[r], o).status = resv[r].status
              /\ Unlink(resv[r], o).unit = resv[r].unit
              /\ Unlink(resv[r], o).expiresAt = resv[r].expiresAt
         /\ \A s \in Sales :
              /\ Unlink(sale[s], o).status = sale[s].status
              /\ Unlink(sale[s], o).unit = sale[s].unit
              /\ Unlink(sale[s], o).prop = sale[s].prop
              /\ Unlink(sale[s], o).version = sale[s].version
              /\ Unlink(sale[s], o).opp = IF sale[s].opp = o THEN Null ELSE sale[s].opp
<1>1. ASSUME NEW p \in Proposals
      PROVE  /\ Unlink(prop[p], o).status = prop[p].status
             /\ Unlink(prop[p], o).unit = prop[p].unit
             /\ Unlink(prop[p], o).resv = prop[p].resv
             /\ Unlink(prop[p], o).version = prop[p].version
             /\ Unlink(prop[p], o).converted <=> prop[p].converted
             /\ Unlink(prop[p], o).opp = IF prop[p].opp = o THEN Null ELSE prop[p].opp
  BY <1>1 DEF Unlink, TypeOK, ProposalRow, AbsentProposal
<1>2. ASSUME NEW r \in Reservations
      PROVE  /\ Unlink(resv[r], o).status = resv[r].status
             /\ Unlink(resv[r], o).unit = resv[r].unit
             /\ Unlink(resv[r], o).expiresAt = resv[r].expiresAt
  BY <1>2 DEF Unlink, TypeOK, ReservationRow, AbsentReservation
<1>3. ASSUME NEW s \in Sales
      PROVE  /\ Unlink(sale[s], o).status = sale[s].status
             /\ Unlink(sale[s], o).unit = sale[s].unit
             /\ Unlink(sale[s], o).prop = sale[s].prop
             /\ Unlink(sale[s], o).version = sale[s].version
             /\ Unlink(sale[s], o).opp = IF sale[s].opp = o THEN Null ELSE sale[s].opp
  BY <1>3 DEF Unlink, TypeOK, SaleRow, AbsentSale
<1> QED
  BY <1>1, <1>2, <1>3

LEMMA OpportunitiesKeepDecisions ==
  ASSUME TypeOK, OpportunityNext
  PROVE  KeepsDecisions
<1>1. ASSUME NEW o \in Opportunities, RemoveOpportunity(o) PROVE KeepsDecisions
  BY <1>1, UnlinkKeeps DEF RemoveOpportunity, KeepsDecisions
<1>2. CASE UNCHANGED <<prop, resv>>
  BY <1>2, DecisionFrame
<1>3. ASSUME NEW o, NEW c, NEW d, NEW u,
             CreateOpportunity(o, c, d, u) \/ UpdateOpportunity(o, c, d, u)
      PROVE  UNCHANGED <<prop, resv>>
  BY <1>3 DEF CreateOpportunity, UpdateOpportunity
<1>4. ASSUME NEW o, NEW stage, MoveOpportunity(o, stage) PROVE UNCHANGED <<prop, resv>>
  BY <1>4 DEF MoveOpportunity
<1> QED
  BY <1>1, <1>2, <1>3, <1>4 DEF OpportunityNext

LEMMA StepKeepsDecisions ==
  ASSUME TypeOK, Next
  PROVE  KeepsDecisions
<1>1. CASE UnitNext \/ SaleNext \/ Crash \/ Tick
  <2>1. UNCHANGED <<prop, resv>>
    BY <1>1 DEF UnitNext, CreateUnit, UpdateUnit, RemoveUnit, SaleNext, SyncSaleStatus,
                CancelSale, Crash, Tick
  <2> QED
    BY <2>1, DecisionFrame
<1>2. CASE RequestNext
  BY <1>2, RequestsKeepDecisions DEF RequestNext
<1> QED
  BY <1>1, <1>2, ReservationsKeepDecisions, ProposalsKeepDecisions,
     OpportunitiesKeepDecisions DEF Next

\* Accepted, refused and expired proposals and ended reservations never change
\* again, for any number of them and of concurrent requests (the status checks
\* of ProposalsService, ReservationsService and convertProposal).
THEOREM DecisionsAreFinal == Spec => DecidedIsFinal
<1>1. TypeOK /\ [Next]_vars => [KeepsDecisions]_vars
  BY StepKeepsDecisions
<1>2. Spec => [][KeepsDecisions]_vars
  BY <1>1, TypeCorrect, PTL DEF Spec
<1> QED
  BY <1>2 DEF DecidedIsFinal, KeepsDecisions

-----------------------------------------------------------------------------
(* Sales.                                                                  *)

SaleInv == TypeOK /\ OneLiveSalePerUnit /\ SaleMatchesProposal

\* Rows of sales that exist, and of those that do not.
LEMMA SaleRowFacts ==
  ASSUME TypeOK, NEW s \in Sales
  PROVE  /\ sale[s].status # "ABSENT" => sale[s] \in SaleRow /\ sale[s].prop \in Proposals
         /\ sale[s].status = "ABSENT" => sale[s] = AbsentSale
         /\ sale[s].prop # Null => sale[s].status # "ABSENT"
         /\ LiveSale(s) => sale[s].status # "ABSENT" /\ sale[s].unit \in Units
BY DEF TypeOK, SaleRow, AbsentSale, LiveSale

\* What a sale shares with its proposal.
Matched(s) ==
  /\ sale[s].prop # Null
  /\ prop[sale[s].prop].status = "ACEITA"
  /\ prop[sale[s].prop].converted
  /\ prop[sale[s].prop].unit = sale[s].unit
  /\ prop[sale[s].prop].opp = sale[s].opp
  /\ prop[sale[s].prop].version = sale[s].version

\* The parts of SaleMatchesProposal.
LEMMA MatchParts ==
  SaleMatchesProposal <=>
    /\ \A s \in Sales : sale[s].status # "ABSENT" => Matched(s)
    /\ \A s1, s2 \in Sales :
         sale[s1].prop # Null /\ sale[s1].prop = sale[s2].prop => s1 = s2
    /\ \A p \in Proposals : prop[p].converted => \E s \in Sales : sale[s].prop = p
BY DEF SaleMatchesProposal, Matched

\* A step that writes no sale, and into no accepted proposal but its
\* reservation, and converts none.
LEMMA SaleFrame ==
  ASSUME SaleInv, TypeOK', sale' = sale,
         \A p \in Proposals : prop[p].status = "ACEITA" =>
           /\ prop'[p].status = prop[p].status
           /\ prop'[p].converted = prop[p].converted
           /\ prop'[p].unit = prop[p].unit
           /\ prop'[p].opp = prop[p].opp
           /\ prop'[p].version = prop[p].version,
         \A p \in Proposals : prop'[p].converted => prop[p].converted
  PROVE  SaleInv'
<1>1. OneLiveSalePerUnit'
  BY DEF SaleInv, OneLiveSalePerUnit, LiveSale
<1>2. SaleMatchesProposal'
  <2>1. ASSUME NEW s \in Sales, sale[s].status # "ABSENT" PROVE Matched(s)'
    BY <2>1, SaleRowFacts, MatchParts DEF SaleInv, Matched
  <2>2. \A p \in Proposals : prop'[p].converted => \E s \in Sales : sale'[s].prop = p
    BY MatchParts DEF SaleInv
  <2>3. \A s1, s2 \in Sales :
          sale'[s1].prop # Null /\ sale'[s1].prop = sale'[s2].prop => s1 = s2
    BY MatchParts DEF SaleInv
  <2> QED
    BY <2>1, <2>2, <2>3 DEF SaleMatchesProposal, Matched
<1> QED
  BY <1>1, <1>2 DEF SaleInv

\* A step that writes neither a sale nor a proposal.
LEMMA SaleUntouched ==
  ASSUME SaleInv, TypeOK', UNCHANGED <<sale, prop>>
  PROVE  SaleInv'
BY DEF SaleInv, OneLiveSalePerUnit, SaleMatchesProposal, LiveSale

LEMMA InitSales == Init => SaleInv
BY InitType DEF Init, SaleInv, OneLiveSalePerUnit, SaleMatchesProposal, LiveSale,
   AbsentSale, AbsentProposal

\* Writing row x over proposal p, which is not accepted.
LEMMA ProposalWritten ==
  ASSUME SaleInv, TypeOK', sale' = sale, NEW p \in Proposals, NEW x,
         prop' = [prop EXCEPT ![p] = x], prop[p].status # "ACEITA",
         x.converted => prop[p].converted
  PROVE  SaleInv'
<1>1. prop'[p] = x /\ \A e \in Proposals \ {p} : prop'[e] = prop[e]
  BY DEF SaleInv, TypeOK
<1> QED
  BY <1>1, SaleFrame

LEMMA ProposalsKeepSales ==
  ASSUME SaleInv, TypeOK', ProposalNext
  PROVE  SaleInv'
<1>0. TypeOK
  BY DEF SaleInv
<1>1. ASSUME NEW p \in Proposals, NEW u, NEW c, NEW o, NEW r, NEW t,
             CreateProposal(p, u, c, o, r, t)
      PROVE  SaleInv'
  <2>x. PICK x : x = [status |-> "RASCUNHO", unit |-> u, person |-> c, opp |-> o,
                      resv |-> r, validUntil |-> t, version |-> 1, converted |-> FALSE]
    OBVIOUS
  <2>1. prop' = [prop EXCEPT ![p] = x] /\ sale' = sale /\ prop[p].status = "ABSENT"
    BY <1>1, <2>x DEF CreateProposal
  <2>2. ~x.converted
    BY <2>x
  <2> QED
    BY <2>1, <2>2, ProposalWritten
<1>2. ASSUME NEW p \in Proposals, NEW t, CreateVersion(p, t) PROVE SaleInv'
  <2>0. prop[p] \in ProposalRow
    BY <1>0, <1>2 DEF CreateVersion, TypeOK, AbsentProposal
  <2>1. PICK x : /\ prop' = [prop EXCEPT ![p] = x]
                 /\ x.converted <=> prop[p].converted
    <3>x. PICK x : x = [prop[p] EXCEPT
                          !.version = @ + 1, !.validUntil = t,
                          !.status = IF @ = "RASCUNHO" THEN "RASCUNHO" ELSE "EM_NEGOCIACAO"]
      OBVIOUS
    <3>1. x.converted <=> prop[p].converted
      BY <2>0, <3>x DEF ProposalRow
    <3>2. prop' = [prop EXCEPT ![p] = x]
      BY <1>0, <1>2, <3>x DEF CreateVersion, TypeOK
    <3> QED
      BY <3>1, <3>2
  <2> QED
    BY <1>2, <2>1, ProposalWritten DEF CreateVersion
<1>3. ASSUME NEW p \in Proposals, NEW to,
             prop[p].status \in {"RASCUNHO", "ENVIADA", "EM_NEGOCIACAO"}, sale' = sale,
             prop' = [prop EXCEPT ![p].status = to]
      PROVE  SaleInv'
  <2>0. prop[p] \in ProposalRow
    BY <1>0, <1>3 DEF TypeOK, AbsentProposal
  <2>1. [prop[p] EXCEPT !.status = to].converted <=> prop[p].converted
    BY <2>0 DEF ProposalRow
  <2>2. prop' = [prop EXCEPT ![p] = [prop[p] EXCEPT !.status = to]]
    BY <1>3
  <2> QED
    BY <1>3, <2>1, <2>2, ProposalWritten
<1>4. ASSUME NEW p \in Proposals, Send(p) \/ Reject(p) \/ NormalizeExpired(p)
      PROVE  SaleInv'
  BY <1>3, <1>4 DEF Send, Reject, NormalizeExpired, Overdue, Negotiable
<1>5. ASSUME NEW p \in Proposals, TrailingFindOne(p) PROVE SaleInv'
  <2>1. CASE Overdue(p)
    <3>x. PICK x : x = [prop[p] EXCEPT !.status = "EXPIRADA"]
      OBVIOUS
    <3>1. prop[p].status \in {"ENVIADA", "EM_NEGOCIACAO"}
      BY <2>1 DEF Overdue, Negotiable
    <3>2. prop[p] \in ProposalRow
      BY <1>0, <3>1 DEF TypeOK, AbsentProposal
    <3>3. x.converted <=> prop[p].converted
      BY <3>x, <3>2 DEF ProposalRow
    <3>4. prop' = [prop EXCEPT ![p] = x] /\ sale' = sale
      BY <1>5, <2>1, <3>x DEF TrailingFindOne
    <3> QED
      BY <3>1, <3>3, <3>4, ProposalWritten
  <2>2. CASE ~Overdue(p)
    BY <1>5, <2>2, SaleUntouched DEF TrailingFindOne
  <2> QED
    BY <2>1, <2>2
<1> QED
  BY <1>1, <1>2, <1>4, <1>5 DEF ProposalNext

\* Accepting a proposal: it was not accepted, so no sale is of it.
LEMMA AcceptKeepsSales ==
  ASSUME SaleInv, TypeOK', sale' = sale, NEW p \in Proposals, Negotiable(p), NEW r,
         prop' = [prop EXCEPT ![p].status = "ACEITA", ![p].resv = r]
  PROVE  SaleInv'
<1>x. PICK x : x = [prop[p] EXCEPT !.status = "ACEITA", !.resv = r]
  OBVIOUS
<1>1. prop[p] \in ProposalRow
  BY DEF Negotiable, SaleInv, TypeOK, AbsentProposal
<1>2. x.converted <=> prop[p].converted
  BY <1>x, <1>1 DEF ProposalRow
<1>3. prop' = [prop EXCEPT ![p] = x]
  BY <1>x DEF SaleInv, TypeOK
<1> QED
  BY <1>2, <1>3, ProposalWritten DEF Negotiable

\* Converting a proposal adds the one sale of it.
LEMMA ConvertKeepsSales ==
  ASSUME SaleInv, TypeOK', NEW q \in Requests, NEW s \in Sales, ConvertProposal(q, s)
  PROVE  SaleInv'
<1>0. TypeOK
  BY DEF SaleInv
<1>p. PICK p \in Proposals : p = req[q].prop
  BY <1>0, RequestType DEF ConvertProposal
<1>1. /\ sale[s].status = "ABSENT"
      /\ \A t \in Sales : sale[t].prop # p
      /\ prop[p].status = "ACEITA"
      /\ NoLiveSale(prop[p].unit)
      /\ prop' = [prop EXCEPT ![p].converted = TRUE]
  BY <1>p DEF ConvertProposal
<1>2. /\ sale'[s] = [status |-> "ATIVA", unit |-> prop[p].unit, prop |-> p,
                     opp |-> prop[p].opp, version |-> prop[p].version, paid |-> FALSE]
      /\ \A t \in Sales \ {s} : sale'[t] = sale[t]
  BY <1>0, <1>p DEF ConvertProposal, TypeOK
<1>n. PICK n : n = sale'[s]
  OBVIOUS
<1>3. /\ n.status = "ATIVA" /\ n.unit = prop[p].unit /\ n.prop = p
      /\ n.opp = prop[p].opp /\ n.version = prop[p].version
  BY <1>2, <1>n
<1>4. /\ prop'[p].status = "ACEITA"
      /\ prop'[p].converted
      /\ prop'[p].unit = prop[p].unit
      /\ prop'[p].opp = prop[p].opp
      /\ prop'[p].version = prop[p].version
      /\ \A e \in Proposals \ {p} : prop'[e] = prop[e]
  <2>1. prop[p] \in ProposalRow
    BY <1>0, <1>1 DEF TypeOK, AbsentProposal
  <2> QED
    BY <1>0, <1>1, <2>1 DEF TypeOK, ProposalRow
<1>5. OneLiveSalePerUnit'
  <2>1. \A t \in Sales \ {s} : LiveSale(t)' => LiveSale(t) /\ sale'[t].unit # n.unit
    BY <1>1, <1>2, <1>3 DEF LiveSale, NoLiveSale
  <2> QED
    BY <1>2, <1>n, <2>1 DEF SaleInv, OneLiveSalePerUnit
<1>6. SaleMatchesProposal'
  <2>1. Matched(s)'
    <3>1. p # Null
      BY NullAssumption
    <3> QED
      BY <1>n, <1>3, <1>4, <3>1 DEF Matched
  <2>2. ASSUME NEW t \in Sales \ {s}, sale[t].status # "ABSENT" PROVE Matched(t)'
    <3>1. Matched(t) /\ sale[t].prop \in Proposals \ {p} /\ sale'[t] = sale[t]
      BY <1>0, <1>1, <1>2, <2>2, MatchParts, SaleRowFacts DEF SaleInv
    <3> QED
      BY <1>4, <3>1 DEF Matched
  <2>3. \A s1, s2 \in Sales :
          sale'[s1].prop # Null /\ sale'[s1].prop = sale'[s2].prop => s1 = s2
    BY <1>1, <1>2, <1>n, <1>3, MatchParts DEF SaleInv
  <2>4. ASSUME NEW e \in Proposals, prop'[e].converted
        PROVE  \E t \in Sales : sale'[t].prop = e
    <3>1. CASE e = p
      BY <1>n, <1>3, <3>1
    <3>2. CASE e # p
      <4>1. PICK t \in Sales : sale[t].prop = e
        BY <1>4, <2>4, <3>2, MatchParts DEF SaleInv
      <4>2. t # s
        BY <1>0, <1>1, <4>1, SaleRowFacts, NullAssumption DEF AbsentSale
      <4> QED
        BY <1>2, <4>1, <4>2
    <3> QED
      BY <3>1, <3>2
  <2>5. \A t \in Sales : sale'[t].status # "ABSENT" => Matched(t)'
    BY <1>2, <2>1, <2>2
  <2> QED
    BY <2>3, <2>4, <2>5 DEF SaleMatchesProposal, Matched
<1> QED
  BY <1>5, <1>6 DEF SaleInv

LEMMA RequestsKeepSales ==
  ASSUME SaleInv, TypeOK', RequestNext
  PROVE  SaleInv'
<1>0. TypeOK
  BY DEF SaleInv
<1>1. ASSUME NEW q \in Requests, AcceptReserved(q) PROVE SaleInv'
  BY <1>0, <1>1, RequestType, AcceptKeepsSales DEF AcceptReserved, AcceptGuard
<1>2. ASSUME NEW q \in Requests, NEW r \in Reservations, AcceptAvailable(q, r)
      PROVE  SaleInv'
  BY <1>0, <1>2, RequestType, AcceptKeepsSales DEF AcceptAvailable, AcceptGuard
<1>3. ASSUME NEW q \in Requests, NEW op, NEW p, ReadCandidate(q, op, p) PROVE SaleInv'
  BY <1>3, SaleUntouched DEF ReadCandidate
<1>4. ASSUME NEW q \in Requests, RequestFails(q) PROVE SaleInv'
  BY <1>4, SaleUntouched DEF RequestFails
<1> QED
  BY <1>1, <1>2, <1>3, <1>4, ConvertKeepsSales DEF RequestNext

\* Deleting an opportunity unlinks the sale and its proposal together.
LEMMA OpportunitiesKeepSales ==
  ASSUME SaleInv, TypeOK', OpportunityNext
  PROVE  SaleInv'
<1>0. TypeOK
  BY DEF SaleInv
<1>1. ASSUME NEW o \in Opportunities, RemoveOpportunity(o) PROVE SaleInv'
  <2>1. /\ \A p \in Proposals : prop'[p] = Unlink(prop[p], o)
        /\ \A s \in Sales : sale'[s] = Unlink(sale[s], o)
    BY <1>1 DEF RemoveOpportunity
  <2>2. \A s \in Sales :
          /\ sale'[s].status = sale[s].status
          /\ sale'[s].unit = sale[s].unit
          /\ sale'[s].prop = sale[s].prop
    BY <1>0, <2>1, UnlinkKeeps
  <2>3. OneLiveSalePerUnit'
    BY <2>2 DEF SaleInv, OneLiveSalePerUnit, LiveSale
  <2>4. ASSUME NEW s \in Sales, sale'[s].status # "ABSENT" PROVE Matched(s)'
    <3>1. Matched(s) /\ sale[s].prop \in Proposals
      BY <1>0, <2>2, <2>4, MatchParts, SaleRowFacts DEF SaleInv
    <3>p. PICK p \in Proposals : p = sale[s].prop
      BY <3>1
    <3>2. /\ prop'[p].status = prop[p].status
          /\ prop'[p].unit = prop[p].unit
          /\ prop'[p].version = prop[p].version
          /\ prop'[p].converted <=> prop[p].converted
          /\ prop'[p].opp = IF prop[p].opp = o THEN Null ELSE prop[p].opp
      BY <1>0, <2>1, UnlinkKeeps
    <3>3. /\ sale'[s].version = sale[s].version
          /\ sale'[s].opp = IF sale[s].opp = o THEN Null ELSE sale[s].opp
      BY <1>0, <2>1, UnlinkKeeps
    <3> QED
      BY <2>2, <3>1, <3>p, <3>2, <3>3 DEF Matched
  <2>5. \A p \in Proposals : prop'[p].converted => \E s \in Sales : sale'[s].prop = p
    <3>1. \A p \in Proposals : prop'[p].converted => prop[p].converted
      BY <1>0, <2>1, UnlinkKeeps
    <3> QED
      BY <2>2, <3>1, MatchParts DEF SaleInv
  <2>6. \A s1, s2 \in Sales :
          sale'[s1].prop # Null /\ sale'[s1].prop = sale'[s2].prop => s1 = s2
    BY <2>2, MatchParts DEF SaleInv
  <2>7. SaleMatchesProposal'
    BY <2>4, <2>5, <2>6 DEF SaleMatchesProposal, Matched
  <2> QED
    BY <2>3, <2>7 DEF SaleInv
<1>2. ASSUME NEW o, NEW c, NEW d, NEW u,
             CreateOpportunity(o, c, d, u) \/ UpdateOpportunity(o, c, d, u)
      PROVE  SaleInv'
  BY <1>2, SaleUntouched DEF CreateOpportunity, UpdateOpportunity
<1>3. ASSUME NEW o, NEW stage, MoveOpportunity(o, stage) PROVE SaleInv'
  BY <1>3, SaleUntouched DEF MoveOpportunity
<1> QED
  BY <1>1, <1>2, <1>3 DEF OpportunityNext

\* The ledger and the distrato change the status of a sale that lives.
LEMMA SalesKeepSales ==
  ASSUME SaleInv, TypeOK', SaleNext
  PROVE  SaleInv'
<1>0. TypeOK
  BY DEF SaleInv
<1>1. ASSUME NEW s \in Sales, LiveSale(s), NEW x, prop' = prop,
             sale' = [sale EXCEPT ![s] = x],
             x.status # "ABSENT", x.unit = sale[s].unit, x.prop = sale[s].prop,
             x.opp = sale[s].opp, x.version = sale[s].version
      PROVE  SaleInv'
  <2>1. sale'[s] = x /\ \A t \in Sales \ {s} : sale'[t] = sale[t]
    BY <1>0, <1>1 DEF TypeOK
  <2>2. /\ \A t \in Sales : LiveSale(t)' => LiveSale(t)
        /\ \A t \in Sales : /\ sale'[t].unit = sale[t].unit
                            /\ sale'[t].prop = sale[t].prop
                            /\ sale'[t].opp = sale[t].opp
                            /\ sale'[t].version = sale[t].version
        /\ \A t \in Sales : sale'[t].status # "ABSENT" => sale[t].status # "ABSENT"
    BY <1>1, <2>1 DEF LiveSale
  <2>3. OneLiveSalePerUnit'
    BY <2>2 DEF SaleInv, OneLiveSalePerUnit
  <2>4. \A t \in Sales : sale'[t].status # "ABSENT" => Matched(t)'
    BY <1>1, <2>2, MatchParts DEF SaleInv, Matched
  <2>5. SaleMatchesProposal'
    <3>1. \A s1, s2 \in Sales :
            sale'[s1].prop # Null /\ sale'[s1].prop = sale'[s2].prop => s1 = s2
      BY <2>2, MatchParts DEF SaleInv
    <3>2. \A p \in Proposals : prop'[p].converted => \E t \in Sales : sale'[t].prop = p
      BY <1>1, <2>2, MatchParts DEF SaleInv
    <3> QED
      BY <2>4, <3>1, <3>2 DEF SaleMatchesProposal, Matched
  <2> QED
    BY <2>3, <2>5 DEF SaleInv
<1>2. ASSUME NEW s \in Sales, NEW paid \in BOOLEAN, NEW status \in {"ATIVA", "QUITADA"},
             SyncSaleStatus(s, paid, status)
      PROVE  SaleInv'
  <2>1. LiveSale(s) /\ sale[s] \in SaleRow
    BY <1>0, <1>2, SaleRowFacts DEF SyncSaleStatus
  <2>x. PICK x : x = [sale[s] EXCEPT !.paid = paid, !.status = status]
    OBVIOUS
  <2>2. /\ x.status # "ABSENT" /\ x.unit = sale[s].unit /\ x.prop = sale[s].prop
        /\ x.opp = sale[s].opp /\ x.version = sale[s].version
    BY <2>1, <2>x DEF SaleRow
  <2>3. prop' = prop /\ sale' = [sale EXCEPT ![s] = x]
    BY <1>0, <1>2, <2>x DEF SyncSaleStatus, TypeOK
  <2> QED
    BY <1>1, <2>1, <2>2, <2>3
<1>3. ASSUME NEW s \in Sales, CancelSale(s) PROVE SaleInv'
  <2>1. LiveSale(s) /\ sale[s] \in SaleRow
    BY <1>0, <1>3, SaleRowFacts DEF CancelSale
  <2>x. PICK x : x = [sale[s] EXCEPT !.status = "DISTRATADA"]
    OBVIOUS
  <2>2. /\ x.status # "ABSENT" /\ x.unit = sale[s].unit /\ x.prop = sale[s].prop
        /\ x.opp = sale[s].opp /\ x.version = sale[s].version
    BY <2>1, <2>x DEF SaleRow
  <2>3. prop' = prop /\ sale' = [sale EXCEPT ![s] = x]
    BY <1>3, <2>x DEF CancelSale
  <2> QED
    BY <1>1, <2>1, <2>2, <2>3
<1> QED
  BY <1>2, <1>3 DEF SaleNext

LEMMA NextSales == SaleInv /\ [Next]_vars => SaleInv'
<1> SUFFICES ASSUME SaleInv, [Next]_vars PROVE SaleInv'
  OBVIOUS
<1>0. TypeOK'
  BY NextType DEF SaleInv
<1>1. CASE UnitNext \/ ReservationNext \/ Crash \/ Tick \/ UNCHANGED vars
  <2>1. UNCHANGED <<prop, sale>>
    BY <1>1 DEF UnitNext, CreateUnit, UpdateUnit, RemoveUnit, ReservationNext,
                NormalizeExpiredUnit, CreateReservation, CancelReservation,
                ConvertReservation, Crash, Tick, vars
  <2> QED
    BY <1>0, <2>1, SaleUntouched
<1> QED
  BY <1>0, <1>1, ProposalsKeepSales, RequestsKeepSales, OpportunitiesKeepSales,
     SalesKeepSales DEF Next

LEMMA SaleInvariant == Spec => []SaleInv
BY InitSales, NextSales, PTL DEF Spec

\* No unit has two live sales, for any number of units, proposals and requests
\* and without the partial unique index on the live sales of a unit, although
\* a unit under a live sale may be put back to DISPONIVEL by hand.
THEOREM UnitsAreSoldOnce == Spec => []OneLiveSalePerUnit
<1>1. SaleInv => OneLiveSalePerUnit
  BY DEF SaleInv
<1> QED
  BY <1>1, SaleInvariant, PTL

\* Sales and converted proposals are matched one to one and agree on unit,
\* opportunity and version, without the unique index on Sale.proposalId
\* (convertProposal of SalesService).
THEOREM SalesMatchProposals == Spec => []SaleMatchesProposal
<1>1. SaleInv => SaleMatchesProposal
  BY DEF SaleInv
<1> QED
  BY <1>1, SaleInvariant, PTL

-----------------------------------------------------------------------------
(* The opportunity of a sale.                                              *)

\* What SaleWinsOpportunity says of a step.
SaleWins ==
  \A s \in Sales :
    /\ sale[s].status = "ABSENT"
    /\ sale'[s].status # "ABSENT"
    /\ sale'[s].opp # Null
    => opp'[sale'[s].opp] = [stage |-> "WON",
                             person |-> prop[sale'[s].prop].person,
                             dev |-> DevelopmentOf[sale'[s].unit],
                             unit |-> sale'[s].unit]

\* Winning an opportunity that still fits makes it that of the unit sold.
LEMMA WonRow ==
  ASSUME TypeOK, NEW o \in Opportunities, NEW u \in Units, NEW c,
         o # Null, WinsOpportunity(o, c, u, {DevelopmentOf[u]})
  PROVE  SoldOpportunity(o, u)[o] =
           [stage |-> "WON", person |-> c, dev |-> DevelopmentOf[u], unit |-> u]
<1>1. /\ opp[o] \in OpportunityRow
      /\ opp[o].person = c
      /\ opp[o].dev = DevelopmentOf[u]
  BY DEF WinsOpportunity, TypeOK, AbsentOpportunity
<1>2. SoldOpportunity(o, u)[o] = [opp[o] EXCEPT !.stage = "WON", !.unit = u]
  BY DEF SoldOpportunity, TypeOK
<1> QED
  BY <1>1, <1>2 DEF OpportunityRow

\* Only convertProposal adds a sale.
LEMMA SalesKept ==
  ASSUME TypeOK, [Next]_vars, ~RequestNext, NEW s \in Sales, sale[s].status = "ABSENT"
  PROVE  sale'[s].status = "ABSENT"
<1>1. CASE OpportunityNext
  <2>1. ASSUME NEW o \in Opportunities, RemoveOpportunity(o) PROVE sale'[s].status = "ABSENT"
    BY <2>1, UnlinkKeeps DEF RemoveOpportunity
  <2>2. ASSUME NEW o, NEW c, NEW d, NEW u,
               CreateOpportunity(o, c, d, u) \/ UpdateOpportunity(o, c, d, u)
        PROVE  sale' = sale
    BY <2>2 DEF CreateOpportunity, UpdateOpportunity
  <2>3. ASSUME NEW o, NEW stage, MoveOpportunity(o, stage) PROVE sale' = sale
    BY <2>3 DEF MoveOpportunity
  <2> QED
    BY <1>1, <2>1, <2>2, <2>3 DEF OpportunityNext
<1>2. CASE SaleNext
  <2>1. ASSUME NEW t \in Sales, NEW paid, NEW status,
               SyncSaleStatus(t, paid, status) \/ CancelSale(t)
        PROVE  sale'[s] = sale[s]
    <3>1. t # s
      BY <2>1 DEF SyncSaleStatus, CancelSale, LiveSale
    <3> QED
      BY <2>1, <3>1 DEF SyncSaleStatus, CancelSale, TypeOK
  <2> QED
    BY <1>2, <2>1 DEF SaleNext
<1>3. CASE UnitNext \/ ReservationNext \/ ProposalNext \/ Crash \/ Tick \/ UNCHANGED vars
  <2>1. sale' = sale
    BY <1>3 DEF UnitNext, CreateUnit, UpdateUnit, RemoveUnit, ReservationNext,
                NormalizeExpiredUnit, CreateReservation, CancelReservation,
                ConvertReservation, ProposalNext, CreateProposal, CreateVersion, Send,
                Reject, NormalizeExpired, TrailingFindOne, Crash, Tick, vars
  <2> QED
    BY <2>1
<1> QED
  BY <1>1, <1>2, <1>3 DEF Next

LEMMA StepSaleWins ==
  ASSUME TypeOK, [Next]_vars
  PROVE  SaleWins
<1> SUFFICES ASSUME NEW s \in Sales, sale[s].status = "ABSENT",
                    sale'[s].status # "ABSENT", sale'[s].opp # Null
             PROVE  opp'[sale'[s].opp] = [stage |-> "WON",
                                          person |-> prop[sale'[s].prop].person,
                                          dev |-> DevelopmentOf[sale'[s].unit],
                                          unit |-> sale'[s].unit]
  BY DEF SaleWins
<1>1. PICK q \in Requests, t \in Sales : ConvertProposal(q, t)
  <2>1. RequestNext
    BY SalesKept
  <2>2. ASSUME NEW q, NEW op, NEW p, ReadCandidate(q, op, p) PROVE sale' = sale
    BY <2>2 DEF ReadCandidate
  <2>3. ASSUME NEW q, AcceptReserved(q) \/ RequestFails(q) PROVE sale' = sale
    BY <2>3 DEF AcceptReserved, RequestFails
  <2>4. ASSUME NEW q, NEW r, AcceptAvailable(q, r) PROVE sale' = sale
    BY <2>4 DEF AcceptAvailable
  <2> QED
    BY <2>1, <2>2, <2>3, <2>4 DEF RequestNext
<1>2. PICK p \in Proposals : p = req[q].prop
  BY <1>1, RequestType DEF ConvertProposal
<1>3. prop[p] \in ProposalRow
  BY <1>1, <1>2 DEF ConvertProposal, TypeOK, AbsentProposal
<1>4. t = s
  BY <1>1 DEF ConvertProposal, TypeOK
<1>5. sale'[s] = [status |-> "ATIVA", unit |-> prop[p].unit, prop |-> p,
                  opp |-> prop[p].opp, version |-> prop[p].version, paid |-> FALSE]
  BY <1>1, <1>2, <1>4 DEF ConvertProposal, TypeOK
<1>6. /\ sale'[s].unit = prop[p].unit
      /\ sale'[s].prop = p
      /\ sale'[s].opp = prop[p].opp
  BY <1>5
<1>7. prop[p].opp \in Opportunities /\ prop[p].unit \in Units
  BY <1>3, <1>6 DEF ProposalRow, OrNull
<1>8. /\ WinsOpportunity(prop[p].opp, prop[p].person, prop[p].unit,
                         {DevelopmentOf[prop[p].unit]})
      /\ opp' = SoldOpportunity(prop[p].opp, prop[p].unit)
  BY <1>1, <1>2 DEF ConvertProposal
<1>9. opp'[prop[p].opp] =
        [stage |-> "WON", person |-> prop[p].person,
         dev |-> DevelopmentOf[prop[p].unit], unit |-> prop[p].unit]
  BY <1>6, <1>7, <1>8, WonRow
<1> QED
  BY <1>6, <1>9

\* A sale of a proposal with an opportunity leaves it won, of the client and
\* bound to the unit and development sold, whatever users did to it between
\* accept and convertProposal.
THEOREM SalesWinOpportunities == Spec => SaleWinsOpportunity
<1>1. TypeOK /\ [Next]_vars => [SaleWins]_vars
  BY StepSaleWins
<1>2. Spec => [][SaleWins]_vars
  BY <1>1, TypeCorrect, PTL DEF Spec
<1> QED
  BY <1>2 DEF SaleWinsOpportunity, SaleWins

-----------------------------------------------------------------------------
(* The refinement of UnitAllocation.                                       *)

\* The abstract variables, as Allocation substitutes them.
Hs == [u \in Units |-> HoldersOf(u)]
Bs == [u \in Units |-> BuyersOf(u)]
Os == [u \in Units |-> OwnersOf(u)]
Ls == {r \in Reservations : resv[r].status = "ATIVA" /\ resv[r].expiresAt <= now}
Fs == {u \in Units : unit[u] = "RESERVADA" /\ HoldersOf(u) \cup BuyersOf(u) = {}}

\* The abstract actions in terms of them.
LEMMA AbstractHold ==
  ASSUME NEW u \in Units, NEW r \in Reservations,
         Bs[u] = {}, u \notin Fs, Hs[u] \subseteq Ls, \A v \in Units : r \notin Hs[v],
         Hs' = [Hs EXCEPT ![u] = {r}],
         Ls' \in {Ls \ Hs[u], (Ls \ Hs[u]) \cup {r}},
         Bs' = Bs, Os' = Os, Fs' = Fs
  PROVE  Allocation!AllocationNext
<1>1. Allocation!Hold(u, r)
  BY DEF Allocation!Hold, Allocation!Uncommitted, Hs, Bs, Os, Ls, Fs
<1> QED
  BY <1>1 DEF Allocation!AllocationNext

LEMMA AbstractRelease ==
  ASSUME NEW u \in Units, Hs[u] # {}, Hs' = [Hs EXCEPT ![u] = {}], Ls' = Ls \ Hs[u],
         Bs' = Bs, Os' = Os, Fs' = Fs
  PROVE  Allocation!AllocationNext
<1>1. Allocation!Release(u)
  BY DEF Allocation!Release, Hs, Bs, Os, Ls, Fs
<1> QED
  BY <1>1 DEF Allocation!AllocationNext

LEMMA AbstractCommit ==
  ASSUME NEW u \in Units, NEW p \in Proposals,
         Bs[u] = {}, u \notin Fs, Hs[u] \cap Ls = {}, \A v \in Units : p \notin Bs[v],
         Hs' = [Hs EXCEPT ![u] = {}], Bs' = [Bs EXCEPT ![u] = {p}],
         Os' = Os, Ls' = Ls, Fs' = Fs
  PROVE  Allocation!AllocationNext
<1>1. Allocation!Commit(u, p)
  BY DEF Allocation!Commit, Allocation!Uncommitted, Hs, Bs, Os, Ls, Fs
<1> QED
  BY <1>1 DEF Allocation!AllocationNext

LEMMA AbstractFreeze ==
  ASSUME NEW u \in Units, Hs[u] # {}, Hs[u] \cap Ls = {},
         Hs' = [Hs EXCEPT ![u] = {}], Fs' = Fs \cup {u},
         Bs' = Bs, Os' = Os, Ls' = Ls
  PROVE  Allocation!AllocationNext
<1>1. Allocation!Freeze(u)
  BY DEF Allocation!Freeze, Hs, Bs, Os, Ls, Fs
<1> QED
  BY <1>1 DEF Allocation!AllocationNext

LEMMA AbstractSell ==
  ASSUME NEW u \in Units, NEW s \in Sales, Bs[u] # {}, Os[u] = {},
         Bs' = [Bs EXCEPT ![u] = {}], Os' = [Os EXCEPT ![u] = {s}],
         Hs' = Hs, Ls' = Ls, Fs' = Fs
  PROVE  Allocation!AllocationNext
<1>1. Allocation!Sell(u, s)
  BY DEF Allocation!Sell, Hs, Bs, Os, Ls, Fs
<1> QED
  BY <1>1 DEF Allocation!AllocationNext

LEMMA AbstractRescind ==
  ASSUME NEW u \in Units, Os[u] # {}, Os' = [Os EXCEPT ![u] = {}],
         Hs' = Hs, Bs' = Bs, Ls' = Ls, Fs' = Fs
  PROVE  Allocation!AllocationNext
<1>1. Allocation!Rescind(u)
  BY DEF Allocation!Rescind, Hs, Bs, Os, Ls, Fs
<1> QED
  BY <1>1 DEF Allocation!AllocationNext

LEMMA AbstractLapse ==
  ASSUME Hs' = Hs, Bs' = Bs, Os' = Os, Fs' = Fs,
         Ls \subseteq Ls', Ls' \subseteq UNION {Hs[u] : u \in Units}
  PROVE  Allocation!AllocationNext
<1>1. Allocation!Lapse
  BY DEF Allocation!Lapse, Hs, Bs, Os, Ls, Fs
<1> QED
  BY <1>1 DEF Allocation!AllocationNext

LEMMA AbstractStutter ==
  ASSUME Hs' = Hs, Bs' = Bs, Os' = Os, Fs' = Fs, Ls' = Ls
  PROVE  UNCHANGED Allocation!avars
BY DEF Allocation!avars, Hs, Bs, Os, Ls, Fs

\* A reserved unit was reserved by a reservation, whose row is never deleted:
\* that is what keeps it from being removed.
ReservedIsNamed ==
  \A u \in Units : unit[u] = "RESERVADA" => \E r \in Reservations : resv[r].unit = u

AllocInv == ClaimInv /\ SaleInv /\ ReservedIsNamed

\* How the abstract variables change with the rows.
LEMMA HoldersBecome ==
  ASSUME NEW u \in Units, NEW X \in SUBSET Reservations,
         \A r \in Reservations : r \in X <=> Active(r)' /\ resv'[r].unit = u,
         \A r \in Reservations, v \in Units \ {u} :
           Active(r)' /\ resv'[r].unit = v <=> Active(r) /\ resv[r].unit = v
  PROVE  Hs' = [Hs EXCEPT ![u] = X]
<1>1. HoldersOf(u)' = X
  BY DEF HoldersOf, Active
<1>2. ASSUME NEW v \in Units \ {u} PROVE HoldersOf(v)' = HoldersOf(v)
  BY DEF HoldersOf, Active
<1> QED
  BY <1>1, <1>2 DEF Hs

LEMMA BuyersBecome ==
  ASSUME NEW u \in Units, NEW X \in SUBSET Proposals,
         \A p \in Proposals : p \in X <=> Committed(p)' /\ prop'[p].unit = u,
         \A p \in Proposals, v \in Units \ {u} :
           Committed(p)' /\ prop'[p].unit = v <=> Committed(p) /\ prop[p].unit = v
  PROVE  Bs' = [Bs EXCEPT ![u] = X]
<1>1. BuyersOf(u)' = X
  BY DEF BuyersOf
<1>2. ASSUME NEW v \in Units \ {u} PROVE BuyersOf(v)' = BuyersOf(v)
  BY DEF BuyersOf
<1> QED
  BY <1>1, <1>2 DEF Bs

LEMMA OwnersBecome ==
  ASSUME NEW u \in Units, NEW X \in SUBSET Sales,
         \A s \in Sales : s \in X <=> LiveSale(s)' /\ sale'[s].unit = u,
         \A s \in Sales, v \in Units \ {u} :
           LiveSale(s)' /\ sale'[s].unit = v <=> LiveSale(s) /\ sale[s].unit = v
  PROVE  Os' = [Os EXCEPT ![u] = X]
<1>1. OwnersOf(u)' = X
  BY DEF OwnersOf
<1>2. ASSUME NEW v \in Units \ {u} PROVE OwnersOf(v)' = OwnersOf(v)
  BY DEF OwnersOf
<1> QED
  BY <1>1, <1>2 DEF Os

LEMMA HoldersSame ==
  ASSUME \A r \in Reservations : Active(r)' <=> Active(r),
         \A r \in Reservations : Active(r) => resv'[r].unit = resv[r].unit
  PROVE  Hs' = Hs
<1>1. ASSUME NEW v \in Units PROVE HoldersOf(v)' = HoldersOf(v)
  BY DEF HoldersOf, Active
<1> QED
  BY <1>1 DEF Hs

LEMMA BuyersSame ==
  ASSUME \A p \in Proposals : Committed(p)' <=> Committed(p),
         \A p \in Proposals : Committed(p) => prop'[p].unit = prop[p].unit
  PROVE  Bs' = Bs
<1>1. ASSUME NEW v \in Units PROVE BuyersOf(v)' = BuyersOf(v)
  BY DEF BuyersOf
<1> QED
  BY <1>1 DEF Bs

LEMMA OwnersSame ==
  ASSUME \A s \in Sales : LiveSale(s)' <=> LiveSale(s),
         \A s \in Sales : LiveSale(s) => sale'[s].unit = sale[s].unit
  PROVE  Os' = Os
<1>1. ASSUME NEW v \in Units PROVE OwnersOf(v)' = OwnersOf(v)
  BY DEF OwnersOf
<1> QED
  BY <1>1 DEF Os

LEMMA LapsedSame ==
  ASSUME now' = now, \A r \in Reservations : Active(r)' <=> Active(r),
         \A r \in Reservations : Active(r) => resv'[r].expiresAt = resv[r].expiresAt
  PROVE  Ls' = Ls
BY DEF Ls, Active

\* Unit u is not frozen, before or after the step; others are as they were.
LEMMA FrozenSame ==
  ASSUME NEW u \in Units, u \notin Fs,
         ~(unit'[u] = "RESERVADA" /\ Hs'[u] = {} /\ Bs'[u] = {}),
         \A v \in Units \ {u} : unit'[v] = "RESERVADA" <=> unit[v] = "RESERVADA",
         \A v \in Units \ {u} : Hs'[v] = Hs[v] /\ Bs'[v] = Bs[v]
  PROVE  Fs' = Fs
<1>1. \A v \in Units : /\ HoldersOf(v) = Hs[v] /\ BuyersOf(v) = Bs[v]
                       /\ HoldersOf(v)' = Hs'[v] /\ BuyersOf(v)' = Bs'[v]
  BY DEF Hs, Bs
<1>2. \A v \in Units : v \in Fs <=> unit[v] = "RESERVADA" /\ Hs[v] = {} /\ Bs[v] = {}
  BY <1>1 DEF Fs
<1>3. \A v \in Units : v \in Fs' <=> unit'[v] = "RESERVADA" /\ Hs'[v] = {} /\ Bs'[v] = {}
  BY <1>1 DEF Fs
<1>4. Fs \subseteq Units /\ Fs' \subseteq Units
  BY DEF Fs
<1>5. \A v \in Units : v \in Fs' <=> v \in Fs
  BY <1>2, <1>3
<1> QED
  BY <1>4, <1>5

\* No unit is reserved or released, and nothing changes in who takes it.
LEMMA NothingFrozen ==
  ASSUME Hs' = Hs, Bs' = Bs,
         \A v \in Units : unit'[v] = "RESERVADA" <=> unit[v] = "RESERVADA"
  PROVE  Fs' = Fs
<1>1. \A v \in Units : /\ HoldersOf(v) = Hs[v] /\ BuyersOf(v) = Bs[v]
                       /\ HoldersOf(v)' = Hs'[v] /\ BuyersOf(v)' = Bs'[v]
  BY DEF Hs, Bs
<1> QED
  BY <1>1 DEF Fs

\* Whose claims are in the sets.
LEMMA Members ==
  ASSUME NEW u \in Units
  PROVE  /\ \A r : r \in Hs[u] <=> r \in Reservations /\ Active(r) /\ resv[r].unit = u
         /\ \A p : p \in Bs[u] <=> p \in Proposals /\ Committed(p) /\ prop[p].unit = u
         /\ \A s : s \in Os[u] <=> s \in Sales /\ LiveSale(s) /\ sale[s].unit = u
         /\ u \in Fs <=> unit[u] = "RESERVADA" /\ Hs[u] = {} /\ Bs[u] = {}
         /\ \A r : r \in Ls <=> r \in Reservations /\ Active(r) /\ resv[r].expiresAt <= now
BY DEF Hs, Bs, Os, Fs, Ls, HoldersOf, BuyersOf, OwnersOf, Active

\* A reservation that is active is the only taker of its unit.
LEMMA ActiveIsAlone ==
  ASSUME AllocInv, NEW u \in Units, NEW r \in Reservations, Active(r), resv[r].unit = u
  PROVE  Hs[u] = {r} /\ Bs[u] = {} /\ u \notin Fs /\ unit[u] = "RESERVADA"
<1>1. \A h \in Reservations : Active(h) /\ resv[h].unit = u => h = r
  BY DEF AllocInv, ClaimInv, ExclusiveClaim, Active
<1>2. \A p \in Proposals : Committed(p) => prop[p].unit # u
  BY DEF AllocInv, ClaimInv, ExclusiveClaim, Active
<1>3. unit[u] = "RESERVADA"
  BY DEF AllocInv, ClaimInv, ActiveReservationHoldsUnit, Active
<1>4. Hs[u] = {r}
  BY <1>1, Members
<1>5. Bs[u] = {}
  BY <1>2, Members
<1> QED
  BY <1>3, <1>4, <1>5, Members

\* A unit that is not reserved has no taker.
LEMMA NobodyTakes ==
  ASSUME AllocInv, NEW u \in Units, unit[u] # "RESERVADA"
  PROVE  Hs[u] = {} /\ Bs[u] = {} /\ u \notin Fs
BY AvailableIsFree, Members DEF AllocInv

AbstractStep == Allocation!AllocationNext \/ UNCHANGED Allocation!avars

\* A step that changes no claim and reserves or releases no unit.
LEMMA ClaimsSame ==
  ASSUME now' = now,
         \A r \in Reservations : Active(r)' <=> Active(r),
         \A r \in Reservations : Active(r) =>
           resv'[r].unit = resv[r].unit /\ resv'[r].expiresAt = resv[r].expiresAt,
         \A p \in Proposals : Committed(p)' <=> Committed(p),
         \A p \in Proposals : Committed(p) => prop'[p].unit = prop[p].unit,
         \A s \in Sales : LiveSale(s)' <=> LiveSale(s),
         \A s \in Sales : LiveSale(s) => sale'[s].unit = sale[s].unit,
         \A v \in Units : unit'[v] = "RESERVADA" <=> unit[v] = "RESERVADA"
  PROVE  AbstractStep
<1>1. Hs' = Hs /\ Bs' = Bs /\ Os' = Os /\ Ls' = Ls
  BY HoldersSame, BuyersSame, OwnersSame, LapsedSame
<1>2. Fs' = Fs
  BY <1>1, NothingFrozen
<1> QED
  BY <1>1, <1>2, AbstractStutter DEF AbstractStep

LEMMA SameProposals ==
  ASSUME prop' = prop
  PROVE  Bs' = Bs
BY BuyersSame DEF Committed

LEMMA SameSales ==
  ASSUME sale' = sale
  PROVE  Os' = Os
BY OwnersSame DEF LiveSale

\* The rows after expiring unit u: the others are as they were.
LEMMA ExpiredClaims ==
  ASSUME AllocInv, NEW u \in Units, NEW r \in Reservations
  PROVE  /\ ExpiredRows(u)[r].unit = resv[r].unit
         /\ ExpiredRows(u)[r].status = "ATIVA" => ExpiredRows(u)[r] = resv[r]
         /\ ExpiredRows(u)[r].status = "ATIVA" <=> Active(r) /\ r \notin ExpiredOn(u)
BY ExpiredRowsFacts DEF AllocInv, SaleInv, ExpiredRows, ExpiredOn, Active

\* Expiring the reservations of a unit releases it.
LEMMA NormalizeRefines ==
  ASSUME AllocInv, NEW u \in Units, NormalizeExpiredUnit(u)
  PROVE  AbstractStep
<1>0. TypeOK
  BY DEF AllocInv, SaleInv
<1>1. ExpiredOn(u) # {} /\ ExpiredOn(u) \subseteq Hs[u] \cap Ls
  BY Members DEF NormalizeExpiredUnit, ExpiredOn, Active
<1>2. Hs[u] \subseteq ExpiredOn(u)
  BY <1>1, ExpiredIsAlone, Members DEF AllocInv
<1>3. \A r \in Reservations :
        /\ Active(r)' <=> Active(r) /\ resv[r].unit # u
        /\ Active(r)' => resv'[r] = resv[r]
        /\ resv'[r].unit = resv[r].unit
  BY <1>1, <1>2, ExpiredClaims, Members DEF NormalizeExpiredUnit, Active
<1>4. Hs' = [Hs EXCEPT ![u] = {}]
  <2>1. \A r \in Reservations : ~(Active(r)' /\ resv'[r].unit = u)
    BY <1>3
  <2>2. \A r \in Reservations, v \in Units \ {u} :
          Active(r)' /\ resv'[r].unit = v <=> Active(r) /\ resv[r].unit = v
    BY <1>3
  <2> QED
    BY <2>1, <2>2, HoldersBecome
<1>5. Ls' = Ls \ Hs[u]
  BY <1>3, Members DEF Ls, Active, NormalizeExpiredUnit
<1>6. Bs' = Bs /\ Os' = Os
  BY SameProposals, SameSales DEF NormalizeExpiredUnit
<1>7. Fs' = Fs
  <2>1. u \notin Fs
    BY <1>1, Members
  <2>2. unit'[u] = "DISPONIVEL" /\ \A v \in Units \ {u} : unit'[v] = unit[v]
    <3>1. unit[u] = "RESERVADA"
      BY <1>1, ActiveIsAlone, Members
    <3> QED
      BY <1>0, <1>1, <3>1 DEF NormalizeExpiredUnit, ReleasedStatus, TypeOK
  <2>3. \A v \in Units \ {u} : Hs'[v] = Hs[v] /\ Bs'[v] = Bs[v]
    BY <1>4, <1>6 DEF Hs
  <2> QED
    BY <2>1, <2>2, <2>3, FrozenSame
<1> QED
  BY <1>1, <1>4, <1>5, <1>6, <1>7, AbstractRelease DEF AbstractStep

\* A new reservation holds a unit that nobody holds but lapsed reservations.
LEMMA CreateReservationRefines ==
  ASSUME AllocInv, NEW r \in Reservations, NEW u \in Units, NEW c, NEW o, NEW t,
         CreateReservation(r, u, c, o, t)
  PROVE  AbstractStep
<1>0. TypeOK
  BY DEF AllocInv, SaleInv
<1>1. /\ resv[r].status = "ABSENT"
      /\ ReleasedStatus(u) = "DISPONIVEL"
      /\ ~Active(r)
  BY DEF CreateReservation, Active
<1>2. ExpiredOn(u) \subseteq Hs[u] \cap Ls
  BY Members DEF ExpiredOn, Active
<1>3. Hs[u] \subseteq ExpiredOn(u) /\ Bs[u] = {} /\ u \notin Fs
  <2>1. CASE ExpiredOn(u) = {} \/ unit[u] # "RESERVADA"
    <3>1. unit[u] = "DISPONIVEL"
      BY <1>1, <2>1 DEF ReleasedStatus
    <3> QED
      BY <3>1, NobodyTakes
  <2>2. CASE ExpiredOn(u) # {}
    BY <1>2, <2>2, ExpiredIsAlone, Members DEF AllocInv
  <2> QED
    BY <2>1, <2>2
<1>4. /\ resv'[r] = [status |-> "ATIVA", unit |-> u, person |-> c, opp |-> o, expiresAt |-> t]
      /\ \A h \in Reservations \ {r} : resv'[h] = ExpiredRows(u)[h]
  BY <1>0, ExpiredRowsType DEF CreateReservation
<1>5. Active(r)' /\ resv'[r].unit = u
  BY <1>4 DEF Active
<1>6. \A h \in Reservations \ {r} :
        /\ Active(h)' <=> Active(h) /\ resv[h].unit # u
        /\ Active(h)' => resv'[h] = resv[h]
        /\ resv'[h].unit = resv[h].unit
  BY <1>2, <1>3, <1>4, ExpiredClaims, Members DEF Active
<1>7. Hs' = [Hs EXCEPT ![u] = {r}]
  <2>1. \A h \in Reservations : h \in {r} <=> Active(h)' /\ resv'[h].unit = u
    BY <1>5, <1>6
  <2>2. \A h \in Reservations, v \in Units \ {u} :
          Active(h)' /\ resv'[h].unit = v <=> Active(h) /\ resv[h].unit = v
    BY <1>1, <1>5, <1>6
  <2> QED
    BY <2>1, <2>2, HoldersBecome
<1>8. Ls' \in {Ls \ Hs[u], (Ls \ Hs[u]) \cup {r}}
  <2>1. \A h \in Reservations \ {r} : h \in Ls' <=> h \in Ls \ Hs[u]
    BY <1>6, Members DEF Ls, Active, CreateReservation
  <2>2. r \notin Ls
    BY <1>1, Members
  <2>3. Ls' \subseteq Reservations /\ Ls \subseteq Reservations
    BY DEF Ls
  <2> QED
    BY <2>1, <2>2, <2>3
<1>9. Bs' = Bs /\ Os' = Os
  BY SameProposals, SameSales DEF CreateReservation
<1>10. Fs' = Fs
  <2>1. \A v \in Units \ {u} : unit'[v] = unit[v]
    BY <1>0 DEF CreateReservation, TypeOK
  <2>2. Hs'[u] # {} /\ \A v \in Units \ {u} : Hs'[v] = Hs[v] /\ Bs'[v] = Bs[v]
    BY <1>7, <1>9 DEF Hs
  <2> QED
    BY <1>3, <2>1, <2>2, FrozenSame
<1>11. \A v \in Units : r \notin Hs[v]
  BY <1>1, Members
<1>12. Hs[u] \subseteq Ls
  BY <1>2, <1>3
<1> QED
  BY <1>3, <1>7, <1>8, <1>9, <1>10, <1>11, <1>12, AbstractHold DEF AbstractStep

\* Cancelling releases the unit, converting leaves it reserved for nobody.
LEMMA EndReservationRefines ==
  ASSUME AllocInv, NEW r \in Reservations, CancelReservation(r) \/ ConvertReservation(r)
  PROVE  AbstractStep
<1>0. TypeOK
  BY DEF AllocInv, SaleInv
<1>1. StillActive(r) /\ Active(r)
  BY DEF CancelReservation, ConvertReservation, StillActive, Active
<1>2. PICK u \in Units : u = resv[r].unit
  BY <1>0, <1>1, ClaimUnits
<1>3. Hs[u] = {r} /\ Bs[u] = {} /\ u \notin Fs /\ unit[u] = "RESERVADA"
  BY <1>1, <1>2, ActiveIsAlone
<1>4. ExpiredOn(u) = {} /\ r \notin Ls
  <2>1. r \notin ExpiredOn(u)
    BY <1>1, <1>2 DEF StillActive
  <2>2. ExpiredOn(u) \subseteq Hs[u]
    BY Members DEF ExpiredOn, Active
  <2>3. r \notin Ls
    BY <1>2, <2>1 DEF ExpiredOn, Ls
  <2> QED
    BY <1>3, <2>1, <2>2, <2>3
<1>5. PICK to \in {"CANCELADA", "CONVERTIDA"} :
        resv' = [ExpiredRows(u) EXCEPT ![r].status = to]
  BY <1>2 DEF CancelReservation, ConvertReservation
<1>6. /\ ~Active(r)'
      /\ \A h \in Reservations \ {r} : resv'[h] = resv[h]
  <2>1. ExpiredRows(u) = resv
    BY <1>0, <1>4 DEF ExpiredRows, TypeOK
  <2>2. resv[r] \in ReservationRow
    BY <1>0, <1>1 DEF TypeOK, Active, AbsentReservation
  <2> QED
    BY <1>0, <1>5, <2>1, <2>2 DEF TypeOK, ReservationRow, Active
<1>7. Hs' = [Hs EXCEPT ![u] = {}]
  <2>1. \A h \in Reservations : ~(Active(h)' /\ resv'[h].unit = u)
    BY <1>3, <1>6, Members DEF Active
  <2>2. \A h \in Reservations, v \in Units \ {u} :
          Active(h)' /\ resv'[h].unit = v <=> Active(h) /\ resv[h].unit = v
    BY <1>2, <1>6 DEF Active
  <2> QED
    BY <2>1, <2>2, HoldersBecome
<1>8. Ls' = Ls
  <2>1. now' = now
    BY DEF CancelReservation, ConvertReservation
  <2> QED
    BY <1>4, <1>6, <2>1 DEF Ls, Active
<1>9. Bs' = Bs /\ Os' = Os
  BY SameProposals, SameSales DEF CancelReservation, ConvertReservation
<1>10. \A v \in Units \ {u} : Hs'[v] = Hs[v] /\ Bs'[v] = Bs[v]
  BY <1>7, <1>9 DEF Hs
<1>11. CASE CancelReservation(r)
  <2>1. unit'[u] = "DISPONIVEL" /\ \A v \in Units \ {u} : unit'[v] = unit[v]
    BY <1>0, <1>2, <1>3, <1>11 DEF CancelReservation, TypeOK
  <2>2. Fs' = Fs
    BY <1>3, <1>10, <2>1, FrozenSame
  <2>3. Ls' = Ls \ Hs[u]
    BY <1>3, <1>4, <1>8
  <2> QED
    BY <1>3, <1>7, <1>9, <2>2, <2>3, AbstractRelease DEF AbstractStep
<1>12. CASE ConvertReservation(r)
  <2>1. unit'[u] = "RESERVADA" /\ \A v \in Units \ {u} : unit'[v] = unit[v]
    BY <1>0, <1>2, <1>3, <1>4, <1>12 DEF ConvertReservation, ReleasedStatus, TypeOK
  <2>2. Hs'[u] = {} /\ Bs'[u] = {}
    BY <1>3, <1>7, <1>9 DEF Hs
  <2>3. \A v \in Units : /\ HoldersOf(v) = Hs[v] /\ BuyersOf(v) = Bs[v]
                         /\ HoldersOf(v)' = Hs'[v] /\ BuyersOf(v)' = Bs'[v]
    BY DEF Hs, Bs
  <2>4. Fs' = Fs \cup {u}
    BY <1>10, <2>1, <2>2, <2>3 DEF Fs
  <2>5. Hs[u] # {} /\ Hs[u] \cap Ls = {}
    BY <1>3, <1>4
  <2> QED
    BY <1>7, <1>8, <1>9, <2>4, <2>5, AbstractFreeze DEF AbstractStep
<1> QED
  BY <1>11, <1>12

\* Only accept commits a proposal, and only convertProposal sells it.
LEMMA ProposalsRefine ==
  ASSUME AllocInv, ProposalNext
  PROVE  AbstractStep
<1>0. TypeOK
  BY DEF AllocInv, SaleInv
<1>1. UNCHANGED <<now, unit, resv, sale>>
  BY DEF ProposalNext, CreateProposal, CreateVersion, Send, Reject, NormalizeExpired,
         TrailingFindOne
<1>2. \A p \in Proposals : prop[p].status = "ACEITA" => prop'[p] = prop[p]
  <2>1. ASSUME NEW p \in Proposals, prop[p].status = "ACEITA",
               NEW h \in Proposals, NEW x, prop' = [prop EXCEPT ![h] = x],
               prop[h].status # "ACEITA"
        PROVE  prop'[p] = prop[p]
    BY <1>0, <2>1 DEF TypeOK
  <2>2. ASSUME NEW p \in Proposals, prop[p].status = "ACEITA",
               NEW h \in Proposals, NEW u, NEW c, NEW o, NEW r, NEW t,
               CreateProposal(h, u, c, o, r, t) \/ CreateVersion(h, t)
        PROVE  prop'[p] = prop[p]
    BY <2>1, <2>2 DEF CreateProposal, CreateVersion
  <2>3. ASSUME NEW p \in Proposals, prop[p].status = "ACEITA", NEW h \in Proposals,
               Send(h) \/ Reject(h) \/ NormalizeExpired(h) \/ TrailingFindOne(h)
        PROVE  prop'[p] = prop[p]
    BY <2>1, <2>3 DEF Send, Reject, NormalizeExpired, TrailingFindOne, Overdue, Negotiable
  <2> QED
    BY <2>2, <2>3 DEF ProposalNext
<1>3. ASSUME NEW p \in Proposals, prop[p].status # "ACEITA"
      PROVE  prop'[p].status # "ACEITA"
  <2>1. ASSUME NEW h \in Proposals, NEW x, prop' = [prop EXCEPT ![h] = x],
               x.status # "ACEITA"
        PROVE  prop'[p].status # "ACEITA"
    BY <1>0, <1>3, <2>1 DEF TypeOK
  <2>2. ASSUME NEW h \in Proposals, NEW u, NEW c, NEW o, NEW r, NEW t,
               CreateProposal(h, u, c, o, r, t)
        PROVE  prop'[p].status # "ACEITA"
    <3>x. PICK x : x = [status |-> "RASCUNHO", unit |-> u, person |-> c, opp |-> o,
                        resv |-> r, validUntil |-> t, version |-> 1, converted |-> FALSE]
      OBVIOUS
    <3>1. prop' = [prop EXCEPT ![h] = x]
      BY <2>2, <3>x DEF CreateProposal
    <3>2. x.status # "ACEITA"
      BY <3>x
    <3> QED
      BY <2>1, <3>1, <3>2
  <2>3. ASSUME NEW h \in Proposals, NEW t, CreateVersion(h, t)
        PROVE  prop'[p].status # "ACEITA"
    <3>1. prop[h] \in ProposalRow
      BY <1>0, <2>3 DEF CreateVersion, TypeOK, AbsentProposal
    <3>2. prop'[h].status \in {"RASCUNHO", "EM_NEGOCIACAO"}
      BY <1>0, <2>3, <3>1 DEF CreateVersion, TypeOK, ProposalRow
    <3>3. \A e \in Proposals \ {h} : prop'[e] = prop[e]
      BY <1>0, <2>3 DEF CreateVersion, TypeOK
    <3> QED
      BY <1>3, <3>2, <3>3
  <2>4. ASSUME NEW h \in Proposals, prop[h].status # "ABSENT",
               NEW to \in {"ENVIADA", "RECUSADA", "EXPIRADA"},
               prop' = [prop EXCEPT ![h].status = to]
        PROVE  prop'[p].status # "ACEITA"
    <3>1. prop[h] \in ProposalRow
      BY <1>0, <2>4 DEF TypeOK, AbsentProposal
    <3>2. prop'[h].status = to /\ \A e \in Proposals \ {h} : prop'[e] = prop[e]
      BY <1>0, <2>4, <3>1 DEF TypeOK, ProposalRow
    <3> QED
      BY <1>3, <3>2
  <2>5. ASSUME NEW h \in Proposals, Send(h) PROVE prop'[p].status # "ACEITA"
    BY <2>4, <2>5 DEF Send
  <2>6. ASSUME NEW h \in Proposals, Reject(h) PROVE prop'[p].status # "ACEITA"
    BY <2>4, <2>6 DEF Reject, Negotiable
  <2>7. ASSUME NEW h \in Proposals, NormalizeExpired(h) PROVE prop'[p].status # "ACEITA"
    BY <2>4, <2>7 DEF NormalizeExpired, Overdue, Negotiable
  <2>8. ASSUME NEW h \in Proposals, TrailingFindOne(h) PROVE prop'[p].status # "ACEITA"
    <3>1. CASE Overdue(h)
      <4>1. prop[h].status # "ABSENT"
        BY <3>1 DEF Overdue, Negotiable
      <4>2. prop' = [prop EXCEPT ![h].status = "EXPIRADA"]
        BY <2>8, <3>1 DEF TrailingFindOne
      <4>3. prop[h] \in ProposalRow
        BY <1>0, <4>1 DEF TypeOK, AbsentProposal
      <4>4. prop'[h].status = "EXPIRADA" /\ \A e \in Proposals \ {h} : prop'[e] = prop[e]
        BY <1>0, <4>2, <4>3 DEF TypeOK, ProposalRow
      <4> QED
        BY <1>3, <4>4
    <3>2. CASE ~Overdue(h)
      BY <1>3, <2>8, <3>2 DEF TrailingFindOne
    <3> QED
      BY <3>1, <3>2
  <2> QED
    BY <2>2, <2>3, <2>5, <2>6, <2>7, <2>8 DEF ProposalNext
<1>4. \A p \in Proposals : Committed(p)' <=> Committed(p)
  BY <1>2, <1>3 DEF Committed
<1>5. \A p \in Proposals : Committed(p) => prop'[p].unit = prop[p].unit
  BY <1>2 DEF Committed
<1> QED
  BY <1>1, <1>4, <1>5, ClaimsSame DEF Active, LiveSale

\* A proposal that is not accepted has no sale, so it was never converted.
LEMMA NegotiableNotConverted ==
  ASSUME AllocInv, NEW p \in Proposals, prop[p].status # "ACEITA"
  PROVE  ~prop[p].converted
<1> SUFFICES ASSUME prop[p].converted PROVE FALSE
  OBVIOUS
<1>1. PICK s \in Sales : sale[s].prop = p
  BY MatchParts DEF AllocInv, SaleInv
<1>2. sale[s].status # "ABSENT"
  BY <1>1, SaleRowFacts, NullAssumption DEF AllocInv, SaleInv
<1> QED
  BY <1>1, <1>2, MatchParts DEF AllocInv, SaleInv, Matched

\* What accepting proposal p does to the proposals.
LEMMA AcceptedRow ==
  ASSUME AllocInv, NEW p \in Proposals, Negotiable(p), NEW r,
         prop' = [prop EXCEPT ![p].status = "ACEITA", ![p].resv = r]
  PROVE  /\ prop[p] \in ProposalRow
         /\ ~Committed(p)
         /\ Bs' = [Bs EXCEPT ![prop[p].unit] = Bs[prop[p].unit] \cup {p}]
<1>0. TypeOK
  BY DEF AllocInv, SaleInv
<1>1. prop[p] \in ProposalRow /\ ~Committed(p) /\ ~prop[p].converted
  BY <1>0, NegotiableNotConverted DEF Negotiable, Committed, TypeOK, AbsentProposal
<1>2. PICK u \in Units : u = prop[p].unit
  BY <1>1 DEF ProposalRow
<1>3. /\ prop'[p].status = "ACEITA" /\ prop'[p].unit = u /\ ~prop'[p].converted
      /\ \A e \in Proposals \ {p} : prop'[e] = prop[e]
  BY <1>0, <1>1, <1>2 DEF TypeOK, ProposalRow
<1>4. Committed(p)' /\ \A e \in Proposals \ {p} : Committed(e)' <=> Committed(e)
  BY <1>3 DEF Committed
<1>5. Bs[u] \cup {p} \in SUBSET Proposals
  BY Members
<1>6. ASSUME NEW e \in Proposals
      PROVE  e \in Bs[u] \cup {p} <=> Committed(e)' /\ prop'[e].unit = u
  <2>1. e \in Bs[u] <=> Committed(e) /\ prop[e].unit = u
    BY Members
  <2>2. CASE e = p
    BY <1>3, <1>4, <2>2
  <2>3. CASE e # p
    BY <1>3, <1>4, <2>1, <2>3
  <2> QED
    BY <2>2, <2>3
<1>7. \A e \in Proposals, v \in Units \ {u} :
        Committed(e)' /\ prop'[e].unit = v <=> Committed(e) /\ prop[e].unit = v
  BY <1>1, <1>3, <1>4
<1>8. Bs' = [Bs EXCEPT ![u] = Bs[u] \cup {p}]
  BY <1>5, <1>6, <1>7, BuyersBecome
<1> QED
  BY <1>1, <1>2, <1>8

\* Accepting commits the unit to the proposal, by its reservation or freely.
LEMMA AcceptReservedRefines ==
  ASSUME AllocInv, NEW q \in Requests, AcceptReserved(q)
  PROVE  AbstractStep
<1>0. TypeOK
  BY DEF AllocInv, SaleInv
<1>1. PICK p \in Proposals, r \in Reservations : p = req[q].prop /\ r = req[q].resv
  BY <1>0, RequestType DEF AcceptReserved, OrNull
<1>2. /\ Negotiable(p)
      /\ Active(r) /\ resv[r].expiresAt > now /\ resv[r].unit = prop[p].unit
      /\ prop' = [prop EXCEPT ![p].status = "ACEITA", ![p].resv = r]
      /\ resv' = [resv EXCEPT ![r].status = "CONVERTIDA"]
      /\ UNCHANGED <<now, unit, sale>>
  BY <1>1 DEF AcceptReserved, AcceptGuard, ReservationBacks, Active
<1>3. PICK u \in Units : u = prop[p].unit
  BY <1>2, AcceptedRow DEF ProposalRow
<1>4. Hs[u] = {r} /\ Bs[u] = {} /\ u \notin Fs
  BY <1>2, <1>3, ActiveIsAlone
<1>5. ~Active(r)' /\ \A h \in Reservations \ {r} : resv'[h] = resv[h]
  <2>1. resv[r] \in ReservationRow
    BY <1>0, <1>2 DEF TypeOK, Active, AbsentReservation
  <2> QED
    BY <1>0, <1>2, <2>1 DEF TypeOK, ReservationRow, Active
<1>6. r \notin Ls
  BY <1>0, <1>2 DEF Ls, TypeOK, Active, ReservationRow, AbsentReservation, Times
<1>7. Hs' = [Hs EXCEPT ![u] = {}]
  <2>1. \A h \in Reservations : ~(Active(h)' /\ resv'[h].unit = u)
    BY <1>4, <1>5, Members DEF Active
  <2>2. \A h \in Reservations, v \in Units \ {u} :
          Active(h)' /\ resv'[h].unit = v <=> Active(h) /\ resv[h].unit = v
    BY <1>2, <1>3, <1>5 DEF Active
  <2> QED
    BY <2>1, <2>2, HoldersBecome
<1>8. Bs' = [Bs EXCEPT ![u] = {p}]
  BY <1>2, <1>3, <1>4, AcceptedRow
<1>9. Ls' = Ls
  BY <1>2, <1>5, <1>6 DEF Ls, Active
<1>10. Os' = Os
  BY <1>2, SameSales
<1>11. Fs' = Fs
  <2>1. Bs'[u] # {} /\ \A v \in Units \ {u} : Hs'[v] = Hs[v] /\ Bs'[v] = Bs[v]
    BY <1>7, <1>8 DEF Hs, Bs
  <2> QED
    BY <1>2, <1>4, <2>1, FrozenSame
<1>12. /\ Hs[u] \cap Ls = {}
       /\ \A v \in Units : p \notin Bs[v]
  BY <1>2, <1>4, <1>6, AcceptedRow, Members
<1> QED
  BY <1>4, <1>7, <1>8, <1>9, <1>10, <1>11, <1>12, AbstractCommit DEF AbstractStep

LEMMA AcceptAvailableRefines ==
  ASSUME AllocInv, NEW q \in Requests, NEW r \in Reservations, AcceptAvailable(q, r)
  PROVE  AbstractStep
<1>0. TypeOK
  BY DEF AllocInv, SaleInv
<1>1. PICK p \in Proposals : p = req[q].prop
  BY <1>0, RequestType DEF AcceptAvailable
<1>2. /\ Negotiable(p)
      /\ unit[prop[p].unit] = "DISPONIVEL"
      /\ ~Active(r)
      /\ prop' = [prop EXCEPT ![p].status = "ACEITA", ![p].resv = r]
      /\ unit' = [unit EXCEPT ![prop[p].unit] = "RESERVADA"]
      /\ UNCHANGED <<now, sale>>
  BY <1>1 DEF AcceptAvailable, AcceptGuard, Active
<1>3. PICK u \in Units : u = prop[p].unit
  BY <1>2, AcceptedRow DEF ProposalRow
<1>4. Hs[u] = {} /\ Bs[u] = {} /\ u \notin Fs
  BY <1>2, <1>3, NobodyTakes
<1>5. ~Active(r)' /\ \A h \in Reservations \ {r} : resv'[h] = resv[h]
  BY <1>0 DEF AcceptAvailable, TypeOK, Active
<1>6. \A h \in Reservations :
        /\ Active(h)' <=> Active(h)
        /\ Active(h) => resv'[h] = resv[h]
  BY <1>2, <1>5 DEF Active
<1>7. Hs' = Hs /\ Ls' = Ls
  BY <1>2, <1>6, HoldersSame, LapsedSame
<1>8. Bs' = [Bs EXCEPT ![u] = {p}]
  BY <1>2, <1>3, <1>4, AcceptedRow
<1>9. Os' = Os
  BY <1>2, SameSales
<1>10. Fs' = Fs
  <2>1. Bs'[u] # {} /\ \A v \in Units \ {u} : Hs'[v] = Hs[v] /\ Bs'[v] = Bs[v]
    BY <1>7, <1>8 DEF Bs
  <2>2. \A v \in Units \ {u} : unit'[v] = unit[v]
    BY <1>0, <1>2, <1>3 DEF TypeOK
  <2> QED
    BY <1>4, <2>1, <2>2, FrozenSame
<1>11. \A v \in Units : p \notin Bs[v]
  BY <1>2, AcceptedRow, Members
<1>12. Hs' = [Hs EXCEPT ![u] = {}]
  BY <1>4, <1>7 DEF Hs
<1> QED
  BY <1>4, <1>7, <1>8, <1>9, <1>10, <1>11, <1>12, AbstractCommit DEF AbstractStep

\* Converting sells the unit to the proposal it was committed to, and to no
\* other; its reservation had ended when the proposal was accepted.
LEMMA ConvertRefines ==
  ASSUME AllocInv, NEW q \in Requests, NEW s \in Sales, ConvertProposal(q, s)
  PROVE  AbstractStep
<1>0. TypeOK
  BY DEF AllocInv, SaleInv
<1>1. PICK p \in Proposals, r \in Reservations : p = req[q].prop /\ r = req[q].resv
  BY <1>0, RequestType DEF ConvertProposal, OrNull
<1>2. /\ sale[s].status = "ABSENT"
      /\ Committed(p)
      /\ NoLiveSale(prop[p].unit)
      /\ resv[r].unit = prop[p].unit
      /\ resv[r].status \in {"CONVERTIDA", "ATIVA"}
      /\ resv' = [resv EXCEPT ![r].status = "CONVERTIDA"]
      /\ prop' = [prop EXCEPT ![p].converted = TRUE]
      /\ unit' = [unit EXCEPT ![prop[p].unit] = "VENDIDA"]
      /\ now' = now
  BY <1>1 DEF ConvertProposal, ReservationSellable, Committed
<1>3. PICK u \in Units : u = prop[p].unit
  BY <1>0, <1>2, ClaimUnits
<1>4. Bs[u] = {p} /\ Hs[u] = {}
  <2>1. \A e \in Proposals : Committed(e) /\ prop[e].unit = u => e = p
    BY <1>2, <1>3 DEF AllocInv, ClaimInv, ExclusiveClaim
  <2>2. \A h \in Reservations : Active(h) => resv[h].unit # u
    BY <1>2, <1>3 DEF AllocInv, ClaimInv, ExclusiveClaim, Active
  <2>3. Bs[u] = {p}
    BY <1>2, <1>3, <2>1, Members
  <2> QED
    BY <2>2, <2>3, Members
<1>5. ~Active(r)
  BY <1>2, <1>3, <1>4, Members
<1>6. \A h \in Reservations :
        /\ Active(h)' <=> Active(h)
        /\ Active(h) => resv'[h] = resv[h]
  <2>1. ~Active(r)' /\ \A h \in Reservations \ {r} : resv'[h] = resv[h]
    <3>1. resv[r] \in ReservationRow
      BY <1>0, <1>2 DEF TypeOK, AbsentReservation
    <3> QED
      BY <1>0, <1>2, <3>1 DEF TypeOK, ReservationRow, Active
  <2> QED
    BY <1>5, <2>1 DEF Active
<1>7. Hs' = Hs /\ Ls' = Ls
  BY <1>2, <1>6, HoldersSame, LapsedSame
<1>8. /\ ~Committed(p)'
      /\ \A e \in Proposals \ {p} : prop'[e] = prop[e]
  <2>1. prop[p] \in ProposalRow
    BY <1>0, <1>2 DEF TypeOK, Committed, AbsentProposal
  <2> QED
    BY <1>0, <1>2, <2>1 DEF TypeOK, ProposalRow, Committed
<1>9. Bs' = [Bs EXCEPT ![u] = {}]
  <2>1. \A e \in Proposals : ~(Committed(e)' /\ prop'[e].unit = u)
    BY <1>4, <1>8, Members DEF Committed
  <2>2. \A e \in Proposals, v \in Units \ {u} :
          Committed(e)' /\ prop'[e].unit = v <=> Committed(e) /\ prop[e].unit = v
    BY <1>3, <1>8 DEF Committed
  <2> QED
    BY <2>1, <2>2, BuyersBecome
<1>n. PICK n : n = sale'[s]
  OBVIOUS
<1>10. /\ n = [status |-> "ATIVA", unit |-> u, prop |-> p, opp |-> prop[p].opp,
               version |-> prop[p].version, paid |-> FALSE]
       /\ \A t \in Sales \ {s} : sale'[t] = sale[t]
  BY <1>0, <1>1, <1>3, <1>n DEF ConvertProposal, TypeOK
<1>11. /\ LiveSale(s)' /\ sale'[s].unit = u
       /\ ~LiveSale(s)
       /\ \A t \in Sales \ {s} : LiveSale(t)' <=> LiveSale(t)
  BY <1>2, <1>n, <1>10 DEF LiveSale
<1>12. \A t \in Sales : LiveSale(t) => sale[t].unit # u
  BY <1>2, <1>3 DEF NoLiveSale
<1>13. Os' = [Os EXCEPT ![u] = {s}]
  <2>1. \A t \in Sales : t \in {s} <=> LiveSale(t)' /\ sale'[t].unit = u
    BY <1>10, <1>11, <1>12
  <2>2. \A t \in Sales, v \in Units \ {u} :
          LiveSale(t)' /\ sale'[t].unit = v <=> LiveSale(t) /\ sale[t].unit = v
    BY <1>10, <1>11
  <2> QED
    BY <2>1, <2>2, OwnersBecome
<1>14. Os[u] = {}
  BY <1>12, Members
<1>15. Fs' = Fs
  <2>1. u \notin Fs
    BY <1>4, Members
  <2>2. unit'[u] = "VENDIDA" /\ \A v \in Units \ {u} : unit'[v] = unit[v]
    BY <1>0, <1>2, <1>3 DEF TypeOK
  <2>3. \A v \in Units \ {u} : Hs'[v] = Hs[v] /\ Bs'[v] = Bs[v]
    BY <1>7, <1>9 DEF Bs
  <2> QED
    BY <2>1, <2>2, <2>3, FrozenSame
<1>16. Bs[u] # {}
  BY <1>4
<1> QED
  BY <1>7, <1>9, <1>13, <1>14, <1>15, <1>16, AbstractSell DEF AbstractStep

LEMMA RequestsRefine ==
  ASSUME AllocInv, RequestNext
  PROVE  AbstractStep
<1>1. ASSUME UNCHANGED <<now, unit, resv, prop, sale>> PROVE AbstractStep
  BY <1>1, ClaimsSame DEF Active, Committed, LiveSale
<1>2. ASSUME NEW q, NEW op, NEW p, ReadCandidate(q, op, p) \/ RequestFails(q)
      PROVE  AbstractStep
  BY <1>1, <1>2 DEF ReadCandidate, RequestFails
<1> QED
  BY <1>2, AcceptReservedRefines, AcceptAvailableRefines, ConvertRefines DEF RequestNext

\* The units a user creates, edits and removes are not reserved.
LEMMA UnitsRefine ==
  ASSUME AllocInv, UnitNext
  PROVE  AbstractStep
<1>0. TypeOK
  BY DEF AllocInv, SaleInv
<1>1. UNCHANGED <<now, resv, prop, sale>>
  BY DEF UnitNext, CreateUnit, UpdateUnit, RemoveUnit
<1>2. \A v \in Units : unit'[v] = "RESERVADA" <=> unit[v] = "RESERVADA"
  <2>1. ASSUME NEW u \in Units, NEW status \in ManualStatus,
               CreateUnit(u, status) \/ UpdateUnit(u, status)
        PROVE  \A v \in Units : unit'[v] = "RESERVADA" <=> unit[v] = "RESERVADA"
    <3>1. unit' = [unit EXCEPT ![u] = status] /\ unit[u] # "RESERVADA"
      BY <2>1 DEF CreateUnit, UpdateUnit
    <3>2. status # "RESERVADA"
      BY ManualAssumption
    <3> QED
      BY <1>0, <3>1, <3>2 DEF TypeOK
  <2>2. ASSUME NEW u \in Units, RemoveUnit(u)
        PROVE  \A v \in Units : unit'[v] = "RESERVADA" <=> unit[v] = "RESERVADA"
    <3>1. unit[u] # "RESERVADA"
      BY <2>2 DEF RemoveUnit, AllocInv, ReservedIsNamed
    <3> QED
      BY <1>0, <2>2, <3>1 DEF RemoveUnit, TypeOK
  <2> QED
    BY <2>1, <2>2 DEF UnitNext
<1> QED
  BY <1>1, <1>2, ClaimsSame DEF Active, Committed, LiveSale

LEMMA OpportunitiesRefine ==
  ASSUME AllocInv, OpportunityNext
  PROVE  AbstractStep
<1>0. TypeOK
  BY DEF AllocInv, SaleInv
<1>1. ASSUME NEW o \in Opportunities, RemoveOpportunity(o) PROVE AbstractStep
  <2>1. /\ \A r \in Reservations : resv'[r] = Unlink(resv[r], o)
        /\ \A p \in Proposals : prop'[p] = Unlink(prop[p], o)
        /\ \A s \in Sales : sale'[s] = Unlink(sale[s], o)
        /\ UNCHANGED <<now, unit>>
    BY <1>1 DEF RemoveOpportunity
  <2>2. \A r \in Reservations :
          /\ Active(r)' <=> Active(r)
          /\ resv'[r].unit = resv[r].unit
          /\ resv'[r].expiresAt = resv[r].expiresAt
    BY <1>0, <2>1, UnlinkKeeps DEF Active
  <2>3. \A p \in Proposals :
          /\ Committed(p)' <=> Committed(p)
          /\ prop'[p].unit = prop[p].unit
    BY <1>0, <2>1, UnlinkKeeps DEF Committed
  <2>4. \A s \in Sales :
          /\ LiveSale(s)' <=> LiveSale(s)
          /\ sale'[s].unit = sale[s].unit
    BY <1>0, <2>1, UnlinkKeeps DEF LiveSale
  <2> QED
    BY <2>1, <2>2, <2>3, <2>4, ClaimsSame
<1>2. ASSUME NEW o, NEW c, NEW d, NEW u,
             CreateOpportunity(o, c, d, u) \/ UpdateOpportunity(o, c, d, u)
      PROVE  UNCHANGED <<now, unit, resv, prop, sale>>
  BY <1>2 DEF CreateOpportunity, UpdateOpportunity
<1>3. ASSUME NEW o, NEW stage, MoveOpportunity(o, stage)
      PROVE  UNCHANGED <<now, unit, resv, prop, sale>>
  BY <1>3 DEF MoveOpportunity
<1>4. ASSUME UNCHANGED <<now, unit, resv, prop, sale>> PROVE AbstractStep
  BY <1>4, ClaimsSame DEF Active, Committed, LiveSale
<1> QED
  BY <1>1, <1>2, <1>3, <1>4 DEF OpportunityNext

\* The ledger keeps a sale alive; the distrato rescinds the one of the unit.
LEMMA SalesRefine ==
  ASSUME AllocInv, SaleNext
  PROVE  AbstractStep
<1>0. TypeOK
  BY DEF AllocInv, SaleInv
<1>1. ASSUME NEW s \in Sales, NEW paid \in BOOLEAN, NEW status \in {"ATIVA", "QUITADA"},
             SyncSaleStatus(s, paid, status)
      PROVE  AbstractStep
  <2>1. LiveSale(s) /\ sale[s] \in SaleRow
    BY <1>0, <1>1, SaleRowFacts DEF SyncSaleStatus
  <2>2. /\ LiveSale(s)' /\ sale'[s].unit = sale[s].unit
        /\ \A t \in Sales \ {s} : sale'[t] = sale[t]
    BY <1>0, <1>1, <2>1 DEF SyncSaleStatus, TypeOK, SaleRow, LiveSale
  <2>3. \A t \in Sales : LiveSale(t)' <=> LiveSale(t)
    BY <2>1, <2>2 DEF LiveSale
  <2>4. \A t \in Sales : sale'[t].unit = sale[t].unit
    BY <2>2
  <2>5. UNCHANGED <<now, unit, resv, prop>>
    BY <1>1 DEF SyncSaleStatus
  <2> QED
    BY <2>3, <2>4, <2>5, ClaimsSame DEF Active, Committed
<1>2. ASSUME NEW s \in Sales, CancelSale(s) PROVE AbstractStep
  <2>1. LiveSale(s) /\ sale[s] \in SaleRow
    BY <1>0, <1>2, SaleRowFacts DEF CancelSale
  <2>2. /\ ~LiveSale(s)'
        /\ \A t \in Sales \ {s} : sale'[t] = sale[t]
    BY <1>0, <1>2, <2>1 DEF CancelSale, TypeOK, SaleRow, LiveSale
  <2>3. PICK u \in Units : u = sale[s].unit
    BY <2>1 DEF SaleRow
  <2>4. \A t \in Sales : LiveSale(t) /\ sale[t].unit = u => t = s
    BY <2>1, <2>3 DEF AllocInv, SaleInv, OneLiveSalePerUnit
  <2>5. Os' = [Os EXCEPT ![u] = {}]
    <3>1. \A t \in Sales : ~(LiveSale(t)' /\ sale'[t].unit = u)
      BY <2>2, <2>4 DEF LiveSale
    <3>2. \A t \in Sales, v \in Units \ {u} :
            LiveSale(t)' /\ sale'[t].unit = v <=> LiveSale(t) /\ sale[t].unit = v
      BY <2>2, <2>3 DEF LiveSale
    <3> QED
      BY <3>1, <3>2, OwnersBecome
  <2>6. Os[u] # {}
    BY <2>1, <2>3, Members
  <2>7. Hs' = Hs /\ Bs' = Bs /\ Ls' = Ls
    <3>1. UNCHANGED <<now, resv, prop>>
      BY <1>2 DEF CancelSale
    <3> QED
      BY <3>1, HoldersSame, SameProposals, LapsedSame DEF Active
  <2>8. \A v \in Units : unit'[v] = "RESERVADA" <=> unit[v] = "RESERVADA"
    BY <1>0, <1>2, <2>3 DEF CancelSale, TypeOK
  <2>9. Fs' = Fs
    BY <2>7, <2>8, NothingFrozen
  <2> QED
    BY <2>5, <2>6, <2>7, <2>9, AbstractRescind DEF AbstractStep
<1> QED
  BY <1>1, <1>2 DEF SaleNext

\* Time makes reservations lapse.
LEMMA TickRefines ==
  ASSUME AllocInv, Tick
  PROVE  AbstractStep
<1>0. TypeOK
  BY DEF AllocInv, SaleInv
<1>1. Hs' = Hs /\ Bs' = Bs /\ Os' = Os
  BY HoldersSame, SameProposals, SameSales DEF Tick, Active
<1>2. Fs' = Fs
  BY <1>1, NothingFrozen DEF Tick
<1>3. Ls \subseteq Ls'
  <2>1. ASSUME NEW r \in Ls PROVE r \in Ls'
    <3>1. r \in Reservations /\ Active(r) /\ resv[r].expiresAt <= now
      BY DEF Ls, Active
    <3>2. resv[r].expiresAt \in Nat /\ now \in Nat
      BY <1>0, <3>1 DEF TypeOK, Active, ReservationRow, AbsentReservation, Times
    <3> QED
      BY <3>1, <3>2 DEF Ls, Active, Tick
  <2> QED
    BY <2>1
<1>4. Ls' \subseteq UNION {Hs[u] : u \in Units}
  <2>1. ASSUME NEW r \in Ls' PROVE \E u \in Units : r \in Hs[u]
    <3>1. r \in Reservations /\ Active(r)
      BY DEF Ls, Active, Tick
    <3> QED
      BY <1>0, <3>1, ClaimUnits, Members
  <2> QED
    BY <2>1
<1> QED
  BY <1>1, <1>2, <1>3, <1>4, AbstractLapse DEF AbstractStep

LEMMA NextRefines ==
  ASSUME AllocInv, [Next]_vars
  PROVE  AbstractStep
<1>1. CASE Crash \/ UNCHANGED vars
  <2>1. UNCHANGED <<now, unit, resv, prop, sale>>
    BY <1>1 DEF Crash, vars
  <2> QED
    BY <2>1, ClaimsSame DEF Active, Committed, LiveSale
<1>2. CASE ReservationNext
  BY <1>2, NormalizeRefines, CreateReservationRefines, EndReservationRefines
     DEF ReservationNext
<1> QED
  BY <1>1, <1>2, ProposalsRefine, RequestsRefine, UnitsRefine, OpportunitiesRefine,
     SalesRefine, TickRefines DEF Next

-----------------------------------------------------------------------------
(* Reserved units are named by a reservation.                              *)

\* A step that renames no reservation, and reserves only units that one names.
LEMMA NamedFrame ==
  ASSUME ReservedIsNamed,
         \A r \in Reservations, u \in Units : resv[r].unit = u => resv'[r].unit = u,
         \A u \in Units : unit'[u] = "RESERVADA" =>
           unit[u] = "RESERVADA" \/ \E r \in Reservations : resv'[r].unit = u
  PROVE  ReservedIsNamed'
BY DEF ReservedIsNamed

LEMMA ReservationsKeepNamed ==
  ASSUME AllocInv, ReservationNext
  PROVE  ReservedIsNamed'
<1>0. TypeOK /\ ReservedIsNamed
  BY DEF AllocInv, SaleInv
<1>1. ASSUME NEW u \in Units, NormalizeExpiredUnit(u) PROVE ReservedIsNamed'
  <2>1. \A r \in Reservations : resv'[r].unit = resv[r].unit
    BY <1>1, ExpiredClaims DEF NormalizeExpiredUnit
  <2>2. \A v \in Units : unit'[v] = "RESERVADA" => unit[v] = "RESERVADA"
    BY <1>0, <1>1 DEF NormalizeExpiredUnit, ReleasedStatus, TypeOK
  <2> QED
    BY <1>0, <2>1, <2>2, NamedFrame
<1>2. ASSUME NEW h \in Reservations, NEW u \in Units, NEW c, NEW o, NEW t,
             CreateReservation(h, u, c, o, t)
      PROVE  ReservedIsNamed'
  <2>1. /\ resv'[h] = [status |-> "ATIVA", unit |-> u, person |-> c, opp |-> o, expiresAt |-> t]
        /\ \A r \in Reservations \ {h} : resv'[r] = ExpiredRows(u)[r]
    BY <1>0, <1>2, ExpiredRowsType DEF CreateReservation
  <2>2. resv'[h].unit = u /\ \A r \in Reservations \ {h} : resv'[r].unit = resv[r].unit
    BY <2>1, ExpiredClaims
  <2>3. \A v \in Units : resv[h].unit # v
    BY <1>0, <1>2, NullAssumption
       DEF CreateReservation, TypeOK, ReservationRow, AbsentReservation
  <2>4. \A v \in Units \ {u} : unit'[v] = unit[v]
    BY <1>0, <1>2 DEF CreateReservation, TypeOK
  <2> QED
    BY <1>0, <2>2, <2>3, <2>4, NamedFrame
<1>3. ASSUME NEW h \in Reservations, CancelReservation(h) \/ ConvertReservation(h)
      PROVE  ReservedIsNamed'
  <2>1. PICK u \in Units : u = resv[h].unit /\ Active(h)
    BY <1>0, <1>3, ClaimUnits DEF CancelReservation, ConvertReservation, StillActive, Active
  <2>2. PICK to \in {"CANCELADA", "CONVERTIDA"} :
          resv' = [ExpiredRows(u) EXCEPT ![h].status = to]
    BY <1>3, <2>1 DEF CancelReservation, ConvertReservation
  <2>3. ExpiredRows(u)[h] \in ReservationRow
    BY <1>0, <2>1, ExpiredRowsType, ExpiredClaims, NullAssumption DEF AbsentReservation
  <2>4. \A r \in Reservations : resv'[r].unit = resv[r].unit
    <3>1. \A r \in Reservations : resv'[r].unit = ExpiredRows(u)[r].unit
      BY <1>0, <2>2, <2>3, ExpiredRowsType DEF ReservationRow
    <3> QED
      BY <3>1, ExpiredClaims
  <2>5. \A v \in Units : unit'[v] = "RESERVADA" => unit[v] = "RESERVADA"
    BY <1>0, <1>3, <2>1 DEF CancelReservation, ConvertReservation, ReleasedStatus, TypeOK
  <2> QED
    BY <1>0, <2>4, <2>5, NamedFrame
<1> QED
  BY <1>1, <1>2, <1>3 DEF ReservationNext

LEMMA RequestsKeepNamed ==
  ASSUME AllocInv, RequestNext
  PROVE  ReservedIsNamed'
<1>0. TypeOK /\ ReservedIsNamed
  BY DEF AllocInv, SaleInv
<1>1. ASSUME NEW r \in Reservations, resv[r].status # "ABSENT",
             resv' = [resv EXCEPT ![r].status = "CONVERTIDA"],
             \A v \in Units : unit'[v] = "RESERVADA" => unit[v] = "RESERVADA"
      PROVE  ReservedIsNamed'
  <2>1. resv[r] \in ReservationRow
    BY <1>0, <1>1, ReservationStatusType
  <2>2. \A h \in Reservations : resv'[h].unit = resv[h].unit
    BY <1>0, <1>1, <2>1 DEF TypeOK, ReservationRow
  <2> QED
    BY <1>0, <1>1, <2>2, NamedFrame
<1>2. ASSUME NEW q \in Requests, AcceptReserved(q) PROVE ReservedIsNamed'
  <2>1. PICK r \in Reservations : r = req[q].resv
    BY <1>0, <1>2, RequestType DEF AcceptReserved, OrNull
  <2>2. /\ resv[r].status # "ABSENT"
        /\ resv' = [resv EXCEPT ![r].status = "CONVERTIDA"]
        /\ unit' = unit
    BY <1>2, <2>1 DEF AcceptReserved, ReservationBacks
  <2> QED
    BY <1>1, <2>2
<1>3. ASSUME NEW q \in Requests, NEW s \in Sales, ConvertProposal(q, s)
      PROVE  ReservedIsNamed'
  <2>1. PICK r \in Reservations : r = req[q].resv
    BY <1>0, <1>3, RequestType DEF ConvertProposal, OrNull
  <2>2. /\ resv[r].status # "ABSENT"
        /\ resv' = [resv EXCEPT ![r].status = "CONVERTIDA"]
    BY <1>3, <2>1 DEF ConvertProposal, ReservationSellable
  <2>3. \A v \in Units : unit'[v] = "RESERVADA" => unit[v] = "RESERVADA"
    BY <1>0, <1>3 DEF ConvertProposal, TypeOK
  <2> QED
    BY <1>1, <2>2, <2>3
<1>4. ASSUME NEW q \in Requests, NEW r \in Reservations, AcceptAvailable(q, r)
      PROVE  ReservedIsNamed'
  <2>p. PICK p \in Proposals : p = req[q].prop
    BY <1>0, <1>4, RequestType DEF AcceptAvailable
  <2>1. /\ resv'[r] = [status |-> "CONVERTIDA", unit |-> prop[p].unit,
                       person |-> prop[p].person, opp |-> prop[p].opp, expiresAt |-> now + 1]
        /\ \A h \in Reservations \ {r} : resv'[h] = resv[h]
        /\ unit' = [unit EXCEPT ![prop[p].unit] = "RESERVADA"]
    BY <1>0, <1>4, <2>p DEF AcceptAvailable, TypeOK
  <2>2. resv'[r].unit = prop[p].unit
    BY <2>1
  <2>3. \A v \in Units : resv[r].unit # v
    BY <1>0, <1>4, NullAssumption
       DEF AcceptAvailable, TypeOK, ReservationRow, AbsentReservation
  <2>4. \A v \in Units : v # prop[p].unit => unit'[v] = unit[v]
    BY <1>0, <2>1 DEF TypeOK
  <2> QED
    BY <1>0, <2>1, <2>2, <2>3, <2>4, NamedFrame
<1>5. ASSUME NEW q, NEW op, NEW p, ReadCandidate(q, op, p) \/ RequestFails(q)
      PROVE  ReservedIsNamed'
  BY <1>0, <1>5 DEF ReadCandidate, RequestFails, ReservedIsNamed
<1> QED
  BY <1>2, <1>3, <1>4, <1>5 DEF RequestNext

LEMMA NextNamed ==
  ASSUME AllocInv, [Next]_vars
  PROVE  ReservedIsNamed'
<1>0. TypeOK /\ ReservedIsNamed
  BY DEF AllocInv, SaleInv
<1>1. CASE UNCHANGED <<unit, resv>>
  BY <1>0, <1>1 DEF ReservedIsNamed
<1>2. CASE ProposalNext \/ Crash \/ Tick \/ UNCHANGED vars
  <2>1. UNCHANGED <<unit, resv>>
    BY <1>2 DEF ProposalNext, CreateProposal, CreateVersion, Send, Reject,
                NormalizeExpired, TrailingFindOne, Crash, Tick, vars
  <2> QED
    BY <1>1, <2>1
<1>3. CASE UnitNext
  <2>1. resv' = resv
    BY <1>3 DEF UnitNext, CreateUnit, UpdateUnit, RemoveUnit
  <2>2. \A v \in Units : unit'[v] = "RESERVADA" => unit[v] = "RESERVADA"
    <3>1. ASSUME NEW u \in Units, NEW status \in ManualStatus,
                 CreateUnit(u, status) \/ UpdateUnit(u, status)
          PROVE  \A v \in Units : unit'[v] = "RESERVADA" => unit[v] = "RESERVADA"
      <4>1. unit' = [unit EXCEPT ![u] = status] /\ status # "RESERVADA"
        BY <3>1, ManualAssumption DEF CreateUnit, UpdateUnit
      <4> QED
        BY <1>0, <4>1 DEF TypeOK
    <3>2. ASSUME NEW u \in Units, RemoveUnit(u)
          PROVE  \A v \in Units : unit'[v] = "RESERVADA" => unit[v] = "RESERVADA"
      BY <1>0, <3>2 DEF RemoveUnit, TypeOK
    <3> QED
      BY <1>3, <3>1, <3>2 DEF UnitNext
  <2> QED
    BY <1>0, <2>1, <2>2, NamedFrame
<1>4. CASE OpportunityNext
  <2>1. ASSUME NEW o \in Opportunities, RemoveOpportunity(o) PROVE ReservedIsNamed'
    <3>1. \A r \in Reservations : resv'[r].unit = resv[r].unit
      BY <1>0, <2>1, UnlinkKeeps DEF RemoveOpportunity
    <3> QED
      BY <1>0, <2>1, <3>1, NamedFrame DEF RemoveOpportunity
  <2>2. ASSUME NEW o, NEW c, NEW d, NEW u,
               CreateOpportunity(o, c, d, u) \/ UpdateOpportunity(o, c, d, u)
        PROVE  UNCHANGED <<unit, resv>>
    BY <2>2 DEF CreateOpportunity, UpdateOpportunity
  <2>3. ASSUME NEW o, NEW stage, MoveOpportunity(o, stage) PROVE UNCHANGED <<unit, resv>>
    BY <2>3 DEF MoveOpportunity
  <2> QED
    BY <1>1, <1>4, <2>1, <2>2, <2>3 DEF OpportunityNext
<1>5. CASE SaleNext
  <2>1. resv' = resv
    BY <1>5 DEF SaleNext, SyncSaleStatus, CancelSale
  <2>2. \A v \in Units : unit'[v] = "RESERVADA" => unit[v] = "RESERVADA"
    BY <1>0, <1>5 DEF SaleNext, SyncSaleStatus, CancelSale, TypeOK
  <2> QED
    BY <1>0, <2>1, <2>2, NamedFrame
<1> QED
  BY <1>2, <1>3, <1>4, <1>5, ReservationsKeepNamed, RequestsKeepNamed DEF Next

LEMMA AllocInvariant == Spec => []AllocInv
<1>1. Init => AllocInv
  BY InitClaims, InitSales DEF AllocInv, Init, ReservedIsNamed
<1>2. AllocInv /\ [Next]_vars => AllocInv'
  BY NextClaims, NextSales, NextNamed DEF AllocInv
<1> QED
  BY <1>1, <1>2, PTL DEF Spec

\* No claim at first.
LEMMA InitRefines == Init => Allocation!AllocationInit
<1> SUFFICES ASSUME Init PROVE Allocation!AllocationInit
  OBVIOUS
<1>1. /\ \A r \in Reservations : resv[r].status = "ABSENT"
      /\ \A p \in Proposals : prop[p].status = "ABSENT"
      /\ \A s \in Sales : sale[s].status = "ABSENT"
      /\ \A u \in Units : unit[u] = "ABSENT"
  BY DEF Init, AbsentReservation, AbsentProposal, AbsentSale
<1>2. \A u \in Units : HoldersOf(u) = {} /\ BuyersOf(u) = {} /\ OwnersOf(u) = {}
  BY <1>1 DEF HoldersOf, BuyersOf, OwnersOf, Committed, LiveSale
<1>3. Hs = [u \in Units |-> {}] /\ Bs = [u \in Units |-> {}] /\ Os = [u \in Units |-> {}]
  BY <1>2 DEF Hs, Bs, Os
<1>4. Ls = {} /\ Fs = {}
  BY <1>1 DEF Ls, Fs
<1> QED
  BY <1>3, <1>4 DEF Allocation!AllocationInit, Hs, Bs, Os, Ls, Fs

\* The tables implement the allocation of units, for any number of units, rows
\* and concurrent requests: a unit passes from holder to buyer to owner one at
\* a time, whatever the handlers read before they lock it.
THEOREM RefinesAllocation == Spec => ImplementsUnitAllocation
<1>1. AllocInv /\ [Next]_vars => [Allocation!AllocationNext]_(Allocation!avars)
  BY NextRefines DEF AbstractStep
<1>2. Spec => [][Allocation!AllocationNext]_(Allocation!avars)
  BY <1>1, AllocInvariant, PTL DEF Spec
<1>3. Spec => Allocation!AllocationInit
  BY InitRefines, PTL DEF Spec
<1> QED
  BY <1>2, <1>3, PTL DEF ImplementsUnitAllocation, Allocation!AllocationSpec
=============================================================================
