--------------------------- MODULE UnitAllocation ---------------------------
(***************************************************************************)
(* What the commercial pipeline promises about a unit, without tables,     *)
(* statuses, requests or locks: who holds it, who has committed to buy it  *)
(* and who owns it.  CommercialFlow is shown to implement this.            *)
(***************************************************************************)
CONSTANTS Units, Reservations, Proposals, Sales

VARIABLES
  holder,   \* unit -> the reservation that holds it ({} or a singleton)
  buyer,    \* unit -> the accepted, still unsold proposal ({} or a singleton)
  owner,    \* unit -> the live sale ({} or a singleton)
  lapsed,   \* reservations that still hold a unit although past their expiry
  frozen    \* units reserved for nobody, for ever

avars == <<holder, buyer, owner, lapsed, frozen>>

AllocationInit ==
  /\ holder = [u \in Units |-> {}]
  /\ buyer = [u \in Units |-> {}]
  /\ owner = [u \in Units |-> {}]
  /\ lapsed = {}
  /\ frozen = {}

Uncommitted(u) == buyer[u] = {} /\ u \notin frozen

\* A new reservation; the one it replaces, if any, has lapsed.  A deadline that
\* passed while the request was on its way makes the new one lapsed at birth.
Hold(u, r) ==
  /\ Uncommitted(u)
  /\ holder[u] \subseteq lapsed
  /\ \A v \in Units : r \notin holder[v]
  /\ holder' = [holder EXCEPT ![u] = {r}]
  /\ lapsed' \in {lapsed \ holder[u], (lapsed \ holder[u]) \cup {r}}
  /\ UNCHANGED <<buyer, owner, frozen>>

\* The reservation is cancelled or expires.
Release(u) ==
  /\ holder[u] # {}
  /\ holder' = [holder EXCEPT ![u] = {}]
  /\ lapsed' = lapsed \ holder[u]
  /\ UNCHANGED <<buyer, owner, frozen>>

\* A proposal is accepted: on a free unit, or by the reservation behind it.
Commit(u, p) ==
  /\ Uncommitted(u)
  /\ holder[u] \cap lapsed = {}
  /\ \A v \in Units : p \notin buyer[v]
  /\ holder' = [holder EXCEPT ![u] = {}]
  /\ buyer' = [buyer EXCEPT ![u] = {p}]
  /\ UNCHANGED <<owner, lapsed, frozen>>

\* A reservation is converted with no proposal accepted: nothing thaws the unit.
Freeze(u) ==
  /\ holder[u] # {}
  /\ holder[u] \cap lapsed = {}
  /\ holder' = [holder EXCEPT ![u] = {}]
  /\ frozen' = frozen \cup {u}
  /\ UNCHANGED <<buyer, owner, lapsed>>

Sell(u, s) ==
  /\ buyer[u] # {}
  /\ owner[u] = {}
  /\ buyer' = [buyer EXCEPT ![u] = {}]
  /\ owner' = [owner EXCEPT ![u] = {s}]
  /\ UNCHANGED <<holder, lapsed, frozen>>

Rescind(u) ==
  /\ owner[u] # {}
  /\ owner' = [owner EXCEPT ![u] = {}]
  /\ UNCHANGED <<holder, buyer, lapsed, frozen>>

Lapse ==
  /\ UNCHANGED <<holder, buyer, owner, frozen>>
  /\ lapsed \subseteq lapsed'
  /\ lapsed' \subseteq UNION {holder[u] : u \in Units}

AllocationNext ==
  \/ Lapse
  \/ \E u \in Units, r \in Reservations : Hold(u, r)
  \/ \E u \in Units, p \in Proposals : Commit(u, p)
  \/ \E u \in Units, s \in Sales : Sell(u, s)
  \/ \E u \in Units : Release(u) \/ Freeze(u) \/ Rescind(u)

AllocationSpec == AllocationInit /\ [][AllocationNext]_avars
=============================================================================
