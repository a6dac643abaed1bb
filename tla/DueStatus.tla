------------------------------ MODULE DueStatus ------------------------------
(* ATRASADO is not stored: a row shows it, and a query selects it, each by  *)
(* a rule of its own.  Here are those rules for receivables and payables    *)
(* (receivable-status.ts and payable-status.ts, and the buildWhere of their *)
(* services, which say the same) and for returns (return-status.ts and      *)
(* reports.service.ts).                                                     *)
EXTENDS Integers

CONSTANTS
  MaxDay,   \* bound: the days of due dates, of today and of ranges
  Null      \* what a query does not ask for

ASSUME DayAssumption == MaxDay \in Nat /\ Null \notin Int

Owing == {"PENDENTE", "PARCIAL"}
Stored == Owing \cup {"PAGO", "CANCELADO"}
Filters == Stored \cup {"ATRASADO"}

\* Two instants a day: midnight, which a due date is, and later.
Midnight(day) == 2 * day
StartOfUtcDay(now) == now - (now % 2)

Days == 0..MaxDay
DueDates == {Midnight(d) : d \in Days}
Instants == 0..(Midnight(MaxDay) + 1)

\* getComputedReceivableStatus, getComputedPayableStatus
ComputedStatus(status, due, now) ==
  IF status \in Owing /\ due < StartOfUtcDay(now) THEN "ATRASADO" ELSE status

\* dateRange: both days are included.
DateRange(start, end) ==
  [gte |-> IF start = Null THEN Null ELSE Midnight(start),
   lt  |-> IF end = Null THEN Null ELSE Midnight(end + 1)]

\* An empty range is refused.
DateRanges ==
  {range \in {DateRange(s, e) : s, e \in Days \cup {Null}} :
     range.gte # Null /\ range.lt # Null => range.gte < range.lt}

\* What the status asked for says of the stored status and of the due date.
StatusesFor(filter) == IF filter = "ATRASADO" THEN Owing ELSE {filter}

DueFor(filter, now) ==
  [gte |-> IF filter \in Owing THEN StartOfUtcDay(now) ELSE Null,
   lt  |-> IF filter = "ATRASADO" THEN StartOfUtcDay(now) ELSE Null]

\* The range is spread over the bounds of the status: where both have one, that
\* of the range is left.
Spread(bounds, range) ==
  [b \in {"gte", "lt"} |-> IF range[b] # Null THEN range[b] ELSE bounds[b]]

Within(due, bounds) ==
  /\ bounds.gte # Null => due >= bounds.gte
  /\ bounds.lt # Null => due < bounds.lt

\* buildWhere
Listed(status, due, filter, range, now) ==
  /\ status \in StatusesFor(filter)
  /\ Within(due, Spread(DueFor(filter, now), range))

ReturnStatuses == {"PENDENTE", "PAGO"}

\* getComputedReturnStatus
ComputedReturnStatus(status, due, now) ==
  IF status = "PENDENTE" /\ due < now THEN "ATRASADO" ELSE status

\* toCalculatedStatusWhere
CalculatedStatusWhere(status, due, filter, now) ==
  CASE filter = "PAGO" -> status = "PAGO"
    [] filter = "PENDENTE" -> status = "PENDENTE" /\ due >= now
    [] filter = "ATRASADO" ->
         status = "ATRASADO" \/ (status = "PENDENTE" /\ due < now)

\* overdueReturns, when no other day is asked for.
InOverdueReport(status, due, now) ==
  status = "PENDENTE" /\ due < StartOfUtcDay(now)
-----------------------------------------------------------------------------
\* A range that replaces no bound of the status by a wider one.
Narrows(range, filter, now) ==
  LET bounds == DueFor(filter, now) IN
  /\ range.gte # Null /\ bounds.gte # Null => range.gte >= bounds.gte
  /\ range.lt # Null /\ bounds.lt # Null => range.lt <= bounds.lt

\* ListsAgree: for such ranges, and for none at all, a list by status has just
\* the rows that show that status and are due in the range; the report of
\* returns has just the returns that show what it was asked for; and the one of
\* overdue returns has all that the Returns module calls ATRASADO but those due
\* today (buildWhere, toCalculatedStatusWhere, overdueReturns).
ListsAgree ==
  /\ \A status \in Stored, filter \in Filters, due \in DueDates, now \in Instants,
        range \in DateRanges :
       Narrows(range, filter, now) =>
         (Listed(status, due, filter, range, now) <=>
            ComputedStatus(status, due, now) = filter /\ Within(due, range))
  /\ \A status \in ReturnStatuses, due \in DueDates, now \in Instants :
       LET shown == ComputedReturnStatus(status, due, now) IN
       /\ \A filter \in ReturnStatuses \cup {"ATRASADO"} :
            CalculatedStatusWhere(status, due, filter, now) <=> shown = filter
       /\ InOverdueReport(status, due, now) <=>
            shown = "ATRASADO" /\ due # StartOfUtcDay(now)
=============================================================================
