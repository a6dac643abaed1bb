------------------------------ MODULE Payables ------------------------------
(***************************************************************************)
(* Accounts payable and what they stand for: an account entered by hand, a *)
(* commission of a sale that fell due, or a return owed to an investor.    *)
(* Paying or reversing an account updates the commission or the return it  *)
(* came from in the same transaction; the "distrato" of a sale cancels its *)
(* commissions and their accounts.                                         *)
(*                                                                         *)
(* An action is one transaction that locks what it read before it writes.  *)
(* Three handlers do not, and are two actions each, with what they read    *)
(* kept in `tx': update (reads the account before its transaction),        *)
(* markCommissionDue (reads the commission without a lock) and the         *)
(* distrato (SERIALIZABLE: its commit is refused when a row it writes has  *)
(* changed since its snapshot).                                            *)
(***************************************************************************)
EXTENDS DueStatus, Money, Integers, FiniteSets, FiniteSetsExt

CONSTANTS
  Sales,
  Manual,       \* accounts entered by hand
  Commissions,  \* a commission and its account share an identity: the
  Returns,      \* foreign key is unique; so do a return and its account
  Payments,     \* FinancialPayment rows, each with its FinancialTransaction
  Amounts,      \* of accounts entered by hand, commissions and payments, in cents
  ReturnAmounts,  \* in parts of a cent: no DTO bounds the decimals of a return
  Requests      \* requests that can be in flight at once

Payables == Manual \cup Commissions \cup Returns

ASSUME AmountAssumption ==
  Amounts \subseteq Nat \ {0} /\ ReturnAmounts \subseteq Nat \ {0}
ASSUME DisjointAssumption ==
  /\ Manual \cap Commissions = {}
  /\ Manual \cap Returns = {}
  /\ Commissions \cap Returns = {}
ASSUME NullAssumption == Null \notin Amounts \cup Sales \cup Payables
ASSUME FiniteAssumption == IsFiniteSet(Payables) /\ IsFiniteSet(Payments)

VARIABLES
  sale,   \* Sale.status
  comm,   \* SaleCommission rows
  ret,    \* Return rows
  pay,    \* Payable rows
  pmt,    \* payment and transaction rows
  tx      \* what the handlers in flight have read

vars == <<sale, comm, ret, pay, pmt, tx>>

AbsentCommission == [status |-> "ABSENT", sale |-> Null, amount |-> 0]

CommissionRow ==
  [status : {"PREVISTA", "DEVIDA", "PAGA", "CANCELADA"},
   sale   : Sales,
   amount : Amounts]

AbsentReturn == [status |-> "ABSENT", expected |-> 0, realized |-> Null]

\* Amounts of type Float, in parts of a cent.
ReturnRow ==
  [status   : {"PENDENTE", "PAGO"},
   expected : ReturnAmounts,
   realized : Nat \cup {Null}]

AbsentPayable ==
  [status |-> "ABSENT", original |-> 0, paid |-> 0, paidAt |-> FALSE,
   cancelledAt |-> FALSE]

PayableRow ==
  [status      : {"PENDENTE", "PARCIAL", "PAGO", "CANCELADO"},
   original    : Nat \ {0},
   paid        : Nat,
   paidAt      : BOOLEAN,        \* IS NOT NULL
   cancelledAt : BOOLEAN]

AbsentPayment == [status |-> "ABSENT", pay |-> Null, amount |-> 0]

PaymentRow ==
  [status : {"LIVE", "REVERSED"}, pay : Payables, amount : Amounts]

CommissionTable == [Commissions -> CommissionRow \cup {AbsentCommission}]

PayableTable == [Payables -> PayableRow \cup {AbsentPayable}]

AccountsOfCommissions == [Commissions -> PayableRow \cup {AbsentPayable}]

Idle == [op |-> "idle"]

UpdateState ==
  [op     : {"update"},
   pay    : Manual,
   amount : Amounts \cup {Null},
   seen   : [original : Nat \ {0}, paid : Nat]]

DueState == [op : {"due"}, comm : Commissions]

DistratoState ==
  [op   : {"distrato"},
   sale : Sales,
   comm : CommissionTable,
   pay  : AccountsOfCommissions]

TypeOK ==
  /\ sale \in [Sales -> {"ATIVA", "DISTRATADA"}]
  /\ comm \in CommissionTable
  /\ ret \in [Returns -> ReturnRow \cup {AbsentReturn}]
  /\ pay \in PayableTable
  /\ pmt \in [Payments -> PaymentRow \cup {AbsentPayment}]
  /\ tx \in [Requests -> {Idle} \cup UpdateState \cup DueState \cup DistratoState]

\* The sales were made; nothing is owed yet.
Init ==
  /\ sale = [s \in Sales |-> "ATIVA"]
  /\ comm = [c \in Commissions |-> AbsentCommission]
  /\ ret = [r \in Returns |-> AbsentReturn]
  /\ pay = [p \in Payables |-> AbsentPayable]
  /\ pmt = [x \in Payments |-> AbsentPayment]
  /\ tx = [q \in Requests |-> Idle]

NewPayable(amount) ==
  [status |-> "PENDENTE", original |-> amount, paid |-> 0, paidAt |-> FALSE,
   cancelledAt |-> FALSE]

\* The CHECK constraints Payable_amounts and Payable_state.
RowCheck(row) ==
  /\ 0 < row.original
  /\ 0 <= row.paid /\ row.paid <= row.original
  /\ \/ row.status = "PENDENTE" /\ row.paid = 0 /\ ~row.paidAt /\ ~row.cancelledAt
     \/ /\ row.status = "PARCIAL" /\ 0 < row.paid /\ row.paid < row.original
        /\ ~row.paidAt /\ ~row.cancelledAt
     \/ /\ row.status = "PAGO" /\ row.paid = row.original
        /\ row.paidAt /\ ~row.cancelledAt
     \/ row.status = "CANCELADO" /\ row.paid = 0 /\ ~row.paidAt /\ row.cancelledAt

-----------------------------------------------------------------------------
(* src/src/finance/payables.service.ts                                     *)

CreatePayable(p, amount) ==
  /\ pay[p].status = "ABSENT"
  /\ pay' = [pay EXCEPT ![p] = NewPayable(amount)]
  /\ UNCHANGED <<sale, comm, ret, pmt, tx>>

\* update: `existing' is read, and the new amount compared with it, before the
\* transaction.
Editable(row, amount) ==
  LET original == IF amount = Null THEN row.original ELSE amount IN
    /\ original >= row.paid
    /\ row.paid > 0 /\ amount # Null /\ original <= row.paid
         => original = row.original

ReadUpdate(q, p, amount) ==
  /\ tx[q] = Idle
  /\ pay[p].status # "ABSENT"
  /\ Editable(pay[p], amount)
  /\ tx' = [tx EXCEPT ![q] = [op |-> "update", pay |-> p, amount |-> amount,
                              seen |-> [original |-> pay[p].original,
                                        paid |-> pay[p].paid]]]
  /\ UNCHANGED <<sale, comm, ret, pay, pmt>>

EditedRow(row, seen, amount) ==
  LET original == IF amount = Null THEN seen.original ELSE amount IN
    [row EXCEPT
       !.original = IF amount = Null THEN @ ELSE amount,
       !.status = IF original = seen.paid THEN "PAGO"
                  ELSE IF seen.paid > 0 THEN "PARCIAL" ELSE "PENDENTE"]

\* Mutant: the table has no CHECK constraints.
BugCommitUpdate(q) ==
  /\ tx[q].op = "update"
  /\ LET p == tx[q].pay IN
       pay' = [pay EXCEPT ![p] = EditedRow(@, tx[q].seen, tx[q].amount)]
  /\ tx' = [tx EXCEPT ![q] = Idle]
  /\ UNCHANGED <<sale, comm, ret, pmt>>

\* The status comes from what was read: the CHECK constraint refuses it when a
\* payment, a reversal or a cancellation came in between.
CommitUpdate(q) ==
  /\ tx[q].op = "update"
  /\ LET p == tx[q].pay
         row == EditedRow(pay[p], tx[q].seen, tx[q].amount)
     IN RowCheck(row) /\ pay' = [pay EXCEPT ![p] = row]
  /\ tx' = [tx EXCEPT ![q] = Idle]
  /\ UNCHANGED <<sale, comm, ret, pmt>>

\* syncSource, the commission or the return the account came from
SyncCommission(p, status) ==
  IF p \in Commissions
  THEN [comm EXCEPT ![p].status = IF status = "PAGO" THEN "PAGA" ELSE "DEVIDA"]
  ELSE comm

SyncReturn(p, status, paid) ==
  IF p \in Returns
  THEN [ret EXCEPT
          ![p].status = IF status = "PAGO" THEN "PAGO" ELSE "PENDENTE",
          ![p].realized = IF status = "PAGO" THEN ToFloat(paid) ELSE Null]
  ELSE ret

Payable(p) == pay[p].status \in {"PENDENTE", "PARCIAL"}

RecordPayment(p, x, amount) ==
  LET paid == pay[p].paid + amount
      status == IF paid = pay[p].original THEN "PAGO" ELSE "PARCIAL"
  IN /\ Payable(p)
     /\ paid <= pay[p].original
     /\ pmt[x].status = "ABSENT"
     /\ pmt' = [pmt EXCEPT ![x] = [status |-> "LIVE", pay |-> p, amount |-> amount]]
     /\ pay' = [pay EXCEPT ![p].paid = paid, ![p].status = status,
                           ![p].paidAt = (status = "PAGO")]
     /\ comm' = SyncCommission(p, status)
     /\ ret' = SyncReturn(p, status, paid)
     /\ UNCHANGED <<sale, tx>>

Reversible(x) == pmt[x].status = "LIVE"

ReversePayment(x) ==
  LET p == pmt[x].pay
      paid == pay[p].paid - pmt[x].amount
      status == IF paid = 0 THEN "PENDENTE" ELSE "PARCIAL"
  IN /\ Reversible(x)
     /\ paid >= 0
     /\ pmt' = [pmt EXCEPT ![x].status = "REVERSED"]
     /\ pay' = [pay EXCEPT ![p].paid = paid, ![p].status = status,
                           ![p].paidAt = FALSE]
     /\ comm' = SyncCommission(p, status)
     /\ ret' = SyncReturn(p, status, paid)
     /\ UNCHANGED <<sale, tx>>

\* cancel, of an account entered by hand; cancelled twice, nothing changes.
CancelPayable(p) ==
  /\ pay[p].status \notin {"ABSENT", "CANCELADO"}
  /\ pay[p].paid = 0
  /\ pay' = [pay EXCEPT ![p].status = "CANCELADO", ![p].cancelledAt = TRUE]
  /\ UNCHANGED <<sale, comm, ret, pmt, tx>>

\* markCommissionDue: the status is read without a lock ...
ReadDue(q, c) ==
  /\ tx[q] = Idle
  /\ comm[c].status \in {"PREVISTA", "DEVIDA"}
  /\ tx' = [tx EXCEPT ![q] = [op |-> "due", comm |-> c]]
  /\ UNCHANGED <<sale, comm, ret, pay, pmt>>

\* ... and overwritten; an account that exists already is left as it is.
CommitDue(q) ==
  /\ tx[q].op = "due"
  /\ LET c == tx[q].comm IN
       /\ comm' = [comm EXCEPT ![c].status = "DEVIDA"]
       /\ pay' = IF pay[c].status = "ABSENT"
                 THEN [pay EXCEPT ![c] = NewPayable(comm[c].amount)] ELSE pay
  /\ tx' = [tx EXCEPT ![q] = Idle]
  /\ UNCHANGED <<sale, ret, pmt>>

\* A transaction in flight fails and is rolled back.
Rollback(q) ==
  /\ tx[q] # Idle
  /\ tx' = [tx EXCEPT ![q] = Idle]
  /\ UNCHANGED <<sale, comm, ret, pay, pmt>>

-----------------------------------------------------------------------------
(* src/src/sales: sales.service.ts, sale-cancellations.service.ts          *)

\* addCommission, with the sale locked
AddCommission(c, s, amount) ==
  /\ comm[c].status = "ABSENT"
  /\ sale[s] # "DISTRATADA"
  /\ comm' = [comm EXCEPT ![c] = [status |-> "PREVISTA", sale |-> s,
                                  amount |-> amount]]
  /\ UNCHANGED <<sale, ret, pay, pmt, tx>>

\* Mutant: the distrato cancels only what no account was opened for.
BugCommissionsIn(table, s) ==
  {c \in Commissions : table[c].sale = s /\ table[c].status = "PREVISTA"}

CommissionsIn(table, s) == {c \in Commissions : table[c].sale = s}

\* cancel (its receivables are in module Receivables)
ReadDistrato(q, s) ==
  /\ tx[q] = Idle
  /\ sale[s] # "DISTRATADA"
  /\ \A c \in CommissionsIn(comm, s) : comm[c].status # "PAGA" /\ pay[c].paid = 0
  /\ tx' = [tx EXCEPT ![q] = [op |-> "distrato", sale |-> s, comm |-> comm,
                              pay |-> [c \in Commissions |-> pay[c]]]]
  /\ UNCHANGED <<sale, comm, ret, pay, pmt>>

\* Mutant: the distrato runs at READ COMMITTED.
BugUnwritten(q) == sale[tx[q].sale] # "DISTRATADA"

\* No row the distrato writes has changed since its snapshot.
Unwritten(q) ==
  /\ sale[tx[q].sale] # "DISTRATADA"
  /\ \A c \in CommissionsIn(tx[q].comm, tx[q].sale) :
       comm[c] = tx[q].comm[c] /\ pay[c] = tx[q].pay[c]

\* Only the commissions of the snapshot are cancelled.
CommitDistrato(q) ==
  /\ tx[q].op = "distrato"
  /\ Unwritten(q)
  /\ LET C == CommissionsIn(tx[q].comm, tx[q].sale) IN
       /\ comm' = [c \in Commissions |->
                     IF c \in C THEN [comm[c] EXCEPT !.status = "CANCELADA"]
                     ELSE comm[c]]
       /\ pay' = [p \in Payables |->
                    IF p \in C /\ tx[q].pay[p].status \notin {"ABSENT", "PAGO"}
                    THEN [pay[p] EXCEPT !.status = "CANCELADO",
                                        !.cancelledAt = TRUE]
                    ELSE pay[p]]
  /\ sale' = [sale EXCEPT ![tx[q].sale] = "DISTRATADA"]
  /\ tx' = [tx EXCEPT ![q] = Idle]
  /\ UNCHANGED <<ret, pmt>>

-----------------------------------------------------------------------------
(* src/src/returns/returns.service.ts                                      *)

\* create and createForInvestorReturn: the account keeps whole cents, and the
\* CHECK constraint refuses one of none.
CreateReturn(r, amount) ==
  LET row == NewPayable(ToDecimal(amount)) IN
  /\ ret[r].status = "ABSENT"
  /\ RowCheck(row)
  /\ ret' = [ret EXCEPT ![r] = [status |-> "PENDENTE", expected |-> amount,
                                realized |-> Null]]
  /\ pay' = [pay EXCEPT ![r] = row]
  /\ UNCHANGED <<sale, comm, pmt, tx>>

\* Mutant: the account keeps the amount that it was opened with.
BugUpdateReturn(r, amount) ==
  /\ ret[r].status # "ABSENT"
  /\ pay[r].paid = 0
  /\ ret' = [ret EXCEPT ![r].expected = amount]
  /\ UNCHANGED <<sale, comm, pay, pmt, tx>>

\* update and syncInvestorReturnTerms: refused once anything was paid.
UpdateReturn(r, amount) ==
  LET row == [pay[r] EXCEPT !.original = ToDecimal(amount)] IN
  /\ ret[r].status # "ABSENT"
  /\ pay[r].paid = 0
  /\ RowCheck(row)
  /\ ret' = [ret EXCEPT ![r].expected = amount]
  /\ pay' = [pay EXCEPT ![r] = row]
  /\ UNCHANGED <<sale, comm, pmt, tx>>

\* remove: the foreign key of FinancialPayment keeps an account that was ever
\* paid, reversed or not.
RemoveReturn(r) ==
  /\ ret[r].status # "ABSENT"
  /\ \A x \in Payments : pmt[x].pay # r
  /\ ret' = [ret EXCEPT ![r] = AbsentReturn]
  /\ pay' = [pay EXCEPT ![r] = AbsentPayable]
  /\ UNCHANGED <<sale, comm, pmt, tx>>

-----------------------------------------------------------------------------
PayableNext ==
  \/ \E p \in Manual, amount \in Amounts : CreatePayable(p, amount)
  \/ \E p \in Manual : CancelPayable(p)
  \/ \E p \in Payables, x \in Payments, amount \in Amounts :
       RecordPayment(p, x, amount)
  \/ \E x \in Payments : ReversePayment(x)

RequestNext ==
  \E q \in Requests :
    \/ \E p \in Manual, amount \in Amounts \cup {Null} : ReadUpdate(q, p, amount)
    \/ CommitUpdate(q)
    \/ \E c \in Commissions : ReadDue(q, c)
    \/ CommitDue(q)
    \/ \E s \in Sales : ReadDistrato(q, s)
    \/ CommitDistrato(q)
    \/ Rollback(q)

SourceNext ==
  \/ \E c \in Commissions, s \in Sales, amount \in Amounts :
       AddCommission(c, s, amount)
  \/ \E r \in Returns : \/ \E amount \in ReturnAmounts : \/ CreateReturn(r, amount)
                                                         \/ UpdateReturn(r, amount)
                        \/ RemoveReturn(r)

Next == PayableNext \/ RequestNext \/ SourceNext

Spec == Init /\ [][Next]_vars

-----------------------------------------------------------------------------
(* What src/src/finance/finance.service.ts reports of the payables.         *)

Sum(f(_), S) == MapThenSumSet(f, S)

\* Transactions that were not reversed.
NotReversed == {x \in Payments : pmt[x].status = "LIVE"}

NotCancelled == {p \in Payables : pay[p].status \notin {"ABSENT", "CANCELADO"}}

BalanceOf(S) == Sum(LAMBDA p : pay[p].original - pay[p].paid, S)

\* summary
CashPaid == Sum(LAMBDA x : pmt[x].amount, NotReversed)
PayablesPending == BalanceOf(NotCancelled)

\* cashFlow, CONSOLIDADO, of a range that every due date falls in: what was
\* paid before the range opens the balance, what is paid or due in it follows.
ClosingOutflow ==
  CashPaid + BalanceOf({p \in Payables : pay[p].status \in {"PENDENTE", "PARCIAL"}})

\* incomeStatement, COMPETENCIA, of such a range.
Expenses == Sum(LAMBDA p : pay[p].original, NotCancelled)

(* What reports.service.ts and dashboard.service.ts report of the returns,  *)
(* whatever their due dates `due'.                                          *)

ReturnRows == {r \in Returns : ret[r].status # "ABSENT"}

ReturnsThatShow(status, due, now) ==
  {r \in ReturnRows : ComputedReturnStatus(ret[r].status, due[r], now) = status}

\* sumMoney, which rounds each amount
ExpectedCents(S) == Sum(LAMBDA r : MoneyToCents(ret[r].expected), S)

\* returnSummary
ReturnSummary(due, now) ==
  [expected |-> ExpectedCents(ReturnRows),
   realized |-> Sum(LAMBDA r : MoneyToCents(ret[r].realized),
                    ReturnsThatShow("PAGO", due, now)),
   pending  |-> ExpectedCents(ReturnsThatShow("PENDENTE", due, now)),
   overdue  |-> ExpectedCents(ReturnsThatShow("ATRASADO", due, now))]

Expected(S) == Sum(LAMBDA r : ret[r].expected, S)

\* getOverview: what the database sums for the dashboard, unrounded.
ReturnsWhere(status) == {r \in ReturnRows : ret[r].status = status}

DashboardReturns(due, now) ==
  [realized |-> Sum(LAMBDA r : ret[r].realized, ReturnsWhere("PAGO")),
   pending  |-> Expected({r \in ReturnsWhere("PENDENTE") : due[r] >= now}),
   overdue  |-> Expected({r \in ReturnsWhere("PENDENTE") : due[r] < now})]

-----------------------------------------------------------------------------
LivePayments(p) == {x \in Payments : pmt[x].status = "LIVE" /\ pmt[x].pay = p}

\* What an account says was paid is the sum of its payments that were not
\* reversed, although a stale edit may commit after them.
PaidIsSumOfPayments ==
  \A p \in Payables :
    pay[p].paid = MapThenSumSet(LAMBDA x : pmt[x].amount, LivePayments(p))

\* No handler but the edit of an account, and the return of less than half a
\* cent, needs the CHECK constraints of the table: what the others commit
\* satisfies them.
StatusMatchesAmounts ==
  \A p \in Payables : pay[p].status # "ABSENT" => RowCheck(pay[p])

\* A return and its account agree: the account is of the amount of the return,
\* rounded to the cent, and the return is PAGO, for what was paid, exactly when
\* the account is.
ReturnFollowsPayable ==
  \A r \in Returns :
    /\ ret[r].status = "ABSENT" <=> pay[r].status = "ABSENT"
    /\ ret[r].status # "ABSENT" =>
         /\ pay[r].original = ToDecimal(ret[r].expected)
         /\ ret[r].status = "PAGO" <=> pay[r].status = "PAGO"
         /\ ret[r].realized =
              IF pay[r].status = "PAGO" THEN ToFloat(pay[r].paid) ELSE Null

\* The distrato never cancels a commission some money was paid for, not even a
\* payment that commits after it has looked: a cancelled commission has no
\* account, or a cancelled one.
CancelledCommissionUnpaid ==
  \A c \in Commissions :
    comm[c].status = "CANCELADA" =>
      pay[c].status \in {"ABSENT", "CANCELADO"} /\ LivePayments(c) = {}

\* Cash paid and balances owed, the consolidated cash flow and the expenses by
\* competence count every cent of an account once: the three reports agree.
ReportsAgree ==
  /\ CashPaid + PayablesPending = Expenses
  /\ ClosingOutflow = Expenses

\* Paid in full, and yet for a cent more than the report expected: half a cent
\* that the account rounds up and the report does not.
PaidUp(r) ==
  /\ ret[r].status = "PAGO"
  /\ ToDecimal(ret[r].expected) # MoneyToCents(ret[r].expected)

\* The report counts every return once, as realized, pending or overdue, and
\* what it expected is what it shows of them but for the cents of PaidUp; the
\* dashboard, which rounds nothing, shows the same to half a cent a return, and
\* to the cent of what was realized.
ReturnsAddUp ==
  \A due \in [Returns -> DueDates], now \in Instants :
    LET report == ReturnSummary(due, now)
        dashboard == DashboardReturns(due, now)
        Count(status) == Cardinality(ReturnsThatShow(status, due, now))
    IN /\ report.realized + report.pending + report.overdue
            = report.expected + Cardinality({r \in ReturnRows : PaidUp(r)})
       /\ RoundedFrom(report.realized, dashboard.realized, 0)
       /\ RoundedFrom(report.pending, dashboard.pending, Count("PENDENTE"))
       /\ RoundedFrom(report.overdue, dashboard.overdue, Count("ATRASADO"))

\* LedgerConsistent: what an account says was paid, its status and the reports
\* agree with its payments, although an edit may commit over what it read
\* before them (recordPayment, reversePayment, update, finance.service.ts).
LedgerConsistent ==
  /\ TypeOK
  /\ PaidIsSumOfPayments
  /\ StatusMatchesAmounts
  /\ ReportsAgree

\* SourcesFollowPayables: an account is of its return's amount, rounded to the
\* cent, and the return says what the account says, so that its reports add up
\* but for that rounding; and a distrato never cancels a commission that is paid
\* for meanwhile (syncSource, createForInvestorReturn, syncInvestorReturnTerms,
\* sale-cancellations.service.ts, returnSummary, getOverview).
SourcesFollowPayables ==
  /\ ReturnFollowsPayable
  /\ ReturnsAddUp
  /\ CancelledCommissionUnpaid

\* A commission that a rescinded sale still owes.
OwedAfterDistrato(c) ==
  /\ comm[c].status \notin {"ABSENT", "CANCELADA"}
  /\ sale[comm[c].sale] = "DISTRATADA"

\* The distrato commits in this step without having seen the commission, which
\* was added since its snapshot; or the commission is marked due over an older
\* reading.
MissedOrRevived(c) ==
  \E q \in Requests :
    /\ tx'[q] = Idle
    /\ \/ tx[q].op = "distrato" /\ tx[q].comm[c].status = "ABSENT"
       \/ tx[q].op = "due" /\ tx[q].comm = c

\* ClosedIsFinal: a cancelled account never changes again and a reversed payment
\* stays reversed, whatever was read before; and a rescinded sale comes to owe a
\* commission only through one of two races, of addCommission, which does not
\* write the sale it locks, and of markCommissionDue: no sequence of requests
\* does it.
ClosedIsFinal ==
  [][ /\ \A p \in Payables : pay[p].status = "CANCELADO" => pay'[p] = pay[p]
      /\ \A x \in Payments : pmt[x].status = "REVERSED" => pmt'[x] = pmt[x]
      /\ \A c \in Commissions :
           OwedAfterDistrato(c)' => OwedAfterDistrato(c) \/ MissedOrRevived(c) ]_vars

-----------------------------------------------------------------------------
(* A statement of the service that its stale read does not keep.           *)

\* "A comissao nao pode ser marcada como devida" (markCommissionDue): a
\* commission cancelled by the distrato of its sale never falls due.
CancelledCommissionNeverDue ==
  [][ \A c \in Commissions :
        comm[c].status = "CANCELADA" => comm'[c].status # "DEVIDA" ]_vars
=============================================================================
