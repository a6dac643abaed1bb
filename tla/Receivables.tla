----------------------------- MODULE Receivables -----------------------------
(***************************************************************************)
(* The receivables of one sale: receipts and their reversal, cancellation, *)
(* monetary correction, bank reconciliation, and the status of the sale    *)
(* that follows from them, against a concurrent "distrato".                *)
(*                                                                         *)
(* The handlers of ReceivablesService run at READ COMMITTED and rely on    *)
(* row locks (SELECT ... FOR UPDATE): first the receivable, then the sale. *)
(* `tx' keeps what such a transaction has locked and written but not yet   *)
(* committed.  The distrato and the monetary correction run at             *)
(* SERIALIZABLE without explicit locks: `tx' keeps the snapshot they read, *)
(* and PostgreSQL refuses their commit when a row they write has changed   *)
(* since.  A row written back to the value it had counts as unchanged: the *)
(* outcome is that of running the transaction afterwards.                  *)
(***************************************************************************)
EXTENDS DueStatus, Integers, Sequences, FiniteSets, FiniteSetsExt, SequencesExt

CONSTANTS
  Price,        \* cents of the final price of the version that was sold
  Instalments,  \* number of receivables of its payment plan
  Payments,     \* FinancialPayment rows, each with its FinancialTransaction
  Entries,      \* lines of the bank statement, identified by fingerprint
  Amounts,      \* amounts of a receipt or a statement line
  Competences,  \* months of the monetary index
  Rates,        \* the values each may be given, in percent
  Periods,      \* <<first, last>> competences a correction is asked for
  Requests,     \* requests that can be in flight at once
  MaxSplit,     \* bound: cents of a price that is split
  MaxMonth      \* bound: months of the dates that begin a schedule

Receivables == 1..Instalments

ASSUME PriceAssumption == Price \in Nat /\ Instalments \in 1..Price
ASSUME AmountAssumption == Amounts \subseteq Nat \ {0}
ASSUME IndexAssumption ==
  /\ Periods \subseteq Competences \X Competences
  /\ \A c \in Competences : Rates[c] \subseteq {rate \in Int : rate > -100}
\* A database has finitely many rows.
ASSUME FiniteAssumption == IsFiniteSet(Payments) /\ IsFiniteSet(Competences)

VARIABLES
  sale,    \* Sale.status
  recv,    \* Receivable rows
  pmt,     \* payment and transaction rows
  entry,   \* BankStatementEntry rows
  tx       \* transactions in flight

vars == <<sale, recv, pmt, entry, tx>>

SaleStatuses == {"ATIVA", "QUITADA", "DISTRATADA"}

ASSUME NullAssumption == Null \notin Payments /\ Null \notin SaleStatuses

ReceivableRow ==
  [status   : {"PENDENTE", "PARCIAL", "PAGO", "CANCELADO"},
   original : 1..Price,
   adjusted : Int,
   paid     : Int,
   applied  : [Periods -> Int \cup {Null}]]  \* differences of the adjustments

AbsentPayment == [status |-> "ABSENT", recv |-> Null, amount |-> 0]

PaymentRow ==
  [status : {"LIVE", "REVERSED"},  \* reversedAt of payment and transaction
   recv   : Receivables,
   amount : Amounts]

AbsentEntry == [status |-> "ABSENT", amount |-> 0, pmt |-> Null]

EntryRow ==
  [status : {"PENDENTE", "CONCILIADO", "IGNORADO"},
   amount : Amounts,
   pmt    : Payments \cup {Null}]  \* matchedTransactionId

Idle == [op |-> "idle"]

\* A handler of ReceivablesService holding the lock of `recv': the row it
\* wrote, the payment it wrote (if any), the statement lines it unmatched,
\* and, once it also holds the lock of the sale, the status the sale gets.
WriteState ==
  [op      : {"write"},
   recv    : Receivables,
   row     : ReceivableRow,
   pmt     : Payments \cup {Null},
   pay     : PaymentRow \cup {AbsentPayment},
   unmatch : SUBSET Entries,
   next    : SaleStatuses \cup {Null}]

DistratoState ==
  [op : {"distrato"}, sale : SaleStatuses, seen : [Receivables -> ReceivableRow]]

ApplyState ==
  [op : {"apply"}, recv : Receivables, period : Periods, adjusted : Int,
   seen : ReceivableRow]

TypeOK ==
  /\ sale \in SaleStatuses
  /\ recv \in [Receivables -> ReceivableRow]
  /\ pmt \in [Payments -> PaymentRow \cup {AbsentPayment}]
  /\ entry \in [Entries -> EntryRow \cup {AbsentEntry}]
  /\ tx \in [Requests -> {Idle} \cup WriteState \cup DistratoState \cup ApplyState]

-----------------------------------------------------------------------------
(* The payment plan that is sold, and its receivables.                     *)

Sum(f(_), S) == MapThenSumSet(f, S)

\* Only PARCELAS have more than one instalment, and none may be empty.
Conditions ==
  {c \in [amount : 1..Price, count : 1..Instalments] : c.count <= c.amount}

\* assertPaymentPlan, as validatePricing when the version was written.
AddsUp(plan) == Sum(LAMBDA i : plan[i].amount, DOMAIN plan) = Price

\* splitAmount: the cents that do not divide go to the last instalment.
SplitAmount(cents, count) ==
  LET base == cents \div count IN
  [k \in 1..count |-> IF k = count THEN cents - base * (count - 1) ELSE base]

\* generateForSale: each condition's instalments, in the order of the plan.
GeneratedAmounts(plan) ==
  FlattenSeq([i \in DOMAIN plan |-> SplitAmount(plan[i].amount, plan[i].count)])

PaymentPlans ==
  {plan \in UNION {[1..n -> Conditions] : n \in 1..Instalments} :
     AddsUp(plan) /\ Len(GeneratedAmounts(plan)) = Instalments}

\* February has its 29th every fourth year.
LastDay(month) ==
  CASE month % 12 \in {3, 5, 8, 10} -> 30
    [] month % 12 = 1 -> IF (month \div 12) % 4 = 0 THEN 29 ELSE 28
    [] OTHER -> 31

Dates(months) == {d \in [month : months, day : 1..31] : d.day <= LastDay(d.month)}

\* addUtcMonths
AddMonths(date, months) ==
  LET last == LastDay(date.month + months) IN
  [month |-> date.month + months, day |-> IF date.day > last THEN last ELSE date.day]

\* The sale has just been written by convertProposal, with its receivables.
Init ==
  /\ sale = "ATIVA"
  /\ \E plan \in PaymentPlans :
       recv = [r \in Receivables |->
                 [status |-> "PENDENTE", original |-> GeneratedAmounts(plan)[r],
                  adjusted |-> GeneratedAmounts(plan)[r], paid |-> 0,
                  applied |-> [period \in Periods |-> Null]]]
  /\ pmt = [x \in Payments |-> AbsentPayment]
  /\ entry = [e \in Entries |-> AbsentEntry]
  /\ tx = [q \in Requests |-> Idle]

-----------------------------------------------------------------------------
(* Locks.                                                                  *)

Writers == {q \in Requests : tx[q].op = "write"}

\* Mutant: the receivable is read without FOR UPDATE.
BugUnlocked(r) == r \in Receivables

\* lockReceivable
Unlocked(r) == \A q \in Writers : tx[q].recv # r

\* Mutant: the sale is read without FOR UPDATE.
BugSaleUnlocked(q) == q \in Requests

\* The sale is locked by a handler from syncSaleStatus to its commit.
SaleUnlocked(q) == \A q2 \in Writers \ {q} : tx[q2].next = Null

\* Mutant: the transaction is read without FOR UPDATE.
BugPaymentUnlocked(x) == x \in Payments

\* BankReconciliationService.lockTransaction
PaymentUnlocked(x) == \A q \in Writers : tx[q].pmt # x

\* The rows the distrato writes are as its snapshot saw them and not locked.
Unwritten(q) ==
  /\ recv = tx[q].seen
  /\ sale = tx[q].sale
  /\ \A r \in Receivables : Unlocked(r)

RowUnwritten(q) == Unlocked(tx[q].recv) /\ recv[tx[q].recv] = tx[q].seen

-----------------------------------------------------------------------------
(* src/src/receivables/receivables.service.ts                              *)

Balance(row) == row.adjusted - row.paid

Begin(q, r, row, x, pay, unmatch) ==
  /\ tx[q] = Idle
  /\ Unlocked(r)
  /\ tx' = [tx EXCEPT
              ![q] = [op |-> "write", recv |-> r, row |-> row, pmt |-> x,
                      pay |-> pay, unmatch |-> unmatch, next |-> Null]]
  /\ UNCHANGED <<sale, recv, pmt, entry>>

RecordPayment(q, r, x, amount) ==
  /\ recv[r].status \in {"PENDENTE", "PARCIAL"}
  /\ amount <= Balance(recv[r])
  /\ pmt[x].status = "ABSENT" /\ PaymentUnlocked(x)
  /\ LET paid == recv[r].paid + amount IN
       Begin(q, r,
             [recv[r] EXCEPT
                !.paid = paid,
                !.status = IF paid = recv[r].adjusted THEN "PAGO" ELSE "PARCIAL"],
             x, [status |-> "LIVE", recv |-> r, amount |-> amount], {})

\* The statement line reconciled with the payment, if any, is unmatched.
ReversePayment(q, x) ==
  LET r == pmt[x].recv
      paid == recv[r].paid - pmt[x].amount
  IN /\ pmt[x].status = "LIVE"
     /\ paid >= 0
     /\ Begin(q, r,
              [recv[r] EXCEPT
                 !.paid = paid,
                 !.status = IF paid = 0 THEN "PENDENTE" ELSE "PARCIAL"],
              x, [pmt[x] EXCEPT !.status = "REVERSED"],
              {e \in Entries : entry[e].pmt = x})

CancelReceivable(q, r) ==
  /\ recv[r].status # "CANCELADO"
  /\ recv[r].paid = 0
  /\ Begin(q, r, [recv[r] EXCEPT !.status = "CANCELADO"],
           Null, AbsentPayment, {})

\* syncSaleStatus: with the sale locked, the statuses of the other receivables
\* are read as committed, its own as written.
SyncSaleStatus(q) ==
  /\ tx[q].op = "write"
  /\ tx[q].next = Null
  /\ SaleUnlocked(q)
  /\ LET rows == [recv EXCEPT ![tx[q].recv] = tx[q].row]
         open == {r \in Receivables : rows[r].status # "CANCELADO"}
         settled == open # {} /\ \A r \in open : rows[r].status = "PAGO"
         next == IF sale = "DISTRATADA" THEN sale
                 ELSE IF settled THEN "QUITADA" ELSE "ATIVA"
     IN tx' = [tx EXCEPT ![q].next = next]
  /\ UNCHANGED <<sale, recv, pmt, entry>>

Unmatched(row) == [row EXCEPT !.status = "PENDENTE", !.pmt = Null]

Commit(q) ==
  /\ tx[q].op = "write"
  /\ tx[q].next # Null
  /\ recv' = [recv EXCEPT ![tx[q].recv] = tx[q].row]
  /\ pmt' = IF tx[q].pmt = Null THEN pmt ELSE [pmt EXCEPT ![tx[q].pmt] = tx[q].pay]
  /\ entry' = [e \in Entries |-> IF e \in tx[q].unmatch THEN Unmatched(entry[e])
                                 ELSE entry[e]]
  /\ sale' = tx[q].next
  /\ tx' = [tx EXCEPT ![q] = Idle]

\* A transaction in flight fails (a refused commit, a deadlock victim, a lost
\* connection, the process stops) and is rolled back.
Rollback(q) ==
  /\ tx[q] # Idle
  /\ tx' = [tx EXCEPT ![q] = Idle]
  /\ UNCHANGED <<sale, recv, pmt, entry>>

-----------------------------------------------------------------------------
(* src/src/sales/sale-cancellations.service.ts                             *)

ReadDistrato(q) ==
  /\ tx[q] = Idle
  /\ sale # "DISTRATADA"
  /\ \A r \in Receivables : recv[r].paid = 0
  /\ tx' = [tx EXCEPT ![q] = [op |-> "distrato", sale |-> sale, seen |-> recv]]
  /\ UNCHANGED <<sale, recv, pmt, entry>>

\* Every receivable of the sale is cancelled, whatever its status.
CommitDistrato(q) ==
  /\ tx[q].op = "distrato"
  /\ Unwritten(q)
  /\ SaleUnlocked(q)
  /\ recv' = [r \in Receivables |-> [recv[r] EXCEPT !.status = "CANCELADO"]]
  /\ sale' = "DISTRATADA"
  /\ tx' = [tx EXCEPT ![q] = Idle]
  /\ UNCHANGED <<pmt, entry>>

-----------------------------------------------------------------------------
(* src/src/monetary-adjustment/monetary-adjustment.service.ts              *)

\* The CHECK constraints Receivable_amounts and Receivable_state.
RowCheck(row) ==
  /\ 0 <= row.paid /\ row.paid <= row.adjusted
  /\ \/ row.status \in {"PENDENTE", "CANCELADO"} /\ row.paid = 0
     \/ row.status = "PARCIAL" /\ 0 < row.paid /\ row.paid < row.adjusted
     \/ row.status = "PAGO" /\ row.paid = row.adjusted

\* Another user may add or edit the values of the index and the policy of the
\* receivable at any time: what a correction reads of them is any of these.
IndexValues ==
  {values \in [Competences -> UNION {Rates[c] : c \in Competences} \cup {Null}] :
     \A c \in Competences : values[c] \in Rates[c] \cup {Null}}
Policies == [base : Competences, active : BOOLEAN] \cup {Null}

\* calculate: the values of the period, from the base date of the policy on.
ValuesUsed(policy, values, period) ==
  {c \in Competences :
     /\ values[c] # Null
     /\ policy.base <= c /\ period[1] <= c /\ c <= period[2]}

Product(f(_), S) ==
  MapThenFoldSet(LAMBDA x, y : x * y, 1, f, LAMBDA s : CHOOSE x \in s : TRUE, S)

Factor(values, used) ==
  [num |-> Product(LAMBDA c : 100 + values[c], used),
   den |-> Product(LAMBDA c : 100, used)]

\* The factors a correction for the period may find: none without an active
\* policy, or a value.
Factors ==
  [period \in Periods |->
     {Factor(f.values, ValuesUsed(f.policy, f.values, period)) :
        f \in {g \in [policy : Policies, values : IndexValues] :
                 /\ g.policy # Null /\ g.policy.active
                 /\ period[1] <= period[2]
                 /\ ValuesUsed(g.policy, g.values, period) # {}}}]

\* toDecimalPlaces(2), of amounts in cents
Corrected(amount, factor) ==
  (2 * amount * factor.num + factor.den) \div (2 * factor.den)

\* Mutant: a cancelled receivable can be corrected.
BugReadApply(q, r, period) ==
  /\ tx[q] = Idle
  /\ recv[r].applied[period] = Null
  /\ \E factor \in Factors[period] :
       LET adjusted == Corrected(recv[r].adjusted, factor) IN
       /\ adjusted >= recv[r].paid
       /\ tx' = [tx EXCEPT ![q] = [op |-> "apply", recv |-> r, period |-> period,
                                   adjusted |-> adjusted, seen |-> recv[r]]]
  /\ UNCHANGED <<sale, recv, pmt, entry>>

ReadApply(q, r, period) ==
  /\ tx[q] = Idle
  /\ recv[r].applied[period] = Null
  /\ recv[r].status # "CANCELADO"
  /\ \E factor \in Factors[period] :
       LET adjusted == Corrected(recv[r].adjusted, factor) IN
       /\ adjusted >= recv[r].paid
       /\ tx' = [tx EXCEPT ![q] = [op |-> "apply", recv |-> r, period |-> period,
                                   adjusted |-> adjusted, seen |-> recv[r]]]
  /\ UNCHANGED <<sale, recv, pmt, entry>>

\* The status is left as it is: it is the CHECK constraint that refuses to
\* correct a paid receivable, or a partly paid one down to what was paid.
CommitApply(q) ==
  /\ tx[q].op = "apply"
  /\ RowUnwritten(q)
  /\ LET r == tx[q].recv
         row == [recv[r] EXCEPT
                   !.adjusted = tx[q].adjusted,
                   !.applied[tx[q].period] = tx[q].adjusted - tx[q].seen.adjusted]
     IN RowCheck(row) /\ recv' = [recv EXCEPT ![r] = row]
  /\ tx' = [tx EXCEPT ![q] = Idle]
  /\ UNCHANGED <<sale, pmt, entry>>

-----------------------------------------------------------------------------
(* src/src/finance/bank-reconciliation.service.ts                          *)

\* lockEntry: a reversal in flight has locked the lines it unmatched.
EntryUnlocked(e) == \A q \in Writers : e \notin tx[q].unmatch

\* import: a line whose fingerprint is already there is skipped.
ImportEntry(e, amount) ==
  /\ entry[e].status = "ABSENT"
  /\ entry' = [entry EXCEPT
                 ![e] = [status |-> "PENDENTE", amount |-> amount, pmt |-> Null]]
  /\ UNCHANGED <<sale, recv, pmt, tx>>

\* match: account, nature and amount must agree; the amount stands for all.
Match(e, x) ==
  /\ entry[e].status = "PENDENTE"
  /\ EntryUnlocked(e)
  /\ PaymentUnlocked(x)
  /\ pmt[x].status = "LIVE"
  /\ pmt[x].amount = entry[e].amount
  /\ \A f \in Entries : entry[f].pmt # x
  /\ entry' = [entry EXCEPT ![e].status = "CONCILIADO", ![e].pmt = x]
  /\ UNCHANGED <<sale, recv, pmt, tx>>

\* unmatch, ignore and restore
ChangeStatus(e, expected, target) ==
  /\ entry[e].status = expected
  /\ EntryUnlocked(e)
  /\ entry' = [entry EXCEPT ![e].status = target, ![e].pmt = Null]
  /\ UNCHANGED <<sale, recv, pmt, tx>>

-----------------------------------------------------------------------------
(* What src/src/finance/finance.service.ts reports of the receivables.     *)

\* Transactions that were not reversed.
NotReversed == {x \in Payments : pmt[x].status = "LIVE"}

NotCancelled == {r \in Receivables : recv[r].status # "CANCELADO"}

BalanceOf(S) == Sum(LAMBDA r : Balance(recv[r]), S)

\* summary
CashBalance == Sum(LAMBDA x : pmt[x].amount, NotReversed)
ReceivablesPending == BalanceOf(NotCancelled)

\* summary, there and of receivables.service.ts, of the days before `today' and
\* of those from it on, whatever days `due' the receivables are due.
ReceivablesOverdue(due, today) ==
  BalanceOf({r \in NotCancelled : due[r] < today /\ recv[r].status \in Owing})
Overdue(due, now) ==
  BalanceOf({r \in NotCancelled : ComputedStatus(recv[r].status, due[r], now) = "ATRASADO"})
ExpectedInflows(due, today) == BalanceOf({r \in NotCancelled : due[r] >= today})

\* presentSale
OutstandingBalance ==
  Sum(LAMBDA r : recv[r].adjusted - recv[r].paid, NotCancelled)

\* cashFlow, CONSOLIDADO, of a range that every due date falls in: what was
\* received before the range opens the balance, the rest follows in it.
ClosingBalance ==
  CashBalance
    + BalanceOf({r \in Receivables : recv[r].status \in {"PENDENTE", "PARCIAL"}})

\* incomeStatement, COMPETENCIA, of such a range.
Revenue == Sum(LAMBDA r : recv[r].adjusted, NotCancelled)

-----------------------------------------------------------------------------
ReceivableNext ==
  \E q \in Requests :
    \/ \E r \in Receivables, x \in Payments, amount \in Amounts :
         RecordPayment(q, r, x, amount)
    \/ \E x \in Payments : ReversePayment(q, x)
    \/ \E r \in Receivables : CancelReceivable(q, r)
    \/ SyncSaleStatus(q)
    \/ Commit(q)
    \/ Rollback(q)

SerializableNext ==
  \E q \in Requests :
    \/ ReadDistrato(q)
    \/ CommitDistrato(q)
    \/ \E r \in Receivables, period \in Periods : ReadApply(q, r, period)
    \/ CommitApply(q)

EntryNext ==
  \E e \in Entries :
    \/ \E amount \in Amounts : ImportEntry(e, amount)
    \/ \E x \in Payments : Match(e, x)
    \/ ChangeStatus(e, "CONCILIADO", "PENDENTE")
    \/ ChangeStatus(e, "PENDENTE", "IGNORADO")
    \/ ChangeStatus(e, "IGNORADO", "PENDENTE")

Next == ReceivableNext \/ SerializableNext \/ EntryNext

Spec == Init /\ [][Next]_vars

-----------------------------------------------------------------------------
LivePayments(r) ==
  {x \in Payments : pmt[x].status = "LIVE" /\ pmt[x].recv = r}

\* The paid amount of a receivable is the sum of its payments that were not
\* reversed, and its status says what it says: no receipt or reversal is lost
\* when several are recorded at once, and none exceeds what was left to pay.
PaidIsSumOfPayments ==
  \A r \in Receivables :
    recv[r].paid = Sum(LAMBDA x : pmt[x].amount, LivePayments(r))

\* No handler but the monetary correction needs the CHECK constraints of the
\* table: what the others commit satisfies them.
StatusMatchesAmounts == \A r \in Receivables : RowCheck(recv[r])

\* A sale that was not rescinded is QUITADA exactly when it has receivables
\* that are not cancelled and all of them are paid, although the receipts of
\* two instalments commit in any order.
SettledWhenAllPaid ==
  sale # "DISTRATADA" =>
    LET open == {r \in Receivables : recv[r].status # "CANCELADO"} IN
      sale = "QUITADA" <=> open # {} /\ \A r \in open : recv[r].status = "PAGO"

\* A reconciled line of the statement stands for one payment that was not
\* reversed, of the same amount, and no two lines stand for the same one; the
\* unique index on the match is not what guarantees it.
ReconciledIsLive ==
  \A e \in Entries :
    /\ entry[e].status = "CONCILIADO" <=> entry[e].pmt # Null
    /\ entry[e].pmt # Null =>
         /\ pmt[entry[e].pmt].status = "LIVE"
         /\ pmt[entry[e].pmt].amount = entry[e].amount
         /\ \A f \in Entries \ {e} : entry[f].pmt # entry[e].pmt

\* A rescinded sale has only cancelled receivables and no money received on
\* them, however the distrato and the receipts interleave.
RescindedIsClosed ==
  sale = "DISTRATADA" =>
    \A r \in Receivables : recv[r].status = "CANCELADO" /\ LivePayments(r) = {}

\* What a receivable is worth is its original amount and the difference of
\* every correction recorded for it: two corrections of one receivable never
\* lose one another, although each computes on the amount it read.
CorrectionsAddUp ==
  \A r \in Receivables :
    recv[r].adjusted =
      recv[r].original + Sum(LAMBDA p : recv[r].applied[p],
                             {p \in Periods : recv[r].applied[p] # Null})

\* Cash and balances due, the consolidated cash flow and the revenue by
\* competence count every cent of the sale once: whatever is in flight or was
\* reversed, the three reports agree; and what is pending is overdue or expected.
ReportsAgree ==
  /\ CashBalance + ReceivablesPending = Revenue
  /\ ClosingBalance = Revenue
  /\ \A due \in [Receivables -> {Midnight(0), Midnight(1)}] :
       LET today == Midnight(1) IN
       /\ Overdue(due, today + 1) = ReceivablesOverdue(due, today)
       /\ ReceivablesPending = ReceivablesOverdue(due, today) + ExpectedInflows(due, today)

\* The instalments of a price add up to it, none is empty, and the last one
\* is larger than the others by less than a cent for each of them.
SplitAddsUp ==
  \A cents \in 1..MaxSplit : \A count \in 1..cents :
    LET part == SplitAmount(cents, count) IN
    /\ Sum(LAMBDA k : part[k], 1..count) = cents
    /\ \A k \in 1..count : part[k] >= 1 /\ part[count] - part[k] \in 0..(count - 1)

\* The instalments of a condition fall due in their order, each on the day of
\* the first in every month that has it: a short month never shifts those after
\* it.
DueDatesKept ==
  \A first \in Dates(0..MaxMonth), interval \in 1..3 : \A k \in 1..12 :
    LET due == AddMonths(first, k * interval)
        before == AddMonths(first, (k - 1) * interval)
    IN /\ due \in Dates({due.month}) /\ due.month > before.month
       /\ first.day <= LastDay(due.month) => due.day = first.day

\* The receivables of a sale were worth its price when it was made.
PriceDistributed == Sum(LAMBDA r : recv[r].original, Receivables) = Price

\* LedgerConsistent: what a receivable says was paid, its status, its
\* corrections and the reports agree with the payments, however receipts,
\* reversals and corrections interleave (recordPayment, reversePayment, apply,
\* finance.service.ts, splitAmount, buildWhere).
LedgerConsistent ==
  /\ TypeOK
  /\ PaidIsSumOfPayments
  /\ StatusMatchesAmounts
  /\ CorrectionsAddUp
  /\ ReportsAgree
  /\ SplitAddsUp
  /\ DueDatesKept
  /\ PriceDistributed
  /\ ListsAgree

\* SaleFollowsInstalments: a sale is QUITADA exactly when its instalments are
\* paid, and DISTRATADA only with nothing received or left to receive, in
\* whatever order receipts and the distrato commit (syncSaleStatus, cancel).
SaleFollowsInstalments ==
  /\ SettledWhenAllPaid
  /\ RescindedIsClosed
  /\ sale # "ATIVA" => OutstandingBalance = 0

\* A cancelled receivable and a rescinded sale never come back.
ClosedIsFinal ==
  [][ /\ \A r \in Receivables :
           recv[r].status = "CANCELADO" => recv'[r] = recv[r]
      /\ sale = "DISTRATADA" => sale' = "DISTRATADA" ]_vars
=============================================================================
