-------------------------- MODULE ReceivablesProofs -------------------------
(***************************************************************************)
(* The ledger of a sale, for any number of instalments, payments, lines of *)
(* the statement and requests: paid amounts are the sums of the payments,  *)
(* the corrections and the reports add up, the sale follows its            *)
(* instalments and a reconciled line stands for a live payment.  The       *)
(* inductive invariant says that what a handler read of the rows it locked *)
(* still holds when it commits.                                            *)
(***************************************************************************)
EXTENDS Receivables, FiniteSums

-----------------------------------------------------------------------------
(* The inductive invariant.                                                *)

\* What a handler that holds the lock of a receivable is about to write, told
\* by the rows as they are now.
Recording(t) ==
  /\ t.pmt \in Payments
  /\ pmt[t.pmt] = AbsentPayment
  /\ recv[t.recv].status \in {"PENDENTE", "PARCIAL"}
  /\ t.pay \in PaymentRow
  /\ t.pay.status = "LIVE"
  /\ t.pay.recv = t.recv
  /\ t.pay.amount <= Balance(recv[t.recv])
  /\ t.row = [recv[t.recv] EXCEPT
                !.paid = recv[t.recv].paid + t.pay.amount,
                !.status = IF recv[t.recv].paid + t.pay.amount = recv[t.recv].adjusted
                           THEN "PAGO" ELSE "PARCIAL"]
  /\ t.unmatch = {}

Reversing(t) ==
  /\ t.pmt \in Payments
  /\ pmt[t.pmt].status = "LIVE"
  /\ pmt[t.pmt].recv = t.recv
  /\ recv[t.recv].paid - pmt[t.pmt].amount >= 0
  /\ t.pay = [pmt[t.pmt] EXCEPT !.status = "REVERSED"]
  /\ t.row = [recv[t.recv] EXCEPT
                !.paid = recv[t.recv].paid - pmt[t.pmt].amount,
                !.status = IF recv[t.recv].paid - pmt[t.pmt].amount = 0
                           THEN "PENDENTE" ELSE "PARCIAL"]
  /\ t.unmatch = {e \in Entries : entry[e].pmt = t.pmt}

Cancelling(t) ==
  /\ t.pmt = Null
  /\ recv[t.recv].status # "CANCELADO"
  /\ recv[t.recv].paid = 0
  /\ t.row = [recv[t.recv] EXCEPT !.status = "CANCELADO"]
  /\ t.unmatch = {}

\* The status that a sale whose receivables have the statuses `st' gets.
AllPaid(st) ==
  /\ \E r \in Receivables : st[r] # "CANCELADO"
  /\ \A r \in Receivables : st[r] # "CANCELADO" => st[r] = "PAGO"

Follows(old, st) ==
  IF old = "DISTRATADA" THEN old ELSE IF AllPaid(st) THEN "QUITADA" ELSE "ATIVA"

StatusesWith(t) ==
  [r \in Receivables |-> IF r = t.recv THEN t.row.status ELSE recv[r].status]

Explained(q) ==
  /\ Recording(tx[q]) \/ Reversing(tx[q]) \/ Cancelling(tx[q])
  /\ tx[q].next # Null => tx[q].next = Follows(sale, StatusesWith(tx[q]))

\* Two handlers share neither a receivable nor a payment, and one of them at
\* most has the sale.
Apart(q1, q2) ==
  /\ tx[q1].recv # tx[q2].recv
  /\ tx[q1].pmt # Null => tx[q1].pmt # tx[q2].pmt
  /\ tx[q1].next # Null => tx[q2].next = Null

LocksHold ==
  /\ \A q \in Writers : Explained(q)
  /\ \A q1, q2 \in Writers : q1 # q2 => Apart(q1, q2)

\* What the snapshots of the others were checked for.
SnapshotsChecked ==
  \A q \in Requests :
    /\ tx[q].op = "distrato" => \A r \in Receivables : tx[q].seen[r].paid = 0
    /\ tx[q].op = "apply" => /\ tx[q].seen.applied[tx[q].period] = Null
                             /\ tx[q].seen.status # "CANCELADO"

RescindedIsCancelled ==
  sale = "DISTRATADA" => \A r \in Receivables : recv[r].status = "CANCELADO"

\* The sums of the ledger, as sums of functions.
AmountOf(rows) == [x \in Payments |-> rows[x].amount]
PaidOf(rows) == [r \in Receivables |-> rows[r].paid]

PaidInSum ==
  \A r \in Receivables : recv[r].paid = SumOf(AmountOf(pmt), LivePayments(r))

CashInSum == SumOf(AmountOf(pmt), NotReversed) = SumOf(PaidOf(recv), Receivables)

Corrections(row) == {p \in Periods : row.applied[p] # Null}

CorrectedInSum ==
  \A r \in Receivables :
    recv[r].adjusted = recv[r].original + SumOf(recv[r].applied, Corrections(recv[r]))

Ledger == PaidInSum /\ CashInSum /\ StatusMatchesAmounts /\ CorrectedInSum

IInv ==
  /\ TypeOK
  /\ LocksHold
  /\ SnapshotsChecked
  /\ Ledger
  /\ SettledWhenAllPaid
  /\ RescindedIsCancelled
  /\ ReconciledIsLive

-----------------------------------------------------------------------------
(* The sums of the model, as sums of functions.                            *)

LEMMA FiniteRows ==
  /\ IsFiniteSet(Payments)
  /\ IsFiniteSet(Receivables)
  /\ IsFiniteSet(Periods)
<1>1. IsFiniteSet(Receivables)
  BY PriceAssumption, FS_Interval DEF Receivables
<1>2. IsFiniteSet(Periods)
  BY FiniteAssumption, IndexAssumption, FS_Product, FS_Subset
<1> QED
  BY <1>1, <1>2, FiniteAssumption

LEMMA AmountSum ==
  ASSUME NEW rows, NEW S \in SUBSET Payments
  PROVE  Sum(LAMBDA x : rows[x].amount, S) = SumOf(AmountOf(rows), S)
<1> DEFINE f == AmountOf(rows)
           A(g) == g = [s \in SUBSET S |->
                          IF s = {} THEN 0
                          ELSE rows[Chosen(s)].amount + g[s \ {Chosen(s)}]]
<1>1. \A s \in SUBSET S : s # {} => f[Chosen(s)] = rows[Chosen(s)].amount
  BY ChosenMember DEF AmountOf
<1>2. ASSUME NEW g
      PROVE  A(g) <=> Adds(g, f, S)
  <2> HIDE DEF f
  <2>1. \A s \in SUBSET S :
          (IF s = {} THEN 0 ELSE rows[Chosen(s)].amount + g[s \ {Chosen(s)}])
            = IF s = {} THEN 0 ELSE f[Chosen(s)] + g[s \ {Chosen(s)}]
    BY <1>1
  <2> QED
    BY <2>1 DEF Adds
<1>3. Sum(LAMBDA x : rows[x].amount, S) = (CHOOSE g : A(g))[S]
  BY DEF Sum, MapThenSumSet, MapThenFoldSet, Chosen
<1>4. (CHOOSE g : A(g)) = (CHOOSE g : Adds(g, f, S))
  <2> HIDE DEF A, f
  <2> QED
    BY <1>2
<1> QED
  BY <1>3, <1>4, SumOfIsAdds

LEMMA AppliedSum ==
  ASSUME NEW row, NEW S \in SUBSET Periods
  PROVE  Sum(LAMBDA p : row.applied[p], S) = SumOf(row.applied, S)
<1> DEFINE A(g) == g = [s \in SUBSET S |->
                          IF s = {} THEN 0
                          ELSE row.applied[Chosen(s)] + g[s \ {Chosen(s)}]]
<1>1. Sum(LAMBDA p : row.applied[p], S) = (CHOOSE g : A(g))[S]
  BY DEF Sum, MapThenSumSet, MapThenFoldSet, Chosen
<1>2. (CHOOSE g : A(g)) = (CHOOSE g : Adds(g, row.applied, S))
  BY DEF Adds
<1> QED
  BY <1>1, <1>2, SumOfIsAdds

LEMMA RatesProduct ==
  ASSUME NEW values, NEW S \in SUBSET Competences
  PROVE  Product(LAMBDA c : 100 + values[c], S)
           = ProductOf([c \in Competences |-> 100 + values[c]], S)
<1> DEFINE f == [c \in Competences |-> 100 + values[c]]
           A(g) == g = [s \in SUBSET S |->
                          IF s = {} THEN 1
                          ELSE (100 + values[Chosen(s)]) * g[s \ {Chosen(s)}]]
<1>1. \A s \in SUBSET S : s # {} => f[Chosen(s)] = 100 + values[Chosen(s)]
  BY ChosenMember
<1>2. ASSUME NEW g
      PROVE  A(g) <=> Multiplies(g, f, S)
  <2> HIDE DEF f
  <2>1. \A s \in SUBSET S :
          (IF s = {} THEN 1 ELSE (100 + values[Chosen(s)]) * g[s \ {Chosen(s)}])
            = IF s = {} THEN 1 ELSE f[Chosen(s)] * g[s \ {Chosen(s)}]
    BY <1>1
  <2> QED
    BY <2>1 DEF Multiplies
<1>3. Product(LAMBDA c : 100 + values[c], S) = (CHOOSE g : A(g))[S]
  BY DEF Product, MapThenFoldSet, Chosen
<1>4. (CHOOSE g : A(g)) = (CHOOSE g : Multiplies(g, f, S))
  <2> HIDE DEF A, f
  <2> QED
    BY <1>2
<1> QED
  BY <1>3, <1>4, ProductOfIsMultiplies

LEMMA HundredsProduct ==
  ASSUME NEW S \in SUBSET Competences
  PROVE  Product(LAMBDA c : 100, S) = ProductOf([c \in Competences |-> 100], S)
<1> DEFINE f == [c \in Competences |-> 100]
           A(g) == g = [s \in SUBSET S |->
                          IF s = {} THEN 1 ELSE 100 * g[s \ {Chosen(s)}]]
<1>1. \A s \in SUBSET S : s # {} => f[Chosen(s)] = 100
  BY ChosenMember
<1>2. ASSUME NEW g
      PROVE  A(g) <=> Multiplies(g, f, S)
  <2> HIDE DEF f
  <2>1. \A s \in SUBSET S :
          (IF s = {} THEN 1 ELSE 100 * g[s \ {Chosen(s)}])
            = IF s = {} THEN 1 ELSE f[Chosen(s)] * g[s \ {Chosen(s)}]
    BY <1>1
  <2> QED
    BY <2>1 DEF Multiplies
<1>3. Product(LAMBDA c : 100, S) = (CHOOSE g : A(g))[S]
  BY DEF Product, MapThenFoldSet, Chosen
<1>4. (CHOOSE g : A(g)) = (CHOOSE g : Multiplies(g, f, S))
  <2> HIDE DEF A, f
  <2> QED
    BY <1>2
<1> QED
  BY <1>3, <1>4, ProductOfIsMultiplies

\* What a correction multiplies an amount by is a fraction.
LEMMA FactorType ==
  ASSUME NEW period \in Periods, NEW factor \in Factors[period]
  PROVE  factor.num \in Int /\ factor.den \in Nat \ {0}
<1>1. PICK f \in [policy : Policies, values : IndexValues] :
        factor = Factor(f.values, ValuesUsed(f.policy, f.values, period))
  BY DEF Factors
<1> DEFINE used == ValuesUsed(f.policy, f.values, period)
           rates == [c \in Competences |-> 100 + f.values[c]]
           hundreds == [c \in Competences |-> 100]
<1>2. used \in SUBSET Competences /\ \A c \in used : f.values[c] \in Rates[c]
  BY DEF ValuesUsed, IndexValues
<1>3. IsFiniteSet(used)
  BY <1>2, FiniteAssumption, FS_Subset
<1>4. factor.num = ProductOf(rates, used) /\ factor.den = ProductOf(hundreds, used)
  <2> HIDE DEF used
  <2>1. factor = Factor(f.values, used)
    BY <1>1 DEF used
  <2> QED
    BY <1>2, <2>1, RatesProduct, HundredsProduct DEF Factor
<1>5. ProductOf(rates, used) \in Int
  <2> HIDE DEF used
  <2>1. \A c \in used : rates[c] \in Int
    BY <1>2, IndexAssumption
  <2>2. \A i, j \in Int : i * j \in Int
    OBVIOUS
  <2>3. 1 \in Int
    OBVIOUS
  <2> HIDE DEF rates
  <2>4. \A c \in used : \A v \in Int : rates[c] * v \in Int
    BY <2>1, <2>2
  <2> QED
    BY <1>3, <2>1, <2>3, <2>4, ProductType
<1>6. ProductOf(hundreds, used) \in Nat \ {0}
  <2> HIDE DEF used
  <2>1. \A c \in used : hundreds[c] \in Int
    BY <1>2
  <2>2. \A c \in used : \A v \in Nat \ {0} : hundreds[c] * v \in Nat \ {0}
    BY <1>2
  <2>3. 1 \in Nat \ {0}
    OBVIOUS
  <2> HIDE DEF hundreds
  <2> QED
    BY <1>3, <2>1, <2>2, <2>3, ProductType
<1> QED
  BY <1>4, <1>5, <1>6

LEMMA CorrectedType ==
  ASSUME NEW amount \in Int, NEW period \in Periods, NEW factor \in Factors[period]
  PROVE  Corrected(amount, factor) \in Int
<1>1. factor.num \in Int /\ factor.den \in Nat \ {0}
  BY FactorType
<1>2. 2 * factor.den \in Nat \ {0}
  BY <1>1
<1>3. \A i, j \in Int : i * j \in Int
  OBVIOUS
<1>4. 2 * amount * factor.num + factor.den \in Int
  BY <1>1, <1>3
<1>5. \A i \in Int, d \in Nat \ {0} : i \div d \in Int
  OBVIOUS
<1> QED
  BY <1>2, <1>4, <1>5 DEF Corrected

-----------------------------------------------------------------------------
(* Types.                                                                  *)

LEMMA RowType ==
  ASSUME NEW row \in ReceivableRow
  PROVE  /\ row.status \in {"PENDENTE", "PARCIAL", "PAGO", "CANCELADO"}
         /\ row.adjusted \in Int
         /\ row.paid \in Int
         /\ row.original \in Int
         /\ row.applied \in [Periods -> Int \cup {Null}]
BY PriceAssumption DEF ReceivableRow

LEMMA PayType ==
  ASSUME NEW pay \in PaymentRow
  PROVE  /\ pay.status \in {"LIVE", "REVERSED"}
         /\ pay.recv \in Receivables
         /\ pay.amount \in Nat \ {0}
BY AmountAssumption DEF PaymentRow

LEMMA PaymentType ==
  ASSUME TypeOK, NEW x \in Payments
  PROVE  /\ pmt[x] \in PaymentRow \cup {AbsentPayment}
         /\ pmt[x] # AbsentPayment => pmt[x] \in PaymentRow
         /\ pmt[x].status = "ABSENT" <=> pmt[x] = AbsentPayment
         /\ pmt[x].status = "LIVE" => pmt[x] \in PaymentRow
         /\ pmt[x].amount \in Nat
<1>1. pmt[x] \in PaymentRow \cup {AbsentPayment}
  BY DEF TypeOK
<1>2. AbsentPayment.status = "ABSENT" /\ AbsentPayment.amount = 0
  BY DEF AbsentPayment
<1>3. pmt[x] \in PaymentRow => pmt[x].status # "ABSENT" /\ pmt[x].amount \in Nat
  BY PayType
<1> QED
  BY <1>1, <1>2, <1>3

LEMMA EntryType ==
  ASSUME TypeOK, NEW e \in Entries
  PROVE  /\ entry[e].status \in {"ABSENT", "PENDENTE", "CONCILIADO", "IGNORADO"}
         /\ entry[e].status # "ABSENT" => entry[e] \in EntryRow
         /\ entry[e].status = "ABSENT" => entry[e] = AbsentEntry
         /\ entry[e].pmt \in Payments \cup {Null}
BY DEF TypeOK, EntryRow, AbsentEntry

LEMMA TxType ==
  ASSUME TypeOK, NEW q \in Requests
  PROVE  /\ tx[q].op \in {"idle", "write", "distrato", "apply"}
         /\ tx[q].op = "idle" <=> tx[q] = Idle
         /\ tx[q].op = "write" => tx[q] \in WriteState
         /\ tx[q].op = "distrato" => tx[q] \in DistratoState
         /\ tx[q].op = "apply" => tx[q] \in ApplyState
<1>1. tx[q] \in {Idle} \cup WriteState \cup DistratoState \cup ApplyState
  BY DEF TypeOK
<1>2. tx[q] \in WriteState => tx[q].op = "write"
  BY DEF WriteState
<1>3. tx[q] \in DistratoState => tx[q].op = "distrato"
  BY DEF DistratoState
<1>4. tx[q] \in ApplyState => tx[q].op = "apply"
  BY DEF ApplyState
<1>5. Idle.op = "idle"
  BY DEF Idle
<1> QED
  BY <1>1, <1>2, <1>3, <1>4, <1>5

LEMMA WriteType ==
  ASSUME NEW t \in WriteState
  PROVE  /\ t.recv \in Receivables
         /\ t.row \in ReceivableRow
         /\ t.pmt \in Payments \cup {Null}
         /\ t.pay \in PaymentRow \cup {AbsentPayment}
         /\ t.unmatch \in SUBSET Entries
         /\ t.next \in SaleStatuses \cup {Null}
BY DEF WriteState

LEMMA WriterType ==
  ASSUME TypeOK, NEW q \in Writers
  PROVE  q \in Requests /\ tx[q].op = "write" /\ tx[q] \in WriteState
BY TxType DEF Writers

LEMMA DistratoType ==
  ASSUME NEW t \in DistratoState
  PROVE  t.sale \in SaleStatuses /\ t.seen \in [Receivables -> ReceivableRow]
BY DEF DistratoState

LEMMA ApplyType ==
  ASSUME NEW t \in ApplyState
  PROVE  /\ t.recv \in Receivables
         /\ t.period \in Periods
         /\ t.adjusted \in Int
         /\ t.seen \in ReceivableRow
BY DEF ApplyState

-----------------------------------------------------------------------------
(* What a change of one row does to the sums.                              *)

PaymentRows == [Payments -> PaymentRow \cup {AbsentPayment}]
ReceivableRows == [Receivables -> ReceivableRow]

LEMMA AmountType ==
  ASSUME NEW rows \in PaymentRows, NEW S \in SUBSET Payments
  PROVE  /\ IsFiniteSet(S)
         /\ \A x \in S : AmountOf(rows)[x] \in Int
         /\ \A x \in S : AmountOf(rows)[x] = rows[x].amount
<1>1. IsFiniteSet(S)
  BY FiniteRows, FS_Subset
<1>2. ASSUME NEW x \in S
      PROVE  rows[x].amount \in Int
  <2>1. rows[x] \in PaymentRow \cup {AbsentPayment}
    BY DEF PaymentRows
  <2> QED
    BY <2>1, PayType DEF AbsentPayment
<1> QED
  BY <1>1, <1>2 DEF AmountOf

LEMMA SumWith ==
  ASSUME NEW old \in PaymentRows, NEW new \in PaymentRows,
         NEW S \in SUBSET Payments, NEW x \in Payments, x \notin S,
         \A y \in S : new[y].amount = old[y].amount
  PROVE  SumOf(AmountOf(new), S \cup {x}) = SumOf(AmountOf(old), S) + new[x].amount
<1> DEFINE f == AmountOf(old)
           g == AmountOf(new)
<1>1. S \cup {x} \in SUBSET Payments
  OBVIOUS
<1>2. /\ IsFiniteSet(S)
      /\ \A y \in S : f[y] \in Int
      /\ \A y \in S : f[y] = old[y].amount
  BY AmountType
<1>3. /\ \A y \in S \cup {x} : g[y] \in Int
      /\ \A y \in S \cup {x} : g[y] = new[y].amount
  BY <1>1, AmountType
<1> HIDE DEF f, g
<1>4. SumOf(g, S \cup {x}) = g[x] + SumOf(g, S)
  BY <1>2, <1>3, SumInsert
<1>5. SumOf(g, S) = SumOf(f, S)
  BY <1>2, <1>3, SumSame
<1>6. SumOf(f, S) \in Int
  BY <1>2, SumType
<1> QED
  BY <1>3, <1>4, <1>5, <1>6 DEF f, g

LEMMA SumWithout ==
  ASSUME NEW old \in PaymentRows, NEW new \in PaymentRows,
         NEW S \in SUBSET Payments, NEW x \in S,
         \A y \in S \ {x} : new[y].amount = old[y].amount
  PROVE  SumOf(AmountOf(new), S \ {x}) = SumOf(AmountOf(old), S) - old[x].amount
<1> DEFINE f == AmountOf(old)
           g == AmountOf(new)
<1>1. S \ {x} \in SUBSET Payments
  OBVIOUS
<1>2. /\ IsFiniteSet(S)
      /\ \A y \in S : f[y] \in Int
      /\ \A y \in S : f[y] = old[y].amount
  BY AmountType
<1>3. /\ IsFiniteSet(S \ {x})
      /\ \A y \in S \ {x} : g[y] \in Int
      /\ \A y \in S \ {x} : g[y] = new[y].amount
  BY <1>1, AmountType
<1> HIDE DEF f, g
<1>4. SumOf(f, S) = f[x] + SumOf(f, S \ {x})
  BY <1>2, SumRemove
<1>5. SumOf(g, S \ {x}) = SumOf(f, S \ {x})
  BY <1>2, <1>3, SumSame
<1>6. SumOf(f, S \ {x}) \in Int
  BY <1>2, <1>3, SumType
<1> QED
  BY <1>2, <1>4, <1>5, <1>6 DEF f, g

LEMMA SameAmounts ==
  ASSUME NEW old \in PaymentRows, NEW new \in PaymentRows, NEW S \in SUBSET Payments,
         \A y \in S : new[y].amount = old[y].amount
  PROVE  SumOf(AmountOf(new), S) = SumOf(AmountOf(old), S)
<1> DEFINE f == AmountOf(old)
           g == AmountOf(new)
<1>1. /\ IsFiniteSet(S)
      /\ \A y \in S : f[y] \in Int
      /\ \A y \in S : f[y] = old[y].amount
  BY AmountType
<1>2. \A y \in S : g[y] = new[y].amount
  BY AmountType
<1> HIDE DEF f, g
<1>3. SumOf(g, S) = SumOf(f, S)
  BY <1>1, <1>2, SumSame
<1> QED
  BY <1>3 DEF f, g

LEMMA PaidType ==
  ASSUME NEW rows \in ReceivableRows
  PROVE  /\ \A r \in Receivables : PaidOf(rows)[r] \in Int
         /\ \A r \in Receivables : PaidOf(rows)[r] = rows[r].paid
BY RowType DEF ReceivableRows, PaidOf

LEMMA PaidChange ==
  ASSUME NEW old \in ReceivableRows, NEW new \in ReceivableRows, NEW r \in Receivables,
         \A s \in Receivables \ {r} : new[s].paid = old[s].paid
  PROVE  SumOf(PaidOf(new), Receivables)
           = SumOf(PaidOf(old), Receivables) + new[r].paid - old[r].paid
<1> DEFINE f == PaidOf(old)
           g == PaidOf(new)
<1>1. /\ \A s \in Receivables : f[s] \in Int
      /\ \A s \in Receivables : f[s] = old[s].paid
  BY PaidType
<1>2. /\ \A s \in Receivables : g[s] \in Int
      /\ \A s \in Receivables : g[s] = new[s].paid
  BY PaidType
<1> HIDE DEF f, g
<1>3. SumOf(g, Receivables) = SumOf(f, Receivables) + g[r] - f[r]
  BY <1>1, <1>2, FiniteRows, SumChange
<1> QED
  BY <1>1, <1>2, <1>3 DEF f, g

LEMMA LiveIsPayments ==
  /\ NotReversed \in SUBSET Payments
  /\ \A r \in Receivables : LivePayments(r) \in SUBSET Payments
BY DEF NotReversed, LivePayments

LEMMA LedgerTypes ==
  ASSUME TypeOK
  PROVE  /\ pmt \in PaymentRows
         /\ recv \in ReceivableRows
         /\ SumOf(AmountOf(pmt), NotReversed) \in Int
         /\ SumOf(PaidOf(recv), Receivables) \in Int
         /\ \A r \in Receivables : SumOf(AmountOf(pmt), LivePayments(r)) \in Int
<1>1. pmt \in PaymentRows /\ recv \in ReceivableRows
  BY DEF TypeOK, PaymentRows, ReceivableRows
<1>2. \A S \in SUBSET Payments : SumOf(AmountOf(pmt), S) \in Int
  BY <1>1, AmountType, SumType
<1>3. SumOf(PaidOf(recv), Receivables) \in Int
  BY <1>1, PaidType, FiniteRows, SumType
<1> QED
  BY <1>1, <1>2, <1>3, LiveIsPayments

-----------------------------------------------------------------------------
(* What a commit does to the ledger.                                       *)

LEMMA LedgerSame ==
  ASSUME Ledger, UNCHANGED <<recv, pmt>>
  PROVE  Ledger'
BY DEF Ledger, PaidInSum, CashInSum, StatusMatchesAmounts, CorrectedInSum,
       LivePayments, NotReversed

\* Rows that are worth as much, with the same payments.
LEMMA LedgerSamePaid ==
  ASSUME TypeOK, TypeOK', Ledger, UNCHANGED pmt,
         \A r \in Receivables : recv'[r].paid = recv[r].paid
  PROVE  PaidInSum' /\ CashInSum'
<1>1. PaidOf(recv)' = PaidOf(recv)
  BY DEF PaidOf
<1>2. PaidInSum'
  BY DEF Ledger, PaidInSum, LivePayments
<1>3. CashInSum'
  BY <1>1 DEF Ledger, CashInSum, NotReversed
<1> QED
  BY <1>2, <1>3

\* A handler writes neither the correction of a row nor what it was worth.
LEMMA WrittenRow ==
  ASSUME TypeOK, NEW t \in WriteState, Recording(t) \/ Reversing(t) \/ Cancelling(t)
  PROVE  /\ t.row.adjusted = recv[t.recv].adjusted
         /\ t.row.original = recv[t.recv].original
         /\ t.row.applied = recv[t.recv].applied
<1>1. t.recv \in Receivables /\ recv[t.recv] \in ReceivableRow
  BY WriteType DEF TypeOK
<1>2. CASE Recording(t)
  BY <1>1, <1>2 DEF Recording, ReceivableRow
<1>3. CASE Reversing(t)
  BY <1>1, <1>3 DEF Reversing, ReceivableRow
<1>4. CASE Cancelling(t)
  BY <1>1, <1>4 DEF Cancelling, ReceivableRow
<1> QED
  BY <1>2, <1>3, <1>4

LEMMA CommitCorrected ==
  ASSUME TypeOK, Ledger, NEW t \in WriteState,
         Recording(t) \/ Reversing(t) \/ Cancelling(t),
         recv' = [recv EXCEPT ![t.recv] = t.row]
  PROVE  CorrectedInSum'
<1>1. t.recv \in Receivables /\ recv'[t.recv] = t.row
  BY WriteType DEF TypeOK
<1>2. \A r \in Receivables :
        /\ recv'[r].adjusted = recv[r].adjusted
        /\ recv'[r].original = recv[r].original
        /\ recv'[r].applied = recv[r].applied
  BY <1>1, WrittenRow DEF TypeOK
<1> QED
  BY <1>2 DEF Ledger, CorrectedInSum, Corrections

LEMMA RecordLedger ==
  ASSUME TypeOK, TypeOK', Ledger, NEW t \in WriteState, Recording(t),
         recv' = [recv EXCEPT ![t.recv] = t.row],
         pmt' = [pmt EXCEPT ![t.pmt] = t.pay]
  PROVE  Ledger'
<1> DEFINE r == t.recv
           x == t.pmt
<1>1. /\ r \in Receivables
      /\ x \in Payments
      /\ recv[r] \in ReceivableRow
      /\ pmt[x] = AbsentPayment
      /\ t.pay \in PaymentRow
      /\ t.pay.status = "LIVE" /\ t.pay.recv = r /\ t.pay.amount \in Nat \ {0}
  BY WriteType, PayType DEF Recording, TypeOK
<1>2. /\ recv'[r] = t.row
      /\ \A s \in Receivables \ {r} : recv'[s] = recv[s]
      /\ pmt'[x] = t.pay
      /\ \A y \in Payments \ {x} : pmt'[y] = pmt[y]
  BY <1>1 DEF TypeOK
<1>3. /\ t.row.paid = recv[r].paid + t.pay.amount
      /\ t.row.adjusted = recv[r].adjusted
      /\ t.row.status = IF t.row.paid = t.row.adjusted THEN "PAGO" ELSE "PARCIAL"
      /\ t.pay.amount <= recv[r].adjusted - recv[r].paid
  BY <1>1 DEF Recording, ReceivableRow, Balance
<1>4. /\ recv[r].paid \in Int /\ recv[r].adjusted \in Int
      /\ RowCheck(recv[r])
  BY <1>1, RowType DEF Ledger, StatusMatchesAmounts
<1>5. StatusMatchesAmounts'
  <2>1. RowCheck(t.row)
    BY <1>1, <1>3, <1>4 DEF RowCheck
  <2> QED
    BY <1>2, <2>1 DEF Ledger, StatusMatchesAmounts
<1>6. AbsentPayment.status = "ABSENT"
  BY DEF AbsentPayment
<1>7. /\ x \notin NotReversed
      /\ NotReversed' = NotReversed \cup {x}
      /\ \A y \in NotReversed : pmt'[y].amount = pmt[y].amount
  BY <1>1, <1>2, <1>6 DEF NotReversed
<1>8. \A s \in Receivables :
        /\ x \notin LivePayments(s)
        /\ LivePayments(s)' = IF s = r THEN LivePayments(s) \cup {x} ELSE LivePayments(s)
        /\ \A y \in LivePayments(s) : pmt'[y].amount = pmt[y].amount
  BY <1>1, <1>2, <1>6 DEF LivePayments
<1>9. /\ pmt \in PaymentRows /\ pmt' \in PaymentRows
      /\ recv \in ReceivableRows /\ recv' \in ReceivableRows
  BY LedgerTypes DEF TypeOK, PaymentRows, ReceivableRows
<1>10. PaidInSum'
  <2> SUFFICES ASSUME NEW s \in Receivables
               PROVE  recv'[s].paid = SumOf(AmountOf(pmt'), LivePayments(s)')
    BY DEF PaidInSum
  <2>1. recv[s].paid = SumOf(AmountOf(pmt), LivePayments(s))
    BY DEF Ledger, PaidInSum
  <2>2. CASE s = r
    <3>1. /\ LivePayments(s) \in SUBSET Payments
          /\ x \notin LivePayments(s)
          /\ \A y \in LivePayments(s) : pmt'[y].amount = pmt[y].amount
      BY <1>8, LiveIsPayments
    <3>2. SumOf(AmountOf(pmt'), LivePayments(s) \cup {x})
            = SumOf(AmountOf(pmt), LivePayments(s)) + pmt'[x].amount
      <4> DEFINE L == LivePayments(s)
      <4>1. pmt \in PaymentRows /\ pmt' \in PaymentRows
        BY <1>9
      <4>2. L \in SUBSET Payments /\ x \in Payments /\ x \notin L
        BY <1>1, <3>1
      <4>3. \A y \in L : pmt'[y].amount = pmt[y].amount
        BY <3>1
      <4> HIDE DEF x, L, r
      <4>4. SumOf(AmountOf(pmt'), L \cup {x}) = SumOf(AmountOf(pmt), L) + pmt'[x].amount
        BY <4>1, <4>2, <4>3, SumWith, ZenonT(60)
      <4> QED
        BY <4>4 DEF L
    <3> QED
      BY <1>1, <1>2, <1>3, <1>8, <2>1, <2>2, <3>2
  <2>3. CASE s # r
    <3>1. SumOf(AmountOf(pmt'), LivePayments(s)) = SumOf(AmountOf(pmt), LivePayments(s))
      BY <1>8, <1>9, LiveIsPayments, SameAmounts
    <3> QED
      BY <1>2, <1>8, <2>1, <2>3, <3>1
  <2> QED
    BY <2>2, <2>3
<1>11. CashInSum'
  <2>1. SumOf(AmountOf(pmt'), NotReversed \cup {x})
          = SumOf(AmountOf(pmt), NotReversed) + pmt'[x].amount
    <3>1. /\ NotReversed \in SUBSET Payments
          /\ x \in Payments
          /\ x \notin NotReversed
          /\ \A y \in NotReversed : pmt'[y].amount = pmt[y].amount
      BY <1>1, <1>7, LiveIsPayments
    <3> HIDE DEF x
    <3> QED
      BY <1>9, <3>1, SumWith, ZenonT(60)
  <2>2. SumOf(PaidOf(recv'), Receivables)
          = SumOf(PaidOf(recv), Receivables) + recv'[r].paid - recv[r].paid
    BY <1>1, <1>2, <1>9, PaidChange
  <2>3. SumOf(PaidOf(recv), Receivables) \in Int
    BY LedgerTypes
  <2>4. SumOf(AmountOf(pmt'), NotReversed') = SumOf(PaidOf(recv'), Receivables)
    BY <1>1, <1>2, <1>3, <1>4, <1>7, <2>1, <2>2, <2>3 DEF Ledger, CashInSum
  <2> QED
    BY <2>4 DEF CashInSum
<1>12. CorrectedInSum'
  BY CommitCorrected
<1> QED
  BY <1>5, <1>10, <1>11, <1>12 DEF Ledger

LEMMA ReverseLedger ==
  ASSUME TypeOK, TypeOK', Ledger, NEW t \in WriteState, Reversing(t),
         recv' = [recv EXCEPT ![t.recv] = t.row],
         pmt' = [pmt EXCEPT ![t.pmt] = t.pay]
  PROVE  Ledger'
<1> DEFINE r == t.recv
           x == t.pmt
<1>1. /\ r \in Receivables
      /\ x \in Payments
      /\ recv[r] \in ReceivableRow
      /\ pmt[x] \in PaymentRow
      /\ pmt[x].status = "LIVE" /\ pmt[x].recv = r /\ pmt[x].amount \in Nat \ {0}
  BY WriteType, PaymentType, PayType DEF Reversing, TypeOK
<1>2. /\ recv'[r] = t.row
      /\ \A s \in Receivables \ {r} : recv'[s] = recv[s]
      /\ pmt'[x] = t.pay
      /\ \A y \in Payments \ {x} : pmt'[y] = pmt[y]
  BY <1>1 DEF TypeOK
<1>3. /\ t.row.paid = recv[r].paid - pmt[x].amount
      /\ t.row.paid >= 0
      /\ t.row.adjusted = recv[r].adjusted
      /\ t.row.status = IF t.row.paid = 0 THEN "PENDENTE" ELSE "PARCIAL"
      /\ t.pay.status = "REVERSED"
  BY <1>1 DEF Reversing, ReceivableRow, PaymentRow
<1>4. /\ recv[r].paid \in Int /\ recv[r].adjusted \in Int
      /\ RowCheck(recv[r])
  BY <1>1, RowType DEF Ledger, StatusMatchesAmounts
<1>5. StatusMatchesAmounts'
  <2>1. RowCheck(t.row)
    BY <1>1, <1>3, <1>4 DEF RowCheck
  <2> QED
    BY <1>2, <2>1 DEF Ledger, StatusMatchesAmounts
<1>7. /\ x \in NotReversed
      /\ NotReversed' = NotReversed \ {x}
      /\ \A y \in NotReversed \ {x} : pmt'[y].amount = pmt[y].amount
  BY <1>1, <1>2, <1>3 DEF NotReversed
<1>8. \A s \in Receivables :
        /\ x \in LivePayments(s) <=> s = r
        /\ LivePayments(s)' = IF s = r THEN LivePayments(s) \ {x} ELSE LivePayments(s)
        /\ \A y \in LivePayments(s) \ {x} : pmt'[y].amount = pmt[y].amount
  BY <1>1, <1>2, <1>3 DEF LivePayments
<1>9. /\ pmt \in PaymentRows /\ pmt' \in PaymentRows
      /\ recv \in ReceivableRows /\ recv' \in ReceivableRows
  BY LedgerTypes DEF TypeOK, PaymentRows, ReceivableRows
<1>10. PaidInSum'
  <2> SUFFICES ASSUME NEW s \in Receivables
               PROVE  recv'[s].paid = SumOf(AmountOf(pmt'), LivePayments(s)')
    BY DEF PaidInSum
  <2>1. recv[s].paid = SumOf(AmountOf(pmt), LivePayments(s))
    BY DEF Ledger, PaidInSum
  <2>2. CASE s = r
    <3>1. /\ LivePayments(s) \in SUBSET Payments
          /\ x \in LivePayments(s)
          /\ \A y \in LivePayments(s) \ {x} : pmt'[y].amount = pmt[y].amount
      BY <1>8, <2>2, LiveIsPayments
    <3>2. SumOf(AmountOf(pmt'), LivePayments(s) \ {x})
            = SumOf(AmountOf(pmt), LivePayments(s)) - pmt[x].amount
      <4> HIDE DEF x
      <4> QED
        BY <1>9, <3>1, SumWithout, ZenonT(60)
    <3> QED
      BY <1>1, <1>2, <1>3, <1>8, <2>1, <2>2, <3>2
  <2>3. CASE s # r
    <3>1. SumOf(AmountOf(pmt'), LivePayments(s)) = SumOf(AmountOf(pmt), LivePayments(s))
      <4>1. /\ LivePayments(s) \in SUBSET Payments
            /\ \A y \in LivePayments(s) : pmt'[y].amount = pmt[y].amount
        BY <1>8, <2>3, LiveIsPayments
      <4> QED
        BY <1>9, <4>1, SameAmounts
    <3> QED
      BY <1>2, <1>8, <2>1, <2>3, <3>1
  <2> QED
    BY <2>2, <2>3
<1>11. CashInSum'
  <2>1. SumOf(AmountOf(pmt'), NotReversed \ {x})
          = SumOf(AmountOf(pmt), NotReversed) - pmt[x].amount
    <3> HIDE DEF x
    <3> QED
      BY <1>7, <1>9, LiveIsPayments, SumWithout, ZenonT(60)
  <2>2. SumOf(PaidOf(recv'), Receivables)
          = SumOf(PaidOf(recv), Receivables) + recv'[r].paid - recv[r].paid
    BY <1>1, <1>2, <1>9, PaidChange
  <2>3. SumOf(PaidOf(recv), Receivables) \in Int
    BY LedgerTypes
  <2>4. SumOf(AmountOf(pmt'), NotReversed') = SumOf(PaidOf(recv'), Receivables)
    BY <1>1, <1>2, <1>3, <1>4, <1>7, <2>1, <2>2, <2>3 DEF Ledger, CashInSum
  <2> QED
    BY <2>4 DEF CashInSum
<1>12. CorrectedInSum'
  BY CommitCorrected
<1> QED
  BY <1>5, <1>10, <1>11, <1>12 DEF Ledger

LEMMA CancelLedger ==
  ASSUME TypeOK, TypeOK', Ledger, NEW t \in WriteState, Cancelling(t),
         recv' = [recv EXCEPT ![t.recv] = t.row], UNCHANGED pmt
  PROVE  Ledger'
<1> DEFINE r == t.recv
<1>1. r \in Receivables /\ recv[r] \in ReceivableRow
  BY WriteType DEF TypeOK
<1>2. /\ recv'[r] = t.row
      /\ \A s \in Receivables \ {r} : recv'[s] = recv[s]
  BY <1>1 DEF TypeOK
<1>3. /\ t.row.paid = recv[r].paid /\ recv[r].paid = 0
      /\ t.row.adjusted = recv[r].adjusted
      /\ t.row.status = "CANCELADO"
  BY <1>1 DEF Cancelling, ReceivableRow
<1>4. StatusMatchesAmounts'
  <2>1. RowCheck(recv[r])
    BY <1>1 DEF Ledger, StatusMatchesAmounts
  <2>2. RowCheck(t.row)
    BY <1>3, <2>1 DEF RowCheck
  <2> QED
    BY <1>2, <2>2 DEF Ledger, StatusMatchesAmounts
<1>5. \A s \in Receivables : recv'[s].paid = recv[s].paid
  BY <1>2, <1>3
<1>6. PaidInSum' /\ CashInSum'
  BY <1>5, LedgerSamePaid
<1> QED
  BY <1>4, <1>6, CommitCorrected DEF Ledger

LEMMA DistratoLedger ==
  ASSUME TypeOK, TypeOK', Ledger, UNCHANGED pmt,
         \A r \in Receivables : recv[r].paid = 0,
         recv' = [r \in Receivables |-> [recv[r] EXCEPT !.status = "CANCELADO"]]
  PROVE  Ledger'
<1>1. \A r \in Receivables :
        /\ recv'[r].status = "CANCELADO"
        /\ recv'[r].paid = recv[r].paid
        /\ recv'[r].adjusted = recv[r].adjusted
        /\ recv'[r].original = recv[r].original
        /\ recv'[r].applied = recv[r].applied
  BY DEF TypeOK, ReceivableRow
<1>2. PaidInSum' /\ CashInSum'
  BY <1>1, LedgerSamePaid
<1>3. CorrectedInSum'
  <2>1. \A r \in Receivables : Corrections(recv'[r]) = Corrections(recv[r])
    BY <1>1 DEF Corrections
  <2> QED
    BY <1>1, <2>1 DEF Ledger, CorrectedInSum
<1>4. StatusMatchesAmounts'
  BY <1>1 DEF Ledger, StatusMatchesAmounts, RowCheck
<1> QED
  BY <1>2, <1>3, <1>4 DEF Ledger

LEMMA CorrectedSum ==
  ASSUME NEW f, NEW new, NEW S \in SUBSET Periods, NEW p, p \notin S,
         \A k \in S : f[k] \in Int, \A k \in S : new[k] = f[k], new[p] \in Int
  PROVE  /\ SumOf(new, S \cup {p}) = SumOf(f, S) + new[p]
         /\ SumOf(f, S) \in Int
<1>1. IsFiniteSet(S)
  BY FiniteRows, FS_Subset
<1>2. SumOf(f, S) \in Int
  BY <1>1, SumType
<1>3. SumOf(new, S \cup {p}) = SumOf(f, S) + new[p]
  BY <1>1, SumExtend
<1> QED
  BY <1>2, <1>3

LEMMA ApplyLedger ==
  ASSUME TypeOK, TypeOK', Ledger, UNCHANGED pmt, NEW r \in Receivables,
         NEW p \in Periods, NEW a \in Int, recv[r].applied[p] = Null, NEW row,
         row = [recv[r] EXCEPT !.adjusted = a, !.applied[p] = a - recv[r].adjusted],
         RowCheck(row), recv' = [recv EXCEPT ![r] = row]
  PROVE  Ledger'
<1>1. recv[r] \in ReceivableRow
  BY DEF TypeOK
<1>2. /\ row.paid = recv[r].paid
      /\ row.original = recv[r].original
      /\ row.adjusted = a
      /\ row.applied = [recv[r].applied EXCEPT ![p] = a - recv[r].adjusted]
  BY <1>1 DEF ReceivableRow
<1>3. /\ recv'[r] = row
      /\ \A s \in Receivables \ {r} : recv'[s] = recv[s]
  BY DEF TypeOK
<1>4. PaidInSum' /\ CashInSum'
  <2>1. \A s \in Receivables : recv'[s].paid = recv[s].paid
    BY <1>2, <1>3
  <2> QED
    BY <2>1, LedgerSamePaid
<1>5. StatusMatchesAmounts'
  BY <1>3 DEF Ledger, StatusMatchesAmounts
<1>6. row.adjusted = row.original + SumOf(row.applied, Corrections(row))
  <2>1. recv[r].adjusted \in Int /\ recv[r].original \in Int /\ a - recv[r].adjusted \in Int
    BY <1>1, RowType
  <2>2. recv[r].adjusted
          = recv[r].original + SumOf(recv[r].applied, Corrections(recv[r]))
    BY DEF Ledger, CorrectedInSum
  <2>3. /\ Corrections(row) = Corrections(recv[r]) \cup {p}
        /\ SumOf(row.applied, Corrections(recv[r]) \cup {p})
             = SumOf(recv[r].applied, Corrections(recv[r])) + (a - recv[r].adjusted)
        /\ SumOf(recv[r].applied, Corrections(recv[r])) \in Int
    <3> DEFINE f == recv[r].applied
               new == row.applied
               S == Corrections(recv[r])
    <3>1. f \in [Periods -> Int \cup {Null}] /\ Null \notin Int
      BY <1>1, RowType, DayAssumption
    <3>2. /\ new[p] = a - recv[r].adjusted
          /\ \A k \in Periods \ {p} : new[k] = f[k]
      BY <1>2, <3>1
    <3>3. /\ S \in SUBSET Periods
          /\ p \notin S
          /\ \A k \in S : f[k] \in Int
          /\ \A k \in S : new[k] = f[k]
      BY <3>1, <3>2 DEF Corrections
    <3>4. Corrections(row) = S \cup {p}
      <4>1. \A k \in Periods : new[k] # Null <=> k \in S \cup {p}
        BY <2>1, <3>1, <3>2 DEF Corrections
      <4> QED
        BY <3>3, <4>1 DEF Corrections
    <3>5. /\ SumOf(new, S \cup {p}) = SumOf(f, S) + new[p]
          /\ SumOf(f, S) \in Int
      <4>1. new[p] \in Int
        BY <2>1, <3>2
      <4> HIDE DEF f, new, S
      <4> QED
        BY <3>3, <4>1, CorrectedSum
    <3> QED
      BY <3>2, <3>4, <3>5
  <2>4. SumOf(row.applied, Corrections(row))
          = SumOf(recv[r].applied, Corrections(recv[r])) + (a - recv[r].adjusted)
    BY <2>3
  <2>5. \A o, u, w \in Int : w = o + u => a = o + (u + (a - w))
    OBVIOUS
  <2> QED
    BY <1>2, <2>1, <2>2, <2>3, <2>4, <2>5
<1>7. CorrectedInSum'
  BY <1>3, <1>6 DEF Ledger, CorrectedInSum
<1> QED
  BY <1>4, <1>5, <1>7 DEF Ledger

-----------------------------------------------------------------------------
(* The sale follows the statuses of its receivables.                       *)

LEMMA SettledByStatuses ==
  ASSUME NEW st, \A r \in Receivables : recv[r].status = st[r]
  PROVE  SettledWhenAllPaid <=>
           (sale # "DISTRATADA" => (sale = "QUITADA" <=> AllPaid(st)))
BY DEF SettledWhenAllPaid, AllPaid

LEMMA SettledByStatusesNext ==
  ASSUME NEW st, \A r \in Receivables : recv'[r].status = st[r]
  PROVE  SettledWhenAllPaid' <=>
           (sale' # "DISTRATADA" => (sale' = "QUITADA" <=> AllPaid(st)))
BY DEF SettledWhenAllPaid, AllPaid

LEMMA SaleSame ==
  ASSUME SettledWhenAllPaid, RescindedIsCancelled, UNCHANGED sale,
         \A r \in Receivables : recv'[r].status = recv[r].status
  PROVE  SettledWhenAllPaid' /\ RescindedIsCancelled'
<1> DEFINE st == [r \in Receivables |-> recv[r].status]
<1>1. \A r \in Receivables : recv[r].status = st[r] /\ recv'[r].status = st[r]
  OBVIOUS
<1> HIDE DEF st
<1>2. SettledWhenAllPaid'
  BY <1>1, SettledByStatuses, SettledByStatusesNext
<1>3. RescindedIsCancelled'
  BY DEF RescindedIsCancelled
<1> QED
  BY <1>2, <1>3

\* A handler never holds a receivable that was cancelled.
LEMMA WrittenIsOpen ==
  ASSUME TypeOK, Ledger, NEW t \in WriteState,
         Recording(t) \/ Reversing(t) \/ Cancelling(t)
  PROVE  t.recv \in Receivables /\ recv[t.recv].status # "CANCELADO"
<1>1. t.recv \in Receivables
  BY WriteType
<1>2. CASE Recording(t)
  BY <1>1, <1>2 DEF Recording
<1>3. CASE Reversing(t)
  <2>1. recv[t.recv] \in ReceivableRow /\ RowCheck(recv[t.recv])
    BY <1>1 DEF TypeOK, Ledger, StatusMatchesAmounts
  <2>2. recv[t.recv].paid \in Int
    BY <2>1, RowType
  <2>3. pmt[t.pmt].amount \in Nat \ {0}
    BY <1>3, PaymentType, PayType DEF Reversing
  <2>4. recv[t.recv].paid - pmt[t.pmt].amount >= 0
    BY <1>3 DEF Reversing
  <2> QED
    BY <1>1, <2>1, <2>2, <2>3, <2>4 DEF RowCheck
<1>4. CASE Cancelling(t)
  BY <1>1, <1>4 DEF Cancelling
<1> QED
  BY <1>2, <1>3, <1>4

LEMMA CommitSale ==
  ASSUME TypeOK, Ledger, RescindedIsCancelled, NEW t \in WriteState,
         Recording(t) \/ Reversing(t) \/ Cancelling(t),
         recv' = [recv EXCEPT ![t.recv] = t.row],
         sale' = Follows(sale, StatusesWith(t))
  PROVE  SettledWhenAllPaid' /\ RescindedIsCancelled'
<1>1. t.recv \in Receivables /\ sale # "DISTRATADA"
  BY WrittenIsOpen DEF RescindedIsCancelled
<1>2. \A r \in Receivables : recv'[r].status = StatusesWith(t)[r]
  BY <1>1 DEF TypeOK, StatusesWith
<1>3. sale' = IF AllPaid(StatusesWith(t)) THEN "QUITADA" ELSE "ATIVA"
  BY <1>1 DEF Follows
<1>4. SettledWhenAllPaid'
  BY <1>2, <1>3, SettledByStatusesNext
<1>5. RescindedIsCancelled'
  BY <1>3 DEF RescindedIsCancelled
<1> QED
  BY <1>4, <1>5

-----------------------------------------------------------------------------
(* Locks.                                                                  *)

\* What a handler is about to write stays explained while the rows it locked
\* stay as they are.
LEMMA StillExplained ==
  ASSUME NEW q \in Requests, tx[q] \in WriteState, Explained(q), tx'[q] = tx[q],
         recv'[tx[q].recv] = recv[tx[q].recv],
         tx[q].pmt # Null =>
           /\ pmt'[tx[q].pmt] = pmt[tx[q].pmt]
           /\ \A e \in Entries : entry'[e].pmt = tx[q].pmt <=> entry[e].pmt = tx[q].pmt,
         tx[q].next # Null =>
           /\ sale' = sale
           /\ \A r \in Receivables : recv'[r].status = recv[r].status
  PROVE  Explained(q)'
<1>1. tx[q].pmt \in Payments => tx[q].pmt # Null
  BY NullAssumption
<1>2. Recording(tx[q]) => Recording(tx[q])'
  BY <1>1 DEF Recording
<1>3. Reversing(tx[q]) => Reversing(tx[q])'
  <2>1. tx[q].pmt \in Payments =>
          {e \in Entries : entry'[e].pmt = tx[q].pmt}
            = {e \in Entries : entry[e].pmt = tx[q].pmt}
    BY <1>1
  <2> SUFFICES ASSUME Reversing(tx[q]) PROVE Reversing(tx[q])'
    OBVIOUS
  <2>2. pmt'[tx[q].pmt] = pmt[tx[q].pmt]
    BY <1>1 DEF Reversing
  <2>3. tx'[q].unmatch = {e \in Entries : entry'[e].pmt = tx'[q].pmt}
    BY <2>1 DEF Reversing
  <2> QED
    BY <2>2, <2>3 DEF Reversing
<1>4. Cancelling(tx[q]) => Cancelling(tx[q])'
  BY DEF Cancelling
<1>5. tx[q].next # Null => tx'[q].next = Follows(sale', StatusesWith(tx[q])')
  <2>1. tx[q].next # Null => StatusesWith(tx[q])' = StatusesWith(tx[q])
    BY DEF StatusesWith
  <2> QED
    BY <2>1 DEF Explained
<1> QED
  BY <1>2, <1>3, <1>4, <1>5 DEF Explained

Becomes(q, x) == tx' = [tx EXCEPT ![q] = x]

TxStates == {Idle} \cup WriteState \cup DistratoState \cup ApplyState

LEMMA BecomesType ==
  ASSUME TypeOK, NEW q \in Requests, NEW x \in TxStates, Becomes(q, x)
  PROVE  /\ tx' \in [Requests -> TxStates]
         /\ tx'[q] = x
         /\ \A p \in Requests \ {q} : tx'[p] = tx[p]
<1>1. tx \in [Requests -> TxStates]
  BY DEF TypeOK, TxStates
<1> HIDE DEF TxStates
<1> QED
  BY <1>1 DEF Becomes

\* A handler begins, or goes on, with its locks apart from those of others.
LEMMA WriterStep ==
  ASSUME TypeOK, LocksHold, NEW q \in Requests, NEW x \in WriteState, Becomes(q, x),
         UNCHANGED <<sale, recv, pmt, entry>>,
         Recording(x) \/ Reversing(x) \/ Cancelling(x),
         x.next # Null => x.next = Follows(sale, StatusesWith(x)),
         \A p \in Writers \ {q} :
           /\ tx[p].recv # x.recv
           /\ x.pmt # Null => tx[p].pmt # x.pmt
           /\ x.next # Null => tx[p].next = Null
           /\ tx[p].next # Null => x.next = Null
  PROVE  LocksHold'
<1>1. x \in TxStates /\ x.op = "write"
  BY DEF TxStates, WriteState
<1>2. /\ tx'[q] = x
      /\ \A p \in Requests \ {q} : tx'[p] = tx[p]
  BY <1>1, BecomesType
<1>3. Writers' = Writers \cup {q}
  BY <1>1, <1>2 DEF Writers
<1>4. Explained(q)'
  <2>1. (Recording(x) \/ Reversing(x) \/ Cancelling(x))'
    BY DEF Recording, Reversing, Cancelling
  <2>2. StatusesWith(x)' = StatusesWith(x)
    BY DEF StatusesWith
  <2>3. x.next # Null => x.next = Follows(sale', StatusesWith(x)')
    BY <2>2
  <2> QED
    BY <1>2, <2>1, <2>3 DEF Explained, Recording, Reversing, Cancelling, StatusesWith
<1>5. \A p \in Writers \ {q} : Explained(p)'
  <2> TAKE p \in Writers \ {q}
  <2>1. p \in Requests /\ tx[p] \in WriteState /\ Explained(p) /\ tx'[p] = tx[p]
    BY <1>2, WriterType DEF LocksHold
  <2> QED
    BY <2>1, StillExplained
<1>6. \A p1, p2 \in Writers' : p1 # p2 => Apart(p1, p2)'
  <2> SUFFICES ASSUME NEW p1 \in Writers', NEW p2 \in Writers', p1 # p2
               PROVE  Apart(p1, p2)'
    OBVIOUS
  <2>1. CASE p1 = q
    <3>1. p2 \in Writers \ {q} /\ tx'[p1] = x /\ tx'[p2] = tx[p2]
      BY <1>2, <1>3, <2>1 DEF Writers
    <3> QED
      BY <3>1 DEF Apart
  <2>2. CASE p2 = q
    <3>1. p1 \in Writers \ {q} /\ tx'[p2] = x /\ tx'[p1] = tx[p1]
      BY <1>2, <1>3, <2>2 DEF Writers
    <3> QED
      BY <3>1 DEF Apart
  <2>3. CASE p1 # q /\ p2 # q
    <3>1. p1 \in Writers /\ p2 \in Writers /\ tx'[p1] = tx[p1] /\ tx'[p2] = tx[p2]
      BY <1>2, <1>3, <2>3 DEF Writers
    <3>2. Apart(p1, p2)
      BY <3>1 DEF LocksHold
    <3> QED
      BY <3>1, <3>2 DEF Apart
  <2> QED
    BY <2>1, <2>2, <2>3
<1> QED
  BY <1>3, <1>4, <1>5, <1>6 DEF LocksHold

\* Request q is no handler any more, or is none yet; the others stay explained.
LEMMA OtherStep ==
  ASSUME TypeOK, LocksHold, NEW q \in Requests, NEW x \in TxStates, x.op # "write",
         Becomes(q, x),
         \A p \in Writers \ {q} : Explained(p)'
  PROVE  LocksHold'
<1>1. /\ tx'[q] = x
      /\ \A p \in Requests \ {q} : tx'[p] = tx[p]
  BY BecomesType
<1>2. Writers' = Writers \ {q}
  BY <1>1 DEF Writers
<1>3. \A p1, p2 \in Writers' : p1 # p2 => Apart(p1, p2)'
  <2> SUFFICES ASSUME NEW p1 \in Writers', NEW p2 \in Writers', p1 # p2
               PROVE  Apart(p1, p2)'
    OBVIOUS
  <2>1. p1 \in Writers /\ p2 \in Writers /\ tx'[p1] = tx[p1] /\ tx'[p2] = tx[p2]
    BY <1>1, <1>2 DEF Writers
  <2>2. Apart(p1, p2)
    BY <2>1 DEF LocksHold
  <2> QED
    BY <2>1, <2>2 DEF Apart
<1> QED
  BY <1>2, <1>3 DEF LocksHold

\* Nobody's requests change, and every handler stays explained.
LEMMA SameRequests ==
  ASSUME LocksHold, UNCHANGED tx, \A p \in Writers : Explained(p)'
  PROVE  LocksHold'
<1>1. Writers' = Writers
  BY DEF Writers
<1>2. \A p1, p2 \in Writers : Apart(p1, p2) => Apart(p1, p2)'
  BY DEF Apart
<1> QED
  BY <1>1, <1>2 DEF LocksHold

\* Rows that no handler locked may change, the statuses may not.
LEMMA ExplainedWhile ==
  ASSUME TypeOK, LocksHold, NEW q \in Requests, NEW x \in TxStates, Becomes(q, x),
         UNCHANGED <<sale, pmt, entry>>,
         \A p \in Writers \ {q} : recv'[tx[p].recv] = recv[tx[p].recv],
         \A r \in Receivables : recv'[r].status = recv[r].status
  PROVE  \A p \in Writers \ {q} : Explained(p)'
<1> TAKE p \in Writers \ {q}
<1>1. p \in Requests /\ tx[p] \in WriteState /\ Explained(p) /\ tx'[p] = tx[p]
  BY WriterType, BecomesType DEF LocksHold
<1> QED
  BY <1>1, StillExplained

-----------------------------------------------------------------------------
(* Steps that only change what a request holds.                            *)

LEMMA SnapshotStep ==
  ASSUME TypeOK, SnapshotsChecked, NEW q \in Requests, NEW x \in TxStates, Becomes(q, x),
         x.op = "distrato" => \A r \in Receivables : x.seen[r].paid = 0,
         x.op = "apply" => x.seen.applied[x.period] = Null /\ x.seen.status # "CANCELADO"
  PROVE  SnapshotsChecked'
<1>1. /\ tx'[q] = x
      /\ \A p \in Requests \ {q} : tx'[p] = tx[p]
  BY BecomesType
<1> QED
  BY <1>1 DEF SnapshotsChecked

LEMMA RowsSame ==
  ASSUME IInv, UNCHANGED <<sale, recv, pmt, entry>>
  PROVE  Ledger' /\ SettledWhenAllPaid' /\ RescindedIsCancelled' /\ ReconciledIsLive'
<1>1. ReconciledIsLive'
  BY DEF IInv, ReconciledIsLive
<1> QED
  BY <1>1, LedgerSame, SaleSame DEF IInv

LEMMA TxTypeOK ==
  ASSUME TypeOK, NEW q \in Requests, NEW x \in TxStates, Becomes(q, x),
         UNCHANGED <<sale, recv, pmt, entry>>
  PROVE  TypeOK'
BY BecomesType DEF TypeOK, TxStates

LEMMA WriterInv ==
  ASSUME IInv, NEW q \in Requests, NEW x \in WriteState, Becomes(q, x),
         UNCHANGED <<sale, recv, pmt, entry>>,
         Recording(x) \/ Reversing(x) \/ Cancelling(x),
         x.next # Null => x.next = Follows(sale, StatusesWith(x)),
         \A p \in Writers \ {q} :
           /\ tx[p].recv # x.recv
           /\ x.pmt # Null => tx[p].pmt # x.pmt
           /\ x.next # Null => tx[p].next = Null
           /\ tx[p].next # Null => x.next = Null
  PROVE  IInv'
<1>1. x \in TxStates /\ x.op = "write"
  BY DEF TxStates, WriteState
<1>2. TypeOK'
  BY <1>1, TxTypeOK DEF IInv
<1>3. SnapshotsChecked'
  BY <1>1, SnapshotStep DEF IInv
<1>4. LocksHold'
  BY WriterStep DEF IInv
<1> QED
  BY <1>2, <1>3, <1>4, RowsSame DEF IInv

LEMMA QuietInv ==
  ASSUME IInv, NEW q \in Requests, NEW x \in TxStates, x.op # "write", Becomes(q, x),
         UNCHANGED <<sale, recv, pmt, entry>>,
         x.op = "distrato" => \A r \in Receivables : x.seen[r].paid = 0,
         x.op = "apply" => x.seen.applied[x.period] = Null /\ x.seen.status # "CANCELADO"
  PROVE  IInv'
<1>1. TypeOK'
  BY TxTypeOK DEF IInv
<1>2. SnapshotsChecked'
  BY SnapshotStep DEF IInv
<1>3. LocksHold'
  BY ExplainedWhile, OtherStep DEF IInv
<1> QED
  BY <1>1, <1>2, <1>3, RowsSame DEF IInv

\* What Begin writes in `tx' is a handler's state.
LEMMA BeginState ==
  ASSUME NEW r \in Receivables, NEW row \in ReceivableRow, NEW x \in Payments \cup {Null},
         NEW pay \in PaymentRow \cup {AbsentPayment}, NEW unmatch \in SUBSET Entries
  PROVE  [op |-> "write", recv |-> r, row |-> row, pmt |-> x, pay |-> pay,
          unmatch |-> unmatch, next |-> Null] \in WriteState
BY DEF WriteState

LEMMA BeginInv ==
  ASSUME IInv, NEW q \in Requests, NEW r \in Receivables, NEW row \in ReceivableRow,
         NEW x \in Payments \cup {Null}, NEW pay \in PaymentRow \cup {AbsentPayment},
         NEW unmatch \in SUBSET Entries, Begin(q, r, row, x, pay, unmatch),
         x # Null => PaymentUnlocked(x),
         NEW t \in WriteState,
         t = [op |-> "write", recv |-> r, row |-> row, pmt |-> x, pay |-> pay,
              unmatch |-> unmatch, next |-> Null],
         Recording(t) \/ Reversing(t) \/ Cancelling(t)
  PROVE  IInv'
<1>1. t.recv = r /\ t.pmt = x /\ t.next = Null
  OBVIOUS
<1>2. Becomes(q, t) /\ UNCHANGED <<sale, recv, pmt, entry>> /\ Unlocked(r)
  BY DEF Begin, Becomes
<1>3. \A p \in Writers \ {q} :
        /\ tx[p].recv # t.recv
        /\ t.pmt # Null => tx[p].pmt # t.pmt
  BY <1>1, <1>2 DEF Unlocked, PaymentUnlocked
<1> QED
  BY <1>1, <1>2, <1>3, WriterInv

-----------------------------------------------------------------------------
(* The operations.                                                         *)

LEMMA RecordPaymentInv ==
  ASSUME IInv, NEW q \in Requests, NEW r \in Receivables, NEW x \in Payments,
         NEW amount \in Amounts, RecordPayment(q, r, x, amount)
  PROVE  IInv'
<1> DEFINE paid == recv[r].paid + amount
<1> PICK row : row = [recv[r] EXCEPT
                        !.paid = paid,
                        !.status = IF paid = recv[r].adjusted THEN "PAGO" ELSE "PARCIAL"]
  OBVIOUS
<1> PICK pay : pay = [status |-> "LIVE", recv |-> r, amount |-> amount]
  OBVIOUS
<1> PICK t : t = [op |-> "write", recv |-> r, row |-> row, pmt |-> x, pay |-> pay,
                  unmatch |-> {}, next |-> Null]
  OBVIOUS
<1>0. TypeOK /\ recv[r] \in ReceivableRow
  BY DEF IInv, TypeOK
<1>1. row \in ReceivableRow
  <2>1. paid \in Int
    BY <1>0, RowType, AmountAssumption
  <2> QED
    BY <1>0, <2>1 DEF ReceivableRow
<1>2. pay \in PaymentRow
  BY DEF PaymentRow
<1>3. t \in WriteState
  BY <1>1, <1>2, BeginState
<1>4. /\ Begin(q, r, row, x, pay, {})
      /\ PaymentUnlocked(x)
      /\ recv[r].status \in {"PENDENTE", "PARCIAL"}
      /\ amount <= Balance(recv[r])
      /\ pmt[x].status = "ABSENT"
  BY DEF RecordPayment
<1>5. Recording(t)
  <2>1. pmt[x] = AbsentPayment
    BY <1>0, <1>4, PaymentType
  <2>2. /\ t.pmt = x /\ t.recv = r /\ t.row = row /\ t.pay = pay /\ t.unmatch = {}
        /\ pay.status = "LIVE" /\ pay.recv = r /\ pay.amount = amount
    OBVIOUS
  <2> QED
    BY <1>2, <1>4, <2>1, <2>2 DEF Recording
<1> QED
  BY <1>1, <1>2, <1>3, <1>4, <1>5, BeginInv

LEMMA ReversePaymentInv ==
  ASSUME IInv, NEW q \in Requests, NEW x \in Payments, ReversePayment(q, x)
  PROVE  IInv'
<1> DEFINE r == pmt[x].recv
           paid == recv[r].paid - pmt[x].amount
           unmatch == {e \in Entries : entry[e].pmt = x}
<1>0. /\ TypeOK
      /\ pmt[x].status = "LIVE"
      /\ pmt[x] \in PaymentRow
      /\ r \in Receivables
      /\ recv[r] \in ReceivableRow
      /\ paid >= 0
  BY PaymentType, PayType DEF ReversePayment, IInv, TypeOK
<1> PICK row : row = [recv[r] EXCEPT
                        !.paid = paid,
                        !.status = IF paid = 0 THEN "PENDENTE" ELSE "PARCIAL"]
  OBVIOUS
<1> PICK pay : pay = [pmt[x] EXCEPT !.status = "REVERSED"]
  OBVIOUS
<1> PICK t : t = [op |-> "write", recv |-> r, row |-> row, pmt |-> x, pay |-> pay,
                  unmatch |-> unmatch, next |-> Null]
  OBVIOUS
<1>1. row \in ReceivableRow
  <2>1. paid \in Int
    BY <1>0, RowType, PayType
  <2> QED
    BY <1>0, <2>1 DEF ReceivableRow
<1>2. pay \in PaymentRow
  BY <1>0 DEF PaymentRow
<1>3. t \in WriteState
  BY <1>0, <1>1, <1>2, BeginState
<1>4. Begin(q, r, row, x, pay, unmatch)
  BY DEF ReversePayment
<1>5. Reversing(t)
  <2>1. t.pmt = x /\ t.recv = r /\ t.row = row /\ t.pay = pay /\ t.unmatch = unmatch
    OBVIOUS
  <2> QED
    BY <1>0, <2>1 DEF Reversing
<1>6. PaymentUnlocked(x)
  <2> SUFFICES ASSUME NEW p \in Writers, tx[p].pmt = x PROVE FALSE
    BY DEF PaymentUnlocked
  <2>1. /\ Recording(tx[p]) \/ Reversing(tx[p]) \/ Cancelling(tx[p])
        /\ tx[p].recv # r
    BY <1>4 DEF IInv, LocksHold, Explained, Begin, Unlocked
  <2>2. CASE Recording(tx[p])
    BY <1>0, <2>2 DEF Recording, AbsentPayment
  <2>3. CASE Reversing(tx[p])
    BY <2>1, <2>3 DEF Reversing
  <2>4. CASE Cancelling(tx[p])
    BY <2>4, NullAssumption DEF Cancelling
  <2> QED
    BY <2>1, <2>2, <2>3, <2>4
<1> HIDE DEF unmatch, r, paid
<1>7. unmatch \in SUBSET Entries
  BY DEF unmatch
<1> QED
  BY <1>0, <1>1, <1>2, <1>3, <1>4, <1>5, <1>6, <1>7, BeginInv

LEMMA CancelReceivableInv ==
  ASSUME IInv, NEW q \in Requests, NEW r \in Receivables, CancelReceivable(q, r)
  PROVE  IInv'
<1> PICK row : row = [recv[r] EXCEPT !.status = "CANCELADO"]
  OBVIOUS
<1> PICK t : t = [op |-> "write", recv |-> r, row |-> row, pmt |-> Null,
                  pay |-> AbsentPayment, unmatch |-> {}, next |-> Null]
  OBVIOUS
<1>0. TypeOK /\ recv[r] \in ReceivableRow
  BY DEF IInv, TypeOK
<1>1. row \in ReceivableRow
  BY <1>0 DEF ReceivableRow
<1>2. t \in WriteState
  BY <1>1, BeginState
<1>3. /\ Begin(q, r, row, Null, AbsentPayment, {})
      /\ recv[r].status # "CANCELADO"
      /\ recv[r].paid = 0
  BY DEF CancelReceivable
<1>4. Cancelling(t)
  BY <1>3 DEF Cancelling
<1> QED
  BY <1>1, <1>2, <1>3, <1>4, BeginInv

LEMMA SyncSaleStatusInv ==
  ASSUME IInv, NEW q \in Requests, SyncSaleStatus(q)
  PROVE  IInv'
<1> DEFINE t == tx[q]
           next == Follows(sale, StatusesWith(t))
<1> PICK x : x = [tx[q] EXCEPT !.next = next]
  OBVIOUS
<1>0. /\ TypeOK
      /\ q \in Writers
      /\ t \in WriteState
      /\ t.recv \in Receivables
      /\ t.next = Null
      /\ UNCHANGED <<sale, recv, pmt, entry>>
      /\ \A p \in Writers \ {q} : tx[p].next = Null
  BY WriterType, WriteType DEF IInv, SyncSaleStatus, Writers, SaleUnlocked
<1>1. next \in SaleStatuses
  BY <1>0 DEF Follows, SaleStatuses, TypeOK
<1>2. /\ x \in WriteState
      /\ x.recv = t.recv /\ x.row = t.row /\ x.pmt = t.pmt /\ x.pay = t.pay
      /\ x.unmatch = t.unmatch /\ x.next = next
  BY <1>0, <1>1 DEF WriteState
<1>3. Becomes(q, x)
  <2> DEFINE rows == [recv EXCEPT ![tx[q].recv] = tx[q].row]
             open == {r \in Receivables : rows[r].status # "CANCELADO"}
             settled == open # {} /\ \A r \in open : rows[r].status = "PAGO"
  <2>1. tx' = [tx EXCEPT ![q].next = IF sale = "DISTRATADA" THEN sale
                                     ELSE IF settled THEN "QUITADA" ELSE "ATIVA"]
    BY DEF SyncSaleStatus
  <2>2. \A r \in Receivables : rows[r].status = StatusesWith(t)[r]
    BY <1>0 DEF StatusesWith, TypeOK
  <2>3. settled <=> AllPaid(StatusesWith(t))
    <3> HIDE DEF rows
    <3> QED
      BY <2>2 DEF AllPaid
  <2>4. tx' = [tx EXCEPT ![q].next = next]
    BY <2>1, <2>3 DEF Follows
  <2> HIDE DEF next
  <2> QED
    BY <2>4 DEF Becomes
<1>4. Recording(x) \/ Reversing(x) \/ Cancelling(x)
  <2>1. Recording(t) \/ Reversing(t) \/ Cancelling(t)
    BY <1>0 DEF IInv, LocksHold, Explained
  <2> QED
    BY <1>2, <2>1 DEF Recording, Reversing, Cancelling
<1>5. x.next = Follows(sale, StatusesWith(x))
  BY <1>2 DEF StatusesWith
<1>6. \A p \in Writers \ {q} :
        /\ tx[p].recv # x.recv
        /\ x.pmt # Null => tx[p].pmt # x.pmt
        /\ x.next # Null => tx[p].next = Null
        /\ tx[p].next # Null => x.next = Null
  BY <1>0, <1>2 DEF IInv, LocksHold, Apart
<1> HIDE DEF t, next
<1> QED
  BY <1>0, <1>2, <1>3, <1>4, <1>5, <1>6, WriterInv

LEMMA RollbackInv ==
  ASSUME IInv, NEW q \in Requests, Rollback(q)
  PROVE  IInv'
<1>1. Idle \in TxStates /\ Idle.op = "idle"
  BY DEF TxStates, Idle
<1> QED
  BY <1>1, QuietInv DEF Rollback, Becomes

LEMMA ReadDistratoInv ==
  ASSUME IInv, NEW q \in Requests, ReadDistrato(q)
  PROVE  IInv'
<1> PICK x : x = [op |-> "distrato", sale |-> sale, seen |-> recv]
  OBVIOUS
<1>1. x \in TxStates
  BY DEF TxStates, DistratoState, IInv, TypeOK
<1>2. x.op = "distrato" /\ \A r \in Receivables : x.seen[r].paid = 0
  BY DEF ReadDistrato
<1>3. Becomes(q, x) /\ UNCHANGED <<sale, recv, pmt, entry>>
  BY DEF ReadDistrato, Becomes
<1> QED
  BY <1>1, <1>2, <1>3, QuietInv

LEMMA ReadApplyInv ==
  ASSUME IInv, NEW q \in Requests, NEW r \in Receivables, NEW period \in Periods,
         ReadApply(q, r, period)
  PROVE  IInv'
<1>1. PICK factor \in Factors[period] :
        tx' = [tx EXCEPT ![q] = [op |-> "apply", recv |-> r, period |-> period,
                                 adjusted |-> Corrected(recv[r].adjusted, factor),
                                 seen |-> recv[r]]]
  BY DEF ReadApply
<1> PICK adjusted : adjusted = Corrected(recv[r].adjusted, factor)
  OBVIOUS
<1> PICK x : x = [op |-> "apply", recv |-> r, period |-> period, adjusted |-> adjusted,
                  seen |-> recv[r]]
  OBVIOUS
<1>2. recv[r] \in ReceivableRow
  BY DEF IInv, TypeOK
<1>3. adjusted \in Int
  BY <1>2, RowType, CorrectedType
<1>4. x \in TxStates
  BY <1>2, <1>3 DEF TxStates, ApplyState
<1>5. /\ x.op = "apply"
      /\ x.seen.applied[x.period] = Null
      /\ x.seen.status # "CANCELADO"
  BY DEF ReadApply
<1>6. Becomes(q, x) /\ UNCHANGED <<sale, recv, pmt, entry>>
  BY <1>1 DEF ReadApply, Becomes
<1> QED
  BY <1>4, <1>5, <1>6, QuietInv

\* A line that changes only loses its match.
LEMMA ReconciledStep ==
  ASSUME ReconciledIsLive,
         \A e \in Entries :
           \/ entry'[e].status = "PENDENTE" /\ entry'[e].pmt = Null
           \/ entry'[e] = entry[e] /\ (entry[e].pmt # Null => pmt'[entry[e].pmt] = pmt[entry[e].pmt])
  PROVE  ReconciledIsLive'
<1> SUFFICES ASSUME NEW e \in Entries
             PROVE  /\ entry'[e].status = "CONCILIADO" <=> entry'[e].pmt # Null
                    /\ entry'[e].pmt # Null =>
                         /\ pmt'[entry'[e].pmt].status = "LIVE"
                         /\ pmt'[entry'[e].pmt].amount = entry'[e].amount
                         /\ \A f \in Entries \ {e} : entry'[f].pmt # entry'[e].pmt
  BY DEF ReconciledIsLive
<1>1. CASE entry'[e].status = "PENDENTE" /\ entry'[e].pmt = Null
  BY <1>1
<1>2. CASE entry'[e] = entry[e] /\ (entry[e].pmt # Null => pmt'[entry[e].pmt] = pmt[entry[e].pmt])
  <2>1. /\ entry[e].status = "CONCILIADO" <=> entry[e].pmt # Null
        /\ entry[e].pmt # Null =>
             /\ pmt[entry[e].pmt].status = "LIVE"
             /\ pmt[entry[e].pmt].amount = entry[e].amount
             /\ \A f \in Entries \ {e} : entry[f].pmt # entry[e].pmt
    BY DEF ReconciledIsLive
  <2>2. ASSUME entry[e].pmt # Null, NEW f \in Entries \ {e}
        PROVE  entry'[f].pmt # entry[e].pmt
    BY <2>1, <2>2
  <2> QED
    BY <1>2, <2>1, <2>2
<1> QED
  BY <1>1, <1>2

LEMMA CommitInv ==
  ASSUME IInv, NEW q \in Requests, Commit(q)
  PROVE  IInv'
<1> DEFINE t == tx[q]
           r == t.recv
           x == t.pmt
<1>0. /\ TypeOK
      /\ q \in Writers
      /\ t \in WriteState
      /\ r \in Receivables
      /\ t.row \in ReceivableRow
      /\ x \in Payments \cup {Null}
      /\ t.pay \in PaymentRow \cup {AbsentPayment}
      /\ t.next # Null
  BY WriterType, WriteType DEF IInv, Commit, Writers
<1>1. /\ Recording(t) \/ Reversing(t) \/ Cancelling(t)
      /\ t.next = Follows(sale, StatusesWith(t))
  BY <1>0 DEF IInv, LocksHold, Explained
<1>2. /\ recv' = [recv EXCEPT ![r] = t.row]
      /\ x = Null => pmt' = pmt
      /\ x # Null => pmt' = [pmt EXCEPT ![x] = t.pay]
      /\ sale' = t.next
      /\ Becomes(q, Idle)
      /\ \A e \in Entries : entry'[e] = IF e \in t.unmatch THEN Unmatched(entry[e])
                                        ELSE entry[e]
      /\ entry' \in [Entries -> {entry'[e] : e \in Entries}]
  BY DEF Commit, Becomes
<1>3. Idle \in TxStates /\ Idle.op = "idle"
  BY DEF TxStates, Idle
<1>4. \A e \in t.unmatch : e \in Entries /\ Reversing(t) /\ x # Null /\ entry[e].pmt = x
  BY <1>0, <1>1, NullAssumption DEF Recording, Reversing, Cancelling
<1>5. \A e \in Entries : e \in t.unmatch => entry[e] \in EntryRow
  BY <1>0, <1>4, EntryType DEF IInv, ReconciledIsLive
<1>6. \A e \in Entries :
        e \in t.unmatch =>
          /\ entry'[e] \in EntryRow
          /\ entry'[e].status = "PENDENTE"
          /\ entry'[e].pmt = Null
  BY <1>2, <1>5 DEF Unmatched, EntryRow
<1>7. TypeOK'
  <2>1. sale' \in SaleStatuses
    BY <1>0, <1>2, WriteType
  <2>2. recv' \in [Receivables -> ReceivableRow]
    BY <1>0, <1>2 DEF TypeOK
  <2>3. pmt' \in [Payments -> PaymentRow \cup {AbsentPayment}]
    BY <1>0, <1>2 DEF TypeOK
  <2>4. entry' \in [Entries -> EntryRow \cup {AbsentEntry}]
    <3>1. \A e \in Entries : entry'[e] \in EntryRow \cup {AbsentEntry}
      BY <1>0, <1>2, <1>6 DEF TypeOK
    <3> QED
      BY <1>2, <3>1
  <2>5. tx' \in [Requests -> TxStates]
    BY <1>0, <1>2, <1>3, BecomesType
  <2> QED
    BY <2>1, <2>2, <2>3, <2>4, <2>5 DEF TypeOK, TxStates
<1>8. Ledger'
  <2>1. CASE Recording(t)
    <3>1. pmt' = [pmt EXCEPT ![x] = t.pay]
      BY <1>2, <2>1, NullAssumption DEF Recording
    <3> HIDE DEF t
    <3> QED
      BY <1>0, <1>2, <1>7, <2>1, <3>1, RecordLedger DEF IInv
  <2>2. CASE Reversing(t)
    <3>1. pmt' = [pmt EXCEPT ![x] = t.pay]
      BY <1>2, <2>2, NullAssumption DEF Reversing
    <3> HIDE DEF t
    <3> QED
      BY <1>0, <1>2, <1>7, <2>2, <3>1, ReverseLedger DEF IInv
  <2>3. CASE Cancelling(t)
    <3>1. UNCHANGED pmt
      BY <1>2, <2>3 DEF Cancelling
    <3> HIDE DEF t
    <3> QED
      BY <1>0, <1>2, <1>7, <2>3, <3>1, CancelLedger DEF IInv
  <2> QED
    BY <1>1, <2>1, <2>2, <2>3
<1>9. SettledWhenAllPaid' /\ RescindedIsCancelled'
  <2>1. sale' = Follows(sale, StatusesWith(t))
    BY <1>1, <1>2
  <2> HIDE DEF t
  <2> QED
    BY <1>0, <1>1, <1>2, <2>1, CommitSale DEF IInv
<1>10. ReconciledIsLive'
  <2>1. ASSUME NEW e \in Entries, e \notin t.unmatch, entry[e].pmt # Null
        PROVE  pmt'[entry[e].pmt] = pmt[entry[e].pmt]
    <3>1. pmt[entry[e].pmt].status = "LIVE" /\ entry[e].pmt \in Payments
      BY <1>0, <2>1, EntryType DEF IInv, ReconciledIsLive
    <3>2. CASE Recording(t)
      <4>1. entry[e].pmt # x
        BY <3>1, <3>2 DEF Recording, AbsentPayment
      <4> QED
        BY <1>0, <1>2, <3>1, <4>1 DEF TypeOK
    <3>3. CASE Reversing(t)
      <4>1. entry[e].pmt # x
        BY <2>1, <3>3 DEF Reversing
      <4> QED
        BY <1>0, <1>2, <3>1, <4>1 DEF TypeOK
    <3>4. CASE Cancelling(t)
      BY <1>2, <3>4 DEF Cancelling
    <3> QED
      BY <1>1, <3>2, <3>3, <3>4
  <2>2. \A e \in Entries :
          \/ entry'[e].status = "PENDENTE" /\ entry'[e].pmt = Null
          \/ entry'[e] = entry[e] /\ (entry[e].pmt # Null => pmt'[entry[e].pmt] = pmt[entry[e].pmt])
    BY <1>2, <1>6, <2>1
  <2> QED
    BY <2>2, ReconciledStep DEF IInv
<1>11. LocksHold'
  <2>1. ASSUME NEW p \in Writers \ {q}
        PROVE  Explained(p)'
    <3>1. p \in Requests /\ tx[p] \in WriteState /\ Explained(p)
      BY <1>0, <2>1, WriterType DEF IInv, LocksHold
    <3>2. tx'[p] = tx[p]
      BY <1>0, <1>2, <1>3, <3>1, BecomesType
    <3>3. /\ tx[p].recv # r
          /\ tx[p].pmt # Null => tx[p].pmt # x
          /\ tx[p].next = Null
      BY <1>0, <2>1 DEF IInv, LocksHold, Apart
    <3>4. recv'[tx[p].recv] = recv[tx[p].recv]
      BY <1>0, <1>2, <3>1, <3>3, WriteType DEF TypeOK
    <3>5. tx[p].pmt # Null => pmt'[tx[p].pmt] = pmt[tx[p].pmt]
      BY <1>0, <1>2, <3>1, <3>3, WriteType DEF TypeOK
    <3>6. tx[p].pmt # Null =>
            \A e \in Entries : entry'[e].pmt = tx[p].pmt <=> entry[e].pmt = tx[p].pmt
      BY <1>2, <1>4, <1>6, <3>3
    <3> QED
      BY <3>1, <3>2, <3>3, <3>4, <3>5, <3>6, StillExplained
  <2> QED
    BY <1>0, <1>2, <1>3, <2>1, OtherStep DEF IInv
<1>12. SnapshotsChecked'
  BY <1>2, <1>3, SnapshotStep DEF IInv
<1> QED
  BY <1>7, <1>8, <1>9, <1>10, <1>11, <1>12 DEF IInv

LEMMA CommitDistratoInv ==
  ASSUME IInv, NEW q \in Requests, CommitDistrato(q)
  PROVE  IInv'
<1>0. /\ TypeOK
      /\ tx[q].op = "distrato"
      /\ recv = tx[q].seen
      /\ Writers = {}
      /\ recv' = [r \in Receivables |-> [recv[r] EXCEPT !.status = "CANCELADO"]]
      /\ sale' = "DISTRATADA"
      /\ Becomes(q, Idle)
      /\ UNCHANGED <<pmt, entry>>
  <2>1. ASSUME NEW p \in Writers PROVE FALSE
    BY <2>1, WriterType, WriteType DEF CommitDistrato, Unwritten, Unlocked, IInv
  <2> QED
    BY <2>1 DEF CommitDistrato, Unwritten, Becomes, IInv
<1>1. \A r \in Receivables : recv[r].paid = 0
  BY <1>0 DEF IInv, SnapshotsChecked
<1>2. Idle \in TxStates /\ Idle.op = "idle"
  BY DEF TxStates, Idle
<1>3. TypeOK'
  <2>1. \A r \in Receivables : recv[r] \in ReceivableRow
    BY <1>0 DEF TypeOK
  <2>2. \A row \in ReceivableRow : [row EXCEPT !.status = "CANCELADO"] \in ReceivableRow
    BY DEF ReceivableRow
  <2>3. recv' \in [Receivables -> ReceivableRow]
    BY <1>0, <2>1, <2>2
  <2>4. tx' \in [Requests -> TxStates]
    BY <1>0, <1>2, BecomesType
  <2> QED
    BY <1>0, <2>3, <2>4 DEF TypeOK, TxStates, SaleStatuses
<1>4. Ledger'
  BY <1>0, <1>1, <1>3, DistratoLedger DEF IInv
<1>5. SettledWhenAllPaid' /\ RescindedIsCancelled'
  <2>1. ASSUME NEW r \in Receivables PROVE recv'[r].status = "CANCELADO"
    <3>1. recv[r] \in ReceivableRow
      BY <1>0 DEF TypeOK
    <3>2. recv'[r] = [recv[r] EXCEPT !.status = "CANCELADO"]
      BY <1>0
    <3> QED
      BY <3>1, <3>2 DEF ReceivableRow
  <2> QED
    BY <1>0, <2>1 DEF SettledWhenAllPaid, RescindedIsCancelled
<1>6. ReconciledIsLive'
  BY <1>0 DEF IInv, ReconciledIsLive
<1>7. LocksHold'
  BY <1>0, <1>2, OtherStep DEF IInv
<1>8. SnapshotsChecked'
  BY <1>0, <1>2, SnapshotStep DEF IInv
<1> QED
  BY <1>3, <1>4, <1>5, <1>6, <1>7, <1>8 DEF IInv

LEMMA CommitApplyInv ==
  ASSUME IInv, NEW q \in Requests, CommitApply(q)
  PROVE  IInv'
<1> DEFINE r == tx[q].recv
           p == tx[q].period
           a == tx[q].adjusted
<1> PICK row : row = [recv[r] EXCEPT !.adjusted = a, !.applied[p] = a - tx[q].seen.adjusted]
  OBVIOUS
<1>0. /\ TypeOK
      /\ tx[q] \in ApplyState
      /\ r \in Receivables /\ p \in Periods /\ a \in Int
      /\ recv[r] = tx[q].seen
      /\ recv[r].applied[p] = Null
      /\ recv[r] \in ReceivableRow
      /\ \A w \in Writers : tx[w].recv # r
      /\ RowCheck(row)
      /\ recv' = [recv EXCEPT ![r] = row]
      /\ Becomes(q, Idle)
      /\ UNCHANGED <<sale, pmt, entry>>
  BY TxType, ApplyType
     DEF CommitApply, RowUnwritten, Unlocked, IInv, SnapshotsChecked, TypeOK, Becomes
<1>1. /\ row \in ReceivableRow
      /\ row.status = recv[r].status
  <2>1. a - tx[q].seen.adjusted \in Int
    BY <1>0, RowType
  <2> QED
    BY <1>0, <2>1 DEF ReceivableRow
<1>2. Idle \in TxStates /\ Idle.op = "idle"
  BY DEF TxStates, Idle
<1>3. TypeOK'
  <2>1. recv' \in [Receivables -> ReceivableRow]
    BY <1>0, <1>1 DEF TypeOK
  <2>2. tx' \in [Requests -> TxStates]
    BY <1>0, <1>2, BecomesType
  <2> QED
    BY <1>0, <2>1, <2>2 DEF TypeOK, TxStates
<1>4. Ledger'
  <2>1. row = [recv[r] EXCEPT !.adjusted = a, !.applied[p] = a - recv[r].adjusted]
    BY <1>0
  <2> HIDE DEF r, p, a
  <2> QED
    BY <1>0, <1>3, <2>1, ApplyLedger DEF IInv
<1>5. /\ \A s \in Receivables : recv'[s].status = recv[s].status
      /\ \A s \in Receivables \ {r} : recv'[s] = recv[s]
  BY <1>0, <1>1 DEF TypeOK
<1>6. SettledWhenAllPaid' /\ RescindedIsCancelled'
  BY <1>0, <1>5, SaleSame DEF IInv
<1>7. ReconciledIsLive'
  BY <1>0 DEF IInv, ReconciledIsLive
<1>8. LocksHold'
  <2>1. \A w \in Writers \ {q} : recv'[tx[w].recv] = recv[tx[w].recv]
    BY <1>0, <1>5, WriterType, WriteType
  <2>2. \A w \in Writers \ {q} : Explained(w)'
    BY <1>0, <1>2, <1>5, <2>1, ExplainedWhile DEF IInv
  <2> QED
    BY <1>0, <1>2, <2>2, OtherStep DEF IInv
<1>9. SnapshotsChecked'
  BY <1>0, <1>2, SnapshotStep DEF IInv
<1> QED
  BY <1>3, <1>4, <1>6, <1>7, <1>8, <1>9 DEF IInv

-----------------------------------------------------------------------------
(* The lines of the statement.                                             *)

\* A line changes: which lines the reversals in flight unmatch does not.
LEMMA EntryStep ==
  ASSUME IInv, UNCHANGED <<sale, recv, pmt, tx>>, NEW e \in Entries, NEW row,
         row \in EntryRow, entry' = [entry EXCEPT ![e] = row],
         entry[e].pmt # row.pmt =>
           /\ EntryUnlocked(e)
           /\ row.pmt # Null => PaymentUnlocked(row.pmt),
         ReconciledIsLive'
  PROVE  IInv'
<1>0. TypeOK /\ \A f \in Entries : entry'[f] = IF f = e THEN row ELSE entry[f]
  BY DEF IInv, TypeOK
<1>1. TypeOK'
  <2>1. entry' \in [Entries -> EntryRow \cup {AbsentEntry}]
    BY <1>0 DEF TypeOK
  <2> QED
    BY <1>0, <2>1 DEF TypeOK
<1>2. \A q \in Writers : Explained(q)'
  <2> TAKE q \in Writers
  <2>1. q \in Requests /\ tx[q] \in WriteState /\ Explained(q) /\ tx'[q] = tx[q]
    BY <1>0, WriterType DEF IInv, LocksHold
  <2>2. ASSUME tx[q].pmt # Null, Recording(tx[q]) \/ Reversing(tx[q])
        PROVE  \A f \in Entries : entry'[f].pmt = tx[q].pmt <=> entry[f].pmt = tx[q].pmt
    <3>1. ASSUME Reversing(tx[q]), entry[e].pmt # row.pmt
          PROVE  entry[e].pmt # tx[q].pmt /\ row.pmt # tx[q].pmt
      <4>1. e \notin tx[q].unmatch
        BY <3>1 DEF EntryUnlocked
      <4>2. entry[e].pmt # tx[q].pmt
        BY <3>1, <4>1 DEF Reversing
      <4>3. row.pmt # tx[q].pmt
        BY <2>2, <3>1 DEF PaymentUnlocked
      <4> QED
        BY <4>2, <4>3
    <3>2. ASSUME Recording(tx[q]), entry[e].pmt # row.pmt
          PROVE  entry[e].pmt # tx[q].pmt /\ row.pmt # tx[q].pmt
      <4>1. row.pmt # tx[q].pmt
        BY <2>2, <3>2 DEF PaymentUnlocked
      <4>2. pmt[tx[q].pmt].status = "ABSENT"
        BY <3>2 DEF Recording, AbsentPayment
      <4>3. entry[e].pmt # Null => pmt[entry[e].pmt].status = "LIVE"
        BY DEF IInv, ReconciledIsLive
      <4> QED
        BY <2>2, <4>1, <4>2, <4>3
    <3> QED
      BY <1>0, <2>2, <3>1, <3>2
  <2>3. tx[q].pmt # Null => Recording(tx[q]) \/ Reversing(tx[q])
    BY <2>1 DEF Explained, Cancelling
  <2> QED
    BY <2>1, <2>2, <2>3, StillExplained
<1>3. LocksHold'
  BY <1>2, SameRequests DEF IInv
<1>4. SnapshotsChecked'
  BY DEF IInv, SnapshotsChecked
<1>5. Ledger' /\ SettledWhenAllPaid' /\ RescindedIsCancelled'
  BY LedgerSame, SaleSame DEF IInv
<1> QED
  BY <1>1, <1>3, <1>4, <1>5 DEF IInv

LEMMA ReconciledEdit ==
  ASSUME ReconciledIsLive, UNCHANGED pmt, NEW e \in Entries, NEW row,
         \A f \in Entries : entry'[f] = IF f = e THEN row ELSE entry[f],
         row.status = "CONCILIADO" <=> row.pmt # Null,
         row.pmt # Null =>
           /\ pmt[row.pmt].status = "LIVE"
           /\ pmt[row.pmt].amount = row.amount
           /\ \A f \in Entries : entry[f].pmt # row.pmt
  PROVE  ReconciledIsLive'
<1> SUFFICES ASSUME NEW f \in Entries
             PROVE  /\ entry'[f].status = "CONCILIADO" <=> entry'[f].pmt # Null
                    /\ entry'[f].pmt # Null =>
                         /\ pmt'[entry'[f].pmt].status = "LIVE"
                         /\ pmt'[entry'[f].pmt].amount = entry'[f].amount
                         /\ \A k \in Entries \ {f} : entry'[k].pmt # entry'[f].pmt
  BY DEF ReconciledIsLive
<1>1. CASE f = e
  BY <1>1
<1>2. CASE f # e
  <2>1. entry'[f] = entry[f]
    BY <1>2
  <2>2. /\ entry[f].status = "CONCILIADO" <=> entry[f].pmt # Null
        /\ entry[f].pmt # Null =>
             /\ pmt[entry[f].pmt].status = "LIVE"
             /\ pmt[entry[f].pmt].amount = entry[f].amount
             /\ \A k \in Entries \ {f} : entry[k].pmt # entry[f].pmt
    BY DEF ReconciledIsLive
  <2> QED
    BY <2>1, <2>2
<1> QED
  BY <1>1, <1>2

LEMMA ImportEntryInv ==
  ASSUME IInv, NEW e \in Entries, NEW amount \in Amounts, ImportEntry(e, amount)
  PROVE  IInv'
<1> PICK row : row = [status |-> "PENDENTE", amount |-> amount, pmt |-> Null]
  OBVIOUS
<1>0. TypeOK /\ UNCHANGED <<sale, recv, pmt, tx>> /\ entry' = [entry EXCEPT ![e] = row]
  BY DEF IInv, ImportEntry
<1>1. row \in EntryRow /\ row.pmt = Null /\ row.status = "PENDENTE"
  BY DEF EntryRow
<1>2. entry[e].pmt = Null
  BY <1>0, EntryType DEF ImportEntry, AbsentEntry
<1>3. ReconciledIsLive'
  <2>1. \A f \in Entries : entry'[f] = IF f = e THEN row ELSE entry[f]
    BY <1>0 DEF TypeOK
  <2> QED
    BY <1>0, <1>1, <2>1, ReconciledStep DEF IInv
<1> QED
  BY <1>0, <1>1, <1>2, <1>3, EntryStep

LEMMA MatchInv ==
  ASSUME IInv, NEW e \in Entries, NEW x \in Payments, Match(e, x)
  PROVE  IInv'
<1>5. PICK row : row = [entry[e] EXCEPT !.status = "CONCILIADO", !.pmt = x]
  OBVIOUS
<1>0. TypeOK /\ UNCHANGED <<sale, recv, pmt, tx>> /\ entry[e] \in EntryRow
  BY EntryType DEF IInv, Match
<1>1. entry' = [entry EXCEPT ![e] = row]
  BY <1>0, <1>5 DEF Match, EntryRow, TypeOK
<1>2. /\ row \in EntryRow /\ row.pmt = x /\ row.status = "CONCILIADO"
      /\ row.amount = entry[e].amount
  BY <1>0, <1>5 DEF EntryRow
<1>3. ReconciledIsLive'
  <2>1. \A f \in Entries : entry'[f] = IF f = e THEN row ELSE entry[f]
    BY <1>0, <1>1 DEF TypeOK
  <2>2. /\ pmt[x].status = "LIVE" /\ pmt[x].amount = entry[e].amount
        /\ \A f \in Entries : entry[f].pmt # x
        /\ x # Null
    BY NullAssumption DEF Match
  <2>3. /\ pmt[row.pmt].status = "LIVE"
        /\ pmt[row.pmt].amount = row.amount
        /\ \A f \in Entries : entry[f].pmt # row.pmt
        /\ row.status = "CONCILIADO" <=> row.pmt # Null
        /\ UNCHANGED pmt
    BY <1>0, <1>2, <2>2
  <2>4. ReconciledIsLive
    BY DEF IInv
  <2> QED
    BY <2>1, <2>3, <2>4, ReconciledEdit
<1>4. EntryUnlocked(e) /\ PaymentUnlocked(x)
  BY DEF Match
<1> QED
  BY <1>0, <1>1, <1>2, <1>3, <1>4, EntryStep

LEMMA ChangeStatusInv ==
  ASSUME IInv, NEW e \in Entries, NEW expected, NEW target,
         <<expected, target>> \in {<<"CONCILIADO", "PENDENTE">>, <<"PENDENTE", "IGNORADO">>,
                                   <<"IGNORADO", "PENDENTE">>},
         ChangeStatus(e, expected, target)
  PROVE  IInv'
<1> PICK row : row = [entry[e] EXCEPT !.status = target, !.pmt = Null]
  OBVIOUS
<1>0. TypeOK /\ UNCHANGED <<sale, recv, pmt, tx>> /\ entry[e] \in EntryRow
  BY EntryType DEF IInv, ChangeStatus
<1>1. entry' = [entry EXCEPT ![e] = row]
  BY <1>0 DEF ChangeStatus, EntryRow, TypeOK
<1>2. row \in EntryRow /\ row.pmt = Null /\ row.status # "CONCILIADO"
  BY <1>0 DEF EntryRow
<1>3. ReconciledIsLive'
  <2>1. \A f \in Entries : entry'[f] = IF f = e THEN row ELSE entry[f]
    BY <1>0, <1>1 DEF TypeOK
  <2> QED
    BY <1>0, <1>2, <2>1, ReconciledEdit DEF IInv
<1>4. EntryUnlocked(e)
  BY DEF ChangeStatus
<1> QED
  BY <1>0, <1>1, <1>2, <1>3, <1>4, EntryStep

-----------------------------------------------------------------------------
(* The price, split into instalments.                                      *)

LEMMA DivideBounds ==
  ASSUME NEW cents \in Nat, NEW count \in 1..cents
  PROVE  /\ cents \div count \in Nat \ {0}
         /\ count * (cents \div count) <= cents
         /\ cents < count * (cents \div count) + count
<1>1. /\ cents \div count \in Nat
      /\ count * (cents \div count) <= cents
      /\ cents < count * (cents \div count) + count
  OBVIOUS
<1>2. \A c \in Nat : c * 0 = 0
  OBVIOUS
<1> QED
  BY <1>1, <1>2

\* splitAmount loses no cent.
LEMMA SplitParts ==
  ASSUME NEW cents \in Nat, NEW count \in 1..cents
  PROVE  LET part == SplitAmount(cents, count) IN
         /\ part \in [1..count -> 1..cents]
         /\ \A k \in 1..count : part[count] - part[k] \in 0..(count - 1)
         /\ SumOf(part, 1..count) = cents
<1> DEFINE base == cents \div count
           rest == cents - base * (count - 1)
           part == SplitAmount(cents, count)
           total == [k \in 0..count |-> IF k = count THEN cents ELSE base * k]
<1>1. /\ base \in Nat \ {0}
      /\ count * base <= cents
      /\ cents < count * base + count
  BY DivideBounds
<1>2. part = [k \in 1..count |-> IF k = count THEN rest ELSE base]
  BY DEF SplitAmount
<1> HIDE DEF base, part
<1>3. count * base = base * (count - 1) + base /\ base * (count - 1) \in Nat
  <2>1. \A b, c \in Int : c * b = b * (c - 1) + b
    OBVIOUS
  <2>2. \A b, c \in Nat : b * c \in Nat
    OBVIOUS
  <2>3. base \in Nat /\ count \in Nat /\ count - 1 \in Nat
    BY <1>1
  <2> QED
    BY <2>1, <2>2, <2>3
<1>4. rest \in base..(base + count - 1) /\ rest <= cents /\ base <= cents
  <2>1. \A a, b, c, p \in Nat :
          p + b <= a /\ a < p + b + c
            => a - p \in b..(b + c - 1) /\ a - p <= a /\ b <= a
    OBVIOUS
  <2>2. base \in Nat /\ base * (count - 1) + base <= cents
        /\ cents < base * (count - 1) + base + count
    BY <1>1, <1>3
  <2> QED
    BY <1>3, <2>1, <2>2
<1>5. total[0] = 0 /\ total[count] = cents
  <2>1. \A b \in Int : b * 0 = 0
    OBVIOUS
  <2> QED
    BY <1>1, <2>1
<1> HIDE DEF rest
<1>6. part \in [1..count -> 1..cents]
  BY <1>1, <1>2, <1>4
<1>7. \A k \in 1..count : part[count] - part[k] \in 0..(count - 1)
  BY <1>1, <1>2, <1>4
<1>8. \A k \in 1..count : total[k] = total[k - 1] + part[k]
  <2> TAKE k \in 1..count
  <2>1. CASE k = count
    BY <1>1, <1>2, <1>3, <2>1 DEF rest
  <2>2. CASE k # count
    <3>1. \A b, c \in Int : b * c = b * (c - 1) + b
      OBVIOUS
    <3>2. total[k] = base * k /\ total[k - 1] = base * (k - 1) /\ part[k] = base
      BY <1>2, <2>2
    <3> QED
      BY <1>1, <3>1, <3>2
  <2> QED
    BY <2>1, <2>2
<1>9. SumOf(part, 1..count) = cents
  <2>1. count \in Nat /\ count \in 0..count
    OBVIOUS
  <2>2. \A k \in 1..count : part[k] \in Int
    BY <1>6
  <2>3. total[0] = 0
    BY <1>5
  <2> HIDE DEF total
  <2>4. Accumulates(total, part, count)
    BY <1>8, <2>2, <2>3 DEF Accumulates
  <2>5. \A k \in 0..count : SumOf(part, 1..k) = total[k]
    BY <2>1, <2>4, SumBySteps
  <2> QED
    BY <1>5, <2>1, <2>5
<1> QED
  BY <1>6, <1>7, <1>9 DEF part

\* The sum of a plan, as a sum of a function.
LEMMA PlanSum ==
  ASSUME NEW plan, NEW S
  PROVE  Sum(LAMBDA i : plan[i].amount, S) = SumOf([i \in S |-> plan[i].amount], S)
<1> DEFINE f == [i \in S |-> plan[i].amount]
           A(g) == g = [s \in SUBSET S |->
                          IF s = {} THEN 0
                          ELSE plan[Chosen(s)].amount + g[s \ {Chosen(s)}]]
<1>1. \A s \in SUBSET S : s # {} => f[Chosen(s)] = plan[Chosen(s)].amount
  BY ChosenMember
<1>2. ASSUME NEW g
      PROVE  A(g) <=> Adds(g, f, S)
  <2> HIDE DEF f
  <2>1. \A s \in SUBSET S :
          (IF s = {} THEN 0 ELSE plan[Chosen(s)].amount + g[s \ {Chosen(s)}])
            = IF s = {} THEN 0 ELSE f[Chosen(s)] + g[s \ {Chosen(s)}]
    BY <1>1
  <2> QED
    BY <2>1 DEF Adds
<1>3. Sum(LAMBDA i : plan[i].amount, S) = (CHOOSE g : A(g))[S]
  BY DEF Sum, MapThenSumSet, MapThenFoldSet, Chosen
<1>4. (CHOOSE g : A(g)) = (CHOOSE g : Adds(g, f, S))
  <2> HIDE DEF A, f
  <2> QED
    BY <1>2
<1> QED
  BY <1>3, <1>4, SumOfIsAdds

LEMMA FunctionIsSequence ==
  ASSUME NEW V, NEW n \in Nat, NEW f \in [1..n -> V]
  PROVE  f \in Seq(V) /\ Len(f) = n
OBVIOUS

LEMMA MemberOfSequence ==
  ASSUME NEW V, NEW s \in Seq(V), NEW r \in 1..Len(s)
  PROVE  s[r] \in V
OBVIOUS

\* A plan that adds up to the price makes receivables that do.
LEMMA PlanAmounts ==
  ASSUME NEW plan \in PaymentPlans
  PROVE  /\ \A r \in Receivables : GeneratedAmounts(plan)[r] \in 1..Price
         /\ SumOf(GeneratedAmounts(plan), Receivables) = Price
<1>1. PICK n \in 1..Instalments : plan \in [1..n -> Conditions]
  BY DEF PaymentPlans
<1> DEFINE seqs == [i \in 1..n |-> SplitAmount(plan[i].amount, plan[i].count)]
           sums == [i \in 1..n |-> plan[i].amount]
<1>2. n \in Nat \ {0} /\ DOMAIN plan = 1..n
  BY <1>1, PriceAssumption
<1>3. ASSUME NEW i \in 1..n
      PROVE  /\ seqs[i] \in Seq(1..Price)
             /\ seqs[i] \in Seq(Int)
             /\ sums[i] = SumOf(seqs[i], 1..Len(seqs[i]))
  <2> DEFINE cents == plan[i].amount
             count == plan[i].count
             part == SplitAmount(cents, count)
  <2>1. cents \in 1..Price /\ count \in 1..cents
    BY <1>1, PriceAssumption DEF Conditions
  <2> HIDE DEF cents, count
  <2>2. /\ cents \in Nat /\ cents <= Price
        /\ count \in Nat
    BY <2>1, PriceAssumption
  <2>3. part \in [1..count -> 1..cents] /\ SumOf(part, 1..count) = cents
    BY <2>1, <2>2, SplitParts
  <2> HIDE DEF part
  <2>4. part \in [1..count -> 1..Price] /\ part \in [1..count -> Int]
    <3>1. 1..cents \subseteq 1..Price /\ 1..cents \subseteq Int
      BY <2>2, PriceAssumption
    <3> QED
      BY <2>3, <3>1
  <2>5. Len(part) = count /\ part \in Seq(1..Price) /\ part \in Seq(Int)
    BY <2>2, <2>4, FunctionIsSequence
  <2>6. seqs[i] = part /\ sums[i] = cents
    BY DEF part, cents, count
  <2> QED
    BY <2>3, <2>5, <2>6
<1>4. GeneratedAmounts(plan) = FlattenSeq(seqs)
  BY <1>2 DEF GeneratedAmounts
<1>5. seqs \in [1..n -> Seq(1..Price)] /\ seqs \in [1..n -> Seq(Int)]
  BY <1>3
<1> HIDE DEF seqs, sums
<1>6. FlattenSeq(seqs) \in Seq(1..Price) /\ Len(FlattenSeq(seqs)) = Instalments
  BY <1>2, <1>4, <1>5, FlattenSeqParts DEF PaymentPlans
<1>7. SumOf(FlattenSeq(seqs), 1..Instalments) = SumOf(sums, 1..n)
  BY <1>2, <1>3, <1>5, <1>6, SumFlatten
<1>8. SumOf(sums, 1..n) = Price
  <2>1. Sum(LAMBDA i : plan[i].amount, 1..n) = Price
    BY <1>2 DEF PaymentPlans, AddsUp
  <2> QED
    BY <2>1, PlanSum DEF sums
<1>9. \A r \in 1..Instalments : FlattenSeq(seqs)[r] \in 1..Price
  <2> DEFINE flat == FlattenSeq(seqs)
  <2>1. flat \in Seq(1..Price) /\ Len(flat) = Instalments
    BY <1>6
  <2> HIDE DEF flat
  <2>2. \A r \in 1..Instalments : flat[r] \in 1..Price
    BY <2>1, MemberOfSequence
  <2> QED
    BY <2>2 DEF flat
<1> QED
  BY <1>4, <1>7, <1>8, <1>9 DEF Receivables

OriginalOf(rows) == [r \in Receivables |-> rows[r].original]
AdjustedOf(rows) == [r \in Receivables |-> rows[r].adjusted]
BalancesOf(rows) == [r \in Receivables |-> rows[r].adjusted - rows[r].paid]

LEMMA OriginalSum ==
  ASSUME NEW rows, NEW S \in SUBSET Receivables
  PROVE  Sum(LAMBDA r : rows[r].original, S) = SumOf(OriginalOf(rows), S)
<1> DEFINE f == OriginalOf(rows)
           A(g) == g = [s \in SUBSET S |->
                          IF s = {} THEN 0
                          ELSE rows[Chosen(s)].original + g[s \ {Chosen(s)}]]
<1>1. \A s \in SUBSET S : s # {} => f[Chosen(s)] = rows[Chosen(s)].original
  BY ChosenMember DEF OriginalOf
<1>2. ASSUME NEW g
      PROVE  A(g) <=> Adds(g, f, S)
  <2> HIDE DEF f
  <2>1. \A s \in SUBSET S :
          (IF s = {} THEN 0 ELSE rows[Chosen(s)].original + g[s \ {Chosen(s)}])
            = IF s = {} THEN 0 ELSE f[Chosen(s)] + g[s \ {Chosen(s)}]
    BY <1>1
  <2> QED
    BY <2>1 DEF Adds
<1>3. Sum(LAMBDA r : rows[r].original, S) = (CHOOSE g : A(g))[S]
  BY DEF Sum, MapThenSumSet, MapThenFoldSet, Chosen
<1>4. (CHOOSE g : A(g)) = (CHOOSE g : Adds(g, f, S))
  <2> HIDE DEF A, f
  <2> QED
    BY <1>2
<1> QED
  BY <1>3, <1>4, SumOfIsAdds

LEMMA AdjustedSum ==
  ASSUME NEW rows, NEW S \in SUBSET Receivables
  PROVE  Sum(LAMBDA r : rows[r].adjusted, S) = SumOf(AdjustedOf(rows), S)
<1> DEFINE f == AdjustedOf(rows)
           A(g) == g = [s \in SUBSET S |->
                          IF s = {} THEN 0
                          ELSE rows[Chosen(s)].adjusted + g[s \ {Chosen(s)}]]
<1>1. \A s \in SUBSET S : s # {} => f[Chosen(s)] = rows[Chosen(s)].adjusted
  BY ChosenMember DEF AdjustedOf
<1>2. ASSUME NEW g
      PROVE  A(g) <=> Adds(g, f, S)
  <2> HIDE DEF f
  <2>1. \A s \in SUBSET S :
          (IF s = {} THEN 0 ELSE rows[Chosen(s)].adjusted + g[s \ {Chosen(s)}])
            = IF s = {} THEN 0 ELSE f[Chosen(s)] + g[s \ {Chosen(s)}]
    BY <1>1
  <2> QED
    BY <2>1 DEF Adds
<1>3. Sum(LAMBDA r : rows[r].adjusted, S) = (CHOOSE g : A(g))[S]
  BY DEF Sum, MapThenSumSet, MapThenFoldSet, Chosen
<1>4. (CHOOSE g : A(g)) = (CHOOSE g : Adds(g, f, S))
  <2> HIDE DEF A, f
  <2> QED
    BY <1>2
<1> QED
  BY <1>3, <1>4, SumOfIsAdds

LEMMA BalanceSum ==
  ASSUME NEW rows, NEW S \in SUBSET Receivables
  PROVE  Sum(LAMBDA r : rows[r].adjusted - rows[r].paid, S) = SumOf(BalancesOf(rows), S)
<1> DEFINE f == BalancesOf(rows)
           A(g) == g = [s \in SUBSET S |->
                          IF s = {} THEN 0
                          ELSE (rows[Chosen(s)].adjusted - rows[Chosen(s)].paid) + g[s \ {Chosen(s)}]]
<1>1. \A s \in SUBSET S : s # {} => f[Chosen(s)] = (rows[Chosen(s)].adjusted - rows[Chosen(s)].paid)
  BY ChosenMember DEF BalancesOf
<1>2. ASSUME NEW g
      PROVE  A(g) <=> Adds(g, f, S)
  <2> HIDE DEF f
  <2>1. \A s \in SUBSET S :
          (IF s = {} THEN 0 ELSE (rows[Chosen(s)].adjusted - rows[Chosen(s)].paid) + g[s \ {Chosen(s)}])
            = IF s = {} THEN 0 ELSE f[Chosen(s)] + g[s \ {Chosen(s)}]
    BY <1>1
  <2> QED
    BY <2>1 DEF Adds
<1>3. Sum(LAMBDA r : rows[r].adjusted - rows[r].paid, S) = (CHOOSE g : A(g))[S]
  BY DEF Sum, MapThenSumSet, MapThenFoldSet, Chosen
<1>4. (CHOOSE g : A(g)) = (CHOOSE g : Adds(g, f, S))
  <2> HIDE DEF A, f
  <2> QED
    BY <1>2
<1> QED
  BY <1>3, <1>4, SumOfIsAdds

-----------------------------------------------------------------------------
(* The first state, and the induction.                                     *)

LEMMA InitInv ==
  ASSUME Init
  PROVE  IInv /\ SumOf(OriginalOf(recv), Receivables) = Price
<1>1. PICK plan \in PaymentPlans :
        recv = [r \in Receivables |->
                  [status |-> "PENDENTE", original |-> GeneratedAmounts(plan)[r],
                   adjusted |-> GeneratedAmounts(plan)[r], paid |-> 0,
                   applied |-> [period \in Periods |-> Null]]]
  BY DEF Init
<1>2. \A r \in Receivables :
        /\ recv[r].status = "PENDENTE"
        /\ recv[r].original = GeneratedAmounts(plan)[r]
        /\ recv[r].original \in 1..Price
        /\ recv[r].adjusted = recv[r].original
        /\ recv[r].paid = 0
        /\ recv[r].applied = [period \in Periods |-> Null]
        /\ recv[r] \in ReceivableRow
  <2> TAKE r \in Receivables
  <2>1. PICK amount : amount = GeneratedAmounts(plan)[r]
    OBVIOUS
  <2>2. amount \in 1..Price
    BY <2>1, PlanAmounts
  <2>3. recv[r] = [status |-> "PENDENTE", original |-> amount, adjusted |-> amount,
                   paid |-> 0, applied |-> [period \in Periods |-> Null]]
    BY <1>1, <2>1
  <2>4. recv[r] \in ReceivableRow
    BY <2>2, <2>3, PriceAssumption DEF ReceivableRow
  <2> QED
    BY <2>1, <2>2, <2>3, <2>4
<1>3. /\ sale = "ATIVA"
      /\ \A x \in Payments : pmt[x] = AbsentPayment
      /\ \A e \in Entries : entry[e] = AbsentEntry
      /\ \A q \in Requests : tx[q] = Idle
  BY DEF Init
<1>4. TypeOK
  <2>1. recv \in [Receivables -> ReceivableRow]
    BY <1>1, <1>2
  <2> QED
    BY <2>1 DEF Init, TypeOK, SaleStatuses
<1>5. LocksHold /\ SnapshotsChecked
  <2>1. \A q \in Requests : tx[q].op = "idle"
    BY <1>3 DEF Idle
  <2> QED
    BY <2>1 DEF LocksHold, SnapshotsChecked, Writers
<1>6. PaidInSum
  <2>1. \A r \in Receivables : LivePayments(r) = {}
    BY <1>3 DEF LivePayments, AbsentPayment
  <2> QED
    BY <1>2, <2>1, SumEmpty DEF PaidInSum
<1>7. CashInSum
  <2>1. NotReversed = {}
    BY <1>3 DEF NotReversed, AbsentPayment
  <2>2. \A r \in Receivables : PaidOf(recv)[r] = 0
    BY <1>2 DEF PaidOf
  <2>3. SumOf(PaidOf(recv), Receivables) = 0
    BY <2>2, FiniteRows, SumOfZeros
  <2> QED
    BY <2>1, <2>3, SumEmpty DEF CashInSum
<1>8. StatusMatchesAmounts
  BY <1>2, PriceAssumption DEF StatusMatchesAmounts, RowCheck
<1>9. CorrectedInSum
  <2>1. \A r \in Receivables : Corrections(recv[r]) = {}
    BY <1>2 DEF Corrections
  <2>2. \A r \in Receivables : recv[r].original + 0 = recv[r].original
    BY <1>2, PriceAssumption
  <2> QED
    BY <1>2, <2>1, <2>2, SumEmpty DEF CorrectedInSum
<1>10. SettledWhenAllPaid /\ RescindedIsCancelled
  <2>1. 1 \in Receivables
    BY PriceAssumption DEF Receivables
  <2> QED
    BY <1>2, <1>3, <2>1 DEF SettledWhenAllPaid, RescindedIsCancelled
<1>11. ReconciledIsLive
  BY <1>3 DEF ReconciledIsLive, AbsentEntry
<1>12. SumOf(OriginalOf(recv), Receivables) = Price
  <2>1. \A r \in Receivables :
          /\ OriginalOf(recv)[r] \in Int
          /\ OriginalOf(recv)[r] = GeneratedAmounts(plan)[r]
    BY <1>2, PriceAssumption DEF OriginalOf
  <2>2. SumOf(OriginalOf(recv), Receivables) = SumOf(GeneratedAmounts(plan), Receivables)
    BY <2>1, FiniteRows, SumSame
  <2> QED
    BY <2>2, PlanAmounts
<1> QED
  BY <1>4, <1>5, <1>6, <1>7, <1>8, <1>9, <1>10, <1>11, <1>12 DEF IInv, Ledger

LEMMA NextInv ==
  ASSUME IInv, [Next]_vars
  PROVE  IInv'
<1>1. CASE ReceivableNext
  <2> PICK q \in Requests :
        \/ \E r \in Receivables, x \in Payments, amount \in Amounts :
             RecordPayment(q, r, x, amount)
        \/ \E x \in Payments : ReversePayment(q, x)
        \/ \E r \in Receivables : CancelReceivable(q, r)
        \/ SyncSaleStatus(q)
        \/ Commit(q)
        \/ Rollback(q)
    BY <1>1 DEF ReceivableNext
  <2> QED
    BY RecordPaymentInv, ReversePaymentInv, CancelReceivableInv, SyncSaleStatusInv,
       CommitInv, RollbackInv
<1>2. CASE SerializableNext
  <2> PICK q \in Requests :
        \/ ReadDistrato(q)
        \/ CommitDistrato(q)
        \/ \E r \in Receivables, period \in Periods : ReadApply(q, r, period)
        \/ CommitApply(q)
    BY <1>2 DEF SerializableNext
  <2> QED
    BY ReadDistratoInv, CommitDistratoInv, ReadApplyInv, CommitApplyInv
<1>3. CASE EntryNext
  <2> PICK e \in Entries :
        \/ \E amount \in Amounts : ImportEntry(e, amount)
        \/ \E x \in Payments : Match(e, x)
        \/ ChangeStatus(e, "CONCILIADO", "PENDENTE")
        \/ ChangeStatus(e, "PENDENTE", "IGNORADO")
        \/ ChangeStatus(e, "IGNORADO", "PENDENTE")
    BY <1>3 DEF EntryNext
  <2> QED
    BY ImportEntryInv, MatchInv, ChangeStatusInv
<1>4. CASE UNCHANGED vars
  <2>1. UNCHANGED <<sale, recv, pmt, entry, tx>>
    BY <1>4 DEF vars
  <2>2. TypeOK' /\ SnapshotsChecked'
    BY <2>1 DEF IInv, TypeOK, SnapshotsChecked
  <2>3. LocksHold'
    <3>1. \A q \in Writers : Explained(q)'
      <4> TAKE q \in Writers
      <4>1. q \in Requests /\ tx[q] \in WriteState /\ Explained(q)
        BY WriterType DEF IInv, LocksHold
      <4> QED
        BY <2>1, <4>1, StillExplained
    <3> QED
      BY <2>1, <3>1, SameRequests DEF IInv
  <2> QED
    BY <2>1, <2>2, <2>3, RowsSame DEF IInv
<1> QED
  BY <1>1, <1>2, <1>3, <1>4 DEF Next

-----------------------------------------------------------------------------
(* Theorems.                                                               *)

\* The rows a handler locked are those it read when it commits, the sums of
\* the ledger hold and the sale has followed its instalments.
THEOREM Inductive == Spec => []IInv
<1>1. Init => IInv
  BY InitInv
<1>2. IInv /\ [Next]_vars => IInv'
  BY NextInv
<1> QED
  BY <1>1, <1>2, PTL DEF Spec

\* A reconciled line of the statement stands for one payment that was not
\* reversed, of its amount, although a reversal unmatches it (match, unmatch,
\* reversePayment).
THEOREM ReconciledLinesAreLive == Spec => []ReconciledIsLive
<1>1. IInv => ReconciledIsLive
  BY DEF IInv
<1> QED
  BY <1>1, Inductive, PTL

\* What was received on a receivable with nothing paid: nothing.
LEMMA NothingReceived ==
  ASSUME TypeOK, PaidInSum, NEW r \in Receivables, recv[r].paid = 0
  PROVE  LivePayments(r) = {}
<1> SUFFICES ASSUME NEW x \in LivePayments(r) PROVE FALSE
  OBVIOUS
<1> DEFINE S == LivePayments(r)
           f == AmountOf(pmt)
<1>1. S \in SUBSET Payments /\ pmt[x].status = "LIVE" /\ x \in Payments
  BY DEF LivePayments
<1>2. IsFiniteSet(S)
  BY <1>1, FiniteRows, FS_Subset
<1>3. \A y \in S : f[y] \in Nat
  BY <1>1, PaymentType DEF AmountOf
<1>4. f[x] \in Nat \ {0}
  BY <1>1, PaymentType, PayType DEF AmountOf
<1>5. SumOf(f, S) = 0
  BY DEF PaidInSum
<1>6. f[x] <= SumOf(f, S)
  <2> HIDE DEF f, S
  <2>1. x \in S
    BY DEF S
  <2> QED
    BY <1>2, <1>3, <2>1, SumAtLeast
<1> QED
  BY <1>4, <1>5, <1>6

\* Nothing is left to receive of receivables that are paid.
LEMMA NothingOutstanding ==
  ASSUME TypeOK, NEW S \in SUBSET Receivables,
         \A r \in S : recv[r].paid = recv[r].adjusted
  PROVE  SumOf(BalancesOf(recv), S) = 0
<1>1. \A r \in S : BalancesOf(recv)[r] = 0
  <2> TAKE r \in S
  <2>1. recv[r].paid \in Int /\ recv[r].adjusted \in Int
    BY RowType DEF TypeOK
  <2> QED
    BY <2>1 DEF BalancesOf
<1>2. IsFiniteSet(S)
  BY FiniteRows, FS_Subset
<1> QED
  BY <1>1, <1>2, SumOfZeros

LEMMA OutstandingIsBalance == OutstandingBalance = SumOf(BalancesOf(recv), NotCancelled)
<1>1. NotCancelled \in SUBSET Receivables
  BY DEF NotCancelled
<1> QED
  BY <1>1, BalanceSum DEF OutstandingBalance

\* A sale is QUITADA exactly when its instalments are paid, and DISTRATADA with
\* nothing received or left to receive, in whatever order the receipts, their
\* reversals and the distrato commit (syncSaleStatus, cancel).
THEOREM SaleFollows == Spec => []SaleFollowsInstalments
<1>1. ASSUME IInv
      PROVE  SaleFollowsInstalments
  <2>0. /\ TypeOK /\ PaidInSum /\ StatusMatchesAmounts
        /\ SettledWhenAllPaid /\ RescindedIsCancelled
    BY <1>1 DEF IInv, Ledger
  <2>1. RescindedIsClosed
    <3> SUFFICES ASSUME sale = "DISTRATADA", NEW r \in Receivables
                 PROVE  recv[r].status = "CANCELADO" /\ LivePayments(r) = {}
      BY DEF RescindedIsClosed
    <3>1. recv[r].status = "CANCELADO"
      BY <2>0 DEF RescindedIsCancelled
    <3>2. recv[r].paid = 0
      BY <2>0, <3>1 DEF StatusMatchesAmounts, RowCheck
    <3> QED
      BY <2>0, <3>1, <3>2, NothingReceived
  <2>2. ASSUME sale # "ATIVA" PROVE OutstandingBalance = 0
    <3>1. \A r \in NotCancelled : recv[r].paid = recv[r].adjusted
      <4>1. CASE sale = "DISTRATADA"
        BY <2>0, <4>1 DEF RescindedIsCancelled, NotCancelled
      <4>2. CASE sale = "QUITADA"
        <5>1. \A r \in NotCancelled : recv[r].status = "PAGO"
          BY <2>0, <4>2 DEF SettledWhenAllPaid, NotCancelled
        <5> QED
          BY <2>0, <5>1 DEF StatusMatchesAmounts, RowCheck, NotCancelled
      <4> QED
        BY <2>0, <2>2, <4>1, <4>2 DEF TypeOK, SaleStatuses
    <3>2. NotCancelled \in SUBSET Receivables
      BY DEF NotCancelled
    <3> QED
      BY <2>0, <3>1, <3>2, NothingOutstanding, OutstandingIsBalance
  <2> QED
    BY <2>0, <2>1, <2>2 DEF SaleFollowsInstalments
<1>2. IInv => SaleFollowsInstalments
  BY <1>1
<1> QED
  BY <1>2, Inductive, PTL

\* ClosedIsFinal of a step.
ClosedStays ==
  /\ \A r \in Receivables : recv[r].status = "CANCELADO" => recv'[r] = recv[r]
  /\ sale = "DISTRATADA" => sale' = "DISTRATADA"

LEMMA CommitKeepsClosed ==
  ASSUME IInv, NEW q \in Requests, Commit(q)
  PROVE  /\ ClosedStays
         /\ \A r \in Receivables : recv'[r].original = recv[r].original
<1>1. /\ TypeOK /\ Ledger /\ RescindedIsCancelled
      /\ q \in Writers /\ tx[q] \in WriteState
      /\ Recording(tx[q]) \/ Reversing(tx[q]) \/ Cancelling(tx[q])
      /\ recv' = [recv EXCEPT ![tx[q].recv] = tx[q].row]
  BY WriterType DEF Commit, IInv, LocksHold, Explained, Writers
<1>2. tx[q].recv \in Receivables /\ recv[tx[q].recv].status # "CANCELADO"
  BY <1>1, WrittenIsOpen
<1>3. \A r \in Receivables : recv'[r] = IF r = tx[q].recv THEN tx[q].row ELSE recv[r]
  BY <1>1, <1>2 DEF TypeOK
<1>4. tx[q].row.original = recv[tx[q].recv].original
  <2>1. recv[tx[q].recv] \in ReceivableRow
    BY <1>1, <1>2 DEF TypeOK
  <2>2. CASE Recording(tx[q])
    BY <2>1, <2>2 DEF Recording, ReceivableRow
  <2>3. CASE Reversing(tx[q])
    BY <2>1, <2>3 DEF Reversing, ReceivableRow
  <2>4. CASE Cancelling(tx[q])
    BY <2>1, <2>4 DEF Cancelling, ReceivableRow
  <2> QED
    BY <1>1, <2>2, <2>3, <2>4
<1>5. sale # "DISTRATADA"
  BY <1>1, <1>2 DEF RescindedIsCancelled
<1> QED
  BY <1>2, <1>3, <1>4, <1>5 DEF ClosedStays

LEMMA DistratoKeepsClosed ==
  ASSUME IInv, NEW q \in Requests, CommitDistrato(q)
  PROVE  /\ ClosedStays
         /\ \A r \in Receivables : recv'[r].original = recv[r].original
<1>1. \A r \in Receivables :
        recv[r] \in ReceivableRow /\ recv'[r] = [recv[r] EXCEPT !.status = "CANCELADO"]
  BY DEF IInv, TypeOK, CommitDistrato
<1>2. \A row \in ReceivableRow :
        /\ [row EXCEPT !.status = "CANCELADO"].original = row.original
        /\ row.status = "CANCELADO" => [row EXCEPT !.status = "CANCELADO"] = row
  BY DEF ReceivableRow
<1>3. sale' = "DISTRATADA"
  BY DEF CommitDistrato
<1> QED
  BY <1>1, <1>2, <1>3 DEF ClosedStays

LEMMA ApplyKeepsClosed ==
  ASSUME IInv, NEW q \in Requests, CommitApply(q)
  PROVE  /\ ClosedStays
         /\ \A r \in Receivables : recv'[r].original = recv[r].original
<1>1. /\ TypeOK
      /\ tx[q].recv \in Receivables
      /\ recv[tx[q].recv] = tx[q].seen
      /\ tx[q].seen.status # "CANCELADO"
      /\ UNCHANGED sale
  BY TxType, ApplyType DEF CommitApply, RowUnwritten, IInv, SnapshotsChecked
<1>2. recv[tx[q].recv] \in ReceivableRow
  BY <1>1 DEF TypeOK
<1>3. PICK row : row = [recv[tx[q].recv] EXCEPT
                          !.adjusted = tx[q].adjusted,
                          !.applied[tx[q].period] = tx[q].adjusted - tx[q].seen.adjusted]
  OBVIOUS
<1>4. row.original = recv[tx[q].recv].original
  BY <1>2, <1>3 DEF ReceivableRow
<1>5. recv' = [recv EXCEPT ![tx[q].recv] = row]
  BY <1>3 DEF CommitApply
<1>6. \A r \in Receivables : recv'[r] = IF r = tx[q].recv THEN row ELSE recv[r]
  BY <1>1, <1>5 DEF TypeOK
<1> QED
  BY <1>1, <1>4, <1>6 DEF ClosedStays

\* No step changes a cancelled receivable, a rescinded sale or what a
\* receivable was worth at first.
LEMMA StepKeeps ==
  ASSUME IInv, [Next]_vars
  PROVE  /\ ClosedStays
         /\ \A r \in Receivables : recv'[r].original = recv[r].original
<1>1. CASE UNCHANGED <<sale, recv>>
  BY <1>1 DEF ClosedStays
<1>2. CASE ReceivableNext
  <2> PICK q \in Requests :
        \/ \E r \in Receivables, x \in Payments, amount \in Amounts :
             RecordPayment(q, r, x, amount)
        \/ \E x \in Payments : ReversePayment(q, x)
        \/ \E r \in Receivables : CancelReceivable(q, r)
        \/ SyncSaleStatus(q)
        \/ Commit(q)
        \/ Rollback(q)
    BY <1>2 DEF ReceivableNext
  <2>1. CASE Commit(q)
    BY <2>1, CommitKeepsClosed
  <2>2. CASE ~Commit(q)
    BY <1>1, <2>2
       DEF RecordPayment, ReversePayment, CancelReceivable, Begin, SyncSaleStatus, Rollback
  <2> QED
    BY <2>1, <2>2
<1>3. CASE SerializableNext
  <2> PICK q \in Requests :
        \/ ReadDistrato(q)
        \/ CommitDistrato(q)
        \/ \E r \in Receivables, period \in Periods : ReadApply(q, r, period)
        \/ CommitApply(q)
    BY <1>3 DEF SerializableNext
  <2>1. CASE ReadDistrato(q) \/ \E r \in Receivables, period \in Periods : ReadApply(q, r, period)
    BY <1>1, <2>1 DEF ReadDistrato, ReadApply
  <2> QED
    BY <2>1, DistratoKeepsClosed, ApplyKeepsClosed
<1>4. CASE EntryNext
  BY <1>1, <1>4 DEF EntryNext, ImportEntry, Match, ChangeStatus
<1> QED
  BY <1>1, <1>2, <1>3, <1>4 DEF Next, vars

\* A cancelled receivable and a rescinded sale never come back, whatever was in
\* flight when they were closed (cancelReceivable, cancel, apply).
THEOREM ClosedStaysClosed == Spec => ClosedIsFinal
<1>1. IInv /\ [Next]_vars => [ClosedStays]_vars
  BY StepKeeps
<1>2. Spec => [][ClosedStays]_vars
  BY <1>1, Inductive, PTL DEF Spec
<1> QED
  BY <1>2 DEF ClosedStays, ClosedIsFinal

-----------------------------------------------------------------------------
(* The reports, and the rest of the ledger.                                *)

\* The balances of the receivables of a part, and of the rest.
LEMMA BalanceParts ==
  ASSUME TypeOK, NEW S \in SUBSET Receivables, NEW R \in SUBSET Receivables,
         S \cap R = {}
  PROVE  /\ SumOf(BalancesOf(recv), S \cup R)
              = SumOf(BalancesOf(recv), S) + SumOf(BalancesOf(recv), R)
         /\ SumOf(BalancesOf(recv), S) \in Int
<1>1. IsFiniteSet(S) /\ IsFiniteSet(R)
  BY FiniteRows, FS_Subset
<1>2. \A r \in Receivables : BalancesOf(recv)[r] \in Int
  <2> TAKE r \in Receivables
  <2>1. recv[r].paid \in Int /\ recv[r].adjusted \in Int
    BY RowType DEF TypeOK
  <2> QED
    BY <2>1 DEF BalancesOf
<1> DEFINE f == BalancesOf(recv)
<1>3. /\ \A r \in S \cup R : f[r] \in Int
      /\ \A r \in S : f[r] \in Int
  BY <1>2
<1> HIDE DEF f
<1>4. SumOf(f, S \cup R) = SumOf(f, S) + SumOf(f, R)
  BY <1>1, <1>3, SumDisjoint
<1>5. SumOf(f, S) \in Int
  BY <1>1, <1>3, SumType
<1> QED
  BY <1>4, <1>5 DEF f

\* Receivables that are paid add nothing to a balance.
LEMMA BalanceWithout ==
  ASSUME TypeOK, NEW S \in SUBSET Receivables, NEW R \in SUBSET Receivables,
         S \subseteq R, \A r \in R \ S : recv[r].paid = recv[r].adjusted
  PROVE  SumOf(BalancesOf(recv), R) = SumOf(BalancesOf(recv), S)
<1> DEFINE T == R \ S
<1>1. T \in SUBSET Receivables /\ S \cap T = {} /\ R = S \cup T
  OBVIOUS
<1>2. SumOf(BalancesOf(recv), T) = 0
  <2>1. \A r \in T : recv[r].paid = recv[r].adjusted
    OBVIOUS
  <2> HIDE DEF T
  <2> QED
    BY <1>1, <2>1, NothingOutstanding
<1> HIDE DEF T
<1>3. /\ SumOf(BalancesOf(recv), S \cup T)
           = SumOf(BalancesOf(recv), S) + SumOf(BalancesOf(recv), T)
      /\ SumOf(BalancesOf(recv), S) \in Int
  BY <1>1, BalanceParts
<1> QED
  BY <1>1, <1>2, <1>3

LEMMA BalanceOfIs ==
  ASSUME NEW S \in SUBSET Receivables
  PROVE  BalanceOf(S) = SumOf(BalancesOf(recv), S)
BY BalanceSum DEF BalanceOf, Balance

\* What was paid and what is due make up what the receivables are worth.
LEMMA RevenueIs ==
  ASSUME TypeOK, CashInSum, StatusMatchesAmounts
  PROVE  CashBalance + SumOf(BalancesOf(recv), NotCancelled) = Revenue
<1> DEFINE paid == PaidOf(recv)
           due == BalancesOf(recv)
           worth == AdjustedOf(recv)
           R == Receivables \ NotCancelled
<1>1. NotCancelled \in SUBSET Receivables /\ NotReversed \in SUBSET Payments
  BY DEF NotCancelled, NotReversed
<1>2. \A r \in Receivables : paid[r] \in Int /\ due[r] \in Int /\ worth[r] = paid[r] + due[r]
  <2> TAKE r \in Receivables
  <2>1. recv[r].paid \in Int /\ recv[r].adjusted \in Int
    BY RowType DEF TypeOK
  <2> QED
    BY <2>1 DEF PaidOf, BalancesOf, AdjustedOf
<1>3. CashBalance = SumOf(paid, Receivables)
  BY <1>1, AmountSum DEF CashBalance, CashInSum
<1>4. Revenue = SumOf(worth, NotCancelled)
  BY <1>1, AdjustedSum DEF Revenue
<1>5. \A r \in R : paid[r] = 0
  BY DEF StatusMatchesAmounts, RowCheck, NotCancelled, PaidOf
<1>6. IsFiniteSet(NotCancelled) /\ IsFiniteSet(R)
  BY FiniteRows, FS_Subset DEF NotCancelled
<1>7. NotCancelled \cap R = {} /\ Receivables = NotCancelled \cup R
  BY <1>1
<1> HIDE DEF paid, due, worth, R
<1>8. SumOf(worth, NotCancelled) = SumOf(paid, NotCancelled) + SumOf(due, NotCancelled)
  BY <1>1, <1>2, <1>6, SumPlus
<1>9. SumOf(paid, Receivables) = SumOf(paid, NotCancelled) + SumOf(paid, R)
  <2>1. \A r \in NotCancelled \cup R : paid[r] \in Int
    BY <1>2, <1>7
  <2> QED
    BY <1>6, <1>7, <2>1, SumDisjoint
<1>10. SumOf(paid, R) = 0
  BY <1>5, <1>6, SumOfZeros
<1>11. SumOf(paid, NotCancelled) \in Int
  BY <1>1, <1>2, <1>6, SumType
<1>12. SumOf(paid, Receivables) = SumOf(paid, NotCancelled)
  BY <1>9, <1>10, <1>11
<1> QED
  BY <1>3, <1>4, <1>8, <1>12 DEF due

LEMMA ReportsFollow ==
  ASSUME TypeOK, CashInSum, StatusMatchesAmounts
  PROVE  ReportsAgree
<1>0. /\ NotCancelled \in SUBSET Receivables
      /\ \A r \in Receivables : recv[r].status \in {"PENDENTE", "PARCIAL", "PAGO", "CANCELADO"}
      /\ \A r \in Receivables : recv[r].status = "PAGO" => recv[r].paid = recv[r].adjusted
  BY RowType DEF NotCancelled, TypeOK, StatusMatchesAmounts, RowCheck
<1>1. ReceivablesPending = SumOf(BalancesOf(recv), NotCancelled)
  BY <1>0, BalanceOfIs DEF ReceivablesPending
<1>2. CashBalance + ReceivablesPending = Revenue
  BY <1>1, RevenueIs
<1>3. ClosingBalance = Revenue
  <2> DEFINE S == {r \in Receivables : recv[r].status \in {"PENDENTE", "PARCIAL"}}
  <2>1. S \in SUBSET Receivables /\ S \subseteq NotCancelled
        /\ \A r \in NotCancelled \ S : recv[r].paid = recv[r].adjusted
    BY <1>0 DEF NotCancelled
  <2>2. ClosingBalance = CashBalance + BalanceOf(S)
    BY DEF ClosingBalance
  <2> HIDE DEF S
  <2>3. BalanceOf(S) = SumOf(BalancesOf(recv), NotCancelled)
    BY <1>0, <2>1, BalanceWithout, BalanceOfIs
  <2> QED
    BY <2>2, <2>3, RevenueIs
<1>4. ASSUME NEW due \in [Receivables -> {Midnight(0), Midnight(1)}]
      PROVE  LET today == Midnight(1) IN
             /\ Overdue(due, today + 1) = ReceivablesOverdue(due, today)
             /\ ReceivablesPending = ReceivablesOverdue(due, today) + ExpectedInflows(due, today)
  <2> DEFINE today == Midnight(1)
             late == {r \in NotCancelled : due[r] < today /\ recv[r].status \in Owing}
             later == {r \in NotCancelled : due[r] >= today}
  <2>0. \A r \in Receivables : due[r] \in Int
    BY DEF Midnight
  <2>1. {r \in NotCancelled : ComputedStatus(recv[r].status, due[r], today + 1) = "ATRASADO"} = late
    <3>1. StartOfUtcDay(today + 1) = today
      BY DEF StartOfUtcDay, Midnight
    <3> HIDE DEF today
    <3> QED
      BY <1>0, <3>1 DEF ComputedStatus
  <2>2. /\ late \in SUBSET Receivables /\ later \in SUBSET Receivables
        /\ late \cap later = {}
        /\ late \cup later \subseteq NotCancelled
        /\ \A r \in NotCancelled \ (late \cup later) : recv[r].paid = recv[r].adjusted
    <3>1. today \in Int
      BY DEF Midnight
    <3> HIDE DEF today
    <3> QED
      BY <1>0, <2>0, <3>1 DEF Owing, NotCancelled
  <2>3. /\ Overdue(due, today + 1) = BalanceOf(late)
        /\ ReceivablesOverdue(due, today) = BalanceOf(late)
        /\ ExpectedInflows(due, today) = BalanceOf(later)
    BY <2>1 DEF Overdue, ReceivablesOverdue, ExpectedInflows
  <2> HIDE DEF late, later
  <2>4. /\ BalanceOf(late) = SumOf(BalancesOf(recv), late)
        /\ BalanceOf(later) = SumOf(BalancesOf(recv), later)
        /\ SumOf(BalancesOf(recv), late \cup later)
             = SumOf(BalancesOf(recv), late) + SumOf(BalancesOf(recv), later)
        /\ SumOf(BalancesOf(recv), NotCancelled) = SumOf(BalancesOf(recv), late \cup later)
    <3>1. late \cup later \in SUBSET Receivables
      BY <2>2
    <3> QED
      BY <1>0, <2>2, <3>1, BalanceOfIs, BalanceParts, BalanceWithout
  <2> QED
    BY <1>1, <2>3, <2>4
<1> QED
  BY <1>2, <1>3, <1>4 DEF ReportsAgree

\* splitAmount, whatever the price and the number of instalments.
THEOREM SplitLosesNothing == SplitAddsUp
<1> SUFFICES ASSUME NEW cents \in 1..MaxSplit, NEW count \in 1..cents
             PROVE  LET part == SplitAmount(cents, count) IN
                    /\ Sum(LAMBDA k : part[k], 1..count) = cents
                    /\ \A k \in 1..count : part[k] >= 1 /\ part[count] - part[k] \in 0..(count - 1)
  BY DEF SplitAddsUp
<1> PICK part : part = SplitAmount(cents, count)
  OBVIOUS
<1>1. cents \in Nat /\ count \in 1..cents
  OBVIOUS
<1>2. /\ part \in [1..count -> 1..cents]
      /\ \A k \in 1..count : part[count] - part[k] \in 0..(count - 1)
      /\ SumOf(part, 1..count) = cents
  BY <1>1, SplitParts
<1>3. \A k \in 1..count : part[k] >= 1
  BY <1>1, <1>2
<1>4. Sum(LAMBDA k : part[k], 1..count) = cents
  <2> DEFINE A(g) == g = [s \in SUBSET (1..count) |->
                            IF s = {} THEN 0 ELSE part[Chosen(s)] + g[s \ {Chosen(s)}]]
  <2>2. Sum(LAMBDA k : part[k], 1..count) = (CHOOSE g : A(g))[1..count]
    BY DEF Sum, MapThenSumSet, MapThenFoldSet, Chosen
  <2>3. (CHOOSE g : A(g)) = (CHOOSE g : Adds(g, part, 1..count))
    BY DEF Adds
  <2>1. Sum(LAMBDA k : part[k], 1..count) = SumOf(part, 1..count)
    BY <2>2, <2>3, SumOfIsAdds
  <2> QED
    BY <1>2, <2>1
<1> QED
  BY <1>2, <1>3, <1>4

LEMMA LastDayType ==
  ASSUME NEW month \in Nat
  PROVE  LastDay(month) \in 28..31
<1>1. LastDay(month) \in {28, 29, 30, 31}
  BY DEF LastDay
<1> QED
  BY <1>1

\* addUtcMonths, whatever the month the schedule begins in.
THEOREM MonthsKeepTheDay == DueDatesKept
<1> SUFFICES ASSUME NEW first \in Dates(0..MaxMonth), NEW interval \in 1..3, NEW k \in 1..12
             PROVE  LET due == AddMonths(first, k * interval)
                        before == AddMonths(first, (k - 1) * interval)
                    IN /\ due \in Dates({due.month}) /\ due.month > before.month
                       /\ first.day <= LastDay(due.month) => due.day = first.day
  BY DEF DueDatesKept
<1> DEFINE month == first.month + k * interval
           earlier == first.month + (k - 1) * interval
           last == LastDay(month)
           day == IF first.day > last THEN last ELSE first.day
           due == [month |-> month, day |-> day]
<1>1. first.month \in Nat /\ first.day \in 1..31
  BY DEF Dates
<1>2. /\ k * interval \in Nat
      /\ (k - 1) * interval \in Nat
      /\ (k - 1) * interval < k * interval
  OBVIOUS
<1>3. month \in Nat /\ earlier \in Nat /\ earlier < month
  BY <1>1, <1>2
<1> HIDE DEF month, earlier
<1>4. last \in 28..31
  BY <1>3, LastDayType
<1>5. /\ AddMonths(first, k * interval) = due
      /\ AddMonths(first, (k - 1) * interval).month = earlier
  BY DEF AddMonths, month, earlier
<1>6. day \in 1..31 /\ day <= last /\ (first.day <= last => day = first.day)
  <2>1. \A d \in 1..31, l \in 28..31 :
          /\ (IF d > l THEN l ELSE d) \in 1..31
          /\ (IF d > l THEN l ELSE d) <= l
          /\ d <= l => (IF d > l THEN l ELSE d) = d
    OBVIOUS
  <2> HIDE DEF last
  <2> QED
    BY <1>1, <1>4, <2>1
<1> HIDE DEF day
<1>7. due \in Dates({month}) /\ due.month = month /\ due.day = day
  BY <1>6 DEF Dates
<1> HIDE DEF due
<1> QED
  BY <1>3, <1>5, <1>6, <1>7

-----------------------------------------------------------------------------
(* The lists by status.                                                    *)

LEMMA SpreadIs ==
  ASSUME NEW bounds, NEW range
  PROVE  /\ Spread(bounds, range).gte = IF range.gte # Null THEN range.gte ELSE bounds.gte
         /\ Spread(bounds, range).lt = IF range.lt # Null THEN range.lt ELSE bounds.lt
BY DEF Spread

LEMMA ReceivablesListed ==
  ASSUME NEW status \in Stored, NEW filter \in Filters, NEW due \in DueDates,
         NEW now \in Instants, NEW range \in DateRanges, Narrows(range, filter, now)
  PROVE  Listed(status, due, filter, range, now)
           <=> ComputedStatus(status, due, now) = filter /\ Within(due, range)
<1> DEFINE today == StartOfUtcDay(now)
           bounds == DueFor(filter, now)
           gte == range.gte
           lt == range.lt
<1>1. today \in Int /\ due \in Int
  BY DEF StartOfUtcDay, Instants, DueDates, Midnight, Days
<1>2. gte \in Int \cup {Null} /\ lt \in Int \cup {Null}
  BY DEF DateRanges, DateRange, Midnight, Days
<1>3. bounds = [gte |-> IF filter \in Owing THEN today ELSE Null,
                lt  |-> IF filter = "ATRASADO" THEN today ELSE Null]
  BY DEF DueFor
<1>4. /\ gte # Null /\ bounds.gte # Null => gte >= bounds.gte
      /\ lt # Null /\ bounds.lt # Null => lt <= bounds.lt
  BY DEF Narrows
<1>5. Within(due, Spread(bounds, range)) <=>
        /\ (IF gte # Null THEN gte ELSE bounds.gte) # Null
             => due >= (IF gte # Null THEN gte ELSE bounds.gte)
        /\ (IF lt # Null THEN lt ELSE bounds.lt) # Null
             => due < (IF lt # Null THEN lt ELSE bounds.lt)
  BY SpreadIs DEF Within
<1>6. Within(due, range) <=> (gte # Null => due >= gte) /\ (lt # Null => due < lt)
  BY DEF Within
<1>7. today # Null
  BY <1>1, DayAssumption
<1>8. ComputedStatus(status, due, now)
        = IF status \in Owing /\ due < today THEN "ATRASADO" ELSE status
  BY DEF ComputedStatus
<1>9. Listed(status, due, filter, range, now)
        <=> status \in StatusesFor(filter) /\ Within(due, Spread(bounds, range))
  BY DEF Listed
<1> HIDE DEF today, bounds, gte, lt
<1>10. CASE filter = "ATRASADO"
  <2>1. bounds.gte = Null /\ bounds.lt = today
    BY <1>3, <1>10 DEF Owing
  <2>2. Within(due, Spread(bounds, range)) <=> Within(due, range) /\ due < today
    BY <1>1, <1>2, <1>4, <1>5, <1>6, <1>7, <2>1
  <2> QED
    BY <1>8, <1>9, <1>10, <2>2 DEF StatusesFor, Stored, Owing
<1>11. CASE filter \in Owing
  <2>1. bounds.gte = today /\ bounds.lt = Null
    BY <1>3, <1>11 DEF Owing
  <2>2. Within(due, Spread(bounds, range)) <=> Within(due, range) /\ due >= today
    BY <1>1, <1>2, <1>4, <1>5, <1>6, <1>7, <2>1
  <2>3. due >= today <=> ~(due < today)
    BY <1>1
  <2> QED
    BY <1>8, <1>9, <1>11, <2>2, <2>3 DEF StatusesFor, Stored, Owing
<1>12. CASE filter \in {"PAGO", "CANCELADO"}
  <2>1. bounds.gte = Null /\ bounds.lt = Null
    BY <1>3, <1>12 DEF Owing
  <2>2. Within(due, Spread(bounds, range)) <=> Within(due, range)
    BY <1>5, <1>6, <2>1
  <2> QED
    BY <1>8, <1>9, <1>12, <2>2 DEF StatusesFor, Stored, Owing
<1> QED
  BY <1>10, <1>11, <1>12 DEF Filters, Stored

LEMMA ReturnsListed ==
  ASSUME NEW status \in ReturnStatuses, NEW due \in DueDates, NEW now \in Instants
  PROVE  LET shown == ComputedReturnStatus(status, due, now) IN
         /\ \A filter \in ReturnStatuses \cup {"ATRASADO"} :
              CalculatedStatusWhere(status, due, filter, now) <=> shown = filter
         /\ InOverdueReport(status, due, now) <=>
              shown = "ATRASADO" /\ due # StartOfUtcDay(now)
<1> DEFINE shown == ComputedReturnStatus(status, due, now)
           today == StartOfUtcDay(now)
<1>1. now \in Int /\ due \in Int /\ due % 2 = 0
  <2>1. \A d \in Int : (2 * d) % 2 = 0
    OBVIOUS
  <2> QED
    BY <2>1 DEF Instants, DueDates, Midnight, Days
<1>2. shown = IF status = "PENDENTE" /\ due < now THEN "ATRASADO" ELSE status
  BY DEF ComputedReturnStatus
<1>3. due < today <=> due < now /\ due # today
  <2>1. \A d, n \in Int : d % 2 = 0 => (d < n - (n % 2) <=> d < n /\ d # n - (n % 2))
    OBVIOUS
  <2> QED
    BY <1>1, <2>1 DEF StartOfUtcDay
<1>4. due >= now <=> ~(due < now)
  BY <1>1
<1> HIDE DEF shown, today
<1>5. ASSUME NEW filter \in ReturnStatuses \cup {"ATRASADO"}
      PROVE  CalculatedStatusWhere(status, due, filter, now) <=> shown = filter
  <2>1. CASE filter = "PAGO"
    BY <1>2, <2>1 DEF CalculatedStatusWhere, ReturnStatuses
  <2>2. CASE filter = "PENDENTE"
    BY <1>2, <1>4, <2>2 DEF CalculatedStatusWhere, ReturnStatuses
  <2>3. CASE filter = "ATRASADO"
    BY <1>2, <2>3 DEF CalculatedStatusWhere, ReturnStatuses
  <2> QED
    BY <2>1, <2>2, <2>3 DEF ReturnStatuses
<1>6. InOverdueReport(status, due, now) <=> shown = "ATRASADO" /\ due # today
  BY <1>2, <1>3 DEF InOverdueReport, ReturnStatuses, today
<1> QED
  BY <1>5, <1>6 DEF shown, today

\* buildWhere and toCalculatedStatusWhere, whatever days are asked for.
THEOREM ListsAgreeAlways == ListsAgree
BY ReceivablesListed, ReturnsListed DEF ListsAgree

-----------------------------------------------------------------------------
(* The whole ledger.                                                       *)

\* The receivables of a sale were worth its price, and the original amount of
\* one never changes.
LEMMA PriceKept == Spec => [](SumOf(OriginalOf(recv), Receivables) = Price)
<1> DEFINE PriceHolds == SumOf(OriginalOf(recv), Receivables) = Price
<1>1. Init => PriceHolds
  BY InitInv
<1>2. IInv /\ PriceHolds /\ [Next]_vars => PriceHolds'
  <2> SUFFICES ASSUME IInv, PriceHolds, [Next]_vars PROVE PriceHolds'
    OBVIOUS
  <2>1. \A r \in Receivables : recv'[r].original = recv[r].original
    BY StepKeeps
  <2>2. \A r \in Receivables : recv[r].original \in Int
    BY RowType DEF IInv, TypeOK
  <2>3. \A r \in Receivables :
          /\ OriginalOf(recv)[r] \in Int
          /\ OriginalOf(recv)[r] = OriginalOf(recv')[r]
    BY <2>1, <2>2 DEF OriginalOf
  <2>4. SumOf(OriginalOf(recv), Receivables) = SumOf(OriginalOf(recv'), Receivables)
    BY <2>3, FiniteRows, SumSame
  <2> QED
    BY <2>4 DEF OriginalOf
<1> HIDE DEF PriceHolds
<1>3. Spec => []PriceHolds
  BY <1>1, <1>2, Inductive, PTL DEF Spec
<1> QED
  BY <1>3 DEF PriceHolds

\* What receivables say was paid, their status, their corrections and the
\* reports agree with the payments, however receipts, reversals, corrections
\* and the distrato interleave (recordPayment, reversePayment, apply,
\* finance.service.ts).
THEOREM LedgerHolds == Spec => []LedgerConsistent
<1>1. ASSUME IInv, SumOf(OriginalOf(recv), Receivables) = Price
      PROVE  LedgerConsistent
  <2>0. TypeOK /\ PaidInSum /\ CashInSum /\ StatusMatchesAmounts /\ CorrectedInSum
    BY <1>1 DEF IInv, Ledger
  <2>1. PaidIsSumOfPayments
    <3> SUFFICES ASSUME NEW r \in Receivables
                 PROVE  recv[r].paid = Sum(LAMBDA x : pmt[x].amount, LivePayments(r))
      BY DEF PaidIsSumOfPayments
    <3>1. LivePayments(r) \in SUBSET Payments
      BY DEF LivePayments
    <3>2. recv[r].paid = SumOf(AmountOf(pmt), LivePayments(r))
      BY <2>0 DEF PaidInSum
    <3> QED
      BY <3>1, <3>2, AmountSum
  <2>2. CorrectionsAddUp
    <3> SUFFICES ASSUME NEW r \in Receivables
                 PROVE  recv[r].adjusted =
                          recv[r].original + Sum(LAMBDA p : recv[r].applied[p],
                                                 {p \in Periods : recv[r].applied[p] # Null})
      BY DEF CorrectionsAddUp
    <3> DEFINE S == {p \in Periods : recv[r].applied[p] # Null}
    <3>1. S \in SUBSET Periods
      OBVIOUS
    <3>2. recv[r].adjusted = recv[r].original + SumOf(recv[r].applied, S)
      BY <2>0 DEF CorrectedInSum, Corrections
    <3> HIDE DEF S
    <3>3. Sum(LAMBDA p : recv[r].applied[p], S) = SumOf(recv[r].applied, S)
      BY <3>1, AppliedSum
    <3> QED
      BY <3>2, <3>3 DEF S
  <2>3. PriceDistributed
    <3>1. Receivables \in SUBSET Receivables
      OBVIOUS
    <3> QED
      BY <1>1, <3>1, OriginalSum DEF PriceDistributed
  <2> QED
    BY <2>0, <2>1, <2>2, <2>3, ReportsFollow, SplitLosesNothing, MonthsKeepTheDay,
       ListsAgreeAlways DEF LedgerConsistent
<1> DEFINE PriceHolds == SumOf(OriginalOf(recv), Receivables) = Price
<1>2. IInv /\ PriceHolds => LedgerConsistent
  BY <1>1
<1>3. Spec => []PriceHolds
  BY PriceKept
<1> HIDE DEF PriceHolds
<1> QED
  BY <1>2, <1>3, Inductive, PTL
=============================================================================
