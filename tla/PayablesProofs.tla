--------------------------- MODULE PayablesProofs ---------------------------
(***************************************************************************)
(* The accounts payable, for any number of accounts, payments and requests: *)
(* paid amounts are the sums of the payments, the reports add up, a return *)
(* says what its account says, and what is closed stays closed.  The       *)
(* inductive invariant says what a handler that read without a lock can    *)
(* still rely on, and that a commission is older than its account.         *)
(***************************************************************************)
EXTENDS FiniteSums, Payables

-----------------------------------------------------------------------------
(* The inductive invariant.                                                *)

\* The sums of the ledger, as sums of functions.
AmountOf(rows) == [x \in Payments |-> rows[x].amount]
PaidOf(rows) == [p \in Payables |-> rows[p].paid]
OriginalOf(rows) == [p \in Payables |-> rows[p].original]
BalancesOf(rows) == [p \in Payables |-> rows[p].original - rows[p].paid]
ExpectedOf(rows) == [r \in Returns |-> rows[r].expected]
RealizedOf(rows) == [r \in Returns |-> rows[r].realized]
ExpectedCentsOf(rows) == [r \in Returns |-> MoneyToCents(rows[r].expected)]
RealizedCentsOf(rows) == [r \in Returns |-> MoneyToCents(rows[r].realized)]

PaidInSum ==
  \A p \in Payables : pay[p].paid = SumOf(AmountOf(pmt), LivePayments(p))

CashInSum == SumOf(AmountOf(pmt), NotReversed) = SumOf(PaidOf(pay), Payables)

Ledger == PaidInSum /\ CashInSum /\ StatusMatchesAmounts

\* The account of a return is never cancelled.
ReturnsStay == \A r \in Returns : pay[r].status # "CANCELADO"

\* An account is opened for a commission that exists, and none that is open
\* belongs to a cancelled one.
CommissionsOpened ==
  \A c \in Commissions :
    /\ pay[c].status # "ABSENT" => comm[c].status # "ABSENT"
    /\ comm[c].status = "CANCELADA" => pay[c].status \in {"ABSENT", "CANCELADO"}

Sources == ReturnFollowsPayable /\ ReturnsStay /\ CommissionsOpened

\* What a handler read is there when it commits, and what a snapshot was
\* checked for.
ReadHolds(t) ==
  /\ t.op = "update" => pay[t.pay].status # "ABSENT"
  /\ t.op = "due" => comm[t.comm].status # "ABSENT"
  /\ t.op = "distrato" =>
       /\ \A c \in CommissionsIn(t.comm, t.sale) : t.pay[c].paid = 0
       /\ \A c \in Commissions :
            t.comm[c].status # "ABSENT" =>
              comm[c].status # "ABSENT" /\ comm[c].sale = t.comm[c].sale

ReadsHold == \A q \in Requests : ReadHolds(tx[q])

IInv == TypeOK /\ Ledger /\ Sources /\ ReadsHold

-----------------------------------------------------------------------------
(* The sums of the model, as sums of functions.                            *)

LEMMA AmountSum ==
  ASSUME NEW rows, NEW S \in SUBSET Payments
  PROVE  Sum(LAMBDA x : rows[x].amount, S) = SumOf(AmountOf(rows), S)
<1> DEFINE f == AmountOf(rows)
           A(g) == g = [s \in SUBSET S |->
                          IF s = {} THEN 0
                          ELSE rows[Chosen(s)].amount + g[s \ {Chosen(s)}]]
<1>1. \A s \in SUBSET S : s # {} => f[Chosen(s)] = rows[Chosen(s)].amount
  BY ChosenMember DEF AmountOf
<1>2. ASSUME NEW g
      PROVE  A(g) <=> Adds(g, f, S)
  <2> HIDE DEF f
  <2>1. \A s \in SUBSET S :
          (IF s = {} THEN 0 ELSE rows[Chosen(s)].amount + g[s \ {Chosen(s)}])
            = IF s = {} THEN 0 ELSE f[Chosen(s)] + g[s \ {Chosen(s)}]
    BY <1>1
  <2> QED
    BY <2>1 DEF Adds
<1>3. Sum(LAMBDA x : rows[x].amount, S) = (CHOOSE g : A(g))[S]
  BY DEF Sum, MapThenSumSet, MapThenFoldSet, Chosen
<1>4. (CHOOSE g : A(g)) = (CHOOSE g : Adds(g, f, S))
  <2> HIDE DEF A, f
  <2> QED
    BY <1>2
<1> QED
  BY <1>3, <1>4, SumOfIsAdds

LEMMA OriginalSum ==
  ASSUME NEW rows, NEW S \in SUBSET Payables
  PROVE  Sum(LAMBDA p : rows[p].original, S) = SumOf(OriginalOf(rows), S)
<1> DEFINE f == OriginalOf(rows)
           A(g) == g = [s \in SUBSET S |->
                          IF s = {} THEN 0
                          ELSE rows[Chosen(s)].original + g[s \ {Chosen(s)}]]
<1>1. \A s \in SUBSET S : s # {} => f[Chosen(s)] = rows[Chosen(s)].original
  BY ChosenMember DEF OriginalOf
<1>2. ASSUME NEW g
      PROVE  A(g) <=> Adds(g, f, S)
  <2> HIDE DEF f
  <2>1. \A s \in SUBSET S :
          (IF s = {} THEN 0 ELSE rows[Chosen(s)].original + g[s \ {Chosen(s)}])
            = IF s = {} THEN 0 ELSE f[Chosen(s)] + g[s \ {Chosen(s)}]
    BY <1>1
  <2> QED
    BY <2>1 DEF Adds
<1>3. Sum(LAMBDA p : rows[p].original, S) = (CHOOSE g : A(g))[S]
  BY DEF Sum, MapThenSumSet, MapThenFoldSet, Chosen
<1>4. (CHOOSE g : A(g)) = (CHOOSE g : Adds(g, f, S))
  <2> HIDE DEF A, f
  <2> QED
    BY <1>2
<1> QED
  BY <1>3, <1>4, SumOfIsAdds

LEMMA BalanceSum ==
  ASSUME NEW rows, NEW S \in SUBSET Payables
  PROVE  Sum(LAMBDA p : rows[p].original - rows[p].paid, S) = SumOf(BalancesOf(rows), S)
<1> DEFINE f == BalancesOf(rows)
           A(g) == g = [s \in SUBSET S |->
                          IF s = {} THEN 0
                          ELSE (rows[Chosen(s)].original - rows[Chosen(s)].paid) + g[s \ {Chosen(s)}]]
<1>1. \A s \in SUBSET S : s # {} => f[Chosen(s)] = (rows[Chosen(s)].original - rows[Chosen(s)].paid)
  BY ChosenMember DEF BalancesOf
<1>2. ASSUME NEW g
      PROVE  A(g) <=> Adds(g, f, S)
  <2> HIDE DEF f
  <2>1. \A s \in SUBSET S :
          (IF s = {} THEN 0 ELSE (rows[Chosen(s)].original - rows[Chosen(s)].paid) + g[s \ {Chosen(s)}])
            = IF s = {} THEN 0 ELSE f[Chosen(s)] + g[s \ {Chosen(s)}]
    BY <1>1
  <2> QED
    BY <2>1 DEF Adds
<1>3. Sum(LAMBDA p : rows[p].original - rows[p].paid, S) = (CHOOSE g : A(g))[S]
  BY DEF Sum, MapThenSumSet, MapThenFoldSet, Chosen
<1>4. (CHOOSE g : A(g)) = (CHOOSE g : Adds(g, f, S))
  <2> HIDE DEF A, f
  <2> QED
    BY <1>2
<1> QED
  BY <1>3, <1>4, SumOfIsAdds

LEMMA ExpectedSum ==
  ASSUME NEW rows, NEW S \in SUBSET Returns
  PROVE  Sum(LAMBDA r : rows[r].expected, S) = SumOf(ExpectedOf(rows), S)
<1> DEFINE f == ExpectedOf(rows)
           A(g) == g = [s \in SUBSET S |->
                          IF s = {} THEN 0
                          ELSE rows[Chosen(s)].expected + g[s \ {Chosen(s)}]]
<1>1. \A s \in SUBSET S : s # {} => f[Chosen(s)] = rows[Chosen(s)].expected
  BY ChosenMember DEF ExpectedOf
<1>2. ASSUME NEW g
      PROVE  A(g) <=> Adds(g, f, S)
  <2> HIDE DEF f
  <2>1. \A s \in SUBSET S :
          (IF s = {} THEN 0 ELSE rows[Chosen(s)].expected + g[s \ {Chosen(s)}])
            = IF s = {} THEN 0 ELSE f[Chosen(s)] + g[s \ {Chosen(s)}]
    BY <1>1
  <2> QED
    BY <2>1 DEF Adds
<1>3. Sum(LAMBDA r : rows[r].expected, S) = (CHOOSE g : A(g))[S]
  BY DEF Sum, MapThenSumSet, MapThenFoldSet, Chosen
<1>4. (CHOOSE g : A(g)) = (CHOOSE g : Adds(g, f, S))
  <2> HIDE DEF A, f
  <2> QED
    BY <1>2
<1> QED
  BY <1>3, <1>4, SumOfIsAdds

LEMMA RealizedSum ==
  ASSUME NEW rows, NEW S \in SUBSET Returns
  PROVE  Sum(LAMBDA r : rows[r].realized, S) = SumOf(RealizedOf(rows), S)
<1> DEFINE f == RealizedOf(rows)
           A(g) == g = [s \in SUBSET S |->
                          IF s = {} THEN 0
                          ELSE rows[Chosen(s)].realized + g[s \ {Chosen(s)}]]
<1>1. \A s \in SUBSET S : s # {} => f[Chosen(s)] = rows[Chosen(s)].realized
  BY ChosenMember DEF RealizedOf
<1>2. ASSUME NEW g
      PROVE  A(g) <=> Adds(g, f, S)
  <2> HIDE DEF f
  <2>1. \A s \in SUBSET S :
          (IF s = {} THEN 0 ELSE rows[Chosen(s)].realized + g[s \ {Chosen(s)}])
            = IF s = {} THEN 0 ELSE f[Chosen(s)] + g[s \ {Chosen(s)}]
    BY <1>1
  <2> QED
    BY <2>1 DEF Adds
<1>3. Sum(LAMBDA r : rows[r].realized, S) = (CHOOSE g : A(g))[S]
  BY DEF Sum, MapThenSumSet, MapThenFoldSet, Chosen
<1>4. (CHOOSE g : A(g)) = (CHOOSE g : Adds(g, f, S))
  <2> HIDE DEF A, f
  <2> QED
    BY <1>2
<1> QED
  BY <1>3, <1>4, SumOfIsAdds

LEMMA ExpectedCentsSum ==
  ASSUME NEW rows, NEW S \in SUBSET Returns
  PROVE  Sum(LAMBDA r : MoneyToCents(rows[r].expected), S)
           = SumOf(ExpectedCentsOf(rows), S)
<1> DEFINE f == ExpectedCentsOf(rows)
           A(g) == g = [s \in SUBSET S |->
                          IF s = {} THEN 0
                          ELSE MoneyToCents(rows[Chosen(s)].expected) + g[s \ {Chosen(s)}]]
<1>1. \A s \in SUBSET S : s # {} => f[Chosen(s)] = MoneyToCents(rows[Chosen(s)].expected)
  BY ChosenMember DEF ExpectedCentsOf
<1>2. ASSUME NEW g
      PROVE  A(g) <=> Adds(g, f, S)
  <2> HIDE DEF f
  <2>1. \A s \in SUBSET S :
          (IF s = {} THEN 0 ELSE MoneyToCents(rows[Chosen(s)].expected) + g[s \ {Chosen(s)}])
            = IF s = {} THEN 0 ELSE f[Chosen(s)] + g[s \ {Chosen(s)}]
    BY <1>1
  <2> QED
    BY <2>1 DEF Adds
<1>3. Sum(LAMBDA r : MoneyToCents(rows[r].expected), S) = (CHOOSE g : A(g))[S]
  BY DEF Sum, MapThenSumSet, MapThenFoldSet, Chosen
<1>4. (CHOOSE g : A(g)) = (CHOOSE g : Adds(g, f, S))
  <2> HIDE DEF A, f
  <2> QED
    BY <1>2
<1> QED
  BY <1>3, <1>4, SumOfIsAdds

LEMMA RealizedCentsSum ==
  ASSUME NEW rows, NEW S \in SUBSET Returns
  PROVE  Sum(LAMBDA r : MoneyToCents(rows[r].realized), S)
           = SumOf(RealizedCentsOf(rows), S)
<1> DEFINE f == RealizedCentsOf(rows)
           A(g) == g = [s \in SUBSET S |->
                          IF s = {} THEN 0
                          ELSE MoneyToCents(rows[Chosen(s)].realized) + g[s \ {Chosen(s)}]]
<1>1. \A s \in SUBSET S : s # {} => f[Chosen(s)] = MoneyToCents(rows[Chosen(s)].realized)
  BY ChosenMember DEF RealizedCentsOf
<1>2. ASSUME NEW g
      PROVE  A(g) <=> Adds(g, f, S)
  <2> HIDE DEF f
  <2>1. \A s \in SUBSET S :
          (IF s = {} THEN 0 ELSE MoneyToCents(rows[Chosen(s)].realized) + g[s \ {Chosen(s)}])
            = IF s = {} THEN 0 ELSE f[Chosen(s)] + g[s \ {Chosen(s)}]
    BY <1>1
  <2> QED
    BY <2>1 DEF Adds
<1>3. Sum(LAMBDA r : MoneyToCents(rows[r].realized), S) = (CHOOSE g : A(g))[S]
  BY DEF Sum, MapThenSumSet, MapThenFoldSet, Chosen
<1>4. (CHOOSE g : A(g)) = (CHOOSE g : Adds(g, f, S))
  <2> HIDE DEF A, f
  <2> QED
    BY <1>2
<1> QED
  BY <1>3, <1>4, SumOfIsAdds

-----------------------------------------------------------------------------
(* Roundings.                                                              *)

\* Rounding to the cent is half a cent off at most, and the two ways in which it
\* is done differ by a cent.
LEMMA Roundings ==
  ASSUME NEW a \in Nat
  PROVE  /\ MoneyToCents(a) \in Nat
         /\ MoneyToCents(a) * (2 * Parts) - a * 2 <= Parts
         /\ a * 2 - MoneyToCents(a) * (2 * Parts) <= Parts
         /\ ToDecimal(a) \in Nat
         /\ \/ ToDecimal(a) = MoneyToCents(a)
            \/ ToDecimal(a) = MoneyToCents(a) + 1
<1>1. /\ Parts \in Nat \ {0}
      /\ a \div Parts \in Nat
      /\ a % Parts \in Nat
  BY PartsAssumption, DivisionParts
<1>2. \/ MoneyToCents(a) = a \div Parts /\ 2 * (a % Parts) <= Parts
      \/ MoneyToCents(a) = (a \div Parts) + 1 /\ 2 * (a % Parts) >= Parts
  BY <1>1 DEF MoneyToCents, AboveHalf, AtHalf
<1>3. /\ MoneyToCents(a) \in Nat
      /\ MoneyToCents(a) * (2 * Parts) - a * 2 <= Parts
      /\ a * 2 - MoneyToCents(a) * (2 * Parts) <= Parts
  BY <1>1, <1>2, NearestWhole
<1>4. /\ ToDecimal(a) \in Nat
      /\ ToDecimal(a) = MoneyToCents(a) \/ ToDecimal(a) = MoneyToCents(a) + 1
  BY <1>1 DEF ToDecimal, MoneyToCents
<1> QED
  BY <1>3, <1>4

LEMMA RoundedAs ==
  ASSUME NEW c \in Int, NEW a \in Int, NEW n \in Int,
         c * (2 * Parts) - a * 2 <= Parts * n,
         a * 2 - c * (2 * Parts) <= Parts * n
  PROVE  RoundedFrom(c, a, n)
<1>1. Parts \in Int
  BY PartsAssumption
<1>2. /\ c * (2 * Parts) = 2 * (c * Parts)
      /\ Parts * n = n * Parts
      /\ c * Parts \in Int /\ n * Parts \in Int
  BY <1>1
<1> QED
  BY <1>2 DEF RoundedFrom, ToFloat

\* Whole cents stay what they are.
LEMMA WholeCents ==
  ASSUME NEW c \in Nat
  PROVE  ToFloat(c) \in Nat /\ MoneyToCents(ToFloat(c)) = c
<1>1. Parts \in Nat \ {0}
  BY PartsAssumption
<1>2. c * Parts \in Nat /\ (c * Parts) \div Parts = c /\ (c * Parts) % Parts = 0
  BY <1>1, DivisionOfMultiple
<1> QED
  BY <1>1, <1>2 DEF ToFloat, MoneyToCents, AboveHalf, AtHalf

-----------------------------------------------------------------------------
(* Types.                                                                  *)

LEMMA PaymentRowType ==
  ASSUME NEW row \in PaymentRow
  PROVE  /\ row.status \in {"LIVE", "REVERSED"}
         /\ row.pay \in Payables
         /\ row.amount \in Nat \ {0}
BY AmountAssumption DEF PaymentRow

LEMMA PaymentType ==
  ASSUME TypeOK, NEW x \in Payments
  PROVE  /\ pmt[x].status = "ABSENT" => pmt[x] = AbsentPayment
         /\ pmt[x].status # "ABSENT" => pmt[x] \in PaymentRow
         /\ pmt[x].amount \in Nat
<1>1. pmt[x] \in PaymentRow \cup {AbsentPayment}
  BY DEF TypeOK
<1>2. AbsentPayment.status = "ABSENT" /\ AbsentPayment.amount = 0
  BY DEF AbsentPayment
<1>3. pmt[x] \in PaymentRow => pmt[x].status # "ABSENT" /\ pmt[x].amount \in Nat
  BY PaymentRowType
<1> QED
  BY <1>1, <1>2, <1>3

LEMMA PayableRowType ==
  ASSUME NEW row \in PayableRow
  PROVE  /\ row.status \in {"PENDENTE", "PARCIAL", "PAGO", "CANCELADO"}
         /\ row.original \in Nat \ {0}
         /\ row.paid \in Nat
         /\ row.paidAt \in BOOLEAN
         /\ row.cancelledAt \in BOOLEAN
BY DEF PayableRow

LEMMA TableType ==
  ASSUME NEW rows \in PayableTable, NEW p \in Payables
  PROVE  /\ rows[p].status = "ABSENT" => rows[p] = AbsentPayable
         /\ rows[p].status # "ABSENT" => rows[p] \in PayableRow
         /\ rows[p].status \in {"ABSENT", "PENDENTE", "PARCIAL", "PAGO", "CANCELADO"}
         /\ rows[p].paid \in Nat
         /\ rows[p].original \in Nat
<1>1. rows[p] \in PayableRow \cup {AbsentPayable}
  BY DEF PayableTable
<1>2. /\ AbsentPayable.status = "ABSENT"
      /\ AbsentPayable.paid = 0
      /\ AbsentPayable.original = 0
  BY DEF AbsentPayable
<1> QED
  BY <1>1, <1>2, PayableRowType

LEMMA CommissionType ==
  ASSUME NEW rows \in CommissionTable, NEW c \in Commissions
  PROVE  /\ rows[c].status = "ABSENT" => rows[c] = AbsentCommission
         /\ rows[c].status # "ABSENT" => rows[c] \in CommissionRow
         /\ rows[c] \in CommissionRow =>
              /\ rows[c].status \in {"PREVISTA", "DEVIDA", "PAGA", "CANCELADA"}
              /\ rows[c].sale \in Sales
              /\ rows[c].amount \in Amounts
         /\ rows[c].status = "ABSENT" => rows[c].sale = Null
BY DEF CommissionTable, CommissionRow, AbsentCommission

LEMMA ReturnType ==
  ASSUME TypeOK, NEW r \in Returns
  PROVE  /\ ret[r].status = "ABSENT" => ret[r] = AbsentReturn
         /\ ret[r].status # "ABSENT" => ret[r] \in ReturnRow
         /\ ret[r].status \in {"ABSENT", "PENDENTE", "PAGO"}
         /\ ret[r].expected \in Nat
<1>1. ret[r] \in ReturnRow \cup {AbsentReturn}
  BY DEF TypeOK
<1>2. AbsentReturn.status = "ABSENT" /\ AbsentReturn.expected = 0
  BY DEF AbsentReturn
<1>3. ret[r] \in ReturnRow =>
        ret[r].status \in {"PENDENTE", "PAGO"} /\ ret[r].expected \in Nat
  BY AmountAssumption DEF ReturnRow
<1> QED
  BY <1>1, <1>2, <1>3

LEMMA TxType ==
  ASSUME TypeOK, NEW q \in Requests
  PROVE  /\ tx[q].op \in {"idle", "update", "due", "distrato"}
         /\ tx[q].op = "update" => tx[q] \in UpdateState
         /\ tx[q].op = "due" => tx[q] \in DueState
         /\ tx[q].op = "distrato" => tx[q] \in DistratoState
<1>1. tx[q] \in {Idle} \cup UpdateState \cup DueState \cup DistratoState
  BY DEF TypeOK
<1>2. tx[q] \in UpdateState => tx[q].op = "update"
  BY DEF UpdateState
<1>3. tx[q] \in DueState => tx[q].op = "due"
  BY DEF DueState
<1>4. tx[q] \in DistratoState => tx[q].op = "distrato"
  BY DEF DistratoState
<1>5. Idle.op = "idle"
  BY DEF Idle
<1> QED
  BY <1>1, <1>2, <1>3, <1>4, <1>5

LEMMA UpdateType ==
  ASSUME NEW t \in UpdateState
  PROVE  /\ t.pay \in Manual
         /\ t.amount \in Amounts \cup {Null}
         /\ t.seen.original \in Nat \ {0}
         /\ t.seen.paid \in Nat
BY DEF UpdateState

LEMMA DistratoType ==
  ASSUME NEW t \in DistratoState
  PROVE  /\ t.sale \in Sales
         /\ t.comm \in CommissionTable
         /\ t.pay \in AccountsOfCommissions
BY DEF DistratoState

-----------------------------------------------------------------------------
(* What a change of one row does to the sums.                              *)

PaymentRows == [Payments -> PaymentRow \cup {AbsentPayment}]

LEMMA AmountType ==
  ASSUME NEW rows \in PaymentRows, NEW S \in SUBSET Payments
  PROVE  /\ IsFiniteSet(S)
         /\ \A x \in S : AmountOf(rows)[x] \in Nat
         /\ \A x \in S : AmountOf(rows)[x] = rows[x].amount
<1>1. IsFiniteSet(S)
  BY FiniteAssumption, FS_Subset
<1>2. ASSUME NEW x \in S
      PROVE  rows[x].amount \in Nat
  <2>1. rows[x] \in PaymentRow \cup {AbsentPayment}
    BY DEF PaymentRows
  <2> QED
    BY <2>1, PaymentRowType DEF AbsentPayment
<1> QED
  BY <1>1, <1>2 DEF AmountOf

LEMMA SumWith ==
  ASSUME NEW old \in PaymentRows, NEW new \in PaymentRows,
         NEW S \in SUBSET Payments, NEW x \in Payments, x \notin S,
         \A y \in S : new[y].amount = old[y].amount
  PROVE  SumOf(AmountOf(new), S \cup {x}) = SumOf(AmountOf(old), S) + new[x].amount
<1> DEFINE f == AmountOf(old)
           g == AmountOf(new)
<1>1. S \cup {x} \in SUBSET Payments
  OBVIOUS
<1>2. /\ IsFiniteSet(S)
      /\ \A y \in S : f[y] \in Int
      /\ \A y \in S : f[y] = old[y].amount
  BY AmountType
<1>3. /\ \A y \in S : g[y] = f[y]
      /\ g[x] \in Int
      /\ g[x] = new[x].amount
  BY <1>1, <1>2, AmountType
<1> HIDE DEF f, g
<1>4. SumOf(g, S \cup {x}) = SumOf(f, S) + g[x]
  BY <1>2, <1>3, SumExtend
<1> QED
  BY <1>3, <1>4 DEF f, g

LEMMA SumWithout ==
  ASSUME NEW old \in PaymentRows, NEW new \in PaymentRows,
         NEW S \in SUBSET Payments, NEW x \in S,
         \A y \in S \ {x} : new[y].amount = old[y].amount
  PROVE  SumOf(AmountOf(new), S \ {x}) = SumOf(AmountOf(old), S) - old[x].amount
<1> DEFINE f == AmountOf(old)
           g == AmountOf(new)
<1>1. S \ {x} \in SUBSET Payments
  OBVIOUS
<1>2. /\ IsFiniteSet(S)
      /\ \A y \in S : f[y] \in Int
      /\ \A y \in S : f[y] = old[y].amount
  BY AmountType
<1>3. /\ IsFiniteSet(S \ {x})
      /\ \A y \in S \ {x} : g[y] \in Int
      /\ \A y \in S \ {x} : g[y] = new[y].amount
  BY <1>1, AmountType
<1> HIDE DEF f, g
<1>4. SumOf(f, S) = f[x] + SumOf(f, S \ {x})
  BY <1>2, SumRemove
<1>5. SumOf(g, S \ {x}) = SumOf(f, S \ {x})
  BY <1>2, <1>3, SumSame
<1>6. SumOf(f, S \ {x}) \in Int
  BY <1>2, <1>3, SumType
<1> QED
  BY <1>2, <1>4, <1>5, <1>6 DEF f, g

LEMMA SameAmounts ==
  ASSUME NEW old \in PaymentRows, NEW new \in PaymentRows, NEW S \in SUBSET Payments,
         \A y \in S : new[y].amount = old[y].amount
  PROVE  SumOf(AmountOf(new), S) = SumOf(AmountOf(old), S)
<1> DEFINE f == AmountOf(old)
           g == AmountOf(new)
<1>1. /\ IsFiniteSet(S)
      /\ \A y \in S : f[y] \in Int
      /\ \A y \in S : f[y] = old[y].amount
  BY AmountType
<1>2. \A y \in S : g[y] = new[y].amount
  BY AmountType
<1> HIDE DEF f, g
<1>3. SumOf(g, S) = SumOf(f, S)
  BY <1>1, <1>2, SumSame
<1> QED
  BY <1>3 DEF f, g

LEMMA PaidType ==
  ASSUME NEW rows \in PayableTable
  PROVE  /\ \A p \in Payables : PaidOf(rows)[p] \in Int
         /\ \A p \in Payables : PaidOf(rows)[p] = rows[p].paid
BY TableType DEF PaidOf

LEMMA PaidChange ==
  ASSUME NEW old \in PayableTable, NEW new \in PayableTable, NEW p \in Payables,
         \A s \in Payables \ {p} : new[s].paid = old[s].paid
  PROVE  SumOf(PaidOf(new), Payables)
           = SumOf(PaidOf(old), Payables) + new[p].paid - old[p].paid
<1> DEFINE f == PaidOf(old)
           g == PaidOf(new)
<1>1. /\ \A s \in Payables : f[s] \in Int
      /\ \A s \in Payables : f[s] = old[s].paid
  BY PaidType
<1>2. /\ \A s \in Payables : g[s] \in Int
      /\ \A s \in Payables : g[s] = new[s].paid
  BY PaidType
<1> HIDE DEF f, g
<1>3. SumOf(g, Payables) = SumOf(f, Payables) + g[p] - f[p]
  BY <1>1, <1>2, FiniteAssumption, SumChange
<1> QED
  BY <1>1, <1>2, <1>3 DEF f, g

LEMMA LiveIsPayments ==
  /\ NotReversed \in SUBSET Payments
  /\ \A p \in Payables : LivePayments(p) \in SUBSET Payments
BY DEF NotReversed, LivePayments

LEMMA LedgerTypes ==
  ASSUME TypeOK
  PROVE  /\ pmt \in PaymentRows
         /\ pay \in PayableTable
         /\ SumOf(AmountOf(pmt), NotReversed) \in Int
         /\ SumOf(PaidOf(pay), Payables) \in Int
         /\ \A p \in Payables : SumOf(AmountOf(pmt), LivePayments(p)) \in Int
<1>1. pmt \in PaymentRows /\ pay \in PayableTable
  BY DEF TypeOK, PaymentRows
<1>2. \A S \in SUBSET Payments : SumOf(AmountOf(pmt), S) \in Int
  <2> TAKE S \in SUBSET Payments
  <2>1. IsFiniteSet(S) /\ \A x \in S : AmountOf(pmt)[x] \in Int
    BY <1>1, AmountType
  <2> QED
    BY <2>1, SumType
<1>3. SumOf(PaidOf(pay), Payables) \in Int
  BY <1>1, PaidType, FiniteAssumption, SumType
<1> QED
  BY <1>1, <1>2, <1>3, LiveIsPayments

\* What was paid of an account with nothing paid: nothing; and of one with a
\* payment, at least that payment.
LEMMA PaidAtLeast ==
  ASSUME TypeOK, PaidInSum, NEW p \in Payables, NEW x \in LivePayments(p)
  PROVE  pay[p].paid > 0
<1> DEFINE S == LivePayments(p)
           f == AmountOf(pmt)
<1>1. S \in SUBSET Payments /\ pmt[x].status = "LIVE" /\ x \in Payments
  BY DEF LivePayments
<1>2. IsFiniteSet(S) /\ \A y \in S : f[y] \in Nat
  BY <1>1, LedgerTypes, AmountType
<1>3. f[x] \in Nat \ {0}
  BY <1>1, PaymentType, PaymentRowType DEF AmountOf
<1>4. SumOf(f, S) = pay[p].paid
  BY DEF PaidInSum
<1>5. f[x] <= SumOf(f, S)
  <2> HIDE DEF f, S
  <2>1. x \in S
    BY DEF S
  <2> QED
    BY <1>2, <2>1, SumAtLeast
<1>6. pay[p].paid \in Nat
  BY LedgerTypes, TableType
<1> QED
  BY <1>3, <1>4, <1>5, <1>6

-----------------------------------------------------------------------------
(* What a step does to the ledger.                                         *)

LEMMA LedgerSame ==
  ASSUME Ledger, UNCHANGED <<pay, pmt>>
  PROVE  Ledger'
BY DEF Ledger, PaidInSum, CashInSum, StatusMatchesAmounts, LivePayments, NotReversed

\* Accounts opened, edited or closed, with the same payments.
LEMMA LedgerSamePaid ==
  ASSUME TypeOK, TypeOK', Ledger, UNCHANGED pmt,
         \A p \in Payables : pay'[p].paid = pay[p].paid,
         \A p \in Payables :
           pay'[p] = pay[p] \/ (pay'[p].status # "ABSENT" => RowCheck(pay'[p]))
  PROVE  Ledger'
<1>1. PaidOf(pay)' = PaidOf(pay)
  BY DEF PaidOf
<1>2. PaidInSum'
  BY DEF Ledger, PaidInSum, LivePayments
<1>3. CashInSum'
  BY <1>1 DEF Ledger, CashInSum, NotReversed
<1>4. StatusMatchesAmounts'
  BY DEF Ledger, StatusMatchesAmounts
<1> QED
  BY <1>2, <1>3, <1>4 DEF Ledger

LEMMA RecordLedger ==
  ASSUME TypeOK, TypeOK', Ledger,
         NEW p \in Payables, NEW x \in Payments, NEW amount \in Amounts,
         RecordPayment(p, x, amount)
  PROVE  Ledger'
<1> DEFINE paid == pay[p].paid + amount
<1>1. /\ pay[p].status \in {"PENDENTE", "PARCIAL"}
      /\ pmt[x].status = "ABSENT"
      /\ paid <= pay[p].original
      /\ amount \in Nat \ {0}
  BY AmountAssumption DEF RecordPayment, Payable
<1>2. pay[p] \in PayableRow /\ pay[p].paid \in Nat /\ pay[p].original \in Nat
  BY <1>1, LedgerTypes, TableType
<1>3. /\ pmt'[x] = [status |-> "LIVE", pay |-> p, amount |-> amount]
      /\ \A y \in Payments \ {x} : pmt'[y] = pmt[y]
      /\ \A s \in Payables \ {p} : pay'[s] = pay[s]
  BY DEF RecordPayment, TypeOK, PayableTable
<1>4. /\ pay'[p].paid = paid
      /\ pay'[p].original = pay[p].original
      /\ pay'[p].status = IF paid = pay[p].original THEN "PAGO" ELSE "PARCIAL"
      /\ pay'[p].paidAt <=> paid = pay[p].original
      /\ pay'[p].cancelledAt <=> pay[p].cancelledAt
  BY <1>2 DEF RecordPayment, TypeOK, PayableTable, PayableRow
<1>5. StatusMatchesAmounts'
  <2>1. RowCheck(pay[p])
    BY <1>1 DEF Ledger, StatusMatchesAmounts
  <2>2. RowCheck(pay'[p])
    BY <1>1, <1>2, <1>4, <2>1 DEF RowCheck
  <2> QED
    BY <1>3, <2>2 DEF Ledger, StatusMatchesAmounts
<1>7. /\ x \notin NotReversed
      /\ NotReversed' = NotReversed \cup {x}
      /\ \A y \in NotReversed : pmt'[y].amount = pmt[y].amount
  BY <1>1, <1>3 DEF NotReversed
<1>8. \A s \in Payables :
        /\ x \notin LivePayments(s)
        /\ LivePayments(s)' = IF s = p THEN LivePayments(s) \cup {x} ELSE LivePayments(s)
        /\ \A y \in LivePayments(s) : pmt'[y].amount = pmt[y].amount
  BY <1>1, <1>3 DEF LivePayments
<1>9. /\ pmt \in PaymentRows /\ pmt' \in PaymentRows
      /\ pay \in PayableTable /\ pay' \in PayableTable
  BY LedgerTypes DEF TypeOK, PaymentRows
<1>10. PaidInSum'
  <2> SUFFICES ASSUME NEW s \in Payables
               PROVE  pay'[s].paid = SumOf(AmountOf(pmt'), LivePayments(s)')
    BY DEF PaidInSum
  <2>1. pay[s].paid = SumOf(AmountOf(pmt), LivePayments(s))
    BY DEF Ledger, PaidInSum
  <2>2. CASE s = p
    <3>1. /\ LivePayments(s) \in SUBSET Payments
          /\ x \notin LivePayments(s)
          /\ \A y \in LivePayments(s) : pmt'[y].amount = pmt[y].amount
      BY <1>8, LiveIsPayments
    <3>2. SumOf(AmountOf(pmt'), LivePayments(s) \cup {x})
            = SumOf(AmountOf(pmt), LivePayments(s)) + pmt'[x].amount
      BY <1>9, <3>1, SumWith, ZenonT(60)
    <3>3. pmt'[x].amount = amount /\ pay'[s].paid = pay[s].paid + amount
      BY <1>3, <1>4, <2>2
    <3>4. LivePayments(s)' = LivePayments(s) \cup {x}
      BY <1>8, <2>2
    <3> QED
      BY <2>1, <3>2, <3>3, <3>4
  <2>3. CASE s # p
    <3>1. SumOf(AmountOf(pmt'), LivePayments(s)) = SumOf(AmountOf(pmt), LivePayments(s))
      BY <1>8, <1>9, LiveIsPayments, SameAmounts
    <3> QED
      BY <1>3, <1>8, <2>1, <2>3, <3>1
  <2> QED
    BY <2>2, <2>3
<1>11. CashInSum'
  <2>1. SumOf(AmountOf(pmt'), NotReversed \cup {x})
          = SumOf(AmountOf(pmt), NotReversed) + pmt'[x].amount
    <3>1. /\ NotReversed \in SUBSET Payments
          /\ x \notin NotReversed
          /\ \A y \in NotReversed : pmt'[y].amount = pmt[y].amount
      BY <1>7, LiveIsPayments
    <3> QED
      BY <1>9, <3>1, SumWith, ZenonT(60)
  <2>2. SumOf(PaidOf(pay'), Payables)
          = SumOf(PaidOf(pay), Payables) + pay'[p].paid - pay[p].paid
    BY <1>3, <1>9, PaidChange
  <2>3. SumOf(PaidOf(pay), Payables) \in Int
    BY LedgerTypes
  <2>4. SumOf(AmountOf(pmt'), NotReversed') = SumOf(PaidOf(pay'), Payables)
    BY <1>1, <1>2, <1>3, <1>4, <1>7, <2>1, <2>2, <2>3 DEF Ledger, CashInSum
  <2> QED
    BY <2>4 DEF CashInSum
<1> QED
  BY <1>5, <1>10, <1>11 DEF Ledger

\* The account of a payment is open, and has that much paid.
LEMMA PaymentHasAccount ==
  ASSUME TypeOK, Ledger, NEW x \in Payments, Reversible(x)
  PROVE  /\ pmt[x] \in PaymentRow
         /\ pmt[x].pay \in Payables
         /\ pmt[x].amount \in Nat \ {0}
         /\ pay[pmt[x].pay] \in PayableRow
         /\ pay[pmt[x].pay].paid > 0
         /\ pay[pmt[x].pay].status \in {"PARCIAL", "PAGO"}
         /\ ~pay[pmt[x].pay].cancelledAt
<1> DEFINE p == pmt[x].pay
<1>1. pmt[x] \in PaymentRow /\ p \in Payables /\ pmt[x].amount \in Nat \ {0}
  BY PaymentType, PaymentRowType DEF Reversible
<1>2. pay[p].paid > 0
  <2>1. x \in LivePayments(p)
    BY DEF LivePayments, Reversible
  <2>2. PaidInSum
    BY DEF Ledger
  <2> HIDE DEF p
  <2> QED
    BY <1>1, <2>1, <2>2, PaidAtLeast
<1>3. /\ pay[p].status = "ABSENT" => pay[p].paid = 0
      /\ pay[p].status # "ABSENT" => pay[p] \in PayableRow
  BY <1>1, LedgerTypes, TableType DEF AbsentPayable
<1>4. pay[p] \in PayableRow /\ RowCheck(pay[p])
  BY <1>1, <1>2, <1>3 DEF Ledger, StatusMatchesAmounts
<1>5. pay[p].status \in {"PARCIAL", "PAGO"} /\ ~pay[p].cancelledAt
  BY <1>2, <1>4 DEF RowCheck
<1> QED
  BY <1>1, <1>2, <1>4, <1>5

LEMMA ReverseLedger ==
  ASSUME TypeOK, TypeOK', Ledger, NEW x \in Payments, ReversePayment(x)
  PROVE  Ledger'
<1> DEFINE p == pmt[x].pay
           paid == pay[p].paid - pmt[x].amount
<1>1. /\ p \in Payables
      /\ pmt[x] \in PaymentRow
      /\ pmt[x].status = "LIVE" /\ pmt[x].amount \in Nat \ {0}
      /\ pay[p] \in PayableRow
      /\ ~pay[p].cancelledAt
      /\ paid >= 0
  BY PaymentHasAccount DEF ReversePayment, Reversible
<1>2. pay[p].paid \in Nat /\ pay[p].original \in Nat \ {0} /\ RowCheck(pay[p])
  BY <1>1, PayableRowType DEF Ledger, StatusMatchesAmounts
<1>3. /\ pmt'[x].status = "REVERSED"
      /\ \A y \in Payments \ {x} : pmt'[y] = pmt[y]
      /\ \A s \in Payables \ {p} : pay'[s] = pay[s]
  BY <1>1 DEF ReversePayment, TypeOK, PayableTable, PaymentRow
<1>4. /\ pay'[p].paid = paid
      /\ pay'[p].original = pay[p].original
      /\ pay'[p].status = IF paid = 0 THEN "PENDENTE" ELSE "PARCIAL"
      /\ ~pay'[p].paidAt
      /\ ~pay'[p].cancelledAt
  BY <1>1 DEF ReversePayment, TypeOK, PayableTable, PayableRow
<1>5. StatusMatchesAmounts'
  <2>1. RowCheck(pay'[p])
    BY <1>1, <1>2, <1>4 DEF RowCheck
  <2> QED
    BY <1>3, <2>1 DEF Ledger, StatusMatchesAmounts
<1>7. /\ x \in NotReversed
      /\ NotReversed' = NotReversed \ {x}
      /\ \A y \in NotReversed \ {x} : pmt'[y].amount = pmt[y].amount
  BY <1>1, <1>3 DEF NotReversed
<1>8. \A s \in Payables :
        /\ x \in LivePayments(s) <=> s = p
        /\ LivePayments(s)' = IF s = p THEN LivePayments(s) \ {x} ELSE LivePayments(s)
        /\ \A y \in LivePayments(s) \ {x} : pmt'[y].amount = pmt[y].amount
  BY <1>1, <1>3 DEF LivePayments
<1>9. /\ pmt \in PaymentRows /\ pmt' \in PaymentRows
      /\ pay \in PayableTable /\ pay' \in PayableTable
  BY LedgerTypes DEF TypeOK, PaymentRows
<1> HIDE DEF p
<1>10. PaidInSum'
  <2> SUFFICES ASSUME NEW s \in Payables
               PROVE  pay'[s].paid = SumOf(AmountOf(pmt'), LivePayments(s)')
    BY DEF PaidInSum
  <2>1. pay[s].paid = SumOf(AmountOf(pmt), LivePayments(s))
    BY DEF Ledger, PaidInSum
  <2>2. CASE s = p
    <3>1. /\ LivePayments(s) \in SUBSET Payments
          /\ x \in LivePayments(s)
          /\ \A y \in LivePayments(s) \ {x} : pmt'[y].amount = pmt[y].amount
      BY <1>8, <2>2, LiveIsPayments
    <3>2. SumOf(AmountOf(pmt'), LivePayments(s) \ {x})
            = SumOf(AmountOf(pmt), LivePayments(s)) - pmt[x].amount
      BY <1>9, <3>1, SumWithout, ZenonT(60)
    <3> QED
      BY <1>4, <1>8, <2>1, <2>2, <3>2
  <2>3. CASE s # p
    <3>1. SumOf(AmountOf(pmt'), LivePayments(s)) = SumOf(AmountOf(pmt), LivePayments(s))
      <4>1. /\ LivePayments(s) \in SUBSET Payments
            /\ \A y \in LivePayments(s) : pmt'[y].amount = pmt[y].amount
        BY <1>8, <2>3, LiveIsPayments
      <4> QED
        BY <1>9, <4>1, SameAmounts
    <3> QED
      BY <1>3, <1>8, <2>1, <2>3, <3>1
  <2> QED
    BY <2>2, <2>3
<1>11. CashInSum'
  <2>1. SumOf(AmountOf(pmt'), NotReversed \ {x})
          = SumOf(AmountOf(pmt), NotReversed) - pmt[x].amount
    BY <1>7, <1>9, LiveIsPayments, SumWithout, ZenonT(60)
  <2>2. SumOf(PaidOf(pay'), Payables)
          = SumOf(PaidOf(pay), Payables) + pay'[p].paid - pay[p].paid
    BY <1>1, <1>3, <1>9, PaidChange
  <2>3. SumOf(PaidOf(pay), Payables) \in Int
    BY LedgerTypes
  <2>4. SumOf(AmountOf(pmt'), NotReversed') = SumOf(PaidOf(pay'), Payables)
    BY <1>1, <1>2, <1>4, <1>7, <2>1, <2>2, <2>3 DEF Ledger, CashInSum
  <2> QED
    BY <2>4 DEF CashInSum
<1> QED
  BY <1>5, <1>10, <1>11 DEF Ledger

-----------------------------------------------------------------------------
(* What a handler read.                                                    *)

\* Accounts entered by hand and commissions are never removed, and a commission
\* stays with its sale.
RowsStay ==
  /\ \A p \in Manual : pay[p].status # "ABSENT" => pay'[p].status # "ABSENT"
  /\ \A c \in Commissions :
       comm[c].status # "ABSENT" =>
         comm'[c].status # "ABSENT" /\ comm'[c].sale = comm[c].sale

LEMMA ReadsStay ==
  ASSUME TypeOK, ReadsHold, RowsStay,
         \A q \in Requests : tx'[q] = tx[q] \/ tx'[q] = Idle \/ ReadHolds(tx[q])'
  PROVE  ReadsHold'
<1> SUFFICES ASSUME NEW q \in Requests PROVE ReadHolds(tx[q])'
  BY DEF ReadsHold
<1>1. CASE tx'[q] = tx[q]
  <2>1. ReadHolds(tx[q])
    BY DEF ReadsHold
  <2>2. CASE tx[q].op = "update"
    <3>1. tx[q].pay \in Manual
      BY <2>2, TxType, UpdateType
    <3> QED
      BY <1>1, <2>1, <2>2, <3>1 DEF ReadHolds, RowsStay
  <2>3. CASE tx[q].op = "due"
    <3>1. tx[q].comm \in Commissions
      BY <2>3, TxType DEF DueState
    <3> QED
      BY <1>1, <2>1, <2>3, <3>1 DEF ReadHolds, RowsStay
  <2>4. CASE tx[q].op = "distrato"
    BY <1>1, <2>1, <2>4 DEF ReadHolds, RowsStay, CommissionsIn
  <2>5. CASE tx[q].op \notin {"update", "due", "distrato"}
    BY <1>1, <2>5 DEF ReadHolds
  <2> QED
    BY <2>2, <2>3, <2>4, <2>5
<1>2. CASE tx'[q] = Idle
  BY <1>2 DEF ReadHolds, Idle
<1> QED
  BY <1>1, <1>2

\* A step that leaves the requests alone.
LEMMA ReadsStayWhile ==
  ASSUME TypeOK, ReadsHold, RowsStay, UNCHANGED tx
  PROVE  ReadsHold'
BY ReadsStay

\* The end of a request.
LEMMA ReadsStayAfter ==
  ASSUME TypeOK, ReadsHold, RowsStay, NEW q \in Requests,
         tx' = [tx EXCEPT ![q] = Idle]
  PROVE  ReadsHold'
<1>1. \A r \in Requests : tx'[r] = tx[r] \/ tx'[r] = Idle
  BY DEF TypeOK
<1> QED
  BY <1>1, ReadsStay

-----------------------------------------------------------------------------
(* The accounts entered by hand.                                           *)

LEMMA Disjoint ==
  /\ \A p \in Manual : p \in Payables /\ p \notin Commissions /\ p \notin Returns
  /\ \A c \in Commissions : c \in Payables /\ c \notin Manual /\ c \notin Returns
  /\ \A r \in Returns : r \in Payables /\ r \notin Manual /\ r \notin Commissions
BY DisjointAssumption DEF Payables

\* An account entered by hand is nobody's source.
LEMMA SourcesSame ==
  ASSUME TypeOK, Sources, UNCHANGED <<comm, ret>>,
         \A p \in Commissions \cup Returns : pay'[p] = pay[p]
  PROVE  Sources'
BY DEF Sources, ReturnFollowsPayable, ReturnsStay, CommissionsOpened

\* What is written to one account entered by hand.
LEMMA ManualStep ==
  ASSUME IInv, NEW p \in Manual, NEW row \in PayableRow,
         pay' = [pay EXCEPT ![p] = row],
         row.paid = pay[p].paid, RowCheck(row),
         UNCHANGED <<sale, comm, ret, pmt>>,
         \/ UNCHANGED tx
         \/ \E q \in Requests : tx' = [tx EXCEPT ![q] = Idle]
  PROVE  IInv'
<1>1. p \in Payables /\ p \notin Commissions /\ p \notin Returns
  BY Disjoint
<1>2. /\ pay'[p] = row
      /\ \A s \in Payables \ {p} : pay'[s] = pay[s]
  BY <1>1 DEF IInv, TypeOK, PayableTable
<1>3. TypeOK'
  BY <1>1 DEF IInv, TypeOK, PayableTable
<1>4. Ledger'
  BY <1>2, <1>3, LedgerSamePaid DEF IInv
<1>5. Sources'
  <2>1. \A s \in Commissions \cup Returns : pay'[s] = pay[s]
    BY <1>1, <1>2, Disjoint
  <2> QED
    BY <2>1, SourcesSame DEF IInv
<1>6. RowsStay
  <2>1. row.status # "ABSENT"
    BY PayableRowType
  <2> QED
    BY <1>2, <2>1, Disjoint DEF RowsStay
<1>7. ReadsHold'
  <2>1. CASE UNCHANGED tx
    BY <1>6, <2>1, ReadsStayWhile DEF IInv
  <2>2. ASSUME NEW q \in Requests, tx' = [tx EXCEPT ![q] = Idle]
        PROVE  ReadsHold'
    BY <1>6, <2>2, ReadsStayAfter DEF IInv
  <2> QED
    BY <2>1, <2>2
<1> QED
  BY <1>3, <1>4, <1>5, <1>7 DEF IInv

LEMMA NewPayableRow ==
  ASSUME NEW amount \in Nat \ {0}
  PROVE  /\ NewPayable(amount) \in PayableRow
         /\ RowCheck(NewPayable(amount))
         /\ NewPayable(amount).status = "PENDENTE"
         /\ NewPayable(amount).original = amount
         /\ NewPayable(amount).paid = 0
BY DEF NewPayable, PayableRow, RowCheck

LEMMA CreatePayableInv ==
  ASSUME IInv, NEW p \in Manual, NEW amount \in Amounts, CreatePayable(p, amount)
  PROVE  IInv'
<1> DEFINE row == NewPayable(amount)
<1>1. row \in PayableRow /\ RowCheck(row) /\ row.paid = 0
  BY NewPayableRow, AmountAssumption
<1>2. pay[p].paid = 0
  BY Disjoint, LedgerTypes, TableType DEF CreatePayable, IInv, AbsentPayable
<1>3. pay' = [pay EXCEPT ![p] = row] /\ UNCHANGED <<sale, comm, ret, pmt, tx>>
  BY DEF CreatePayable
<1> HIDE DEF row
<1> QED
  BY <1>1, <1>2, <1>3, ManualStep

LEMMA CancelPayableInv ==
  ASSUME IInv, NEW p \in Manual, CancelPayable(p)
  PROVE  IInv'
<1> DEFINE row == [pay[p] EXCEPT !.status = "CANCELADO", !.cancelledAt = TRUE]
<1>1. pay[p] \in PayableRow /\ RowCheck(pay[p]) /\ pay[p].paid = 0 /\ p \in Payables
  BY Disjoint, LedgerTypes, TableType
  DEF CancelPayable, IInv, Ledger, StatusMatchesAmounts
<1>2. /\ row.status = "CANCELADO" /\ row.cancelledAt = TRUE
      /\ row.paid = pay[p].paid /\ row.original = pay[p].original
      /\ row.paidAt = pay[p].paidAt
      /\ row \in PayableRow
  BY <1>1 DEF PayableRow
<1>3. RowCheck(row)
  BY <1>1, <1>2, PayableRowType DEF RowCheck
<1>4. pay' = [pay EXCEPT ![p] = row] /\ UNCHANGED <<sale, comm, ret, pmt, tx>>
  BY <1>1 DEF CancelPayable, IInv, TypeOK, PayableTable
<1> HIDE DEF row
<1> QED
  BY <1>2, <1>3, <1>4, ManualStep

LEMMA CommitUpdateInv ==
  ASSUME IInv, NEW q \in Requests, CommitUpdate(q)
  PROVE  IInv'
<1> DEFINE p == tx[q].pay
           row == EditedRow(pay[p], tx[q].seen, tx[q].amount)
<1>1. tx[q] \in UpdateState /\ p \in Manual /\ tx[q].amount \in Amounts \cup {Null}
  BY TxType, UpdateType DEF CommitUpdate, IInv
<1>2. pay[p] \in PayableRow
  <2>1. pay[p].status # "ABSENT"
    BY DEF CommitUpdate, IInv, ReadsHold, ReadHolds
  <2> QED
    BY <1>1, <2>1, Disjoint, LedgerTypes, TableType DEF IInv
<1>3. row \in PayableRow /\ row.paid = pay[p].paid
  BY <1>1, <1>2, AmountAssumption DEF EditedRow, PayableRow
<1>4. RowCheck(row) /\ pay' = [pay EXCEPT ![p] = row]
  BY DEF CommitUpdate
<1>5. tx' = [tx EXCEPT ![q] = Idle] /\ UNCHANGED <<sale, comm, ret, pmt>>
  BY DEF CommitUpdate
<1> HIDE DEF row, p
<1> QED
  BY <1>1, <1>3, <1>4, <1>5, ManualStep

-----------------------------------------------------------------------------
(* Payments and reversals, and the sources of what they pay.               *)

\* syncSource: the commission or the return follows its account.
LEMMA SyncStep ==
  ASSUME TypeOK, Sources, NEW p \in Payables,
         NEW status \in {"PENDENTE", "PARCIAL", "PAGO"}, NEW paid,
         pay[p].status \notin {"ABSENT", "CANCELADO"},
         paid \in Nat,
         \A s \in Payables \ {p} : pay'[s] = pay[s],
         pay'[p].status = status,
         pay'[p].original = pay[p].original,
         pay'[p].paid = paid,
         comm' = SyncCommission(p, status),
         ret' = SyncReturn(p, status, paid)
  PROVE  /\ comm' \in CommissionTable
         /\ ret' \in [Returns -> ReturnRow \cup {AbsentReturn}]
         /\ Sources'
         /\ RowsStay
<1>1. CASE p \in Manual
  <2>1. UNCHANGED <<comm, ret>>
    BY <1>1, Disjoint DEF SyncCommission, SyncReturn
  <2>2. \A s \in Commissions \cup Returns : pay'[s] = pay[s]
    BY <1>1, Disjoint
  <2>3. Sources'
    BY <2>1, <2>2, SourcesSame
  <2> QED
    BY <1>1, <2>1, <2>3, Disjoint DEF RowsStay, TypeOK
<1>2. CASE p \in Commissions
  <2>1. /\ UNCHANGED ret
        /\ \A s \in Manual \cup Returns : pay'[s] = pay[s]
        /\ \A s \in Commissions \ {p} : pay'[s] = pay[s]
    BY <1>2, Disjoint DEF SyncReturn
  <2>2. comm[p] \in CommissionRow
    BY <1>2, CommissionType DEF Sources, CommissionsOpened, TypeOK
  <2>3. /\ comm'[p] \in CommissionRow
        /\ comm'[p].status \in {"PAGA", "DEVIDA"}
        /\ comm'[p].sale = comm[p].sale
        /\ \A c \in Commissions \ {p} : comm'[c] = comm[c]
        /\ comm' \in CommissionTable
    BY <1>2, <2>2 DEF SyncCommission, TypeOK, CommissionTable, CommissionRow
  <2>4. Sources'
    <3>1. ReturnFollowsPayable' /\ ReturnsStay'
      BY <2>1 DEF Sources, ReturnFollowsPayable, ReturnsStay
    <3>2. CommissionsOpened'
      BY <2>1, <2>3 DEF Sources, CommissionsOpened
    <3> QED
      BY <3>1, <3>2 DEF Sources
  <2>5. RowsStay
    BY <2>1, <2>3 DEF RowsStay
  <2> QED
    BY <2>1, <2>3, <2>4, <2>5 DEF TypeOK
<1>3. CASE p \in Returns
  <2>1. /\ UNCHANGED comm
        /\ \A s \in Manual \cup Commissions : pay'[s] = pay[s]
        /\ \A s \in Returns \ {p} : pay'[s] = pay[s]
    BY <1>3, Disjoint DEF SyncCommission
  <2>2. ret[p] \in ReturnRow
    BY <1>3, ReturnType DEF Sources, ReturnFollowsPayable
  <2>3. /\ ret'[p] = [ret[p] EXCEPT
                         !.status = IF status = "PAGO" THEN "PAGO" ELSE "PENDENTE",
                         !.realized = IF status = "PAGO" THEN ToFloat(paid) ELSE Null]
        /\ \A r \in Returns \ {p} : ret'[r] = ret[r]
    BY <1>3 DEF SyncReturn, TypeOK
  <2>4. /\ ret'[p].status = IF status = "PAGO" THEN "PAGO" ELSE "PENDENTE"
        /\ ret'[p].realized = IF status = "PAGO" THEN ToFloat(paid) ELSE Null
        /\ ret'[p].expected = ret[p].expected
        /\ ret'[p] \in ReturnRow
    BY <2>2, <2>3, WholeCents DEF ReturnRow
  <2>5. ret' \in [Returns -> ReturnRow \cup {AbsentReturn}]
    BY <1>3, <2>4 DEF SyncReturn, TypeOK
  <2>6. Sources'
    <3>1. ReturnFollowsPayable'
      <4>1. ret[p].status # "ABSENT"
        BY <1>3 DEF Sources, ReturnFollowsPayable
      <4>2. /\ ret'[p].status # "ABSENT" /\ pay'[p].status # "ABSENT"
            /\ pay'[p].original = ToDecimal(ret'[p].expected)
            /\ ret'[p].status = "PAGO" <=> pay'[p].status = "PAGO"
            /\ ret'[p].realized =
                 IF pay'[p].status = "PAGO" THEN ToFloat(pay'[p].paid) ELSE Null
        BY <1>3, <2>4, <4>1 DEF Sources, ReturnFollowsPayable
      <4>3. \A r \in Returns \ {p} : ret'[r] = ret[r] /\ pay'[r] = pay[r]
        BY <2>1, <2>3
      <4> QED
        BY <4>2, <4>3 DEF Sources, ReturnFollowsPayable
    <3>2. ReturnsStay'
      BY <1>3, <2>1 DEF Sources, ReturnsStay
    <3>3. CommissionsOpened'
      BY <2>1 DEF Sources, CommissionsOpened
    <3> QED
      BY <3>1, <3>2, <3>3 DEF Sources
  <2>7. RowsStay
    BY <2>1 DEF RowsStay
  <2> QED
    BY <2>1, <2>5, <2>6, <2>7 DEF TypeOK
<1> QED
  BY <1>1, <1>2, <1>3 DEF Payables

LEMMA RecordPaymentInv ==
  ASSUME IInv, NEW p \in Payables, NEW x \in Payments, NEW amount \in Amounts,
         RecordPayment(p, x, amount)
  PROVE  IInv'
<1> DEFINE paid == pay[p].paid + amount
           status == IF paid = pay[p].original THEN "PAGO" ELSE "PARCIAL"
<1>1. /\ pay[p].status \in {"PENDENTE", "PARCIAL"}
      /\ pay' = [pay EXCEPT ![p].paid = paid, ![p].status = status,
                            ![p].paidAt = (status = "PAGO")]
      /\ pmt' = [pmt EXCEPT ![x] = [status |-> "LIVE", pay |-> p, amount |-> amount]]
      /\ comm' = SyncCommission(p, status)
      /\ ret' = SyncReturn(p, status, paid)
      /\ UNCHANGED <<sale, tx>>
  BY DEF RecordPayment, Payable
<1>2. pay[p] \in PayableRow /\ paid \in Nat
  BY <1>1, LedgerTypes, TableType, PayableRowType, AmountAssumption DEF IInv
<1>3. /\ \A s \in Payables \ {p} : pay'[s] = pay[s]
      /\ pay'[p].status = status
      /\ pay'[p].original = pay[p].original
      /\ pay'[p].paid = paid
      /\ pay' \in PayableTable
  BY <1>1, <1>2 DEF IInv, TypeOK, PayableTable, PayableRow
<1>5. status \in {"PENDENTE", "PARCIAL", "PAGO"}
  OBVIOUS
<1>6. /\ comm' \in CommissionTable
      /\ ret' \in [Returns -> ReturnRow \cup {AbsentReturn}]
      /\ Sources'
      /\ RowsStay
  <2> HIDE DEF paid, status
  <2>1. pay[p].status \notin {"ABSENT", "CANCELADO"}
    BY <1>1
  <2> QED
    BY <1>1, <1>2, <1>3, <1>5, <2>1, SyncStep DEF IInv
<1>7. TypeOK'
  <2>1. pmt' \in [Payments -> PaymentRow \cup {AbsentPayment}]
    BY <1>1 DEF IInv, TypeOK, PaymentRow
  <2> QED
    BY <1>1, <1>3, <1>6, <2>1 DEF IInv, TypeOK
<1>8. Ledger'
  BY <1>7, RecordLedger DEF IInv
<1>9. ReadsHold'
  BY <1>1, <1>6, ReadsStayWhile DEF IInv
<1> QED
  BY <1>6, <1>7, <1>8, <1>9 DEF IInv

LEMMA ReversePaymentInv ==
  ASSUME IInv, NEW x \in Payments, ReversePayment(x)
  PROVE  IInv'
<1> DEFINE p == pmt[x].pay
           paid == pay[p].paid - pmt[x].amount
           status == IF paid = 0 THEN "PENDENTE" ELSE "PARCIAL"
<1>1. /\ paid >= 0
      /\ pay' = [pay EXCEPT ![p].paid = paid, ![p].status = status, ![p].paidAt = FALSE]
      /\ pmt' = [pmt EXCEPT ![x].status = "REVERSED"]
      /\ comm' = SyncCommission(p, status)
      /\ ret' = SyncReturn(p, status, paid)
      /\ UNCHANGED <<sale, tx>>
  BY DEF ReversePayment
<1>2. /\ p \in Payables
      /\ pay[p] \in PayableRow
      /\ pay[p].status \in {"PARCIAL", "PAGO"}
      /\ pmt[x] \in PaymentRow /\ pmt[x].amount \in Nat
  BY PaymentHasAccount DEF ReversePayment, IInv
<1>3. paid \in Nat
  BY <1>1, <1>2, PayableRowType
<1>4. /\ \A s \in Payables \ {p} : pay'[s] = pay[s]
      /\ pay'[p].status = status
      /\ pay'[p].original = pay[p].original
      /\ pay'[p].paid = paid
      /\ pay' \in PayableTable
  BY <1>1, <1>2, <1>3 DEF IInv, TypeOK, PayableTable, PayableRow
<1>5. status \in {"PENDENTE", "PARCIAL", "PAGO"} /\ status # "PAGO"
  OBVIOUS
<1>6. /\ comm' \in CommissionTable
      /\ ret' \in [Returns -> ReturnRow \cup {AbsentReturn}]
      /\ Sources'
      /\ RowsStay
  <2> HIDE DEF paid, status, p
  <2>1. pay[p].status \notin {"ABSENT", "CANCELADO"}
    BY <1>2
  <2> QED
    BY <1>1, <1>2, <1>3, <1>4, <1>5, <2>1, SyncStep DEF IInv
<1>7. TypeOK'
  <2>1. pmt' \in [Payments -> PaymentRow \cup {AbsentPayment}]
    BY <1>1, <1>2 DEF IInv, TypeOK, PaymentRow
  <2> QED
    BY <1>1, <1>4, <1>6, <2>1 DEF IInv, TypeOK
<1>8. Ledger'
  BY <1>7, ReverseLedger DEF IInv
<1>9. ReadsHold'
  BY <1>1, <1>6, ReadsStayWhile DEF IInv
<1> QED
  BY <1>6, <1>7, <1>8, <1>9 DEF IInv

-----------------------------------------------------------------------------
(* Requests.                                                               *)

\* A step that only reads.
LEMMA ReadStep ==
  ASSUME IInv, UNCHANGED <<sale, comm, ret, pay, pmt>>, NEW q \in Requests,
         NEW t \in {Idle} \cup UpdateState \cup DueState \cup DistratoState,
         tx' = [tx EXCEPT ![q] = t],
         ReadHolds(t)
  PROVE  IInv'
<1>1. TypeOK'
  BY DEF IInv, TypeOK
<1>2. Ledger'
  BY LedgerSame DEF IInv
<1>3. Sources'
  BY SourcesSame DEF IInv
<1>4. RowsStay
  BY DEF RowsStay
<1>5. ASSUME NEW r \in Requests
      PROVE  tx'[r] = tx[r] \/ tx'[r] = Idle \/ ReadHolds(tx[r])'
  <2>1. CASE r = q
    <3>1. tx'[r] = t
      BY <2>1 DEF IInv, TypeOK
    <3> QED
      BY <3>1 DEF ReadHolds
  <2>2. CASE r # q
    BY <2>2 DEF IInv, TypeOK
  <2> QED
    BY <2>1, <2>2
<1>6. ReadsHold'
  BY <1>4, <1>5, ReadsStay DEF IInv
<1> QED
  BY <1>1, <1>2, <1>3, <1>6 DEF IInv

LEMMA RollbackInv ==
  ASSUME IInv, NEW q \in Requests, Rollback(q)
  PROVE  IInv'
<1>1. ReadHolds(Idle)
  BY DEF ReadHolds, Idle
<1> QED
  BY <1>1, ReadStep DEF Rollback

LEMMA ReadUpdateInv ==
  ASSUME IInv, NEW q \in Requests, NEW p \in Manual, NEW amount \in Amounts \cup {Null},
         ReadUpdate(q, p, amount)
  PROVE  IInv'
<1> DEFINE t == [op |-> "update", pay |-> p, amount |-> amount,
                 seen |-> [original |-> pay[p].original, paid |-> pay[p].paid]]
<1>1. pay[p].status # "ABSENT" /\ tx' = [tx EXCEPT ![q] = t]
      /\ UNCHANGED <<sale, comm, ret, pay, pmt>>
  BY DEF ReadUpdate
<1>2. pay[p].original \in Nat \ {0} /\ pay[p].paid \in Nat
  BY <1>1, Disjoint, LedgerTypes, TableType, PayableRowType DEF IInv
<1>3. t \in UpdateState
  BY <1>2 DEF UpdateState
<1>4. ReadHolds(t)
  BY <1>1 DEF ReadHolds
<1> HIDE DEF t
<1> QED
  BY <1>1, <1>3, <1>4, ReadStep

LEMMA ReadDueInv ==
  ASSUME IInv, NEW q \in Requests, NEW c \in Commissions, ReadDue(q, c)
  PROVE  IInv'
<1> DEFINE t == [op |-> "due", comm |-> c]
<1>1. comm[c].status # "ABSENT" /\ tx' = [tx EXCEPT ![q] = t]
      /\ UNCHANGED <<sale, comm, ret, pay, pmt>>
  BY DEF ReadDue
<1>2. t \in DueState
  BY DEF DueState
<1>3. ReadHolds(t)
  BY <1>1 DEF ReadHolds
<1> HIDE DEF t
<1> QED
  BY <1>1, <1>2, <1>3, ReadStep

LEMMA ReadDistratoInv ==
  ASSUME IInv, NEW q \in Requests, NEW s \in Sales, ReadDistrato(q, s)
  PROVE  IInv'
<1> DEFINE seen == [c \in Commissions |-> pay[c]]
           t == [op |-> "distrato", sale |-> s, comm |-> comm, pay |-> seen]
<1>1. /\ \A c \in CommissionsIn(comm, s) : pay[c].paid = 0
      /\ tx' = [tx EXCEPT ![q] = t]
      /\ UNCHANGED <<sale, comm, ret, pay, pmt>>
  BY DEF ReadDistrato
<1>2. seen \in AccountsOfCommissions
  <2>1. \A c \in Commissions : pay[c] \in PayableRow \cup {AbsentPayable}
    BY Disjoint DEF IInv, TypeOK, PayableTable
  <2> QED
    BY <2>1 DEF AccountsOfCommissions
<1>3. t \in DistratoState
  BY <1>2 DEF DistratoState, IInv, TypeOK
<1>4. ReadHolds(t)
  <2>1. CommissionsIn(comm, s) \subseteq Commissions
    BY DEF CommissionsIn
  <2> QED
    BY <1>1, <2>1 DEF ReadHolds
<1> HIDE DEF t
<1> QED
  BY <1>1, <1>3, <1>4, ReadStep

LEMMA CommitDueInv ==
  ASSUME IInv, NEW q \in Requests, CommitDue(q)
  PROVE  IInv'
<1> DEFINE c == tx[q].comm
           row == NewPayable(comm[c].amount)
<1>1. c \in Commissions /\ comm[c].status # "ABSENT"
  <2>1. c \in Commissions
    BY TxType DEF CommitDue, DueState, IInv
  <2>2. ReadHolds(tx[q])
    BY DEF IInv, ReadsHold
  <2> QED
    BY <2>1, <2>2 DEF ReadHolds, CommitDue
<1>2. comm[c] \in CommissionRow /\ comm[c].amount \in Amounts
  BY <1>1, CommissionType DEF IInv, TypeOK
<1>3. /\ row \in PayableRow /\ RowCheck(row)
      /\ row.status = "PENDENTE" /\ row.paid = 0
  BY <1>2, NewPayableRow, AmountAssumption
<1>4. /\ comm' = [comm EXCEPT ![c].status = "DEVIDA"]
      /\ pay' = IF pay[c].status = "ABSENT" THEN [pay EXCEPT ![c] = row] ELSE pay
      /\ tx' = [tx EXCEPT ![q] = Idle]
      /\ UNCHANGED <<sale, ret, pmt>>
  BY DEF CommitDue
<1> HIDE DEF row, c
<1>5. /\ comm'[c] \in CommissionRow
      /\ comm'[c].status = "DEVIDA"
      /\ comm'[c].sale = comm[c].sale
      /\ \A d \in Commissions \ {c} : comm'[d] = comm[d]
      /\ comm' \in CommissionTable
  BY <1>1, <1>2, <1>4 DEF IInv, TypeOK, CommissionTable, CommissionRow
<1>6. /\ \A s \in Payables \ {c} : pay'[s] = pay[s]
      /\ pay'[c] = IF pay[c].status = "ABSENT" THEN row ELSE pay[c]
      /\ pay' \in PayableTable
  BY <1>1, <1>3, <1>4, Disjoint DEF IInv, TypeOK, PayableTable
<1>7. TypeOK'
  BY <1>4, <1>5, <1>6 DEF IInv, TypeOK
<1>8. Ledger'
  <2>1. pay[c].status = "ABSENT" => pay[c].paid = 0
    BY <1>1, Disjoint, LedgerTypes, TableType DEF IInv, AbsentPayable
  <2>2. /\ \A s \in Payables : pay'[s].paid = pay[s].paid
        /\ \A s \in Payables : pay'[s] = pay[s] \/ RowCheck(pay'[s])
    BY <1>3, <1>6, <2>1
  <2> QED
    BY <1>4, <1>7, <2>2, LedgerSamePaid DEF IInv
<1>9. Sources'
  <2>1. \A r \in Returns : pay'[r] = pay[r]
    BY <1>1, <1>6, Disjoint
  <2>2. ReturnFollowsPayable' /\ ReturnsStay'
    BY <1>4, <2>1 DEF IInv, Sources, ReturnFollowsPayable, ReturnsStay
  <2>3. CommissionsOpened'
    <3>1. comm'[c].status # "ABSENT" /\ comm'[c].status # "CANCELADA"
      BY <1>5
    <3>2. \A d \in Commissions \ {c} : comm'[d] = comm[d] /\ pay'[d] = pay[d]
      BY <1>5, <1>6, Disjoint
    <3> QED
      BY <3>1, <3>2 DEF IInv, Sources, CommissionsOpened
  <2> QED
    BY <2>2, <2>3 DEF Sources
<1>10. RowsStay
  BY <1>1, <1>5, <1>6, Disjoint DEF RowsStay
<1>11. ReadsHold'
  BY <1>4, <1>10, ReadsStayAfter DEF IInv
<1> QED
  BY <1>7, <1>8, <1>9, <1>11 DEF IInv

\* The commissions of a distrato, none of which anything was paid for.
LEMMA DistratoRows ==
  ASSUME IInv, NEW q \in Requests, tx[q].op = "distrato", Unwritten(q),
         NEW c \in CommissionsIn(tx[q].comm, tx[q].sale)
  PROVE  /\ c \in Commissions
         /\ comm[c] \in CommissionRow
         /\ pay[c] = tx[q].pay[c]
         /\ pay[c].paid = 0
         /\ pay[c].status \in {"ABSENT", "PENDENTE", "CANCELADO"}
         /\ pay[c].status # "ABSENT" =>
              pay[c] \in PayableRow /\ ~pay[c].paidAt /\ RowCheck(pay[c])
<1>1. tx[q] \in DistratoState /\ tx[q].sale \in Sales
  BY TxType, DistratoType DEF IInv
<1>2. /\ c \in Commissions
      /\ tx[q].comm[c].sale = tx[q].sale
      /\ comm[c] = tx[q].comm[c]
      /\ pay[c] = tx[q].pay[c]
  BY DEF Unwritten, CommissionsIn
<1>3. comm[c] \in CommissionRow
  <2>1. comm[c].sale # Null
    BY <1>1, <1>2, NullAssumption
  <2> QED
    BY <1>2, <2>1, CommissionType DEF IInv, TypeOK
<1>4. pay[c].paid = 0
  <2>1. ReadHolds(tx[q])
    BY DEF IInv, ReadsHold
  <2> QED
    BY <1>2, <2>1 DEF ReadHolds
<1>5. c \in Payables
  BY <1>2, Disjoint
<1>6. /\ pay[c].status # "ABSENT" => pay[c] \in PayableRow /\ RowCheck(pay[c])
      /\ pay[c].status \in {"ABSENT", "PENDENTE", "PARCIAL", "PAGO", "CANCELADO"}
  BY <1>5, LedgerTypes, TableType DEF IInv, Ledger, StatusMatchesAmounts
<1>7. pay[c].status # "ABSENT" =>
        pay[c].status \in {"PENDENTE", "CANCELADO"} /\ ~pay[c].paidAt
  <2> HAVE pay[c].status # "ABSENT"
  <2>1. pay[c].original \in Nat \ {0} /\ RowCheck(pay[c])
    BY <1>6, PayableRowType
  <2> QED
    BY <1>4, <1>6, <2>1 DEF RowCheck
<1> QED
  BY <1>2, <1>3, <1>4, <1>6, <1>7

LEMMA CommitDistratoInv ==
  ASSUME IInv, NEW q \in Requests, CommitDistrato(q)
  PROVE  IInv'
<1> DEFINE C == CommissionsIn(tx[q].comm, tx[q].sale)
<1>1. /\ tx[q].op = "distrato" /\ Unwritten(q)
      /\ tx[q] \in DistratoState /\ tx[q].sale \in Sales
  BY TxType, DistratoType DEF CommitDistrato, IInv
<1>2. \A c \in C :
        /\ c \in Commissions
        /\ comm[c] \in CommissionRow
        /\ pay[c] = tx[q].pay[c]
        /\ pay[c].paid = 0
        /\ pay[c].status \in {"ABSENT", "PENDENTE", "CANCELADO"}
        /\ pay[c].status # "ABSENT" =>
             pay[c] \in PayableRow /\ ~pay[c].paidAt /\ RowCheck(pay[c])
  BY <1>1, DistratoRows
<1>3. /\ comm' = [c \in Commissions |->
                    IF c \in C THEN [comm[c] EXCEPT !.status = "CANCELADA"]
                    ELSE comm[c]]
      /\ pay' = [p \in Payables |->
                   IF p \in C /\ tx[q].pay[p].status \notin {"ABSENT", "PAGO"}
                   THEN [pay[p] EXCEPT !.status = "CANCELADO", !.cancelledAt = TRUE]
                   ELSE pay[p]]
      /\ sale' = [sale EXCEPT ![tx[q].sale] = "DISTRATADA"]
      /\ tx' = [tx EXCEPT ![q] = Idle]
      /\ UNCHANGED <<ret, pmt>>
  BY DEF CommitDistrato
<1> HIDE DEF C
<1>4. \A c \in Commissions :
        /\ c \in C => /\ comm'[c] \in CommissionRow
                      /\ comm'[c].status = "CANCELADA"
                      /\ comm'[c].sale = comm[c].sale
        /\ c \notin C => comm'[c] = comm[c]
  BY <1>2, <1>3 DEF CommissionRow
<1>5. comm' \in CommissionTable
  <2>1. \A c \in Commissions : comm'[c] \in CommissionRow \cup {AbsentCommission}
    BY <1>4 DEF IInv, TypeOK, CommissionTable
  <2> QED
    BY <1>3, <2>1 DEF CommissionTable
<1>6. \A p \in Payables :
        \/ pay'[p] = pay[p] /\ (p \in C => pay[p].status = "ABSENT")
        \/ /\ p \in C
           /\ pay[p].status # "ABSENT"
           /\ pay'[p] \in PayableRow
           /\ pay'[p].status = "CANCELADO"
           /\ pay'[p].paid = pay[p].paid
           /\ RowCheck(pay'[p])
  <2> TAKE p \in Payables
  <2>1. CASE p \in C /\ pay[p].status # "ABSENT"
    <3>1. pay'[p] = [pay[p] EXCEPT !.status = "CANCELADO", !.cancelledAt = TRUE]
      BY <1>2, <1>3, <2>1
    <3>2. pay[p] \in PayableRow /\ pay[p].paid = 0 /\ ~pay[p].paidAt /\ pay[p].original \in Nat
      BY <1>2, <2>1, PayableRowType
    <3>3. /\ pay'[p].status = "CANCELADO" /\ pay'[p].cancelledAt
          /\ pay'[p].paid = pay[p].paid /\ pay'[p].original = pay[p].original
          /\ pay'[p].paidAt = pay[p].paidAt
          /\ pay'[p] \in PayableRow
      BY <3>1, <3>2 DEF PayableRow
    <3>4. RowCheck(pay'[p])
      <4>1. 0 < pay[p].original
        BY <1>2, <2>1, PayableRowType
      <4> QED
        BY <3>2, <3>3, <4>1 DEF RowCheck
    <3> QED
      BY <2>1, <3>3, <3>4
  <2>2. CASE ~(p \in C /\ pay[p].status # "ABSENT")
    BY <1>2, <1>3, <2>2
  <2> QED
    BY <2>1, <2>2
<1>7. pay' \in PayableTable
  <2>1. \A p \in Payables : pay'[p] \in PayableRow \cup {AbsentPayable}
    BY <1>6 DEF IInv, TypeOK, PayableTable
  <2> QED
    BY <1>3, <2>1 DEF PayableTable
<1>8. TypeOK'
  BY <1>1, <1>3, <1>5, <1>7 DEF IInv, TypeOK
<1>9. Ledger'
  <2>1. /\ \A p \in Payables : pay'[p].paid = pay[p].paid
        /\ \A p \in Payables : pay'[p] = pay[p] \/ RowCheck(pay'[p])
    BY <1>6
  <2> QED
    BY <1>3, <1>8, <2>1, LedgerSamePaid DEF IInv
<1>10. \A p \in Payables : p \notin C => pay'[p] = pay[p]
  BY <1>6
<1>11. Sources'
  <2>1. \A r \in Returns : pay'[r] = pay[r]
    BY <1>2, <1>10, Disjoint
  <2>0. ret' = ret
    BY <1>3
  <2>2. ReturnFollowsPayable' /\ ReturnsStay'
    BY <2>0, <2>1 DEF IInv, Sources, ReturnFollowsPayable, ReturnsStay
  <2>3. CommissionsOpened'
    <3> SUFFICES ASSUME NEW c \in Commissions
                 PROVE  /\ pay'[c].status # "ABSENT" => comm'[c].status # "ABSENT"
                        /\ comm'[c].status = "CANCELADA" =>
                             pay'[c].status \in {"ABSENT", "CANCELADO"}
      BY DEF CommissionsOpened
    <3>1. CASE c \in C
      BY <1>4, <1>6, <3>1, Disjoint
    <3>2. CASE c \notin C
      BY <1>4, <1>10, <3>2, Disjoint DEF IInv, Sources, CommissionsOpened
    <3> QED
      BY <3>1, <3>2
  <2> QED
    BY <2>2, <2>3 DEF Sources
<1>12. RowsStay
  <2>1. \A p \in Manual : pay'[p] = pay[p]
    BY <1>2, <1>10, Disjoint
  <2>2. \A c \in Commissions :
          comm[c].status # "ABSENT" =>
            comm'[c].status # "ABSENT" /\ comm'[c].sale = comm[c].sale
    BY <1>4
  <2> QED
    BY <2>1, <2>2 DEF RowsStay
<1>13. ReadsHold'
  BY <1>3, <1>12, ReadsStayAfter DEF IInv
<1> QED
  BY <1>8, <1>9, <1>11, <1>13 DEF IInv

-----------------------------------------------------------------------------
(* Commissions and returns.                                                *)

LEMMA AddCommissionInv ==
  ASSUME IInv, NEW c \in Commissions, NEW s \in Sales, NEW amount \in Amounts,
         AddCommission(c, s, amount)
  PROVE  IInv'
<1> DEFINE row == [status |-> "PREVISTA", sale |-> s, amount |-> amount]
<1>1. /\ comm[c].status = "ABSENT"
      /\ comm' = [comm EXCEPT ![c] = row]
      /\ UNCHANGED <<sale, ret, pay, pmt, tx>>
  BY DEF AddCommission
<1>2. row \in CommissionRow /\ row.status = "PREVISTA"
  BY DEF CommissionRow
<1> HIDE DEF row
<1>3. /\ comm'[c] = row
      /\ \A d \in Commissions \ {c} : comm'[d] = comm[d]
      /\ comm' \in CommissionTable
  BY <1>1, <1>2 DEF IInv, TypeOK, CommissionTable
<1>4. TypeOK'
  BY <1>1, <1>3 DEF IInv, TypeOK
<1>5. Ledger'
  BY <1>1, LedgerSame DEF IInv
<1>6. Sources'
  <2>1. ReturnFollowsPayable' /\ ReturnsStay'
    BY <1>1 DEF IInv, Sources, ReturnFollowsPayable, ReturnsStay
  <2>2. CommissionsOpened'
    BY <1>1, <1>2, <1>3 DEF IInv, Sources, CommissionsOpened
  <2> QED
    BY <2>1, <2>2 DEF Sources
<1>7. RowsStay
  BY <1>1, <1>3 DEF RowsStay
<1>8. ReadsHold'
  BY <1>1, <1>7, ReadsStayWhile DEF IInv
<1> QED
  BY <1>4, <1>5, <1>6, <1>8 DEF IInv

\* A return and its account, written together.
LEMMA ReturnStep ==
  ASSUME IInv, NEW r \in Returns,
         NEW row \in ReturnRow \cup {AbsentReturn},
         NEW account \in PayableRow \cup {AbsentPayable},
         ret' = [ret EXCEPT ![r] = row],
         pay' = [pay EXCEPT ![r] = account],
         UNCHANGED <<sale, comm, pmt, tx>>,
         account.paid = pay[r].paid,
         account.status \in {"ABSENT", "PENDENTE"},
         account.status # "ABSENT" => RowCheck(account),
         row.status = IF account.status = "ABSENT" THEN "ABSENT" ELSE "PENDENTE",
         row.status # "ABSENT" =>
           account.original = ToDecimal(row.expected) /\ row.realized = Null
  PROVE  IInv'
<1>1. /\ ret'[r] = row
      /\ \A s \in Returns \ {r} : ret'[s] = ret[s]
      /\ ret' \in [Returns -> ReturnRow \cup {AbsentReturn}]
  BY DEF IInv, TypeOK
<1>2. /\ pay'[r] = account
      /\ \A p \in Payables \ {r} : pay'[p] = pay[p]
      /\ pay' \in PayableTable
  BY Disjoint DEF IInv, TypeOK, PayableTable
<1>3. TypeOK'
  BY <1>1, <1>2 DEF IInv, TypeOK
<1>4. Ledger'
  BY <1>2, <1>3, LedgerSamePaid DEF IInv
<1>5. Sources'
  <2>1. \A s \in Returns \ {r} : pay'[s] = pay[s]
    BY <1>2, Disjoint
  <2>2. ReturnFollowsPayable'
    <3>1. /\ ret'[r].status = "ABSENT" <=> pay'[r].status = "ABSENT"
          /\ ret'[r].status # "ABSENT" =>
               /\ pay'[r].original = ToDecimal(ret'[r].expected)
               /\ ret'[r].status = "PAGO" <=> pay'[r].status = "PAGO"
               /\ ret'[r].realized =
                    IF pay'[r].status = "PAGO" THEN ToFloat(pay'[r].paid) ELSE Null
      BY <1>1, <1>2
    <3>2. \A s \in Returns \ {r} : ret'[s] = ret[s] /\ pay'[s] = pay[s]
      BY <1>1, <2>1
    <3> QED
      BY <3>1, <3>2 DEF IInv, Sources, ReturnFollowsPayable
  <2>3. ReturnsStay'
    BY <1>2, <2>1 DEF IInv, Sources, ReturnsStay
  <2>4. CommissionsOpened'
    BY <1>2, Disjoint DEF IInv, Sources, CommissionsOpened
  <2> QED
    BY <2>2, <2>3, <2>4 DEF Sources
<1>6. RowsStay
  BY <1>2, Disjoint DEF RowsStay
<1>7. ReadsHold'
  BY <1>6, ReadsStayWhile DEF IInv
<1> QED
  BY <1>3, <1>4, <1>5, <1>7 DEF IInv

LEMMA AbsentRows ==
  /\ AbsentReturn.status = "ABSENT"
  /\ AbsentPayable.status = "ABSENT"
  /\ AbsentPayable.paid = 0
BY DEF AbsentReturn, AbsentPayable

LEMMA CreateReturnInv ==
  ASSUME IInv, NEW r \in Returns, NEW amount \in ReturnAmounts, CreateReturn(r, amount)
  PROVE  IInv'
<1> DEFINE row == [status |-> "PENDENTE", expected |-> amount, realized |-> Null]
           account == NewPayable(ToDecimal(amount))
<1>1. /\ RowCheck(account)
      /\ ret' = [ret EXCEPT ![r] = row]
      /\ pay' = [pay EXCEPT ![r] = account]
      /\ UNCHANGED <<sale, comm, pmt, tx>>
  BY DEF CreateReturn
<1>2. /\ row \in ReturnRow
      /\ row.status = "PENDENTE" /\ row.expected = amount /\ row.realized = Null
  BY DEF ReturnRow
<1>3. /\ account \in PayableRow
      /\ account.status = "PENDENTE" /\ account.paid = 0
      /\ account.original = ToDecimal(amount)
  <2>1. ToDecimal(amount) \in Nat
    BY AmountAssumption, Roundings
  <2>2. account.original = ToDecimal(amount)
    BY DEF NewPayable
  <2>3. ToDecimal(amount) \in Nat \ {0}
    BY <1>1, <2>1, <2>2 DEF RowCheck
  <2> QED
    BY <2>3, NewPayableRow
<1>4. pay[r].paid = 0
  <2>1. pay[r].status = "ABSENT"
    BY DEF CreateReturn, IInv, Sources, ReturnFollowsPayable
  <2> QED
    BY <2>1, Disjoint, LedgerTypes, TableType, AbsentRows DEF IInv
<1> HIDE DEF row, account
<1> QED
  BY <1>1, <1>2, <1>3, <1>4, ReturnStep

LEMMA UpdateReturnInv ==
  ASSUME IInv, NEW r \in Returns, NEW amount \in ReturnAmounts, UpdateReturn(r, amount)
  PROVE  IInv'
<1> DEFINE row == [ret[r] EXCEPT !.expected = amount]
           account == [pay[r] EXCEPT !.original = ToDecimal(amount)]
<1>1. /\ ret[r].status # "ABSENT" /\ pay[r].paid = 0
      /\ ret[r] \in ReturnRow /\ pay[r].status # "ABSENT"
      /\ r \in Payables
  BY ReturnType, Disjoint DEF UpdateReturn, IInv, Sources, ReturnFollowsPayable
<1>2. pay[r] \in PayableRow /\ RowCheck(pay[r]) /\ pay[r].original \in Nat \ {0}
  BY <1>1, LedgerTypes, TableType, PayableRowType
  DEF IInv, Ledger, StatusMatchesAmounts
<1>3. pay[r].status = "PENDENTE" /\ ~pay[r].paidAt /\ ~pay[r].cancelledAt
  <2>1. pay[r].status # "CANCELADO"
    BY DEF IInv, Sources, ReturnsStay
  <2> QED
    BY <1>1, <1>2, <2>1 DEF RowCheck
<1>4. ret[r].status = "PENDENTE" /\ ret[r].realized = Null
  <2>1. /\ ret[r].status = "PAGO" <=> pay[r].status = "PAGO"
        /\ ret[r].realized = IF pay[r].status = "PAGO" THEN ToFloat(pay[r].paid) ELSE Null
    BY <1>1 DEF IInv, Sources, ReturnFollowsPayable
  <2> QED
    BY <1>1, <1>3, <2>1, ReturnType DEF IInv
<1>5. /\ row \in ReturnRow
      /\ row.status = "PENDENTE" /\ row.expected = amount /\ row.realized = Null
  BY <1>1, <1>4 DEF ReturnRow
<1>6. RowCheck(account)
  BY DEF UpdateReturn
<1>7. /\ account \in PayableRow
      /\ account.status = "PENDENTE" /\ account.paid = 0
      /\ account.original = ToDecimal(amount)
  <2>1. ToDecimal(amount) \in Nat
    BY AmountAssumption, Roundings
  <2>2. account.original = ToDecimal(amount)
    BY <1>2 DEF PayableRow
  <2>3. ToDecimal(amount) \in Nat \ {0}
    BY <1>6, <2>1, <2>2 DEF RowCheck
  <2> QED
    BY <1>1, <1>2, <1>3, <2>3 DEF PayableRow
<1>8. /\ ret' = [ret EXCEPT ![r] = row]
      /\ pay' = [pay EXCEPT ![r] = account]
      /\ UNCHANGED <<sale, comm, pmt, tx>>
  BY <1>1 DEF UpdateReturn, IInv, TypeOK, PayableTable
<1> HIDE DEF row, account
<1> QED
  BY <1>1, <1>5, <1>6, <1>7, <1>8, ReturnStep

LEMMA RemoveReturnInv ==
  ASSUME IInv, NEW r \in Returns, RemoveReturn(r)
  PROVE  IInv'
<1>1. /\ \A x \in Payments : pmt[x].pay # r
      /\ ret' = [ret EXCEPT ![r] = AbsentReturn]
      /\ pay' = [pay EXCEPT ![r] = AbsentPayable]
      /\ UNCHANGED <<sale, comm, pmt, tx>>
  BY DEF RemoveReturn
<1>2. pay[r].paid = 0
  <2>1. LivePayments(r) = {}
    BY <1>1 DEF LivePayments
  <2>2. pay[r].paid = SumOf(AmountOf(pmt), {})
    BY <2>1, Disjoint DEF IInv, Ledger, PaidInSum
  <2> QED
    BY <2>2, SumEmpty
<1> QED
  BY <1>1, <1>2, AbsentRows, ReturnStep

-----------------------------------------------------------------------------
(* The first state, and the induction.                                     *)

LEMMA InitInv == Init => IInv
<1> HAVE Init
<1>1. /\ \A p \in Payables : pay[p] = AbsentPayable
      /\ \A x \in Payments : pmt[x] = AbsentPayment
      /\ \A c \in Commissions : comm[c] = AbsentCommission
      /\ \A r \in Returns : ret[r] = AbsentReturn
      /\ \A q \in Requests : tx[q] = Idle
  BY DEF Init
<1>2. /\ AbsentPayment.status = "ABSENT"
      /\ AbsentCommission.status = "ABSENT"
      /\ Idle.op = "idle"
  BY DEF AbsentPayment, AbsentCommission, Idle
<1>3. TypeOK
  BY DEF Init, TypeOK, CommissionTable, PayableTable
<1>4. Ledger
  <2>1. NotReversed = {} /\ \A p \in Payables : LivePayments(p) = {}
    BY <1>1, <1>2 DEF NotReversed, LivePayments
  <2>2. PaidInSum
    BY <1>1, <2>1, AbsentRows, SumEmpty DEF PaidInSum
  <2>3. CashInSum
    <3>1. \A p \in Payables : PaidOf(pay)[p] = 0
      BY <1>1, AbsentRows DEF PaidOf
    <3>2. SumOf(PaidOf(pay), Payables) = 0
      BY <3>1, FiniteAssumption, SumOfZeros
    <3> QED
      BY <2>1, <3>2, SumEmpty DEF CashInSum
  <2>4. StatusMatchesAmounts
    BY <1>1, AbsentRows DEF StatusMatchesAmounts
  <2> QED
    BY <2>2, <2>3, <2>4 DEF Ledger
<1>5. Sources
  <2>1. \A r \in Returns : ret[r].status = "ABSENT" /\ pay[r].status = "ABSENT"
    BY <1>1, AbsentRows, Disjoint
  <2>2. \A c \in Commissions : comm[c].status = "ABSENT" /\ pay[c].status = "ABSENT"
    BY <1>1, <1>2, AbsentRows, Disjoint
  <2> QED
    BY <2>1, <2>2 DEF Sources, ReturnFollowsPayable, ReturnsStay, CommissionsOpened
<1>6. ReadsHold
  BY <1>1, <1>2 DEF ReadsHold, ReadHolds
<1> QED
  BY <1>3, <1>4, <1>5, <1>6 DEF IInv

LEMMA StutterInv ==
  ASSUME IInv, UNCHANGED vars
  PROVE  IInv'
<1>1. UNCHANGED <<sale, comm, ret, pay, pmt, tx>>
  BY DEF vars
<1>2. TypeOK' /\ Ledger' /\ Sources'
  BY <1>1, LedgerSame, SourcesSame DEF IInv, TypeOK
<1>3. ReadsHold'
  <2>1. RowsStay
    BY <1>1 DEF RowsStay
  <2> QED
    BY <1>1, <2>1, ReadsStayWhile DEF IInv
<1> QED
  BY <1>2, <1>3 DEF IInv

LEMMA NextInv == IInv /\ [Next]_vars => IInv'
<1> SUFFICES ASSUME IInv, [Next]_vars PROVE IInv'
  OBVIOUS
<1>1. CASE PayableNext
  BY <1>1, CreatePayableInv, CancelPayableInv, RecordPaymentInv, ReversePaymentInv
  DEF PayableNext
<1>2. CASE RequestNext
  BY <1>2, ReadUpdateInv, CommitUpdateInv, ReadDueInv, CommitDueInv, ReadDistratoInv,
     CommitDistratoInv, RollbackInv
  DEF RequestNext
<1>3. CASE SourceNext
  BY <1>3, AddCommissionInv, CreateReturnInv, UpdateReturnInv, RemoveReturnInv
  DEF SourceNext
<1>4. CASE UNCHANGED vars
  BY <1>4, StutterInv
<1> QED
  BY <1>1, <1>2, <1>3, <1>4 DEF Next

\* The inductive invariant holds in every state.
THEOREM Inductive == Spec => []IInv
<1>1. Init => IInv
  BY InitInv
<1>2. IInv /\ [Next]_vars => IInv'
  BY NextInv
<1> QED
  BY <1>1, <1>2, PTL DEF Spec

-----------------------------------------------------------------------------
(* The reports of the ledger.                                              *)

LEMMA BalanceType ==
  ASSUME TypeOK, NEW p \in Payables
  PROVE  /\ PaidOf(pay)[p] \in Int
         /\ BalancesOf(pay)[p] \in Int
         /\ OriginalOf(pay)[p] = PaidOf(pay)[p] + BalancesOf(pay)[p]
<1>1. pay[p].paid \in Nat /\ pay[p].original \in Nat
  BY LedgerTypes, TableType
<1> QED
  BY <1>1 DEF PaidOf, BalancesOf, OriginalOf

\* Accounts with nothing left to pay add nothing to a balance.
LEMMA BalanceWithout ==
  ASSUME TypeOK, NEW S \in SUBSET Payables, NEW R \in SUBSET S,
         \A p \in S \ R : pay[p].paid = pay[p].original
  PROVE  BalanceOf(S) = BalanceOf(R)
<1> DEFINE f == BalancesOf(pay)
           T == S \ R
<1>1. IsFiniteSet(R) /\ IsFiniteSet(T)
  BY FiniteAssumption, FS_Subset
<1>2. \A p \in T : f[p] = 0
  <2> TAKE p \in T
  <2>1. pay[p].paid = pay[p].original /\ pay[p].original \in Nat
    BY LedgerTypes, TableType
  <2> QED
    BY <2>1 DEF BalancesOf
<1>3. \A p \in R \cup T : f[p] \in Int
  BY BalanceType
<1>4. R \cap T = {} /\ S = R \cup T
  OBVIOUS
<1>5. BalanceOf(S) = SumOf(f, S) /\ BalanceOf(R) = SumOf(f, R)
  BY BalanceSum DEF BalanceOf
<1> HIDE DEF f, T
<1>6. SumOf(f, R \cup T) = SumOf(f, R) + SumOf(f, T)
  BY <1>1, <1>3, <1>4, SumDisjoint
<1>7. SumOf(f, T) = 0
  BY <1>1, <1>2, SumOfZeros
<1>8. SumOf(f, R) \in Int
  BY <1>1, <1>3, SumType
<1> QED
  BY <1>4, <1>5, <1>6, <1>7, <1>8

\* What was paid and what is owed make up what the accounts are worth.
LEMMA ExpensesAre ==
  ASSUME TypeOK, Ledger
  PROVE  CashPaid + PayablesPending = Expenses
<1> DEFINE paid == PaidOf(pay)
           due == BalancesOf(pay)
           worth == OriginalOf(pay)
           R == Payables \ NotCancelled
<1>1. NotCancelled \in SUBSET Payables /\ NotReversed \in SUBSET Payments
  BY DEF NotCancelled, NotReversed
<1>2. \A p \in Payables : paid[p] \in Int /\ due[p] \in Int /\ worth[p] = paid[p] + due[p]
  BY BalanceType
<1>3. CashPaid = SumOf(paid, Payables)
  BY <1>1, AmountSum DEF CashPaid, Ledger, CashInSum
<1>4. Expenses = SumOf(worth, NotCancelled)
  BY <1>1, OriginalSum DEF Expenses
<1>5. PayablesPending = SumOf(due, NotCancelled)
  BY <1>1, BalanceSum DEF PayablesPending, BalanceOf
<1>6. \A p \in R : paid[p] = 0
  <2> TAKE p \in R
  <2>1. pay[p].status \in {"ABSENT", "CANCELADO"}
    BY DEF NotCancelled
  <2>2. pay[p].paid = 0
    BY <2>1, LedgerTypes, TableType, AbsentRows
    DEF Ledger, StatusMatchesAmounts, RowCheck
  <2> QED
    BY <2>2 DEF PaidOf
<1>7. IsFiniteSet(NotCancelled) /\ IsFiniteSet(R)
  BY <1>1, FiniteAssumption, FS_Subset
<1>8. NotCancelled \cap R = {} /\ Payables = NotCancelled \cup R
  BY <1>1
<1> HIDE DEF paid, due, worth, R
<1>9. SumOf(worth, NotCancelled) = SumOf(paid, NotCancelled) + SumOf(due, NotCancelled)
  BY <1>1, <1>2, <1>7, SumPlus
<1>10. SumOf(paid, Payables) = SumOf(paid, NotCancelled) + SumOf(paid, R)
  <2>1. \A p \in NotCancelled \cup R : paid[p] \in Int
    BY <1>2, <1>8
  <2> QED
    BY <1>7, <1>8, <2>1, SumDisjoint
<1>11. SumOf(paid, R) = 0
  BY <1>6, <1>7, SumOfZeros
<1>12. SumOf(paid, NotCancelled) \in Int
  BY <1>1, <1>2, <1>7, SumType
<1>13. SumOf(paid, Payables) = SumOf(paid, NotCancelled)
  BY <1>10, <1>11, <1>12
<1> QED
  BY <1>3, <1>4, <1>5, <1>9, <1>13

LEMMA ReportsFollow ==
  ASSUME TypeOK, Ledger
  PROVE  ReportsAgree
<1> DEFINE S == {p \in Payables : pay[p].status \in {"PENDENTE", "PARCIAL"}}
<1>1. NotCancelled \in SUBSET Payables /\ S \in SUBSET NotCancelled
  BY DEF NotCancelled
<1>2. \A p \in NotCancelled \ S : pay[p].paid = pay[p].original
  <2> TAKE p \in NotCancelled \ S
  <2>1. p \in Payables /\ pay[p].status = "PAGO"
    BY LedgerTypes, TableType DEF NotCancelled
  <2> QED
    BY <2>1 DEF Ledger, StatusMatchesAmounts, RowCheck
<1>3. ClosingOutflow = CashPaid + BalanceOf(S)
  BY DEF ClosingOutflow
<1> HIDE DEF S
<1>4. BalanceOf(NotCancelled) = BalanceOf(S)
  BY <1>1, <1>2, BalanceWithout
<1> QED
  BY <1>3, <1>4, ExpensesAre DEF ReportsAgree, PayablesPending

\* What an account says was paid is the sum of its payments that were not
\* reversed, its status says how much that is, and the reports count every cent
\* once, although an edit may commit over what it read before them
\* (recordPayment, reversePayment, update, finance.service.ts).
THEOREM LedgerHolds == Spec => []LedgerConsistent
<1>1. ASSUME IInv
      PROVE  LedgerConsistent
  <2>1. TypeOK /\ Ledger
    BY <1>1 DEF IInv
  <2>2. PaidIsSumOfPayments
    <3> SUFFICES ASSUME NEW p \in Payables
                 PROVE  pay[p].paid = Sum(LAMBDA x : pmt[x].amount, LivePayments(p))
      BY DEF PaidIsSumOfPayments, Sum
    <3>1. LivePayments(p) \in SUBSET Payments
      BY LiveIsPayments
    <3>2. pay[p].paid = SumOf(AmountOf(pmt), LivePayments(p))
      BY <2>1 DEF Ledger, PaidInSum
    <3> QED
      BY <3>1, <3>2, AmountSum
  <2> QED
    BY <2>1, <2>2, ReportsFollow DEF LedgerConsistent, Ledger
<1>2. IInv => LedgerConsistent
  BY <1>1
<1> QED
  BY <1>2, Inductive, PTL

-----------------------------------------------------------------------------
(* The reports of the returns.                                             *)

LEMMA ReturnNumbers ==
  ASSUME TypeOK, NEW r \in Returns
  PROVE  /\ ExpectedOf(ret)[r] \in Nat
         /\ ExpectedCentsOf(ret)[r] = MoneyToCents(ret[r].expected)
         /\ ExpectedCentsOf(ret)[r] \in Nat
         /\ ExpectedCentsOf(ret)[r] * (2 * Parts) - ExpectedOf(ret)[r] * 2 <= Parts
         /\ ExpectedOf(ret)[r] * 2 - ExpectedCentsOf(ret)[r] * (2 * Parts) <= Parts
<1>1. ret[r].expected \in Nat
  BY ReturnType
<1> QED
  BY <1>1, Roundings DEF ExpectedOf, ExpectedCentsOf

LEMMA ExpectedIs ==
  ASSUME NEW S \in SUBSET Returns
  PROVE  /\ Expected(S) = SumOf(ExpectedOf(ret), S)
         /\ ExpectedCents(S) = SumOf(ExpectedCentsOf(ret), S)
BY ExpectedSum, ExpectedCentsSum DEF Expected, ExpectedCents

LEMMA FiniteReturns == ASSUME NEW S \in SUBSET Returns PROVE IsFiniteSet(S)
<1>1. S \in SUBSET Payables
  BY Disjoint
<1> QED
  BY <1>1, FiniteAssumption, FS_Subset

\* What the report expects of the returns S is what the dashboard does, to half
\* a cent a return.
LEMMA ExpectedRounded ==
  ASSUME TypeOK, NEW S \in SUBSET Returns
  PROVE  RoundedFrom(ExpectedCents(S), Expected(S), Cardinality(S))
<1> DEFINE f == ExpectedCentsOf(ret)
           g == ExpectedOf(ret)
           n == Cardinality(S)
<1>1. IsFiniteSet(S)
  BY FiniteReturns
<1>2. \A r \in S : /\ f[r] \in Int /\ g[r] \in Int
                   /\ f[r] * (2 * Parts) - g[r] * 2 <= Parts
                   /\ g[r] * 2 - f[r] * (2 * Parts) <= Parts
  BY ReturnNumbers
<1>3. ExpectedCents(S) = SumOf(f, S) /\ Expected(S) = SumOf(g, S)
  BY ExpectedIs
<1> HIDE DEF f, g
<1>4. Parts \in Int /\ 2 * Parts \in Int /\ n \in Int
  BY <1>1, PartsAssumption, FS_CardinalityType
<1>5. SumOf(f, S) * (2 * Parts) - SumOf(g, S) * 2 <= Parts * n
  BY <1>1, <1>2, <1>4, SumScaled
<1>6. SumOf(g, S) * 2 - SumOf(f, S) * (2 * Parts) <= Parts * n
  BY <1>1, <1>2, <1>4, SumScaled
<1>7. SumOf(f, S) \in Int /\ SumOf(g, S) \in Int
  BY <1>1, <1>2, SumType
<1> HIDE DEF n
<1> QED
  BY <1>3, <1>4, <1>5, <1>6, <1>7, RoundedAs DEF n

\* A return that was paid shows what was paid, which is what was expected of it
\* in whole cents, or a cent more.
LEMMA PaidReturn ==
  ASSUME TypeOK, Ledger, ReturnFollowsPayable, NEW r \in Returns, ret[r].status = "PAGO"
  PROVE  /\ RealizedOf(ret)[r] \in Int
         /\ RealizedCentsOf(ret)[r] \in Int
         /\ RealizedOf(ret)[r] = RealizedCentsOf(ret)[r] * Parts
         /\ RealizedCentsOf(ret)[r]
              = ExpectedCentsOf(ret)[r] + (IF PaidUp(r) THEN 1 ELSE 0)
<1>1. /\ pay[r].status = "PAGO"
      /\ pay[r].original = ToDecimal(ret[r].expected)
      /\ ret[r].realized = ToFloat(pay[r].paid)
  BY DEF ReturnFollowsPayable
<1>2. RowCheck(pay[r])
  BY <1>1, Disjoint DEF Ledger, StatusMatchesAmounts
<1>3. pay[r].paid = pay[r].original /\ pay[r].paid \in Nat
  BY <1>1, <1>2, Disjoint, LedgerTypes, TableType DEF RowCheck
<1>4. ToFloat(pay[r].paid) \in Nat /\ MoneyToCents(ToFloat(pay[r].paid)) = pay[r].paid
  BY <1>3, WholeCents
<1>5. MoneyToCents(ret[r].realized) = ToDecimal(ret[r].expected)
  BY <1>1, <1>3, <1>4
<1>6. ret[r].expected \in Nat
  BY ReturnType
<1>7. ToDecimal(ret[r].expected)
        = MoneyToCents(ret[r].expected) + (IF PaidUp(r) THEN 1 ELSE 0)
  BY <1>6, Roundings DEF PaidUp
<1> QED
  BY <1>1, <1>3, <1>4, <1>5, <1>7
  DEF RealizedOf, RealizedCentsOf, ExpectedCentsOf, ToFloat

\* Of the returns S that were paid, what the report shows as realized.
LEMMA RealizedIs ==
  ASSUME TypeOK, Ledger, ReturnFollowsPayable, NEW S \in SUBSET Returns,
         \A r \in S : ret[r].status = "PAGO"
  PROVE  /\ Sum(LAMBDA r : MoneyToCents(ret[r].realized), S)
              = ExpectedCents(S) + Cardinality({r \in S : PaidUp(r)})
         /\ RoundedFrom(Sum(LAMBDA r : MoneyToCents(ret[r].realized), S),
                        Sum(LAMBDA r : ret[r].realized, S), 0)
<1> DEFINE f == RealizedCentsOf(ret)
           g == ExpectedCentsOf(ret)
           h == RealizedOf(ret)
           up == [r \in S |-> IF PaidUp(r) THEN 1 ELSE 0]
           U == {r \in S : PaidUp(r)}
           D == S \ U
<1>1. \A r \in S : f[r] \in Int /\ h[r] \in Int /\ h[r] = f[r] * Parts
  BY PaidReturn
<1>2. \A r \in S : g[r] \in Int /\ up[r] \in Int /\ f[r] = g[r] + up[r]
  <2> TAKE r \in S
  <2>1. f[r] = g[r] + (IF PaidUp(r) THEN 1 ELSE 0)
    BY PaidReturn
  <2>2. g[r] \in Nat
    BY ReturnNumbers
  <2>3. up[r] = IF PaidUp(r) THEN 1 ELSE 0
    OBVIOUS
  <2> HIDE DEF up, f, g
  <2> QED
    BY <2>1, <2>2, <2>3
<1>3. (\A r \in U : up[r] = 1) /\ (\A r \in D : up[r] = 0)
  OBVIOUS
<1>4. S = U \cup D /\ U \cap D = {}
  OBVIOUS
<1>5. IsFiniteSet(S) /\ IsFiniteSet(U) /\ IsFiniteSet(D)
  BY FiniteReturns
<1>6. /\ Sum(LAMBDA r : MoneyToCents(ret[r].realized), S) = SumOf(f, S)
      /\ Sum(LAMBDA r : ret[r].realized, S) = SumOf(h, S)
      /\ ExpectedCents(S) = SumOf(g, S)
  BY RealizedSum, RealizedCentsSum, ExpectedIs
<1> HIDE DEF f, g, h, up, D
<1>7. SumOf(f, S) = SumOf(g, S) + SumOf(up, S)
  BY <1>2, <1>5, SumPlus
<1>8. SumOf(up, S) = Cardinality(U)
  <2> HIDE DEF U
  <2>1. SumOf(up, U \cup D) = SumOf(up, U) + SumOf(up, D)
    BY <1>2, <1>4, <1>5, SumDisjoint
  <2>2. SumOf(up, U) = Cardinality(U)
    BY <1>3, <1>5, SumOfOnes
  <2>3. SumOf(up, D) = 0
    BY <1>3, <1>5, SumOfZeros
  <2>4. Cardinality(U) \in Nat
    BY <1>5, FS_CardinalityType
  <2> QED
    BY <1>4, <2>1, <2>2, <2>3, <2>4
<1>9. SumOf(h, S) = SumOf(f, S) * Parts
  BY <1>1, <1>5, PartsAssumption, SumTimes
<1>10. SumOf(f, S) \in Int /\ SumOf(h, S) \in Int
  BY <1>1, <1>5, SumType
<1>11. RoundedFrom(SumOf(f, S), SumOf(h, S), 0)
  BY <1>9, <1>10, PartsAssumption DEF RoundedFrom, ToFloat
<1> QED
  BY <1>6, <1>7, <1>8, <1>11

LEMMA ExpectedParts ==
  ASSUME TypeOK, NEW S \in SUBSET Returns, NEW R \in SUBSET Returns, S \cap R = {}
  PROVE  /\ ExpectedCents(S \cup R) = ExpectedCents(S) + ExpectedCents(R)
         /\ ExpectedCents(S) \in Int
<1> DEFINE f == ExpectedCentsOf(ret)
<1>1. \A r \in S \cup R : f[r] \in Int
  BY ReturnNumbers
<1>2. IsFiniteSet(S) /\ IsFiniteSet(R)
  BY FiniteReturns
<1>3. /\ ExpectedCents(S) = SumOf(f, S)
      /\ ExpectedCents(R) = SumOf(f, R)
      /\ ExpectedCents(S \cup R) = SumOf(f, S \cup R)
  BY ExpectedIs
<1> HIDE DEF f
<1>4. SumOf(f, S \cup R) = SumOf(f, S) + SumOf(f, R)
  BY <1>1, <1>2, SumDisjoint
<1>5. SumOf(f, S) \in Int
  BY <1>1, <1>2, SumType
<1> QED
  BY <1>3, <1>4, <1>5

LEMMA ReturnsFollow ==
  ASSUME TypeOK, Ledger, ReturnFollowsPayable
  PROVE  ReturnsAddUp
<1> SUFFICES ASSUME NEW due \in [Returns -> DueDates], NEW now \in Instants
             PROVE  LET report == ReturnSummary(due, now)
                        dashboard == DashboardReturns(due, now)
                        Count(status) == Cardinality(ReturnsThatShow(status, due, now))
                    IN /\ report.realized + report.pending + report.overdue
                            = report.expected
                                + Cardinality({r \in ReturnRows : PaidUp(r)})
                       /\ RoundedFrom(report.realized, dashboard.realized, 0)
                       /\ RoundedFrom(report.pending, dashboard.pending, Count("PENDENTE"))
                       /\ RoundedFrom(report.overdue, dashboard.overdue, Count("ATRASADO"))
  BY DEF ReturnsAddUp
<1> DEFINE paid == ReturnsThatShow("PAGO", due, now)
           pending == ReturnsThatShow("PENDENTE", due, now)
           overdue == ReturnsThatShow("ATRASADO", due, now)
<1>1. now \in Int /\ \A r \in Returns : due[r] \in Int
  <2>1. DueDates \subseteq Int /\ Instants \subseteq Int
    BY DayAssumption DEF DueDates, Instants, Days, Midnight
  <2> QED
    BY <2>1
<1>2. \A r \in ReturnRows : r \in Returns /\ ret[r].status \in {"PENDENTE", "PAGO"}
  BY ReturnType DEF ReturnRows
<1>3. /\ paid = ReturnsWhere("PAGO")
      /\ pending = {r \in ReturnsWhere("PENDENTE") : due[r] >= now}
      /\ overdue = {r \in ReturnsWhere("PENDENTE") : due[r] < now}
  BY <1>1, <1>2 DEF ReturnsThatShow, ReturnsWhere, ComputedReturnStatus
<1>4. /\ paid \in SUBSET Returns /\ pending \in SUBSET Returns /\ overdue \in SUBSET Returns
      /\ paid \cap pending = {}
      /\ (paid \cup pending) \cap overdue = {}
      /\ ReturnRows = (paid \cup pending) \cup overdue
      /\ \A r \in paid : ret[r].status = "PAGO"
  BY <1>1, <1>2, <1>3 DEF ReturnsWhere
<1>5. /\ ReturnSummary(due, now) =
           [expected |-> ExpectedCents(ReturnRows),
            realized |-> Sum(LAMBDA r : MoneyToCents(ret[r].realized), paid),
            pending  |-> ExpectedCents(pending),
            overdue  |-> ExpectedCents(overdue)]
      /\ DashboardReturns(due, now) =
           [realized |-> Sum(LAMBDA r : ret[r].realized, paid),
            pending  |-> Expected(pending),
            overdue  |-> Expected(overdue)]
  <2>1. DashboardReturns(due, now) =
          [realized |-> Sum(LAMBDA r : ret[r].realized, ReturnsWhere("PAGO")),
           pending  |-> Expected({r \in ReturnsWhere("PENDENTE") : due[r] >= now}),
           overdue  |-> Expected({r \in ReturnsWhere("PENDENTE") : due[r] < now})]
    BY DEF DashboardReturns
  <2> QED
    BY <1>3, <2>1 DEF ReturnSummary
<1>6. {r \in ReturnRows : PaidUp(r)} = {r \in paid : PaidUp(r)}
  BY <1>3, <1>4 DEF PaidUp, ReturnsWhere
<1> DEFINE realized == Sum(LAMBDA r : MoneyToCents(ret[r].realized), paid)
           shown == Sum(LAMBDA r : ret[r].realized, paid)
           up == Cardinality({r \in paid : PaidUp(r)})
<1>7. /\ realized = ExpectedCents(paid) + up
      /\ RoundedFrom(realized, shown, 0)
  <2> HIDE DEF paid
  <2> QED
    BY <1>4, RealizedIs
<1>8. up \in Nat
  BY <1>4, FiniteReturns, FS_CardinalityType
<1>9. /\ Cardinality(ReturnsThatShow("PENDENTE", due, now)) = Cardinality(pending)
      /\ Cardinality(ReturnsThatShow("ATRASADO", due, now)) = Cardinality(overdue)
  OBVIOUS
<1> HIDE DEF paid, pending, overdue, realized, shown, up
<1>10. /\ ExpectedCents(paid \cup pending) = ExpectedCents(paid) + ExpectedCents(pending)
       /\ ExpectedCents((paid \cup pending) \cup overdue)
            = ExpectedCents(paid \cup pending) + ExpectedCents(overdue)
       /\ ExpectedCents(paid) \in Int /\ ExpectedCents(pending) \in Int
       /\ ExpectedCents(overdue) \in Int
  BY <1>4, ExpectedParts
<1>11. realized + ExpectedCents(pending) + ExpectedCents(overdue)
         = ExpectedCents(ReturnRows) + up
  BY <1>4, <1>7, <1>8, <1>10
<1>12. /\ RoundedFrom(ExpectedCents(pending), Expected(pending), Cardinality(pending))
       /\ RoundedFrom(ExpectedCents(overdue), Expected(overdue), Cardinality(overdue))
  BY <1>4, ExpectedRounded
<1>13. /\ ReturnSummary(due, now).expected = ExpectedCents(ReturnRows)
       /\ ReturnSummary(due, now).realized = realized
       /\ ReturnSummary(due, now).pending = ExpectedCents(pending)
       /\ ReturnSummary(due, now).overdue = ExpectedCents(overdue)
       /\ DashboardReturns(due, now).realized = shown
       /\ DashboardReturns(due, now).pending = Expected(pending)
       /\ DashboardReturns(due, now).overdue = Expected(overdue)
  BY <1>5 DEF realized, shown
<1> QED
  BY <1>6, <1>7, <1>9, <1>11, <1>12, <1>13 DEF up

\* An account is of its return's amount, rounded to the cent, and the return says
\* what the account says, whatever is paid, reversed or edited, so that the
\* report and the dashboard count it once and agree to half a cent a return; and
\* no commission that is paid for is cancelled by a distrato (syncSource,
\* createForInvestorReturn, syncInvestorReturnTerms, returnSummary, getOverview,
\* sale-cancellations.service.ts).
THEOREM SourcesFollow == Spec => []SourcesFollowPayables
<1>1. ASSUME IInv
      PROVE  SourcesFollowPayables
  <2>1. TypeOK /\ Ledger /\ ReturnFollowsPayable /\ CommissionsOpened
    BY <1>1 DEF IInv, Sources
  <2>2. CancelledCommissionUnpaid
    <3> SUFFICES ASSUME NEW c \in Commissions, comm[c].status = "CANCELADA"
                 PROVE  /\ pay[c].status \in {"ABSENT", "CANCELADO"}
                        /\ LivePayments(c) = {}
      BY DEF CancelledCommissionUnpaid
    <3>1. c \in Payables /\ pay[c].status \in {"ABSENT", "CANCELADO"}
      BY <2>1, Disjoint DEF CommissionsOpened
    <3>2. pay[c].paid = 0
      BY <2>1, <3>1, LedgerTypes, TableType, AbsentRows
      DEF Ledger, StatusMatchesAmounts, RowCheck
    <3>3. \A x \in LivePayments(c) : pay[c].paid > 0
      BY <2>1, <3>1, PaidAtLeast DEF Ledger
    <3> QED
      BY <3>1, <3>2, <3>3
  <2> QED
    BY <2>1, <2>2, ReturnsFollow DEF SourcesFollowPayables
<1>2. IInv => SourcesFollowPayables
  BY <1>1
<1> QED
  BY <1>2, Inductive, PTL

-----------------------------------------------------------------------------
(* What is closed stays closed.                                            *)

ClosedStays ==
  /\ \A p \in Payables : pay[p].status = "CANCELADO" => pay'[p] = pay[p]
  /\ \A x \in Payments : pmt[x].status = "REVERSED" => pmt'[x] = pmt[x]
  /\ \A c \in Commissions :
       OwedAfterDistrato(c)' => OwedAfterDistrato(c) \/ MissedOrRevived(c)

\* A step that touches neither a payment nor a commission nor a sale.
LEMMA AccountStepKeeps ==
  ASSUME UNCHANGED <<pmt, comm, sale>>,
         \A p \in Payables : pay[p].status = "CANCELADO" => pay'[p] = pay[p]
  PROVE  ClosedStays
BY DEF ClosedStays, OwedAfterDistrato

\* An account of a commission that can be paid, or has a payment.
LEMMA SyncKeeps ==
  ASSUME IInv, UNCHANGED sale, NEW p \in Payables, NEW status,
         pay[p].status \notin {"ABSENT", "CANCELADO"},
         comm' = SyncCommission(p, status)
  PROVE  \A c \in Commissions : OwedAfterDistrato(c)' => OwedAfterDistrato(c)
<1> SUFFICES ASSUME NEW c \in Commissions, OwedAfterDistrato(c)'
             PROVE  OwedAfterDistrato(c)
  OBVIOUS
<1>1. CASE c = p
  <2>1. comm[c].status # "ABSENT" /\ comm[c].status # "CANCELADA"
    BY <1>1 DEF IInv, Sources, CommissionsOpened
  <2>2. comm[c] \in CommissionRow
    BY <2>1, CommissionType DEF IInv, TypeOK
  <2>3. comm'[c].sale = comm[c].sale
    BY <1>1, <2>2 DEF SyncCommission, IInv, TypeOK, CommissionTable, CommissionRow
  <2> QED
    BY <2>1, <2>3 DEF OwedAfterDistrato
<1>2. CASE c # p
  <2>1. comm'[c] = comm[c]
    BY <1>2 DEF SyncCommission, IInv, TypeOK, CommissionTable
  <2> QED
    BY <2>1 DEF OwedAfterDistrato
<1> QED
  BY <1>1, <1>2

LEMMA PaymentStepKeeps ==
  ASSUME IInv, \/ \E p \in Payables, x \in Payments, amount \in Amounts :
                    RecordPayment(p, x, amount)
               \/ \E x \in Payments : ReversePayment(x)
  PROVE  ClosedStays
<1>1. ASSUME NEW p \in Payables, NEW x \in Payments, NEW amount \in Amounts,
             RecordPayment(p, x, amount)
      PROVE  ClosedStays
  <2>1. /\ pay[p].status \notin {"ABSENT", "CANCELADO"}
        /\ pmt[x].status = "ABSENT"
        /\ UNCHANGED sale
    BY <1>1 DEF RecordPayment, Payable
  <2>2. /\ \A s \in Payables \ {p} : pay'[s] = pay[s]
        /\ \A y \in Payments \ {x} : pmt'[y] = pmt[y]
    BY <1>1 DEF RecordPayment, IInv, TypeOK, PayableTable
  <2>3. \A c \in Commissions : OwedAfterDistrato(c)' => OwedAfterDistrato(c)
    <3>1. PICK status : comm' = SyncCommission(p, status)
      BY <1>1 DEF RecordPayment
    <3> QED
      BY <2>1, <3>1, SyncKeeps
  <2> QED
    BY <2>1, <2>2, <2>3 DEF ClosedStays
<1>2. ASSUME NEW x \in Payments, ReversePayment(x)
      PROVE  ClosedStays
  <2> DEFINE p == pmt[x].pay
  <2>1. /\ p \in Payables
        /\ pay[p].status \notin {"ABSENT", "CANCELADO"}
        /\ pmt[x].status = "LIVE"
        /\ UNCHANGED sale
    BY <1>2, PaymentHasAccount DEF ReversePayment, Reversible, IInv
  <2>2. /\ \A s \in Payables \ {p} : pay'[s] = pay[s]
        /\ \A y \in Payments \ {x} : pmt'[y] = pmt[y]
    BY <1>2, <2>1 DEF ReversePayment, IInv, TypeOK, PayableTable
  <2>3. \A c \in Commissions : OwedAfterDistrato(c)' => OwedAfterDistrato(c)
    <3>1. PICK status : comm' = SyncCommission(p, status)
      BY <1>2 DEF ReversePayment
    <3> HIDE DEF p
    <3> QED
      BY <2>1, <3>1, SyncKeeps
  <2> HIDE DEF p
  <2> QED
    BY <2>1, <2>2, <2>3 DEF ClosedStays
<1> QED
  BY <1>1, <1>2

\* The CHECK constraints keep a stale edit from reopening a cancelled account.
LEMMA EditKeeps ==
  ASSUME IInv, NEW q \in Requests, CommitUpdate(q)
  PROVE  ClosedStays
<1> DEFINE p == tx[q].pay
           row == EditedRow(pay[p], tx[q].seen, tx[q].amount)
<1>1. p \in Manual /\ p \in Payables /\ p \notin Commissions
  BY TxType, UpdateType, Disjoint DEF CommitUpdate, IInv
<1>2. RowCheck(row) /\ pay' = [pay EXCEPT ![p] = row] /\ UNCHANGED <<sale, comm, pmt>>
  BY DEF CommitUpdate
<1>3. ASSUME pay[p].status = "CANCELADO"
      PROVE  FALSE
  <2>1. pay[p] \in PayableRow /\ RowCheck(pay[p])
    BY <1>1, <1>3, LedgerTypes, TableType DEF IInv, Ledger, StatusMatchesAmounts
  <2>2. pay[p].cancelledAt
    BY <1>3, <2>1 DEF RowCheck
  <2>3. row.cancelledAt = pay[p].cancelledAt /\ row.status \in {"PAGO", "PARCIAL", "PENDENTE"}
    BY <2>1 DEF EditedRow, PayableRow
  <2> HIDE DEF row, p
  <2> QED
    BY <1>2, <2>2, <2>3 DEF RowCheck
<1>4. \A s \in Payables : pay[s].status = "CANCELADO" => pay'[s] = pay[s]
  <2> HIDE DEF row, p
  <2> QED
    BY <1>1, <1>2, <1>3 DEF IInv, TypeOK, PayableTable
<1> QED
  BY <1>2, <1>4, AccountStepKeeps

LEMMA DueKeeps ==
  ASSUME IInv, NEW q \in Requests, CommitDue(q)
  PROVE  ClosedStays
<1>1. tx[q].comm \in Commissions /\ tx[q].op = "due"
  BY TxType DEF CommitDue, DueState, IInv
<1>2. /\ \A p \in Payables : pay[p].status = "CANCELADO" => pay'[p] = pay[p]
      /\ UNCHANGED <<sale, pmt>>
      /\ tx'[q] = Idle
      /\ \A c \in Commissions : c # tx[q].comm => comm'[c] = comm[c]
  BY DEF CommitDue, IInv, TypeOK, PayableTable, CommissionTable
<1>3. \A c \in Commissions :
        OwedAfterDistrato(c)' => OwedAfterDistrato(c) \/ MissedOrRevived(c)
  <2> TAKE c \in Commissions
  <2>1. CASE c = tx[q].comm
    BY <1>1, <1>2, <2>1 DEF MissedOrRevived
  <2>2. CASE c # tx[q].comm
    BY <1>2, <2>2 DEF OwedAfterDistrato
  <2> QED
    BY <2>1, <2>2
<1> QED
  BY <1>2, <1>3 DEF ClosedStays

LEMMA DistratoKeeps ==
  ASSUME IInv, NEW q \in Requests, CommitDistrato(q)
  PROVE  ClosedStays
<1> DEFINE C == CommissionsIn(tx[q].comm, tx[q].sale)
<1>1. /\ tx[q].op = "distrato" /\ Unwritten(q)
      /\ tx[q] \in DistratoState /\ tx[q].sale \in Sales
  BY TxType, DistratoType DEF CommitDistrato, IInv
<1>2. /\ comm' = [c \in Commissions |->
                    IF c \in C THEN [comm[c] EXCEPT !.status = "CANCELADA"]
                    ELSE comm[c]]
      /\ pay' = [p \in Payables |->
                   IF p \in C /\ tx[q].pay[p].status \notin {"ABSENT", "PAGO"}
                   THEN [pay[p] EXCEPT !.status = "CANCELADO", !.cancelledAt = TRUE]
                   ELSE pay[p]]
      /\ UNCHANGED pmt
  BY DEF CommitDistrato
<1>3. /\ \A s \in Sales : s # tx[q].sale => sale'[s] = sale[s]
      /\ tx'[q] = Idle
  BY DEF CommitDistrato, IInv, TypeOK
<1>4. \A c \in C : c \in Commissions /\ comm[c] \in CommissionRow
  BY <1>1, DistratoRows
<1>5. \A p \in Payables : pay[p].status = "CANCELADO" => pay'[p] = pay[p]
  <2> SUFFICES ASSUME NEW p \in Payables, pay[p].status = "CANCELADO"
               PROVE  pay'[p] = pay[p]
    OBVIOUS
  <2>1. pay[p] \in PayableRow /\ pay[p].cancelledAt = TRUE
    <3>1. pay[p] \in PayableRow /\ RowCheck(pay[p])
      BY LedgerTypes, TableType DEF IInv, Ledger, StatusMatchesAmounts
    <3> QED
      BY <3>1, PayableRowType DEF RowCheck
  <2>2. [pay[p] EXCEPT !.status = "CANCELADO", !.cancelledAt = TRUE] = pay[p]
    BY <2>1 DEF PayableRow
  <2> HIDE DEF C
  <2> QED
    BY <1>2, <2>2
<1>6. ASSUME NEW c \in Commissions, OwedAfterDistrato(c)'
      PROVE  OwedAfterDistrato(c) \/ MissedOrRevived(c)
  <2>1. c \notin C /\ comm'[c] = comm[c]
    <3>1. c \in C => comm'[c].status = "CANCELADA"
      BY <1>2, <1>4 DEF CommissionRow
    <3>2. comm'[c].status # "CANCELADA"
      BY <1>6 DEF OwedAfterDistrato
    <3> HIDE DEF C
    <3> QED
      BY <1>2, <3>1, <3>2
  <2>2. /\ comm[c].status \notin {"ABSENT", "CANCELADA"}
        /\ sale'[comm[c].sale] = "DISTRATADA"
        /\ comm[c].sale \in Sales
    BY <1>6, <2>1, CommissionType DEF OwedAfterDistrato, IInv, TypeOK
  <2>3. CASE comm[c].sale = tx[q].sale
    <3>1. tx[q].comm[c].sale # tx[q].sale
      BY <2>1 DEF CommissionsIn
    <3>2. ReadHolds(tx[q])
      BY DEF IInv, ReadsHold
    <3>3. tx[q].comm[c].status = "ABSENT"
      BY <1>1, <2>3, <3>1, <3>2 DEF ReadHolds
    <3> QED
      BY <1>1, <1>3, <3>3 DEF MissedOrRevived
  <2>4. CASE comm[c].sale # tx[q].sale
    BY <1>3, <2>2, <2>4 DEF OwedAfterDistrato
  <2> QED
    BY <2>3, <2>4
<1> QED
  BY <1>2, <1>5, <1>6 DEF ClosedStays

LEMMA CommissionKeeps ==
  ASSUME IInv, NEW c \in Commissions, NEW s \in Sales, NEW amount \in Amounts,
         AddCommission(c, s, amount)
  PROVE  ClosedStays
<1>1. /\ sale[s] # "DISTRATADA"
      /\ UNCHANGED <<sale, pay, pmt>>
      /\ comm'[c].sale = s
      /\ \A d \in Commissions \ {c} : comm'[d] = comm[d]
  BY DEF AddCommission, IInv, TypeOK, CommissionTable
<1> QED
  BY <1>1 DEF ClosedStays, OwedAfterDistrato

LEMMA ReturnKeeps ==
  ASSUME IInv, NEW r \in Returns,
         \/ \E amount \in ReturnAmounts : CreateReturn(r, amount) \/ UpdateReturn(r, amount)
         \/ RemoveReturn(r)
  PROVE  ClosedStays
<1>1. pay[r].status # "CANCELADO"
  BY DEF IInv, Sources, ReturnsStay
<1>2. /\ \A p \in Payables \ {r} : pay'[p] = pay[p]
      /\ UNCHANGED <<pmt, comm, sale>>
  BY DEF CreateReturn, UpdateReturn, RemoveReturn, IInv, TypeOK, PayableTable
<1> QED
  BY <1>1, <1>2, AccountStepKeeps

LEMMA ManualKeeps ==
  ASSUME IInv, NEW p \in Manual,
         CancelPayable(p) \/ \E amount \in Amounts : CreatePayable(p, amount)
  PROVE  ClosedStays
<1>1. pay[p].status # "CANCELADO"
  BY DEF CancelPayable, CreatePayable
<1>2. /\ \A s \in Payables \ {p} : pay'[s] = pay[s]
      /\ UNCHANGED <<pmt, comm, sale>>
  BY DEF CancelPayable, CreatePayable, IInv, TypeOK, PayableTable
<1> QED
  BY <1>1, <1>2, AccountStepKeeps

LEMMA StepKeeps == IInv /\ [Next]_vars => [ClosedStays]_vars
<1> SUFFICES ASSUME IInv, Next PROVE ClosedStays
  OBVIOUS
<1>1. CASE PayableNext
  BY <1>1, ManualKeeps, PaymentStepKeeps DEF PayableNext
<1>2. CASE RequestNext
  <2> SUFFICES ASSUME NEW q \in Requests,
                      \/ \E p \in Manual, amount \in Amounts \cup {Null} :
                           ReadUpdate(q, p, amount)
                      \/ CommitUpdate(q)
                      \/ \E c \in Commissions : ReadDue(q, c)
                      \/ CommitDue(q)
                      \/ \E s \in Sales : ReadDistrato(q, s)
                      \/ CommitDistrato(q)
                      \/ Rollback(q)
               PROVE  ClosedStays
    BY <1>2 DEF RequestNext
  <2>1. ASSUME UNCHANGED <<sale, comm, ret, pay, pmt>> PROVE ClosedStays
    BY <2>1, AccountStepKeeps
  <2> QED
    BY <2>1, EditKeeps, DueKeeps, DistratoKeeps
    DEF ReadUpdate, ReadDue, ReadDistrato, Rollback
<1>3. CASE SourceNext
  BY <1>3, CommissionKeeps, ReturnKeeps DEF SourceNext
<1> QED
  BY <1>1, <1>2, <1>3 DEF Next

\* A cancelled account never changes again and a reversed payment stays reversed,
\* whatever was read before; and a rescinded sale owes a commission only that was
\* added after the distrato's snapshot or marked due over an older reading
\* (update, recordPayment, markCommissionDue, addCommission, cancel).
THEOREM ClosedStaysClosed == Spec => ClosedIsFinal
<1>1. IInv /\ [Next]_vars => [ClosedStays]_vars
  BY StepKeeps
<1>2. Spec => [][ClosedStays]_vars
  BY <1>1, Inductive, PTL DEF Spec
<1> QED
  BY <1>2 DEF ClosedStays, ClosedIsFinal
====
