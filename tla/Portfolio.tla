----------------------------- MODULE Portfolio ------------------------------
(* What the organisation sells and who pays for it: companies, developments *)
(* with their unit types, units and price tables, the property interests of *)
(* opportunities, and investments with their allocations and returns        *)
(* (src/src/{companies,developments,unit-types,units,price-tables,          *)
(* investments,allocations,returns}, src/src/crm).                          *)
(*                                                                          *)
(* A row keeps the columns that refer to other rows, and of the rest only   *)
(* what a check reads.  A removal is a transaction of several statements:   *)
(* it locks the row FOR UPDATE, then those it knows to be below it, kind by *)
(* kind, collects what it will audit, and lets the foreign keys cascade.    *)
(* Other requests run between any two of its statements; an insert or an    *)
(* edit that refers to a locked row waits for it, as PostgreSQL does.       *)
EXTENDS Money, Integers, Sequences, FiniteSets, FiniteSetsExt

CONSTANTS
  Companies, Developments, UnitTypes, Units, PriceTables, UnitPrices,
  Interests, Investments, Allocations, Returns,   \* identities of rows
  Operations, \* requests in flight at once
  Dates,      \* when a development is to launch or to deliver, maybe NULL
  Amounts,    \* amounts invested, in parts of a cent: no DTO bounds decimals
  Shares,     \* amounts allocated, likewise
  MaxRows,    \* bound: rows of all tables present at once
  NULL,       \* a column that is NULL
  Keep        \* a field that a request does not send

\* A row is of one table.
ASSUME TableAssumption ==
  /\ Companies \cap UNION {Developments, UnitTypes, Units, PriceTables, UnitPrices,
                           Interests, Investments, Allocations, Returns} = {}
  /\ Developments \cap UNION {UnitTypes, Units, PriceTables, UnitPrices, Interests,
                              Investments, Allocations, Returns} = {}
  /\ UnitTypes \cap UNION {Units, PriceTables, UnitPrices, Interests, Investments,
                           Allocations, Returns} = {}
  /\ Units \cap UNION {PriceTables, UnitPrices, Interests, Investments, Allocations,
                       Returns} = {}
  /\ PriceTables \cap UNION {UnitPrices, Interests, Investments, Allocations, Returns} = {}
  /\ UnitPrices \cap UNION {Interests, Investments, Allocations, Returns} = {}
  /\ Interests \cap UNION {Investments, Allocations, Returns} = {}
  /\ Investments \cap (Allocations \cup Returns) = {}
  /\ Allocations \cap Returns = {}

\* What is reported is added up over finitely many rows.
ASSUME CapitalAssumption ==
  /\ IsFiniteSet(Investments) /\ IsFiniteSet(Allocations) /\ IsFiniteSet(Developments)
  /\ Amounts \subseteq Nat
  /\ Shares \subseteq Nat

VARIABLES
  row,      \* the rows of all tables
  silent,   \* rows deleted, or units detached, without an audit row
  op        \* requests in flight

portfolioVars == <<row, silent, op>>

Ids ==
  UNION {Companies, Developments, UnitTypes, Units, PriceTables, UnitPrices,
         Interests, Investments, Allocations, Returns}

\* Neither NULL nor Keep is the identity of a row.
ASSUME FieldAssumption == {NULL, Keep} \cap Ids = {}

Absent == [absent |-> TRUE]
Here(x) == row[x] # Absent
Present == {x \in Ids : Here(x)}

CompanyRow == [kind : {"company"}]
DevelopmentRow == [company : Companies \cup {NULL},
                   launch : Dates, delivery : Dates]
UnitTypeRow == [development : Developments]
\* Of the flow, whether the unit has reservations, or else proposals or sales.
UnitRow == [development : Developments, unitType : UnitTypes \cup {NULL},
            history : {"none", "reserved", "sold"}]
PriceTableRow == [development : Developments]
UnitPriceRow == [unit : Units, table : PriceTables]
InterestRow == [development : Developments \cup {NULL}, unitType : UnitTypes \cup {NULL}]
InvestmentRow == [amount : Amounts]
AllocationRow == [investment : Investments, development : Developments \cup {NULL},
                  amount : Shares]
ReturnRow == [allocation : Allocations]

Rows ==
  [x \in Ids |-> {Absent} \cup
     CASE x \in Companies -> CompanyRow       [] x \in Developments -> DevelopmentRow
       [] x \in UnitTypes -> UnitTypeRow      [] x \in Units -> UnitRow
       [] x \in PriceTables -> PriceTableRow  [] x \in UnitPrices -> UnitPriceRow
       [] x \in Interests -> InterestRow      [] x \in Investments -> InvestmentRow
       [] x \in Allocations -> AllocationRow  [] x \in Returns -> ReturnRow]

NoOp == [at |-> "idle"]

OperationState ==
  {NoOp}
    \cup [at : {"lock", "collected"}, id : Ids, locks : SUBSET Ids,
          todo : 0..3, list : SUBSET Ids]
    \cup [at : {"edit"}, id : Developments, locks : SUBSET Developments,
          launch : Dates, delivery : Dates]
    \cup [at : {"budget"}, write : Investments \cup Allocations,
          row : AllocationRow \cup InvestmentRow \cup [amount : Shares],
          investment : Investments, exists : BOOLEAN, amount : Amounts, others : Nat]
-----------------------------------------------------------------------------
(* Foreign keys.                                                            *)

\* The columns of each row that refer to others.
Columns ==
  [x \in Ids |->
     CASE x \in Developments -> {"company"}
       [] x \in UnitTypes \cup PriceTables -> {"development"}
       [] x \in Units \cup Interests -> {"development", "unitType"}
       [] x \in UnitPrices -> {"unit", "table"}
       [] x \in Allocations -> {"investment", "development"}
       [] x \in Returns -> {"allocation"}
       [] OTHER -> {}]

RefersTo(x, new) == {new[c] : c \in Columns[x]} \ {NULL}

\* The rows x refers to.
Parents(x) == IF Here(x) THEN RefersTo(x, row[x]) ELSE {}

\* ON DELETE SET NULL; the other references are ON DELETE CASCADE.
SetsNull(x, parent) ==
  \/ x \in Developments
  \/ x \in Interests
  \/ x \in Units /\ parent \in UnitTypes
  \/ x \in Allocations /\ parent \in Developments

Below(S) == {x \in Ids : \E p \in Parents(x) \cap S : ~SetsNull(x, p)}

\* What a deletion takes with it: no chain of references is longer.
Deleted(x) ==
  LET one == {x} \cup Below({x})
      two == one \cup Below(one)
  IN two \cup Below(two)

Detached(D) == {x \in Ids \ D : Parents(x) \cap D # {}}

After(D) ==
  [x \in Ids |->
     IF x \in D THEN Absent
     ELSE IF Parents(x) \cap D = {} THEN row[x]
     ELSE [c \in DOMAIN row[x] |->
             IF c \in Columns[x] /\ row[x][c] \in D THEN NULL ELSE row[x][c]]]

\* ON DELETE RESTRICT: reservations, proposals and sales of a unit, and the
\* payable that every return has.
Restricted(D) ==
  \/ \E u \in D \cap Units : row[u].history # "none"
  \/ D \cap Returns # {}
-----------------------------------------------------------------------------
(* Locks.                                                                   *)

LocksOf(r) == IF op[r].at \in {"lock", "collected", "edit"} THEN op[r].locks ELSE {}

\* Mutant: rows are read without FOR UPDATE, so that nothing waits.
BugLocked(S, r) == FALSE

\* Some row of S is locked by another request than r.
Locked(S, r) == \E q \in Operations \ {r} : LocksOf(q) \cap S # {}

\* Mutant: an insert does not hold the rows it refers to.
BugFree(S) == TRUE

\* For requests of one statement, which hold no lock of their own.
Free(S) == \A r \in Operations : LocksOf(r) \cap S = {}

End(r) == op' = [op EXCEPT ![r] = NoOp]

\* A refusal, a deadlock that PostgreSQL ends, or a crash.
Abort(r) ==
  /\ op[r] # NoOp
  /\ End(r)
  /\ UNCHANGED <<row, silent>>
-----------------------------------------------------------------------------
(* Writes of one statement.                                                 *)

\* The bound, not the code's.
HasRoom == Cardinality(Present) < MaxRows

\* An insert holds the rows it refers to, which must be there, against their
\* removal.
Insert(x, new) ==
  /\ \A y \in RefersTo(x, new) : Here(y)
  /\ Free(RefersTo(x, new))
  /\ row' = [row EXCEPT ![x] = new]

DateOrder(launch, delivery) ==
  launch # NULL /\ delivery # NULL => delivery >= launch

CreateCompany(c) == Insert(c, [kind |-> "company"])

CreateDevelopment(d, new) ==
  /\ DateOrder(new.launch, new.delivery)
  /\ Insert(d, new)

\* Mutant: any type that exists will do.
BugTypeFits(type, development) == type # NULL => Here(type)

\* A unit's type is of its development.
TypeFits(type, development) ==
  type # NULL => Here(type) /\ row[type].development = development

CreateUnit(u, new) ==
  /\ new.history = "none"
  /\ TypeFits(new.unitType, new.development)
  /\ Insert(u, new)

PriceFits(new) ==
  /\ Here(new.unit) /\ Here(new.table)
  /\ row[new.unit].development = row[new.table].development

\* setPrice; of a price that exists it changes nothing that is kept here.
SetPrice(x, new) ==
  /\ PriceFits(new)
  /\ \A y \in UnitPrices \cap Present : row[y] # new
  /\ Insert(x, new)

Create ==
  /\ HasRoom
  /\ \E x \in Ids :
       /\ ~Here(x)
       /\ \/ x \in Companies /\ CreateCompany(x)
          \/ x \in Developments /\ \E new \in DevelopmentRow : CreateDevelopment(x, new)
          \/ x \in UnitTypes /\ \E new \in UnitTypeRow : Insert(x, new)
          \/ x \in Units /\ \E new \in UnitRow : CreateUnit(x, new)
          \/ x \in PriceTables /\ \E new \in PriceTableRow : Insert(x, new)
          \/ x \in UnitPrices /\ \E new \in UnitPriceRow : SetPrice(x, new)
          \/ x \in Investments /\ \E new \in InvestmentRow : Insert(x, new)
          \/ x \in Returns /\ \E new \in ReturnRow : Insert(x, new)
  /\ UNCHANGED <<silent, op>>

\* The type is locked before the unit.
UpdateUnitType(u, type) ==
  /\ Here(u)
  /\ type # row[u].unitType
  /\ TypeFits(type, row[u].development)
  /\ Free({u, type})
  /\ row' = [row EXCEPT ![u].unitType = type]
  /\ UNCHANGED <<silent, op>>

\* The flow takes the unit: by a reservation, or by a proposal without one.
Take(u, history) ==
  /\ Here(u)
  /\ row[u].history = "none"
  /\ Free({u})
  /\ row' = [row EXCEPT ![u].history = history]
  /\ UNCHANGED <<silent, op>>

\* upsert: the type needs the development it belongs to.
UpsertInterest(q, new) ==
  /\ Here(q) \/ HasRoom
  /\ new.unitType # NULL => new.development # NULL
  /\ new.development # NULL => Here(new.development)
  /\ TypeFits(new.unitType, new.development)
  /\ row[q] # new
  /\ Free({new.development, new.unitType, q})
  /\ row' = [row EXCEPT ![q] = new]
  /\ UNCHANGED <<silent, op>>

RemoveInterest(q) ==
  /\ Here(q)
  /\ Free({q})
  /\ row' = [row EXCEPT ![q] = Absent]
  /\ UNCHANGED <<silent, op>>

\* removePrice and returns.remove: nothing is below, the row is audited.  The
\* return goes with its payable.
RemoveLeaf(x) ==
  /\ x \in UnitPrices \cup Returns
  /\ Here(x)
  /\ row' = [row EXCEPT ![x] = Absent]
  /\ UNCHANGED <<silent, op>>
-----------------------------------------------------------------------------
(* The edit of a development: its dates are merged with those of the locked *)
(* row before they are compared.                                            *)

EditDevelopment(r, d) ==
  /\ op[r] = NoOp
  /\ Here(d)
  /\ ~Locked({d}, r)
  /\ op' = [op EXCEPT ![r] =
       [at |-> "edit", id |-> d, locks |-> {d},
        launch |-> row[d].launch, delivery |-> row[d].delivery]]
  /\ UNCHANGED <<row, silent>>

\* What is not sent stays as the row has it.
CommitDevelopment(r, company, launch, delivery) ==
  LET d == op[r].id
      Sent(field, current) == IF field = Keep THEN current ELSE field
  IN /\ op[r].at = "edit"
     /\ Here(d)
     /\ DateOrder(Sent(launch, op[r].launch), Sent(delivery, op[r].delivery))
     /\ company \in Companies => Here(company) /\ ~Locked({company}, r)
     /\ row' = [row EXCEPT ![d] = [company  |-> Sent(company, @.company),
                                   launch   |-> Sent(launch, @.launch),
                                   delivery |-> Sent(delivery, @.delivery)]]
     /\ End(r)
     /\ UNCHANGED silent
-----------------------------------------------------------------------------
(* The budget of an investment: what the other allocations take is read,    *)
(* and compared, before the transaction that writes.                        *)

AllocationsOf(i) == {l \in Allocations \cap Present : row[l].investment = i}

Taken(S) == MapThenSumSet(LAMBDA l : row[l].amount, S)

\* Mutant: the amount of an investment is not compared with its allocations.
BugOthers(i, l) == IF l \in Investments THEN 0 ELSE Taken(AllocationsOf(i) \ {l})

Others(i, l) == Taken(AllocationsOf(i) \ {l})

Check(r, x, new, i, amount, others) ==
  /\ op[r] = NoOp
  /\ others <= amount
  /\ op' = [op EXCEPT ![r] =
       [at |-> "budget", write |-> x, row |-> new, investment |-> i,
        exists |-> Here(x), amount |-> amount, others |-> others]]
  /\ UNCHANGED <<row, silent>>

CreateAllocation(r, l, new) ==
  LET i == new.investment IN
  /\ ~Here(l) /\ Here(i)
  /\ new.development # NULL => Here(new.development)
  /\ Others(i, l) + new.amount <= row[i].amount
  /\ Check(r, l, new, i, row[i].amount, Others(i, l))

\* Of the fields that an edit may send, its amount.
UpdateAllocation(r, l, amount) ==
  LET i == row[l].investment IN
  /\ Here(l)
  /\ Others(i, l) + amount <= row[i].amount
  /\ Check(r, l, [amount |-> amount], i, row[i].amount, Others(i, l))

UpdateInvestment(r, i, new) ==
  /\ Here(i)
  /\ Check(r, i, new, i, new.amount, Others(i, i))

\* The check read what no longer holds.
Outdated(r) ==
  LET x == op[r].write
      i == op[r].investment
  IN \/ x # i /\ row[i].amount # op[r].amount
     \/ Others(i, x) # op[r].others

\* An insert finds the rows it refers to, an update the row that was read; or
\* they fail.
WriteBudget(r) ==
  LET x == op[r].write
      new == op[r].row
  IN /\ op[r].at = "budget"
     /\ Here(x) = op[r].exists
     /\ IF Here(x)
        THEN /\ x \in Allocations => row[x].investment = op[r].investment
             /\ ~Locked({x}, r)
             /\ row' = [row EXCEPT ![x].amount = new.amount]
        ELSE /\ HasRoom
             /\ \A y \in RefersTo(x, new) : Here(y)
             /\ ~Locked(RefersTo(x, new), r)
             /\ row' = [row EXCEPT ![x] = new]
     /\ End(r)
     /\ UNCHANGED silent

\* An edit that sends no amount is not checked.
MoveAllocation(l, d) ==
  /\ Here(l)
  /\ d # row[l].development
  /\ d # NULL => Here(d)
  /\ Free({l, d})
  /\ row' = [row EXCEPT ![l].development = d]
  /\ UNCHANGED <<silent, op>>
-----------------------------------------------------------------------------
(* Removals.                                                                *)

\* The kinds of rows that are locked below x, in order.
Plan(x) ==
  CASE x \in Developments -> <<UnitTypes, Units, PriceTables>>
    [] x \in Investments -> <<Allocations>>
    [] x \in UnitTypes -> <<Units>>
    [] OTHER -> <<>>

\* Counted once x is locked.
Refused(x) ==
  \/ x \in Companies /\ \E d \in Developments \cap Present : row[d].company = x
  \/ x \in Developments /\ \E l \in Allocations \cap Present : row[l].development = x
  \/ x \in Units /\ row[x].history = "reserved"

\* Whether prices or returns may be below x.
Collects(x) == x \notin Companies \cup UnitTypes

Removable == Ids \ (UnitPrices \cup Interests \cup Returns)

RemoveBegin(r, x) ==
  /\ op[r] = NoOp
  /\ x \in Removable
  /\ Here(x)
  /\ ~Locked({x}, r)
  /\ ~Refused(x)
  /\ op' = [op EXCEPT ![r] =
       [at |-> IF Len(Plan(x)) = 0 /\ ~Collects(x) THEN "collected" ELSE "lock",
        id |-> x, locks |-> {x}, todo |-> Len(Plan(x)), list |-> {x}]]
  /\ UNCHANGED <<row, silent>>

\* SELECT ... FOR UPDATE of the next kind.
LockBelow(r) ==
  LET x == op[r].id
      kind == Plan(x)[Len(Plan(x)) - op[r].todo + 1]
      found == {y \in kind : x \in Parents(y)}
  IN /\ op[r].at = "lock"
     /\ op[r].todo > 0
     /\ ~Locked(found, r)
     /\ op' = [op EXCEPT ![r] =
          [at |-> IF @.todo = 1 /\ ~Collects(x) THEN "collected" ELSE "lock",
           id |-> x, locks |-> @.locks \cup found, todo |-> @.todo - 1,
           list |-> @.list \cup found]]
     /\ UNCHANGED <<row, silent>>

\* Prices and returns are read without a lock: those of the rows locked.
Collect(r) ==
  /\ op[r].at = "lock"
  /\ op[r].todo = 0
  /\ op[r].id \in Developments
       => \A u \in op[r].locks \cap Units : row[u].history # "reserved"
  /\ LET found == {y \in UnitPrices \cup Returns : Parents(y) \cap op[r].locks # {}}
     IN op' = [op EXCEPT ![r] =
          [at |-> "collected", id |-> @.id, locks |-> @.locks, todo |-> 0,
           list |-> @.list \cup found]]
  /\ UNCHANGED <<row, silent>>

\* The rows deleted, and the units that lose their type, are to be audited.
ToAudit(x, D) ==
  D \cup IF x \in UnitTypes THEN Detached(D) \cap Units ELSE {}

RemoveCommit(r) ==
  /\ op[r].at = "collected"
  /\ LET x == op[r].id
         D == Deleted(x)
     IN /\ x \in Present
        /\ ~Restricted(D)
        /\ ~Locked(D \cup Detached(D), r)
        /\ row' = After(D)
        /\ silent' = silent \cup (ToAudit(x, D) \ op[r].list)
  /\ End(r)
-----------------------------------------------------------------------------
PortfolioInit ==
  /\ row = [x \in Ids |-> Absent]
  /\ silent = {}
  /\ op = [r \in Operations |-> NoOp]

PortfolioNext ==
  \/ Create
  \/ \E u \in Units :
       \/ \E type \in UnitTypes \cup {NULL} : UpdateUnitType(u, type)
       \/ \E history \in {"reserved", "sold"} : Take(u, history)
  \/ \E q \in Interests :
       \/ \E new \in InterestRow : UpsertInterest(q, new)
       \/ RemoveInterest(q)
  \/ \E x \in Ids : RemoveLeaf(x)
  \/ \E l \in Allocations, d \in Developments \cup {NULL} : MoveAllocation(l, d)
  \/ \E r \in Operations :
       \/ Abort(r)
       \/ /\ op[r] = NoOp
          /\ \/ \E d \in Developments : EditDevelopment(r, d)
             \/ \E l \in Allocations :
                  \/ \E new \in AllocationRow : CreateAllocation(r, l, new)
                  \/ \E amount \in Shares : UpdateAllocation(r, l, amount)
             \/ \E i \in Investments, new \in InvestmentRow : UpdateInvestment(r, i, new)
             \/ \E x \in Ids : RemoveBegin(r, x)
       \/ /\ op[r].at = "edit"
          /\ \E company \in Companies \cup {NULL, Keep},
                launch \in Dates \cup {Keep}, delivery \in Dates \cup {Keep} :
               CommitDevelopment(r, company, launch, delivery)
       \/ WriteBudget(r)
       \/ LockBelow(r)
       \/ Collect(r)
       \/ RemoveCommit(r)

PortfolioSpec == PortfolioInit /\ [][PortfolioNext]_portfolioVars
-----------------------------------------------------------------------------
(* What is reported of the capital: reports.service.ts, dashboard.service.ts *)
(* and withComputedAmounts of investments.service.ts.  An investor is the    *)
(* set of the investments that are his.                                      *)

Invested == Investments \cap Present
AllAllocations == Allocations \cap Present

ToDevelopments(L) == {l \in L : row[l].development # NULL}
ToCash(L) == L \ ToDevelopments(L)

\* sumMoney: each amount is rounded before it is added.
InCents(S) == MapThenSumSet(LAMBDA l : MoneyToCents(row[l].amount), S)

\* captations, a row and its totals
Captation(i) ==
  LET L == AllocationsOf(i)
      total == MoneyToCents(row[i].amount)
  IN [total        |-> total,
      developments |-> InCents(ToDevelopments(L)),
      cash         |-> InCents(ToCash(L)),
      unassigned   |-> total - InCents(L)]

CaptationsReport(I) ==
  [t \in {"total", "developments", "cash", "unassigned"} |->
     MapThenSumSet(LAMBDA i : Captation(i)[t], I)]

\* captations of one development
CapturedBy(d) == InCents({l \in AllAllocations : row[l].development = d})

\* investorPositions, of one development unless d is NULL; the columns of returns
\* are those of ReturnSummary in Payables.
Position(I, d) ==
  LET L == {l \in AllAllocations :
              row[l].investment \in I /\ (d # NULL => row[l].development = d)}
  IN [total        |-> InCents(IF d = NULL THEN I ELSE L),
      developments |-> InCents(ToDevelopments(L)),
      cash         |-> InCents(ToCash(L)),
      unassigned   |-> IF d = NULL THEN InCents(I) - InCents(L) ELSE 0]

\* getOverview: what the database sums, unrounded
Overview ==
  [total        |-> Taken(Invested),
   developments |-> Taken(ToDevelopments(AllAllocations)),
   cash         |-> Taken(ToCash(AllAllocations))]

\* withComputedAmounts, unrounded: what is in cash counts as not allocated.
Unallocated(i) == row[i].amount - Taken(ToDevelopments(AllocationsOf(i)))
-----------------------------------------------------------------------------
(* Properties.                                                              *)

PortfolioTypeOK ==
  /\ DOMAIN row = Ids
  /\ \A x \in Ids : row[x] \in Rows[x]
  /\ silent \subseteq Ids
  /\ op \in [Operations -> OperationState]

\* No row refers to one that is gone.
NoDangling == \A x \in Ids : \A y \in Parents(x) : Here(y)

\* A price and its table, a unit or an interest and its type, agree on the
\* development.
SameDevelopment ==
  /\ \A x \in UnitPrices \cap Present :
       row[row[x].unit].development = row[row[x].table].development
  /\ \A x \in (Units \cup Interests) \cap Present :
       row[x].unitType # NULL => row[row[x].unitType].development = row[x].development

\* Whoever sends which of the two dates.
DatesOrdered ==
  \A d \in Developments \cap Present : DateOrder(row[d].launch, row[d].delivery)

\* The reports that round each amount to the cent add the same rows up in ways
\* of their own, by investment, by investor or by development, and agree to the
\* cent; with the sums that are not rounded, of all rows at once or by
\* investment, they agree to half a cent for each amount that was rounded.
ReportsAgree ==
  LET report == CaptationsReport(Invested)
      free == MapThenSumSet(Unallocated, Invested)
      held == Cardinality(ToDevelopments(AllAllocations))
  IN
  /\ report.total = report.developments + report.cash + report.unassigned
  /\ \A I \in SUBSET Invested \ {{}} : Position(I, NULL) = CaptationsReport(I)
  /\ report.developments = MapThenSumSet(CapturedBy, Developments \cap Present)
  /\ \A d \in Developments \cap Present :
       Position(Invested, d) = [total |-> CapturedBy(d), developments |-> CapturedBy(d),
                                cash |-> 0, unassigned |-> 0]
  /\ RoundedFrom(report.total, Overview.total, Cardinality(Invested))
  /\ RoundedFrom(report.developments, Overview.developments, held)
  /\ RoundedFrom(report.cash, Overview.cash, Cardinality(ToCash(AllAllocations)))
  /\ RoundedFrom(report.cash + report.unassigned, free, Cardinality(Invested) + held)

\* PortfolioConsistent: rows have their types and refer to rows that exist and
\* belong to one development, a development is not delivered before it is
\* launched, and the reports of the capital agree but for what each rounds,
\* however removals and partial edits meet (setPrice, units, the interests'
\* validateRelationships, developments.update, captations, investorPositions,
\* getOverview, withComputedAmounts).
PortfolioConsistent ==
  /\ PortfolioTypeOK
  /\ NoDangling
  /\ SameDevelopment
  /\ DatesOrdered
  /\ ReportsAgree

\* CascadeAudited: every row that a removal takes with it, and every unit that
\* loses its type, has its audit row ("Os locks dos filhos impedem novos
\* UnitPrices durante a coleta", developments.service.ts): nothing is inserted
\* below a row between the collection and the cascade.
CascadeAudited == silent = {}

\* RemovalDetachesNothing: the removal of a company never takes the company of
\* a development, nor that of a development the one of an allocation, though
\* the foreign keys would: what it counted as none stays none until it commits.
RemovalDetachesNothing ==
  [][\A x \in Developments \cup Allocations :
       \A y \in (Companies \cup Developments) \cap Parents(x) :
         row'[y] # Absent \/ row'[x] = Absent]_portfolioVars

OverAllocated(i) == Here(i) /\ Taken(AllocationsOf(i)) > row[i].amount

\* OverAllocatedOnlyByRace: the allocations of an investment come to add up to
\* more than it only by a write whose check had read what no longer stood
\* (assertWithinBudget, investments.update): no sequence of edits does it.
OverAllocatedOnlyByRace ==
  [][\A i \in Investments :
       OverAllocated(i)' =>
         \/ OverAllocated(i)
         \/ \E r \in Operations :
              /\ op[r].at = "budget"
              /\ op'[r] = NoOp
              /\ op[r].investment = i
              /\ Outdated(r)]_portfolioVars
=============================================================================
