# Harpia API in TLA+

A specification of the commercial and financial core of the Harpia API (a NestJS
service over PostgreSQL, with Prisma), model-checked with TLC and, for the parts that
matter most, proved with TLAPS. The source is in `src/`: the code under `src/src`, its
tables under `src/prisma`, its history in `src/PROGRESS.md`, its docs in `src/docs`.

## 1. Inventory

Every operation is an HTTP handler that runs one or several Prisma transactions. The
process keeps no state between requests but for one timer (collections), so the state is
the database, plus what a handler remembers between two awaited statements. Handlers run
concurrently, on any number of server processes; they serialise through row locks
(`SELECT ... FOR UPDATE`), conditional updates (`updateMany` with the old status in the
`where`), advisory locks, unique indexes, CHECK constraints and, in two places (the
distrato and the monetary adjustment), SERIALIZABLE isolation.

| component | state | operations | what makes it correct |
|---|---|---|---|
| reservations | `UnitReservation` (ATIVA, CANCELADA, EXPIRADA, CONVERTIDA), deadline | create, cancel, convert, lazy expiry | one active reservation per unit; its unit is RESERVADA |
| proposals | `SalesProposal`, versions, validity, link to reservation and opportunity | create, new version, send, reject, accept, lazy expiry | an acceptance keeps the unit until the sale; a decision is final |
| sales, sale cancellations | `Sale`, `SaleCommission` | convert a proposal, add a commission, distrato | one live sale per unit, of the version accepted; a rescinded sale owes nothing |
| units | `Unit.status` | create, manual edit, remove | RESERVADA is left only through the flow |
| opportunities | `Opportunity`, `SalesPipeline`, `SalesStage`, `OpportunityStageHistory` | create, update, move, win, remove; create pipelines; the board | the opportunity of a sale is won, with that unit; the history explains the stage; the board counts each once |
| activities, visits, timeline | `SalesActivity`, `SalesVisit` | create, edit, end; read page by page | a visit ends once; a reader of the timeline misses nothing that stood still |
| interests, unit matching | `PropertyInterest` | upsert, remove; score and rank units | the query and the function that explains it give one score |
| receivables | `Receivable`, `FinancialPayment`, sale status | generate from the payment plan, receive, reverse, cancel | the plan is the price; paid = sum of live payments; the sale is QUITADA exactly when all is paid |
| monetary adjustment | `ReceivableAdjustment`, index values, policy | calculate, apply | corrections are not lost |
| bank reconciliation | `BankStatementEntry` | import, match, unmatch, ignore, restore | a reconciled line is matched with a live payment |
| payables, returns | `Payable`, `Return`, commissions | create, edit, pay, reverse, cancel, mark due | status and source follow the payments |
| finance summary | reads | summary, cash flow, income statement | the reports agree |
| collections | `CollectionRule`, `CollectionDispatch`, timer | run, send, retry, cancel, edit rule | one sender at a time; sent means accepted; eventually decided |
| notifications | `Notification`, `NotificationOutbox`, deliveries | create, read, drain the outbox | every attempt accounted for; one deliverer |
| authentication, users, invitations | `User`, reset tokens, invitations | register, invite, accept, revoke, demote, deactivate, change and reset a password | an owner remains; an e-mail belongs to one organisation; only the newest reset token works, once |
| companies, developments, unit types, price tables | their rows, `UnitPrice` | create, edit, set a price, remove with cascade | rows below agree on the development; a cascade is audited row by row |
| investments, allocations | `Investment`, `Allocation`, `Return` | create, edit, move, remove with cascade | no edit takes the allocations past the investment |
| documents, storage | `Document` rows, objects of a provider | upload, download, remove | row and object stay in step |
| reports, dashboard | reads | captations, positions, returns, overdue returns, overview | each counts every row once, and they agree but for what each rounds |
| people, interactions, bank accounts, permissions, audit | plain records, a constant table | CRUD | not modelled (section 6) |

How they interact: reservations, proposals, sales and units call each other's rows inside
one transaction and share the unit's lock; accepting and converting a proposal moves the
opportunity; a conversion creates the receivables and commissions of the sale; a distrato
writes the unit, the sale, its receivables, its commissions and payables and its
dispatches; receipts move the sale's status; payments of a payable move its commission or
its return; a receivable's state decides whether its dispatches are sent. Every step of
the flow is an event of its opportunity's timeline. A return owns a payable, whose foreign
key keeps the investment above it from being removed. Documents lie in a store that shares
no transaction with their rows. E-mail goes to an HTTP provider that deduplicates by a key.

What is hard: expiry that happens on reading, before whatever else the handler does; rows
read before a transaction and used within it; rows locked by one handler and only read by
another; the trailing `findOne` of a handler, which expires things after its transaction
committed; a distrato at SERIALIZABLE among transactions at READ COMMITTED; timers and
posted runs over the same dispatches, with servers that stop between two statements;
removals that lock, collect and cascade over several tables; pages read while what they
list changes; a second store that fails, or answers late, between two steps.
`PROJECT.json` lists these hazards line by line.

## 2. Plan

1. `CommercialFlow` (reservations, proposals, sales, units, opportunities), its abstract
   specification `UnitAllocation`. *Modelled; proved, with the refinement*
   (`CommercialFlowProofs`).
2. `Receivables` and `Payables` (with `DueStatus` and `Money`), the ledger: payment plan, receipts, corrections,
   reconciliation, commissions and returns, and the reports over both. *Modelled and
   proved* (`FiniteSums`, `ReceivablesProofs`, `PayablesProofs`).
3. `Collections` and `Notifications`. *Modelled; the safety of both proved*
   (`DeliveryProofs`).
4. `UserAccounts`. *Modelled and proved* (`OrganisationProofs`).
5. `Pipeline`, `FollowUp` and `UnitMatching`. *Modelled and proved* (`CrmProofs`).
6. `Portfolio` (with `Money`). *Modelled and proved* (`OrganisationProofs`).
7. `Documents`. *Modelled and proved* (`DocumentsProofs`).
8. To model: the order of locks between crm, proposals, sales, returns and payables; the
   preferences of notifications; index values and policies as actions of their users.

## 3. Modules

In every module a row is a record, ABSENT before it is created; identifiers are opaque
constants; a transaction that holds the locks of all it reads and writes is one action; a
handler that reads first and writes later is one action per statement, and what it
remembers in between is a variable (`req`, `edit`, `proc`). Formatting, prices, names, tenancy,
audit rows (written in the same transaction) and permissions are abstracted.

### CommercialFlow (with UnitAllocation)

State: `unit`, `resv`, `prop`, `sale`, `opp` are the tables; `now` a small clock; `req`
the accept and convert requests that have read their candidate; `owed` the proposals whose
trailing `findOne`, which expires the overdue, is still to come. `PROJECT.json` maps each
action to its handler.

* The lazy expiries run in transactions of their own before several handlers. They are
  actions that may happen at any time, which includes the moment before the handler.
* The deadlines of reservations and proposals pass as `now` advances; the 24 hours of the
  hand-off reservation made when a proposal is accepted are one tick.
* The unique indexes (one active reservation, one live sale per unit) are deliberately not
  guards: the properties hold of what the code checks itself.
* The opportunity is read without a lock when a reservation or a proposal is created; the
  model orders that read with the creation, which is one of the orders PostgreSQL allows
  and, as every later use checks again, the only one that matters.
* `SyncSaleStatus` stands for what the ledger does to a sale; `Receivables` has the detail.
* Rows can be created again under the identifier of one that was removed, which is more
  than the program does.

`UnitAllocation` says what the five tables promise about one unit: it is held by a
reservation, committed to a buyer, frozen, or owned, and passes on only when the first
let go. `CommercialFlow!Allocation` maps the tables to it; TLC checks the implication.

### Receivables

One sale with its instalments, payments, statement lines and corrections. `Init` takes any
payment plan whose conditions add up to the price (`PaymentPlans`, with `SplitAmount` and
`AddMonths` for the instalments of each) and makes its receivables. A handler at
READ COMMITTED is Begin (lock and check the receivable), SyncSaleStatus (lock the sale,
read its instalments) and commit. The distrato and the monetary adjustment run at
SERIALIZABLE: a snapshot, then a commit refused when a row they write was written
since. A correction takes any policy and any values of the index that another user may
have left, and calculates as the code does (factor per month, change only of the sign
asked for, rounding half up); it is refused only for the very interval that was applied
already, so that overlapping intervals compound. Amounts are small naturals; account and
nature of a statement line are folded into its amount. The CHECK constraint is a guard
only in the adjustment, the one place that relies on it.

The reports (`CashBalance`, `ReceivablesPending`, `ClosingBalance`, `Revenue`,
`OutstandingBalance`, and their like in `Payables`) are operators over the tables: what
`finance.service.ts` and `presentSale` sum up, for a range that holds every date. Due
dates are not kept in the rows: what depends on them (`Overdue`, `ExpectedInflows`) takes
them as an argument, and the properties hold for all of them.

### DueStatus

No variables: the rules by which a receivable, a payable or a return shows ATRASADO, which
no table stores, and those by which a query selects it, over two instants a day (midnight,
which a due date is, and later). `Receivables` and `Payables` extend it. `ListsAgree`
compares a list with what its rows show, for the ranges of days that replace no bound of
the status by a wider one; without that condition it fails (section 4).

### Money

No variables. Investments, allocations and returns have amounts of type `Float`, and no DTO
bounds their decimals. `Money` has the two ways in which such an amount becomes cents:
`moneyToCents` of the reports and the column of type `DECIMAL(18, 2)` of an account. An amount
is the decimal that was entered, counted in parts of a cent (`Parts` of them, any number).
PostgreSQL rounds half a cent up; `moneyToCents` multiplies the binary fraction nearest to
the decimal, so that 1.005 becomes 100 cents and another half may go up: `TiesUp`, any set,
says which do. Sums of Floats are exact here: their binary error is far below any part that is
entered. `RoundedFrom` says that a number of cents is what n amounts were rounded to one by
one. All other amounts are of `DECIMAL(18, 2)` or have two decimals by their DTO, and are
whole cents.

### Payables

Payables entered by hand, those of returns and of commissions. Only `update`,
`markCommissionDue` and the distrato read first and write later; the other handlers lock
everything they use and are one action. `returns.update` and a payment lock in opposite
orders; PostgreSQL aborts one of them, so that one action each is exact. `addCommission`
locks the sale it does not write, which does not conflict with a distrato's snapshot:
`ClosedIsFinal` says that this, and a stale `markCommissionDue`, are the only ways in which
a rescinded sale comes to owe a commission. `ReturnSummary` and `DashboardReturns` are
what the report of returns and the dashboard sum up, for any due dates and any instant: the
first rounds each amount to a cent, the second rounds none. A return of any number of decimals
opens an account of its amount rounded to the cent (`ToDecimal`), and what is shown as
realized is what the account was paid. That the two sums are within half a cent of each
other for each return that is owed, and equal for those paid, and that the report's expected
is its realized, pending and overdue together, rests on the return following its payable.
The last has an exception: half a cent that the account rounds up and `moneyToCents` down
(1.005) is paid with a cent more than the report expected (`PaidUp`).

### Collections

Runs by the timer and runs that users post, retries, cancellations, edits of rules,
receivables that are paid, reopened or cancelled. Every awaited statement is an action.
`proc` is a handler's local state. Time is counted in half hours since the last attempt,
up to two. The `running` flag of the timer does not keep posted runs out. What upsets the
normal course is a fault (a statement that throws, a server that stops), a retry, or an
attempt that takes more than half an hour, `MaxUpsets` of them together. A late answer and
a retry are the two ways in which two senders can meet over one dispatch; the properties
that exclude them say so in their text, and `SentWasAccepted` holds with them too. The
provider deduplicates by key, so a duplicate e-mail is not a property. PARCIAL is folded
into ABERTO, and the batch limit of 100 and the day a rule falls on are abstracted.

### Notifications

Creation for a user over the channels the preferences leave, reading one or all, draining
the outbox by concurrent requests that may stop anywhere. Nothing puts an item back whose
request died: it stays PROCESSANDO. Delivery is triggered by hand, so there is no fairness
to assume and no liveness to claim.

### UserAccounts

A request is a transaction in two steps: it takes its lock and reads, then it commits;
`Rollback` ends it at any time, for a refusal, a timeout, a crash or the deadlock that a
reset (token, then user) and a change of password (user, then tokens) can run into. The
locks are derived from `req`: the advisory locks of an e-mail and of an organisation, the
row locks of a user, an invitation, a token. `Authenticate` keeps the role the actor had
when the request came in, which may be stale when the transaction runs. An account is
named by its normalised e-mail, unique in the table; accounts from before the
normalisation are left out. `create` of an invitation reads the clock before it waits for
its lock, which only refuses more. `OtherRoles` are the roles that do not manage users.
Logins and sessions (`lastLoginAt`, `tokenVersion`) are left out.

### Pipeline

Pipelines with their stages, opportunities that move through them, and the history of each
move. A request takes its lock and reads, then commits; the advisory lock of the default
pipeline and that of the pipelines users create are different locks, so that the two can
make pipelines of one name. The unique index on the default pipeline is deliberately not a
guard. A stage is named by pipeline and code. `Board` is what
`findBoard` makes of the groups of one query: each stage's weighted value is rounded to the
cent (`ToFixed2`), and the pipeline's is the sum of the rounded ones; the cards, which it reads by queries of
their own, are taken from the same state, so that a card which moves in between is left
out of the question.

### FollowUp and UnitMatching

Activities, visits, and a reader of the timeline. An edit locks and reads its row, then
plans, writes and commits; it sends any subset of its fields (`Keep` for those it does
not, `"blank"` for texts of spaces only). The other events of the timeline (stage changes,
reservations, proposals, sales) are instants that come and move. The reader takes keys
first and rows next, as the code does, and goes on from the cursor: `stable` are the keys
that have not changed since it began, which are what a cursor over changing instants can
promise.

`UnitMatching` has the two computations of the compatibility score, in SQL and in
TypeScript, with the ranges that `validateRanges` lets through and what is unknown or
zero; `presentUnitMatch` throws on the page when they differ. It has no state of its own:
its properties are checked with those of `FollowUp`, over chosen values that fall within,
next to and far from the bounds, and that round either way.

### Portfolio

What the organisation sells, and the investments in it. A row keeps its references and
what a check reads. A removal is four steps: lock the row, lock what is below it kind by
kind, collect what to audit, commit with the cascade (CASCADE, SET NULL or RESTRICT, as
the schema says of each key). Other requests run in between, and wait only for rows that
are locked, as PostgreSQL's foreign keys do. `silent` remembers what a cascade removed or
detached without an audit row. The two reads of `assertWithinBudget` are one step. The
code never gives an identity twice; the module uses those of removed rows again, so a write
that was checked against an allocation asks that the row it finds is still of that
investment, as the row that was read must be. A return always has a payable whose key is
RESTRICT: removing an investment or an allocation that has returns is refused, although a
comment (`investments.service.ts:162`) says that all of it is removed.

The reports of the capital (`CaptationsReport`, `Position`, `CapturedBy`, `Overview`,
`Unallocated`) add the same rows up by investment, by investor, by development and all at
once. The reports round each amount before they add (`InCents`), the dashboard and the list
of investments do not. `ReportsAgree` compares them: those that round agree to the cent, and
with the others to half a cent for each amount that was rounded. Each is evaluated on one state: the code reads by
several queries, and a write in between is left out of the question.

### Documents

Rows and files in two stores. Every call is a step, every call to the object store may
fail, or fail after it took effect; the process may stop at any step, and a deploy may
change the driver while old files stay where they were. `acked`, `asked`, `removed`,
`missing` and `spoiled` remember what users were told and which uploads ended badly, for
the properties; they change nothing.

## 4. Runs

| run | question | bounds |
|---|---|---|
| MCRaces | two accept or convert requests at once, with expiry: one taker, one live sale, final decisions, RESERVADA left only by the flow, `UnitAllocation` implemented | 1 unit, 2 reservations, proposals, sales and requests, clock to 2 |
| MCOpportunities | a sale is of the accepted version and wins its opportunity, while the opportunity is edited, moved, removed | 2 units of 2 developments, 2 clients, 1 opportunity, 1 proposal of 2 versions; no time, which MCRaces has |
| MCReceipts | receipts, reversals, corrections, matching and distrato interleaved, from any payment plan; splits and due dates | price 2 in 2 instalments, 2 payments, 1 line, 2 periods (one may double, one halve), 2 requests; splits of up to 12 cents, schedules from any month of 4 years; lists of 3 days |
| MCDisbursements | edits, payments, reversals, falling due and distrato interleaved; the reports of returns | 1 payable of each kind, 2 payments, 2 requests, 2 days; returns of 1.25 and of 1.5 cents, the second of which the account rounds up and the report down |
| MCSending | two runs over the same dispatch, with one upset: one sender, ENVIADO means accepted, every dispatch is decided | 1 rule, 1 receivable, timer, 1 posted run, 1 request, MaxUpsets 1 |
| MCMembership | two requests at once of any kind: an active OWNER remains, an e-mail belongs to one organisation, an acceptance makes one account, only the newest reset token is usable | 2 e-mails, organisations, invitations, tokens and requests; OWNER and ADMIN, the roles the code tells apart |
| MCOutbox | two requests over two notifications | 2 notifications, 2 requests |
| MCPipeline | two requests race to make pipelines and to move opportunities: one default, histories that explain the stage, a board that adds up | 2 pipelines, 2 opportunities, 2 requests, 3 moves; four of the eight default stages, one valid list of stages and four invalid ones; values of 1.01 at 50 percent, half a cent a stage |
| MCFollowUp | edits of any subset of fields race; a reader pages through the timeline meanwhile; scores agree and rank | 1 activity, 1 visit, 1 other event, 2 instants, 2 requests, pages of 1 |
| MCPortfolio | removals race inserts and edits: nothing dangles, everything is audited, budgets are passed only by a race | 2 developments and allocations, 1 row of each other table, 4 rows at once, 2 requests; amounts of half a cent, which the reports round up, and of one; dates vary only where at most 2 rows are present (`DatesAlone`): no check reads them with another row's |
| MCDocuments | uploads, downloads and removals with every failure: an acknowledged document is kept, a removed one is gone, orphans are explained | 2 documents, 1 person, 1 investment, 2 drivers, 2 requests |
| MCCommissionDue | refuted: see below | as MCDisbursements, commissions only |

The hazards are about pairs: two requests and two rows that compete for one unit,
instalment, dispatch or parent already give every conflict the locks and indexes are there
for; two payments let a reversal and a receipt race the distrato, and an instalment be
paid again; three attempts, the limit of the code, are all reached; two developments and
two allocations are what a move, and a budget, need. Runs of up to 1.3 million states
take up to three minutes each. Symmetry is used only in runs without liveness, over sets
that no function of the instance tells apart. `CHECK_DEADLOCK FALSE` is said where all
work ends: a rescinded sale, an outbox delivered and read.

Fairness, in `MCSending` only: the timer runs again (`setInterval`, every 15 minutes),
awaited calls return or throw (weak fairness of each step of a handler in flight), time
passes. What a run does when the server stops is a fault, after which the timer starts
again, as `onModuleInit` does.

### Where the code and what is said of it differ

`MCCommissionDue` is a run that TLC refutes, with the trace it prints: `markCommissionDue`
reads a commission without a lock and writes DEVIDA over a cancellation that a distrato
committed in between, although it refuses to mark a cancelled one.

Other differences met while modelling, which the modules contain as the code has them:

* A reservation converted on its own leaves its unit RESERVADA for the hand-off
  `PROGRESS.md:49` announces, which no operation performs.
* Accepting a proposal links a unit without comparing its development with the
  opportunity's, which `docs/crm-master-audit.md:23` says is validated; the conversion
  into a sale then refuses it.
* The weighted value of a pipeline is the sum of those of its stages, each rounded to the
  cent (`crm.service.ts:351`), so that it is not the weighted value of its opportunities
  rounded once.
* Reports and dashboard show different totals of the same investments, allocations and
  returns when amounts have more than two decimals; a return of 1.005 opens an account of
  1.01 that the report expects 1.00 of.
* The end of an attempt writes FALHOU over a cancellation made during it
  (`collections.service.ts:468`), and a later run sends what was cancelled.
* The removal of an investment with returns, described under Portfolio.
* `buildWhere` of receivables (`receivables.service.ts:526`) and of payables
  (`payables.service.ts:638`) spreads the range of days over the bound that the status set:
  a list asked for ATRASADO with an `endDate` that is not past has rows that are not
  overdue, and one asked for PENDENTE from a past day has overdue ones. `ListsAgree` says
  for which ranges a list is right.
* `return-status.ts:5` says that its rule makes the Returns module and the reports agree;
  `overdueReturns` (`reports.service.ts:215`) compares with the start of the day and the
  rule with the instant, so that a return due today is overdue everywhere but in the report
  of that name. `ListsAgree` says so too.

## 5. Proofs

Every theorem holds for all values of the constants that satisfy the named assumptions of
its module: finite or infinite sets of rows and requests, any bounds. Beyond the types of
the constants, the assumptions say that the null values are no members of the sets they
complete (`NullAssumption`), in the ledgers and for the board that the rows are finitely
many (`FiniteAssumption`) and that an index is positive (`IndexAssumption`; the code refuses an
index of zero or less); in `FollowUp` that the identities of events are listed in an order
(`OrderAssumption`), that a page holds one at least (`LimitAssumption`), and that prices,
areas and bedrooms are natural numbers, in whatever unit (`MeasureAssumption`); in
`Portfolio` that a row is of one table (`TableAssumption`), that neither a NULL column nor a
field not sent is the identity of a row (`FieldAssumption`), and that what the reports add up,
investments, allocations and developments, is finite and an amount a natural number of parts
of a cent (`CapitalAssumption`); in `Money` that there is one part at least
(`PartsAssumption`), while the halves that go up are any (`TiesUp`). `TLC` evaluates them in the runs.

`CommercialFlowProofs`: `TypeOK`, `ExclusiveClaim`, `ActiveReservationHoldsUnit`,
`AcceptedKeepsUnit`. None of the last three is inductive alone: that an acceptance finds
no other taker follows from the unit's status, and that the status says so follows from
both kinds of takers. Their conjunction with `TypeOK`, `ClaimInv`, is. The proof has a
lemma for each action and, under it, a step for each conjunct; lemmas about expiring a
unit's reservations and about unlinking a removed opportunity are shared.

The same module goes on to `DecidedIsFinal`, `OneLiveSalePerUnit`, `SaleMatchesProposal`,
`SaleWinsOpportunity`, and `ImplementsUnitAllocation`. That a unit has one live sale
follows from `ClaimInv`, a live sale being a claim; that sales and proposals match needs
`SaleInv`, which also says what a request that has read its proposal may still rely on when it
commits. For the refinement, `AllocInv` adds that a unit RESERVADA is so for somebody the
tables name. Every action is then one step of `UnitAllocation` for the unit it touches, or
a stutter: what lazy expiry does to several reservations is one release, and an edit of a
unit that changes no holder is none.

`FiniteSums`: what the proofs of the ledger need of sums. `MapThenSumSet` and `FlattenSeq`
are folds, whose library definitions go through a recursive function on the set of values
left; the module computes them by an induction stated over sets (of the subsets of a finite
set, of the numbers up to a bound), so that no theorem with an operator parameter is
needed. A sum over a set with one row changed moves by that row's change, a sum of a
sequence of equal steps is its last value, a concatenation adds up.

`ReceivablesProofs`: `LedgerConsistent`, `SaleFollowsInstalments`, `ReconciledIsLive` and
`ClosedIsFinal`. `IInv` says, of each request between its first read and its commit, what
still holds of the rows it locked (`LocksHold`) and why its plan is theirs
(`Explained`); of the handlers at SERIALIZABLE, that the snapshot is the table wherever the
commit will check it (`SnapshotsChecked`); of the tables, that the paid amount is the sum
of the live payments, the balance of accounts that of the same payments, the corrected
amount the original with its corrections. The report operators are sums of rows, so each
agreement of two reports follows from a conjunct summed over all rows. `PriceKept` is the
same for the plan: the instalments of every plan of `PaymentPlans` add up to the price.
`SplitLosesNothing` and `MonthsKeepTheDay` prove, for every amount, number of
instalments and first month, what the runs compare over bounded inputs: that a split
loses no cent and that an instalment keeps the day or takes the last of a shorter month.
`ListsAgreeAlways` is `ListsAgree` for any instants.

`PayablesProofs`: `LedgerConsistent`, `SourcesFollowPayables`, `ClosedIsFinal`. The sums are
those of the receivables. `ReadHolds` says the little that a handler which reads without a
lock can still rely on: the account or the commission it read exists, with its sale; a
snapshot had nothing paid. `CommissionsOpened` ties a commission to its account, so that a
payment finds none that is cancelled, and `ReturnsStay` that no account of a return is ever
cancelled, without which an edit of the return could change a closed account. That a stale
edit neither reopens an account nor miscounts it is the CHECK constraint's doing, and the
proof has it as the guard of `CommitUpdate`. For the reports of returns, an amount is at most
half a cent from what it is rounded to (`NearestWhole` of `FiniteSums`), so that sums of both
differ by half a cent for each (`SumScaled`, `ExpectedRounded`); of a return that was paid,
`PaidReturn` says that what was paid is what was expected, in whole cents, or a cent more.

`DeliveryProofs`, of dispatches: `OneSenderPerDispatch` and `SentWasAccepted`. A dispatch that is being
sent is a row some run has taken, and a taken row cannot be claimed again while no attempt
is late and nobody retries; an e-mail is recorded as sent only by the run whose call was
accepted, or by one that found it so.

`DeliveryProofs`, of notifications: `NotificationTypeOK`, `AttemptsAccounted`,
`OneDeliverer`, `FailedIsUnreachable`. The inductive invariant adds `HeldInv` (what a request delivers is PROCESSANDO, and the attempt it remembers is
the item's, so that its third failure is the item's third) and `ItemHasNote` (an item has
its notification, so that creating one touches nothing in flight).

`OrganisationProofs`, of the accounts: `OwnerRemains`, `EmailBelongsToOne`, `AcceptedMadeAccount`,
`NewestTokenOnly`. The locks are what the argument turns on: two requests that could
invalidate each other's reads share one (`Holds` is exclusive), so what a request read
under its lock is still true when it commits, and each invariant is kept by one commit at a
time.

`OrganisationProofs`, of the portfolio: `PortfolioConsistent`, `CascadeAudited`,
`RemovalDetachesNothing`, `OverAllocatedOnlyByRace`. None is inductive: that a cascade takes
only what was collected depends on what the removal has locked so far. `PortfolioIInv` says of
each request in flight what it may still rely on. A removal (`RemovalStands`) holds its root
and, of the kinds of rows it has done, every row that refers to it (`HoldsBelow`); what it
counted as none is none (`StillNone`); and once it has collected, every price or return below
what it holds is listed (`HasCollected`). An edit holds the dates it compares (`EditStands`); a
write of the budget carries an amount that fits what it had read (`BudgetStands`). Every write
but a cascade puts one row that refers to no row a removal holds (`WritesAlone`,
`WritesAndEnds`), so one lemma keeps all of this for all of them; a cascade
is bounded by the kinds of rows that can be below its root (`DeletedIs`). The facts are stated
of a table given as a parameter, so that a lemma serves the rows before a step and after it.

`ReportsAgree` follows from the types and `NoDangling`, by sums over finite sets: each report
groups the same allocations by investment or by development (`SumGroups`), and an allocation
without a development is in cash; the sums that are not rounded are within half a cent for each
amount (`SomeRounded`), and differences of such sums within the sum of their errors
(`RoundedDifference`). For the budget, a step that allocates nothing and changes no
amount takes no more of any investment (`KeepsCapitalKeepsBudget`), and a write that was checked
against what still stands keeps it (`WriteKeepsBudget`).

`DocumentsProofs`: `AcknowledgedIsKept`, `RemovedLeavesNothing`, `OrphanExplained`. An
identity is that of one creation; nobody but its creation touches its file before the row
is inserted, so a clean-up removes only its own; a file lies in the store its creation
began with, wherever a deploy sends the next one.

`CrmProofs`, of `Pipeline`: `PipelinesConsistent`, `HistoryExplainsStage`,
`BoardCountsEveryOpportunity`. Of each request between its reading and its commit, `IInv`
says that what it read is still so (`ReadsStand`), because whoever would change it takes the
same lock (`LocksExclude`): the commit of a move appends a row of the history that starts
where the last one ended. Codes of stages are unique in a pipeline (`WellStaged`, which
follows from `ValidStages`), so that the buckets of a stage share out its opportunities and
the stages those of the pipeline; the sums over buckets, stages and opportunities are then
one (`SumGroups` of `FiniteSums`), and the pipeline's weighted value is within half a cent of
it for each stage that was rounded.

`CrmProofs`, of `FollowUp`: `FollowUpConsistent`, `VisitEndsOnce`, `TimelineComplete`.
`FollowUpIInv` adds what an edit relies on, that the row is still what it read and nobody
else edits it (`EditsApart`, `EditsStand`), and how far the reader has come: of the keys
that stayed, it was shown exactly those up to its cursor, and the page it is reading lies
between that and its next cursor (`ReaderRight`). That a page ends where the next begins
follows from `Before` being a strict total order, so that the place of a key in `Sorted` is
the number of keys before it. `ScoresAgree` is proved of every price, area and range of them
by the cases of the bound that is missed, and of every combination of criteria; `FitFirst`
because a weighted average of scores up to 100 is up to 100 (`Averages`), and where rounding
makes it 100 the order falls to the criteria that match.

Every invariant and action property of the passing runs is proved. Only model-checked:

- liveness (`EventuallyDecided`), which is out of the prover's reach.

## 6. Not modelled

The components marked `not_modelled` in `PROJECT.json`: permissions (a constant table that
a test enumerates), people and interactions (plain records), bank accounts and settings
(records and defaults), the audit (rows written in the transaction of what they record),
and the environment (PostgreSQL, storage and e-mail providers).

Of the modelled ones: numbers and text of proposals and sales, discounts, the
participation of buyers, the handlers that edit index values and policies, parsing of
statements, which units are on offer and the messages that explain a score, the values of
price tables, the grouping of reports by day and category, their layout and export,
preferences of notifications, the day a collection rule falls on, logins and sessions, the
filters of lists but status and range of days, and the tenancy that every query repeats.
Deadlocks end in a rollback by PostgreSQL, which is an action of the modules; the order of
the locks is not.
