# tadmor in TLA+

tadmor is an accounting and ERP system: a Go HTTP server over PostgreSQL, with a
web client. These modules specify the documents of sales and purchasing and the
general ledger they post into, the same requests statement by statement when
transactions overlap, and what surrounds them: the fiscal years, orders and their
fulfilment, bank reconciliation, users and sessions, and the screens of the
client. Every module is model-checked by TLC on small instances, and what it
claims of safety is proved by TLAPS for all values of its constants.

| File | What it is |
| --- | --- |
| `Subledger.tla` | documents, journal, applications, rates, periods; one step per request |
| `GeneralLedger.tla` | the abstract ledger that `Subledger` implements, and `ConcurrentPosting` without overlap |
| `SubledgerProofs.tla` | theorems about both, checked by TLAPS |
| `ConcurrentPosting.tla` | posting, editing, unposting and applying, statement by statement |
| `FiscalYears.tla` | fiscal years and periods, closing and reopening |
| `OrderFulfilment.tla` | one order, what is drawn from it, the page it is done on |
| `BankReconciliation.tla` | one bank statement, its lines, and the entries they match |
| `Sessions.tla` | browsers, cookies, sessions, and administrators who edit users |
| `WebScreens.tla` | every kind of screen of the client, its requests and its address |
| `PostingProofs.tla`, `YearProofs.tla`, `OrderProofs.tla`, `ReconciliationProofs.tla`, `SessionProofs.tla`, `ScreenProofs.tla` | theorems about those six, in the same order |
| `SumTheorems.tla` | sums over finite sets, used by all of the proofs |
| `MC*.tla`, `*.cfg` | instances for TLC, one configuration per run |
| `PROJECT.json` | components, runs, mutants, source map, findings, hazards, theorems |

In every module, an operator introduced as a *variant* of another is used by no
specification: `PROJECT.json` names it as the mutation a property must detect.

## The system

All paths are under `src/`. The server keeps no state between requests: each
handler of `internal/httpapi` decodes a request and runs one function inside
`db.WithTx`, and everything that lasts is in PostgreSQL. The schema
(`db/migrations`) carries part of the logic: row checks, triggers at each
statement, and constraint triggers deferred to the commit. There are no
background jobs, queues or timers. The concurrency is that of requests sharing
tables.

### Subledger documents (`internal/documents`, migrations 5, 6, 7, 12)

*State:* sales invoices, purchase bills, sales and purchase credit notes,
customer and supplier payments, stock movements; each `draft` or `posted`, with
the id of its journal entry. A trigger keeps the totals of a draft equal to the
sums of its lines. *Operations:* create, update (header and the whole line set),
delete; the last two carry `status = 'draft'` in their WHERE clause.
*Correct if* a posted document is frozen, and only drafts are ever deleted.

### Posting (`internal/posting/posting.go`, `creditnotes.go`, migrations 4, 18)

*State:* journal entries and lines, in the entry's currency and in base
currency. *Operations:* `Post…` for each document kind: read the draft, find or
create the open period (`periodForDate`), insert the entry at the latest rate
(`createEntry`), insert detail lines, then the control line whose base amount is
the sum of the others', and set the document posted. *Hard:* rounding on
conversion; a closed period; the status read at the start and not asked again at
the end. *Correct if* every entry balances in both currencies, belongs to one
document and carries that document's total.

### Settlement (`internal/posting/apply.go`, `creditnotes.go`, migrations 5, 6, 12, 18)

*State:* four tables of applications, unique per pair of documents.
*Operations:* `AutoApply…`: one `INSERT … SELECT` spreads what is left of a
posted payment or note over the party's posted documents in the same currency,
oldest first, and `postSettlementFX` books an exchange difference for each
application whose two entries have different rates. *Correct if* nothing is
over-applied, the oldest document comes first, the allocation does not stop
short, and the control account in base currency stays at what is open.

### Unposting (`internal/posting/unpost.go`, `creditnotes.go`, migration 9)

*Operations:* a mirror entry is posted, the document returns to draft; refused
when an invoice, bill or note has applications, when an entry is already
reversed or matched at the bank, when the month is closed. A payment's
applications are deleted and their exchange entries reversed. *Correct if*
nothing in the journal is rewritten, an entry is reversed once and exactly, and
what remains unreversed is owned.

### Rates, settings, calendar and year end (`internal/master`, `internal/posting/yearend.go`, migrations 4, 14, 18)

*State:* exchange rates by date, the exchange account, accounting periods,
fiscal years. *Operations:* edits by an administrator; `CloseFiscalYear` sweeps
revenue and expense into equity, closes the periods and opens the next year;
`ReopenFiscalYear` reverses that. *Hard:* a posting in flight while its period or
year closes; periods edited to belong to other years. *Correct if* a closed year
does not change and each year's result is swept exactly once.

### Orders, fulfilment and inventory (`internal/orders`, migrations 7, 8, 13)

*State:* sales and purchase orders (`draft`, `open`, `closed`, `cancelled`) with
quantities; what was invoiced, billed, shipped or received is the sum over the
linked lines. *Operations:* confirm, close, cancel, draw an invoice, a bill, a
shipment or a receipt for what is left. *Hard:* two draws at once, a cancellation
racing a draw, a moving average that changes before the shipment is posted.
*Correct if* no line is fulfilled beyond its quantity and a cancelled order has
no fulfilment.

### Bank reconciliation (`internal/banking`, migration 17)

*State:* statements with lines, each matched to at most one journal line and one
journal line to at most one of them. *Operations:* add and delete lines, match,
unmatch, auto-match, reconcile, reopen. *Hard:* reconciling while lines change,
matching an entry that is being reversed. *Correct if* a reconciled statement is
fully matched and adds up, and no matched entry is reversed.

### Users and sessions (`internal/auth`, `internal/httpapi/auth.go`, `users.go`, migrations 10, 11)

*State:* users, session tokens. *Operations:* log in and out, create and edit
users, set a password (which revokes the sessions). *Hard:* these run without a
transaction; a log-in can race a password change, and two administrators can
demote each other; the browser changes the cookie when the headers of an answer
arrive, the page its state later. *Correct if* a session outlives no password, an
administrator always remains and a page acts for the user it shows or for nobody.

### Web client (`web/src`)

*State:* per mounted component what `useState` holds: the record loaded, an
error, whether a button is busy, an open panel; in `App`, who is signed in.
*Operations:* an effect loads when the address changes, a button or a form sends
a write and then reloads or navigates. *Hard:* answers arrive late and in any
order; one component shows one record after another; a request may have been
served although its answer was lost; an action may fail after its record was
changed. *Correct if* a page shows the record of its address, a second press sends
nothing while the first is under way, and neither "Loading…" nor a busy button
stays.

### The rest

`internal/db` connects and migrates at start-up. `internal/reporting`,
`printing` and `pdf` only read. `mailer` sends one message per request. `master`
has single-row tables with no protocol. `config` and `cmd/server` start the
process. `conformance`, `e2e`, `tools` and `deploy` are tests and scripts.
`PROJECT.json` says for each why it is not modelled.

## Subledger

One step per request, because each handler is one transaction; this module says
what the operations do when transactions do not overlap.

| Variable | Code |
| --- | --- |
| `doc` | the seven document tables: status, date, net and tax totals, entry id |
| `apps` | `payment_applications` and its three mirrors: settler, target, amount, exchange entry |
| `journal` | `journal_entries` with `journal_lines`, in id order: date, rate, lines by account in both currencies, the entry reversed |
| `rates` | `exchange_rates` of the one foreign currency, 0 for no row |
| `period` | `accounting_periods`, one per month |
| `fxAccount` | whether the exchange gain and loss account is configured |
| `matched` | entries with a line matched on a bank statement |

`Create`, `Update`, `Delete`, `Post`, `AutoApply`, `Unpost` and `UnpostPayment`
are written once and named for every document kind as in the code
(`PostSalesInvoice`, `AutoApplySupplierPayment`, …), which pass the control
account, its side and the detail account. Everything a handler does is in its
step: posting also creates a missing period, applying also books every missing
exchange difference, unposting a payment also reverses those and deletes the
applications.

*Abstractions.* Money is in units of the fourth decimal and a rate a numerator
over `RateScale`, so `Convert` rounds as `round(numeric, 4)` does, half away from
zero. A date is a month; the fiscal year is open. A document has one net and one
tax amount on one account each. Configuration accounts are set, except the
exchange account. The deferred database triggers are not guards of the steps but
invariants: sequentially they never have anything to refuse.

*The abstract ledger.* `GeneralLedger` has one variable, the book, and two kinds
of step: `Record` adds entries in balance, `Correct` adds the exact negation of
entries that have never been corrected and are no corrections themselves. Nothing
is ever rewritten. `Subledger!Ledgers` instantiates it with the journal for the
book, and `LedgerKept` says that `Subledger` implements it: postings and
exchange entries record, unposting corrects, all else leaves the book alone.

### What the runs check

| Run | Instance | Properties |
| --- | --- | --- |
| `settlement` | three bills of two suppliers, a payment, a credit note, an issue and a receipt (598,000 states) | `TypeOK`, `NeverOverApplied`, `ApplicationsPinPosted`, `OldestFirst`, `AllocationExhausts` |
| `foreign_sales` | foreign invoice, payment and note, rates edited at any time | `EntriesBalanced`, `ReversalsMirror`, `ControlAccountRevalued` |
| `administration` | foreign bill and cross-month payment, every administrator's action (230,000 states) | `UnpostNeverStuck`, `LiveEntriesOwned`, `HistoryKept`, `LedgerKept` |

`ControlAccountRevalued` deserves a word. In base currency the receivable is a
sum of amounts rounded at different times and rates; what the code promises is
that it equals the open items, each at the rate of its own posting, up to half a
unit for each conversion. A lost or double exchange entry, a wrong sign, or a
rate taken from the table instead of the entry breaks it by more.

*Bounds.* `MaxEntries` is 4 or 5: with 5, enough for two postings with an exchange
entry and the reversals of one unposting. Two months distinguish dates, two rates
(3/4 and 7/4 of a unit) and amounts 2, 3 and 5 make every conversion round.
Amounts in `settlement` are chosen so that either settler can exceed one bill and
falls short of all. Ids are not reused, so a document is created once. The
specification of `settlement` and `foreign_sales` leaves out the administrator's
actions, which `administration` has. `CHECK_DEADLOCK FALSE` appears where every
document may end deleted or the journal full, and nothing is left to request.

## ConcurrentPosting

`db.WithTx` begins a transaction at the default isolation level, READ COMMITTED,
and no query of the program uses `FOR UPDATE` or a lock. The module gives each
session a transaction record: the document, the statement reached (`at`), the
entry being built, the state of the row it has locked, applications inserted and
deleted. Each statement is a step that reads what is committed then.

| Step | Statement |
| --- | --- |
| `ReadDraft`, `InsertEntry`, `InsertDetail`, `InsertControl`, `SetPosted` | `PostSalesInvoice`, `PostCustomerPayment` |
| `EditDraft`, `DeleteDraft` | `UpdateSalesInvoice`, `DeleteSalesInvoice` and the payment's |
| `ReadPosted`, `HasNoApplications`, `InsertReversal`, `RemoveApplications`, `SetDraft` | `UnpostSalesInvoice`, `UnpostCustomerPayment` |
| `ReadSettler`, `Allocate`, `InsertApplications` | `AutoApplyCustomerPayment` |
| `CheckApplied`, `Commit` | the deferred triggers, and the commit after them |
| `Abort` | an error, a client that goes away, a crash, a deadlock victim |

PostgreSQL, outside `src/`, is modelled by the rules this code meets: row locks
held to the end of the transaction; a WHERE clause evaluated again after waiting;
unique indexes that wait for an uncommitted duplicate; foreign keys that hold off
a deletion (`Referenced`) and, in `DeleteDraft`, restrict it (invoices) or cascade
(payments); deferred triggers that see other transactions' commits but not their
pending writes. A refused statement leaves only `Abort`, which is always possible,
so nothing waits for ever. A deletion is one step although the database locks the
row before it cascades; where that could deadlock, PostgreSQL aborts one of the
two, which `Abort` allows.

`interleaved` runs two sessions on an invoice and a payment through every
interleaving (565,000 states) and checks `TypeOK`, `PostedEntryLive`,
`PostedFrozen` and `ReferencesKept` (an application does not outlive its payment or
invoice, though these may be unposted and deleted while an allocation is under
way): what the row locks, the re-evaluated WHERE clauses and the foreign keys do
protect. Two sessions are enough for each of these because each is a claim about
one row and two writers. `MaxEntries` 4 allows post, unpost, post again and a
reversal. The sessions are symmetric, and no liveness is checked, so the symmetry
is sound. The deferred balance trigger is a guard of `Commit`; that committed
entries balance is therefore no property here but in `Subledger`, where the trigger
is not a guard.

The module also states what overlapping transactions do not keep, and no run
checks: `ReversedOnce` (two unposts each find no committed
reversal), `EntriesRecorded` (a draft deleted while it is posted), `ControlIsTotal`
(an edit committed inside a posting), `ApplicationsBetweenPosted`,
`ClosedPeriodSealed` (a period closed between the entry's insertion and its
commit). `NeverOverApplied` is a run of its own, `two_payments`, because comment
and document promise it explicitly: see Findings. The counterparts in `Subledger`
hold, proved or checked: each needs overlapping transactions. `PostingProofs`
shows the same of this module: all six hold of requests one at a time.

## FiscalYears

| Variable | Code |
| --- | --- |
| `year` | `fiscal_years`: dates, status, `closing_entry_id` |
| `period` | `accounting_periods`: year, dates, status |
| `journal` | entries by date, period, `is_closing`, the entry reversed, and their amounts on revenue and expense accounts |
| `edits` | the bound on calendar edits |
| `orderly` | history: years disjoint, periods within their year and entries in the year of their period, so far |

`Post` is a posting or unposting: it uses the period around the day, or creates
the period of the month in the open year around it, or is refused
(`periodForDate`). `CloseFiscalYear` checks that no
earlier year is open, sweeps the cumulative balances into the closing entry, opens
the period it lands in, shuts the year's periods and creates the next year;
`ReopenFiscalYear` opens the year and the period of its closing entry and posts
the mirror.
`CreateFiscalYear`, `UpdateFiscalYear`, `CreateAccountingPeriod`,
`UpdateAccountingPeriod` and `Toggle` are the screens' edits with the constraints
and triggers of migrations 4 and 14. A request is one step.

`fiscal_years` checks that a closed year has no open period and that closing
entries not reversed are those of the closed years, whatever is done to the
calendar (`ClosedYearShut`, `ClosingOwned`); and, while the calendar is in order,
that each result is swept exactly once and restored by reopening (`SweptOnce`,
`OpenYearRestored`). That condition is real: nothing in the code keeps years from
overlapping or periods within their year, and `closed_year` shows what follows.

*Bounds.* Four days, a month and a year of two: two calendar years of a period
each, three ids, so that a year can be created by hand beside the automatic one.
One revenue amount, four entries (two sales, or a sale, a closing, its reversal
and a closing), one edit. Nothing is left to do with the ids used up, so deadlock
is not checked.

## OrderFulfilment

| Variable | Code |
| --- | --- |
| `order` | `sales_orders` or `purchase_orders` with its lines: status, quantities |
| `drawn` | the sums of the fulfilment view, by axis (documents, stock movements) and line |
| `tabs` | each `OrderDetail`: what it loaded, the open panel, `acting` and `busy` |
| `requests` | requests in flight and their transactions: what was asked, the rows to be written, the step reached, what is left of the component that asked |
| `overlapped` | history: two transactions have been open at once |

A user visits, leaves, presses a lifecycle button, opens a panel and submits it
(`Press`, `Toggle`, `Submit`) on what the page last loaded; the server begins,
draws or writes, checks the deferred trigger and commits (`Begin`, `Draw`,
`Check`, `Write`, `Commit`), or rolls back (`Fails`), and the answer comes later
or never. Other users edit the draft and delete the drafts drawn. A sales and a
purchase order are one model: their handlers differ in names only.

`orders` (2.7 million states) checks that a draft order has nothing drawn from it,
overlapping or not (`DraftUndrawn`); that a document holds no more than its user
asked for (`NeverMoreThanAsked`); and that without overlapping transactions
nothing is drawn twice or from a cancelled order (`NeverOverDrawn`,
`CancelledUndrawn`). With overlap neither of the last two holds (`OnlyOrdered`
states the first unconditionally and is not run): quantities and fulfilment are
read from committed rows without a lock. `StatusForward`, the order of statuses
without overlap, is proved and has no run.

*Bounds.* One stocked line, quantities to two, one page, two requests: enough for
a request left behind by a page that was left and one of its successor, and for
partial drawings. A service line, which is never shipped, is in the module and
not in the instance.

## BankReconciliation

| Variable | Code |
| --- | --- |
| `statement` | the row of `bank_statements`: status, account, closing less opening balance |
| `lines` | `bank_statement_lines`: amount, matched journal line |
| `journal` | cash lines of posted entries: account, amount, the entry reversed |
| `requests` | requests and their transactions: what is asked, rows written and locked, lines still to be matched |
| `overlapped` | history: two transactions have been open at once |

`Ask` sends anything a stale screen may send. `Begin` reads what the handler
requires (`Requires`), a `Work` step writes (`AddLine`, `MatchLine`,
`UnmatchLine`, `DeleteLine`, `AutoMatchLine` one line at a time,
`UpdateStatement`, `Reconcile`, `Reopen`, `DeleteStatement`, and `ReverseEntry`
from unposting, which like the code asks at its beginning only whether the entry is
reversed already, so that two may reverse it twice), the trigger of migration 17 and the unique index see what is
committed by then, and `Commit` or `Fails` ends it.

`reconciliation` (2.8 million states) checks, overlapping or not, that a matched
line has a posted journal line of its amount to itself (`MatchSound`, which says
nothing of the account: a change of the header that overlaps a match can make it
another); and without overlap that a reconciled statement is fully matched and adds up
(`ReconciledSound`), that a matched entry is not reversed (`PinnedEntry`) and that
auto-match leaves no line that could be matched (`AutoMatchComplete`). `MatchesLive`
is not run: a match to an entry that was reversed before is accepted by the code.

*Bounds.* Two lines of one unit in a statement that needs both, three entries (one
may be a reversal), two cash accounts, two
requests. Which of several candidates auto-match takes is left open, so dates
need no bound. The CSV import, many `AddLine` in one transaction, is left out.

## Sessions

| Variable | Code |
| --- | --- |
| `user` | `users`: role (administrator, plain, inactive) and version of the password |
| `session` | `sessions`: whose, for which password, still there |
| `page` | each browser: what `App` shows, its user, the cookie; one history field for `SignedInAs` |
| `requests` | requests in flight: admitted, half done, answered, their headers received, a 401 noticed |
| `clean` | history: no two requests acted at once, no password change stopped half-way |

These handlers use no transaction, so `Admit` (the session or the password is
looked up), each statement that follows (`CreateSession`, `UpdateUser`,
`SetPassword`, `RevokeSessions`) and a failure between two (`Breaks`) are separate
steps. So are those of an answer: its headers set or clear the browser's cookie
(`Receives`), a 401 brings up the login form before its body is read
(`Unauthorized`), and what awaited the body goes on (`Settles`: the probe or the
log-in shows its user, a sign-out the login form); or it is lost (`Lost`). Answers
to other requests come in between. A page loads and probes, logs in, signs out, or
drops to the login form on a 401.

`sessions` (8.3 million states) checks, whatever the order of all these, that a page
which shows a user has a cookie of that user or none (`SignedInAs`), so that nothing
is ever done for another user than the one shown; and, as long as `clean`, that an
administrator remains and that every session was given for the current password
(`AdminRemains`, `PasswordsCurrent`). A page with a user and no cookie is a state
the code can reach, and `SignedInAs` says how: the page has yet to be told of the 401
or the sign-out that cleared the cookie (`Dropping`), or one of these cleared the
cookie of a log-in between its headers and its body, and the page shows its user
after all (`page.bare`). Its next request is then answered by a 401.

*Bounds.* Two browsers, two users, two requests, two sessions, one password
change; browsers, users and slots are symmetric and no liveness is checked.
Creating users and hashing are left out; browsers that share a cookie between tabs
are not looked at.

## WebScreens

| Variable | Code |
| --- | --- |
| `screen` | the description of the mounted component |
| `page` | its address and `useState`: loaded, contents, error, busy; two history fields for `FreshPage` (`least`, `crossed`) |
| `calls` | its requests in flight, and whether it still listens to them |
| `row` | the server's records: status, version, whose contents |

About fifty components are a description each (`InvoiceForm`, `DocumentDetail`,
`AccountLedger`, `Customers`, …): its kind (a document form, a record form, a page
with actions, a page that only reads, a list), how many requests it loads with,
which writes carry a unique key, which buttons it has, and whether its failures
are caught. `Descriptions` is the set of all such descriptions and
`DescriptionsAssumption`, which TLC evaluates on every run, says that each
component has one, and that only a page with actions has buttons other than
delete. The actions are written once per kind: `Open`, `Go`, `Leave`, `Submit`,
`Press` by the user; `Read`, `Loaded`, `LoadFails`, `Serve`, `Navigates`, `Acted`,
`Reloaded`, `Fails` by requests; `Others` by somebody else. Screens of equal
description are one for TLC.

`web_screens` checks that a settled page shows the record of its address and not
an older version than the one it came for (`FreshPage`), and that a screen has
one action under way at most, its buttons disabled until it has ended, wherever its
address moves meanwhile (`OneActionAtATime`). `FreshPage` excepts a page with
actions whose address changed while an action was in flight, or whose button was
pressed while it was loading: the reload after an action is not cancelled
(`document-detail.tsx:284`), so that such a page may settle on the record it showed
before. That a record is created once is not a property: one with a number is
protected by the database's UNIQUE constraint (`KeyFree`, a guard), and a payment, a
movement or a bank statement whose answer was lost can be submitted again.
`OwnContents` is stated and not run for the same kind of reason:
the stock movement form keeps its fields when the browser's history jumps from one
movement to another.

`web_progress` checks that loading ends and busy buttons are released
(`LoadingEnds`, `BusyEnds`).

*Fairness.* Weak fairness of the progress of each request: a `fetch` is answered
or rejected in the end, and its continuation runs. That is the promise of the
platform and does not depend on a user. Nothing else is fair: a user need not do
anything, and rows need not be changed by others. `BusyEnds` excepts
`StockMovementDetail`, whose reload after an action has no `catch`
(`stock-movement-detail.tsx:101`): a failed reload leaves its buttons disabled.
All other modules check safety only, without fairness: nothing happens in the
server unless a client asks, and clients may stop asking.

*Bounds.* Two records, one of them drawn from an order, two new ids, two requests
in flight, two writes (one in `web_progress`): a write whose answer was lost and
its repetition, or an action and the change of the record by another user.

## Findings

| Run | The documentation | The code |
| --- | --- | --- |
| `two_payments` | `apply.go:142` "never over-applies … the database's over-application constraint is the backstop" | both deferred checks may run before either commit |
| `closed_year` | migration 14:14 "together the two triggers make a closed year immutable until it is explicitly reopened" | a second fiscal year may cover days of a closed one, or a period be moved to another year, and a posting then lands on a day of the closed year |

## Proofs

Each theorem holds for every finite set of documents, years, lines, records and
so on, any number of sessions, requests, browsers or tabs, and every bound. What
it assumes of the constants is the module's named `ASSUME`, which TLC evaluates in
each run, and nothing else:

| Module | Assumption |
| --- | --- |
| `Subledger` | rates and the scale are positive, contents are integers of the right sign, documents are finitely many |
| `ConcurrentPosting` | totals are natural numbers, a payment's is not zero, documents are finitely many |
| `FiscalYears` | the days are an interval starting at 1, ids are positive and finitely many |
| `OrderFulfilment` | lines and quantities are finitely many, zero is a quantity |
| `BankReconciliation` | amounts are integers other than zero (migration 17 checks that), lines are finitely many |
| `Sessions` | there is a user; "none" is no name of a user or browser |
| `WebScreens` | records are finitely many, new ids are not old ones and do not run out before the bound on writes; descriptions as said above |

`SumTheorems` has what the proofs need of sums over finite sets, which the code
writes as `SUM(…)` in SQL and the modules as a fold: that a sum exists and is
unique, and how it changes when the set gains a member, is renamed, is split in two
or is bounded by another. Its `SetInduction` is stated for subsets of a powerset
rather than for a predicate, so that every induction on a finite set can cite it.

In each module no property is inductive by itself. An invariant `IInv` is: one
lemma says `Init` implies it, one lemma per action that the action keeps it (with
one step per part of `IInv` the action can disturb), a theorem that every behaviour
does, and the properties follow from it. The following says what `IInv` adds to
the properties and why.

### Subledger (`SubledgerProofs`)

That a reversal is not repeated needs that a posted document's entry is unreversed,
which needs that live entries have one owner, which needs that applications pin
their documents. `IInv` is

    TypeOK /\ EntriesBalanced /\ ReversalsMirror
           /\ LiveEntriesOwned /\ ApplicationsPinPosted

The journal only grows, and in one of three ways: by the entry of a posting, by
the exchange entries of an allocation, by mirrors. `Grown` names that,
`AppendGrown` and `ExtendedGrown` establish it, and the `Grown…` lemmas say what
growing by balanced, fresh or mirrored entries does to each conjunct. The
arithmetic lemmas (`ConvertMonotone`, `ConvertOdd`, `ConvertSign`) show that
rounding never puts a base amount on the wrong side.

`LedgerImplemented` follows the same three ways: `GrownRecord` shows that growing
by balanced originals is a `Record` step, `MirrorNegates` and the lemma on
corrections that growing by mirrors is a `Correct` step, and every action of
`Subledger` falls under one of them or leaves the journal unchanged.

The settlement theorems are about one `INSERT … SELECT`. An allocation gives each
open document, in the order of date and id, the lesser of what it is still owed and
what the earlier ones have left of the amount; the shares given up to a document
then add up to the lesser of the amount and of all that is open up to there, by
induction on the last document. So no document gets more than it has open, the
settler spends no more than it has, a document gets something only when the
earlier ones are filled, and all is spent unless all are filled. Booking an
exchange difference replaces an application by one with an entry and the same
amount, so sums are kept (`SumRenamed`), and drafts, which may be edited, have no
applications.

The control accounts take a further invariant, `Valued`: the entries that stand are
worth what owns them, a posted document's its two amounts at the rate of its entry,
an application's the difference of its documents' rates. Entries never change and
a document keeps its entry while it is posted, so rates edited later disturb
nothing. Then the balance is rearranged until it is a sum over documents:

- a reversed entry and its mirror add up to nothing (`ReversedCancel`), so what
  stands is the balance;
- what stands is the postings and the exchange entries, each once (`LiveSplit`);
- an exchange entry takes its application from two documents, from each at that
  document's rate (`AppBaseEnds`), so all of them together are each document's
  applications at its own rate (`AppsGrouped`);
- what this leaves of a document beside its open item is `Rounding`: the net and tax
  as converted, less the balance as converted, less the applications as converted,
  which unrounded is zero. Each conversion is half a unit off at most
  (`RoundDivNear`), and none in base currency (`RoundingBound`, `DocError`).

So the bound counts conversions, and follows from nothing about the rates.

| Theorem | Establishes |
| --- | --- |
| `InvariantHolds` | `[]IInv` |
| `TypeCorrect` | `[]TypeOK` |
| `JournalBalanced` | `[]EntriesBalanced`: no handler writes what the triggers refuse |
| `ReversalsExact` | `[]ReversalsMirror` |
| `LedgerOwned` | `[]LiveEntriesOwned` |
| `ApplicationsPinned` | `[]ApplicationsPinPosted` |
| `HistoryImmutable` | `HistoryKept` |
| `UnpostAlwaysOpen` | `[]UnpostNeverStuck`, with `EntriesDated` (entries carry their owner's date) as a further invariant |
| `LedgerImplemented` | `LedgerKept`: `Subledger` implements `GeneralLedger` |
| `WithinTotals` | `[]NeverOverApplied`: the deferred trigger has nothing to refuse |
| `OldestSettledFirst` | `OldestFirst` |
| `NothingWithheld` | `AllocationExhausts` |
| `AccountsRevalued` | `[]ControlAccountRevalued`: three halves of a unit for a posted foreign document and one for each application, however rates change |

### ConcurrentPosting (`PostingProofs`)

`IInv` says of each transaction what goes with the statement it has reached: which
parts of it are set (`Course`), what the mirror it is about to insert negates
(`Reversing`), what it knows of the row it has locked (`Holding`) and of the rows
its insertions refer to (`Referring`); and of two transactions that they never
hold the same row, nor one delete what the other refers to (`Apart`). A step
disturbs its own transaction's part and must respect the others' by `Apart` only,
so the number of sessions does not matter.

| Theorem | Establishes |
| --- | --- |
| `TypeCorrect` | `[]TypeOK` |
| `EntryOfPosted` | `[]PostedEntryLive` |
| `ReferencesSafe` | `[]ReferencesKept` |
| `FrozenOncePosted` | `PostedFrozen` |
| `SerialEntries` | `[](ReversedOnce /\ EntriesRecorded /\ ControlIsTotal)` without overlap |
| `SerialApplications` | `[](ApplicationsBetweenPosted /\ NeverOverApplied)` without overlap |
| `SerialPeriod` | `ClosedPeriodSealed` without overlap |
| `SerialLedger` | without overlap the journal implements `GeneralLedger` |

The last four assume `[][Serial]_vars`: at most one transaction is under way after
any step, and the period changes only when none is. Statements still are steps of
their own and may be refused or aborted anywhere. What the documentation says of
any two requests then holds, so overlap alone is what breaks it. The inductive invariant `SerialInv` adds to `IInv` what the
one transaction knows (`Known`): the status and entry it read are still those of
the row, its control line is the row's total, no application is left on what it
returns to draft, and after `CheckApplied` the sums are those the commit will leave.
The sums are compared by `SettledLess` (a document that gains no application is
settled by no more than before). `SerialLedger` maps a two-line entry to a book
entry with a debit and an equal credit; that a commit corrects each entry once is
`PostedEntryLive` of the document whose status was read.

### FiscalYears (`YearProofs`)

`IInv` has two parts. `Sound` holds whatever an administrator does: rows are well
formed, closed years are shut, closing entries are owned. `Swept` holds while the
calendar is orderly: years are apart, entries lie in the year of their period, and
for each year the balances of its days come to zero if it is closed, and the
closing entries on its days come to the one that stands, or to nothing. Closing
keeps the latter because the closing entry sweeps balances that are cumulative over
all earlier years, whose days, all closed, come to zero by the same invariant.

| Theorem | Establishes |
| --- | --- |
| `TypeCorrect` | `[]TypeOK` |
| `ShutYears` | `[]ClosedYearShut` |
| `OneEntryAClose` | `[]ClosingOwned` |
| `SweptClosed` | `[]SweptOnce` |
| `ReopenRestores` | `[]OpenYearRestored` |

### OrderFulfilment (`OrderProofs`)

`IInv` says that a screen which was left waits for nothing, that one request at a
time has written the order's row and not committed (`OneWrites`, the row lock),
that a draft has nothing drawn or being drawn (`Undrawn`), and, as long as no
transactions have overlapped, that the one that runs still finds the order as it
read it: its status permits what it does and its rows fit in what is left (`Alone`).

| Theorem | Establishes |
| --- | --- |
| `TypeCorrect` | `[]TypeOK` |
| `DraftsUndrawn` | `[]DraftUndrawn`, however requests overlap |
| `AskedOnly` | `NeverMoreThanAsked` |
| `WithinOrdered` | `[]NeverOverDrawn` |
| `CancelledEmpty` | `[]CancelledUndrawn` |
| `OnlyForward` | `StatusForward` |

### BankReconciliation (`ReconciliationProofs`)

`IInv` says of the committed rows that matches are backed and distinct (`Rows`); of
each transaction that what it has written is backed by committed entries, which are
never deleted (`Own`); of two that they have not written the same line or taken the
same entry, which is what row locks and the unique index amount to (`Apart`); and
without overlap, that a reconciled statement is right (`Settled`) and the request
that runs still finds what it checked (`Lone`).

| Theorem | Establishes |
| --- | --- |
| `TypeCorrect` | `[]TypeOK` |
| `MatchesSound` | `[]MatchSound`, however requests overlap: amount and uniqueness, not the account |
| `ReconciledRight` | `[]ReconciledSound` |
| `EntriesPinned` | `PinnedEntry` |
| `NothingLeft` | `AutoMatchComplete` |

### Sessions (`SessionProofs`)

A session's user is for good, so what a request found about it stays true until its
answer arrives (`Own`); a page shows the application only for a user, with no cookie
but his (`Shows`). What the cookie can be when the body of an answer is read follows
from what the page waits for (`Waiting`): a page that probes its session waits for
nothing else, one that logs in waits for one log-in, so that from the headers on the
cookie is the one they set or none. A page that shows a user and lost its cookie is
about to be told (`Told`). While
the history is clean there is an administrator, and a session is of the current
password unless the request that changed it is half done (`Orderly`).

| Theorem | Establishes |
| --- | --- |
| `TypeCorrect` | `[]TypeOK` |
| `ActsAsShown` | `[]SignedInAs` |
| `AdminStays` | `[]AdminRemains` |
| `OldPasswordsOut` | `[]PasswordsCurrent` |

### WebScreens (`ScreenProofs`)

`IInv` says that a page has at most one load and one action in flight and is busy
during the action (`OneAtATime`), and that the two go together only if its address
has changed in between (`Apart`); that the row of the address has reached the
version the page must show (`Known`), so what a load has read since is no older
(`Reading`); and that each new id was a write, so that they do not run out (`Born`,
with `SumCounts` for the number of writes).

| Theorem | Establishes |
| --- | --- |
| `TypeCorrect` | `[]TypeOK` |
| `PageFresh` | `[]FreshPage`, with its exception |
| `OneAction` | `[]OneActionAtATime` |

### What the proofs changed

Two `CASE`s with overlapping guards (`Answered` of `OrderFulfilment`, the reading
and arrival of answers in `Sessions`) left open which value was meant. TLC takes
the first that is true and no proof can; they are `IF`s and disjoint guards now.
`WebScreens` says what a description may be instead of only listing fifty.

### Model-checked only

Liveness under fairness, `LoadingEnds` and `BusyEnds`, which is beyond these
provers.

## Not modelled

- Transfers and adjustments (they never post) and the moving-average cost, which is
  arithmetic on sums over movements.
- Several detail accounts on one document, each line rounding by itself, against
  the sign of the control line.
- The CSV import of bank lines and several statements at once.
- The migration runner, which runs before the server listens; configuration, mail,
  printing and reports, which keep no state of their own.
- In the client: the settings page, the e-mail panel, the order form's line
  editor, print views and everything about layout.
- A posting that overlaps a year-end close, beyond the period of
  `ConcurrentPosting`; statement-level interleaving of `FiscalYears`.

## Plan

Several detail accounts per document in `Subledger`, whose lines round one by one
against the sum on the control line.
