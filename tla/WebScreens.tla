------------------------------ MODULE WebScreens ------------------------------
(***************************************************************************)
(* The screens of the web client: one mounted component, the requests it   *)
(* has in flight, and the rows of the server they read and write.          *)
(*                                                                         *)
(* A component instance lives as long as the address stays within its      *)
(* routes: a jump in the browser's history from one record to another, or  *)
(* from a new record to an old one, keeps its state and runs its effect    *)
(* again.  Requests are answered, or fail, in any order.  An effect that   *)
(* is cleaned up ignores its answer, so its request is forgotten; nothing  *)
(* takes back the write of a component that is gone.                       *)
(*                                                                         *)
(* The screens differ in what their files say of them, a description each  *)
(* (DraftForm, RecordForm, DetailPage, View below); the actions are those  *)
(* every screen of a kind performs.  A document's contents are the record  *)
(* they are about and the version they were read at.                       *)
(***************************************************************************)
EXTENDS Integers, FiniteSets, FiniteSetsExt

CONSTANTS
    Screens,       \* the descriptions of the screens looked at
    Records,       \* ids of the records there are
    NewIds,        \* ids the server gives to records created
    Linked,        \* the records drawn from an order
    MaxWrites,     \* bound on the writes there are, one new id for each
    MaxCalls       \* bound on the requests in flight

ASSUME ScreensAssumption ==
    /\ Records \cup NewIds \subseteq Nat \ {0} /\ Records \cap NewIds = {}
    /\ Records # {} /\ IsFiniteSet(Records \cup NewIds)
    /\ Linked \subseteq Records
    /\ MaxWrites \in Nat /\ Cardinality(NewIds) >= MaxWrites
    /\ MaxCalls \in Nat

VARIABLES
    screen,        \* the component the tab shows, or last showed
    page,          \* its address and state
    calls,         \* the requests in flight
    row            \* the server's rows

vars == <<screen, page, calls, row>>

Ids == Records \cup NewIds
Slots == 1..MaxCalls

-----------------------------------------------------------------------------
(* Descriptions.                                                            *)
(*   gets      how many GET requests together read one record               *)
(*   lists     a form for a new record waits for the lists it offers        *)
(*   keys      the writes that carry a key the database keeps unique        *)
(*   refuses   what the form declines to load                               *)
(*   buttons   the actions it offers besides saving                         *)
(*   clears    a load that succeeds takes down an earlier error message     *)
(*   catches   every failure of an action reaches its handler               *)

Screen(kind, gets) ==
    [kind |-> kind, gets |-> gets, lists |-> FALSE, keys |-> {}, refuses |-> {},
     buttons |-> {}, clears |-> FALSE, catches |-> TRUE]

\* A form over loaded fields, not reset, hidden behind an error message.
DraftForm(gets, keys, refuses) ==
    [Screen("draft", gets) EXCEPT !.lists = TRUE, !.keys = keys, !.refuses = refuses]

\* A form over one state object, null until loaded and blank for a new record.
RecordForm(lists, keys) == [Screen("record", 1) EXCEPT !.lists = lists, !.keys = keys]

DetailPage(gets, buttons) == [Screen("detail", gets) EXCEPT !.buttons = buttons]

\* A page that only reads: what it shows depends on the address or on dates.
View(gets, clears) == [Screen("view", gets) EXCEPT !.clears = clears]

\* A list is a page with one address; the collection it shows is its record.
ListOf(gets) == [View(gets, FALSE) EXCEPT !.kind = "list"]

\* A number or a name: the form sends it with every write.
Numbered == {"create", "update"}
\* A key that is the address: an update takes it from there.
Addressed == {"create"}

InvoiceForm        == DraftForm(2, Numbered, {"posted", "linked"})
BillForm           == DraftForm(2, Numbered, {"posted", "linked"})
OrderForm             == DraftForm(2, Numbered, {"posted"})
SalesOrderForm        == OrderForm
PurchaseOrderForm     == OrderForm
GenericCreditNoteForm == DraftForm(2, Numbered, {"posted"})
CreditNoteForm        == GenericCreditNoteForm
SupplierCreditForm    == GenericCreditNoteForm
PaymentForm           == DraftForm(1, {}, {"posted"})
CustomerPaymentForm   == PaymentForm
SupplierPaymentForm   == PaymentForm
StockMovementForm  == DraftForm(1, {}, {"posted", "linked"})

AccountForm        == RecordForm(TRUE, Numbered)
CustomerForm       == RecordForm(TRUE, Numbered)
SupplierForm       == RecordForm(TRUE, Numbered)
ProductForm        == RecordForm(TRUE, Numbered)
OrganizationForm   == RecordForm(FALSE, {})
WarehouseForm      == RecordForm(FALSE, Numbered)
TaxCodeForm        == RecordForm(TRUE, Addressed)
PaymentTermForm    == RecordForm(FALSE, Addressed)
BankStatementForm  == RecordForm(TRUE, {})
ExchangeRateForm   == [RecordForm(TRUE, Addressed) EXCEPT !.buttons = {"delete"}]
PeriodForm         == RecordForm(TRUE, Numbered)
FiscalYearForm     == RecordForm(TRUE, Numbered)
UserForm           == RecordForm(FALSE, Numbered)

DocumentDetail(buttons) == DetailPage(2, {"post", "unpost", "delete"} \cup buttons)
InvoiceDetail           == DocumentDetail({})
BillDetail              == DocumentDetail({})
CreditNoteDetail        == DocumentDetail({"apply"})
SupplierCreditDetail    == DocumentDetail({"apply"})
PaymentDetail           == DetailPage(2, {"post", "apply", "unpost", "delete"})
CustomerPaymentDetail   == PaymentDetail
SupplierPaymentDetail   == PaymentDetail
StockMovementDetail ==
    [DetailPage(1, {"post", "unpost", "delete"}) EXCEPT !.catches = FALSE]

BankStatementDetail == DetailPage(2, {"amend", "post", "unpost", "delete"})
FiscalYearClose    == DetailPage(1, {"close"})

AccountLedger      == View(2, TRUE)
ProfitAndLoss      == View(1, TRUE)
CashFlow           == View(1, TRUE)
BalanceSheet       == View(1, TRUE)
JournalEntryDetail == View(1, FALSE)

Dashboard          == ListOf(2)
DocumentList       == ListOf(2)
Invoices           == DocumentList
Bills              == DocumentList
CreditNotes        == DocumentList
SupplierCredits    == DocumentList
OrderList          == ListOf(2)
SalesOrders        == OrderList
PurchaseOrders     == OrderList
PaymentList        == ListOf(2)
CustomerPayments   == PaymentList
SupplierPayments   == PaymentList
StockMovements     == ListOf(2)
Customers          == ListOf(2)
Suppliers          == ListOf(2)
BankStatements     == ListOf(1)
ExchangeRates      == ListOf(2)
TrialBalance       == ListOf(1)
InventoryValuation == ListOf(1)
AgingReport        == ListOf(1)
ARAging            == AgingReport
APAging            == AgingReport
Products           == ListOf(1)
ChartOfAccounts    == ListOf(1)
Users              == ListOf(1)
Organizations      == ListOf(1)
TaxCodes           == ListOf(1)
PaymentTerms       == ListOf(1)
Warehouses         == ListOf(1)

AllScreens ==
    {InvoiceForm, BillForm, CreditNoteForm, SupplierCreditForm, SalesOrderForm,
     PurchaseOrderForm, CustomerPaymentForm, SupplierPaymentForm, StockMovementForm,
     AccountForm, CustomerForm, SupplierForm, ProductForm, OrganizationForm,
     WarehouseForm, TaxCodeForm, PaymentTermForm, BankStatementForm, ExchangeRateForm,
     PeriodForm, FiscalYearForm, UserForm,
     InvoiceDetail, BillDetail, CreditNoteDetail, SupplierCreditDetail,
     CustomerPaymentDetail, SupplierPaymentDetail, StockMovementDetail,
     BankStatementDetail, FiscalYearClose,
     AccountLedger, ProfitAndLoss, CashFlow, BalanceSheet, JournalEntryDetail,
     Dashboard, Invoices, Bills, CreditNotes, SupplierCredits, SalesOrders, PurchaseOrders,
     CustomerPayments, SupplierPayments, StockMovements, Customers, Suppliers,
     BankStatements, ExchangeRates, TrialBalance, InventoryValuation, ARAging, APAging,
     Products, ChartOfAccounts, Users, Organizations, TaxCodes, PaymentTerms, Warehouses}

-----------------------------------------------------------------------------
(* Addresses, contents, requests. *)

Url(mode, id) == [mode |-> mode, id |-> id]
Away == Url("away", 0)
Urls == CASE screen.kind \in {"draft", "record"} ->
               {Url("create", 0)} \cup {Url("edit", r) : r \in Records}
          [] screen.kind = "list" -> {Url("view", Min(Records))}
          [] OTHER                -> {Url("view", r) : r \in Records}

\* What the inputs hold or the page displays: the record it was read from, the
\* record the contents are about (0: a record yet to be created), the versions
\* of the header and the lines, the status.
Blank == [from |-> 0, about |-> 0, head |-> 0, lines |-> 0, status |-> "none"]

\* Nothing mounted; page.least and page.crossed are remembered for FreshPage:
\* the version the record had when the page last had reason to know it, and
\* whether an action and a change of address have overlapped.
Closed == [at |-> Away, ready |-> FALSE, shows |-> Blank, error |-> FALSE, busy |-> FALSE,
           failed |-> FALSE, least |-> 0, crossed |-> FALSE]

NoCall == [kind |-> "none", rec |-> 0, todo |-> {}, got |-> Blank, mine |-> FALSE, at |-> "sent"]
Writes == {"save", "amend", "post", "apply", "unpost", "delete", "close"}

\* What the files say of any screen: only a detail page has buttons that leave
\* it where it is.
Descriptions ==
    [kind : {"draft", "record", "detail", "view", "list"}, gets : {1, 2}, lists : BOOLEAN,
     keys : SUBSET Numbered, refuses : SUBSET {"posted", "linked"},
     buttons : SUBSET (Writes \ {"save"}), clears : BOOLEAN, catches : BOOLEAN]
ASSUME DescriptionsAssumption ==
    /\ Screens \subseteq Descriptions
    /\ \A d \in Screens : d.kind # "detail" => d.buttons \subseteq {"delete"}

Parts == IF screen.gets = 2 THEN {"head", "lines"} ELSE {"head"}

LoadCall(kind, id) ==
    [NoCall EXCEPT !.kind = kind, !.rec = id, !.todo = IF id = 0 THEN {} ELSE Parts]
WriteCall(kind, id, about) ==
    [NoCall EXCEPT !.kind = kind, !.rec = id, !.got.about = about, !.mine = TRUE]

Free == {s \in Slots : calls[s] = NoCall}
FreeSlot == CHOOSE s \in Free : \A t \in Free : s <= t
Sent(cs, c) == [cs EXCEPT ![FreeSlot] = c]

\* Variant of Cancelled: the clean-up of an effect does nothing.
NotCancelled == calls

\* The clean-up of the effect sets cancelled: the answer will change nothing.
Cancelled == [s \in Slots |-> IF calls[s].kind = "load" THEN NoCall ELSE calls[s]]

\* Variant of Disowned: the component's loads go on as well.
DisownedLate == [s \in Slots |-> [calls[s] EXCEPT !.mine = FALSE]]

\* The component is gone: of its requests only the writes still do anything.
Disowned ==
    [s \in Slots |-> IF calls[s].kind \in Writes THEN [calls[s] EXCEPT !.mine = FALSE] ELSE NoCall]

-----------------------------------------------------------------------------
(* The user moves. *)

\* The effect of a form for a new record that offers no lists has no request.
Fetches(u) == u.mode # "create" \/ screen.lists

\* The screens whose actions end in another load.
Acts == screen.kind = "detail"

\* Variant of Entered: the effect enables the buttons again.
EnteredIdle(p, u) ==
    [p EXCEPT !.at = u, !.least = IF u.id = 0 THEN 0 ELSE row[u.id].version, !.crossed = Acts /\ p.busy,
              !.ready = p.ready \/ ~Fetches(u), !.shows = IF Fetches(u) THEN p.shows ELSE Blank,
              !.busy = FALSE]

Entered(p, u) ==
    [p EXCEPT !.at = u, !.least = IF u.id = 0 THEN 0 ELSE row[u.id].version, !.crossed = Acts /\ p.busy,
              !.ready = p.ready \/ ~Fetches(u), !.shows = IF Fetches(u) THEN p.shows ELSE Blank]

\* A link or the address bar mounts the component and runs its effect.
Open(u) ==
    /\ page.at = Away /\ (Fetches(u) => Free # {})
    /\ page' = Entered(Closed, u)
    /\ calls' = IF Fetches(u) THEN Sent(calls, LoadCall("load", u.id)) ELSE calls
    /\ UNCHANGED <<screen, row>>

\* The address changes within the component's routes: the effect is cleaned up
\* and runs again, and every other state of the component stays.
Go(u) ==
    /\ page.at \notin {Away, u} /\ (Fetches(u) => Free # {})
    /\ page' = Entered(page, u)
    /\ calls' = IF Fetches(u) THEN Sent(Cancelled, LoadCall("load", u.id)) ELSE Cancelled
    /\ UNCHANGED <<screen, row>>

\* The user cancels, follows a link, goes back.
Leave == page.at # Away /\ page' = Closed /\ calls' = Disowned /\ UNCHANGED <<screen, row>>

-----------------------------------------------------------------------------
(* A load. *)

Took(c, part) ==
    LET r == row[c.rec]
        head == [c.got EXCEPT !.from = c.rec, !.about = r.about, !.head = r.version, !.status = r.status]
    IN
    [c EXCEPT !.todo = @ \ {part},
              !.got = IF part = "lines" THEN [c.got EXCEPT !.lines = r.version]
                      ELSE IF screen.gets = 1 THEN [head EXCEPT !.lines = r.version] ELSE head]

\* The server answers one of the requests of a load.
Read(s, part) ==
    /\ part \in calls[s].todo /\ row[calls[s].rec].status # "gone"
    /\ calls' = [calls EXCEPT ![s] = Took(calls[s], part)]
    /\ UNCHANGED <<screen, page, row>>

Answered(s) == calls[s].todo = {} /\ calls[s].kind # "none"

Declined(c) ==
    /\ c.rec # 0
    /\ \/ "posted" \in screen.refuses /\ c.got.status = "posted"
       \/ "linked" \in screen.refuses /\ c.rec \in Linked

\* A form of fields leaves them alone when there is no record to load.
Filled(p, c) ==
    [p EXCEPT !.ready = TRUE, !.error = @ /\ ~screen.clears,
              !.shows = IF screen.kind = "draft" /\ c.rec = 0 THEN @
                        ELSE IF Acts THEN c.got ELSE [c.got EXCEPT !.status = "none"]]

Loaded(s) ==
    /\ Answered(s) /\ calls[s].kind = "load"
    /\ page' = IF Declined(calls[s]) THEN [page EXCEPT !.error = TRUE] ELSE Filled(page, calls[s])
    /\ calls' = [calls EXCEPT ![s] = NoCall]
    /\ UNCHANGED <<screen, row>>

\* Variant of LoadFails: the failure is not caught.
LoadFailsUnseen(s) ==
    /\ calls[s].kind = "load"
    /\ calls' = [calls EXCEPT ![s] = NoCall]
    /\ UNCHANGED <<screen, page, row>>

LoadFails(s) ==
    /\ calls[s].kind = "load"
    /\ page' = [page EXCEPT !.error = TRUE]
    /\ calls' = [calls EXCEPT ![s] = NoCall]
    /\ UNCHANGED <<screen, row>>

-----------------------------------------------------------------------------
(* A write. *)

Shown == page.ready /\ (screen.kind = "draft" => ~page.error)

\* The bound: nothing is asked for that could exceed it.
Asked == Cardinality({s \in Slots : calls[s].kind \in Writes /\ calls[s].at = "sent"})
Done == MapThenSumSet(LAMBDA r : row[r].version, Ids)
MayWrite == Done + Asked < MaxWrites
Unborn == {n \in NewIds : row[n].status = "none"}

Start(kind, about) ==
    /\ ~page.busy /\ Shown /\ Free # {} /\ MayWrite
    /\ page' = [page EXCEPT !.busy = TRUE, !.failed = FALSE,
                            !.crossed = @ \/ (Acts /\ \E s \in Slots : calls[s].kind = "load")]
    /\ calls' = Sent(calls, WriteCall(kind, page.at.id, about))
    /\ UNCHANGED <<screen, row>>

\* handleSubmit: whatever the inputs hold goes to the record of the address.
Submit == screen.kind \in {"draft", "record"} /\ page.at # Away /\ Start("save", page.shows.about)

\* runAction, runDelete: the buttons that the status displayed allows.
Press(button) ==
    /\ button \in screen.buttons /\ page.at # Away /\ page.at.id # 0
    /\ CASE button \in {"amend", "post", "delete", "close"} -> page.shows.status = "draft" \/ screen.kind = "record"
         [] OTHER -> page.shows.status = "posted"
    /\ Start(button, 0)

\* No other row has the key the write carries.
KeyFree(id, about, write) ==
    write \in screen.keys =>
        \A r \in Ids \ {id} : row[r].status \in {"draft", "posted"} => row[r].about # about

Change(r, status, about) ==
    row' = [row EXCEPT ![r] = [status |-> status, about |-> about, version |-> row[r].version + 1]]

\* The handler of a write, in one transaction.  The documents whose forms decline
\* one drawn from an order are those whose update refuses it.
Handle(c) ==
    IF c.kind = "save" /\ c.rec = 0
    THEN LET n == CHOOSE n \in Unborn : \A m \in Unborn : n <= m IN
         KeyFree(n, c.got.about, "create") /\ Change(n, "draft", c.got.about)
    ELSE LET r == row[c.rec] IN
         CASE c.kind = "save"   -> /\ r.status = "draft" /\ ("linked" \in screen.refuses => c.rec \notin Linked)
                                   /\ KeyFree(c.rec, c.got.about, "update")
                                   /\ Change(c.rec, "draft", c.got.about)
           [] c.kind = "amend"  -> r.status = "draft" /\ Change(c.rec, "draft", r.about)
           [] c.kind \in {"post", "close"} -> r.status = "draft" /\ Change(c.rec, "posted", r.about)
           [] c.kind = "apply"  -> r.status = "posted" /\ Change(c.rec, "posted", r.about)
           [] c.kind = "unpost" -> r.status = "posted" /\ Change(c.rec, "draft", r.about)
           [] c.kind = "delete" -> r.status = "draft" /\ Change(c.rec, "gone", r.about)

\* The page has reason to know the version its own action made.
Serve(s) ==
    /\ calls[s].kind \in Writes /\ calls[s].at = "sent"
    /\ Handle(calls[s])
    /\ calls' = [calls EXCEPT ![s].at = "done"]
    /\ page' = IF calls[s].mine /\ page.at.id = calls[s].rec /\ Acts
               THEN [page EXCEPT !.least = row'[calls[s].rec].version] ELSE page
    /\ UNCHANGED screen

\* The answer takes the tab to another screen, from wherever it is by then.
Navigates(s) ==
    /\ calls[s].at = "done" /\ calls[s].kind \in {"save", "delete", "close"}
    /\ page' = Closed
    /\ calls' = [Disowned EXCEPT ![s] = NoCall]
    /\ UNCHANGED <<screen, row>>

\* .then(load): the record of the address the action was taken at, read again.
Acted(s) ==
    /\ calls[s].at = "done" /\ calls[s].kind \in {"amend", "post", "apply", "unpost"}
    /\ calls' = [calls EXCEPT ![s] = IF calls[s].mine THEN LoadCall("reload", calls[s].rec) ELSE NoCall]
    /\ UNCHANGED <<screen, page, row>>

\* No effect guards this one: it shows what it read at whatever address.
Reloaded(s) ==
    /\ Answered(s) /\ calls[s].kind = "reload"
    /\ page' = [page EXCEPT !.ready = TRUE, !.shows = calls[s].got, !.busy = FALSE]
    /\ calls' = [calls EXCEPT ![s] = NoCall]
    /\ UNCHANGED <<screen, row>>

\* Variant of Fails: the promise chain has no handler of its own.
FailsUnhandled(s) ==
    /\ calls[s].kind \in Writes \cup {"reload"}
    /\ calls' = [calls EXCEPT ![s] = NoCall]
    /\ UNCHANGED <<screen, page, row>>

\* The server refuses, or the network loses the request or its answer.
Fails(s) ==
    LET c == calls[s] IN
    /\ c.kind \in Writes \cup {"reload"}
    /\ page' = IF \/ c.kind = "reload" /\ screen.catches
                  \/ c.kind # "reload" /\ c.mine
               THEN [page EXCEPT !.busy = FALSE, !.failed = Acts] ELSE page
    /\ calls' = [calls EXCEPT ![s] = NoCall]
    /\ UNCHANGED <<screen, row>>

\* Other users, in other tabs.
Others(r) ==
    /\ MayWrite
    /\ \/ row[r].status = "draft" /\ Change(r, "draft", row[r].about)
       \/ row[r].status = "draft" /\ screen.kind # "record" /\ Change(r, "posted", row[r].about)
       \/ row[r].status = "posted" /\ Change(r, "draft", row[r].about)
       \/ row[r].status = "draft" /\ screen.kind # "list" /\ Change(r, "gone", row[r].about)
    /\ UNCHANGED <<screen, page, calls>>

-----------------------------------------------------------------------------
Init ==
    /\ screen \in Screens
    /\ page = Closed
    /\ calls = [s \in Slots |-> NoCall]
    /\ row = [r \in Ids |-> [status |-> IF r \in Records THEN "draft" ELSE "none",
                             about |-> IF r \in Records THEN r ELSE 0, version |-> 0]]

User == Leave \/ Submit \/ (\E u \in Urls : Open(u) \/ Go(u)) \/ (\E b \in screen.buttons : Press(b))

Progress(s) ==
    \/ \E part \in Parts : Read(s, part)
    \/ Loaded(s) \/ LoadFails(s) \/ Serve(s) \/ Navigates(s) \/ Acted(s) \/ Reloaded(s) \/ Fails(s)

Next == User \/ (\E s \in Slots : Progress(s)) \/ (\E r \in Records : Others(r))

\* A request is answered or fails in the end; a user need not do anything.
Spec == Init /\ [][Next]_vars /\ \A s \in Slots : WF_vars(Progress(s))

-----------------------------------------------------------------------------
(* Properties. *)

Versions == 0..MaxWrites
Statuses == {"none", "draft", "posted", "gone"}
ContentsType == [from : {0} \cup Records, about : {0} \cup Records, head : Versions, lines : Versions,
                 status : Statuses]

\* Rows, page and requests have the shapes of the tables and of the component
\* state, and a component that is gone has none.
TypeOK ==
    /\ page \in [at : {Away} \cup Urls, ready : BOOLEAN, shows : ContentsType, error : BOOLEAN,
                 busy : BOOLEAN, failed : BOOLEAN, least : Versions, crossed : BOOLEAN]
    /\ calls \in [Slots -> [kind : {"none", "load", "reload"} \cup Writes, rec : {0} \cup Records,
                            todo : SUBSET {"head", "lines"}, got : ContentsType,
                            mine : BOOLEAN, at : {"sent", "done"}]]
    /\ row \in [Ids -> [status : Statuses, about : {0} \cup Records, version : Versions]]
    /\ page.at = Away => page = Closed /\ \A s \in Slots : calls[s].kind \in Writes \cup {"none"}

\* Once nothing is loading and no error is displayed, the page shows the record
\* of its address, header and lines no older than when the user came to it or
\* than its own last action, in whatever order earlier requests are answered.
\* Excepted is a detail page whose address changed while its action ran, or
\* whose button was pressed before the new record had loaded: the reload that
\* follows the action is not cancelled, and does not cancel the load.
FreshPage ==
    /\ page.at.id # 0 /\ page.ready /\ ~page.error /\ ~page.busy
    /\ \A s \in Slots : calls[s].kind \notin {"load", "reload"}
    /\ Acts => ~page.failed /\ ~page.crossed
    => /\ page.shows.from = page.at.id
       /\ page.shows.head >= page.least /\ page.shows.lines >= page.least

\* A request whose answer ends the action the page has under way.
Pending(s) == calls[s].kind = "reload" \/ (calls[s].kind \in Writes /\ calls[s].mine)

\* A mounted screen has one action under way at most, its reload included, and
\* keeps its buttons disabled until that has ended: wherever its address moves
\* meanwhile, a second press sends nothing, and no answer but that of the action
\* itself enables them, be it late, a failure, or that of an earlier visit.
OneActionAtATime ==
    \A s \in Slots : Pending(s) => page.busy /\ \A t \in Slots : Pending(t) => s = t

\* "Loading..." does not stay: the record appears, or an error, or the user goes.
Waiting(u) == page.at = u /\ ~page.ready /\ ~page.error
LoadingEnds ==
    \A u \in {Url("create", 0)} \cup {Url(m, r) : m \in {"edit", "view"}, r \in Records} :
        Waiting(u) ~> ~Waiting(u)

\* A button that was pressed is not disabled for ever, on every screen that
\* handles all its failures.
BusyEnds == (page.busy /\ screen.catches) ~> ~page.busy

\* "In edit mode the form loads an existing movement and rewrites it": a record
\* is never given the contents of another.
OwnContents == \A r \in Records : row[r].about = r

=============================================================================
