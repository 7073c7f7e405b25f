------------------------------ MODULE Subledger ------------------------------
(***************************************************************************)
(* The subledgers and the general ledger they post into: invoices, bills,  *)
(* credit notes, payments and stock movements that are drafted, posted,    *)
(* applied to one another and unposted, and the journal that records it.   *)
(*                                                                         *)
(* Every handler runs in one database transaction (db.WithTx), and this    *)
(* module takes each transaction as one step: it says what the operations  *)
(* do when requests do not overlap.  ConcurrentPosting interleaves the     *)
(* statements of overlapping transactions.                                 *)
(*                                                                         *)
(* Money is counted in units of the fourth decimal, a rate is a numerator  *)
(* over RateScale, a date stands for one calendar month.  Configuration    *)
(* accounts (party control accounts, revenue, tax, ...) are taken as set,  *)
(* and the detail lines of a document share one account.                   *)
(*                                                                         *)
(* The database's deferred triggers (an entry balances, nothing is over-   *)
(* applied, both ends of an application are posted) are not guards here:   *)
(* they are invariants, which shows that between whole transactions they   *)
(* never have anything to refuse.                                          *)
(***************************************************************************)
EXTENDS Integers, Sequences, FiniteSets, FiniteSetsExt, Functions

CONSTANTS
    Docs,          \* document ids, over every kind
    Kind,          \* what each document is
    Party,         \* the customer or supplier of each document
    Foreign,       \* the documents in the foreign currency (others are in base)
    Inputs,        \* what a client may write into each document
    Dates,         \* calendar months, in order
    Rates,         \* the exchange rates an administrator may enter
    RateScale,     \* the rate 1
    MaxEntries,    \* bound on the length of the journal
    MaxMatched     \* bound on the entries matched on bank statements

VARIABLES
    doc,           \* the document tables
    apps,          \* payment_applications and its three mirrors
    journal,       \* journal_entries with their journal_lines, by id
    rates,         \* exchange_rates: date -> rate, 0 when there is no row
    period,        \* accounting_periods: date -> status, "none" without a row
    fxAccount,     \* gl_settings.fx_gain_loss_account_id is set
    matched        \* entries with a line matched on a bank statement

vars == <<doc, apps, journal, rates, period, fxAccount, matched>>

Kinds == {"sales_invoice", "purchase_bill", "sales_credit_note",
          "purchase_credit_note", "customer_payment", "supplier_payment",
          "issue", "receipt"}

Accounts == {"ar", "ap", "cash", "revenue", "expense", "tax", "fx",
             "inventory", "cogs", "grni"}

Payments == {"customer_payment", "supplier_payment"}
Movements == {"issue", "receipt"}
Settlers == Payments \cup {"sales_credit_note", "purchase_credit_note"}

\* A document's money: the line subtotals and the line taxes of an invoice, a
\* bill or a note (either may be negative), the positive amount of a payment,
\* the absolute cost of a stock movement.
Contents(k) ==
    [date : Dates,
     net  : IF k \in Payments THEN Nat \ {0} ELSE IF k \in Movements THEN Nat ELSE Int,
     tax  : IF k \in Payments \cup Movements THEN {0} ELSE Int]

ASSUME SubledgerAssumption ==
    /\ Docs \subseteq Nat
    /\ IsFiniteSet(Docs)
    /\ Kind \in [Docs -> Kinds]
    /\ Foreign \subseteq {d \in Docs : Kind[d] \notin Movements}
    /\ \A d \in Docs : Inputs[d] \subseteq Contents(Kind[d])
    /\ Dates \subseteq Nat
    /\ Rates \subseteq Nat \ {0}
    /\ RateScale \in Nat \ {0}
    /\ MaxEntries \in Nat
    /\ MaxMatched \in Nat

-----------------------------------------------------------------------------
(* Arithmetic and journal entries. *)

\* Postgres round(numeric, 4): half away from zero.
RoundDiv(n, d) ==
    IF n >= 0 THEN (2 * n + d) \div (2 * d) ELSE -((2 * (-n) + d) \div (2 * d))

\* A transaction amount in base currency at rate r.
Convert(a, r) == RoundDiv(a * r, RateScale)

\* A journal line, debit positive, in the entry's currency and in base; an
\* account an entry does not touch has no line.
Line(a, b) == [amount |-> a, base |-> b]
NoLine == Line(0, 0)

Entry(date, rate, lines, reverses) ==
    [date |-> date, rate |-> rate, lines |-> lines, reverses |-> reverses]

Total(f) == f["ar"] + f["ap"] + f["cash"] + f["revenue"] + f["expense"]
          + f["tax"] + f["fx"] + f["inventory"] + f["cogs"] + f["grni"]
Amounts(lines) == [a \in Accounts |-> lines[a].amount]
Bases(lines)   == [a \in Accounts |-> lines[a].base]

\* The row checks on journal_lines and the deferred balance trigger: a posted
\* entry has lines, balances in both currencies, and no base amount sits on
\* the opposite side of its transaction amount.
EntryOK(lines) ==
    /\ \E a \in Accounts : lines[a].amount # 0
    /\ Total(Amounts(lines)) = 0
    /\ Total(Bases(lines)) = 0
    /\ \A a \in Accounts : /\ lines[a].base > 0 => lines[a].amount > 0
                           /\ lines[a].base < 0 => lines[a].amount < 0

\* The rate of the latest exchange_rates row on or before a date, 0 without.
RateOn(date) ==
    LET known == {t \in Dates : t <= date /\ rates[t] # 0}
    IN  IF known = {} THEN 0 ELSE rates[CHOOSE t \in known : \A u \in known : u <= t]

\* The rate createEntry records: 1 in base currency, else the latest rate.
EntryRate(d) == IF d \in Foreign THEN RateOn(doc[d].date) ELSE RateScale

\* periodForDate: an open period is used, a missing one is created open (the
\* fiscal year covering it is open here), a closed one refuses.
PeriodFor(date) == period[date] # "closed"
TouchPeriod(date) == period' = [period EXCEPT ![date] = "open"]

\* The journal once n entries entryOf[x], x \in S, are inserted with ids pos[x].
\* Where the code orders the insertions it says so of pos.
Room == MaxEntries - Len(journal)
NewIds(n) == (Len(journal) + 1)..(Len(journal) + n)
Extended(n, S, pos, entryOf) ==
    [i \in 1..(Len(journal) + n) |->
        IF i <= Len(journal) THEN journal[i] ELSE entryOf[CHOOSE x \in S : pos[x] = i]]

-----------------------------------------------------------------------------
(* Drafts. *)

\* No row: not yet inserted ("absent") or removed ("deleted"; ids are not reused).
NoDoc(status) == [status |-> status, date |-> 0, net |-> 0, tax |-> 0, entry |-> 0]
Draft(in) == [status |-> "draft", date |-> in.date, net |-> in.net,
              tax |-> in.tax, entry |-> 0]
Gross(d) == doc[d].net + doc[d].tax

Ledger == <<apps, journal, rates, period, fxAccount, matched>>

\* Variant of IsDraft: any stored document passes.
IsStored(d) == doc[d].status \in {"draft", "posted"}

\* The WHERE status = 'draft' of every update and delete, and the draft check of
\* every post.
IsDraft(d) == doc[d].status = "draft"

Create(d, k) ==
    /\ Kind[d] = k
    /\ doc[d].status = "absent"
    /\ \E in \in Inputs[d] : doc' = [doc EXCEPT ![d] = Draft(in)]
    /\ UNCHANGED Ledger

\* An update replaces the header and the whole line set of a draft.
Update(d, k) ==
    /\ Kind[d] = k
    /\ IsDraft(d)
    /\ \E in \in Inputs[d] : doc' = [doc EXCEPT ![d] = Draft(in)]
    /\ UNCHANGED Ledger

Delete(d, k) ==
    /\ Kind[d] = k
    /\ IsDraft(d)
    /\ doc' = [doc EXCEPT ![d] = NoDoc("deleted")]
    /\ UNCHANGED Ledger

CreateSalesInvoice(d)        == Create(d, "sales_invoice")
CreatePurchaseBill(d)        == Create(d, "purchase_bill")
CreateSalesCreditNote(d)     == Create(d, "sales_credit_note")
CreatePurchaseCreditNote(d)  == Create(d, "purchase_credit_note")
CreateCustomerPayment(d)     == Create(d, "customer_payment")
CreateSupplierPayment(d)     == Create(d, "supplier_payment")
CreateStockMovement(d)       == \E k \in Movements : Create(d, k)

UpdateSalesInvoice(d)        == Update(d, "sales_invoice")
UpdatePurchaseBill(d)        == Update(d, "purchase_bill")
UpdateSalesCreditNote(d)     == Update(d, "sales_credit_note")
UpdatePurchaseCreditNote(d)  == Update(d, "purchase_credit_note")
UpdateCustomerPayment(d)     == Update(d, "customer_payment")
UpdateSupplierPayment(d)     == Update(d, "supplier_payment")
UpdateStockMovement(d)       == \E k \in Movements : Update(d, k)

DeleteSalesInvoice(d)        == Delete(d, "sales_invoice")
DeletePurchaseBill(d)        == Delete(d, "purchase_bill")
DeleteSalesCreditNote(d)     == Delete(d, "sales_credit_note")
DeletePurchaseCreditNote(d)  == Delete(d, "purchase_credit_note")
DeleteCustomerPayment(d)     == Delete(d, "customer_payment")
DeleteSupplierPayment(d)     == Delete(d, "supplier_payment")
DeleteStockMovement(d)       == \E k \in Movements : Delete(d, k)

-----------------------------------------------------------------------------
(* Posting: one journal entry per document, dated on the document. *)

\* Variant of DocumentLines: the control line converts the gross itself.
GrossConvertedLines(d, control, side, detail) ==
    LET net == doc[d].net
        tax == doc[d].tax
        Base(a) == Convert(a, EntryRate(d))
    IN  [a \in Accounts |->
            CASE a = control -> Line(side * (net + tax), side * Base(net + tax))
              [] a = detail  -> Line(-side * net, -side * Base(net))
              [] a = "tax"   -> Line(-side * tax, -side * Base(tax))
              [] OTHER       -> NoLine]

\* The control account takes the gross on `side` (1 debit, -1 credit), the
\* detail and tax accounts the other side.  Details convert by rounding; the
\* control line's base is the sum of the converted details.
DocumentLines(d, control, side, detail) ==
    LET Base(a) == Convert(a, EntryRate(d))
        net == doc[d].net
        tax == doc[d].tax
    IN  [a \in Accounts |->
            CASE a = control -> Line(side * (net + tax), side * (Base(net) + Base(tax)))
              [] a = detail  -> Line(-side * net, -side * Base(net))
              [] a = "tax"   -> Line(-side * tax, -side * Base(tax))
              [] OTHER       -> NoLine]

Post(d, k, control, side, detail) ==
    /\ Kind[d] = k
    /\ IsDraft(d)
    /\ Gross(d) > 0
    /\ PeriodFor(doc[d].date)
    /\ EntryRate(d) # 0
    /\ Len(journal) < MaxEntries
    /\ journal' = Append(journal, Entry(doc[d].date, EntryRate(d),
                                       DocumentLines(d, control, side, detail), 0))
    /\ doc' = [doc EXCEPT ![d].status = "posted", ![d].entry = Len(journal) + 1]
    /\ TouchPeriod(doc[d].date)
    /\ UNCHANGED <<apps, rates, fxAccount, matched>>

PostSalesInvoice(d)        == Post(d, "sales_invoice", "ar", 1, "revenue")
PostPurchaseBill(d)        == Post(d, "purchase_bill", "ap", -1, "expense")
PostSalesCreditNote(d)     == Post(d, "sales_credit_note", "ar", -1, "revenue")
PostPurchaseCreditNote(d)  == Post(d, "purchase_credit_note", "ap", 1, "expense")
PostCustomerPayment(d)     == Post(d, "customer_payment", "ar", -1, "cash")
PostSupplierPayment(d)     == Post(d, "supplier_payment", "ap", 1, "cash")
PostInventoryIssue(d)      == Post(d, "issue", "inventory", -1, "cogs")
PostInventoryReceipt(d)    == Post(d, "receipt", "inventory", 1, "grni")

-----------------------------------------------------------------------------
(* Applications: settling invoices with payments and notes, bills likewise. *)

Settles(k) == IF k \in {"customer_payment", "sales_credit_note"} THEN "sales_invoice"
              ELSE "purchase_bill"

AppsOf(s) == {a \in apps : a.settler = s}
AppsTo(t) == {a \in apps : a.target = t}
SumApplied(A) == MapThenSumSet(LAMBDA a : a.amount, A)

\* Variant of Available: credit notes are not counted.
AvailableToPayments(t) ==
    Gross(t) - SumApplied({a \in AppsTo(t) : Kind[a.settler] \in Payments})

Remaining(s) == Gross(s) - SumApplied(AppsOf(s))
Available(t) == Gross(t) - SumApplied(AppsTo(t))

\* The posted documents of the settler's party and currency with a balance.
OpenDocs(s) ==
    {t \in Docs : /\ Kind[t] = Settles(Kind[s])
                  /\ doc[t].status = "posted"
                  /\ Party[t] = Party[s]
                  /\ (t \in Foreign <=> s \in Foreign)
                  /\ Available(t) > 0}

\* Variant of Older: ORDER BY ... DESC.
Newer(t, u) == doc[t].date > doc[u].date \/ (doc[t].date = doc[u].date /\ t > u)

Older(t, u) == doc[t].date < doc[u].date \/ (doc[t].date = doc[u].date /\ t < u)

\* Variant of Allocation: the window frame includes the current row.
AllocationAfterCurrent(s, t) ==
    LET prior == MapThenSumSet(Available, {u \in OpenDocs(s) : Older(u, t) \/ u = t})
        left  == IF Remaining(s) > prior THEN Remaining(s) - prior ELSE 0
    IN  IF left < Available(t) THEN left ELSE Available(t)

\* What one INSERT ... SELECT gives document t: oldest first, each its balance
\* until the remainder runs out.
Allocation(s, t) ==
    LET prior == MapThenSumSet(Available, {u \in OpenDocs(s) : Older(u, t)})
        left  == IF Remaining(s) > prior THEN Remaining(s) - prior ELSE 0
    IN  IF left < Available(t) THEN left ELSE Available(t)

\* Variant of NewApps: WHERE amount > 0 is dropped.
NewAppsOfAll(s) ==
    {[settler |-> s, target |-> t, amount |-> Allocation(s, t), fx |-> 0] : t \in OpenDocs(s)}

NewApps(s) ==
    {[settler |-> s, target |-> t, amount |-> Allocation(s, t), fx |-> 0] :
        t \in {u \in OpenDocs(s) : Allocation(s, u) \in Nat \ {0}}}

\* Variant of Difference: at the rates the table holds now.
DifferenceToday(a) == Convert(a.amount, RateOn(doc[a.settler].date))
                    - Convert(a.amount, RateOn(doc[a.target].date))

\* Realized exchange difference of an application, at the two entries' rates.
Difference(a) == Convert(a.amount, journal[doc[a.settler].entry].rate)
               - Convert(a.amount, journal[doc[a.target].entry].rate)

\* Variant of FxEntry: both sides book the difference with the same sign.
FxEntryUnsigned(a) ==
    LET control == IF Settles(Kind[a.settler]) = "sales_invoice" THEN "ar" ELSE "ap"
        v       == Difference(a)
    IN  Entry(doc[a.settler].date, RateScale,
              [c \in Accounts |-> CASE c = control -> Line(v, v)
                                   [] c = "fx"    -> Line(-v, -v)
                                   [] OTHER       -> NoLine], 0)

\* Variant of FxEntry: dated on the settled document.
FxEntryOnTarget(a) == [FxEntryUnsigned(a) EXCEPT !.date = doc[a.target].date]

\* The base-currency entry that books it, on the settlement date: a positive
\* difference debits A/R, or credits A/P, against the exchange account.
FxEntry(a) ==
    LET arSide  == Settles(Kind[a.settler]) = "sales_invoice"
        control == IF arSide THEN "ar" ELSE "ap"
        v       == IF arSide THEN Difference(a) ELSE -Difference(a)
    IN  Entry(doc[a.settler].date, RateScale,
              [c \in Accounts |-> CASE c = control -> Line(v, v)
                                   [] c = "fx"    -> Line(-v, -v)
                                   [] OTHER       -> NoLine], 0)

AutoApply(s, k) ==
    LET inserted == NewApps(s)
        fxApps   == {a \in AppsOf(s) \cup inserted : a.fx = 0 /\ Difference(a) # 0}
    IN  /\ Kind[s] = k
        /\ doc[s].status = "posted"
        \* UNIQUE (settler, target): a second application of a pair fails.
        /\ \A a \in inserted, b \in AppsOf(s) : a.target # b.target
        /\ fxApps # {} => fxAccount /\ PeriodFor(doc[s].date)
        /\ \E n \in 0..Room : \E pos \in Bijection(fxApps, NewIds(n)) :
              /\ journal' = Extended(n, fxApps, pos, [a \in fxApps |-> FxEntry(a)])
              /\ apps' = ((apps \cup inserted) \ fxApps)
                         \cup {[a EXCEPT !.fx = pos[a]] : a \in fxApps}
        /\ IF fxApps = {} THEN UNCHANGED period ELSE TouchPeriod(doc[s].date)
        /\ UNCHANGED <<doc, rates, fxAccount, matched>>

AutoApplyCustomerPayment(s)    == AutoApply(s, "customer_payment")
AutoApplySupplierPayment(s)    == AutoApply(s, "supplier_payment")
AutoApplySalesCreditNote(s)    == AutoApply(s, "sales_credit_note")
AutoApplyPurchaseCreditNote(s) == AutoApply(s, "purchase_credit_note")

-----------------------------------------------------------------------------
(* Unposting: the entry stays and a mirror of it is posted. *)

\* Variant of Mirror: at the rate the table holds now.
MirrorToday(e) == Entry(journal[e].date, RateOn(journal[e].date),
                        [a \in Accounts |-> Line(-journal[e].lines[a].amount,
                                                 -journal[e].lines[a].base)], e)

Mirror(e) == Entry(journal[e].date, journal[e].rate,
                   [a \in Accounts |-> Line(-journal[e].lines[a].amount,
                                            -journal[e].lines[a].base)], e)

Reversed(e) == \E f \in 1..Len(journal) : journal[f].reverses = e

\* reverseEntry for entry `first` and then for each entry of E: refused when
\* one is already reversed or has a line matched on a bank statement, or when
\* its period is closed.
ReverseEntries(first, rest) ==
  LET E == {first} \cup rest
  IN
    /\ \A e \in E : ~Reversed(e) /\ e \notin matched /\ PeriodFor(journal[e].date)
    /\ \E n \in 0..Room : \E pos \in Bijection(E, NewIds(n)) :
          /\ pos[first] = Len(journal) + 1
          /\ journal' = Extended(n, E, pos, [e \in E |-> Mirror(e)])
    /\ period' = [t \in Dates |-> IF \E e \in E : journal[e].date = t THEN "open" ELSE period[t]]

\* Variants: credit note applications are not looked for; the exchange entries
\* are left standing.
HasPaymentApplications(d) == \E a \in AppsTo(d) : Kind[a.settler] \in Payments
NoFxEntries(d) == {}

HasApplications(d) == AppsTo(d) \cup AppsOf(d) # {}
FxEntriesOf(d) == {a.fx : a \in AppsOf(d)} \ {0}

ToDraft(d) == doc' = [doc EXCEPT ![d].status = "draft", ![d].entry = 0]

\* Invoices, bills, notes and movements: refused while an application, of
\* either end, touches the document.
Unpost(d, k) ==
    /\ Kind[d] = k
    /\ doc[d].status = "posted"
    /\ ~HasApplications(d)
    /\ ReverseEntries(doc[d].entry, {})
    /\ ToDraft(d)
    /\ UNCHANGED <<apps, rates, fxAccount, matched>>

\* Payments: the exchange entries of their applications are reversed too and
\* the applications deleted.
UnpostPayment(d, k) ==
    /\ Kind[d] = k
    /\ doc[d].status = "posted"
    /\ ReverseEntries(doc[d].entry, FxEntriesOf(d))
    /\ apps' = apps \ AppsOf(d)
    /\ ToDraft(d)
    /\ UNCHANGED <<rates, fxAccount, matched>>

UnpostSalesInvoice(d)        == Unpost(d, "sales_invoice")
UnpostPurchaseBill(d)        == Unpost(d, "purchase_bill")
UnpostSalesCreditNote(d)     == Unpost(d, "sales_credit_note")
UnpostPurchaseCreditNote(d)  == Unpost(d, "purchase_credit_note")
UnpostCustomerPayment(d)     == UnpostPayment(d, "customer_payment")
UnpostSupplierPayment(d)     == UnpostPayment(d, "supplier_payment")
UnpostStockMovement(d)       == \E k \in Movements : Unpost(d, k)

-----------------------------------------------------------------------------
(* What surrounds the documents: rates, periods, settings, the bank. *)

Documents == <<doc, apps, journal>>

\* An administrator creates, changes or deletes (0) the rate of a date; posted
\* entries keep the rate they recorded.
SetExchangeRate(t, r) ==
    /\ rates[t] # r
    /\ rates' = [rates EXCEPT ![t] = r]
    /\ UNCHANGED <<Documents, period, fxAccount, matched>>

\* A period is created open, and opened or closed by editing it.
CreateAccountingPeriod(t) ==
    /\ period[t] = "none"
    /\ period' = [period EXCEPT ![t] = "open"]
    /\ UNCHANGED <<Documents, rates, fxAccount, matched>>

UpdateAccountingPeriod(t, status) ==
    /\ period[t] \notin {"none", status}
    /\ period' = [period EXCEPT ![t] = status]
    /\ UNCHANGED <<Documents, rates, fxAccount, matched>>

UpdateSettings ==
    /\ fxAccount' = ~fxAccount
    /\ UNCHANGED <<Documents, rates, period, matched>>

\* A statement line is matched to an entry's cash line, or released.
MatchLine(e) ==
    /\ journal[e].lines["cash"] # NoLine
    /\ e \notin matched
    /\ Cardinality(matched) < MaxMatched
    /\ matched' = matched \cup {e}
    /\ UNCHANGED <<Documents, rates, period, fxAccount>>

UnmatchLine(e) ==
    /\ matched' = matched \ {e}
    /\ UNCHANGED <<Documents, rates, period, fxAccount>>

-----------------------------------------------------------------------------
Init ==
    /\ doc = [d \in Docs |-> NoDoc("absent")]
    /\ apps = {}
    /\ journal = <<>>
    /\ rates = [t \in Dates |-> 0]
    /\ period = [t \in Dates |-> "none"]
    /\ fxAccount = TRUE
    /\ matched = {}

DraftStep(d) ==
    \/ CreateSalesInvoice(d) \/ UpdateSalesInvoice(d) \/ DeleteSalesInvoice(d)
    \/ CreatePurchaseBill(d) \/ UpdatePurchaseBill(d) \/ DeletePurchaseBill(d)
    \/ CreateSalesCreditNote(d) \/ UpdateSalesCreditNote(d) \/ DeleteSalesCreditNote(d)
    \/ CreatePurchaseCreditNote(d) \/ UpdatePurchaseCreditNote(d) \/ DeletePurchaseCreditNote(d)
    \/ CreateCustomerPayment(d) \/ UpdateCustomerPayment(d) \/ DeleteCustomerPayment(d)
    \/ CreateSupplierPayment(d) \/ UpdateSupplierPayment(d) \/ DeleteSupplierPayment(d)
    \/ CreateStockMovement(d) \/ UpdateStockMovement(d) \/ DeleteStockMovement(d)

PostStep(d) ==
    \/ PostSalesInvoice(d) \/ PostPurchaseBill(d)
    \/ PostSalesCreditNote(d) \/ PostPurchaseCreditNote(d)
    \/ PostCustomerPayment(d) \/ PostSupplierPayment(d)
    \/ PostInventoryIssue(d) \/ PostInventoryReceipt(d)

ApplyStep(d) ==
    \/ AutoApplyCustomerPayment(d) \/ AutoApplySupplierPayment(d)
    \/ AutoApplySalesCreditNote(d) \/ AutoApplyPurchaseCreditNote(d)

UnpostStep(d) ==
    \/ UnpostSalesInvoice(d) \/ UnpostPurchaseBill(d)
    \/ UnpostSalesCreditNote(d) \/ UnpostPurchaseCreditNote(d)
    \/ UnpostCustomerPayment(d) \/ UnpostSupplierPayment(d)
    \/ UnpostStockMovement(d)

Surroundings ==
    \/ \E t \in Dates, r \in Rates \cup {0} : SetExchangeRate(t, r)
    \/ \E t \in Dates : CreateAccountingPeriod(t)
    \/ \E t \in Dates, status \in {"open", "closed"} : UpdateAccountingPeriod(t, status)
    \/ UpdateSettings
    \/ \E e \in 1..Len(journal) : MatchLine(e)
    \/ \E e \in matched : UnmatchLine(e)

Next ==
    \/ \E d \in Docs : DraftStep(d) \/ PostStep(d) \/ ApplyStep(d) \/ UnpostStep(d)
    \/ Surroundings

Spec == Init /\ [][Next]_vars

-----------------------------------------------------------------------------
(* Properties. *)

Ids == 1..Len(journal)

\* The columns hold what their types and row checks allow: amounts applied are
\* positive, and links name entries that exist.
TypeOK ==
    /\ doc \in [Docs -> [status : {"absent", "draft", "posted", "deleted"},
                        date : Dates \cup {0}, net : Int, tax : Int, entry : Ids \cup {0}]]
    /\ \A d \in Docs : doc[d].status = "posted" <=> doc[d].entry # 0
    /\ \A d \in Docs : doc[d].status \in {"draft", "posted"} => doc[d].date \in Dates
    /\ apps \subseteq [settler : Docs, target : Docs, amount : Nat \ {0}, fx : Ids \cup {0}]
    /\ journal \in Seq([date : Dates, rate : Nat \ {0}, reverses : Ids \cup {0},
                        lines : [Accounts -> [amount : Int, base : Int]]])
    /\ rates \in [Dates -> Nat]
    /\ period \in [Dates -> {"none", "open", "closed"}]
    /\ fxAccount \in BOOLEAN
    /\ matched \subseteq Ids

\* Every entry a posting, an application or a reversal writes balances in its
\* currency and in base currency with no amount on the wrong side, whatever
\* the rate rounds to: the row checks and the deferred trigger of the database
\* never refuse one.
EntriesBalanced == \A e \in Ids : EntryOK(journal[e].lines)

\* A reversal is the exact negation of one original entry, on its date and at
\* its rate, whatever the rate table says by then; an original is reversed at
\* most once and a reversal never.
ReversalsMirror ==
    \A f \in Ids : LET e == journal[f].reverses IN e # 0 =>
        /\ journal[f].date = journal[e].date /\ journal[f].rate = journal[e].rate
        /\ \A a \in Accounts : /\ journal[f].lines[a].amount = -journal[e].lines[a].amount
                               /\ journal[f].lines[a].base = -journal[e].lines[a].base
        /\ e < f /\ journal[e].reverses = 0
        /\ \A g \in Ids : journal[g].reverses = e => g = f

\* What the books still say, original entries not reversed, is exactly what the
\* documents and applications own, each entry by one owner: after any sequence
\* of posting, applying, unposting, editing and deleting, no entry is orphaned
\* and none is shared.
Live(e) == journal[e].reverses = 0 /\ \A f \in Ids : journal[f].reverses # e
DocEntries == {doc[d].entry : d \in Docs} \ {0}
FxEntries  == {a.fx : a \in apps} \ {0}

LiveEntriesOwned ==
    /\ {e \in Ids : Live(e)} = DocEntries \cup FxEntries
    /\ DocEntries \cap FxEntries = {}
    /\ \A c, d \in Docs : doc[c].entry = doc[d].entry /\ doc[c].entry # 0 => c = d
    /\ \A a, b \in apps : a.fx = b.fx /\ a.fx # 0 => a = b

\* Payments and notes together never settle more of an invoice than its total,
\* and none of them gives more than its own amount.
NeverOverApplied ==
    \A d \in Docs : /\ SumApplied({a \in apps : a.target = d}) <= Gross(d) \/ doc[d].status # "posted"
                    /\ SumApplied({a \in apps : a.settler = d}) <= Gross(d) \/ doc[d].status # "posted"

\* While an application exists both its documents stay posted, so the rates it
\* was valued at stay; they are of one party and one currency, it carries an
\* exchange entry exactly when the two rates value it differently, and a pair
\* has one application.
ApplicationsPinPosted ==
    \A a \in apps :
        /\ doc[a.settler].status = "posted" /\ doc[a.target].status = "posted"
        /\ Kind[a.target] = Settles(Kind[a.settler])
        /\ Party[a.target] = Party[a.settler]
        /\ (a.target \in Foreign <=> a.settler \in Foreign)
        /\ (a.fx # 0 <=> Convert(a.amount, journal[doc[a.settler].entry].rate)
                         # Convert(a.amount, journal[doc[a.target].entry].rate))
        /\ \A b \in apps : b.settler = a.settler /\ b.target = a.target => b = a

\* A document's side of its control account, debit positive; the posted documents
\* of an account, the applications of a document, its open item in base currency
\* and how many amounts of it were converted.
ControlKinds(c) == {k \in Kinds : IF c = "ar"
    THEN k \in {"sales_invoice", "sales_credit_note", "customer_payment"}
    ELSE k \in {"purchase_bill", "purchase_credit_note", "supplier_payment"}}

Side(d) == IF Kind[d] \in {"sales_invoice", "purchase_credit_note", "supplier_payment"} THEN 1 ELSE -1
PostedOn(c) == {d \in Docs : doc[d].status = "posted" /\ Kind[d] \in ControlKinds(c)}
AppsWith(d) == {a \in apps : d \in {a.settler, a.target}}
OpenItem(d) == Side(d) * Convert(Gross(d) - SumApplied(AppsWith(d)), journal[doc[d].entry].rate)
Conversions(d) == IF d \in Foreign THEN 3 + Cardinality(AppsWith(d)) ELSE 0

\* The base balance of the A/R (A/P) control account is the open items, each
\* valued at the rate of its own posting, to half a unit for each conversion
\* made: three for a posted foreign document (its net, its tax, its balance)
\* and one for each application of it.  Only exchange entries, posted and
\* reversed along with their applications, can keep it so.
ControlAccountRevalued ==
    \A c \in {"ar", "ap"} :
        LET balance == MapThenSumSet(LAMBDA e : journal[e].lines[c].base, Ids)
            error   == balance - MapThenSumSet(OpenItem, PostedOn(c))
            bound   == MapThenSumSet(Conversions, PostedOn(c))
        IN  2 * error \in -bound..bound

\* No step rewrites or removes an entry, and none changes the date, the amounts
\* or the entry of a posted document: it can only return to draft, and only
\* together with the reversal of its entry.
HistoryKept ==
    [][/\ Len(journal') >= Len(journal)
       /\ \A e \in Ids : journal'[e] = journal[e]
       /\ \A d \in Docs : doc[d].status = "posted" /\ doc'[d] # doc[d] =>
            /\ doc'[d].status = "draft"
            /\ doc'[d].date = doc[d].date /\ doc'[d].net = doc[d].net /\ doc'[d].tax = doc[d].tax
            /\ \E f \in 1..Len(journal') : journal'[f].reverses = doc[d].entry]_vars

\* When the month of a posted document is open and its entry is not matched at
\* the bank, no entry its unposting would reverse refuses: its own is still
\* unreversed, and the exchange entries of its applications are dated with it
\* and never on a bank account.
UnpostNeverStuck ==
    \A d \in Docs :
        /\ doc[d].status = "posted"
        /\ PeriodFor(doc[d].date) /\ doc[d].entry \notin matched
        => \A e \in {doc[d].entry} \cup FxEntriesOf(d) :
              ~Reversed(e) /\ e \notin matched /\ PeriodFor(journal[e].date)

Added == apps' \ apps
Balance(t) == Gross(t) - SumApplied({a \in apps : a.target = t})

\* An allocation reaches a document only once every earlier posted document of
\* the party in the same currency is settled.
OldestFirst ==
    [][\A a \in Added : \A u \in Docs :
          /\ doc[u].status = "posted" /\ Kind[u] = Kind[a.target]
          /\ Party[u] = Party[a.target] /\ (u \in Foreign <=> a.target \in Foreign)
          /\ doc[u].date < doc[a.target].date
          => Balance(u)' = 0]_vars

\* An allocation does not stop short: it spends the payment or note, or leaves
\* the party nothing open in that currency, so applying again adds nothing.
AllocationExhausts ==
    [][\A a \in Added :
          \/ Gross(a.settler) = SumApplied({b \in apps : b.settler = a.settler})'
          \/ \A u \in Docs : /\ doc[u].status = "posted" /\ Kind[u] = Kind[a.target]
                             /\ Party[u] = Party[a.target] /\ (u \in Foreign <=> a.target \in Foreign)
                             => Balance(u)' = 0]_vars

\* Whenever a posted payment or note has a remainder and its party an open
\* document, the allocation can record it ("each receives min(available,
\* remaining still unallocated)"): the pair has no earlier application.
ReapplyPossible ==
    \A s \in Docs : doc[s].status = "posted" /\ Kind[s] \in Settlers =>
        \A a \in NewApps(s), b \in AppsOf(s) : a.target # b.target

\* Whatever happens to documents and applications, the journal is a general
\* ledger: unposting corrects, everything else records.
Ledgers == INSTANCE GeneralLedger WITH
    book <- journal, BalancedLines <- {l \in [Accounts -> [amount : Int, base : Int]] : EntryOK(l)}

LedgerKept == Ledgers!Spec

=============================================================================
