-------------------------- MODULE ConcurrentPosting --------------------------
(***************************************************************************)
(* Overlapping requests on the invoices and payments of one customer, in   *)
(* base currency and in one accounting period: the statements of their     *)
(* transactions interleave.                                                *)
(*                                                                         *)
(* db.WithTx opens a transaction at the server's default isolation, READ   *)
(* COMMITTED: a statement sees what is committed when it starts and what   *)
(* its own transaction wrote.  No query of the program locks what it reads.*)
(* An UPDATE or DELETE locks its row until the transaction ends, and once  *)
(* it has waited for another's lock evaluates its WHERE clause again; an   *)
(* inserted foreign key shares the referenced row against deletion only.   *)
(*                                                                         *)
(* A transaction is a record of tx.  What it has written stays there until *)
(* Commit; a statement that is refused, here one that is not enabled,      *)
(* leaves only Abort, as a client that goes away does.                     *)
(***************************************************************************)
EXTENDS Integers, Sequences, FiniteSets, FiniteSetsExt

CONSTANTS
    Sessions,      \* concurrent requests
    Invoices,      \* document ids
    Payments,
    Totals,        \* the totals a client may give each document
    MaxEntries     \* bound on the length of the journal

Docs == Invoices \cup Payments

ASSUME ConcurrentAssumption ==
    /\ Docs \subseteq Nat \ {0} /\ Invoices \cap Payments = {}
    /\ IsFiniteSet(Docs)
    /\ \A d \in Invoices : Totals[d] \subseteq Nat
    /\ \A d \in Payments : Totals[d] \subseteq Nat \ {0}
    /\ MaxEntries \in Nat

VARIABLES
    doc,           \* committed sales_invoices and customer_payments
    apps,          \* committed payment_applications
    journal,       \* committed journal entries, in commit order
    periodOpen,    \* the accounting period is open
    tx             \* the transaction of each session

vars == <<doc, apps, journal, periodOpen, tx>>
Committed == <<doc, apps, journal, periodOpen>>

NoEntry == [owner |-> 0, detail |-> 0, control |-> 0, reverses |-> 0]

\* A transaction: its document, the statement it has reached, the entry it is
\* to reverse, the entry it builds, what it did to the document's row ("none"
\* until it holds the lock), an edited total, applications inserted and deleted.
NoTx == [doc |-> 0, at |-> "idle", old |-> 0, entry |-> NoEntry,
         row |-> "none", total |-> 0, plus |-> {}, minus |-> {}]

At(s, step) == tx[s].at = step
Step(s, t) == tx' = [tx EXCEPT ![s] = t] /\ UNCHANGED Committed
Begin(s, d, step) == At(s, "idle") /\ Step(s, [NoTx EXCEPT !.doc = d, !.at = step])

\* Another transaction holds the document's row.
RowLocked(s, d) == \E r \in Sessions \ {s} : tx[r].doc = d /\ tx[r].row # "none"

\* The applications a transaction has inserted and not yet committed.
Inserted(r) == IF tx[r].at \in {"check", "commit"} THEN tx[r].plus ELSE {}

\* The variant sees committed applications only.
ReferencedByNone(s, d) == FALSE

\* Another transaction's inserted application references the document.
Referenced(s, d) ==
    \E r \in Sessions \ {s} : \E a \in Inserted(r) : d \in {a.payment, a.invoice}

-----------------------------------------------------------------------------
(* Posting: PostSalesInvoice, PostCustomerPayment. *)

ReadDraft(s, d) ==
    /\ doc[d].status = "draft" /\ doc[d].total > 0
    /\ Begin(s, d, "entry")

\* createEntry, refused by the period trigger when the period is closed.
InsertEntry(s) ==
    /\ At(s, "entry") /\ periodOpen
    /\ Step(s, [tx[s] EXCEPT !.at = "detail", !.entry.owner = tx[s].doc])

\* Each INSERT ... SELECT reads the document anew; one that is gone (its total
\* is 0 here) gives no line.
InsertDetail(s) ==
    /\ At(s, "detail")
    /\ Step(s, [tx[s] EXCEPT !.at = "control", !.entry.detail = doc[tx[s].doc].total])

InsertControl(s) ==
    /\ At(s, "control")
    /\ Step(s, [tx[s] EXCEPT !.at = "posted", !.entry.control = doc[tx[s].doc].total])

\* UPDATE ... SET status = 'posted' WHERE id: waits for the row and does not ask
\* for its status again; on a deleted row it changes nothing.
SetPosted(s) ==
    /\ At(s, "posted") /\ ~RowLocked(s, tx[s].doc)
    /\ Step(s, [tx[s] EXCEPT !.at = "commit",
                    !.row = IF doc[tx[s].doc].status = "deleted" THEN "none" ELSE "posted"])

-----------------------------------------------------------------------------
(* Drafts: the UPDATE and DELETE carry AND status = 'draft'. *)

\* Variant of IsDraft: the status is not in the WHERE clause.
IsStored(d) == doc[d].status # "deleted"

IsDraft(d) == doc[d].status = "draft"

EditDraft(s, d) ==
    /\ At(s, "idle") /\ ~RowLocked(s, d) /\ IsDraft(d)
    /\ \E t \in Totals[d] :
          Step(s, [NoTx EXCEPT !.doc = d, !.at = "commit", !.row = "draft", !.total = t])

AppsOf(d) == {a \in apps : d \in {a.payment, a.invoice}}

\* Deleting waits for uncommitted references too.  An application restricts the
\* deletion of its invoice and is deleted with its payment.
DeleteDraft(s, d) ==
    /\ At(s, "idle") /\ ~RowLocked(s, d) /\ ~Referenced(s, d) /\ IsDraft(d)
    /\ d \in Invoices => AppsOf(d) = {}
    /\ \A r \in Sessions \ {s} : tx[r].minus \cap AppsOf(d) = {}
    /\ Step(s, [NoTx EXCEPT !.doc = d, !.at = "check", !.row = "deleted", !.minus = AppsOf(d)])

-----------------------------------------------------------------------------
(* Unposting: UnpostSalesInvoice, UnpostCustomerPayment. *)

ReadPosted(s, d) ==
    /\ At(s, "idle") /\ doc[d].status = "posted"
    /\ Step(s, [NoTx EXCEPT !.doc = d, !.old = doc[d].entry,
                    !.at = IF d \in Invoices THEN "has_applications" ELSE "reverse"])

HasNoApplications(s) ==
    /\ At(s, "has_applications") /\ AppsOf(tx[s].doc) = {}
    /\ Step(s, [tx[s] EXCEPT !.at = "reverse"])

\* reverseEntry: not already reversed as far as is committed, into an open period.
InsertReversal(s) ==
    LET e == tx[s].old IN
    /\ At(s, "reverse") /\ periodOpen
    /\ \A f \in 1..Len(journal) : journal[f].reverses # e
    /\ Step(s, [tx[s] EXCEPT
           !.entry = [owner |-> journal[e].owner, detail |-> -journal[e].detail,
                      control |-> -journal[e].control, reverses |-> e],
           !.at = IF tx[s].doc \in Invoices THEN "draft" ELSE "remove"])

RemoveApplications(s) ==
    LET gone == AppsOf(tx[s].doc) IN
    /\ At(s, "remove")
    /\ \A r \in Sessions \ {s} : tx[r].minus \cap gone = {}
    /\ Step(s, [tx[s] EXCEPT !.at = "draft", !.minus = gone])

\* The variant leaves the status as it is.
SetNothing(s) == At(s, "draft") /\ Step(s, [tx[s] EXCEPT !.at = "check"])

\* UPDATE ... SET status = 'draft', journal_entry_id = NULL WHERE id.
SetDraft(s) ==
    /\ At(s, "draft") /\ ~RowLocked(s, tx[s].doc)
    /\ Step(s, [tx[s] EXCEPT !.at = "check",
                    !.row = IF doc[tx[s].doc].status = "deleted" THEN "none" ELSE "draft",
                    !.total = doc[tx[s].doc].total])

-----------------------------------------------------------------------------
(* Applying a payment: AutoApplyCustomerPayment. *)

SumApplied(A) == MapThenSumSet(LAMBDA a : a.amount, A)
Settled(A, d) == SumApplied({a \in A : d \in {a.payment, a.invoice}})
Available(d) == doc[d].total - Settled(apps, d)

OpenInvoices == {i \in Invoices : doc[i].status = "posted" /\ Available(i) > 0}

\* What the INSERT ... SELECT allocates, lowest id (oldest) first.
Allocation(p, i) ==
    LET prior == MapThenSumSet(Available, {j \in OpenInvoices : j < i})
        left  == IF Available(p) > prior THEN Available(p) - prior ELSE 0
    IN  IF left < Available(i) THEN left ELSE Available(i)

\* Variant of NewApps: WHERE amount > 0 is dropped.
NewAppsOfAll(p) ==
    {[payment |-> p, invoice |-> i, amount |-> Allocation(p, i)] : i \in OpenInvoices}

NewApps(p) ==
    {[payment |-> p, invoice |-> i, amount |-> Allocation(p, i)] :
        i \in {j \in OpenInvoices : Allocation(p, j) > 0}}

ReadSettler(s, p) == doc[p].status = "posted" /\ Begin(s, p, "allocate")

\* The statement's snapshot and the both-posted trigger of its rows.
Allocate(s) ==
    LET p == tx[s].doc IN
    /\ At(s, "allocate") /\ doc[p].status = "posted" /\ NewApps(p) # {}
    /\ Step(s, [tx[s] EXCEPT !.at = "insert", !.plus = NewApps(p)])

\* The rows go in: the unique index waits for another's uncommitted row of the
\* pair and refuses a committed one; the foreign keys wait for a deletion.
InsertApplications(s) ==
    /\ At(s, "insert")
    /\ \A a \in tx[s].plus :
          /\ \A b \in apps \cup UNION {Inserted(r) : r \in Sessions} :
                <<b.payment, b.invoice>> # <<a.payment, a.invoice>>
          /\ \A d \in {a.payment, a.invoice} :
                /\ doc[d].status # "deleted"
                /\ \A r \in Sessions : ~(tx[r].doc = d /\ tx[r].row = "deleted")
    /\ Step(s, [tx[s] EXCEPT !.at = "check"])

-----------------------------------------------------------------------------
(* The end of a transaction. *)

\* The over-application trigger, deferred to the commit: it sees what others
\* have committed by then, and a deleted payment no longer.
CheckApplied(s) ==
    LET seen == (apps \ tx[s].minus) \cup tx[s].plus IN
    /\ At(s, "check")
    /\ \A a \in tx[s].plus \cup tx[s].minus :
          /\ Settled(seen, a.invoice) <= doc[a.invoice].total
          /\ tx[s].row # "deleted" => Settled(seen, a.payment) <= doc[a.payment].total
    /\ Step(s, [tx[s] EXCEPT !.at = "commit"])

\* The balance trigger.
Balanced(e) == e.control # 0 /\ e.detail = e.control

\* The row as the transaction leaves it.
NewRow(s) ==
    LET d == tx[s].doc IN
    CASE tx[s].row = "none"    -> doc[d]
      [] tx[s].row = "posted"  -> [doc[d] EXCEPT !.status = "posted", !.entry = Len(journal) + 1]
      [] tx[s].row = "draft"   -> [status |-> "draft", total |-> tx[s].total, entry |-> 0]
      [] tx[s].row = "deleted" -> [status |-> "deleted", total |-> 0, entry |-> 0]

Commit(s) ==
    /\ At(s, "commit")
    /\ tx[s].entry # NoEntry => Balanced(tx[s].entry) /\ Len(journal) < MaxEntries
    /\ journal' = IF tx[s].entry = NoEntry THEN journal ELSE Append(journal, tx[s].entry)
    /\ doc' = [doc EXCEPT ![tx[s].doc] = NewRow(s)]
    /\ apps' = (apps \ tx[s].minus) \cup tx[s].plus
    /\ tx' = [tx EXCEPT ![s] = NoTx]
    /\ UNCHANGED periodOpen

\* An error, a client that goes away or a crash: the transaction is rolled back.
Abort(s) == ~At(s, "idle") /\ Step(s, NoTx)

\* UpdateAccountingPeriod, one statement.
UpdateAccountingPeriod == periodOpen' = ~periodOpen /\ UNCHANGED <<doc, apps, journal, tx>>

-----------------------------------------------------------------------------
Init ==
    /\ doc \in [Docs -> [status : {"draft"}, total : UNION {Totals[d] : d \in Docs}, entry : {0}]]
    /\ \A d \in Docs : doc[d].total \in Totals[d]
    /\ apps = {}
    /\ journal = <<>>
    /\ periodOpen = TRUE
    /\ tx = [s \in Sessions |-> NoTx]

PostStep(s) ==
    \/ \E d \in Docs : ReadDraft(s, d)
    \/ InsertEntry(s) \/ InsertDetail(s) \/ InsertControl(s) \/ SetPosted(s)

DraftStep(s) == \E d \in Docs : EditDraft(s, d) \/ DeleteDraft(s, d)

UnpostStep(s) ==
    \/ \E d \in Docs : ReadPosted(s, d)
    \/ HasNoApplications(s) \/ InsertReversal(s) \/ RemoveApplications(s) \/ SetDraft(s)

ApplyStep(s) ==
    \/ \E p \in Payments : ReadSettler(s, p)
    \/ Allocate(s) \/ InsertApplications(s)

Next ==
    \/ \E s \in Sessions :
          PostStep(s) \/ DraftStep(s) \/ UnpostStep(s) \/ ApplyStep(s)
          \/ CheckApplied(s) \/ Commit(s) \/ Abort(s)
    \/ UpdateAccountingPeriod

Spec == Init /\ [][Next]_vars

-----------------------------------------------------------------------------
(* What holds however the statements interleave. *)

Ids == 1..Len(journal)
App == [payment : Payments, invoice : Invoices, amount : Nat \ {0}]

\* The committed columns hold what their types and row checks allow, and a
\* transaction's writes do so before they are committed.
TypeOK ==
    /\ doc \in [Docs -> [status : {"draft", "posted", "deleted"}, total : Nat, entry : Ids \cup {0}]]
    /\ apps \subseteq App
    /\ journal \in Seq([owner : Docs, detail : Int, control : Int, reverses : Ids \cup {0}])
    /\ periodOpen \in BOOLEAN
    /\ \A s \in Sessions : /\ tx[s].plus \subseteq App /\ tx[s].minus \subseteq App
                           /\ tx[s].row \in {"none", "draft", "posted", "deleted"}

\* An edit or deletion that began while the document was a draft never lands on
\* it once another transaction has posted it.
PostedFrozen ==
    [][\A d \in Docs : doc[d].status = "posted" =>
          doc'[d].status # "deleted" /\ doc'[d].total = doc[d].total]_vars

\* An application never outlives its payment or its invoice, though the document
\* may be unposted and its draft deleted while an allocation that read it as
\* posted is still to insert its rows or to commit.
ReferencesKept ==
    \A a \in apps : doc[a.payment].status # "deleted" /\ doc[a.invoice].status # "deleted"

\* A posted document names an original entry of its own that no committed
\* reversal cancels, whatever posts and unposts of it overlap.
PostedEntryLive ==
    \A d \in Docs : doc[d].status = "posted" =>
        /\ doc[d].entry # 0
        /\ journal[doc[d].entry].owner = d /\ journal[doc[d].entry].reverses = 0
        /\ \A f \in Ids : journal[f].reverses # doc[d].entry

-----------------------------------------------------------------------------
(* What the documentation says of any two requests. *)

\* "An entry may only be reversed once."
ReversedOnce ==
    \A f, g \in Ids : journal[f].reverses = journal[g].reverses /\ journal[f].reverses # 0 => f = g

\* "The document records the entry's id": every entry still standing is
\* recorded by a document.
EntriesRecorded ==
    \A e \in Ids :
        /\ journal[e].reverses = 0
        /\ \A f \in Ids : journal[f].reverses # e
        => \E d \in Docs : doc[d].entry = e

\* "The control line always carries the document total."
ControlIsTotal ==
    \A d \in Docs : doc[d].status = "posted" => journal[doc[d].entry].control = doc[d].total

\* Unposting an invoice is refused when "any payment or credit note is applied
\* to it": no application is left on a draft.
ApplicationsBetweenPosted ==
    \A a \in apps : doc[a.payment].status = "posted" /\ doc[a.invoice].status = "posted"

\* "Nothing may ever be over-applied, neither the settler nor the document."
NeverOverApplied == \A d \in Docs : Settled(apps, d) <= doc[d].total

\* "Nothing may be written against a closed period."
ClosedPeriodSealed == [][~periodOpen => journal' = journal]_vars

=============================================================================
