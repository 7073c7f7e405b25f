-------------------------- MODULE BankReconciliation --------------------------
(***************************************************************************)
(* One bank statement, its lines, and the cash lines of the journal they   *)
(* are matched with, while documents are posted and unposted.              *)
(*                                                                         *)
(* A request is one transaction under READ COMMITTED, in three steps: it   *)
(* checks what it requires, writes rows that stay locked (the triggers see *)
(* what is committed by then), and commits.  The automatic match writes    *)
(* one line at a time.  Requests come from screens that may be stale, so   *)
(* anything may be asked for; what is written is up to the handlers.       *)
(*                                                                         *)
(* A journal line is its entry's line on a cash account.  Which of several *)
(* candidates is the nearest in date is left open.                         *)
(***************************************************************************)
EXTENDS Integers, FiniteSets, FiniteSetsExt

CONSTANTS
    LineIds,       \* ids statement lines can have at once: a bound
    Entries,       \* ids of journal entries: a bound
    Accounts,      \* cash accounts
    Amounts,       \* amounts of lines, signed, never zero
    Nets,          \* closing less opening balance of the statement
    MaxRequests    \* bound on the requests in flight

ASSUME BankAssumption ==
    /\ LineIds \subseteq Nat \ {0} /\ Entries \subseteq Nat \ {0} /\ IsFiniteSet(LineIds)
    /\ Amounts \subseteq Int \ {0} /\ Nets \subseteq Int
    /\ MaxRequests \in Nat

VARIABLES
    statement,     \* status, account, net
    lines,         \* amount and match of each line
    journal,       \* posted entries: account, amount, the entry reversed
    requests,      \* requests and their transactions
    overlapped     \* have two transactions ever been open at once?

vars == <<statement, lines, journal, requests, overlapped>>

Slots == 1..MaxRequests
NoLine == [amount |-> 0, match |-> 0]
NoEntry == [account |-> "none", amount |-> 0, reverses |-> 0]
NoRequest == [op |-> "none", arg |-> 0, by |-> 0, step |-> "none", todo |-> {}, row |-> NoEntry, wrote |-> <<>>]

Present == {x \in LineIds : lines[x] # NoLine}
Posted == {e \in Entries : journal[e] # NoEntry}
Unmatched == {x \in Present : lines[x].match = 0}
Used == {lines[x].match : x \in Present} \ {0}
Reversed == {journal[e].reverses : e \in Posted} \ {0}
Sum == MapThenSumSet(LAMBDA x : lines[x].amount, LineIds)

-----------------------------------------------------------------------------
(* Requests. *)

Free == {s \in Slots : requests[s] = NoRequest}

\* What a screen can ask for: arg is a line, a new line's amount, or a net;
\* by is what the line is matched with, an account, or the entry reversed.
Ask(op, arg, by) ==
    /\ Free # {}
    /\ requests' = [requests EXCEPT ![Min(Free)] =
                       [NoRequest EXCEPT !.op = op, !.arg = arg, !.by = by, !.step = "sent"]]
    /\ UNCHANGED <<statement, lines, journal, overlapped>>

Asks ==
    \/ \E op \in {"autoMatch", "reconcile", "reopen", "delete"} : Ask(op, 0, 0)
    \/ \E a \in Amounts : Ask("add", a, 0)
    \/ \E x \in LineIds : Ask("unmatch", x, 0) \/ Ask("deleteLine", x, 0)
    \/ \E x \in LineIds, e \in Entries : Ask("match", x, e)
    \/ \E n \in Nets, c \in Accounts : Ask("update", n, c)
    \/ \E e \in Entries : Ask("reverse", 0, e)

Running == {s \in Slots : requests[s].step \in {"begun", "wrote"}}
HasWritten(s) == requests[s].step = "wrote"

\* Locks: the rows another transaction has written, or the statement's row.
Held(s) == UNION {DOMAIN requests[u].wrote : u \in Slots \ {s}}
Claimed(s) ==
    (UNION {{requests[u].wrote[x].match : x \in DOMAIN requests[u].wrote} : u \in Slots \ {s}}) \ {0}
StatementHeld(s) ==
    \E u \in Slots \ {s} : HasWritten(u) /\ requests[u].op \in {"update", "reconcile", "reopen", "delete"}

OfLine == {"match", "unmatch", "deleteLine"}

\* Variant of Requires: a reversal does not look for matched lines.
RequiresUnpinned(r) ==
    CASE r.op = "reopen"  -> statement.status = "reconciled"
      [] r.op = "reverse" -> r.by \in Posted \ Reversed
      [] r.op \in OfLine  -> r.arg \in Present /\ statement.status = "open"
      [] OTHER            -> statement.status = "open"

\* requireOpen, lineStatement, Reopen's check, and those of reverseEntry.
Requires(r) ==
    CASE r.op = "reopen"  -> statement.status = "reconciled"
      [] r.op = "reverse" -> r.by \in Posted \ Reversed /\ r.by \notin Used
      [] r.op \in OfLine  -> r.arg \in Present /\ statement.status = "open"
      [] OTHER            -> statement.status = "open"

Begin(s) ==
    /\ requests[s].step = "sent" /\ Requires(requests[s])
    /\ requests' = [requests EXCEPT ![s].step = "begun",
                                    ![s].todo = IF requests[s].op = "autoMatch" THEN Unmatched ELSE {}]
    /\ overlapped' = (overlapped \/ Running # {})
    /\ UNCHANGED <<statement, lines, journal>>

Writes(s, row, wrote) ==
    /\ requests' = [requests EXCEPT ![s].step = "wrote", ![s].row = row, ![s].wrote = wrote]
    /\ UNCHANGED <<statement, lines, journal, overlapped>>

-----------------------------------------------------------------------------
(* Lines. *)

\* trg_bank_statement_lines_check: a statement that is reconciled is frozen;
\* one that is gone has nothing to enforce.
NotFrozen == statement.status # "reconciled"

\* Variant of Backs: any line on the account will do.
BacksAnyAmount(e, x) == e \in Posted /\ journal[e].account = statement.account

\* ... and a match is a posted journal line on the account, of the same amount.
Backs(e, x) ==
    e \in Posted /\ journal[e].account = statement.account /\ journal[e].amount = lines[x].amount

\* The unique index makes a match wait for another that claims the same
\* journal line, and then fail.
Unclaimed(s, e) == e \notin Used \cup Claimed(s)

AddLine(s) ==
    LET r == requests[s]
        new == LineIds \ (Present \cup Held(s)) IN
    /\ r.op = "add" /\ r.step = "begun" /\ NotFrozen /\ statement.status # "gone" /\ new # {}
    /\ \A u \in Slots : requests[u].op # "delete" \/ ~HasWritten(u)
    /\ Writes(s, NoEntry, [x \in {Min(new)} |-> [amount |-> r.arg, match |-> 0]])

\* UPDATE ... WHERE id = $1 AND journal_line_id IS NULL
MatchLine(s) ==
    LET r == requests[s] IN
    /\ r.op = "match" /\ r.step = "begun" /\ NotFrozen
    /\ r.arg \in Unmatched \ Held(s) /\ Backs(r.by, r.arg) /\ Unclaimed(s, r.by)
    /\ Writes(s, NoEntry, [x \in {r.arg} |-> [lines[x] EXCEPT !.match = r.by]])

UnmatchLine(s) ==
    LET r == requests[s] IN
    /\ r.op = "unmatch" /\ r.step = "begun" /\ NotFrozen /\ r.arg \in Present \ Held(s)
    /\ Writes(s, NoEntry, [x \in {r.arg} |-> [lines[x] EXCEPT !.match = 0]])

DeleteLine(s) ==
    LET r == requests[s] IN
    /\ r.op = "deleteLine" /\ r.step = "begun" /\ NotFrozen /\ r.arg \in Present \ Held(s)
    /\ Writes(s, NoEntry, [x \in {r.arg} |-> NoLine])

\* What backs a line that AutoMatch is at, its own matches so far being used.
Candidates(s, x) ==
    {e \in Entries : /\ Backs(e, x) /\ e \notin Used
                     /\ \A y \in DOMAIN requests[s].wrote : requests[s].wrote[y].match # e}

\* The rows w, and v as row x.
Also(w, x, v) == [y \in {x} \cup DOMAIN w |-> IF y = x THEN v ELSE w[y]]

\* Variant of AutoMatchLine: the lines after the first are left alone.
AutoMatchFirst(s, x) ==
    LET r == requests[s] IN
    /\ r.op = "autoMatch" /\ r.step \in {"begun", "wrote"} /\ NotFrozen
    /\ x \in r.todo \ Held(s) /\ \A y \in r.todo : x <= y
    /\ \E e \in Candidates(s, x) :
          /\ Unclaimed(s, e)
          /\ requests' = [requests EXCEPT ![s].step = "wrote", ![s].todo = {},
                                          ![s].wrote = [y \in {x} |-> [lines[x] EXCEPT !.match = e]]]
    /\ UNCHANGED <<statement, lines, journal, overlapped>>

\* One UPDATE of AutoMatch's loop.  It does not ask again whether the line is
\* unmatched; a line with no candidate, or deleted meanwhile, is passed over.
AutoMatchLine(s, x) ==
    LET r == requests[s] IN
    /\ r.op = "autoMatch" /\ r.step \in {"begun", "wrote"}
    /\ x \in r.todo \ Held(s) /\ \A y \in r.todo : x <= y
    /\ \/ /\ x \in Present /\ NotFrozen
          /\ \E e \in Candidates(s, x) :
                /\ Unclaimed(s, e)
                /\ requests' = [requests EXCEPT ![s].step = "wrote", ![s].todo = @ \ {x},
                                                ![s].wrote = Also(@, x, [lines[x] EXCEPT !.match = e])]
       \/ /\ x \in Present => Candidates(s, x) = {}
          /\ requests' = [requests EXCEPT ![s].step = "wrote", ![s].todo = @ \ {x}]
    /\ UNCHANGED <<statement, lines, journal, overlapped>>

AutoMatchNothing(s) ==
    /\ requests[s].op = "autoMatch" /\ requests[s].step = "begun" /\ requests[s].todo = {}
    /\ Writes(s, NoEntry, <<>>)

-----------------------------------------------------------------------------
(* The statement. *)

\* Variant of AddsUp: only the matches count.
AddsUpUnchecked == Unmatched = {}

\* Every line matched, and opening balance + lines = closing balance.
AddsUp == Unmatched = {} /\ Sum = statement.net

\* trg_bank_statements_check: a header is frozen with its statement, and its
\* account while lines are matched.
UpdateStatement(s) ==
    LET r == requests[s] IN
    /\ r.op = "update" /\ r.step = "begun" /\ ~StatementHeld(s)
    /\ statement.status = "open" /\ (r.by # statement.account => Used = {})
    /\ Writes(s, NoEntry, <<>>)

Reconcile(s) ==
    /\ requests[s].op = "reconcile" /\ requests[s].step = "begun" /\ ~StatementHeld(s)
    /\ statement.status = "open" /\ AddsUp
    /\ Writes(s, NoEntry, <<>>)

Reopen(s) ==
    /\ requests[s].op = "reopen" /\ requests[s].step = "begun" /\ ~StatementHeld(s)
    /\ statement.status # "gone"
    /\ Writes(s, NoEntry, <<>>)

\* Variant of DeleteStatement: its lines do not cascade.
DeleteHeader(s) ==
    /\ requests[s].op = "delete" /\ requests[s].step = "begun" /\ ~StatementHeld(s) /\ Held(s) = {}
    /\ statement.status # "reconciled"
    /\ Writes(s, NoEntry, <<>>)

\* Lines go with the statement, once nobody else is writing them.
DeleteStatement(s) ==
    /\ requests[s].op = "delete" /\ requests[s].step = "begun" /\ ~StatementHeld(s) /\ Held(s) = {}
    /\ statement.status # "reconciled"
    /\ Writes(s, NoEntry, [x \in Present |-> NoLine])

\* reverseEntry: the mirror of an entry.  Whether there is one already was asked
\* when the request began and is not asked again.
ReverseEntry(s) ==
    LET e == requests[s].by IN
    /\ requests[s].op = "reverse" /\ requests[s].step = "begun"
    /\ Writes(s, [journal[e] EXCEPT !.amount = -@, !.reverses = e], <<>>)

Ended(s, op) ==
    CASE op = "update"    -> [statement EXCEPT !.net = requests[s].arg, !.account = requests[s].by]
      [] op = "reconcile" -> [statement EXCEPT !.status = "reconciled"]
      [] op = "reopen"    -> [statement EXCEPT !.status = "open"]
      [] op = "delete"    -> [statement EXCEPT !.status = "gone"]
      [] OTHER            -> statement

Commit(s) ==
    LET r == requests[s] IN
    /\ r.step = "wrote" /\ r.todo = {}
    /\ statement' = Ended(s, r.op)
    /\ lines' = [x \in LineIds |-> IF x \in DOMAIN r.wrote THEN r.wrote[x] ELSE lines[x]]
    /\ IF r.row = NoEntry THEN UNCHANGED journal
       ELSE Entries \ Posted # {} /\ journal' = [journal EXCEPT ![Min(Entries \ Posted)] = r.row]
    /\ requests' = [requests EXCEPT ![s] = NoRequest]
    /\ UNCHANGED overlapped

\* Refused by a guard or a constraint, or lost: nothing was done.
Fails(s) ==
    /\ requests[s] # NoRequest
    /\ requests' = [requests EXCEPT ![s] = NoRequest]
    /\ UNCHANGED <<statement, lines, journal, overlapped>>

\* A payment or another cash entry is posted.
Post(c, a) ==
    /\ Entries \ Posted # {}
    /\ journal' = [journal EXCEPT ![Min(Entries \ Posted)] = [account |-> c, amount |-> a, reverses |-> 0]]
    /\ overlapped' = (overlapped \/ Running # {})
    /\ UNCHANGED <<statement, lines, requests>>

-----------------------------------------------------------------------------
Init ==
    /\ statement \in [status : {"open"}, account : Accounts, net : Nets]
    /\ lines = [x \in LineIds |-> NoLine]
    /\ journal = [e \in Entries |-> NoEntry]
    /\ requests = [s \in Slots |-> NoRequest]
    /\ overlapped = FALSE

Work(s) ==
    \/ AddLine(s) \/ MatchLine(s) \/ UnmatchLine(s) \/ DeleteLine(s)
    \/ (\E x \in LineIds : AutoMatchLine(s, x)) \/ AutoMatchNothing(s)
    \/ UpdateStatement(s) \/ Reconcile(s) \/ Reopen(s) \/ DeleteStatement(s) \/ ReverseEntry(s)

Next ==
    \/ Asks
    \/ \E s \in Slots : Begin(s) \/ Work(s) \/ Commit(s) \/ Fails(s)
    \/ \E c \in Accounts, a \in Amounts : Post(c, a)

Spec == Init /\ [][Next]_vars

-----------------------------------------------------------------------------
(* Properties. *)

LineType == [amount : {0} \cup Amounts, match : {0} \cup Entries]
EntryType == [account : {"none"} \cup Accounts, amount : {0} \cup Amounts \cup {-a : a \in Amounts},
              reverses : {0} \cup Entries]

\* Rows have the shapes of the tables, a statement that is gone has no lines,
\* and what a transaction has written is what it holds.
TypeOK ==
    /\ statement \in [status : {"open", "reconciled", "gone"}, account : Accounts, net : Nets]
    /\ lines \in [LineIds -> LineType] /\ journal \in [Entries -> EntryType]
    /\ statement.status = "gone" => Present = {}
    /\ \A s \in Slots :
          /\ DOMAIN requests[s].wrote \subseteq LineIds
          /\ \A x \in DOMAIN requests[s].wrote : requests[s].wrote[x] \in LineType
          /\ requests[s].row \in EntryType /\ requests[s].todo \subseteq LineIds
          /\ DOMAIN requests[s].wrote \cap Held(s) = {}

\* However requests overlap, a matched line is backed by a posted journal line
\* of its own amount, and no two lines by the same one.
MatchSound ==
    \A x \in Present : lines[x].match # 0 =>
        /\ lines[x].match \in Posted /\ journal[lines[x].match].amount = lines[x].amount
        /\ \A y \in Present \ {x} : lines[y].match # lines[x].match

\* While no two transactions have been open at once, a statement is reconciled
\* only as long as every line is matched on its account and the lines add up
\* to the difference of the balances: nothing can be done to it or to the
\* entries behind it that takes this away without reopening it.
ReconciledSound ==
    ~overlapped /\ statement.status = "reconciled" =>
        /\ \A x \in Present : lines[x].match # 0 /\ journal[lines[x].match].account = statement.account
        /\ Sum = statement.net

\* Under the same condition "a line matched on a bank statement pins the entry":
\* it is not reversed until the match has been released.
PinnedEntry == [][~overlapped' => Reversed' \cap Used \subseteq Reversed]_vars

\* Under the same condition an automatic match leaves no line unmatched that a
\* posted, unused journal line could back.
AutoMatched(s) == requests[s].op = "autoMatch" /\ requests[s].step = "wrote" /\ Commit(s)
AutoMatchComplete ==
    [][\A s \in Slots : ~overlapped /\ AutoMatched(s) =>
          \A x \in Unmatched', e \in Posted \ Used' :
              ~(journal[e].account = statement.account /\ journal[e].amount = lines[x].amount)]_vars

\* "Reversing it would leave the reconciliation pointing at history the books
\* have disowned": no line is matched with an entry that has been reversed.
MatchesLive == Used \cap Reversed = {}

=============================================================================
