----------------------------- MODULE FiscalYears -----------------------------
(***************************************************************************)
(* The fiscal calendar and the year-end close: years, their periods, and   *)
(* the entries of the journal as far as they touch revenue and expense.    *)
(*                                                                         *)
(* A request is one step: what a posting that overlaps a closing does is   *)
(* the subject of ConcurrentPosting.  Any user may edit the calendar;      *)
(* administrators close years and reopen them.                             *)
(*                                                                         *)
(* Days are numbered.  A calendar month is a run of MonthLength days, a    *)
(* calendar year one of YearLength.                                        *)
(***************************************************************************)
EXTENDS Integers, FiniteSets, FiniteSetsExt

CONSTANTS
    Days,          \* the days there are: a bound
    MonthLength, YearLength,
    YearIds, PeriodIds, Entries,   \* ids there are: bounds
    Accounts,      \* the revenue and expense accounts
    Postings,      \* base amounts a document posts to them, debit positive
    MaxEdits       \* bound on the edits of years and periods

ASSUME CalendarAssumption ==
    /\ Days \subseteq Nat \ {0} /\ 1 \in Days /\ \A d, e \in Days : d..e \subseteq Days
    /\ MonthLength \in Nat \ {0} /\ YearLength \in Days
    /\ 1 \in YearIds /\ YearIds \cup PeriodIds \cup Entries \subseteq Nat \ {0}
    /\ IsFiniteSet(YearIds) /\ IsFiniteSet(Entries)
    /\ Postings \subseteq [Accounts -> Int]
    /\ MaxEdits \in Nat

VARIABLES
    year,          \* dates, status and closing entry of each fiscal year
    period,        \* fiscal year, dates and status of each period
    journal,       \* date, period, amounts, closing flag, the entry reversed
    edits,         \* edits so far
    orderly        \* has the calendar been in order so far?  see InOrder

vars == <<year, period, journal, edits, orderly>>

NoYear == [from |-> 0, to |-> 0, status |-> "none", closing |-> 0]
NoPeriod == [year |-> 0, from |-> 0, to |-> 0, status |-> "none"]
Nothing == [a \in Accounts |-> 0]
NoEntry == [date |-> 0, period |-> 0, lines |-> Nothing, closing |-> FALSE, reverses |-> 0]

Years == {y \in YearIds : year[y] # NoYear}
Open == {y \in Years : year[y].status = "open"}
Closed == Years \ Open
Periods == {p \in PeriodIds : period[p] # NoPeriod}
Posted == {e \in Entries : journal[e] # NoEntry}
NextYear == Min(YearIds \ Years)
NextPeriod == Min(PeriodIds \ Periods)
NextEntry == Min(Entries \ Posted)

Within(d, r) == r.from <= d /\ d <= r.to
Overlap(r, s) == r.from <= s.to /\ s.from <= r.to

-----------------------------------------------------------------------------
(* Periods and entries. *)

\* Variant of Fits: no exclusion constraint.
FitsAnywhere(q, r) == TRUE

\* No period other than q overlaps the dates of r.
Fits(q, r) == \A p \in Periods \ {q} : ~Overlap(period[p], r)

\* Every year of its own days, every period within its year, and every entry
\* in the year of its period.
InOrder ==
    /\ \A y \in Years : \A z \in Years \ {y} : ~Overlap(year[y], year[z])
    /\ \A p \in Periods : Within(period[p].from, year[period[p].year])
                         /\ Within(period[p].to, year[period[p].year])
    /\ \A e \in Posted : Within(journal[e].date, year[period[journal[e].period].year])
Watched == orderly' = (orderly /\ InOrder')

\* Variant of YearAllows: no trigger.
YearAllowsAny(ys, r) == TRUE

\* The trigger on periods: none is open in a closed year.
YearAllows(ys, r) == r.status = "open" => ys[r.year].status = "open"

\* The period around a day: at most one, as they do not overlap.
Covered(d) == \E p \in Periods : Within(d, period[p])
PeriodOf(d) == CHOOSE p \in Periods : Within(d, period[p])

\* The period of the month of d, within the first open year around d.
MonthStart(d) == ((d - 1) \div MonthLength) * MonthLength + 1
Around(ys, d) == {y \in YearIds : ys[y].status = "open" /\ Within(d, ys[y])}
AutoPeriod(ys, d) ==
    LET y == CHOOSE y \in Around(ys, d) : \A z \in Around(ys, d) : ys[y].from <= ys[z].from IN
    [year |-> y, from |-> Max({MonthStart(d), ys[y].from}),
     to |-> Min({MonthStart(d) + MonthLength - 1, ys[y].to}), status |-> "open"]

\* periodForDate: the period for an entry of day d, and its row.  None if the
\* period around d is closed: that is never worked around.  opened is a period
\* that the transaction has opened before.
PeriodForDate(ys, opened, d) ==
    IF Covered(d)
    THEN {<<p, [period[p] EXCEPT !.status = "open"]>> :
             p \in {q \in {PeriodOf(d)} : period[q].status = "open" \/ q = opened}}
    ELSE IF Around(ys, d) # {} /\ Periods # PeriodIds
    THEN {<<NextPeriod, r>> : r \in {q \in {AutoPeriod(ys, d)} : Fits(NextPeriod, q)}}
    ELSE {}

\* A document is posted or unposted, with any amounts.
Post(d, lines) ==
    /\ Posted # Entries
    /\ \E found \in PeriodForDate(year, 0, d) :
          /\ period' = [period EXCEPT ![found[1]] = found[2]]
          /\ journal' = [journal EXCEPT ![NextEntry] =
                            [NoEntry EXCEPT !.date = d, !.period = found[1], !.lines = lines]]
    /\ UNCHANGED <<year, edits>> /\ Watched

-----------------------------------------------------------------------------
(* The year-end close. *)

Total(es) == [a \in Accounts |-> MapThenSumSet(LAMBDA e : journal[e].lines[a], es)]
Negated(lines) == [a \in Accounts |-> -lines[a]]
UpTo(d) == {e \in Posted : journal[e].date <= d}

\* The period of the closing entry.  A closed one is opened, for good if it is
\* not one of the year's.
Landing(d) ==
    IF Covered(d)
    THEN LET r == [period[PeriodOf(d)] EXCEPT !.status = "open"] IN
         {<<PeriodOf(d), q>> : q \in {q \in {r} : YearAllows(year, q)}}
    ELSE PeriodForDate(year, 0, d)

\* UPDATE accounting_periods SET status = 'closed' WHERE fiscal_year_id = y
Shut(ps, y) ==
    [p \in PeriodIds |-> IF ps[p].year = y THEN [ps[p] EXCEPT !.status = "closed"] ELSE ps[p]]

\* The next year is created unless one covers its first day, or its name is
\* taken.
RollsOn(ys, y) ==
    LET next == [from |-> year[y].to + 1, to |-> year[y].to + YearLength,
                 status |-> "open", closing |-> 0] IN
    \/ year' = ys
    \/ /\ \A z \in Years : ~Within(next.from, year[z])
       /\ next.to \in Days /\ Years # YearIds
       /\ year' = [ys EXCEPT ![NextYear] = next]

\* Variant of PriorClosed: years may be closed in any order.
PriorClosedOrNot(y) == TRUE

PriorClosed(y) == \A z \in Open \ {y} : year[z].from >= year[y].from

\* The closing entry negates the cumulative balances.
CloseFiscalYear(y) ==
    LET last  == year[y].to
        lines == Total(UpTo(last)) IN
    /\ y \in Open /\ PriorClosed(y)
    /\ IF lines = Nothing
       THEN /\ period' = Shut(period, y) /\ journal' = journal
            /\ RollsOn([year EXCEPT ![y].status = "closed"], y)
       ELSE /\ Posted # Entries
            /\ \E found \in Landing(last) :
                  /\ journal' = [journal EXCEPT ![NextEntry] =
                                    [NoEntry EXCEPT !.date = last, !.period = found[1],
                                                    !.lines = Negated(lines), !.closing = TRUE]]
                  /\ period' = Shut([period EXCEPT ![found[1]] = found[2]], y)
            /\ RollsOn([year EXCEPT ![y].status = "closed", ![y].closing = NextEntry], y)
    /\ UNCHANGED edits /\ Watched

\* Variant of Mirror: the reversal is an ordinary entry.
MirrorPlain(e, p) ==
    [journal[e] EXCEPT !.period = p, !.lines = Negated(@), !.closing = FALSE, !.reverses = e]

\* reverseEntry: the mirror of an entry, closing like it.
Mirror(e, p) == [journal[e] EXCEPT !.period = p, !.lines = Negated(@), !.reverses = e]

\* Variant of Kept: the year forgets its entry and nothing else is done.
KeptAlways(y) == TRUE

\* There is nothing to reverse.
Kept(y) == year[y].closing = 0

\* The year is opened first, then the period of the entry, and the reversal
\* lands in whichever period its date is in by now.
ReopenFiscalYear(y) ==
    LET ys == [year EXCEPT ![y].status = "open", ![y].closing = 0]
        e  == year[y].closing
        p  == journal[e].period IN
    /\ y \in Closed /\ \A z \in Closed : year[z].from <= year[y].from
    /\ year' = ys
    /\ IF Kept(y)
       THEN UNCHANGED <<period, journal>>
       ELSE /\ Posted # Entries
            /\ YearAllows(ys, [period[p] EXCEPT !.status = "open"])
            /\ \E found \in PeriodForDate(ys, p, journal[e].date) :
                  /\ period' = [period EXCEPT ![p].status = "open", ![found[1]] = found[2]]
                  /\ journal' = [journal EXCEPT ![NextEntry] = Mirror(e, found[1])]
    /\ UNCHANGED edits /\ Watched
-----------------------------------------------------------------------------
(* Edits of the calendar. *)

Edited == edits < MaxEdits /\ edits' = edits + 1

CreateFiscalYear(from, to) ==
    /\ Years # YearIds /\ from <= to
    /\ year' = [year EXCEPT ![NextYear] = [from |-> from, to |-> to, status |-> "open", closing |-> 0]]
    /\ Edited /\ UNCHANGED <<period, journal>> /\ Watched

\* The dates of a year: those of a closed one are no exception.
UpdateFiscalYear(y, from, to) ==
    /\ y \in Years /\ from <= to /\ <<from, to>> # <<year[y].from, year[y].to>>
    /\ year' = [year EXCEPT ![y].from = from, ![y].to = to]
    /\ Edited /\ UNCHANGED <<period, journal>>
    /\ orderly' = (orderly /\ InOrder' /\ y \in Open)

\* A row that the constraints and the trigger allow period p to have.
Allowed(p, r) == r.from <= r.to /\ Fits(p, r) /\ YearAllows(year, r)

CreateAccountingPeriod(y, from, to) ==
    LET r == [year |-> y, from |-> from, to |-> to, status |-> "open"] IN
    /\ Periods # PeriodIds /\ Allowed(NextPeriod, r)
    /\ period' = [period EXCEPT ![NextPeriod] = r]
    /\ Edited /\ UNCHANGED <<year, journal>> /\ Watched

\* The edit form, and the whole row that the Periods screen writes back.
UpdateAccountingPeriod(p, y, from, to, status) ==
    LET r == [year |-> y, from |-> from, to |-> to, status |-> status] IN
    /\ p \in Periods /\ [r EXCEPT !.status = period[p].status] # period[p] /\ Allowed(p, r)
    /\ period' = [period EXCEPT ![p] = r]
    /\ Edited /\ UNCHANGED <<year, journal>> /\ Watched

\* toggleStatus, of a row that is up to date.
Toggle(p) ==
    LET r == [period[p] EXCEPT !.status = IF @ = "open" THEN "closed" ELSE "open"] IN
    /\ p \in Periods /\ Allowed(p, r)
    /\ period' = [period EXCEPT ![p] = r]
    /\ UNCHANGED <<year, journal, edits>> /\ Watched

-----------------------------------------------------------------------------
\* A first year, no periods and no entries yet.
Init ==
    /\ year = [y \in YearIds |->
                  IF y = 1 THEN [from |-> 1, to |-> YearLength, status |-> "open", closing |-> 0] ELSE NoYear]
    /\ period = [p \in PeriodIds |-> NoPeriod]
    /\ journal = [e \in Entries |-> NoEntry]
    /\ edits = 0 /\ orderly = TRUE

Use ==
    \/ \E d \in Days, lines \in Postings : Post(d, lines)
    \/ \E y \in YearIds : CloseFiscalYear(y) \/ ReopenFiscalYear(y)
    \/ \E p \in PeriodIds : Toggle(p)

Edit ==
    \/ \E from, to \in Days : CreateFiscalYear(from, to)
    \/ \E y \in Years, from, to \in Days : UpdateFiscalYear(y, from, to) \/ CreateAccountingPeriod(y, from, to)
    \/ \E p \in Periods, y \in Years, from, to \in Days, status \in {"open", "closed"} :
          UpdateAccountingPeriod(p, y, from, to, status)

Next == Use \/ Edit
Spec == Init /\ [][Next]_vars

-----------------------------------------------------------------------------
(* Properties. *)

\* Years, periods and entries have the shapes of the tables; periods do not
\* overlap, and a closing entry, reversal or period refers to a row there is.
TypeOK ==
    /\ year \in [YearIds -> [from : {0} \cup Days, to : {0} \cup Days, status : {"none", "open", "closed"},
                             closing : {0} \cup Posted]]
    /\ period \in [PeriodIds -> [year : {0} \cup Years, from : {0} \cup Days, to : {0} \cup Days,
                                 status : {"none", "open", "closed"}]]
    /\ journal \in [Entries -> [date : {0} \cup Days, period : {0} \cup Periods, lines : [Accounts -> Int],
                                closing : BOOLEAN, reverses : {0} \cup Posted]]
    /\ \A p \in Periods : \A q \in Periods \ {p} : ~Overlap(period[p], period[q])

\* "An accounting period in a closed fiscal year may not be open", in whatever
\* order years are closed and periods are opened, moved between years, created
\* for a posting or opened for a closing entry.
ClosedYearShut == \A p \in Periods : period[p].status = "open" => year[period[p].year].status = "open"

\* Whatever happens to the calendar, the closing entries that have not been
\* reversed are those of the closed years, one each: none is left in the ledger
\* when its year is reopened, and none is reversed but by that.
Reversed == {journal[e].reverses : e \in Posted}
Live == {e \in Posted : journal[e].closing /\ journal[e].reverses = 0 /\ e \notin Reversed}
ClosingOwned ==
    /\ {year[y].closing : y \in Years} \ {0} = Live
    /\ \A y \in Years : year[y].closing # 0 => y \in Closed /\ \A z \in Years \ {y} : year[z].closing # year[y].closing

\* As long as the calendar has been in order, every revenue and expense account
\* is at zero at the end of a closed year once the years before it are closed
\* too: what was posted is swept, and swept once, and nothing is added later.
Before(y) == {z \in Years : year[z].from < year[y].from}
SweptOnce ==
    orderly => \A y \in Closed : Before(y) \subseteq Closed => Total(UpTo(year[y].to)) = Nothing

\* Under the same condition an open year has the balances its documents gave
\* it: reopening takes the closing entry out of the accounts and out of what
\* income statements leave aside.
During(y) == {e \in Posted : Within(journal[e].date, year[y])}
OpenYearRestored ==
    orderly => \A y \in Open : Total(During(y)) = Total({e \in During(y) : ~journal[e].closing})

\* "Together the two triggers make a closed year immutable until it is
\* explicitly reopened": no entry is added on a day of a closed year.
ClosedYearImmutable ==
    [][\A y \in Closed : year'[y].status = "closed" =>
          \A e \in Posted' \ Posted : ~Within(journal'[e].date, year[y])]_vars

=============================================================================
