----------------------------- MODULE YearProofs -----------------------------
(***************************************************************************)
(* Proofs about FiscalYears for every calendar and every set of accounts:  *)
(* closed years stay shut, own their closing entries and are swept once.   *)
(***************************************************************************)
EXTENDS FiscalYears, SumTheorems, TLAPS

-----------------------------------------------------------------------------
(* The inductive invariant, of the rows ys of years, ps of periods and j of *)
(* entries.                                                                *)

YearRow == [from : Days, to : Days, status : {"open", "closed"}, closing : {0} \cup Entries]
PeriodRow == [year : YearIds, from : Days, to : Days, status : {"open", "closed"}]
EntryRow == [date : Days, period : PeriodIds, lines : [Accounts -> Int],
             closing : BOOLEAN, reverses : {0} \cup Entries]

YearsFine(ys) ==
    /\ ys \in [YearIds -> YearRow \cup {NoYear}]
    /\ \A y \in YearIds : ys[y].from <= ys[y].to

\* Periods belong to years and no two of them overlap.
PeriodsFine(ps, ys) ==
    /\ ps \in [PeriodIds -> PeriodRow \cup {NoPeriod}]
    /\ \A p \in PeriodIds : ps[p] # NoPeriod =>
          /\ ys[ps[p].year] # NoYear
          /\ \A q \in PeriodIds \ {p} : ps[q] # NoPeriod => ~Overlap(ps[p], ps[q])

EntriesFine(j, ps) ==
    /\ j \in [Entries -> EntryRow \cup {NoEntry}]
    /\ \A e \in Entries : j[e] # NoEntry =>
          /\ ps[j[e].period] # NoPeriod
          /\ j[e].reverses # 0 => j[j[e].reverses] # NoEntry

\* No period is open in a closed year.
ShutIn(ps, ys) == \A p \in PeriodIds : ps[p].status = "open" => ys[ps[p].year].status = "open"

\* The closing entries not reversed are those of the closed years, one each.
LiveIn(j) == {e \in Entries : j[e].closing /\ j[e].reverses = 0 /\ \A f \in Entries : j[f].reverses # e}
OwnedIn(ys, j) ==
    /\ \A y \in YearIds : ys[y].closing # 0 =>
          /\ ys[y].status = "closed" /\ ys[y].closing \in LiveIn(j)
          /\ \A z \in YearIds \ {y} : ys[z].closing # ys[y].closing
    /\ \A e \in LiveIn(j) : \E y \in YearIds : ys[y].closing = e

\* The entries on the days of a year, and the balance of an account over some.
InYear(j, r) == {e \in Entries : j[e] # NoEntry /\ Within(j[e].date, r)}
ClosingIn(j, r) == {e \in InYear(j, r) : j[e].closing}
Balance(j, a, es) == SumOver([e \in Entries |-> j[e].lines[a]], es)

\* Years apart, and every entry in the year of its period.
ApartIn(ys) ==
    \A y \in YearIds : \A z \in YearIds \ {y} : ys[y] # NoYear /\ ys[z] # NoYear => ~Overlap(ys[y], ys[z])
DatedIn(ys, ps, j) == \A e \in Entries : j[e] # NoEntry => Within(j[e].date, ys[ps[j[e].period].year])

\* The closing entries on the days of a year come to the one that stands, which
\* is one of them, and everything on the days of a closed year to nothing.
SweptIn(r, j) ==
    /\ r.closing # 0 => r.closing \in InYear(j, r)
    /\ \A a \in Accounts :
          /\ Balance(j, a, ClosingIn(j, r)) = IF r.closing = 0 THEN 0 ELSE j[r.closing].lines[a]
          /\ r.status = "closed" => Balance(j, a, InYear(j, r)) = 0

Sound(ys, ps, j) ==
    YearsFine(ys) /\ PeriodsFine(ps, ys) /\ EntriesFine(j, ps) /\ ShutIn(ps, ys) /\ OwnedIn(ys, j)
Swept(ys, ps, j) ==
    ApartIn(ys) /\ DatedIn(ys, ps, j) /\ \A y \in YearIds : ys[y] # NoYear => SweptIn(ys[y], j)

IInv ==
    /\ Sound(year, period, journal)
    /\ orderly \in BOOLEAN /\ (orderly => Swept(year, period, journal))

-----------------------------------------------------------------------------
(* Arithmetic. *)

\* A set of naturals has its minimum.
LEMMA MinIn ==
    ASSUME NEW S \in SUBSET Nat, S # {}
    PROVE  Min(S) \in S /\ \A y \in S : Min(S) <= y
BY Smallest DEF Min

LEMMA MinOfTwo ==
    ASSUME NEW a \in Int, NEW b \in Int
    PROVE  Min({a, b}) = IF a <= b THEN a ELSE b
BY DEF Min

LEMMA MaxOfTwo ==
    ASSUME NEW a \in Int, NEW b \in Int
    PROVE  Max({a, b}) = IF a >= b THEN a ELSE b
BY DEF Max

\* A day lies in its month.
LEMMA InMonth ==
    ASSUME NEW d \in Days
    PROVE  /\ MonthStart(d) \in Int /\ MonthStart(d) <= d
           /\ d <= MonthStart(d) + MonthLength - 1
<1> DEFINE n == d - 1
           start == (n \div MonthLength) * MonthLength
<1>1. \A i \in Nat, m \in Nat \ {0} : /\ (i \div m) * m <= i /\ i < (i \div m) * m + m
                                      /\ (i \div m) * m \in Int
  OBVIOUS
<1>2. n \in Nat /\ MonthLength \in Nat \ {0} /\ d = n + 1 /\ MonthStart(d) = start + 1
  BY CalendarAssumption DEF MonthStart
<1> HIDE DEF n
<1>3. start <= n /\ n < start + MonthLength /\ start \in Int
  BY <1>1, <1>2
<1> HIDE DEF start
<1> QED BY <1>2, <1>3

\* A row that is there is none of the empty ones.
LEMMA RowsThere ==
    /\ \A r \in YearRow : r # NoYear
    /\ \A r \in PeriodRow : r # NoPeriod
    /\ \A r \in EntryRow : r # NoEntry
BY CalendarAssumption DEF YearRow, PeriodRow, EntryRow, NoYear, NoPeriod, NoEntry

LEMMA Numbers ==
    Days \subseteq Int /\ 0 \notin Days /\ 0 \notin YearIds /\ 0 \notin PeriodIds /\ 0 \notin Entries
BY CalendarAssumption

LEMMA YearIs ==
    ASSUME NEW ys, YearsFine(ys), NEW y \in YearIds
    PROVE  /\ ys[y].from \in Int /\ ys[y].to \in Int /\ ys[y].from <= ys[y].to
           /\ ys[y] # NoYear => ys[y] \in YearRow
<1>1. ys[y] \in YearRow \/ ys[y] = NoYear
  BY DEF YearsFine
<1>2. ys[y].from <= ys[y].to
  BY DEF YearsFine
<1>3. ys[y].from \in Int /\ ys[y].to \in Int
  <2>1. CASE ys[y] = NoYear
    BY <2>1 DEF NoYear
  <2>2. CASE ys[y] \in YearRow
    <3>1. ys[y].from \in Days /\ ys[y].to \in Days
      BY <2>2 DEF YearRow
    <3> QED BY <3>1, Numbers
  <2> QED BY <1>1, <2>1, <2>2
<1> QED BY <1>1, <1>2, <1>3

LEMMA PeriodIs ==
    ASSUME NEW ys, NEW ps, PeriodsFine(ps, ys), NEW p \in PeriodIds, ps[p] # NoPeriod
    PROVE  ps[p] \in PeriodRow /\ ps[p].year \in YearIds /\ ys[ps[p].year] # NoYear
BY DEF PeriodsFine, PeriodRow

LEMMA EntryIs ==
    ASSUME NEW ps, NEW j, EntriesFine(j, ps), NEW e \in Entries, j[e] # NoEntry
    PROVE  /\ j[e] \in EntryRow /\ j[e].date \in Days /\ j[e].date \in Int
           /\ j[e].period \in PeriodIds /\ ps[j[e].period] # NoPeriod
<1>1. j[e] \in EntryRow /\ ps[j[e].period] # NoPeriod
  BY DEF EntriesFine
<1> QED BY <1>1, Numbers DEF EntryRow

-----------------------------------------------------------------------------
(* Rows. *)

\* A period is opened, created or changed: qs are the periods ps with q at i.
PeriodPut(qs, ps, ys, i, q) ==
    /\ PeriodsFine(ps, ys) /\ i \in PeriodIds /\ q \in PeriodRow /\ ys[q.year] # NoYear
    /\ \A p \in PeriodIds \ {i} : ps[p] # NoPeriod => ~Overlap(ps[p], q)
    /\ qs = [ps EXCEPT ![i] = q]

LEMMA PutPeriod ==
    ASSUME NEW qs, NEW ps, NEW ys, NEW i, NEW q, PeriodPut(qs, ps, ys, i, q)
    PROVE  /\ PeriodsFine(qs, ys)
           /\ \A p \in PeriodIds : qs[p] = IF p = i THEN q ELSE ps[p]
<1> USE DEF PeriodPut
<1>1. qs \in [PeriodIds -> PeriodRow \cup {NoPeriod}]
  BY DEF PeriodsFine
<1>2. \A p \in PeriodIds : qs[p] = IF p = i THEN q ELSE ps[p]
  BY DEF PeriodsFine
<1>3. ASSUME NEW p \in PeriodIds, qs[p] # NoPeriod
      PROVE  /\ ys[qs[p].year] # NoYear
             /\ \A r \in PeriodIds \ {p} : qs[r] # NoPeriod => ~Overlap(qs[p], qs[r])
  BY <1>2, <1>3 DEF PeriodsFine, Overlap
<1>4. PeriodsFine(qs, ys)
  BY <1>1, <1>3 DEF PeriodsFine
<1> QED BY <1>2, <1>4

\* All the periods of a year are closed.
LEMMA ShutRows ==
    ASSUME NEW ys, NEW ps, PeriodsFine(ps, ys), NEW y \in YearIds
    PROVE  /\ PeriodsFine(Shut(ps, y), ys)
           /\ \A p \in PeriodIds :
                 /\ ps[p] # NoPeriod => Shut(ps, y)[p] # NoPeriod
                 /\ Shut(ps, y)[p].year = ps[p].year
                 /\ Shut(ps, y)[p].status = "open" => ps[p].status = "open" /\ ps[p].year # y
<1> DEFINE qs == Shut(ps, y)
<1>1. \A p \in PeriodIds : qs[p] = IF ps[p].year = y THEN [ps[p] EXCEPT !.status = "closed"] ELSE ps[p]
  BY DEF Shut
<1>3. qs = [p \in PeriodIds |-> qs[p]]
  BY DEF Shut
<1> HIDE DEF qs
<1>2. ASSUME NEW p \in PeriodIds
      PROVE  /\ ps[p] = NoPeriod => qs[p] = NoPeriod
             /\ ps[p] # NoPeriod => qs[p] \in PeriodRow
             /\ qs[p].year = ps[p].year /\ qs[p].from = ps[p].from /\ qs[p].to = ps[p].to
             /\ qs[p].status = "open" => ps[p].status = "open" /\ ps[p].year # y
  <2>1. ps[p] \in PeriodRow \/ ps[p] = NoPeriod
    BY DEF PeriodsFine
  <2>2. CASE ps[p] = NoPeriod
    <3>1. 0 # y /\ ps[p].year = 0
      BY <2>2, CalendarAssumption DEF NoPeriod
    <3> QED BY <1>1, <2>2, <3>1, RowsThere DEF NoPeriod
  <2>3. CASE ps[p] \in PeriodRow
    BY <1>1, <2>3, RowsThere DEF PeriodRow
  <2> QED BY <2>1, <2>2, <2>3
<1>4. qs \in [PeriodIds -> PeriodRow \cup {NoPeriod}]
  BY <1>2, <1>3
<1>5. PeriodsFine(qs, ys)
  BY <1>2, <1>4 DEF PeriodsFine, Overlap
<1> QED BY <1>2, <1>5, RowsThere DEF qs

\* Periods and entries stay fine when rows are added before them.
LEMMA RowsKept ==
    ASSUME NEW ys, NEW zs, NEW ps, NEW qs, NEW j
    PROVE  /\ PeriodsFine(ps, ys) /\ (\A y \in YearIds : ys[y] # NoYear => zs[y] # NoYear) => PeriodsFine(ps, zs)
           /\ EntriesFine(j, ps) /\ (\A p \in PeriodIds : ps[p] # NoPeriod => qs[p] # NoPeriod) => EntriesFine(j, qs)
<1>1. ASSUME PeriodsFine(ps, ys), \A y \in YearIds : ys[y] # NoYear => zs[y] # NoYear
      PROVE  PeriodsFine(ps, zs)
  <2>1. \A p \in PeriodIds : ps[p] # NoPeriod => ps[p].year \in YearIds
    BY <1>1 DEF PeriodsFine, PeriodRow
  <2> QED BY <1>1, <2>1 DEF PeriodsFine
<1>2. ASSUME EntriesFine(j, ps), \A p \in PeriodIds : ps[p] # NoPeriod => qs[p] # NoPeriod
      PROVE  EntriesFine(j, qs)
  <2>1. \A e \in Entries : j[e] # NoEntry => j[e].period \in PeriodIds
    BY <1>2 DEF EntriesFine, EntryRow
  <2> QED BY <1>2, <2>1 DEF EntriesFine
<1> QED BY <1>1, <1>2

\* An entry is added: k is the journal j with the row r at n.
EntryAdded(k, j, ps, n, r) ==
    /\ EntriesFine(j, ps) /\ n \in Entries /\ j[n] = NoEntry /\ r \in EntryRow
    /\ ps[r.period] # NoPeriod /\ (r.reverses # 0 => j[r.reverses] # NoEntry)
    /\ k = [j EXCEPT ![n] = r]

LEMMA PutEntry ==
    ASSUME NEW k, NEW j, NEW ps, NEW n, NEW r, EntryAdded(k, j, ps, n, r)
    PROVE  /\ EntriesFine(k, ps)
           /\ \A e \in Entries : k[e] = IF e = n THEN r ELSE j[e]
           /\ LiveIn(k) = (LiveIn(j) \ {r.reverses}) \cup {e \in {n} : r.closing /\ r.reverses = 0}
<1> USE DEF EntryAdded
<1>1. k \in [Entries -> EntryRow \cup {NoEntry}]
  BY DEF EntriesFine
<1>2. \A e \in Entries : k[e] = IF e = n THEN r ELSE j[e]
  BY DEF EntriesFine
<1>3. \A e \in Entries : j[e].reverses \in {0} \cup Entries /\ j[e].reverses # n
  <2>1. ASSUME NEW e \in Entries PROVE j[e].reverses \in {0} \cup Entries
    BY DEF EntriesFine, EntryRow, NoEntry
  <2>2. ASSUME NEW e \in Entries PROVE j[e].reverses # n
    <3>1. n # 0
      BY CalendarAssumption
    <3>2. CASE j[e] = NoEntry
      BY <3>1, <3>2 DEF NoEntry
    <3>3. CASE j[e] # NoEntry
      BY <3>1, <3>3 DEF EntriesFine
    <3> QED BY <3>2, <3>3
  <2> QED BY <2>1, <2>2
<1>4. r.reverses \in {0} \cup Entries /\ r.reverses # n /\ r # NoEntry
  BY RowsThere, CalendarAssumption DEF EntryRow
<1>5. EntriesFine(k, ps)
  BY <1>1, <1>2, <1>3, <1>4 DEF EntriesFine
<1>6. n \notin LiveIn(j)
  BY DEF LiveIn, NoEntry
<1>7. ASSUME NEW e \in Entries \ {n} PROVE e \in LiveIn(k) <=> e \in LiveIn(j) /\ e # r.reverses
  <2>1. e # 0 /\ j[n].reverses = 0
    BY CalendarAssumption DEF NoEntry
  <2>2. (\A f \in Entries : k[f].reverses # e) <=> (\A f \in Entries : j[f].reverses # e) /\ r.reverses # e
    BY <1>2, <2>1
  <2> QED BY <1>2, <2>2 DEF LiveIn
<1>8. n \in LiveIn(k) <=> r.closing /\ r.reverses = 0
  BY <1>2, <1>3, <1>4 DEF LiveIn
<1>9. LiveIn(k) \subseteq Entries /\ LiveIn(j) \subseteq Entries
  BY DEF LiveIn
<1>10. LiveIn(k) = (LiveIn(j) \ {r.reverses}) \cup {e \in {n} : r.closing /\ r.reverses = 0}
  BY <1>6, <1>7, <1>8, <1>9
<1> QED BY <1>2, <1>5, <1>10

-----------------------------------------------------------------------------
(* Balances. *)

LEMMA BalanceOf ==
    ASSUME NEW ps, NEW j, EntriesFine(j, ps), NEW a \in Accounts
    PROVE  /\ \A e \in Entries : [f \in Entries |-> j[f].lines[a]][e] = j[e].lines[a] /\ j[e].lines[a] \in Int
           /\ \A S \in SUBSET Entries : IsFiniteSet(S) /\ Balance(j, a, S) \in Int
<1>1. ASSUME NEW e \in Entries PROVE j[e].lines[a] \in Int
  BY DEF EntriesFine, EntryRow, NoEntry, Nothing
<1>2. \A S \in SUBSET Entries : IsFiniteSet(S)
  BY CalendarAssumption, FS_Subset
<1> QED BY <1>1, <1>2, SumInt DEF Balance

\* The module's own totals.
LEMMA TotalIs ==
    ASSUME NEW es \in SUBSET Entries, NEW a \in Accounts
    PROVE  Total(es)[a] = Balance(journal, a, es)
<1> DEFINE F == [e \in Entries |-> journal[e].lines[a]]
           Adding(g) == [T \in SUBSET es |-> IF T = {} THEN 0
                            ELSE journal[CHOOSE x \in T : TRUE].lines[a] + g[T \ {CHOOSE x \in T : TRUE}]]
<1>1. ASSUME NEW g PROVE Adds(g, F, es) <=> g = Adding(g)
  BY DEF Adds
<1>2. Total(es)[a] = (CHOOSE g : g = Adding(g))[es]
  <2>1. Total(es)[a] = MapThenSumSet(LAMBDA e : journal[e].lines[a], es)
    BY Zenon DEF Total
  <2> QED BY <2>1, Zenon DEF MapThenSumSet, MapThenFoldSet
<1>3. IsFiniteSet(es)
  BY CalendarAssumption, FS_Subset
<1> HIDE DEF F, Adding
<1>4. PICK g : g = Adding(g)
  BY <1>1, <1>3, AddsExists
<1>5. Adds(CHOOSE h : h = Adding(h), F, es)
  BY <1>1, <1>4
<1> QED BY <1>2, <1>3, <1>5, SumIs DEF F, Balance

\* A new entry adds its amounts, to what is on its day.
LEMMA BalanceGrows ==
    ASSUME NEW k, NEW j, NEW ps, NEW n, NEW r, EntryAdded(k, j, ps, n, r),
           NEW a \in Accounts, NEW S \in SUBSET (Entries \ {n})
    PROVE  /\ Balance(k, a, S) = Balance(j, a, S)
           /\ Balance(k, a, S \cup {n}) = Balance(j, a, S) + r.lines[a]
<1> USE DEF EntryAdded
<1> DEFINE F == [e \in Entries |-> j[e].lines[a]]
           G == [e \in Entries |-> k[e].lines[a]]
<1>1. IsFiniteSet(S) /\ \A e \in S : F[e] \in Int /\ F[e] = G[e]
  <2>1. \A e \in S : k[e] = j[e]
    BY DEF EntriesFine
  <2> QED BY <2>1, BalanceOf
<1>2. k[n] = r /\ G[n] = r.lines[a] /\ r.lines[a] \in Int
  BY DEF EntriesFine, EntryRow
<1> HIDE DEF F, G
<1>3. SumOver(G, S) = SumOver(F, S) /\ SumOver(F, S) \in Int
  BY <1>1, SumSame, SumInt
<1>4. n \notin S /\ \A e \in S \cup {n} : G[e] \in Int
  BY <1>1, <1>2
<1>5. SumOver(G, S \cup {n}) = G[n] + SumOver(G, S)
  BY <1>1, <1>4, SumAdd
<1> QED BY <1>2, <1>3, <1>5 DEF F, G, Balance

LEMMA YearGrows ==
    ASSUME NEW k, NEW j, NEW ps, NEW n, NEW r, EntryAdded(k, j, ps, n, r), NEW y
    PROVE  /\ InYear(k, y) = InYear(j, y) \cup {e \in {n} : Within(r.date, y)}
           /\ \A a \in Accounts :
                 /\ Balance(k, a, InYear(k, y))
                       = Balance(j, a, InYear(j, y)) + IF Within(r.date, y) THEN r.lines[a] ELSE 0
                 /\ Balance(k, a, ClosingIn(k, y))
                       = Balance(j, a, ClosingIn(j, y))
                         + IF Within(r.date, y) /\ r.closing THEN r.lines[a] ELSE 0
<1>1. \A e \in Entries : k[e] = IF e = n THEN r ELSE j[e]
  BY PutEntry
<1>2. InYear(k, y) = InYear(j, y) \cup {e \in {n} : Within(r.date, y)}
  BY <1>1, RowsThere DEF InYear, EntryAdded
<1>3. ClosingIn(k, y) = ClosingIn(j, y) \cup {e \in {n} : Within(r.date, y) /\ r.closing}
  BY <1>1, RowsThere DEF ClosingIn, InYear, EntryAdded
<1>4. InYear(j, y) \in SUBSET (Entries \ {n}) /\ ClosingIn(j, y) \in SUBSET (Entries \ {n})
  BY DEF InYear, ClosingIn, EntryAdded
<1>5. ASSUME NEW a \in Accounts, NEW S \in SUBSET (Entries \ {n}), NEW N \in SUBSET {n}
      PROVE  Balance(k, a, S \cup N) = Balance(j, a, S) + IF n \in N THEN r.lines[a] ELSE 0
  <2>1. Balance(j, a, S) \in Int
    <3>1. S \in SUBSET Entries
      OBVIOUS
    <3> QED BY <3>1, BalanceOf DEF EntryAdded
  <2>2. Balance(k, a, S) = Balance(j, a, S) /\ Balance(k, a, S \cup {n}) = Balance(j, a, S) + r.lines[a]
    BY BalanceGrows
  <2>3. CASE n \in N
    <3>1. S \cup N = S \cup {n}
      BY <2>3
    <3> QED BY <2>2, <2>3, <3>1
  <2>4. CASE n \notin N
    <3>1. S \cup N = S
      BY <2>4
    <3>2. Balance(k, a, S \cup N) = Balance(j, a, S)
      BY <2>2, <3>1
    <3>3. Balance(j, a, S) + 0 = Balance(j, a, S)
      BY <2>1
    <3> QED BY <2>4, <3>2, <3>3
  <2> QED BY <2>3, <2>4
<1> DEFINE In == {e \in {n} : Within(r.date, y)}
           Closes == {e \in {n} : Within(r.date, y) /\ r.closing}
<1>6. /\ In \in SUBSET {n} /\ (n \in In <=> Within(r.date, y))
      /\ Closes \in SUBSET {n} /\ (n \in Closes <=> Within(r.date, y) /\ r.closing)
  OBVIOUS
<1>7. InYear(k, y) = InYear(j, y) \cup In /\ ClosingIn(k, y) = ClosingIn(j, y) \cup Closes
  BY <1>2, <1>3
<1> HIDE DEF In, Closes
<1>8. ASSUME NEW a \in Accounts
      PROVE                 /\ Balance(k, a, InYear(k, y))
                             = Balance(j, a, InYear(j, y)) + IF n \in In THEN r.lines[a] ELSE 0
                          /\ Balance(k, a, ClosingIn(k, y))
                             = Balance(j, a, ClosingIn(j, y)) + IF n \in Closes THEN r.lines[a] ELSE 0
  BY <1>4, <1>5, <1>6, <1>7
<1> QED BY <1>2, <1>6, <1>8

-----------------------------------------------------------------------------
(* What closing and posting look for. *)

\* The entries on days before a year's end balance as those of the year do,
\* once the years before it are closed.
LEMMA SweptBefore ==
    ASSUME NEW ys, NEW ps, NEW j, Sound(ys, ps, j), Swept(ys, ps, j),
           NEW y \in YearIds, ys[y] # NoYear, NEW a \in Accounts,
           \A z \in YearIds \ {y} : ys[z] # NoYear /\ ys[z].from < ys[y].from => ys[z].status = "closed"
    PROVE  Balance(j, a, {e \in Entries : j[e] # NoEntry /\ j[e].date <= ys[y].to})
              = Balance(j, a, InYear(j, ys[y]))
<1> DEFINE Z == {z \in YearIds \ {y} : ys[z] # NoYear /\ ys[z].from < ys[y].from}
           On(T) == {e \in Entries : j[e] # NoEntry /\ \E z \in T : Within(j[e].date, ys[z])}
           Good == {T \in SUBSET Z : Balance(j, a, On(T)) = 0}
           F == [e \in Entries |-> j[e].lines[a]]
<1>1. EntriesFine(j, ps) /\ ApartIn(ys) /\ DatedIn(ys, ps, j) /\ YearsFine(ys) /\ PeriodsFine(ps, ys)
  BY DEF Sound, Swept
<1>2. \A S \in SUBSET Entries : IsFiniteSet(S) /\ \A e \in S : F[e] \in Int
  BY <1>1, BalanceOf
<1>3. ASSUME NEW S \in SUBSET Entries, NEW R \in SUBSET Entries, R \cap S = {}
      PROVE  Balance(j, a, R \cup S) = Balance(j, a, R) + Balance(j, a, S)
  <2> HIDE DEF F
  <2>1. \A x \in R \cup S : F[x] \in Int
    BY <1>2
  <2>2. IsFiniteSet(R) /\ IsFiniteSet(S)
    BY <1>2
  <2>3. SumOver(F, R \cup S) = SumOver(F, R) + SumOver(F, S)
    BY <1>3, <2>1, <2>2, SumDisjoint
  <2> QED BY <2>3 DEF F, Balance
<1>4. \A z \in YearIds : ys[z] # NoYear => ys[z].from \in Int /\ ys[z].to \in Int /\ ys[z].from <= ys[z].to
  BY <1>1, YearIs
<1>5. \A e \in Entries : j[e] # NoEntry =>
         /\ j[e].date \in Int
         /\ ps[j[e].period].year \in YearIds /\ ys[ps[j[e].period].year] # NoYear
         /\ Within(j[e].date, ys[ps[j[e].period].year])
  <2>1. ASSUME NEW e \in Entries, j[e] # NoEntry
        PROVE  j[e].date \in Int /\ j[e].period \in PeriodIds /\ ps[j[e].period] # NoPeriod
    BY <1>1, <2>1, EntryIs
  <2>2. \A p \in PeriodIds : ps[p] # NoPeriod => ps[p].year \in YearIds /\ ys[ps[p].year] # NoYear
    BY <1>1, PeriodIs
  <2> QED BY <1>1, <2>1, <2>2 DEF DatedIn
<1>6. {} \in Good
  <2>1. On({}) = {}
    OBVIOUS
  <2> QED BY <2>1, SumEmpty DEF Balance
<1>7. ASSUME NEW T \in SUBSET Z, NEW z \in Z \ T, T \in Good PROVE T \cup {z} \in Good
  <2>1. z \in YearIds /\ z # y /\ ys[z] # NoYear /\ ys[z].status = "closed"
    OBVIOUS
  <2>2. Balance(j, a, InYear(j, ys[z])) = 0
    BY <2>1 DEF Swept, SweptIn
  <2>3. On(T) \cap InYear(j, ys[z]) = {}
    <3>1. SUFFICES ASSUME NEW e \in Entries, j[e] # NoEntry, NEW x \in T,
                          Within(j[e].date, ys[x]), Within(j[e].date, ys[z])
                   PROVE  FALSE
      BY DEF InYear
    <3>2. x \in YearIds /\ x # z /\ ys[x] # NoYear
      OBVIOUS
    <3>3. ~Overlap(ys[x], ys[z])
      BY <1>1, <2>1, <3>2 DEF ApartIn
    <3> QED BY <1>4, <1>5, <2>1, <3>1, <3>2, <3>3 DEF Overlap, Within
  <2>4. On(T \cup {z}) = On(T) \cup InYear(j, ys[z])
    BY DEF InYear
  <2>5. On(T) \in SUBSET Entries /\ InYear(j, ys[z]) \in SUBSET Entries /\ Balance(j, a, On(T)) = 0
    BY <1>7 DEF InYear
  <2> HIDE DEF On
  <2>6. Balance(j, a, On(T \cup {z})) = 0
    <3>1. Balance(j, a, On(T) \cup InYear(j, ys[z])) = Balance(j, a, On(T)) + Balance(j, a, InYear(j, ys[z]))
      BY <1>3, <2>3, <2>5
    <3>2. Balance(j, a, On(T)) + Balance(j, a, InYear(j, ys[z])) = 0
      BY <2>2, <2>5
    <3> QED BY <2>4, <3>1, <3>2
  <2>7. T \cup {z} \in SUBSET Z
    OBVIOUS
  <2> HIDE DEF Z
  <2> QED BY <2>6, <2>7
<1>8. Balance(j, a, On(Z)) = 0
  <2>1. IsFiniteSet(Z)
    BY CalendarAssumption, FS_Subset
  <2>2. Z \in Good
    <3> HIDE DEF Good, Z
    <3> QED BY <1>6, <1>7, <2>1, SetInduction
  <2> QED BY <2>2
<1>9. {e \in Entries : j[e] # NoEntry /\ j[e].date <= ys[y].to} = On(Z) \cup InYear(j, ys[y])
  <2>1. ASSUME NEW e \in Entries, j[e] # NoEntry
        PROVE  j[e].date <= ys[y].to <=> Within(j[e].date, ys[y]) \/ \E z \in Z : Within(j[e].date, ys[z])
    <3> DEFINE x == ps[j[e].period].year
    <3>1. x \in YearIds /\ ys[x] # NoYear /\ Within(j[e].date, ys[x]) /\ j[e].date \in Int
      BY <1>5, <2>1
    <3> HIDE DEF x
    <3>2. x # y => ~Overlap(ys[x], ys[y])
      BY <1>1, <3>1 DEF ApartIn
    <3>3. \A z \in Z : ~Overlap(ys[z], ys[y])
      BY <1>1 DEF ApartIn
    <3>4. ys[y].from \in Int /\ ys[y].to \in Int /\ ys[y].from <= ys[y].to
      BY <1>4
    <3>5. ys[x].from \in Int /\ ys[x].to \in Int
      BY <1>4, <3>1
    <3>6. ASSUME j[e].date <= ys[y].to, x # y PROVE x \in Z
      BY <3>1, <3>2, <3>4, <3>5, <3>6 DEF Overlap, Within
    <3>7. ASSUME NEW z \in Z, Within(j[e].date, ys[z]) PROVE j[e].date <= ys[y].to
      BY <1>4, <3>1, <3>3, <3>4, <3>7 DEF Overlap, Within
    <3>8. Within(j[e].date, ys[y]) => j[e].date <= ys[y].to
      BY DEF Within
    <3> QED BY <3>1, <3>6, <3>7, <3>8
  <2> QED BY <2>1 DEF InYear
<1>10. On(Z) \cap InYear(j, ys[y]) = {}
  <2>1. SUFFICES ASSUME NEW e \in Entries, j[e] # NoEntry, NEW z \in Z,
                        Within(j[e].date, ys[z]), Within(j[e].date, ys[y])
                 PROVE  FALSE
    BY DEF InYear
  <2>2. ~Overlap(ys[z], ys[y])
    BY <1>1 DEF ApartIn
  <2> QED BY <1>4, <1>5, <2>1, <2>2 DEF Overlap, Within
<1>11. On(Z) \in SUBSET Entries /\ InYear(j, ys[y]) \in SUBSET Entries
  BY DEF InYear
<1>12. Balance(j, a, InYear(j, ys[y])) \in Int
  BY <1>1, <1>11, BalanceOf
<1> HIDE DEF On, Z
<1> QED BY <1>3, <1>8, <1>9, <1>10, <1>11, <1>12

\* An entry of another day, or an ordinary one in an open year, leaves what is
\* said of a year as it is.
LEMMA SweptAfter ==
    ASSUME NEW k, NEW j, NEW ps, NEW n, NEW r, EntryAdded(k, j, ps, n, r), NEW y \in YearRow, SweptIn(y, j),
           ~Within(r.date, y) \/ (~r.closing /\ y.status # "closed")
    PROVE  SweptIn(y, k)
<1>0. \A e \in Entries : k[e] = IF e = n THEN r ELSE j[e]
  BY PutEntry
<1>1. j[n] = NoEntry /\ \A e \in Entries : k[e] = IF e = n THEN r ELSE j[e]
  BY <1>0 DEF EntryAdded
<1>2. \A a \in Accounts : Balance(j, a, ClosingIn(j, y)) \in Int /\ Balance(j, a, InYear(j, y)) \in Int
  <2>1. ClosingIn(j, y) \in SUBSET Entries /\ InYear(j, y) \in SUBSET Entries
    BY DEF ClosingIn, InYear
  <2> QED BY <2>1, BalanceOf DEF EntryAdded
<1>3. \A a \in Accounts : /\ Balance(k, a, ClosingIn(k, y)) = Balance(j, a, ClosingIn(j, y))
                          /\ y.status = "closed" => Balance(k, a, InYear(k, y)) = Balance(j, a, InYear(j, y))
  BY <1>2, YearGrows
<1>4. y.closing # 0 => y.closing \in InYear(k, y) /\ k[y.closing] = j[y.closing]
  <2>1. InYear(j, y) \subseteq InYear(k, y)
    BY YearGrows
  <2>2. y.closing # 0 => y.closing \in InYear(j, y)
    BY DEF SweptIn
  <2>3. n \notin InYear(j, y)
    BY <1>1 DEF InYear
  <2> QED BY <1>1, <2>1, <2>2, <2>3 DEF InYear
<1> QED BY <1>3, <1>4 DEF SweptIn

\* A new year has no entries on its days, as long as the calendar is in order.
LEMMA SweptNew ==
    ASSUME NEW ys, NEW zs, NEW ps, NEW k, PeriodsFine(ps, ys), EntriesFine(k, ps),
           ApartIn(zs), DatedIn(zs, ps, k), \A y \in YearIds : ys[y] # NoYear => zs[y] # NoYear,
           NEW z \in YearIds, ys[z] = NoYear, zs[z] # NoYear, zs[z].status # "closed", zs[z].closing = 0,
           YearsFine(zs)
    PROVE  SweptIn(zs[z], k)
<1>1. ASSUME NEW e \in Entries, k[e] # NoEntry PROVE ~Within(k[e].date, zs[z])
  <2> DEFINE x == ps[k[e].period].year
  <2>1. k[e].period \in PeriodIds /\ ps[k[e].period] # NoPeriod /\ k[e].date \in Int
    BY <1>1, EntryIs
  <2>2. x \in YearIds /\ ys[x] # NoYear
    BY <2>1, PeriodIs
  <2>3. Within(k[e].date, zs[x])
    BY <1>1 DEF DatedIn
  <2> HIDE DEF x
  <2>4. x # z /\ zs[x] # NoYear /\ ~Overlap(zs[x], zs[z])
    BY <2>2 DEF ApartIn
  <2>5. zs[x].from \in Int /\ zs[x].to \in Int /\ zs[z].from \in Int /\ zs[z].to \in Int
    BY <2>2, <2>4, YearIs
  <2> QED BY <2>1, <2>3, <2>4, <2>5 DEF Overlap, Within
<1>2. InYear(k, zs[z]) = {} /\ ClosingIn(k, zs[z]) = {}
  BY <1>1 DEF InYear, ClosingIn
<1>3. \A a \in Accounts : Balance(k, a, {}) = 0
  BY SumEmpty DEF Balance
<1> QED BY <1>2, <1>3 DEF SweptIn

-----------------------------------------------------------------------------
(* The period of an entry. *)

\* What periodForDate hands out: a period there is, open or opened before by
\* the transaction, or a new one of an open year.
LEMMA FoundIs ==
    ASSUME PeriodsFine(period, year), NEW ys, YearsFine(ys),
           \A y \in YearIds : year[y] # NoYear => ys[y] # NoYear,
           NEW o, NEW d \in Days, NEW found \in PeriodForDate(ys, o, d)
    PROVE  /\ found[1] \in PeriodIds /\ found[2] \in PeriodRow /\ found[2].status = "open"
           /\ ys[found[2].year] # NoYear
           /\ \A p \in PeriodIds \ {found[1]} : period[p] # NoPeriod => ~Overlap(period[p], found[2])
           /\ \/ ys[found[2].year].status = "open"
              \/ /\ period[found[1]] # NoPeriod /\ found[2].year = period[found[1]].year
                 /\ period[found[1]].status = "open" \/ found[1] = o
<1>1. CASE Covered(d)
  <2>1. PeriodOf(d) \in Periods
    BY <1>1 DEF Covered, PeriodOf
  <2>2. /\ found = <<PeriodOf(d), [period[PeriodOf(d)] EXCEPT !.status = "open"]>>
        /\ period[PeriodOf(d)].status = "open" \/ PeriodOf(d) = o
    BY <1>1 DEF PeriodForDate
  <2> DEFINE p == PeriodOf(d)
  <2>3. p \in PeriodIds /\ period[p] # NoPeriod /\ found[1] = p /\ found[2] = [period[p] EXCEPT !.status = "open"]
    BY <2>1, <2>2 DEF Periods
  <2> HIDE DEF p
  <2>4. period[p] \in PeriodRow /\ period[p].year \in YearIds /\ year[period[p].year] # NoYear
    BY <2>3, PeriodIs
  <2>5. /\ found[2] \in PeriodRow /\ found[2].status = "open" /\ found[2].year = period[p].year
        /\ found[2].from = period[p].from /\ found[2].to = period[p].to
    BY <2>3, <2>4 DEF PeriodRow
  <2>6. \A q \in PeriodIds \ {p} : period[q] # NoPeriod => ~Overlap(period[q], found[2])
    BY <2>3, <2>5 DEF PeriodsFine, Overlap
  <2> QED BY <2>2, <2>3, <2>4, <2>5, <2>6 DEF p
<1>2. CASE ~Covered(d)
  <2> DEFINE q == AutoPeriod(ys, d)
  <2>1. Around(ys, d) # {} /\ Periods # PeriodIds /\ found = <<NextPeriod, q>> /\ Fits(NextPeriod, q)
    BY <1>2 DEF PeriodForDate
  <2>2. NextPeriod \in PeriodIds /\ period[NextPeriod] = NoPeriod
    <3>1. PeriodIds \ Periods \in SUBSET Nat /\ PeriodIds \ Periods # {}
      BY <2>1, CalendarAssumption DEF Periods
    <3> QED BY <3>1, MinIn DEF NextPeriod, Periods
  <2> DEFINE y == CHOOSE y \in Around(ys, d) : \A z \in Around(ys, d) : ys[y].from <= ys[z].from
  <2>3. y \in Around(ys, d)
    <3> DEFINE Starts == {ys[z].from : z \in Around(ys, d)}
    <3>1. Starts \in SUBSET Nat /\ Starts # {}
      <4>1. \A z \in Around(ys, d) : ys[z].from \in Nat
        <5>1. ASSUME NEW z \in Around(ys, d) PROVE ys[z].from \in Nat
          <6>1. z \in YearIds /\ ys[z] # NoYear
            BY DEF Around, NoYear
          <6> QED BY <6>1, YearIs, CalendarAssumption DEF YearRow
        <5> QED BY <5>1
      <4> QED BY <2>1, <4>1
    <3> HIDE DEF Starts
    <3>2. \E s \in Starts : \A u \in Starts : s <= u
      BY <3>1, Smallest
    <3>3. \E z \in Around(ys, d) : \A u \in Around(ys, d) : ys[z].from <= ys[u].from
      BY <3>2 DEF Starts
    <3> QED BY <3>3
  <2>4. y \in YearIds /\ ys[y].status = "open" /\ Within(d, ys[y]) /\ ys[y] \in YearRow
    <3>1. y \in YearIds /\ ys[y].status = "open" /\ Within(d, ys[y])
      BY <2>3 DEF Around
    <3> QED BY <3>1, YearIs DEF NoYear
  <2>5. q = [year |-> y, from |-> Max({MonthStart(d), ys[y].from}),
             to |-> Min({MonthStart(d) + MonthLength - 1, ys[y].to}), status |-> "open"]
    BY Zenon DEF AutoPeriod
  <2> HIDE DEF y
  <2>6. Max({MonthStart(d), ys[y].from}) \in Days
    <3>1. ys[y].from \in Days /\ ys[y].from \in Int /\ ys[y].from <= d /\ d \in Int
      BY <2>4, Numbers DEF YearRow, Within
    <3>2. Max({MonthStart(d), ys[y].from}) \in ys[y].from..d
      BY <3>1, InMonth, MaxOfTwo
    <3> QED BY <3>1, <3>2, CalendarAssumption
  <2>7. Min({MonthStart(d) + MonthLength - 1, ys[y].to}) \in Days
    <3>1. ys[y].to \in Days /\ ys[y].to \in Int /\ d <= ys[y].to /\ d \in Int
      BY <2>4, Numbers DEF YearRow, Within
    <3>2. MonthStart(d) + MonthLength - 1 \in Int
      BY InMonth, CalendarAssumption
    <3>3. Min({MonthStart(d) + MonthLength - 1, ys[y].to}) \in d..ys[y].to
      BY <3>1, <3>2, InMonth, MinOfTwo
    <3> QED BY <3>1, <3>3, CalendarAssumption
  <2>8. q \in PeriodRow /\ q.year = y /\ q.status = "open"
    BY <2>4, <2>5, <2>6, <2>7 DEF PeriodRow
  <2> HIDE DEF q
  <2>9. \A p \in PeriodIds : period[p] # NoPeriod => ~Overlap(period[p], q)
    BY <2>1, <2>2 DEF Fits, Periods
  <2> QED BY <2>1, <2>2, <2>4, <2>8, <2>9 DEF NoYear
<1> QED BY <1>1, <1>2

\* The year end's own rule opens a closed period, of an open year only.
LEMMA LandingIs ==
    ASSUME PeriodsFine(period, year), YearsFine(year), NEW d \in Days, NEW found \in Landing(d)
    PROVE  /\ found[1] \in PeriodIds /\ found[2] \in PeriodRow /\ found[2].status = "open"
           /\ year[found[2].year] # NoYear
           /\ \A p \in PeriodIds \ {found[1]} : period[p] # NoPeriod => ~Overlap(period[p], found[2])
           /\ \/ year[found[2].year].status = "open"
              \/ /\ period[found[1]].status = "open" /\ period[found[1]] # NoPeriod
                 /\ found[2].year = period[found[1]].year
<1>1. CASE Covered(d)
  <2>1. PeriodOf(d) \in Periods
    BY <1>1 DEF Covered, PeriodOf
  <2> DEFINE p == PeriodOf(d)
  <2>2. p \in PeriodIds /\ period[p] # NoPeriod
    BY <2>1 DEF Periods
  <2>3. found = <<p, [period[p] EXCEPT !.status = "open"]>> /\ YearAllows(year, found[2])
    BY <1>1 DEF Landing
  <2> HIDE DEF p
  <2>4. period[p] \in PeriodRow /\ period[p].year \in YearIds /\ year[period[p].year] # NoYear
    BY <2>2, PeriodIs
  <2>5. /\ found[2] \in PeriodRow /\ found[2].status = "open" /\ found[2].year = period[p].year
        /\ found[2].from = period[p].from /\ found[2].to = period[p].to
    BY <2>3, <2>4 DEF PeriodRow
  <2>6. \A q \in PeriodIds \ {p} : period[q] # NoPeriod => ~Overlap(period[q], found[2])
    BY <2>2, <2>5 DEF PeriodsFine, Overlap
  <2>7. year[found[2].year].status = "open"
    BY <2>3, <2>5 DEF YearAllows
  <2> QED BY <2>2, <2>3, <2>4, <2>5, <2>6, <2>7
<1>2. CASE ~Covered(d)
  <2>1. found \in PeriodForDate(year, 0, d)
    BY <1>2 DEF Landing
  <2>2. 0 \notin PeriodIds
    BY Numbers
  <2> QED BY <2>1, <2>2, FoundIs
<1> QED BY <1>1, <1>2

\* The id of the entry that is added is a free one.
LEMMA NextEntryFree ==
    ASSUME Posted # Entries
    PROVE  NextEntry \in Entries /\ journal[NextEntry] = NoEntry
<1>1. Entries \ Posted \in SUBSET Nat /\ Entries \ Posted # {}
  BY CalendarAssumption DEF Posted
<1> QED BY <1>1, MinIn DEF NextEntry, Posted

LEMMA NextYearFree ==
    ASSUME Years # YearIds
    PROVE  NextYear \in YearIds /\ year[NextYear] = NoYear
<1>1. YearIds \ Years \in SUBSET Nat /\ YearIds \ Years # {}
  BY CalendarAssumption DEF Years
<1> QED BY <1>1, MinIn DEF NextYear, Years

\* The calendar's order after a step, of its rows.
LEMMA OrderNext ==
    ASSUME InOrder', EntriesFine(journal', period')
    PROVE  ApartIn(year') /\ DatedIn(year', period', journal')
<1>1. ApartIn(year')
  BY DEF InOrder, Years, ApartIn
<1>2. DatedIn(year', period', journal')
  BY DEF InOrder, Posted, DatedIn
<1> QED BY <1>1, <1>2

-----------------------------------------------------------------------------
(* The actions. *)

\* A period is opened or created for an entry, of a year that is open.
LEMMA PeriodOpened ==
    ASSUME NEW qs, NEW ps, NEW ys, NEW i, NEW q, PeriodPut(qs, ps, ys, i, q),
           ShutIn(ps, ys), q.status = "open" => ys[q.year].status = "open"
    PROVE  /\ PeriodsFine(qs, ys) /\ ShutIn(qs, ys) /\ qs[i] = q /\ qs[i] # NoPeriod
           /\ \A p \in PeriodIds : ps[p] # NoPeriod => qs[p] # NoPeriod
<1>1. PeriodsFine(qs, ys) /\ \A p \in PeriodIds : qs[p] = IF p = i THEN q ELSE ps[p]
  BY PutPeriod
<1>2. i \in PeriodIds /\ q \in PeriodRow
  BY DEF PeriodPut
<1> QED BY <1>1, <1>2, RowsThere DEF ShutIn

\* Posting adds an ordinary entry to an open year.
LEMMA PostKeeps ==
    ASSUME IInv, NEW d \in Days, NEW lines \in Postings, Post(d, lines)
    PROVE  IInv'
<1>1. Sound(year, period, journal) /\ PeriodsFine(period, year) /\ ShutIn(period, year) /\ YearsFine(year)
      /\ EntriesFine(journal, period) /\ OwnedIn(year, journal)
  BY DEF IInv, Sound
<1>2. PICK found \in PeriodForDate(year, 0, d) :
         /\ period' = [period EXCEPT ![found[1]] = found[2]]
         /\ journal' = [journal EXCEPT ![NextEntry] =
                           [NoEntry EXCEPT !.date = d, !.period = found[1], !.lines = lines]]
  BY DEF Post
<1> DEFINE i == found[1]
           q == found[2]
           n == NextEntry
           r == [NoEntry EXCEPT !.date = d, !.period = i, !.lines = lines]
<1>3. /\ i \in PeriodIds /\ q \in PeriodRow /\ q.status = "open" /\ year[q.year] # NoYear
      /\ \A p \in PeriodIds \ {i} : period[p] # NoPeriod => ~Overlap(period[p], q)
      /\ \/ year[q.year].status = "open"
         \/ period[i].status = "open" /\ q.year = period[i].year
  BY <1>1, FoundIs, Numbers
<1>4. /\ period' = [period EXCEPT ![i] = q] /\ journal' = [journal EXCEPT ![n] = r]
      /\ year' = year /\ orderly' = (orderly /\ InOrder')
  BY <1>2 DEF Post, Watched
<1>5. n \in Entries /\ journal[n] = NoEntry
  BY NextEntryFree DEF Post
<1>6. r \in EntryRow /\ r.date = d /\ r.period = i /\ r.lines = lines /\ ~r.closing /\ r.reverses = 0
  BY <1>3, CalendarAssumption DEF EntryRow, NoEntry
<1> HIDE DEF i, q, n, r
<1>7. year[q.year].status = "open"
  BY <1>1, <1>3 DEF ShutIn
<1>8. /\ PeriodsFine(period', year) /\ ShutIn(period', year) /\ period'[i] = q /\ period'[i] # NoPeriod
      /\ \A p \in PeriodIds : period[p] # NoPeriod => period'[p] # NoPeriod
  <2>1. PeriodPut(period', period, year, i, q)
    BY <1>1, <1>3, <1>4 DEF PeriodPut
  <2> QED BY <1>1, <1>7, <2>1, PeriodOpened
<1>9. EntriesFine(journal, period')
  BY <1>1, <1>8, RowsKept
<1>10. EntryAdded(journal', journal, period', n, r)
  BY <1>4, <1>5, <1>6, <1>8, <1>9 DEF EntryAdded
<1>11. EntriesFine(journal', period') /\ LiveIn(journal') = LiveIn(journal)
  <2>1. 0 \notin LiveIn(journal)
    BY Numbers DEF LiveIn
  <2> QED BY <1>6, <1>10, <2>1, PutEntry
<1>12. Sound(year, period, journal)'
  BY <1>1, <1>4, <1>8, <1>11 DEF Sound, OwnedIn
<1>13. ASSUME orderly' PROVE Swept(year, period, journal)'
  <2>1. ApartIn(year') /\ DatedIn(year', period', journal') /\ orderly
    BY <1>4, <1>11, <1>13, OrderNext
  <2>2. ASSUME NEW y \in YearIds, year[y] # NoYear PROVE SweptIn(year[y], journal')
    <3>1. SweptIn(year[y], journal) /\ year[y] \in YearRow
      BY <1>1, <2>1, <2>2, YearIs DEF IInv, Swept
    <3>2. Within(d, year[q.year]) /\ q.year \in YearIds
      <4>1. journal'[n] = r /\ journal'[n] # NoEntry
        BY <1>5, <1>6, <1>10, PutEntry, RowsThere
      <4> QED BY <1>3, <1>4, <1>5, <1>6, <1>8, <2>1, <4>1 DEF DatedIn, PeriodRow
    <3>3. CASE y = q.year
      BY <1>6, <1>7, <1>10, <3>1, <3>3, SweptAfter
    <3>4. CASE y # q.year
      <4>1. ~Overlap(year[y], year[q.year])
        BY <1>3, <1>4, <2>1, <2>2, <3>2, <3>4 DEF ApartIn
      <4>2. ~Within(d, year[y])
        BY <1>1, <3>2, <4>1, YearIs, Numbers DEF Overlap, Within
      <4> QED BY <1>6, <1>10, <3>1, <4>2, SweptAfter
    <3> QED BY <3>3, <3>4
  <2> QED BY <1>4, <2>1, <2>2 DEF Swept
<1> QED BY <1>4, <1>12, <1>13 DEF IInv, InOrder

\* The years after a close: the closed one, and perhaps the next.
LEMMA RollsOnRows ==
    ASSUME YearsFine(year), NEW y \in Open, NEW ys, YearsFine(ys), RollsOn(ys, y),
           \A z \in YearIds : year[z] = NoYear <=> ys[z] = NoYear
    PROVE  /\ YearsFine(year')
           /\ \A z \in YearIds : \/ year'[z] = ys[z]
                                 \/ /\ year[z] = NoYear /\ year'[z] # NoYear
                                    /\ year'[z].status = "open" /\ year'[z].closing = 0
<1>1. CASE year' = ys
  BY <1>1
<1>2. CASE year' # ys
  <2> DEFINE next == [from |-> year[y].to + 1, to |-> year[y].to + YearLength,
                      status |-> "open", closing |-> 0]
  <2>1. next.to \in Days /\ Years # YearIds /\ year' = [ys EXCEPT ![NextYear] = next]
    BY <1>2 DEF RollsOn
  <2>2. NextYear \in YearIds /\ year[NextYear] = NoYear
    BY <2>1, NextYearFree
  <2>3. year[y].to \in Days
    <3>1. y \in YearIds /\ year[y] # NoYear
      BY DEF Open, Years
    <3> QED BY <3>1, YearIs DEF YearRow
  <2>4. YearLength \in Nat \ {0} /\ year[y].to \in Int /\ next.to \in Int
    BY <2>1, <2>3, CalendarAssumption, Numbers
  <2>5. next.from \in year[y].to..next.to /\ next.from <= next.to
    BY <2>4
  <2>6. next.from \in Days
    <3>1. \A a, b \in Days : a..b \subseteq Days
      BY CalendarAssumption
    <3> QED BY <2>1, <2>3, <2>5, <3>1
  <2>7. next \in YearRow /\ next.status = "open" /\ next.closing = 0
    BY <2>1, <2>6 DEF YearRow
  <2> HIDE DEF next
  <2>8. year' \in [YearIds -> YearRow \cup {NoYear}] /\ year'[NextYear] = next
        /\ \A z \in YearIds \ {NextYear} : year'[z] = ys[z]
    BY <2>1, <2>2, <2>7 DEF YearsFine
  <2>9. YearsFine(year')
    BY <2>5, <2>8 DEF YearsFine
  <2> QED BY <2>2, <2>7, <2>8, <2>9, RowsThere
<1> QED BY <1>1, <1>2

\* The row of a year is closed or opened: zs are the years ys with y so changed.
YearSet(zs, ys, y, s, c) ==
    /\ YearsFine(zs) /\ zs[y] \in YearRow
    /\ zs[y].from = ys[y].from /\ zs[y].to = ys[y].to /\ zs[y].status = s /\ zs[y].closing = c
    /\ \A z \in YearIds \ {y} : zs[z] = ys[z]

LEMMA SetStatus ==
    ASSUME NEW ys, YearsFine(ys), NEW y \in YearIds, ys[y] # NoYear,
           NEW s \in {"open", "closed"}, NEW c \in {0} \cup Entries
    PROVE  /\ YearSet([ys EXCEPT ![y].status = s], ys, y, s, ys[y].closing)
           /\ YearSet([ys EXCEPT ![y].status = s, ![y].closing = c], ys, y, s, c)
<1> DEFINE R == ys[y]
           one == [R EXCEPT !.status = s]
           two == [R EXCEPT !.status = s, !.closing = c]
<1>1. R \in YearRow /\ R.from <= R.to
  BY YearIs
<1> HIDE DEF R
<1>2. /\ one \in YearRow /\ one.from = R.from /\ one.to = R.to /\ one.status = s /\ one.closing = R.closing
      /\ two \in YearRow /\ two.from = R.from /\ two.to = R.to /\ two.status = s /\ two.closing = c
  BY <1>1 DEF YearRow
<1>3. /\ [ys EXCEPT ![y].status = s] = [ys EXCEPT ![y] = one]
      /\ [ys EXCEPT ![y].status = s, ![y].closing = c] = [ys EXCEPT ![y] = two]
  BY DEF R
<1> HIDE DEF one, two
<1>4. ASSUME NEW r \in YearRow, r.from = R.from, r.to = R.to, r.status = s
      PROVE  YearSet([ys EXCEPT ![y] = r], ys, y, s, r.closing)
  <2> DEFINE zs == [ys EXCEPT ![y] = r]
  <2>1. \A z \in YearIds : zs[z] = IF z = y THEN r ELSE ys[z]
    BY DEF YearsFine
  <2>2. zs \in [YearIds -> YearRow \cup {NoYear}]
    BY <1>4 DEF YearsFine
  <2> HIDE DEF zs
  <2>3. YearsFine(zs)
    BY <1>1, <1>4, <2>1, <2>2 DEF YearsFine
  <2>4. YearSet(zs, ys, y, s, r.closing)
    BY <1>4, <2>1, <2>3 DEF YearSet, R
  <2> QED BY <2>4 DEF zs
<1> QED BY <1>2, <1>3, <1>4 DEF R

\* The years after a close, of the two ways it leaves the closed one's row.
LEMMA ClosedRows ==
    ASSUME YearsFine(year), NEW y \in Open, NEW c \in {0} \cup Entries, NEW ys, RollsOn(ys, y),
           YearSet(ys, year, y, "closed", c)
    PROVE  /\ YearsFine(year') /\ year'[y] \in YearRow
           /\ year'[y].from = year[y].from /\ year'[y].to = year[y].to
           /\ year'[y].status = "closed" /\ year'[y].closing = c
           /\ \A z \in YearIds \ {y} : \/ year'[z] = year[z]
                                       \/ /\ year[z] = NoYear /\ year'[z] # NoYear
                                          /\ year'[z].status = "open" /\ year'[z].closing = 0
           /\ \A z \in YearIds : year[z] # NoYear => year'[z] # NoYear
<1>1. y \in YearIds /\ year[y] # NoYear
  BY DEF Open, Years
<1>2. \A z \in YearIds : year[z] = NoYear <=> ys[z] = NoYear
  BY <1>1, RowsThere DEF YearSet
<1>3. /\ YearsFine(year')
      /\ \A z \in YearIds : \/ year'[z] = ys[z]
                            \/ /\ year[z] = NoYear /\ year'[z] # NoYear
                               /\ year'[z].status = "open" /\ year'[z].closing = 0
  BY <1>2, RollsOnRows DEF YearSet
<1>4. year'[y] = ys[y]
  BY <1>1, <1>3
<1> QED BY <1>1, <1>2, <1>3, <1>4 DEF YearSet

\* The periods after it.
LEMMA ClosedPeriods ==
    ASSUME NEW qs, PeriodsFine(qs, year), ShutIn(qs, year), NEW y \in YearIds, period' = Shut(qs, y),
           \A z \in YearIds : year[z] # NoYear => year'[z] # NoYear,
           \A z \in YearIds \ {y} : year'[z] = year[z] \/ year'[z].status = "open"
    PROVE  /\ PeriodsFine(period', year) /\ PeriodsFine(period', year') /\ ShutIn(period', year')
           /\ \A p \in PeriodIds : qs[p] # NoPeriod => period'[p] # NoPeriod
<1>1. /\ PeriodsFine(period', year)
      /\ \A p \in PeriodIds :
            /\ qs[p] # NoPeriod => period'[p] # NoPeriod
            /\ period'[p].year = qs[p].year
            /\ period'[p].status = "open" => qs[p].status = "open" /\ qs[p].year # y
  BY ShutRows
<1>2. PeriodsFine(period', year')
  BY <1>1, RowsKept
<1>3. ASSUME NEW p \in PeriodIds, period'[p].status = "open" PROVE year'[period'[p].year].status = "open"
  <2>1. qs[p] # NoPeriod /\ qs[p].year # y /\ year[qs[p].year].status = "open"
    BY <1>1, <1>3 DEF ShutIn, NoPeriod
  <2>2. qs[p].year \in YearIds
    BY <2>1, PeriodIs
  <2> QED BY <1>1, <2>1, <2>2
<1> QED BY <1>1, <1>2, <1>3 DEF ShutIn

\* What it sweeps: the balances of the year, as those before it are closed.
LEMMA SweptByClose ==
    ASSUME Sound(year, period, journal), Swept(year, period, journal), NEW y \in Open, PriorClosed(y),
           NEW a \in Accounts
    PROVE  Total(UpTo(year[y].to))[a] = Balance(journal, a, InYear(journal, year[y]))
<1>1. y \in YearIds /\ year[y] # NoYear /\ YearsFine(year)
  BY DEF Open, Years, Sound
<1>2. ASSUME NEW z \in YearIds \ {y}, year[z] # NoYear, year[z].from < year[y].from
      PROVE  year[z].status = "closed"
  <2>1. year[z] \in YearRow /\ year[z].from \in Int /\ year[y].from \in Int
    BY <1>1, <1>2, YearIs
  <2>2. z \notin Open
    BY <1>2, <2>1 DEF PriorClosed
  <2> QED BY <1>2, <2>1, <2>2 DEF Open, Years, YearRow
<1>3. UpTo(year[y].to) = {e \in Entries : journal[e] # NoEntry /\ journal[e].date <= year[y].to}
  BY DEF UpTo, Posted
<1>4. UpTo(year[y].to) \in SUBSET Entries
  BY <1>3
<1> QED BY <1>1, <1>2, <1>3, <1>4, TotalIs, SweptBefore

LEMMA TotalType ==
    ASSUME EntriesFine(journal, period), NEW es \in SUBSET Entries
    PROVE  /\ Total(es) \in [Accounts -> Int] /\ Negated(Total(es)) \in [Accounts -> Int]
           /\ \A a \in Accounts : Negated(Total(es))[a] = -(Total(es)[a])
<1>1. \A a \in Accounts : Total(es)[a] \in Int
  BY TotalIs, BalanceOf
<1>2. Total(es) = [a \in Accounts |-> Total(es)[a]]
  BY Zenon DEF Total
<1>3. Total(es) \in [Accounts -> Int]
  BY <1>1, <1>2
<1> QED BY <1>1, <1>3 DEF Negated

\* The years other than the one a close is about.
LEMMA OthersSwept ==
    ASSUME NEW y \in YearIds, year[y] # NoYear, YearsFine(year), YearsFine(year'),
           PeriodsFine(period', year), EntriesFine(journal', period'),
           ApartIn(year'), DatedIn(year', period', journal'),
           \A z \in YearIds : year[z] # NoYear => year'[z] # NoYear,
           NEW z \in YearIds \ {y}, year'[z] # NoYear,
           \/ /\ year'[z] = year[z]
              /\ \/ journal' = journal /\ SweptIn(year[z], journal)
                 \/ /\ SweptIn(year[z], journal)
                    /\ \E n, r : /\ EntryAdded(journal', journal, period', n, r)
                                 /\ Within(r.date, year'[y]) /\ r.date \in Int
           \/ year[z] = NoYear /\ year'[z].status = "open" /\ year'[z].closing = 0
    PROVE  SweptIn(year'[z], journal')
<1>1. CASE year[z] = NoYear
  BY <1>1, SweptNew, RowsThere DEF NoYear
<1>2. CASE year[z] # NoYear /\ journal' = journal
  BY <1>2
<1>3. ASSUME year[z] # NoYear, year'[z] = year[z], SweptIn(year[z], journal),
             NEW n, NEW r, EntryAdded(journal', journal, period', n, r),
             Within(r.date, year'[y]), r.date \in Int
      PROVE  SweptIn(year'[z], journal')
  <2>1. ~Overlap(year'[y], year'[z])
    BY <1>3 DEF ApartIn
  <2>2. ~Within(r.date, year'[z])
    BY <1>3, <2>1, YearIs DEF Overlap, Within
  <2>3. year'[z] \in YearRow
    BY <1>3, YearIs
  <2> QED BY <1>3, <2>2, <2>3, SweptAfter
<1> QED BY <1>1, <1>2, <1>3

\* A close that finds nothing to sweep.
LEMMA CloseQuietKeeps ==
    ASSUME IInv, NEW y \in YearIds, CloseFiscalYear(y), Total(UpTo(year[y].to)) = Nothing
    PROVE  IInv'
<1>1. /\ YearsFine(year) /\ PeriodsFine(period, year) /\ EntriesFine(journal, period)
      /\ ShutIn(period, year) /\ OwnedIn(year, journal) /\ Sound(year, period, journal)
  BY DEF IInv, Sound
<1>2. /\ y \in Open /\ PriorClosed(y) /\ period' = Shut(period, y) /\ journal' = journal
      /\ RollsOn([year EXCEPT ![y].status = "closed"], y) /\ orderly' = (orderly /\ InOrder')
  BY DEF CloseFiscalYear, Watched
<1>3. year[y] # NoYear /\ year[y] \in YearRow /\ year[y].status = "open" /\ year[y].closing = 0
  <2>1. year[y] # NoYear /\ year[y].status = "open"
    BY <1>2 DEF Open, Years
  <2> QED BY <1>1, <2>1, YearIs DEF OwnedIn
<1>4. YearSet([year EXCEPT ![y].status = "closed"], year, y, "closed", 0)
  BY <1>1, <1>3, SetStatus
<1>5. /\ YearsFine(year') /\ year'[y] \in YearRow
      /\ year'[y].from = year[y].from /\ year'[y].to = year[y].to
      /\ year'[y].status = "closed" /\ year'[y].closing = 0
      /\ \A z \in YearIds \ {y} : \/ year'[z] = year[z]
                                  \/ /\ year[z] = NoYear /\ year'[z] # NoYear
                                     /\ year'[z].status = "open" /\ year'[z].closing = 0
      /\ \A z \in YearIds : year[z] # NoYear => year'[z] # NoYear
  BY <1>1, <1>2, <1>4, ClosedRows
<1>6. /\ PeriodsFine(period', year) /\ PeriodsFine(period', year') /\ ShutIn(period', year')
      /\ EntriesFine(journal', period')
  <2>1. /\ PeriodsFine(period', year) /\ PeriodsFine(period', year') /\ ShutIn(period', year')
        /\ \A p \in PeriodIds : period[p] # NoPeriod => period'[p] # NoPeriod
    BY <1>1, <1>2, <1>5, ClosedPeriods
  <2> QED BY <1>1, <1>2, <2>1, RowsKept
<1>7. OwnedIn(year', journal')
  <2>1. \A z \in YearIds : year'[z].closing = year[z].closing
                           /\ (year[z].closing # 0 => year'[z].status = year[z].status)
    BY <1>3, <1>5 DEF NoYear
  <2> QED BY <1>1, <1>2, <2>1 DEF OwnedIn
<1>8. ASSUME orderly' PROVE Swept(year', period', journal')
  <2>1. orderly /\ ApartIn(year') /\ DatedIn(year', period', journal') /\ Swept(year, period, journal)
    BY <1>2, <1>6, <1>8, OrderNext DEF IInv
  <2>2. ASSUME NEW z \in YearIds \ {y}, year'[z] # NoYear PROVE SweptIn(year'[z], journal')
    <3>1. year[z] # NoYear => SweptIn(year[z], journal)
      BY <2>1 DEF Swept
    <3> QED BY <1>1, <1>2, <1>3, <1>5, <1>6, <2>1, <2>2, <3>1, OthersSwept
  <2>3. SweptIn(year'[y], journal')
    <3>1. InYear(journal, year'[y]) = InYear(journal, year[y]) /\ ClosingIn(journal, year'[y]) = ClosingIn(journal, year[y])
      BY <1>5 DEF InYear, ClosingIn, Within
    <3>2. SweptIn(year[y], journal)
      BY <1>3, <2>1 DEF Swept
    <3>3. \A a \in Accounts : Balance(journal, a, InYear(journal, year[y])) = 0
      BY <1>1, <1>2, <2>1, SweptByClose DEF Nothing
    <3> QED BY <1>2, <1>3, <1>5, <3>1, <3>2, <3>3 DEF SweptIn
  <2> QED BY <2>1, <2>2, <2>3 DEF Swept
<1> QED BY <1>2, <1>5, <1>6, <1>7, <1>8 DEF IInv, Sound, InOrder

\* A close with a closing entry on the year's last day.
LEMMA CloseEntryKeeps ==
    ASSUME IInv, NEW y \in YearIds, CloseFiscalYear(y), Total(UpTo(year[y].to)) # Nothing
    PROVE  IInv'
<1> DEFINE last == year[y].to
           swept == Total(UpTo(last))
           n == NextEntry
<1>1. /\ YearsFine(year) /\ PeriodsFine(period, year) /\ EntriesFine(journal, period)
      /\ ShutIn(period, year) /\ OwnedIn(year, journal) /\ Sound(year, period, journal)
  BY DEF IInv, Sound
<1>2. /\ y \in Open /\ PriorClosed(y) /\ Posted # Entries
      /\ RollsOn([year EXCEPT ![y].status = "closed", ![y].closing = n], y) /\ orderly' = (orderly /\ InOrder')
  BY DEF CloseFiscalYear, Watched
<1>3. PICK found \in Landing(last) :
         /\ journal' = [journal EXCEPT ![n] = [NoEntry EXCEPT !.date = last, !.period = found[1],
                                                   !.lines = Negated(swept), !.closing = TRUE]]
         /\ period' = Shut([period EXCEPT ![found[1]] = found[2]], y)
  BY DEF CloseFiscalYear
<1> DEFINE i == found[1]
           q == found[2]
           r == [NoEntry EXCEPT !.date = last, !.period = i, !.lines = Negated(swept), !.closing = TRUE]
           qs == [period EXCEPT ![i] = q]
<1>4. year[y] # NoYear /\ year[y] \in YearRow /\ year[y].status = "open" /\ year[y].closing = 0
      /\ last \in Days /\ last \in Int /\ year[y].from <= last /\ year[y].from \in Int
  <2>1. year[y] # NoYear /\ year[y].status = "open"
    BY <1>2 DEF Open, Years
  <2>2. year[y] \in YearRow /\ last \in Int /\ year[y].from <= last /\ year[y].from \in Int
    BY <1>1, <2>1, YearIs
  <2>3. last \in Days
    BY <2>2 DEF YearRow
  <2> QED BY <1>1, <2>1, <2>2, <2>3 DEF OwnedIn
<1>5. UpTo(last) \in SUBSET Entries /\ n \in Entries /\ journal[n] = NoEntry /\ n # 0
  BY <1>2, NextEntryFree, Numbers DEF UpTo, Posted
<1>6. /\ i \in PeriodIds /\ q \in PeriodRow /\ q.status = "open" /\ year[q.year] # NoYear
      /\ \A p \in PeriodIds \ {i} : period[p] # NoPeriod => ~Overlap(period[p], q)
      /\ year[q.year].status = "open"
  BY <1>1, <1>4, LandingIs DEF ShutIn
<1>7. Negated(swept) \in [Accounts -> Int] /\ \A a \in Accounts : Negated(swept)[a] = -(swept[a])
  BY <1>1, <1>5, TotalType
<1>8. /\ r \in EntryRow /\ r.date = last /\ r.period = i /\ r.closing /\ r.reverses = 0
      /\ \A a \in Accounts : r.lines[a] = -(swept[a])
  <2> HIDE DEF swept, last
  <2> QED BY <1>4, <1>6, <1>7 DEF EntryRow, NoEntry
<1>9. journal' = [journal EXCEPT ![n] = r] /\ period' = Shut(qs, y)
  BY <1>3
<1>10. YearSet([year EXCEPT ![y].status = "closed", ![y].closing = n], year, y, "closed", n)
  <2> HIDE DEF n
  <2> QED BY <1>1, <1>4, <1>5, SetStatus
<1> HIDE DEF n, i, q, r, qs
<1>11. /\ YearsFine(year') /\ year'[y] \in YearRow
       /\ year'[y].from = year[y].from /\ year'[y].to = last
       /\ year'[y].status = "closed" /\ year'[y].closing = n
       /\ \A z \in YearIds \ {y} : \/ year'[z] = year[z]
                                   \/ /\ year[z] = NoYear /\ year'[z] # NoYear
                                      /\ year'[z].status = "open" /\ year'[z].closing = 0
       /\ \A z \in YearIds : year[z] # NoYear => year'[z] # NoYear
  BY <1>1, <1>2, <1>5, <1>10, ClosedRows
<1>12. /\ PeriodsFine(qs, year) /\ ShutIn(qs, year) /\ qs[i] = q /\ qs[i] # NoPeriod
       /\ \A p \in PeriodIds : period[p] # NoPeriod => qs[p] # NoPeriod
  <2>1. PeriodPut(qs, period, year, i, q)
    BY <1>1, <1>6 DEF PeriodPut, qs
  <2> QED BY <1>1, <1>6, <2>1, PeriodOpened
<1>13. /\ PeriodsFine(period', year) /\ PeriodsFine(period', year') /\ ShutIn(period', year')
       /\ \A p \in PeriodIds : qs[p] # NoPeriod => period'[p] # NoPeriod
  BY <1>9, <1>11, <1>12, ClosedPeriods
<1>14. EntryAdded(journal', journal, period', n, r)
  <2>1. EntriesFine(journal, period')
    BY <1>1, <1>12, <1>13, RowsKept
  <2> QED BY <1>5, <1>6, <1>8, <1>9, <1>12, <1>13, <2>1 DEF EntryAdded
<1>15. /\ EntriesFine(journal', period') /\ LiveIn(journal') = LiveIn(journal) \cup {n}
       /\ journal'[n] = r /\ n \notin LiveIn(journal)
  <2>1. 0 \notin LiveIn(journal) /\ n \notin LiveIn(journal)
    BY <1>5, Numbers DEF LiveIn, NoEntry
  <2> QED BY <1>5, <1>8, <1>14, <2>1, PutEntry
<1>16. OwnedIn(year', journal')
  <2>1. \A z \in YearIds \ {y} : /\ year'[z].closing = year[z].closing
                                 /\ year[z].closing # 0 => year'[z].status = year[z].status
    BY <1>11 DEF NoYear
  <2>2. \A z \in YearIds : year[z].closing # n
    BY <1>1, <1>5, <1>15 DEF OwnedIn
  <2>3. ASSUME NEW z \in YearIds, year'[z].closing # 0
        PROVE  /\ year'[z].status = "closed" /\ year'[z].closing \in LiveIn(journal')
               /\ \A x \in YearIds \ {z} : year'[x].closing # year'[z].closing
    <3>1. CASE z = y
      BY <1>11, <1>15, <2>1, <2>2, <3>1
    <3>2. CASE z # y
      <4>1. /\ year[z].status = "closed" /\ year[z].closing \in LiveIn(journal)
            /\ \A x \in YearIds \ {z} : year[x].closing # year[z].closing
        BY <1>1, <2>1, <2>3, <3>2 DEF OwnedIn
      <4> QED BY <1>11, <1>15, <2>1, <2>2, <2>3, <3>2, <4>1
    <3> QED BY <3>1, <3>2
  <2>4. ASSUME NEW e \in LiveIn(journal') PROVE \E z \in YearIds : year'[z].closing = e
    <3>1. CASE e = n
      BY <1>11, <3>1
    <3>2. CASE e \in LiveIn(journal)
      <4>1. PICK z \in YearIds : year[z].closing = e
        BY <1>1, <3>2 DEF OwnedIn
      <4>2. z # y
        BY <1>4, <3>2, <4>1, Numbers DEF LiveIn
      <4> QED BY <2>1, <4>1, <4>2
    <3> QED BY <1>15, <3>1, <3>2
  <2> QED BY <2>3, <2>4 DEF OwnedIn
<1>17. ASSUME orderly' PROVE Swept(year', period', journal')
  <2>1. orderly /\ ApartIn(year') /\ DatedIn(year', period', journal') /\ Swept(year, period, journal)
    BY <1>2, <1>15, <1>17, OrderNext DEF IInv
  <2>2. Within(r.date, year'[y])
    BY <1>4, <1>8, <1>11 DEF Within
  <2>3. ASSUME NEW z \in YearIds \ {y}, year'[z] # NoYear PROVE SweptIn(year'[z], journal')
    <3>1. year[z] # NoYear => SweptIn(year[z], journal)
      BY <2>1 DEF Swept
    <3>2. r.date \in Int
      BY <1>4, <1>8
    <3>3. \/ /\ year'[z] = year[z] /\ SweptIn(year[z], journal)
             /\ \E m, s : EntryAdded(journal', journal, period', m, s) /\ Within(s.date, year'[y]) /\ s.date \in Int
          \/ year[z] = NoYear /\ year'[z].status = "open" /\ year'[z].closing = 0
      BY <1>11, <1>14, <2>2, <2>3, <3>1, <3>2
    <3> QED BY <1>1, <1>4, <1>11, <1>13, <1>15, <2>1, <2>3, <3>3, OthersSwept
  <2>4. SweptIn(year'[y], journal')
    <3> DEFINE Y == year'[y]
    <3>1. InYear(journal, Y) = InYear(journal, year[y]) /\ ClosingIn(journal, Y) = ClosingIn(journal, year[y])
      BY <1>11 DEF InYear, ClosingIn, Within
    <3>2. SweptIn(year[y], journal)
      BY <1>4, <2>1 DEF Swept
    <3>3. ASSUME NEW a \in Accounts
          PROVE  /\ Balance(journal', a, ClosingIn(journal', Y)) = journal'[n].lines[a]
                 /\ Balance(journal', a, InYear(journal', Y)) = 0
      <4>1. Balance(journal, a, ClosingIn(journal, Y)) = 0
        BY <1>4, <3>1, <3>2 DEF SweptIn
      <4>2. Balance(journal, a, InYear(journal, Y)) = swept[a] /\ swept[a] \in Int
        <5>1. Balance(journal, a, InYear(journal, Y)) = swept[a]
          BY <1>1, <1>2, <2>1, <3>1, SweptByClose
        <5>2. swept[a] \in Int
          BY <1>1, <1>5, TotalType
        <5> QED BY <5>1, <5>2
      <4>3. /\ Balance(journal', a, InYear(journal', Y)) = Balance(journal, a, InYear(journal, Y)) + r.lines[a]
            /\ Balance(journal', a, ClosingIn(journal', Y)) = Balance(journal, a, ClosingIn(journal, Y)) + r.lines[a]
        BY <1>8, <1>14, <2>2, YearGrows
      <4>4. r.lines[a] = -(swept[a]) /\ r.lines[a] \in Int
        BY <1>8, <4>2
      <4> HIDE DEF swept
      <4> QED BY <1>15, <4>1, <4>2, <4>3, <4>4
    <3>4. n \in InYear(journal', Y)
      BY <1>5, <1>8, <1>15, <2>2, RowsThere DEF InYear
    <3> QED BY <1>5, <1>11, <3>3, <3>4 DEF SweptIn
  <2> QED BY <2>1, <2>3, <2>4 DEF Swept
<1> QED BY <1>2, <1>11, <1>13, <1>15, <1>16, <1>17 DEF IInv, Sound, InOrder

\* Reopening a year that was closed with nothing to sweep.
LEMMA ReopenQuietKeeps ==
    ASSUME IInv, NEW y \in YearIds, ReopenFiscalYear(y), Kept(y)
    PROVE  IInv'
<1>1. /\ YearsFine(year) /\ PeriodsFine(period, year) /\ EntriesFine(journal, period)
      /\ ShutIn(period, year) /\ OwnedIn(year, journal)
  BY DEF IInv, Sound
<1>2. /\ year' = [year EXCEPT ![y].status = "open", ![y].closing = 0] /\ period' = period
      /\ journal' = journal /\ orderly' = (orderly /\ InOrder') /\ year[y].closing = 0 /\ year[y] # NoYear
  BY DEF ReopenFiscalYear, Watched, Kept, Closed, Years
<1> DEFINE Y == year'[y]
<1>3. YearSet(year', year, y, "open", 0)
  BY <1>1, <1>2, SetStatus
<1>4. Y.closing = 0 /\ Y.status = "open" /\ Y.from = year[y].from /\ Y.to = year[y].to /\ Y \in YearRow
  BY <1>3 DEF YearSet
<1>5. \A z \in YearIds : year'[z] = IF z = y THEN Y ELSE year[z]
  BY <1>3 DEF YearSet
<1> HIDE DEF Y
<1>7. YearsFine(year') /\ \A z \in YearIds : year[z] # NoYear => year'[z] # NoYear
  BY <1>3, <1>4, <1>5, RowsThere DEF YearSet
<1>8. PeriodsFine(period', year') /\ EntriesFine(journal', period')
  BY <1>1, <1>2, <1>7, RowsKept
<1>9. ShutIn(period', year')
  <2>1. \A p \in PeriodIds : period[p].status = "open" => period[p].year \in YearIds
    BY <1>1, PeriodIs DEF NoPeriod
  <2> QED BY <1>1, <1>2, <1>4, <1>5, <2>1 DEF ShutIn
<1>10. OwnedIn(year', journal')
  <2>1. \A z \in YearIds : /\ year'[z].closing = year[z].closing
                           /\ year[z].closing # 0 => year'[z].status = year[z].status
    BY <1>2, <1>4, <1>5
  <2>2. journal' = journal
    BY <1>2
  <2> QED BY <1>1, <2>1, <2>2 DEF OwnedIn
<1>11. ASSUME orderly' PROVE Swept(year', period', journal')
  <2>1. orderly /\ ApartIn(year') /\ DatedIn(year', period', journal') /\ Swept(year, period, journal)
    BY <1>2, <1>8, <1>11, OrderNext DEF IInv
  <2>2. SweptIn(Y, journal)
    <3>1. SweptIn(year[y], journal)
      BY <1>2, <2>1 DEF Swept
    <3>2. ClosingIn(journal, Y) = ClosingIn(journal, year[y])
      BY <1>4 DEF InYear, ClosingIn, Within
    <3> QED BY <1>2, <1>4, <3>1, <3>2 DEF SweptIn
  <2>3. ASSUME NEW z \in YearIds, year'[z] # NoYear PROVE SweptIn(year'[z], journal')
    BY <1>2, <1>5, <2>1, <2>2, <2>3 DEF Swept
  <2> QED BY <2>1, <2>3 DEF Swept
<1> QED BY <1>2, <1>7, <1>8, <1>9, <1>10, <1>11 DEF IInv, Sound, InOrder

\* Reopening a year reverses its closing entry.
LEMMA ReopenEntryKeeps ==
    ASSUME IInv, NEW y \in YearIds, ReopenFiscalYear(y), ~Kept(y)
    PROVE  IInv'
<1> DEFINE ys == [year EXCEPT ![y].status = "open", ![y].closing = 0]
           e == year[y].closing
           p == journal[e].period
           d == journal[e].date
           n == NextEntry
           Y == ys[y]
<1>1. /\ YearsFine(year) /\ PeriodsFine(period, year) /\ EntriesFine(journal, period)
      /\ ShutIn(period, year) /\ OwnedIn(year, journal)
  BY DEF IInv, Sound
<1>2. /\ year' = ys /\ e # 0 /\ year[y] # NoYear /\ Posted # Entries /\ orderly' = (orderly /\ InOrder')
      /\ YearAllows(ys, [period[p] EXCEPT !.status = "open"])
  BY DEF ReopenFiscalYear, Watched, Kept, Closed, Years
<1>3. PICK found \in PeriodForDate(ys, p, d) :
         /\ period' = [period EXCEPT ![p].status = "open", ![found[1]] = found[2]]
         /\ journal' = [journal EXCEPT ![n] = Mirror(e, found[1])]
  BY DEF ReopenFiscalYear, Kept
<1> DEFINE i == found[1]
           q == found[2]
           r == Mirror(e, i)
           q1 == [period[p] EXCEPT !.status = "open"]
           ps == [period EXCEPT ![p] = q1]
<1>4. /\ e \in LiveIn(journal) /\ e \in Entries /\ journal[e] # NoEntry /\ journal[e].closing
      /\ \A z \in YearIds \ {y} : year[z].closing # e
  <2>1. e \in LiveIn(journal) /\ \A z \in YearIds \ {y} : year[z].closing # e
    BY <1>1, <1>2 DEF OwnedIn
  <2> QED BY <2>1 DEF LiveIn, NoEntry
<1>5. /\ journal[e] \in EntryRow /\ d \in Days /\ d \in Int /\ p \in PeriodIds /\ period[p] # NoPeriod
      /\ period[p] \in PeriodRow /\ period[p].year \in YearIds /\ year[period[p].year] # NoYear
  <2>1. journal[e] \in EntryRow /\ d \in Days /\ d \in Int /\ p \in PeriodIds /\ period[p] # NoPeriod
    BY <1>1, <1>4, EntryIs
  <2> HIDE DEF p
  <2> QED BY <1>1, <2>1, PeriodIs
<1>6. n \in Entries /\ journal[n] = NoEntry /\ n # 0
  BY <1>2, NextEntryFree, Numbers
<1>7. YearSet(ys, year, y, "open", 0)
  BY <1>1, <1>2, SetStatus
<1> HIDE DEF ys
<1>8. /\ \A z \in YearIds : ys[z] = IF z = y THEN Y ELSE year[z]
      /\ Y \in YearRow /\ Y.closing = 0 /\ Y.status = "open" /\ Y.from = year[y].from /\ Y.to = year[y].to
  BY <1>7 DEF YearSet
<1>9. YearsFine(ys) /\ \A z \in YearIds : year[z] # NoYear => ys[z] # NoYear
  BY <1>7, <1>8, RowsThere DEF YearSet
<1>10. PeriodsFine(period, ys) /\ ShutIn(period, ys)
  <2>1. \A x \in PeriodIds : period[x].status = "open" => period[x].year \in YearIds
    BY <1>1, PeriodIs DEF NoPeriod
  <2>2. ShutIn(period, ys)
    BY <1>1, <1>8, <2>1 DEF ShutIn
  <2> QED BY <1>1, <1>9, <2>2, RowsKept
<1>11. q1 \in PeriodRow /\ q1.year = period[p].year /\ q1.status = "open"
       /\ q1.from = period[p].from /\ q1.to = period[p].to /\ ys[q1.year].status = "open"
  <2>1. q1 \in PeriodRow /\ q1.year = period[p].year /\ q1.status = "open"
        /\ q1.from = period[p].from /\ q1.to = period[p].to
    <3> HIDE DEF p
    <3> QED BY <1>5 DEF PeriodRow
  <2> QED BY <1>2, <2>1 DEF YearAllows
<1>12. /\ i \in PeriodIds /\ q \in PeriodRow /\ q.status = "open" /\ ys[q.year] # NoYear
       /\ \A x \in PeriodIds \ {i} : period[x] # NoPeriod => ~Overlap(period[x], q)
       /\ ys[q.year].status = "open"
  <2>1. /\ i \in PeriodIds /\ q \in PeriodRow /\ q.status = "open" /\ ys[q.year] # NoYear
        /\ \A x \in PeriodIds \ {i} : period[x] # NoPeriod => ~Overlap(period[x], q)
        /\ \/ ys[q.year].status = "open"
           \/ /\ period[i] # NoPeriod /\ q.year = period[i].year
              /\ period[i].status = "open" \/ i = p
    <3> HIDE DEF p, d
    <3> QED BY <1>1, <1>3, <1>5, <1>9, FoundIs
  <2> QED BY <1>10, <1>11, <2>1 DEF ShutIn
<1>13. period' = [ps EXCEPT ![i] = q] /\ journal' = [journal EXCEPT ![n] = r]
  BY <1>3
<1>14. /\ r \in EntryRow /\ r.date = d /\ r.period = i /\ r.closing /\ r.reverses = e
       /\ \A a \in Accounts : r.lines[a] = -(journal[e].lines[a]) /\ journal[e].lines[a] \in Int
  <2>1. r = [journal[e] EXCEPT !.period = i, !.lines = Negated(journal[e].lines), !.reverses = e]
    BY DEF Mirror
  <2>2. Negated(journal[e].lines) \in [Accounts -> Int]
        /\ \A a \in Accounts : Negated(journal[e].lines)[a] = -(journal[e].lines[a]) /\ journal[e].lines[a] \in Int
    <3>1. journal[e].lines \in [Accounts -> Int]
      BY <1>5 DEF EntryRow
    <3> HIDE DEF e
    <3> QED BY <3>1 DEF Negated
  <2> HIDE DEF e, i
  <2> QED BY <1>4, <1>5, <1>12, <2>1, <2>2 DEF EntryRow
<1> HIDE DEF e, p, d, n, Y, i, q, r, q1, ps
<1>15. /\ PeriodsFine(ps, ys) /\ ShutIn(ps, ys) /\ \A x \in PeriodIds : period[x] # NoPeriod => ps[x] # NoPeriod
       /\ \A x \in PeriodIds : ps[x] = IF x = p THEN q1 ELSE period[x]
  <2>1. PeriodPut(ps, period, ys, p, q1)
    <3>1. \A x \in PeriodIds \ {p} : period[x] # NoPeriod => ~Overlap(period[x], q1)
      BY <1>1, <1>5, <1>11 DEF PeriodsFine, Overlap
    <3> QED BY <1>5, <1>9, <1>10, <1>11, <3>1 DEF PeriodPut, ps
  <2> QED BY <1>10, <1>11, <2>1, PeriodOpened, PutPeriod
<1>16. /\ PeriodsFine(period', ys) /\ ShutIn(period', ys) /\ period'[i] # NoPeriod
       /\ \A x \in PeriodIds : period[x] # NoPeriod => period'[x] # NoPeriod
  <2>1. PeriodPut(period', ps, ys, i, q)
    <3>1. \A x \in PeriodIds \ {i} : ps[x] # NoPeriod => ~Overlap(ps[x], q)
      BY <1>5, <1>11, <1>12, <1>15 DEF Overlap
    <3> QED BY <1>12, <1>13, <1>15, <3>1 DEF PeriodPut
  <2> QED BY <1>12, <1>15, <2>1, PeriodOpened
<1>17. EntryAdded(journal', journal, period', n, r)
  <2>1. EntriesFine(journal, period')
    BY <1>1, <1>16, RowsKept
  <2> QED BY <1>4, <1>6, <1>12, <1>13, <1>14, <1>16, <2>1 DEF EntryAdded
<1>18. /\ EntriesFine(journal', period') /\ LiveIn(journal') = LiveIn(journal) \ {e}
       /\ \A f \in Entries : journal'[f] = IF f = n THEN r ELSE journal[f]
  BY <1>2, <1>14, <1>17, PutEntry
<1>19. OwnedIn(year', journal')
  <2>1. \A z \in YearIds : year'[z] = IF z = y THEN Y ELSE year[z]
    BY <1>2, <1>8
  <2>2. Y.closing = 0 /\ year[y].closing = e
    BY <1>8 DEF e
  <2>3. ASSUME NEW z \in YearIds, year'[z].closing # 0
        PROVE  /\ year'[z].status = "closed" /\ year'[z].closing \in LiveIn(journal')
               /\ \A x \in YearIds \ {z} : year'[x].closing # year'[z].closing
    <3>1. z # y /\ year'[z] = year[z]
      BY <2>1, <2>2, <2>3
    <3>2. /\ year[z].status = "closed" /\ year[z].closing \in LiveIn(journal)
          /\ \A x \in YearIds \ {z} : year[x].closing # year[z].closing
      BY <1>1, <2>3, <3>1 DEF OwnedIn
    <3> QED BY <1>4, <1>18, <2>1, <2>2, <2>3, <3>1, <3>2
  <2>4. ASSUME NEW f \in LiveIn(journal') PROVE \E z \in YearIds : year'[z].closing = f
    <3>1. PICK z \in YearIds : year[z].closing = f
      BY <1>1, <1>18 DEF OwnedIn
    <3> QED BY <1>18, <2>1, <2>2, <3>1
  <2> QED BY <2>3, <2>4 DEF OwnedIn
<1>20. ASSUME orderly' PROVE Swept(year', period', journal')
  <2>1. orderly /\ ApartIn(year') /\ DatedIn(year', period', journal') /\ Swept(year, period, journal)
    BY <1>2, <1>18, <1>20, OrderNext DEF IInv
  <2>2. SweptIn(year[y], journal) /\ InYear(journal, Y) = InYear(journal, year[y])
        /\ ClosingIn(journal, Y) = ClosingIn(journal, year[y])
        /\ Y.closing = 0 /\ Y.status = "open" /\ year[y].closing = e
    BY <1>2, <1>8, <2>1 DEF Swept, InYear, ClosingIn, Within, e
  <2>3. Within(r.date, Y)
    <3>1. e \in InYear(journal, Y)
      BY <1>2, <2>2 DEF SweptIn
    <3> QED BY <1>14, <3>1 DEF InYear, d
  <2>4. SweptIn(Y, journal')
    <3>1. ASSUME NEW a \in Accounts PROVE Balance(journal', a, ClosingIn(journal', Y)) = 0
      <4>1. Balance(journal, a, ClosingIn(journal, Y)) = journal[e].lines[a]
        BY <1>2, <2>2 DEF SweptIn
      <4>2. Balance(journal', a, ClosingIn(journal', Y)) = Balance(journal, a, ClosingIn(journal, Y)) + r.lines[a]
        BY <1>14, <1>17, <2>3, YearGrows
      <4> QED BY <1>14, <4>1, <4>2
    <3> QED BY <2>2, <3>1 DEF SweptIn
  <2>5. year'[y] = Y /\ \A z \in YearIds \ {y} : year'[z] = year[z]
    BY <1>2, <1>8
  <2>6. ASSUME NEW z \in YearIds \ {y}, year'[z] # NoYear PROVE SweptIn(year'[z], journal')
    <3>1. SweptIn(year[z], journal)
      BY <2>1, <2>5, <2>6 DEF Swept
    <3>2. r.date \in Int
      BY <1>5, <1>14
    <3>3. PeriodsFine(period', year)
      <4>1. \A x \in YearIds : ys[x] # NoYear => year[x] # NoYear
        BY <1>2, <1>8
      <4> QED BY <1>16, <4>1, RowsKept
    <3>4. \E m, s : EntryAdded(journal', journal, period', m, s) /\ Within(s.date, year'[y]) /\ s.date \in Int
      BY <1>17, <2>3, <2>5, <3>2
    <3> QED BY <1>1, <1>2, <1>9, <1>18, <2>1, <2>5, <2>6, <3>1, <3>3, <3>4, OthersSwept
  <2> QED BY <2>1, <2>4, <2>5, <2>6 DEF Swept
<1> QED BY <1>2, <1>9, <1>16, <1>18, <1>19, <1>20 DEF IInv, Sound, InOrder
\* A period is put into a year, changed, opened or closed, as the constraints
\* and the trigger allow.
LEMMA PeriodEdit ==
    ASSUME IInv, NEW i \in PeriodIds, NEW q \in PeriodRow, year[q.year] # NoYear,
           Fits(i, q), YearAllows(year, q), period' = [period EXCEPT ![i] = q],
           UNCHANGED <<year, journal>>, Watched
    PROVE  IInv'
<1>1. /\ YearsFine(year) /\ PeriodsFine(period, year) /\ EntriesFine(journal, period)
      /\ ShutIn(period, year) /\ OwnedIn(year, journal)
  BY DEF IInv, Sound
<1>2. /\ PeriodsFine(period', year) /\ ShutIn(period', year)
      /\ \A p \in PeriodIds : period[p] # NoPeriod => period'[p] # NoPeriod
  <2>1. \A p \in PeriodIds \ {i} : period[p] # NoPeriod => ~Overlap(period[p], q)
    BY DEF Fits, Periods
  <2>2. PeriodPut(period', period, year, i, q)
    BY <1>1, <2>1 DEF PeriodPut
  <2>3. q.status = "open" => year[q.year].status = "open"
    BY DEF YearAllows
  <2> QED BY <1>1, <2>2, <2>3, PeriodOpened
<1>3. EntriesFine(journal', period')
  BY <1>1, <1>2, RowsKept
<1>4. ASSUME orderly' PROVE Swept(year', period', journal')
  <2>1. orderly /\ ApartIn(year') /\ DatedIn(year', period', journal') /\ Swept(year, period, journal)
    BY <1>3, <1>4, OrderNext DEF IInv, Watched
  <2> QED BY <2>1 DEF Swept
<1> QED BY <1>1, <1>2, <1>3, <1>4 DEF IInv, Sound, Watched, InOrder

LEMMA ToggleKeeps ==
    ASSUME IInv, NEW p \in PeriodIds, Toggle(p)
    PROVE  IInv'
<1> DEFINE r == [period[p] EXCEPT !.status = IF @ = "open" THEN "closed" ELSE "open"]
<1>1. PeriodsFine(period, year)
  BY DEF IInv, Sound
<1>2. period[p] # NoPeriod /\ Allowed(p, r) /\ period' = [period EXCEPT ![p] = r]
      /\ UNCHANGED <<year, journal>> /\ Watched
  BY DEF Toggle, Periods
<1>3. period[p] \in PeriodRow /\ year[period[p].year] # NoYear
  BY <1>1, <1>2, PeriodIs
<1>4. r \in PeriodRow /\ r.year = period[p].year
  BY <1>3 DEF PeriodRow
<1> HIDE DEF r
<1> QED BY <1>2, <1>3, <1>4, PeriodEdit DEF Allowed

LEMMA CreatePeriodKeeps ==
    ASSUME IInv, NEW y \in Years, NEW from \in Days, NEW to \in Days, CreateAccountingPeriod(y, from, to)
    PROVE  IInv'
<1> DEFINE r == [year |-> y, from |-> from, to |-> to, status |-> "open"]
<1>1. Allowed(NextPeriod, r) /\ period' = [period EXCEPT ![NextPeriod] = r]
      /\ UNCHANGED <<year, journal>> /\ Watched
  BY DEF CreateAccountingPeriod
<1>2. NextPeriod \in PeriodIds
  <2>1. PeriodIds \ Periods \in SUBSET Nat /\ PeriodIds \ Periods # {}
    BY CalendarAssumption DEF CreateAccountingPeriod, Periods
  <2> QED BY <2>1, MinIn DEF NextPeriod
<1>3. r \in PeriodRow /\ year[r.year] # NoYear
  BY DEF PeriodRow, Years
<1> HIDE DEF r
<1> QED BY <1>1, <1>2, <1>3, PeriodEdit DEF Allowed

LEMMA UpdatePeriodKeeps ==
    ASSUME IInv, NEW p \in Periods, NEW y \in Years, NEW from \in Days, NEW to \in Days,
           NEW status \in {"open", "closed"}, UpdateAccountingPeriod(p, y, from, to, status)
    PROVE  IInv'
<1> DEFINE r == [year |-> y, from |-> from, to |-> to, status |-> status]
<1>1. Allowed(p, r) /\ period' = [period EXCEPT ![p] = r] /\ UNCHANGED <<year, journal>> /\ Watched
  BY DEF UpdateAccountingPeriod
<1>2. p \in PeriodIds /\ r \in PeriodRow /\ year[r.year] # NoYear
  BY DEF PeriodRow, Years, Periods
<1> HIDE DEF r
<1> QED BY <1>1, <1>2, PeriodEdit DEF Allowed

\* A new year: open, with a closing entry of none and no entries.
LEMMA CreateYearKeeps ==
    ASSUME IInv, NEW from \in Days, NEW to \in Days, CreateFiscalYear(from, to)
    PROVE  IInv'
<1> DEFINE z == NextYear
           r == [from |-> from, to |-> to, status |-> "open", closing |-> 0]
<1>1. /\ YearsFine(year) /\ PeriodsFine(period, year) /\ EntriesFine(journal, period)
      /\ ShutIn(period, year) /\ OwnedIn(year, journal)
  BY DEF IInv, Sound
<1>2. /\ year' = [year EXCEPT ![z] = r] /\ period' = period /\ journal' = journal
      /\ orderly' = (orderly /\ InOrder') /\ from <= to
  BY DEF CreateFiscalYear, Watched
<1>3. z \in YearIds /\ year[z] = NoYear
  BY NextYearFree DEF CreateFiscalYear
<1>4. r \in YearRow /\ r.from <= r.to /\ r.status = "open" /\ r.closing = 0
  BY <1>2 DEF YearRow
<1> HIDE DEF z, r
<1>5. \A x \in YearIds : year'[x] = IF x = z THEN r ELSE year[x]
  BY <1>1, <1>2, <1>3 DEF YearsFine
<1>6. YearsFine(year') /\ \A x \in YearIds : year[x] # NoYear => year'[x] # NoYear
  <2>1. year' \in [YearIds -> YearRow \cup {NoYear}]
    BY <1>1, <1>2, <1>3, <1>4 DEF YearsFine
  <2> QED BY <1>1, <1>3, <1>4, <1>5, <2>1 DEF YearsFine
<1>7. PeriodsFine(period', year') /\ EntriesFine(journal', period')
  BY <1>1, <1>2, <1>6, RowsKept
<1>8. ShutIn(period', year')
  <2>1. \A p \in PeriodIds : period[p].status = "open" => period[p].year \in YearIds
    BY <1>1, PeriodIs DEF NoPeriod
  <2> QED BY <1>1, <1>2, <1>4, <1>5, <2>1 DEF ShutIn
<1>9. OwnedIn(year', journal')
  <2>1. \A x \in YearIds : /\ year'[x].closing = year[x].closing
                           /\ year[x].closing # 0 => year'[x].status = year[x].status
    BY <1>3, <1>4, <1>5 DEF NoYear
  <2> QED BY <1>1, <1>2, <2>1 DEF OwnedIn
<1>10. ASSUME orderly' PROVE Swept(year', period', journal')
  <2>1. orderly /\ ApartIn(year') /\ DatedIn(year', period', journal') /\ Swept(year, period, journal)
    BY <1>2, <1>7, <1>10, OrderNext DEF IInv
  <2>2. ASSUME NEW x \in YearIds, year'[x] # NoYear PROVE SweptIn(year'[x], journal')
    <3>1. CASE x = z
      <4>1. year'[x].status # "closed" /\ year'[x].closing = 0
        BY <1>4, <1>5, <3>1
      <4>2. PeriodsFine(period', year)
        BY <1>1, <1>2
      <4> QED BY <1>3, <1>6, <1>7, <2>1, <2>2, <3>1, <4>1, <4>2, SweptNew
    <3>2. CASE x # z
      BY <1>2, <1>5, <2>1, <2>2, <3>2 DEF Swept
    <3> QED BY <3>1, <3>2
  <2> QED BY <2>1, <2>2 DEF Swept
<1> QED BY <1>2, <1>6, <1>7, <1>8, <1>9, <1>10 DEF IInv, Sound, InOrder

\* In an orderly calendar the entries on the days of a year are those of its
\* periods.
LEMMA YearMembers ==
    ASSUME NEW ys, NEW ps, NEW j, YearsFine(ys), PeriodsFine(ps, ys), EntriesFine(j, ps),
           ApartIn(ys), DatedIn(ys, ps, j), NEW y \in YearIds, ys[y] # NoYear
    PROVE  InYear(j, ys[y]) = {e \in Entries : j[e] # NoEntry /\ ps[j[e].period].year = y}
<1>1. ASSUME NEW e \in Entries, j[e] # NoEntry
      PROVE  Within(j[e].date, ys[y]) <=> ps[j[e].period].year = y
  <2> DEFINE z == ps[j[e].period].year
  <2>1. j[e].date \in Int /\ j[e].period \in PeriodIds /\ ps[j[e].period] # NoPeriod
    BY <1>1, EntryIs
  <2>2. z \in YearIds /\ ys[z] # NoYear
    BY <2>1, PeriodIs
  <2>3. Within(j[e].date, ys[z])
    BY <1>1 DEF DatedIn
  <2> HIDE DEF z
  <2>4. z # y => ~Overlap(ys[y], ys[z])
    BY <2>2 DEF ApartIn
  <2>5. z # y => ~Within(j[e].date, ys[y])
    BY <2>1, <2>2, <2>3, <2>4, YearIs DEF Overlap, Within
  <2> QED BY <2>3, <2>5 DEF z
<1> QED BY <1>1 DEF InYear

\* New dates for an open year.
LEMMA UpdateYearKeeps ==
    ASSUME IInv, NEW y \in Years, NEW from \in Days, NEW to \in Days, UpdateFiscalYear(y, from, to)
    PROVE  IInv'
<1> DEFINE R == year[y]
           r == [R EXCEPT !.from = from, !.to = to]
<1>1. /\ YearsFine(year) /\ PeriodsFine(period, year) /\ EntriesFine(journal, period)
      /\ ShutIn(period, year) /\ OwnedIn(year, journal)
  BY DEF IInv, Sound
<1>2. /\ year' = [year EXCEPT ![y] = r] /\ period' = period /\ journal' = journal
      /\ orderly' = (orderly /\ InOrder' /\ y \in Open) /\ from <= to
  BY DEF UpdateFiscalYear
<1>3. y \in YearIds /\ R # NoYear /\ R \in YearRow
  BY <1>1, YearIs DEF Years
<1> HIDE DEF R
<1>4. r \in YearRow /\ r.from <= r.to /\ r.status = R.status /\ r.closing = R.closing
  BY <1>2, <1>3 DEF YearRow
<1> HIDE DEF r
<1>5. /\ \A x \in YearIds : year'[x] = IF x = y THEN r ELSE year[x]
      /\ \A x \in YearIds : year'[x].status = year[x].status /\ year'[x].closing = year[x].closing
  <2>1. \A x \in YearIds : year'[x] = IF x = y THEN r ELSE year[x]
    BY <1>1, <1>2, <1>3 DEF YearsFine
  <2> QED BY <1>4, <2>1 DEF R
<1>6. YearsFine(year') /\ \A x \in YearIds : year[x] # NoYear <=> year'[x] # NoYear
  <2>1. year' \in [YearIds -> YearRow \cup {NoYear}]
    BY <1>1, <1>2, <1>3, <1>4 DEF YearsFine
  <2> QED BY <1>1, <1>3, <1>4, <1>5, <2>1, RowsThere DEF YearsFine, R
<1>7. PeriodsFine(period', year') /\ EntriesFine(journal', period')
  BY <1>1, <1>2, <1>6, RowsKept
<1>8. ShutIn(period', year')
  <2>1. \A p \in PeriodIds : period[p].status = "open" => period[p].year \in YearIds
    BY <1>1, PeriodIs DEF NoPeriod
  <2> QED BY <1>1, <1>2, <1>5, <2>1 DEF ShutIn
<1>9. OwnedIn(year', journal')
  BY <1>1, <1>2, <1>5 DEF OwnedIn
<1>10. ASSUME orderly' PROVE Swept(year', period', journal')
  <2>1. /\ orderly /\ ApartIn(year') /\ DatedIn(year', period', journal')
        /\ Swept(year, period, journal) /\ R.status # "closed"
    <3>1. orderly /\ InOrder' /\ R.status = "open"
      BY <1>2, <1>10 DEF Open, R
    <3> QED BY <1>7, <3>1, OrderNext DEF IInv
  <2>2. ASSUME NEW x \in YearIds, year'[x] # NoYear PROVE SweptIn(year'[x], journal')
    <3>1. year[x] # NoYear /\ SweptIn(year[x], journal)
      BY <1>6, <2>1, <2>2 DEF Swept
    <3>2. InYear(journal, year[x]) = {e \in Entries : journal[e] # NoEntry /\ period[journal[e].period].year = x}
      BY <1>1, <2>1, <3>1, YearMembers DEF Swept
    <3>3. InYear(journal', year'[x]) = {e \in Entries : journal[e] # NoEntry /\ period[journal[e].period].year = x}
      <4>1. period' = period /\ journal' = journal
        BY <1>2
      <4> QED BY <1>6, <1>7, <2>1, <2>2, <4>1, YearMembers
    <3>4. /\ InYear(journal', year'[x]) = InYear(journal, year[x])
          /\ ClosingIn(journal', year'[x]) = ClosingIn(journal, year[x])
      BY <1>2, <3>2, <3>3 DEF ClosingIn
    <3> QED BY <1>2, <1>5, <3>1, <3>4 DEF SweptIn
  <2> QED BY <2>1, <2>2 DEF Swept
<1> QED BY <1>2, <1>6, <1>7, <1>8, <1>9, <1>10 DEF IInv, Sound, InOrder
-----------------------------------------------------------------------------
(* The invariant. *)

LEMMA InitIInv == ASSUME Init PROVE IInv
<1> USE DEF Init
<1>1. YearsFine(year)
  <2>1. 1 \in Days /\ YearLength \in Days /\ 1 <= YearLength
    BY CalendarAssumption
  <2>2. [from |-> 1, to |-> YearLength, status |-> "open", closing |-> 0] \in YearRow
    BY <2>1 DEF YearRow
  <2>3. year \in [YearIds -> YearRow \cup {NoYear}]
    BY <2>2
  <2> QED BY <2>1, <2>3 DEF YearsFine, NoYear
<1>2. PeriodsFine(period, year) /\ EntriesFine(journal, period)
  BY DEF PeriodsFine, EntriesFine
<1>3. ShutIn(period, year)
  BY DEF ShutIn, NoPeriod
<1>4. \A e \in Entries : journal[e] = NoEntry /\ ~NoEntry.closing
  BY DEF NoEntry
<1>5. LiveIn(journal) = {} /\ \A y \in YearIds : InYear(journal, year[y]) = {} /\ ClosingIn(journal, year[y]) = {}
  BY <1>4 DEF LiveIn, InYear, ClosingIn
<1>6. \A y \in YearIds : /\ year[y].closing = 0 /\ year[y].status # "closed"
                         /\ y # 1 => year[y] = NoYear
  BY DEF NoYear
<1>7. OwnedIn(year, journal)
  BY <1>5, <1>6 DEF OwnedIn
<1>8. Swept(year, period, journal)
  <2>1. \A a \in Accounts : Balance(journal, a, {}) = 0
    BY SumEmpty DEF Balance
  <2>2. ApartIn(year) /\ DatedIn(year, period, journal)
    BY <1>4, <1>6 DEF ApartIn, DatedIn
  <2>3. \A y \in YearIds : SweptIn(year[y], journal)
    BY <1>5, <1>6, <2>1 DEF SweptIn
  <2> QED BY <2>2, <2>3 DEF Swept
<1> QED BY <1>1, <1>2, <1>3, <1>7, <1>8 DEF IInv, Sound

LEMMA NextIInv == ASSUME IInv, [Next]_vars PROVE IInv'
<1>1. CASE UNCHANGED vars
  BY <1>1 DEF vars, IInv, Sound, Swept
<1>2. ASSUME NEW d \in Days, NEW lines \in Postings, Post(d, lines) PROVE IInv'
  BY <1>2, PostKeeps
<1>3. ASSUME NEW y \in YearIds, CloseFiscalYear(y) PROVE IInv'
  BY <1>3, CloseQuietKeeps, CloseEntryKeeps
<1>4. ASSUME NEW y \in YearIds, ReopenFiscalYear(y) PROVE IInv'
  BY <1>4, ReopenQuietKeeps, ReopenEntryKeeps
<1>5. ASSUME NEW p \in PeriodIds, Toggle(p) PROVE IInv'
  BY <1>5, ToggleKeeps
<1>6. ASSUME NEW from \in Days, NEW to \in Days, CreateFiscalYear(from, to) PROVE IInv'
  BY <1>6, CreateYearKeeps
<1>7. ASSUME NEW y \in Years, NEW from \in Days, NEW to \in Days,
             UpdateFiscalYear(y, from, to) \/ CreateAccountingPeriod(y, from, to)
      PROVE  IInv'
  BY <1>7, UpdateYearKeeps, CreatePeriodKeeps
<1>8. ASSUME NEW p \in Periods, NEW y \in Years, NEW from \in Days, NEW to \in Days,
             NEW status \in {"open", "closed"}, UpdateAccountingPeriod(p, y, from, to, status)
      PROVE  IInv'
  BY <1>8, UpdatePeriodKeeps
<1> QED BY <1>1, <1>2, <1>3, <1>4, <1>5, <1>6, <1>7, <1>8 DEF Next, Use, Edit

\* The rows of the calendar and the journal fit together whatever is posted,
\* closed, reopened and edited, and while the calendar is in order a closed
\* year's days come to zero on every account.
THEOREM Invariance == Spec => []IInv
<1>1. Init => IInv
  BY InitIInv
<1>2. IInv /\ [Next]_vars => IInv'
  BY NextIInv
<1> QED BY <1>1, <1>2, PTL DEF Spec

-----------------------------------------------------------------------------
(* What follows. *)

LEMMA RowsTyped == ASSUME IInv PROVE TypeOK
<1>1. /\ YearsFine(year) /\ PeriodsFine(period, year) /\ EntriesFine(journal, period)
      /\ OwnedIn(year, journal)
  BY DEF IInv, Sound
<1>2. ASSUME NEW y \in YearIds
      PROVE  year[y] \in [from : {0} \cup Days, to : {0} \cup Days, status : {"none", "open", "closed"},
                          closing : {0} \cup Posted]
  <2>1. year[y].closing \in {0} \cup Posted
    BY <1>1 DEF OwnedIn, LiveIn, Posted, NoEntry
  <2>2. CASE year[y] = NoYear
    BY <2>2 DEF NoYear
  <2>3. CASE year[y] # NoYear
    BY <1>1, <2>1, <2>3, YearIs DEF YearRow
  <2> QED BY <2>2, <2>3
<1>3. ASSUME NEW p \in PeriodIds
      PROVE  period[p] \in [year : {0} \cup Years, from : {0} \cup Days, to : {0} \cup Days,
                            status : {"none", "open", "closed"}]
  <2>1. CASE period[p] = NoPeriod
    BY <2>1 DEF NoPeriod
  <2>2. CASE period[p] # NoPeriod
    BY <1>1, <2>2, PeriodIs DEF PeriodRow, Years
  <2> QED BY <2>1, <2>2
<1>4. ASSUME NEW e \in Entries
      PROVE  journal[e] \in [date : {0} \cup Days, period : {0} \cup Periods, lines : [Accounts -> Int],
                             closing : BOOLEAN, reverses : {0} \cup Posted]
  <2>1. CASE journal[e] = NoEntry
    BY <2>1 DEF NoEntry, Nothing
  <2>2. CASE journal[e] # NoEntry
    <3>1. journal[e] \in EntryRow /\ period[journal[e].period] # NoPeriod
          /\ (journal[e].reverses # 0 => journal[journal[e].reverses] # NoEntry)
      BY <1>1, <2>2 DEF EntriesFine
    <3> QED BY <3>1 DEF EntryRow, Periods, Posted
  <2> QED BY <2>1, <2>2
<1>5. /\ year = [y \in YearIds |-> year[y]] /\ period = [p \in PeriodIds |-> period[p]]
      /\ journal = [e \in Entries |-> journal[e]]
  BY <1>1 DEF YearsFine, PeriodsFine, EntriesFine
<1>6. \A p \in Periods : \A q \in Periods \ {p} : ~Overlap(period[p], period[q])
  BY <1>1 DEF PeriodsFine, Periods
<1>7. year \in [YearIds -> [from : {0} \cup Days, to : {0} \cup Days, status : {"none", "open", "closed"},
                            closing : {0} \cup Posted]]
  BY <1>2, <1>5
<1>8. period \in [PeriodIds -> [year : {0} \cup Years, from : {0} \cup Days, to : {0} \cup Days,
                                status : {"none", "open", "closed"}]]
  BY <1>3, <1>5
<1>9. journal \in [Entries -> [date : {0} \cup Days, period : {0} \cup Periods, lines : [Accounts -> Int],
                               closing : BOOLEAN, reverses : {0} \cup Posted]]
  BY <1>4, <1>5
<1> QED BY <1>6, <1>7, <1>8, <1>9 DEF TypeOK

\* Years, periods and entries have the shapes of their tables and refer to rows
\* there are; what posting, the year end and the screens do to the calendar
\* leaves no two periods over one day.
THEOREM TypeCorrect == Spec => []TypeOK
BY Invariance, RowsTyped, PTL

\* However years are closed and reopened and periods created, moved and toggled,
\* no period of a closed year is open: what the trigger of the schema says of
\* one row at a time, of them all.
THEOREM ShutYears == Spec => []ClosedYearShut
<1>1. IInv => ClosedYearShut
  BY DEF IInv, Sound, ShutIn, ClosedYearShut, Periods
<1> QED BY <1>1, Invariance, PTL

\* Closing entries not reversed and closed years that have one correspond,
\* across CloseFiscalYear, ReopenFiscalYear and every edit in between.
THEOREM OneEntryAClose == Spec => []ClosingOwned
<1>1. ASSUME IInv PROVE ClosingOwned
  <2>1. YearsFine(year) /\ OwnedIn(year, journal) /\ EntriesFine(journal, period)
    BY <1>1 DEF IInv, Sound
  <2>2. Live = LiveIn(journal)
    <3>1. ASSUME NEW e \in Entries, journal[e].closing PROVE e \in Reversed <=> \E f \in Entries : journal[f].reverses = e
      <4>1. \A f \in Entries : journal[f] = NoEntry => journal[f].reverses # e
        BY Numbers DEF NoEntry
      <4> QED BY <4>1 DEF Reversed, Posted
    <3>2. \A e \in Entries : journal[e].closing => e \in Posted
      BY DEF Posted, NoEntry
    <3> QED BY <3>1, <3>2 DEF Live, LiveIn, Posted
  <2>3. \A y \in YearIds : year[y].closing # 0 => y \in Closed
    BY <2>1 DEF OwnedIn, Closed, Open, Years, NoYear
  <2>4. {year[y].closing : y \in Years} \ {0} = LiveIn(journal)
    <3>1. ASSUME NEW e \in LiveIn(journal) PROVE e # 0 /\ \E y \in Years : year[y].closing = e
      <4>1. e # 0
        BY Numbers DEF LiveIn
      <4> QED BY <2>1, <2>3, <4>1 DEF OwnedIn, Closed
    <3>2. ASSUME NEW y \in Years, year[y].closing # 0 PROVE year[y].closing \in LiveIn(journal)
      BY <2>1, <3>2 DEF OwnedIn, Years
    <3> QED BY <3>1, <3>2
  <2>5. ASSUME NEW y \in Years, year[y].closing # 0
        PROVE  \A z \in Years \ {y} : year[z].closing # year[y].closing
    BY <2>1, <2>5 DEF OwnedIn, Years
  <2>6. \A y \in Years : year[y].closing # 0 => y \in Closed
    BY <2>3 DEF Years
  <2> QED BY <2>2, <2>4, <2>5, <2>6 DEF ClosingOwned
<1> QED BY <1>1, Invariance, PTL

\* In a calendar kept in order, a closed year after closed ones leaves every
\* revenue and expense account at zero: the closing entry takes what the year's
\* documents put there, once.
THEOREM SweptClosed == Spec => []SweptOnce
<1>1. ASSUME IInv, orderly, NEW y \in Closed, Before(y) \subseteq Closed
      PROVE  Total(UpTo(year[y].to)) = Nothing
  <2>1. Sound(year, period, journal) /\ Swept(year, period, journal) /\ YearsFine(year)
        /\ EntriesFine(journal, period)
    BY <1>1 DEF IInv, Sound
  <2>2. \A z \in YearIds : year[z] # NoYear /\ z \notin Open => year[z].status = "closed"
    BY <2>1, YearIs DEF Open, Years, YearRow
  <2>3. y \in YearIds /\ year[y] # NoYear /\ year[y].status = "closed"
    BY <2>2 DEF Closed, Years
  <2>4. ASSUME NEW z \in YearIds \ {y}, year[z] # NoYear, year[z].from < year[y].from
        PROVE  year[z].status = "closed"
    BY <1>1, <2>2, <2>4 DEF Before, Closed, Years
  <2>5. UpTo(year[y].to) = {e \in Entries : journal[e] # NoEntry /\ journal[e].date <= year[y].to}
    BY DEF UpTo, Posted
  <2>6. UpTo(year[y].to) \in SUBSET Entries
    BY <2>5
  <2>7. ASSUME NEW a \in Accounts PROVE Total(UpTo(year[y].to))[a] = 0
    <3>1. Balance(journal, a, InYear(journal, year[y])) = 0
      BY <2>1, <2>3 DEF Swept, SweptIn
    <3>2. Balance(journal, a, UpTo(year[y].to)) = Balance(journal, a, InYear(journal, year[y]))
      BY <2>1, <2>3, <2>4, <2>5, SweptBefore
    <3> QED BY <2>6, <3>1, <3>2, TotalIs
  <2>8. Total(UpTo(year[y].to)) \in [Accounts -> Int]
    BY <2>1, <2>6, TotalType
  <2> QED BY <2>7, <2>8 DEF Nothing
<1>2. IInv => SweptOnce
  BY <1>1 DEF SweptOnce
<1> QED BY <1>2, Invariance, PTL

\* In such a calendar an open year has the balances its documents gave it,
\* however often it was closed and reopened: closing entries and their
\* reversals on its days cancel out.
THEOREM ReopenRestores == Spec => []OpenYearRestored
<1>1. ASSUME IInv, orderly, NEW y \in Open
      PROVE  Total(During(y)) = Total({e \in During(y) : ~journal[e].closing})
  <2> DEFINE rest == {e \in During(y) : ~journal[e].closing}
             close == ClosingIn(journal, year[y])
  <2>1. /\ Swept(year, period, journal) /\ OwnedIn(year, journal) /\ EntriesFine(journal, period)
        /\ y \in YearIds /\ year[y] # NoYear /\ year[y].status = "open"
    BY <1>1 DEF IInv, Sound, Open, Years
  <2>2. During(y) = InYear(journal, year[y])
    BY DEF During, InYear, Posted
  <2>3. /\ During(y) = close \cup rest /\ close \cap rest = {}
        /\ close \in SUBSET Entries /\ rest \in SUBSET Entries /\ During(y) \in SUBSET Entries
    BY <2>2 DEF ClosingIn, InYear
  <2> HIDE DEF close, rest
  <2>4. ASSUME NEW a \in Accounts PROVE Total(During(y))[a] = Total(rest)[a]
    <3>1. year[y].closing = 0
      BY <2>1 DEF OwnedIn
    <3>2. Balance(journal, a, close) = 0
      BY <2>1, <3>1 DEF Swept, SweptIn, close
    <3> DEFINE F == [e \in Entries |-> journal[e].lines[a]]
    <3>3. /\ IsFiniteSet(close) /\ IsFiniteSet(rest) /\ \A e \in close \cup rest : F[e] \in Int
          /\ Balance(journal, a, rest) \in Int
      BY <2>1, <2>3, BalanceOf
    <3>4. Balance(journal, a, close \cup rest) = Balance(journal, a, close) + Balance(journal, a, rest)
      <4> HIDE DEF F
      <4>1. SumOver(F, close \cup rest) = SumOver(F, close) + SumOver(F, rest)
        BY <2>3, <3>3, SumDisjoint
      <4> QED BY <4>1 DEF F, Balance
    <3>5. Balance(journal, a, close \cup rest) = Balance(journal, a, rest)
      BY <3>2, <3>3, <3>4
    <3> QED BY <2>3, <3>5, TotalIs
  <2>5. Total(During(y)) \in [Accounts -> Int] /\ Total(rest) \in [Accounts -> Int]
    BY <2>1, <2>3, TotalType
  <2>6. Total(During(y)) = Total(rest)
    BY <2>4, <2>5
  <2> QED BY <2>6 DEF rest
<1>2. IInv => OpenYearRestored
  BY <1>1 DEF OpenYearRestored
<1> QED BY <1>2, Invariance, PTL

=============================================================================
