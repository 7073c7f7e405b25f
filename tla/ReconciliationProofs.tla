------------------------- MODULE ReconciliationProofs -------------------------
(***************************************************************************)
(* Proofs about BankReconciliation for any number of lines, entries and    *)
(* overlapping requests: matches are sound, and a reconciled statement is  *)
(* right as long as requests come one after the other.                     *)
(***************************************************************************)
EXTENDS BankReconciliation, SumTheorems, TLAPS

-----------------------------------------------------------------------------
(* The inductive invariant, of a statement st, its lines ls, the journal j *)
(* and the requests.                                                       *)

Ops == {"none", "autoMatch", "reconcile", "reopen", "delete", "add", "unmatch", "deleteLine",
        "match", "update", "reverse"}
Request == [op : Ops, arg : Int, by : {0} \cup Entries \cup Accounts,
            step : {"none", "sent", "begun", "wrote"}, todo : SUBSET LineIds, row : EntryType,
            wrote : UNION {[D -> LineType] : D \in SUBSET LineIds}]

Runs(r) == r.step \in {"begun", "wrote"}
Deletes(r) == r.step = "wrote" /\ r.op = "delete"
HoldsStatement(r) == r.step = "wrote" /\ r.op \in {"update", "reconcile", "reopen", "delete"}

\* A row's match is a posted entry of the row's amount.
Backed(j, row) == j[row.match] # NoEntry /\ j[row.match].amount = row.amount

\* What is committed.
Rows(st, ls, j) ==
    /\ st \in [status : {"open", "reconciled", "gone"}, account : Accounts, net : Nets]
    /\ ls \in [LineIds -> LineType] /\ j \in [Entries -> EntryType]
    /\ \A x \in LineIds : ls[x].match # 0 =>
          Backed(j, ls[x]) /\ \A y \in LineIds \ {x} : ls[y].match # ls[x].match
    /\ st.status = "gone" => \A x \in LineIds : ls[x] = NoLine

\* What a request may ask for, and what it has written: its matches are of
\* entries nobody else has, and a deletion holds every line there is.
Own(st, ls, j, r) ==
    /\ r.op = "add" => r.arg \in Amounts
    /\ r.op = "update" => r.arg \in Nets /\ r.by \in Accounts
    /\ r.op = "reverse" => r.by \in Entries
    /\ r.op # "autoMatch" => r.todo = {}
    /\ r.todo \cap DOMAIN r.wrote = {}
    /\ r.step # "wrote" => DOMAIN r.wrote = {} /\ r.row = NoEntry
    /\ r.op \in {"update", "reconcile", "reopen", "reverse"} => DOMAIN r.wrote = {}
    /\ r.row # NoEntry => r.op = "reverse" /\ r.row.reverses = r.by
    /\ \A x \in DOMAIN r.wrote : r.wrote[x].match # 0 =>
          /\ Backed(j, r.wrote[x])
          /\ \A y \in LineIds : ls[y].match # r.wrote[x].match
          /\ \A y \in DOMAIN r.wrote \ {x} : r.wrote[y].match # r.wrote[x].match
    /\ Deletes(r) => /\ \A x \in LineIds : ls[x] # NoLine => x \in DOMAIN r.wrote
                     /\ \A x \in DOMAIN r.wrote : r.wrote[x] = NoLine
    /\ st.status = "gone" => DOMAIN r.wrote = {} /\ (HoldsStatement(r) => Deletes(r))

\* Two requests hold different rows and claim different entries.
Apart(r, q) ==
    /\ DOMAIN r.wrote \cap DOMAIN q.wrote = {}
    /\ \A x \in DOMAIN r.wrote, y \in DOMAIN q.wrote :
          r.wrote[x].match # 0 => r.wrote[x].match # q.wrote[y].match
    /\ ~(HoldsStatement(r) /\ HoldsStatement(q))
    /\ Deletes(r) => DOMAIN q.wrote = {}

\* What holds as long as no two transactions have been open at once: of what
\* is committed, and of the one that is running, which finds what it checked.
Matched(ls) == \A x \in LineIds : ls[x] # NoLine => ls[x].match # 0
SumOf(ls) == MapThenSumSet(LAMBDA x : ls[x].amount, LineIds)
Settled(st, ls, j) ==
    /\ \A x \in LineIds : ls[x].match # 0 => j[ls[x].match].account = st.account
    /\ st.status = "reconciled" => Matched(ls) /\ SumOf(ls) = st.net

\* Lines that AutoMatch is done with and has not matched have no entry left.
Passed(st, ls, j, r) ==
    \A x \in LineIds \ (r.todo \cup DOMAIN r.wrote) : \A e \in Entries :
        ls[x] # NoLine /\ ls[x].match = 0 /\ j[e] # NoEntry
        /\ j[e].account = st.account /\ j[e].amount = ls[x].amount =>
           (\E y \in LineIds : ls[y].match = e) \/ (\E y \in DOMAIN r.wrote : r.wrote[y].match = e)

Lone(st, ls, j, r) ==
    /\ r.op = "reopen" => st.status = "reconciled"
    /\ r.op \notin {"reopen", "reverse"} => st.status = "open"
    /\ r.op = "reverse" => \A x \in LineIds : ls[x].match # r.by
    /\ r.op = "reconcile" /\ r.step = "wrote" => Matched(ls) /\ SumOf(ls) = st.net
    /\ r.op = "update" /\ r.step = "wrote" /\ r.by # st.account => \A x \in LineIds : ls[x].match = 0
    /\ \A x \in DOMAIN r.wrote : r.wrote[x].match # 0 => j[r.wrote[x].match].account = st.account
    /\ r.op = "autoMatch" =>
          /\ \A x \in DOMAIN r.wrote : ls[x].match = 0 /\ r.wrote[x].match # 0
          /\ \A x \in r.todo : ls[x].match = 0
          /\ Passed(st, ls, j, r)

IInv ==
    /\ Rows(statement, lines, journal)
    /\ requests \in [Slots -> Request] /\ overlapped \in BOOLEAN
    /\ \A s \in Slots : Own(statement, lines, journal, requests[s])
    /\ \A s \in Slots : \A u \in Slots \ {s} : Apart(requests[s], requests[u])
    /\ ~overlapped =>
          /\ Settled(statement, lines, journal)
          /\ \A s \in Slots : Runs(requests[s]) =>
                /\ Lone(statement, lines, journal, requests[s])
                /\ \A u \in Slots \ {s} : ~Runs(requests[u])
-----------------------------------------------------------------------------
(* Rows and requests. *)

LEMMA MinOfIds ==
    ASSUME NEW S \in SUBSET Nat, S # {}
    PROVE  Min(S) \in S
BY Smallest DEF Min

LEMMA Ids == 0 \notin LineIds /\ 0 \notin Entries /\ LineIds \subseteq Nat /\ Entries \subseteq Nat /\ 0 \notin Amounts
BY BankAssumption

LEMMA RowTypes ==
    /\ NoLine \in LineType /\ NoLine.match = 0 /\ NoLine.amount = 0
    /\ NoEntry \in EntryType /\ NoEntry.reverses = 0 /\ NoEntry.account = "none" /\ NoEntry.amount = 0
BY DEF NoLine, NoEntry, LineType, EntryType

LEMMA EmptyWrote == DOMAIN <<>> = {}
OBVIOUS

\* No request, and what it has written, is in nobody's way.
LEMMA NoRequestIs ==
    /\ NoRequest \in Request /\ DOMAIN NoRequest.wrote = {} /\ NoRequest.row = NoEntry
    /\ NoRequest.step = "none" /\ NoRequest.op = "none"
<1> DEFINE w == <<>>
           none == [op |-> "none", arg |-> 0, by |-> 0, step |-> "none", todo |-> {}, row |-> NoEntry, wrote |-> w]
<1>1. w \in UNION {[D -> LineType] : D \in SUBSET LineIds}
  <2>1. w \in [{} -> LineType]
    OBVIOUS
  <2> QED BY <2>1
<1>2. DOMAIN w = {} /\ NoRequest = none
  BY EmptyWrote DEF NoRequest
<1> HIDE DEF w
<1>3. none \in Request /\ none.wrote = w /\ none.row = NoEntry /\ none.step = "none" /\ none.op = "none"
  BY <1>1, RowTypes DEF Request, Ops
<1> HIDE DEF none
<1> QED BY <1>2, <1>3

\* A request that has written nothing has nothing that others could mind.
Quiet(r) == r.step # "wrote" /\ DOMAIN r.wrote = {} /\ r.row = NoEntry
LEMMA QuietApart ==
    ASSUME NEW r, NEW q, Quiet(r), Quiet(q) \/ ~Deletes(q) \/ DOMAIN r.wrote = {}
    PROVE  Apart(r, q) /\ Apart(q, r)
BY DEF Quiet, Apart, Deletes, HoldsStatement

\* One request goes on, and nothing is committed.
LEMMA RequestMoves ==
    ASSUME IInv, UNCHANGED <<statement, lines, journal>>, NEW s \in Slots,
           \A u \in Slots \ {s} : requests'[u] = requests[u],
           requests' \in [Slots -> Request], overlapped' \in BOOLEAN,
           Own(statement, lines, journal, requests'[s]),
           \A u \in Slots \ {s} : Apart(requests'[s], requests[u]) /\ Apart(requests[u], requests'[s]),
           ~overlapped' => /\ ~overlapped
                           /\ Runs(requests'[s]) => /\ Lone(statement, lines, journal, requests'[s])
                                                    /\ \A u \in Slots \ {s} : ~Runs(requests[u])
    PROVE  IInv'
<1> DEFINE r == requests'[s]
<1>1. \A u \in Slots : requests'[u] = IF u = s THEN r ELSE requests[u]
  OBVIOUS
<1>2. Rows(statement, lines, journal)' /\ \A u \in Slots : Own(statement, lines, journal, requests[u])'
  BY <1>1 DEF IInv
<1> HIDE DEF r
<1>3. \A t \in Slots : \A u \in Slots \ {t} : Apart(requests'[t], requests'[u])
  BY <1>1 DEF IInv, r
<1>4. ASSUME ~overlapped'
      PROVE  /\ Settled(statement, lines, journal)'
             /\ \A t \in Slots : Runs(requests'[t]) =>
                   /\ Lone(statement', lines', journal', requests'[t])
                   /\ \A u \in Slots \ {t} : ~Runs(requests'[u])
  <2>1. ~overlapped /\ Settled(statement, lines, journal)
    BY <1>4 DEF IInv
  <2>2. ASSUME NEW t \in Slots, Runs(requests'[t])
        PROVE  /\ Lone(statement, lines, journal, requests'[t])
               /\ \A u \in Slots \ {t} : ~Runs(requests'[u])
    <3>1. CASE t = s
      BY <1>1, <1>4, <2>2, <3>1
    <3>2. CASE t # s
      <4>1. requests'[t] = requests[t] /\ Runs(requests[t])
        BY <1>1, <2>2, <3>2
      <4>2. Lone(statement, lines, journal, requests[t]) /\ \A u \in Slots \ {t} : ~Runs(requests[u])
        BY <2>1, <4>1 DEF IInv
      <4>3. ~Runs(requests'[s])
        BY <1>4, <3>2, <4>1
      <4> QED BY <1>1, <4>1, <4>2, <4>3
    <3> QED BY <3>1, <3>2
  <2>3. statement' = statement /\ lines' = lines /\ journal' = journal
    OBVIOUS
  <2> QED BY <2>1, <2>2, <2>3
<1> QED BY <1>2, <1>3, <1>4 DEF IInv

\* A request is dropped, whatever it has written.
LEMMA FailsKeeps ==
    ASSUME IInv, NEW s \in Slots, Fails(s)
    PROVE  IInv'
<1>1. requests' = [requests EXCEPT ![s] = NoRequest] /\ UNCHANGED <<statement, lines, journal, overlapped>>
  BY DEF Fails
<1>2. /\ requests' \in [Slots -> Request] /\ requests'[s] = NoRequest
      /\ \A u \in Slots \ {s} : requests'[u] = requests[u]
  BY <1>1, NoRequestIs DEF IInv
<1>3. Own(statement, lines, journal, NoRequest)
  BY NoRequestIs DEF Own, Deletes, HoldsStatement, NoRequest
<1>4. \A u \in Slots \ {s} : Apart(NoRequest, requests[u]) /\ Apart(requests[u], NoRequest)
  BY NoRequestIs, QuietApart DEF Quiet
<1>5. ~Runs(NoRequest)
  BY NoRequestIs DEF Runs
<1>6. overlapped' \in BOOLEAN /\ (~overlapped' => ~overlapped)
  BY <1>1 DEF IInv
<1> QED BY <1>1, <1>2, <1>3, <1>4, <1>5, <1>6, RequestMoves

\* What is asked for.
LEMMA AskKeeps ==
    ASSUME IInv, NEW op \in Ops, NEW arg \in Int, NEW by \in {0} \cup Entries \cup Accounts, Ask(op, arg, by),
           op = "add" => arg \in Amounts, op = "update" => arg \in Nets /\ by \in Accounts,
           op = "reverse" => by \in Entries
    PROVE  IInv'
<1> DEFINE s == Min(Free)
           r == [NoRequest EXCEPT !.op = op, !.arg = arg, !.by = by, !.step = "sent"]
<1>1. requests' = [requests EXCEPT ![s] = r] /\ UNCHANGED <<statement, lines, journal, overlapped>>
  BY DEF Ask
<1>2. s \in Slots
  <2>1. Free \in SUBSET Nat /\ Free # {}
    BY BankAssumption DEF Free, Slots, Ask
  <2> QED BY <2>1, MinOfIds DEF Free
<1>3. /\ r \in Request /\ r.op = op /\ r.arg = arg /\ r.by = by /\ r.step = "sent"
      /\ r.wrote = NoRequest.wrote /\ r.row = NoRequest.row /\ r.todo = {}
  <2>1. NoRequest.todo = {}
    BY DEF NoRequest
  <2> QED BY <2>1, NoRequestIs DEF Request
<1> HIDE DEF s, r
<1>4. /\ requests' \in [Slots -> Request] /\ requests'[s] = r
      /\ \A u \in Slots \ {s} : requests'[u] = requests[u]
  BY <1>1, <1>2, <1>3 DEF IInv
<1>5. Own(statement, lines, journal, r)
  BY <1>3, NoRequestIs DEF Own, Deletes, HoldsStatement
<1>6. \A u \in Slots \ {s} : Apart(r, requests[u]) /\ Apart(requests[u], r)
  BY <1>3, NoRequestIs, QuietApart DEF Quiet
<1>7. ~Runs(r) /\ overlapped' \in BOOLEAN /\ (~overlapped' => ~overlapped)
  BY <1>1, <1>3 DEF Runs, IInv
<1> QED BY <1>1, <1>2, <1>4, <1>5, <1>6, <1>7, RequestMoves

LEMMA AsksKeep ==
    ASSUME IInv, Asks
    PROVE  IInv'
<1> USE DEF Ops
<1>1. ASSUME NEW op \in {"autoMatch", "reconcile", "reopen", "delete"}, Ask(op, 0, 0) PROVE IInv'
  BY <1>1, AskKeeps
<1>2. ASSUME NEW a \in Amounts, Ask("add", a, 0) PROVE IInv'
  BY <1>2, AskKeeps, BankAssumption
<1>3. ASSUME NEW x \in LineIds, Ask("unmatch", x, 0) \/ Ask("deleteLine", x, 0) PROVE IInv'
  BY <1>3, AskKeeps, BankAssumption
<1>4. ASSUME NEW x \in LineIds, NEW e \in Entries, Ask("match", x, e) PROVE IInv'
  BY <1>4, AskKeeps, BankAssumption
<1>5. ASSUME NEW n \in Nets, NEW c \in Accounts, Ask("update", n, c) PROVE IInv'
  BY <1>5, AskKeeps, BankAssumption
<1>6. ASSUME NEW e \in Entries, Ask("reverse", 0, e) PROVE IInv'
  BY <1>6, AskKeeps, BankAssumption
<1> QED BY <1>1, <1>2, <1>3, <1>4, <1>5, <1>6 DEF Asks

\* A transaction begins: alone, it finds what it requires.
LEMMA BeginKeeps ==
    ASSUME IInv, NEW s \in Slots, Begin(s)
    PROVE  IInv'
<1> DEFINE R == requests[s]
           todo == IF R.op = "autoMatch" THEN Unmatched ELSE {}
           r == requests'[s]
<1>1. /\ requests' = [requests EXCEPT ![s].step = "begun", ![s].todo = todo]
      /\ R.step = "sent" /\ Requires(R) /\ UNCHANGED <<statement, lines, journal>>
      /\ overlapped' = (overlapped \/ Running # {})
  BY DEF Begin
<1>2. R \in Request /\ Own(statement, lines, journal, R) /\ todo \in SUBSET LineIds
  BY DEF IInv, Unmatched, Present
<1>3. /\ r \in Request /\ r.op = R.op /\ r.arg = R.arg /\ r.by = R.by /\ r.step = "begun" /\ r.todo = todo
      /\ r.wrote = R.wrote /\ r.row = R.row
  <2>1. r = [R EXCEPT !.step = "begun", !.todo = todo]
    BY <1>1 DEF IInv
  <2> HIDE DEF r, R, todo
  <2> QED BY <1>2, <2>1 DEF Request
<1> HIDE DEF r, todo
<1>4. /\ requests' \in [Slots -> Request] /\ \A u \in Slots \ {s} : requests'[u] = requests[u]
  <2>1. \A u \in Slots \ {s} : requests'[u] = requests[u]
    BY <1>1 DEF IInv
  <2>2. requests' = [u \in Slots |-> requests'[u]]
    BY <1>1 DEF IInv
  <2> QED BY <1>3, <2>1, <2>2 DEF IInv, r
<1>5. DOMAIN r.wrote = {} /\ r.row = NoEntry
  BY <1>1, <1>2, <1>3 DEF Own
<1>6. Own(statement, lines, journal, r)
  <2>1. r.op # "autoMatch" => r.todo = {}
    BY <1>3 DEF todo
  <2> QED BY <1>2, <1>3, <1>5, <2>1 DEF Own, Deletes, HoldsStatement
<1>7. \A u \in Slots \ {s} : Apart(r, requests[u]) /\ Apart(requests[u], r)
  BY <1>3, <1>5, QuietApart DEF Quiet
<1>8. ASSUME ~overlapped'
      PROVE  /\ ~overlapped /\ Lone(statement, lines, journal, r)
             /\ \A u \in Slots \ {s} : ~Runs(requests[u])
  <2>1. ~overlapped /\ \A u \in Slots : ~Runs(requests[u])
    BY <1>1, <1>8 DEF Running, Runs, IInv
  <2>2. /\ r.op = "reopen" => statement.status = "reconciled"
        /\ r.op \notin {"reopen", "reverse"} => statement.status = "open"
        /\ r.op = "reverse" => r.by \notin Used
    BY <1>1, <1>3 DEF Requires, OfLine
  <2>3. r.op = "reverse" => \A x \in LineIds : lines[x].match # r.by
    <3>1. r.op = "reverse" => r.by \in Entries
      BY <1>6 DEF Own
    <3> QED BY <2>2, <3>1, Ids, RowTypes DEF Used, Present
  <2>4. r.op = "autoMatch" => r.todo = Unmatched
    BY <1>3 DEF todo
  <2>5. r.op = "autoMatch" =>
          /\ \A x \in r.todo : lines[x].match = 0
          /\ \A x \in LineIds \ r.todo : ~(lines[x] # NoLine /\ lines[x].match = 0)
    BY <2>4 DEF Unmatched, Present
  <2>6. r.step = "begun"
    BY <1>3
  <2> QED BY <1>5, <2>1, <2>2, <2>3, <2>5, <2>6 DEF Lone, Passed
<1>9. overlapped' \in BOOLEAN
  BY <1>1 DEF IInv
<1> QED BY <1>1, <1>4, <1>6, <1>7, <1>8, <1>9, RequestMoves DEF r
-----------------------------------------------------------------------------
(* Writing. *)

\* Nobody else has the entry e: no line is matched with it, nor is about to be.
Unclaimed2(s, e) ==
    /\ \A y \in LineIds : lines[y].match # e
    /\ \A u \in Slots \ {s} : \A y \in DOMAIN requests[u].wrote : requests[u].wrote[y].match # e

\* Request s may write the rows W and an entry row, as far as others go.
MayWrite(s, row, W) ==
    /\ W \in UNION {[D -> LineType] : D \in SUBSET LineIds} /\ row \in EntryType
    /\ row # NoEntry => requests[s].op = "reverse" /\ row.reverses = requests[s].by
    /\ requests[s].op \in {"update", "reconcile", "reopen", "reverse"} => DOMAIN W = {}
    /\ \A x \in DOMAIN W : W[x].match # 0 =>
          /\ Backed(journal, W[x]) /\ Unclaimed2(s, W[x].match)
          /\ \A y \in DOMAIN W \ {x} : W[y].match # W[x].match
    /\ \A u \in Slots \ {s} : DOMAIN W \cap DOMAIN requests[u].wrote = {}
    /\ DOMAIN W # {} => \A u \in Slots \ {s} : ~Deletes(requests[u])
    /\ requests[s].op \in {"update", "reconcile", "reopen", "delete"} =>
          \A u \in Slots \ {s} : ~HoldsStatement(requests[u])
    /\ requests[s].op = "delete" =>
          /\ \A x \in LineIds : lines[x] # NoLine => x \in DOMAIN W
          /\ \A x \in DOMAIN W : W[x] = NoLine
          /\ \A u \in Slots \ {s} : DOMAIN requests[u].wrote = {}
    /\ statement.status = "gone" => DOMAIN W = {} /\ requests[s].op \notin {"update", "reconcile", "reopen"}

\* ... and what makes it right if it is alone.
Right(s, W) ==
    /\ requests[s].op = "reconcile" => Matched(lines) /\ SumOf(lines) = statement.net
    /\ requests[s].op = "update" /\ requests[s].by # statement.account => \A x \in LineIds : lines[x].match = 0
    /\ \A x \in DOMAIN W : W[x].match # 0 => journal[W[x].match].account = statement.account
    /\ requests[s].op = "autoMatch" => DOMAIN W = {}

LEMMA WritesKeep ==
    ASSUME IInv, NEW s \in Slots, requests[s].step = "begun", NEW row, NEW W, MayWrite(s, row, W), Right(s, W),
           Writes(s, row, W)
    PROVE  IInv'
<1> DEFINE R == requests[s]
           r == requests'[s]
<1>1. /\ requests' = [requests EXCEPT ![s].step = "wrote", ![s].row = row, ![s].wrote = W]
      /\ UNCHANGED <<statement, lines, journal, overlapped>>
  BY DEF Writes
<1>2. R \in Request /\ Own(statement, lines, journal, R) /\ R.step = "begun"
      /\ \A u \in Slots : requests[u] \in Request
  BY DEF IInv
<1>3. /\ r \in Request /\ r.op = R.op /\ r.arg = R.arg /\ r.by = R.by /\ r.step = "wrote" /\ r.todo = R.todo
      /\ r.wrote = W /\ r.row = row
  <2>1. r = [R EXCEPT !.step = "wrote", !.row = row, !.wrote = W]
    BY <1>1 DEF IInv
  <2>2. row \in EntryType /\ W \in UNION {[D -> LineType] : D \in SUBSET LineIds}
    BY DEF MayWrite
  <2> HIDE DEF r, R
  <2> QED BY <1>2, <2>1, <2>2 DEF Request
<1> HIDE DEF r
<1>4. requests' \in [Slots -> Request] /\ \A u \in Slots \ {s} : requests'[u] = requests[u]
  <2>1. \A u \in Slots \ {s} : requests'[u] = requests[u]
    BY <1>1 DEF IInv
  <2>2. requests' = [u \in Slots |-> requests'[u]]
    BY <1>1 DEF IInv
  <2> QED BY <1>2, <1>3, <2>1, <2>2 DEF r
<1>5. Own(statement, lines, journal, r)
  <2>1. /\ r.op = "add" => r.arg \in Amounts
        /\ r.op = "update" => r.arg \in Nets /\ r.by \in Accounts
        /\ r.op = "reverse" => r.by \in Entries
        /\ r.op # "autoMatch" => r.todo = {}
        /\ r.todo \cap DOMAIN r.wrote = {}
    BY <1>2, <1>3 DEF Own, Right
  <2> QED BY <1>3, <2>1 DEF Own, MayWrite, Deletes, HoldsStatement, Unclaimed2
<1>6. ASSUME NEW u \in Slots \ {s} PROVE Apart(r, requests[u]) /\ Apart(requests[u], r)
  <2>1. \A x \in DOMAIN W, y \in DOMAIN requests[u].wrote :
           /\ W[x].match # 0 => W[x].match # requests[u].wrote[y].match
           /\ requests[u].wrote[y].match # 0 => requests[u].wrote[y].match # W[x].match
    BY DEF MayWrite, Unclaimed2
  <2>2. DOMAIN W \cap DOMAIN requests[u].wrote = {}
    BY DEF MayWrite
  <2>3. ~(HoldsStatement(r) /\ HoldsStatement(requests[u]))
    BY <1>3 DEF MayWrite, HoldsStatement
  <2>4. (Deletes(r) => DOMAIN requests[u].wrote = {}) /\ (Deletes(requests[u]) => DOMAIN W = {})
    BY <1>3 DEF MayWrite, Deletes
  <2> QED BY <1>3, <2>1, <2>2, <2>3, <2>4 DEF Apart
<1>7. ASSUME ~overlapped'
      PROVE  /\ ~overlapped /\ Lone(statement, lines, journal, r)
             /\ \A u \in Slots \ {s} : ~Runs(requests[u])
  <2>1. ~overlapped /\ Lone(statement, lines, journal, R) /\ \A u \in Slots \ {s} : ~Runs(requests[u])
    BY <1>1, <1>2, <1>7 DEF IInv, Runs
  <2>2. r.op = "autoMatch" =>
          /\ \A x \in DOMAIN r.wrote : lines[x].match = 0 /\ r.wrote[x].match # 0
          /\ \A x \in r.todo : lines[x].match = 0
          /\ Passed(statement, lines, journal, r)
    <3>1. DOMAIN R.wrote = {}
      BY <1>2 DEF Own
    <3>2. r.op = "autoMatch" => DOMAIN r.wrote = {} /\ r.todo = R.todo /\ R.op = "autoMatch"
      BY <1>3 DEF Right
    <3> HIDE DEF R
    <3> QED BY <2>1, <3>1, <3>2 DEF Lone, Passed
  <2>3. /\ r.op = "reopen" => statement.status = "reconciled"
        /\ r.op \notin {"reopen", "reverse"} => statement.status = "open"
        /\ r.op = "reverse" => \A x \in LineIds : lines[x].match # r.by
    BY <1>3, <2>1 DEF Lone
  <2> QED BY <1>3, <2>1, <2>2, <2>3 DEF Lone, Right
<1>8. overlapped' \in BOOLEAN
  BY <1>1 DEF IInv
<1> QED BY <1>1, <1>4, <1>5, <1>6, <1>7, <1>8, RequestMoves DEF r

\* What the locks and the unique index say.
LEMMA LocksAre ==
    ASSUME IInv, NEW s \in Slots
    PROVE  /\ \A x \in LineIds : x \notin Held(s) => \A u \in Slots \ {s} : x \notin DOMAIN requests[u].wrote
           /\ Held(s) = {} => \A u \in Slots \ {s} : DOMAIN requests[u].wrote = {}
           /\ \A e \in Entries : Unclaimed(s, e) => Unclaimed2(s, e)
           /\ ~StatementHeld(s) => \A u \in Slots \ {s} : ~HoldsStatement(requests[u])
<1>1. \A x \in LineIds : x \notin Held(s) => \A u \in Slots \ {s} : x \notin DOMAIN requests[u].wrote
  BY DEF Held
<1>2. Held(s) = {} => \A u \in Slots \ {s} : DOMAIN requests[u].wrote = {}
  BY DEF Held
<1>3. ASSUME NEW e \in Entries, Unclaimed(s, e) PROVE Unclaimed2(s, e)
  <2>1. \A y \in LineIds : lines[y].match # e
    BY <1>3, Ids, RowTypes DEF Unclaimed, Used, Present
  <2>2. ASSUME NEW u \in Slots \ {s}, NEW y \in DOMAIN requests[u].wrote PROVE requests[u].wrote[y].match # e
    BY <1>3, Ids DEF Unclaimed, Claimed
  <2> QED BY <2>1, <2>2 DEF Unclaimed2
<1>4. ~StatementHeld(s) => \A u \in Slots \ {s} : ~HoldsStatement(requests[u])
  BY DEF StatementHeld, HoldsStatement, HasWritten
<1> QED BY <1>1, <1>2, <1>3, <1>4

\* A line there is that nobody holds: no deletion is under way.
LEMMA LineFree ==
    ASSUME IInv, NEW s \in Slots, NEW x \in Present \ Held(s)
    PROVE  /\ x \in LineIds /\ lines[x] \in LineType /\ statement.status # "gone"
           /\ \A u \in Slots \ {s} : x \notin DOMAIN requests[u].wrote /\ ~Deletes(requests[u])
<1>1. x \in LineIds /\ lines[x] \in LineType /\ lines[x] # NoLine /\ statement.status # "gone"
  BY DEF IInv, Rows, Present
<1>2. ASSUME NEW u \in Slots \ {s} PROVE x \notin DOMAIN requests[u].wrote /\ ~Deletes(requests[u])
  <2>1. x \notin DOMAIN requests[u].wrote
    BY <1>1, LocksAre
  <2> QED BY <1>1, <2>1 DEF IInv, Own
<1> QED BY <1>1, <1>2

\* One line there is is written.
LEMMA LineWritten ==
    ASSUME IInv, NEW s \in Slots, requests[s].step = "begun",
           requests[s].op \in {"match", "unmatch", "deleteLine"},
           NEW x \in Present \ Held(s), NEW v \in LineType,
           v.match # 0 => /\ Backed(journal, v) /\ Unclaimed2(s, v.match)
                          /\ journal[v.match].account = statement.account,
           NEW W, W = [y \in {x} |-> v], Writes(s, NoEntry, W)
    PROVE  IInv'
<1>1. /\ x \in LineIds /\ statement.status # "gone"
      /\ \A u \in Slots \ {s} : x \notin DOMAIN requests[u].wrote /\ ~Deletes(requests[u])
  BY LineFree
<1>2. W \in UNION {[D -> LineType] : D \in SUBSET LineIds} /\ DOMAIN W = {x} /\ W[x] = v
  <2>1. W \in [{x} -> LineType]
    OBVIOUS
  <2> QED BY <1>1, <2>1
<1>3. MayWrite(s, NoEntry, W)
  <2> HIDE DEF Unclaimed2, Backed
  <2> QED BY <1>1, <1>2, RowTypes DEF MayWrite
<1>4. Right(s, W)
  BY <1>2 DEF Right
<1> QED BY <1>3, <1>4, WritesKeep

LEMMA LineActionsKeep ==
    ASSUME IInv, NEW s \in Slots, MatchLine(s) \/ UnmatchLine(s) \/ DeleteLine(s)
    PROVE  IInv'
<1> DEFINE x == requests[s].arg
           e == requests[s].by
<1>1. ASSUME MatchLine(s) PROVE IInv'
  <2> DEFINE v == [lines[x] EXCEPT !.match = e]
  <2>1. /\ requests[s].op = "match" /\ requests[s].step = "begun" /\ x \in Present \ Held(s)
        /\ Backs(e, x) /\ Unclaimed(s, e) /\ Writes(s, NoEntry, [y \in {x} |-> v])
    BY <1>1 DEF MatchLine, Unmatched
  <2>2. e \in Entries /\ journal[e] # NoEntry /\ journal[e].account = statement.account
        /\ journal[e].amount = lines[x].amount
    BY <2>1 DEF Backs, Posted
  <2>3. lines[x] \in LineType
    BY <2>1, LineFree
  <2>4. v \in LineType /\ v.match = e /\ v.amount = lines[x].amount
    <3> HIDE DEF x, e
    <3> QED BY <2>2, <2>3 DEF LineType
  <2>5. Unclaimed2(s, e)
    BY <2>1, <2>2, LocksAre
  <2> HIDE DEF x, e, v
  <2>6. Backed(journal, v)
    BY <2>2, <2>4 DEF Backed
  <2> DEFINE W == [y \in {x} |-> v]
  <2>7. Writes(s, NoEntry, W)
    BY <2>1
  <2> QED BY <2>1, <2>2, <2>4, <2>5, <2>6, <2>7, LineWritten
<1>2. ASSUME UnmatchLine(s) PROVE IInv'
  <2> DEFINE v == [lines[x] EXCEPT !.match = 0]
  <2>1. /\ requests[s].op = "unmatch" /\ requests[s].step = "begun" /\ x \in Present \ Held(s)
        /\ Writes(s, NoEntry, [y \in {x} |-> v])
    BY <1>2 DEF UnmatchLine
  <2>2. lines[x] \in LineType
    BY <2>1, LineFree
  <2>3. v \in LineType /\ v.match = 0
    <3> HIDE DEF x
    <3> QED BY <2>2 DEF LineType
  <2> HIDE DEF x, v
  <2> DEFINE W == [y \in {x} |-> v]
  <2>4. Writes(s, NoEntry, W)
    BY <2>1
  <2> QED BY <2>1, <2>3, <2>4, LineWritten
<1>3. ASSUME DeleteLine(s) PROVE IInv'
  <2>1. /\ requests[s].op = "deleteLine" /\ requests[s].step = "begun" /\ x \in Present \ Held(s)
        /\ Writes(s, NoEntry, [y \in {x} |-> NoLine])
    BY <1>3 DEF DeleteLine
  <2> HIDE DEF x
  <2> DEFINE W == [y \in {x} |-> NoLine]
  <2>2. Writes(s, NoEntry, W)
    BY <2>1
  <2> QED BY <2>1, <2>2, RowTypes, LineWritten
<1> QED BY <1>1, <1>2, <1>3

\* A new line takes an id nobody holds, of a statement nobody deletes.
LEMMA AddKeeps ==
    ASSUME IInv, NEW s \in Slots, AddLine(s)
    PROVE  IInv'
<1> DEFINE a == requests[s].arg
           new == LineIds \ (Present \cup Held(s))
           x == Min(new)
           v == [amount |-> a, match |-> 0]
           W == [y \in {x} |-> v]
<1>1. /\ requests[s].op = "add" /\ requests[s].step = "begun" /\ statement.status # "gone" /\ new # {}
      /\ \A u \in Slots : ~Deletes(requests[u])
      /\ Writes(s, NoEntry, W)
  BY DEF AddLine, Deletes, HasWritten
<1>2. x \in new
  <2>1. new \in SUBSET Nat
    BY Ids
  <2> QED BY <1>1, <2>1, MinOfIds
<1>3. v \in LineType /\ v.match = 0
  <2>1. a \in Amounts
    BY <1>1 DEF IInv, Own
  <2> QED BY <2>1 DEF LineType
<1>4. \A u \in Slots \ {s} : x \notin DOMAIN requests[u].wrote
  BY <1>2, LocksAre
<1> HIDE DEF x, v
<1>5. W \in UNION {[D -> LineType] : D \in SUBSET LineIds} /\ DOMAIN W = {x} /\ W[x] = v
  <2>1. W \in [{x} -> LineType]
    BY <1>3
  <2> QED BY <1>2, <2>1
<1> HIDE DEF W
<1>6. MayWrite(s, NoEntry, W)
  BY <1>1, <1>3, <1>4, <1>5, RowTypes DEF MayWrite
<1>7. Right(s, W)
  BY <1>1, <1>3, <1>5 DEF Right
<1> QED BY <1>1, <1>6, <1>7, WritesKeep
\* The statement's own requests, a reversal, and an automatic match of nothing.
LEMMA NothingWritten ==
    ASSUME NEW W, DOMAIN W = {}, W = <<>>, NEW s \in Slots, IInv,
           NEW row \in EntryType,
           row # NoEntry => requests[s].op = "reverse" /\ row.reverses = requests[s].by,
           requests[s].op # "delete",
           requests[s].op \in {"update", "reconcile", "reopen"} =>
              ~StatementHeld(s) /\ statement.status # "gone"
    PROVE  MayWrite(s, row, W)
<1>1. W \in UNION {[D -> LineType] : D \in SUBSET LineIds}
  BY NoRequestIs DEF NoRequest, Request
<1>2. requests[s].op \in {"update", "reconcile", "reopen"} => \A u \in Slots \ {s} : ~HoldsStatement(requests[u])
  BY LocksAre
<1> QED BY <1>1, <1>2 DEF MayWrite

LEMMA StatementActionsKeep ==
    ASSUME IInv, NEW s \in Slots,
           AutoMatchNothing(s) \/ UpdateStatement(s) \/ Reconcile(s) \/ Reopen(s) \/ ReverseEntry(s)
    PROVE  IInv'
<1> DEFINE W == <<>>
           e == requests[s].by
           row == IF requests[s].op = "reverse" THEN [journal[e] EXCEPT !.amount = -@, !.reverses = e] ELSE NoEntry
<1>1. requests[s].step = "begun" /\ Writes(s, row, W)
      /\ requests[s].op \in {"autoMatch", "update", "reconcile", "reopen", "reverse"}
  BY DEF AutoMatchNothing, UpdateStatement, Reconcile, Reopen, ReverseEntry
<1>2. row \in EntryType /\ (row # NoEntry => requests[s].op = "reverse" /\ row.reverses = e)
  <2>1. CASE requests[s].op = "reverse"
    <3>1. e \in Entries /\ journal[e] \in EntryType
      BY <2>1 DEF IInv, Own, Rows
    <3>2. \A v \in EntryType : -(v.amount) \in {0} \cup Amounts \cup {-a : a \in Amounts}
      <4>1. ASSUME NEW v \in EntryType PROVE -(v.amount) \in {0} \cup Amounts \cup {-a : a \in Amounts}
        <5>1. v.amount \in {0} \cup Amounts \cup {-a : a \in Amounts}
          BY DEF EntryType
        <5>2. CASE v.amount \in {0} \cup Amounts
          BY <5>2
        <5>3. ASSUME NEW a \in Amounts, v.amount = -a PROVE -(v.amount) \in Amounts
          <6>1. a \in Int
            BY BankAssumption
          <6>2. -(v.amount) = a
            BY <5>3, <6>1
          <6> QED BY <6>2
        <5> QED BY <5>1, <5>2, <5>3
      <4> QED BY <4>1
    <3> DEFINE v == journal[e]
    <3>3. row = [v EXCEPT !.amount = -(v.amount), !.reverses = e]
      BY <2>1
    <3>4. -(v.amount) \in {0} \cup Amounts \cup {-a : a \in Amounts} /\ v \in EntryType
      BY <3>1, <3>2
    <3> HIDE DEF v, row
    <3>5. row \in EntryType /\ row.reverses = e
      BY <3>1, <3>3, <3>4 DEF EntryType
    <3> QED BY <2>1, <3>5
  <2>2. CASE requests[s].op # "reverse"
    BY <2>2, RowTypes
  <2> QED BY <2>1, <2>2
<1>3. requests[s].op \in {"update", "reconcile", "reopen"} => ~StatementHeld(s) /\ statement.status # "gone"
  BY DEF AutoMatchNothing, UpdateStatement, Reconcile, Reopen, ReverseEntry
<1>4. DOMAIN W = {}
  BY EmptyWrote
<1>5. Right(s, W)
  <2>1. requests[s].op = "reconcile" => AddsUp
    BY DEF AutoMatchNothing, UpdateStatement, Reconcile, Reopen, ReverseEntry
  <2>2. AddsUp => Matched(lines) /\ SumOf(lines) = statement.net
    <3>1. Sum = SumOf(lines)
      BY Zenon DEF Sum, SumOf
    <3> QED BY <3>1 DEF AddsUp, Unmatched, Present, Matched
  <2>3. requests[s].op = "update" /\ requests[s].by # statement.account => Used = {}
    BY DEF AutoMatchNothing, UpdateStatement, Reconcile, Reopen, ReverseEntry
  <2>4. Used = {} => \A x \in LineIds : lines[x].match = 0
    BY RowTypes DEF Used, Present
  <2> HIDE DEF W
  <2> QED BY <1>4, <2>1, <2>2, <2>3, <2>4 DEF Right
<1>6. W = <<>>
  OBVIOUS
<1> HIDE DEF W, row
<1>7. MayWrite(s, row, W)
  BY <1>1, <1>2, <1>3, <1>4, <1>6, NothingWritten
<1> QED BY <1>1, <1>5, <1>7, WritesKeep

\* A statement's lines go with it.
LEMMA DeleteKeeps ==
    ASSUME IInv, NEW s \in Slots, DeleteStatement(s)
    PROVE  IInv'
<1> DEFINE W == [x \in Present |-> NoLine]
<1>1. /\ requests[s].op = "delete" /\ requests[s].step = "begun" /\ ~StatementHeld(s) /\ Held(s) = {}
      /\ Writes(s, NoEntry, W)
  BY DEF DeleteStatement
<1>2. /\ W \in UNION {[D -> LineType] : D \in SUBSET LineIds} /\ DOMAIN W = Present
      /\ \A x \in DOMAIN W : W[x] = NoLine
  <2>1. W \in [Present -> LineType] /\ Present \in SUBSET LineIds
    BY RowTypes DEF Present
  <2> QED BY <2>1
<1> HIDE DEF W
<1>3. \A u \in Slots \ {s} : ~HoldsStatement(requests[u]) /\ DOMAIN requests[u].wrote = {}
  BY <1>1, LocksAre
<1>4. MayWrite(s, NoEntry, W)
  <2>1. statement.status = "gone" => Present = {}
    BY DEF IInv, Rows, Present
  <2>2. \A x \in LineIds : lines[x] # NoLine => x \in DOMAIN W
    BY <1>2 DEF Present
  <2> QED BY <1>1, <1>2, <1>3, <2>1, <2>2, RowTypes DEF MayWrite, Deletes, HoldsStatement
<1>5. Right(s, W)
  BY <1>1, <1>2, RowTypes DEF Right
<1> QED BY <1>1, <1>4, <1>5, WritesKeep

-----------------------------------------------------------------------------
(* The automatic match. *)

\* A line is passed over.
LEMMA PassKeeps ==
    ASSUME IInv, NEW s \in Slots, requests[s].op = "autoMatch", Runs(requests[s]),
           NEW x \in requests[s].todo, x \in Present => Candidates(s, x) = {},
           requests' = [requests EXCEPT ![s].step = "wrote", ![s].todo = @ \ {x}],
           UNCHANGED <<statement, lines, journal, overlapped>>
    PROVE  IInv'
<1> DEFINE R == requests[s]
           r == requests'[s]
<1>1. R \in Request /\ Own(statement, lines, journal, R)
  BY DEF IInv
<1>2. /\ r \in Request /\ r.op = R.op /\ r.arg = R.arg /\ r.by = R.by /\ r.step = "wrote"
      /\ r.todo = R.todo \ {x} /\ r.wrote = R.wrote /\ r.row = R.row
  <2>1. r = [R EXCEPT !.step = "wrote", !.todo = R.todo \ {x}]
    BY DEF IInv
  <2> HIDE DEF r, R
  <2> QED BY <1>1, <2>1 DEF Request
<1> HIDE DEF r
<1>3. requests' \in [Slots -> Request] /\ \A u \in Slots \ {s} : requests'[u] = requests[u]
  <2>1. \A u \in Slots \ {s} : requests'[u] = requests[u]
    BY DEF IInv
  <2>2. requests' = [u \in Slots |-> requests'[u]]
    BY DEF IInv
  <2> QED BY <1>2, <2>1, <2>2 DEF r, IInv
<1>4. Own(statement, lines, journal, r)
  BY <1>1, <1>2 DEF Own, Deletes, HoldsStatement
<1>5. ASSUME NEW u \in Slots \ {s} PROVE Apart(r, requests[u]) /\ Apart(requests[u], r)
  <2>1. Apart(R, requests[u]) /\ Apart(requests[u], R)
    BY DEF IInv
  <2> QED BY <1>2, <2>1 DEF Apart, Deletes, HoldsStatement
<1>6. ASSUME ~overlapped'
      PROVE  /\ ~overlapped /\ Lone(statement, lines, journal, r)
             /\ \A u \in Slots \ {s} : ~Runs(requests[u])
  <2>1. ~overlapped /\ Lone(statement, lines, journal, R) /\ \A u \in Slots \ {s} : ~Runs(requests[u])
    BY <1>6 DEF IInv
  <2>2. Passed(statement, lines, journal, r)
    <3>1. ASSUME NEW y \in LineIds \ (r.todo \cup DOMAIN r.wrote), NEW e \in Entries,
                 lines[y] # NoLine, lines[y].match = 0, journal[e] # NoEntry,
                 journal[e].account = statement.account, journal[e].amount = lines[y].amount
          PROVE  (\E z \in LineIds : lines[z].match = e) \/ (\E z \in DOMAIN r.wrote : r.wrote[z].match = e)
      <4>1. CASE y = x
        <5>1. e \notin Candidates(s, x)
          BY <3>1, <4>1 DEF Present
        <5>2. e \in Used \/ \E z \in DOMAIN R.wrote : R.wrote[z].match = e
          BY <3>1, <4>1, <5>1 DEF Candidates, Backs, Posted
        <5> QED BY <1>2, <5>2 DEF Used, Present
      <4>2. CASE y # x
        <5>1. y \in LineIds \ (R.todo \cup DOMAIN R.wrote)
          BY <1>2, <4>2
        <5> QED BY <1>2, <2>1, <3>1, <5>1 DEF Lone, Passed
      <4> QED BY <4>1, <4>2
    <3> QED BY <3>1 DEF Passed
  <2> QED BY <1>2, <2>1, <2>2 DEF Lone
<1>7. overlapped' \in BOOLEAN
  BY DEF IInv
<1> QED BY <1>3, <1>4, <1>5, <1>6, <1>7, RequestMoves DEF r

\* A line is matched.
LEMMA MatchKeeps ==
    ASSUME IInv, NEW s \in Slots, requests[s].op = "autoMatch", Runs(requests[s]),
           NEW x \in requests[s].todo, x \in Present \ Held(s), NEW e \in Candidates(s, x), Unclaimed(s, e),
           requests' = [requests EXCEPT ![s].step = "wrote", ![s].todo = @ \ {x},
                                        ![s].wrote = Also(@, x, [lines[x] EXCEPT !.match = e])],
           UNCHANGED <<statement, lines, journal, overlapped>>
    PROVE  IInv'
<1> DEFINE R == requests[s]
           r == requests'[s]
           v == [lines[x] EXCEPT !.match = e]
           D == DOMAIN R.wrote
           W == Also(R.wrote, x, v)
<1>1. R \in Request /\ Own(statement, lines, journal, R)
  BY DEF IInv
<1>2. /\ x \in LineIds /\ lines[x] \in LineType /\ statement.status # "gone"
      /\ \A u \in Slots \ {s} : x \notin DOMAIN requests[u].wrote /\ ~Deletes(requests[u])
  BY LineFree
<1>3. /\ e \in Entries /\ e # 0 /\ journal[e] # NoEntry /\ journal[e].account = statement.account
      /\ journal[e].amount = lines[x].amount /\ \A y \in D : R.wrote[y].match # e
  BY Ids DEF Candidates, Backs, Posted
<1>4. Unclaimed2(s, e)
  BY <1>3, LocksAre
<1>5. v \in LineType /\ v.match = e /\ v.amount = lines[x].amount
  BY <1>2, <1>3 DEF LineType
<1>6. x \notin D
  BY <1>1 DEF Own
<1> HIDE DEF v
<1>7. /\ W \in UNION {[E -> LineType] : E \in SUBSET LineIds} /\ DOMAIN W = {x} \cup D /\ W[x] = v
      /\ \A y \in D : W[y] = R.wrote[y]
  <2>1. PICK E \in SUBSET LineIds : R.wrote \in [E -> LineType]
    BY <1>1 DEF Request
  <2>2. W = [y \in {x} \cup E |-> IF y = x THEN v ELSE R.wrote[y]]
    BY <1>6, <2>1 DEF Also
  <2>3. W \in [{x} \cup E -> LineType]
    BY <1>5, <2>1, <2>2
  <2>4. {x} \cup E \in SUBSET LineIds
    BY <1>2
  <2> QED BY <1>6, <2>1, <2>2, <2>3, <2>4
<1>8. /\ r \in Request /\ r.op = R.op /\ r.arg = R.arg /\ r.by = R.by /\ r.step = "wrote"
      /\ r.todo = R.todo \ {x} /\ r.wrote = W /\ r.row = R.row
  <2>1. r = [R EXCEPT !.step = "wrote", !.todo = R.todo \ {x}, !.wrote = W]
    BY DEF IInv, v
  <2> HIDE DEF r, R, W
  <2> QED BY <1>1, <1>7, <2>1 DEF Request
<1> HIDE DEF r, W
<1>9. requests' \in [Slots -> Request] /\ \A u \in Slots \ {s} : requests'[u] = requests[u]
  <2>1. \A u \in Slots \ {s} : requests'[u] = requests[u]
    BY DEF IInv
  <2>2. requests' = [u \in Slots |-> requests'[u]]
    BY DEF IInv
  <2> QED BY <1>8, <2>1, <2>2 DEF r, IInv
<1>10. Own(statement, lines, journal, r)
  <2>1. \A y \in DOMAIN W : W[y].match # 0 =>
           /\ Backed(journal, W[y])
           /\ \A z \in LineIds : lines[z].match # W[y].match
           /\ \A z \in DOMAIN W \ {y} : W[z].match # W[y].match
    <3>1. Backed(journal, v)
      BY <1>3, <1>5 DEF Backed
    <3>2. \A y \in D : R.wrote[y].match # 0 =>
             /\ Backed(journal, R.wrote[y])
             /\ \A z \in LineIds : lines[z].match # R.wrote[y].match
             /\ \A z \in D \ {y} : R.wrote[z].match # R.wrote[y].match
      BY <1>1 DEF Own
    <3> HIDE DEF D, R
    <3> QED BY <1>3, <1>4, <1>5, <1>7, <3>1, <3>2 DEF Unclaimed2
  <2>2. r.todo \cap DOMAIN W = {}
    BY <1>1, <1>7, <1>8 DEF Own
  <2>3. r.row = NoEntry
    BY <1>1, <1>8 DEF Own
  <2> QED BY <1>2, <1>8, <2>1, <2>2, <2>3 DEF Own, Deletes
<1>11. ASSUME NEW u \in Slots \ {s} PROVE Apart(r, requests[u]) /\ Apart(requests[u], r)
  <2>1. Apart(R, requests[u]) /\ Apart(requests[u], R)
    BY DEF IInv
  <2>2. ~Deletes(r) /\ ~HoldsStatement(r)
    BY <1>8 DEF Deletes, HoldsStatement
  <2>3. \A y \in DOMAIN requests[u].wrote : requests[u].wrote[y].match # e
    BY <1>4 DEF Unclaimed2
  <2> HIDE DEF R
  <2> QED BY <1>2, <1>5, <1>7, <1>8, <2>1, <2>2, <2>3 DEF Apart
<1>12. ASSUME ~overlapped'
      PROVE  /\ ~overlapped /\ Lone(statement, lines, journal, r)
             /\ \A u \in Slots \ {s} : ~Runs(requests[u])
  <2>1. ~overlapped /\ Lone(statement, lines, journal, R) /\ \A u \in Slots \ {s} : ~Runs(requests[u])
    BY <1>12 DEF IInv
  <2>2. Passed(statement, lines, journal, r)
    <3>1. \A y \in LineIds : y \notin r.todo \cup DOMAIN r.wrote => y \notin R.todo \cup D
      BY <1>7, <1>8
    <3>2. \A f \in Entries : (\E z \in D : R.wrote[z].match = f) => \E z \in DOMAIN r.wrote : r.wrote[z].match = f
      BY <1>7, <1>8
    <3>3. Passed(statement, lines, journal, R)
      BY <2>1 DEF Lone
    <3> HIDE DEF R
    <3> QED BY <3>1, <3>2, <3>3 DEF Passed, D
  <2>3. lines[x].match = 0 /\ \A y \in D : lines[y].match = 0 /\ R.wrote[y].match # 0
    BY <2>1 DEF Lone
  <2>4. \A y \in D : R.wrote[y].match # 0 => journal[R.wrote[y].match].account = statement.account
    BY <2>1 DEF Lone
  <2>5. \A y \in r.todo : lines[y].match = 0
    BY <1>8, <2>1 DEF Lone
  <2>6. statement.status = "open" /\ r.op = "autoMatch"
    BY <1>8, <2>1 DEF Lone
  <2> HIDE DEF R, D
  <2>7. \A y \in DOMAIN r.wrote : /\ lines[y].match = 0 /\ r.wrote[y].match # 0
                                  /\ journal[r.wrote[y].match].account = statement.account
    BY <1>3, <1>5, <1>7, <1>8, <2>3, <2>4
  <2> QED BY <2>1, <2>2, <2>5, <2>6, <2>7 DEF Lone
<1>13. overlapped' \in BOOLEAN
  BY DEF IInv
<1> QED BY <1>9, <1>10, <1>11, <1>12, <1>13, RequestMoves DEF r

LEMMA AutoMatchKeeps ==
    ASSUME IInv, NEW s \in Slots, NEW x \in LineIds, AutoMatchLine(s, x)
    PROVE  IInv'
<1>1. /\ requests[s].op = "autoMatch" /\ Runs(requests[s]) /\ x \in requests[s].todo \ Held(s)
      /\ UNCHANGED <<statement, lines, journal, overlapped>>
  BY DEF AutoMatchLine, Runs
<1>2. ASSUME x \in Present, NEW e \in Candidates(s, x), Unclaimed(s, e),
             requests' = [requests EXCEPT ![s].step = "wrote", ![s].todo = @ \ {x},
                                          ![s].wrote = Also(@, x, [lines[x] EXCEPT !.match = e])]
      PROVE  IInv'
  BY <1>1, <1>2, MatchKeeps
<1>3. ASSUME x \in Present => Candidates(s, x) = {},
             requests' = [requests EXCEPT ![s].step = "wrote", ![s].todo = @ \ {x}]
      PROVE  IInv'
  BY <1>1, <1>3, PassKeeps
<1> QED BY <1>2, <1>3 DEF AutoMatchLine
-----------------------------------------------------------------------------
(* Commits and postings. *)

\* Entries are only added, in a free id.
Grown(k, j) ==
    /\ k \in [Entries -> EntryType]
    /\ \A e \in Entries : j[e] # NoEntry => k[e] = j[e]

LEMMA BackedStill ==
    ASSUME NEW j, NEW k, Grown(k, j), NEW row \in LineType, row.match # 0, Backed(j, row)
    PROVE  Backed(k, row) /\ k[row.match] = j[row.match]
<1>1. row.match \in Entries
  BY DEF LineType
<1> QED BY <1>1 DEF Grown, Backed

LEMMA EntryPut ==
    ASSUME IInv, Entries \ Posted # {}, NEW row \in EntryType,
           journal' = [journal EXCEPT ![Min(Entries \ Posted)] = row]
    PROVE  /\ Grown(journal', journal)
           /\ \E n \in Entries \ Posted : \A e \in Entries : journal'[e] = IF e = n THEN row ELSE journal[e]
<1> DEFINE n == Min(Entries \ Posted)
<1>1. n \in Entries \ Posted
  <2>1. Entries \ Posted \in SUBSET Nat
    BY Ids
  <2> QED BY <2>1, MinOfIds
<1> HIDE DEF n
<1>2. journal \in [Entries -> EntryType] /\ journal' = [journal EXCEPT ![n] = row]
  BY DEF IInv, Rows, n
<1>3. journal' \in [Entries -> EntryType] /\ \A e \in Entries : journal'[e] = IF e = n THEN row ELSE journal[e]
  BY <1>1, <1>2
<1> QED BY <1>1, <1>3 DEF Grown, Posted

\* The rows of a request, of their types.
LEMMA WroteIs ==
    ASSUME IInv, NEW s \in Slots
    PROVE  /\ requests[s] \in Request /\ DOMAIN requests[s].wrote \subseteq LineIds
           /\ \A x \in DOMAIN requests[s].wrote : requests[s].wrote[x] \in LineType
<1>1. requests[s] \in Request
  BY DEF IInv
<1>2. PICK D \in SUBSET LineIds : requests[s].wrote \in [D -> LineType]
  BY <1>1 DEF Request
<1> QED BY <1>1, <1>2

\* A posting backs whatever was backed before, and more.
LEMMA PostKeeps ==
    ASSUME IInv, NEW c \in Accounts, NEW a \in Amounts, Post(c, a)
    PROVE  IInv'
<1> DEFINE row == [account |-> c, amount |-> a, reverses |-> 0]
<1>1. /\ Entries \ Posted # {} /\ journal' = [journal EXCEPT ![Min(Entries \ Posted)] = row]
      /\ statement' = statement /\ lines' = lines /\ requests' = requests
      /\ overlapped' = (overlapped \/ Running # {})
  BY DEF Post
<1>2. row \in EntryType
  BY DEF EntryType
<1> HIDE DEF row
<1>3. Grown(journal', journal)
  BY <1>1, <1>2, EntryPut
<1>4. Rows(statement, lines, journal')
  <2>1. Rows(statement, lines, journal)
    BY DEF IInv
  <2>2. \A x \in LineIds : lines[x].match # 0 => Backed(journal', lines[x])
    BY <1>3, <2>1, BackedStill DEF Rows
  <2>3. journal' \in [Entries -> EntryType]
    BY <1>3 DEF Grown
  <2> QED BY <2>1, <2>2, <2>3 DEF Rows
<1>5. ASSUME NEW s \in Slots PROVE Own(statement, lines, journal', requests[s])
  <2>1. Own(statement, lines, journal, requests[s])
    BY DEF IInv
  <2>2. \A x \in DOMAIN requests[s].wrote :
           requests[s].wrote[x].match # 0 => Backed(journal', requests[s].wrote[x])
    BY <1>3, <2>1, WroteIs, BackedStill DEF Own
  <2> QED BY <2>1, <2>2 DEF Own
<1>6. ASSUME ~overlapped'
      PROVE  /\ Settled(statement, lines, journal') /\ \A s \in Slots : ~Runs(requests[s])
  <2>1. ~overlapped /\ \A s \in Slots : ~Runs(requests[s])
    BY <1>1, <1>6 DEF Running, Runs, IInv
  <2>2. Settled(statement, lines, journal) /\ Rows(statement, lines, journal)
    BY <2>1 DEF IInv
  <2>3. \A x \in LineIds : lines[x].match # 0 => journal'[lines[x].match].account = statement.account
    BY <1>3, <2>2, BackedStill DEF Rows, Settled
  <2> QED BY <2>1, <2>2, <2>3 DEF Settled
<1>7. overlapped' \in BOOLEAN
  BY <1>1 DEF IInv
<1> QED BY <1>1, <1>4, <1>5, <1>6, <1>7 DEF IInv

\* What a commit does to the rows.
LEMMA CommitIs ==
    ASSUME IInv, NEW s \in Slots, Commit(s)
    PROVE  /\ requests[s].step = "wrote" /\ overlapped' = overlapped
           /\ requests'[s] = NoRequest /\ \A u \in Slots \ {s} : requests'[u] = requests[u]
           /\ requests' \in [Slots -> Request]
           /\ lines' \in [LineIds -> LineType]
           /\ \A x \in LineIds :
                 lines'[x] = IF x \in DOMAIN requests[s].wrote THEN requests[s].wrote[x] ELSE lines[x]
           /\ DOMAIN requests[s].wrote = {} => lines' = lines
           /\ Grown(journal', journal)
           /\ statement' = Ended(s, requests[s].op)
<1>1. /\ requests[s].step = "wrote" /\ overlapped' = overlapped /\ statement' = Ended(s, requests[s].op)
      /\ requests' = [requests EXCEPT ![s] = NoRequest]
      /\ lines' = [x \in LineIds |-> IF x \in DOMAIN requests[s].wrote THEN requests[s].wrote[x] ELSE lines[x]]
      /\ IF requests[s].row = NoEntry THEN UNCHANGED journal
         ELSE Entries \ Posted # {} /\ journal' = [journal EXCEPT ![Min(Entries \ Posted)] = requests[s].row]
  BY DEF Commit
<1>2. /\ requests'[s] = NoRequest /\ \A u \in Slots \ {s} : requests'[u] = requests[u]
      /\ requests' \in [Slots -> Request]
  BY <1>1, NoRequestIs DEF IInv
<1>3. lines \in [LineIds -> LineType] /\ journal \in [Entries -> EntryType]
  BY DEF IInv, Rows
<1>4. /\ \A x \in LineIds :
            lines'[x] = IF x \in DOMAIN requests[s].wrote THEN requests[s].wrote[x] ELSE lines[x]
      /\ lines' \in [LineIds -> LineType]
  BY <1>1, <1>3, WroteIs
<1>5. DOMAIN requests[s].wrote = {} => lines' = lines
  BY <1>3, <1>4
<1>6. Grown(journal', journal)
  <2>1. CASE requests[s].row = NoEntry
    BY <1>1, <1>3, <2>1 DEF Grown
  <2>2. CASE requests[s].row # NoEntry
    <3>1. requests[s].row \in EntryType
      BY WroteIs DEF Request
    <3> QED BY <1>1, <2>2, <3>1, EntryPut
  <2> QED BY <2>1, <2>2
<1> QED BY <1>1, <1>2, <1>4, <1>5, <1>6

\* The statement after a commit.
LEMMA EndedIs ==
    ASSUME IInv, NEW s \in Slots, NEW op, op = requests[s].op, NEW st, st = Ended(s, op)
    PROVE  /\ st \in [status : {"open", "reconciled", "gone"}, account : Accounts, net : Nets]
           /\ op = "update" => st.status = statement.status /\ st.net = requests[s].arg
                               /\ st.account = requests[s].by
           /\ op = "reconcile" => st.status = "reconciled"
           /\ op = "reopen" => st.status = "open"
           /\ op = "delete" => st.status = "gone"
           /\ op \in {"reconcile", "reopen", "delete"} =>
                 st.net = statement.net /\ st.account = statement.account
           /\ op \notin {"update", "reconcile", "reopen", "delete"} => st = statement
<1>1. /\ statement \in [status : {"open", "reconciled", "gone"}, account : Accounts, net : Nets]
      /\ op = "update" => requests[s].arg \in Nets /\ requests[s].by \in Accounts
  BY DEF IInv, Rows, Own
<1>2. CASE op = "update"
  <2>1. st = [statement EXCEPT !.net = requests[s].arg, !.account = requests[s].by]
    BY <1>2 DEF Ended
  <2> QED BY <1>1, <1>2, <2>1
<1>3. CASE op = "reconcile"
  <2>1. st = [statement EXCEPT !.status = "reconciled"]
    BY <1>3 DEF Ended
  <2> QED BY <1>1, <1>3, <2>1
<1>4. CASE op = "reopen"
  <2>1. st = [statement EXCEPT !.status = "open"]
    BY <1>4 DEF Ended
  <2> QED BY <1>1, <1>4, <2>1
<1>5. CASE op = "delete"
  <2>1. st = [statement EXCEPT !.status = "gone"]
    BY <1>5 DEF Ended
  <2> QED BY <1>1, <1>5, <2>1
<1>6. CASE op \notin {"update", "reconcile", "reopen", "delete"}
  <2>1. st = statement
    BY <1>6 DEF Ended
  <2> QED BY <1>1, <1>6, <2>1
<1> QED BY <1>2, <1>3, <1>4, <1>5, <1>6

\* What a transaction has written becomes what there is.
LEMMA CommitKeeps ==
    ASSUME IInv, NEW s \in Slots, Commit(s)
    PROVE  IInv'
<1> DEFINE R == requests[s]
           D == DOMAIN R.wrote
<1>1. /\ R.step = "wrote" /\ overlapped' = overlapped
      /\ requests'[s] = NoRequest /\ \A u \in Slots \ {s} : requests'[u] = requests[u]
      /\ requests' \in [Slots -> Request]
      /\ lines' \in [LineIds -> LineType]
      /\ \A x \in LineIds : lines'[x] = IF x \in D THEN R.wrote[x] ELSE lines[x]
      /\ D = {} => lines' = lines
      /\ Grown(journal', journal)
  BY CommitIs
<1>2. /\ statement' \in [status : {"open", "reconciled", "gone"}, account : Accounts, net : Nets]
      /\ R.op = "update" => statement'.status = statement.status /\ statement'.net = R.arg
                            /\ statement'.account = R.by
      /\ R.op = "reconcile" => statement'.status = "reconciled"
      /\ R.op = "reopen" => statement'.status = "open"
      /\ R.op = "delete" => statement'.status = "gone"
      /\ R.op \in {"reconcile", "reopen", "delete"} =>
            statement'.net = statement.net /\ statement'.account = statement.account
      /\ R.op \notin {"update", "reconcile", "reopen", "delete"} => statement' = statement
  BY CommitIs, EndedIs
<1>3. Own(statement, lines, journal, R) /\ Rows(statement, lines, journal)
      /\ \A x \in D : x \in LineIds /\ R.wrote[x] \in LineType
  BY WroteIs DEF IInv
<1> HIDE DEF R
<1>4. \A x \in LineIds : lines'[x].match # 0 =>
         Backed(journal', lines'[x]) /\ \A y \in LineIds \ {x} : lines'[y].match # lines'[x].match
  <2>1. \A x \in LineIds : lines[x].match # 0 => Backed(journal', lines[x])
    BY <1>1, <1>3, BackedStill DEF Rows
  <2>2. \A x \in D : R.wrote[x].match # 0 => Backed(journal', R.wrote[x])
    BY <1>1, <1>3, BackedStill DEF Own
  <2>3. ASSUME NEW x \in LineIds, lines'[x].match # 0, NEW y \in LineIds \ {x}
        PROVE  lines'[y].match # lines'[x].match
    <3>1. lines'[x] = (IF x \in D THEN R.wrote[x] ELSE lines[x]) /\ lines'[y] = IF y \in D THEN R.wrote[y] ELSE lines[y]
      BY <1>1
    <3>2. lines[x].match # 0 => lines[y].match # lines[x].match
      BY <1>3 DEF Rows
    <3>3. x \in D /\ R.wrote[x].match # 0 => lines[y].match # R.wrote[x].match
      BY <1>3 DEF Own
    <3>4. y \in D /\ R.wrote[y].match # 0 => lines[x].match # R.wrote[y].match
      BY <1>3 DEF Own
    <3>5. x \in D /\ y \in D /\ R.wrote[x].match # 0 => R.wrote[y].match # R.wrote[x].match
      BY <1>3 DEF Own
    <3> HIDE DEF D
    <3> QED BY <2>3, <3>1, <3>2, <3>3, <3>4, <3>5
  <2> QED BY <1>1, <2>1, <2>2, <2>3
<1>5. statement'.status = "gone" =>
         /\ \A x \in LineIds : lines'[x] = NoLine
         /\ \A u \in Slots \ {s} : DOMAIN requests[u].wrote = {} /\ (HoldsStatement(requests[u]) => Deletes(requests[u]))
  <2>1. CASE R.op = "delete"
    <3>1. Deletes(R) /\ HoldsStatement(R)
      BY <1>1, <2>1 DEF Deletes, HoldsStatement
    <3>2. \A u \in Slots \ {s} : DOMAIN requests[u].wrote = {} /\ ~HoldsStatement(requests[u])
      BY <3>1 DEF IInv, Apart, R
    <3> QED BY <1>1, <1>3, <3>1, <3>2 DEF Own
  <2>2. ASSUME R.op # "delete", statement'.status = "gone"
        PROVE  statement.status = "gone" /\ D = {}
    <3>1. statement.status = "gone"
      BY <1>2, <2>2
    <3> QED BY <1>3, <3>1 DEF Own
  <2>3. ASSUME statement.status = "gone", D = {}
        PROVE  /\ \A x \in LineIds : lines'[x] = NoLine
               /\ \A u \in Slots \ {s} : /\ DOMAIN requests[u].wrote = {}
                                         /\ HoldsStatement(requests[u]) => Deletes(requests[u])
    BY <1>1, <1>3, <2>3 DEF Rows, IInv, Own
  <2> QED BY <2>1, <2>2, <2>3
<1>6. Rows(statement', lines', journal')
  BY <1>1, <1>2, <1>4, <1>5 DEF Rows, Grown
<1>7. ASSUME NEW u \in Slots \ {s} PROVE Own(statement', lines', journal', requests[u])
  <2> DEFINE q == requests[u]
  <2>1. Own(statement, lines, journal, q) /\ Apart(R, q) /\ Apart(q, R)
        /\ \A x \in DOMAIN q.wrote : q.wrote[x] \in LineType
    BY WroteIs DEF IInv, R
  <2> HIDE DEF q
  <2>2. ASSUME NEW x \in DOMAIN q.wrote, q.wrote[x].match # 0
        PROVE  /\ Backed(journal', q.wrote[x])
               /\ \A y \in LineIds : lines'[y].match # q.wrote[x].match
               /\ \A y \in DOMAIN q.wrote \ {x} : q.wrote[y].match # q.wrote[x].match
    <3>1. Backed(journal', q.wrote[x])
      BY <1>1, <2>1, <2>2, BackedStill DEF Own
    <3>2. ASSUME NEW y \in LineIds PROVE lines'[y].match # q.wrote[x].match
      <4>1. lines[y].match # q.wrote[x].match
        BY <2>1, <2>2 DEF Own
      <4>2. y \in D => R.wrote[y].match # q.wrote[x].match
        BY <2>1, <2>2 DEF Apart
      <4> HIDE DEF D
      <4> QED BY <1>1, <4>1, <4>2
    <3> QED BY <2>1, <2>2, <3>1, <3>2 DEF Own
  <2>3. Deletes(q) => /\ \A x \in LineIds : lines'[x] # NoLine => x \in DOMAIN q.wrote
                      /\ \A x \in DOMAIN q.wrote : q.wrote[x] = NoLine
    <3>1. Deletes(q) => lines' = lines
      BY <1>1, <2>1 DEF Apart
    <3>2. Deletes(q) => /\ \A x \in LineIds : lines[x] # NoLine => x \in DOMAIN q.wrote
                        /\ \A x \in DOMAIN q.wrote : q.wrote[x] = NoLine
      BY <2>1 DEF Own
    <3> QED BY <3>1, <3>2
  <2>4. statement'.status = "gone" => DOMAIN q.wrote = {} /\ (HoldsStatement(q) => Deletes(q))
    BY <1>5 DEF q
  <2>5. Own(statement', lines', journal', q)
    BY <2>1, <2>2, <2>3, <2>4 DEF Own
  <2> QED BY <2>5 DEF q
<1>8. \A u \in Slots : Own(statement', lines', journal', requests'[u])
  <2>1. Own(statement', lines', journal', NoRequest)
    BY NoRequestIs DEF Own, Deletes, HoldsStatement, NoRequest
  <2> QED BY <1>1, <1>7, <2>1
<1>9. ASSUME NEW t \in Slots, NEW u \in Slots \ {t} PROVE Apart(requests'[t], requests'[u])
  <2>1. CASE t = s \/ u = s
    <3>1. \A q : Apart(NoRequest, q) /\ Apart(q, NoRequest)
      BY NoRequestIs, QuietApart DEF Quiet
    <3> QED BY <1>1, <2>1, <3>1
  <2>2. CASE t # s /\ u # s
    BY <1>1, <2>2 DEF IInv
  <2> QED BY <2>1, <2>2
<1>10. ASSUME ~overlapped'
       PROVE  /\ Settled(statement', lines', journal')
              /\ \A u \in Slots : ~Runs(requests'[u])
  <2>1. /\ Settled(statement, lines, journal) /\ Lone(statement, lines, journal, R)
        /\ \A u \in Slots \ {s} : ~Runs(requests[u])
    BY <1>1, <1>10 DEF IInv, Runs, R
  <2>2. \A u \in Slots : ~Runs(requests'[u])
    BY <1>1, <2>1, NoRequestIs DEF Runs
  <2>3. ASSUME NEW x \in LineIds, lines'[x].match # 0 PROVE journal'[lines'[x].match].account = statement'.account
    <3>1. CASE x \in D
      <4>1. lines'[x] = R.wrote[x] /\ R.wrote[x] \in LineType /\ R.op \notin {"update", "reconcile", "reopen", "reverse"}
        BY <1>1, <1>3, <3>1 DEF Own
      <4>2. Backed(journal, R.wrote[x]) /\ journal[R.wrote[x].match].account = statement.account
        BY <1>3, <2>1, <2>3, <3>1, <4>1 DEF Own, Lone
      <4>3. journal'[R.wrote[x].match] = journal[R.wrote[x].match]
        BY <1>1, <2>3, <4>1, <4>2, BackedStill
      <4>4. statement'.account = statement.account
        BY <1>2, <4>1
      <4> QED BY <4>1, <4>2, <4>3, <4>4
    <3>2. CASE x \notin D
      <4>1. lines'[x] = lines[x] /\ lines[x] \in LineType /\ Backed(journal, lines[x])
            /\ journal[lines[x].match].account = statement.account
        BY <1>1, <1>3, <2>1, <2>3, <3>2 DEF Rows, Settled
      <4>2. journal'[lines[x].match] = journal[lines[x].match]
        BY <1>1, <2>3, <4>1, BackedStill
      <4>3. statement'.account = statement.account
        BY <1>1, <1>2, <2>1, <2>3, <4>1 DEF Lone
      <4> QED BY <4>1, <4>2, <4>3
    <3> QED BY <3>1, <3>2
  <2>4. statement'.status = "reconciled" => Matched(lines') /\ SumOf(lines') = statement'.net
    <3>1. CASE R.op \in {"reconcile", "reverse"}
      <4>1. lines' = lines /\ statement'.net = statement.net
        BY <1>1, <1>2, <1>3, <3>1 DEF Own
      <4>2. statement'.status = "reconciled" => Matched(lines) /\ SumOf(lines) = statement.net
        BY <1>1, <1>2, <2>1, <3>1 DEF Lone, Settled
      <4> QED BY <4>1, <4>2
    <3>2. CASE R.op \in {"reopen", "delete"}
      BY <1>2, <3>2
    <3>3. CASE R.op \notin {"reconcile", "reverse", "reopen", "delete"}
      BY <1>2, <2>1, <3>3 DEF Lone
    <3> QED BY <3>1, <3>2, <3>3
  <2> QED BY <2>2, <2>3, <2>4 DEF Settled
<1>11. overlapped' \in BOOLEAN
  BY <1>1 DEF IInv
<1> QED BY <1>1, <1>6, <1>8, <1>9, <1>10, <1>11 DEF IInv

-----------------------------------------------------------------------------
(* The invariant. *)

LEMMA InitIInv == ASSUME Init PROVE IInv
<1> USE DEF Init
<1>1. Rows(statement, lines, journal)
  BY RowTypes DEF Rows
<1>2. requests \in [Slots -> Request] /\ \A s \in Slots : requests[s] = NoRequest
  BY NoRequestIs
<1>3. Own(statement, lines, journal, NoRequest)
  BY NoRequestIs DEF Own, Deletes, HoldsStatement, NoRequest
<1>4. Apart(NoRequest, NoRequest) /\ ~Runs(NoRequest)
  BY NoRequestIs, QuietApart DEF Quiet, Runs
<1>5. Settled(statement, lines, journal)
  BY RowTypes DEF Settled
<1> QED BY <1>1, <1>2, <1>3, <1>4, <1>5 DEF IInv

LEMMA NextIInv == ASSUME IInv, [Next]_vars PROVE IInv'
<1>1. CASE UNCHANGED vars
  BY <1>1 DEF vars, IInv
<1>2. CASE Asks
  BY <1>2, AsksKeep
<1>3. ASSUME NEW s \in Slots, Begin(s) \/ Commit(s) \/ Fails(s) PROVE IInv'
  BY <1>3, BeginKeeps, CommitKeeps, FailsKeeps
<1>4. ASSUME NEW s \in Slots, Work(s) PROVE IInv'
  BY <1>4, AddKeeps, LineActionsKeep, AutoMatchKeeps, StatementActionsKeep, DeleteKeeps DEF Work
<1>5. ASSUME NEW c \in Accounts, NEW a \in Amounts, Post(c, a) PROVE IInv'
  BY <1>5, PostKeeps
<1> QED BY <1>1, <1>2, <1>3, <1>4, <1>5 DEF Next

\* Whatever screens ask for, and however the transactions of the requests
\* overlap, locks and the unique index keep claims and rows apart; as long as
\* none overlap, each also finds what it has checked.
THEOREM Invariance == Spec => []IInv
BY InitIInv, NextIInv, PTL DEF Spec
-----------------------------------------------------------------------------
(* What follows. *)

\* Rows have the shapes of their tables; a statement that is gone has no lines,
\* as DeleteStatement's cascade and AddLine's foreign key wait for each other;
\* and no two transactions hold the same line.
THEOREM TypeCorrect == Spec => []TypeOK
<1>1. ASSUME IInv PROVE TypeOK
  <2>1. ASSUME NEW s \in Slots
        PROVE  /\ DOMAIN requests[s].wrote \subseteq LineIds
               /\ \A x \in DOMAIN requests[s].wrote : requests[s].wrote[x] \in LineType
               /\ requests[s].row \in EntryType /\ requests[s].todo \subseteq LineIds
               /\ DOMAIN requests[s].wrote \cap Held(s) = {}
    <3>1. \A u \in Slots \ {s} : DOMAIN requests[s].wrote \cap DOMAIN requests[u].wrote = {}
      BY <1>1 DEF IInv, Apart
    <3>2. DOMAIN requests[s].wrote \cap Held(s) = {}
      BY <3>1 DEF Held
    <3> QED BY <1>1, <3>2, WroteIs DEF Request
  <2>2. Rows(statement, lines, journal)
    BY <1>1 DEF IInv
  <2> QED BY <2>1, <2>2 DEF TypeOK, Rows, Present
<1> QED BY <1>1, Invariance, PTL

\* However MatchLine, AutoMatchLine, UnmatchLine and the deletions overlap, a
\* matched line is backed by a posted entry of its amount that no other has.
THEOREM MatchesSound == Spec => []MatchSound
<1>1. ASSUME IInv, NEW x \in Present, lines[x].match # 0
      PROVE  /\ lines[x].match \in Posted /\ journal[lines[x].match].amount = lines[x].amount
             /\ \A y \in Present \ {x} : lines[y].match # lines[x].match
  <2>1. Rows(statement, lines, journal) /\ x \in LineIds
    BY <1>1 DEF IInv, Present
  <2>2. lines[x].match \in Entries
    BY <1>1, <2>1 DEF Rows, LineType
  <2>3. Backed(journal, lines[x]) /\ \A y \in LineIds \ {x} : lines[y].match # lines[x].match
    BY <1>1, <2>1 DEF Rows
  <2> QED BY <2>2, <2>3 DEF Backed, Posted, Present
<1>2. IInv => MatchSound
  BY <1>1 DEF MatchSound
<1> QED BY <1>2, Invariance, PTL

\* While requests come one after the other, a statement that is reconciled adds
\* up and has every line matched on its account, until Reopen.
THEOREM ReconciledRight == Spec => []ReconciledSound
<1>1. ASSUME IInv, ~overlapped, statement.status = "reconciled"
      PROVE  /\ \A x \in Present : lines[x].match # 0 /\ journal[lines[x].match].account = statement.account
             /\ Sum = statement.net
  <2>1. Settled(statement, lines, journal)
    BY <1>1 DEF IInv
  <2>2. Sum = SumOf(lines)
    BY Zenon DEF Sum, SumOf
  <2> QED BY <1>1, <2>1, <2>2 DEF Settled, Matched, Present
<1>2. IInv => ReconciledSound
  BY <1>1 DEF ReconciledSound
<1> QED BY <1>2, Invariance, PTL

\* Nor is an entry reversed while a line is matched with it: reverseEntry's
\* check is what its commit still finds.
THEOREM EntriesPinned == Spec => PinnedEntry
<1> DEFINE Pinned == ~overlapped' => Reversed' \cap Used \subseteq Reversed
<1>1. ASSUME IInv, ~overlapped', NEW s \in Slots, Commit(s)
      PROVE  Reversed' \cap Used \subseteq Reversed
  <2> DEFINE row == requests[s].row
  <2>1. /\ ~overlapped /\ requests[s].step = "wrote"
        /\ IF row = NoEntry THEN journal' = journal
           ELSE Entries \ Posted # {} /\ journal' = [journal EXCEPT ![Min(Entries \ Posted)] = row]
    BY <1>1 DEF Commit
  <2>2. Own(statement, lines, journal, requests[s]) /\ row \in EntryType
        /\ Lone(statement, lines, journal, requests[s])
    BY <1>1, <2>1, WroteIs DEF IInv, Runs, Request
  <2>3. CASE row = NoEntry
    BY <2>1, <2>3 DEF Reversed, Posted
  <2>4. CASE row # NoEntry
    <3>1. row.reverses \notin Used
      <4>1. \A x \in LineIds : lines[x].match # row.reverses
        BY <2>2, <2>4 DEF Own, Lone
      <4> QED BY <4>1 DEF Used, Present
    <3> HIDE DEF row
    <3>2. PICK n \in Entries \ Posted : \A e \in Entries : journal'[e] = IF e = n THEN row ELSE journal[e]
      BY <1>1, <2>1, <2>2, <2>4, EntryPut
    <3>3. \A f \in Reversed' : f = row.reverses \/ f \in Reversed
      BY <3>2 DEF Reversed, Posted
    <3> QED BY <3>1, <3>3
  <2> QED BY <2>3, <2>4
<1>2. ASSUME IInv, NEW c \in Accounts, NEW a \in Amounts, Post(c, a)
      PROVE  Reversed' \subseteq Reversed
  <2> DEFINE row == [account |-> c, amount |-> a, reverses |-> 0]
  <2>1. Entries \ Posted # {} /\ journal' = [journal EXCEPT ![Min(Entries \ Posted)] = row]
    BY <1>2 DEF Post
  <2>2. row \in EntryType /\ row.reverses = 0
    BY DEF EntryType
  <2> HIDE DEF row
  <2>3. PICK n \in Entries \ Posted : \A e \in Entries : journal'[e] = IF e = n THEN row ELSE journal[e]
    BY <1>2, <2>1, <2>2, EntryPut
  <2> QED BY <2>2, <2>3 DEF Reversed, Posted
<1>3. ASSUME journal' = journal PROVE Reversed' = Reversed
  BY <1>3 DEF Reversed, Posted
<1>4. ASSUME IInv, [Next]_vars PROVE Pinned
  <2>1. CASE journal' = journal
    BY <1>3, <2>1
  <2>2. CASE \E s \in Slots : Commit(s)
    BY <1>1, <1>4, <2>2
  <2>3. CASE \E c \in Accounts, a \in Amounts : Post(c, a)
    BY <1>2, <1>4, <2>3
  <2>4. ASSUME Asks PROVE journal' = journal
    BY <2>4 DEF Asks, Ask
  <2>5. ASSUME NEW s \in Slots, Begin(s) \/ Fails(s) PROVE journal' = journal
    BY <2>5 DEF Begin, Fails
  <2>6. ASSUME NEW s \in Slots, Work(s) PROVE journal' = journal
    <3>1. AddLine(s) \/ MatchLine(s) \/ UnmatchLine(s) \/ DeleteLine(s) => journal' = journal
      BY DEF AddLine, MatchLine, UnmatchLine, DeleteLine, Writes
    <3>2. (\E x \in LineIds : AutoMatchLine(s, x)) \/ AutoMatchNothing(s) => journal' = journal
      BY DEF AutoMatchLine, AutoMatchNothing, Writes
    <3>3. UpdateStatement(s) \/ Reconcile(s) \/ Reopen(s) => journal' = journal
      BY DEF UpdateStatement, Reconcile, Reopen, Writes
    <3>4. DeleteStatement(s) \/ ReverseEntry(s) => journal' = journal
      BY DEF DeleteStatement, ReverseEntry, Writes
    <3> QED BY <2>6, <3>1, <3>2, <3>3, <3>4 DEF Work
  <2>7. CASE UNCHANGED vars
    BY <2>1, <2>7 DEF vars
  <2> HIDE DEF Pinned
  <2> QED BY <1>4, <2>1, <2>2, <2>3, <2>4, <2>5, <2>6, <2>7 DEF Next
<1>5. IInv /\ [Next]_vars => [Pinned]_vars
  BY <1>4
<1> QED BY <1>5, Invariance, PTL DEF Spec, PinnedEntry

\* AutoMatch, alone, leaves no line unmatched that an entry could have backed,
\* though it takes one line at a time and never looks back.
THEOREM NothingLeft == Spec => AutoMatchComplete
<1> DEFINE Complete == \A s \in Slots : ~overlapped /\ AutoMatched(s) =>
              \A x \in Unmatched', e \in Posted \ Used' :
                  ~(journal[e].account = statement.account /\ journal[e].amount = lines[x].amount)
<1>1. ASSUME IInv, NEW s \in Slots, ~overlapped, AutoMatched(s), NEW x \in Unmatched', NEW e \in Posted \ Used',
             journal[e].account = statement.account, journal[e].amount = lines[x].amount
      PROVE  FALSE
  <2> DEFINE R == requests[s]
             D == DOMAIN R.wrote
  <2>1. R.op = "autoMatch" /\ R.step = "wrote" /\ R.todo = {} /\ Commit(s)
    BY <1>1 DEF AutoMatched, Commit
  <2>2. \A y \in LineIds : lines'[y] = IF y \in D THEN R.wrote[y] ELSE lines[y]
    BY <1>1, <2>1, CommitIs
  <2>3. /\ \A y \in D : lines[y].match = 0 /\ R.wrote[y].match # 0 /\ y \in LineIds
        /\ Passed(statement, lines, journal, R)
    BY <1>1, <2>1, WroteIs DEF IInv, Runs, Lone
  <2>4. x \in LineIds /\ lines'[x] # NoLine /\ lines'[x].match = 0
    BY <1>1 DEF Unmatched, Present
  <2>5. x \notin D /\ lines[x] = lines'[x]
    BY <2>2, <2>3, <2>4
  <2>6. e \in Entries /\ journal[e] # NoEntry /\ e # 0
    BY Ids DEF Posted
  <2>7. (\E y \in LineIds : lines[y].match = e) \/ (\E y \in D : R.wrote[y].match = e)
    <3>1. x \in LineIds \ (R.todo \cup D)
      BY <2>1, <2>4, <2>5
    <3> QED BY <1>1, <2>3, <2>4, <2>5, <2>6, <3>1 DEF Passed
  <2> HIDE DEF D
  <2>8. \E y \in LineIds : lines'[y].match = e
    <3>1. ASSUME NEW y \in LineIds, lines[y].match = e PROVE lines'[y].match = e
      BY <2>2, <2>3, <2>6, <3>1
    <3>2. ASSUME NEW y \in D, R.wrote[y].match = e PROVE y \in LineIds /\ lines'[y].match = e
      BY <2>2, <2>3, <3>2
    <3> QED BY <2>7, <3>1, <3>2
  <2>9. e \in Used'
    BY <2>6, <2>8, RowTypes DEF Used, Present
  <2> QED BY <2>9
<1>2. IInv => Complete
  BY <1>1
<1>3. IInv /\ [Next]_vars => [Complete]_vars
  BY <1>2
<1> QED BY <1>3, Invariance, PTL DEF Spec, AutoMatchComplete

=============================================================================
