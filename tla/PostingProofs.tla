---------------------------- MODULE PostingProofs ----------------------------
(***************************************************************************)
(* Proofs about ConcurrentPosting for any number of requests, documents    *)
(* and totals: what their interleaved statements cannot do; and, of        *)
(* requests one at a time, that the books are as the documentation says.   *)
(***************************************************************************)
EXTENDS ConcurrentPosting, SumTheorems, SequenceTheorems, TLAPS

-----------------------------------------------------------------------------
(* The inductive invariant: what a transaction knows of the rows it has    *)
(* read, and what it holds against the others.                             *)

Steps == {"idle", "entry", "detail", "control", "posted", "has_applications", "reverse",
          "remove", "draft", "allocate", "insert", "check", "commit"}
EntryType == [owner : Docs \cup {0}, detail : Int, control : Int, reverses : Ids \cup {0}]
TxType == [doc : Docs \cup {0}, at : Steps, old : Ids \cup {0}, entry : EntryType,
           row : {"none", "draft", "posted", "deleted"}, total : Nat,
           plus : SUBSET App, minus : SUBSET App]

Shapes == TypeOK /\ IsFiniteSet(apps) /\ tx \in [Sessions -> TxType]

\* The original entry of the transaction's document.
Original(t, e) == e \in Ids /\ journal[e].owner = t.doc /\ journal[e].reverses = 0

\* Which parts of a transaction go with the statement it has reached.
Course(t) ==
    /\ t.at = "idle" => t = NoTx
    /\ t.at # "idle" => t.doc \in Docs
    /\ t.at = "allocate" => t.doc \in Payments
    /\ t.row # "none" => t.at \in {"check", "commit"}
    /\ IsFiniteSet(t.plus)
    /\ t.plus # {} => t.at \in {"insert", "check", "commit"} /\ t.row = "none" /\ t.entry = NoEntry
    /\ t.at \in {"entry", "allocate", "insert", "has_applications", "reverse"} => t.entry = NoEntry
    /\ t.at \in {"detail", "control", "posted"} => t.entry # NoEntry /\ t.entry.reverses = 0
    /\ t.at \in {"remove", "draft"} => t.entry # NoEntry /\ t.entry.reverses # 0
    /\ t.entry # NoEntry => t.entry.owner = t.doc

\* A reversal is of the document's own entry, and the document ends as a draft
\* with it, unless it was deleted.
Reversing(t) ==
    /\ t.at \in {"has_applications", "reverse"} => Original(t, t.old)
    /\ t.entry.reverses # 0 =>
          /\ Original(t, t.entry.reverses)
          /\ t.at \in {"check", "commit"} => t.row = "draft" \/ doc[t.doc].status = "deleted"

\* The row as it is while the transaction has it locked.
Holding(t) ==
    /\ t.row # "none" => doc[t.doc].status # "deleted"
    /\ t.row = "posted" => t.entry # NoEntry /\ t.entry.reverses = 0
    /\ t.row = "draft" => IF t.entry.reverses = 0 THEN t.entry = NoEntry /\ doc[t.doc].status = "draft"
                          ELSE t.total = doc[t.doc].total
    /\ t.row = "deleted" => t.entry = NoEntry /\ doc[t.doc].status = "draft"

InsertedOf(t) == IF t.at \in {"check", "commit"} THEN t.plus ELSE {}
Mentions(A, d) == \E a \in A : d \in {a.payment, a.invoice}

\* Foreign keys: what has been inserted refers to rows that are there, and a
\* row that is being deleted takes its applications with it.
Referring(t) ==
    /\ \A a \in InsertedOf(t) : doc[a.payment].status # "deleted" /\ doc[a.invoice].status # "deleted"
    /\ t.row = "deleted" => ~Mentions(apps \ t.minus, t.doc)

TxOK(t) == Course(t) /\ Reversing(t) /\ Holding(t) /\ Referring(t)

\* No two hold one row, and none inserts what refers to a row being deleted.
Apart(t, u) ==
    /\ t.row # "none" /\ u.row # "none" => t.doc # u.doc
    /\ t.row = "deleted" => ~Mentions(InsertedOf(u), t.doc)

IInv ==
    /\ Shapes
    /\ \A s \in Sessions : TxOK(tx[s])
    /\ \A s \in Sessions : \A r \in Sessions \ {s} : Apart(tx[s], tx[r])
    /\ PostedEntryLive /\ ReferencesKept

-----------------------------------------------------------------------------
(* What a committed entry is. *)

EntryOf(ids) == [owner : Docs, detail : Int, control : Int, reverses : ids \cup {0}]

LEMMA EntryKnown ==
    ASSUME Shapes, NEW e \in Ids
    PROVE  journal[e] \in EntryOf(Ids)
<1>1. journal \in Seq(EntryOf(Ids)) /\ e \in 1..Len(journal)
  BY DEF Shapes, TypeOK, EntryOf, Ids
<1> QED BY <1>1, ElementOfSeq

-----------------------------------------------------------------------------
(* The sums of a statement that allocates. *)

\* The applied amounts of a finite set of applications, as a sum of a function.
LEMMA SumAppliedIs ==
    ASSUME NEW A, IsFiniteSet(A)
    PROVE  SumApplied(A) = SumOver([a \in A |-> a.amount], A)
<1> DEFINE F == [a \in A |-> a.amount]
           Adding(g) == [T \in SUBSET A |-> IF T = {} THEN 0
                            ELSE (CHOOSE x \in T : TRUE).amount + g[T \ {CHOOSE x \in T : TRUE}]]
<1>1. ASSUME NEW g PROVE Adds(g, F, A) <=> g = Adding(g)
  BY DEF Adds
<1>2. SumApplied(A) = (CHOOSE g : g = Adding(g))[A]
  BY Zenon DEF SumApplied, MapThenSumSet, MapThenFoldSet
<1> HIDE DEF F, Adding
<1>3. PICK g : g = Adding(g)
  BY <1>1, AddsExists
<1>4. Adds(CHOOSE h : h = Adding(h), F, A)
  BY <1>1, <1>3
<1> QED BY <1>2, <1>4, SumIs DEF F

\* What is available of documents, likewise.
LEMMA SumAvailableIs ==
    ASSUME NEW D, IsFiniteSet(D)
    PROVE  MapThenSumSet(Available, D) = SumOver([d \in D |-> Available(d)], D)
<1> DEFINE F == [d \in D |-> Available(d)]
           Adding(g) == [T \in SUBSET D |-> IF T = {} THEN 0
                            ELSE Available(CHOOSE x \in T : TRUE) + g[T \ {CHOOSE x \in T : TRUE}]]
<1>1. ASSUME NEW g PROVE Adds(g, F, D) <=> g = Adding(g)
  BY DEF Adds
<1>2. MapThenSumSet(Available, D) = (CHOOSE g : g = Adding(g))[D]
  BY Zenon DEF MapThenSumSet, MapThenFoldSet
<1> HIDE DEF F, Adding
<1>3. PICK g : g = Adding(g)
  BY <1>1, AddsExists
<1>4. Adds(CHOOSE h : h = Adding(h), F, D)
  BY <1>1, <1>3
<1> QED BY <1>2, <1>4, SumIs DEF F

LEMMA AvailableInt ==
    ASSUME Shapes, NEW d \in Docs
    PROVE  Available(d) \in Int
<1> DEFINE A == {a \in apps : d \in {a.payment, a.invoice}}
<1>1. IsFiniteSet(A)
  BY FS_Subset DEF Shapes
<1>2. \A a \in A : a.amount \in Int
  BY DEF Shapes, TypeOK, App
<1>3. SumApplied(A) \in Int
  BY <1>1, <1>2, SumAppliedIs, SumInt
<1>4. doc[d].total \in Int
  BY DEF Shapes, TypeOK
<1> QED BY <1>3, <1>4 DEF Available, Settled

LEMMA AllocationInt ==
    ASSUME Shapes, NEW p \in Payments, NEW i \in Invoices
    PROVE  Allocation(p, i) \in Int
<1> DEFINE D == {j \in OpenInvoices : j < i}
<1>1. IsFiniteSet(D) /\ D \subseteq Docs
  BY FS_Subset, ConcurrentAssumption DEF OpenInvoices, Docs
<1>2. MapThenSumSet(Available, D) \in Int
  BY <1>1, AvailableInt, SumAvailableIs, SumInt
<1>3. Available(p) \in Int /\ Available(i) \in Int
  BY AvailableInt DEF Docs
<1> DEFINE prior == MapThenSumSet(Available, D)
           left  == IF Available(p) > prior THEN Available(p) - prior ELSE 0
<1>4. Allocation(p, i) = IF left < Available(i) THEN left ELSE Available(i)
  BY Zenon DEF Allocation
<1>5. prior \in Int
  BY <1>2
<1> HIDE DEF prior
<1> QED BY <1>3, <1>4, <1>5

\* An allocation is a finite set of applications.
LEMMA NewAppsType ==
    ASSUME Shapes, NEW p \in Payments
    PROVE  NewApps(p) \subseteq App /\ IsFiniteSet(NewApps(p))
<1> DEFINE D == {j \in OpenInvoices : Allocation(p, j) > 0}
           f == [i \in D |-> [payment |-> p, invoice |-> i, amount |-> Allocation(p, i)]]
<1>1. D \subseteq Invoices /\ IsFiniteSet(D)
  BY FS_Subset, ConcurrentAssumption DEF OpenInvoices, Docs
<1>2. NewApps(p) \subseteq App
  BY <1>1, AllocationInt DEF NewApps, App
<1>3. f \in Surjection(D, NewApps(p))
  BY DEF Surjection, NewApps
<1> QED BY <1>1, <1>2, <1>3, FS_Surjection

-----------------------------------------------------------------------------
(* A statement changes one transaction; what is committed stays. *)

LEMMA StepKeeps ==
    ASSUME IInv, NEW s \in Sessions, NEW t \in TxType, TxOK(t), Step(s, t),
           \A r \in Sessions \ {s} : Apart(t, tx[r]) /\ Apart(tx[r], t)
    PROVE  IInv'
<1>1. /\ doc' = doc /\ apps' = apps /\ journal' = journal /\ periodOpen' = periodOpen
      /\ tx' = [tx EXCEPT ![s] = t] /\ Ids' = Ids
  BY DEF Step, Committed, Ids
<1>2. Shapes /\ tx \in [Sessions -> TxType]
  BY DEF IInv, Shapes
<1>3. \A r \in Sessions : tx'[r] = IF r = s THEN t ELSE tx[r]
  BY <1>1, <1>2
<1>4. Shapes'
  <2>1. tx' \in [Sessions -> TxType] /\ (TxType = TxType')
    BY <1>1, <1>2 DEF TxType, EntryType
  <2>2. TypeOK'
    <3>1. \A r \in Sessions : /\ tx'[r].plus \subseteq App /\ tx'[r].minus \subseteq App
                              /\ tx'[r].row \in {"none", "draft", "posted", "deleted"}
      BY <2>1 DEF TxType
    <3> QED BY <1>1, <1>2, <3>1 DEF Shapes, TypeOK
  <2> QED BY <1>1, <1>2, <2>1, <2>2 DEF Shapes
<1>5. ASSUME NEW r \in Sessions PROVE TxOK(tx[r])'
  <2>1. TxOK(tx'[r])
    BY <1>3 DEF IInv
  <2> QED BY <1>1, <2>1 DEF TxOK, Course, Reversing, Holding, Referring, Original, InsertedOf, Mentions
<1>6. ASSUME NEW r \in Sessions, NEW u \in Sessions \ {r} PROVE Apart(tx[r], tx[u])'
  <2>1. Apart(tx'[r], tx'[u])
    BY <1>3 DEF IInv
  <2> QED BY <2>1 DEF Apart, InsertedOf, Mentions
<1>7. (PostedEntryLive /\ ReferencesKept)'
  BY <1>1 DEF IInv, PostedEntryLive, ReferencesKept
<1> QED BY <1>4, <1>5, <1>6, <1>7 DEF IInv

\* A transaction that has locked nothing and inserted nothing stands in nobody's way.
LEMMA NothingHeld ==
    ASSUME NEW t, t.row = "none", InsertedOf(t) = {}, NEW u
    PROVE  Apart(t, u) /\ Apart(u, t)
BY DEF Apart, Mentions

\* A transaction's parts, by name.
LEMMA TxParts ==
    ASSUME IInv, NEW s \in Sessions
    PROVE  /\ tx[s] \in TxType /\ TxOK(tx[s])
           /\ \A r \in Sessions \ {s} : Apart(tx[s], tx[r]) /\ Apart(tx[r], tx[s])
BY DEF IInv, Shapes

\* A statement that neither locks nor inserts.
LEMMA QuietKeeps ==
    ASSUME IInv, NEW s \in Sessions, NEW t \in TxType, Step(s, t),
           Course(t), Reversing(t), t.row = "none", InsertedOf(t) = {}
    PROVE  IInv'
<1>1. Holding(t) /\ Referring(t)
  BY DEF Holding, Referring
<1> QED BY <1>1, StepKeeps, NothingHeld DEF TxOK

LEMMA NoTxFine == NoTx \in TxType /\ Course(NoTx) /\ Reversing(NoTx) /\ NoTx.row = "none" /\ InsertedOf(NoTx) = {}
<1>1. NoEntry \in EntryType /\ NoEntry.reverses = 0
  BY DEF NoEntry, EntryType
<1>2. NoTx \in TxType
  BY <1>1 DEF NoTx, TxType, Steps
<1>3. IsFiniteSet({})
  BY FS_EmptySet
<1> QED BY <1>1, <1>2, <1>3 DEF NoTx, Course, Reversing, InsertedOf

\* What begins is a transaction that has done nothing yet.
LEMMA BeginKeeps ==
    ASSUME IInv, NEW s \in Sessions, NEW d \in Docs, NEW step \in {"entry", "allocate"},
           step = "allocate" => d \in Payments, Begin(s, d, step)
    PROVE  IInv'
<1> DEFINE t == [NoTx EXCEPT !.doc = d, !.at = step]
<1>1. t \in TxType /\ Course(t) /\ Reversing(t) /\ t.row = "none" /\ InsertedOf(t) = {}
  BY NoTxFine DEF NoTx, TxType, Steps, Course, Reversing, InsertedOf, NoEntry
<1>2. Step(s, t)
  BY DEF Begin
<1> HIDE DEF t
<1> QED BY <1>1, <1>2, QuietKeeps

LEMMA InsertEntryKeeps ==
    ASSUME IInv, NEW s \in Sessions, InsertEntry(s)
    PROVE  IInv'
<1> DEFINE t == [tx[s] EXCEPT !.at = "detail", !.entry.owner = tx[s].doc]
<1>1. tx[s] \in TxType /\ TxOK(tx[s]) /\ tx[s].at = "entry" /\ tx[s].entry = NoEntry
  BY TxParts DEF InsertEntry, At, TxOK, Course
<1>2. tx[s].doc \in Docs /\ tx[s].doc # 0 /\ tx[s].row = "none" /\ tx[s].plus = {}
  BY <1>1, ConcurrentAssumption DEF TxOK, Course, TxType
<1>3. t \in TxType
  BY <1>1 DEF TxType, EntryType, Steps
<1>4. t.row = "none" /\ InsertedOf(t) = {}
  BY <1>1, <1>2 DEF TxType, InsertedOf
<1>5. t.entry.owner = t.doc /\ t.entry # NoEntry /\ t.entry.reverses = 0 /\ t.plus = {}
  BY <1>1, <1>2 DEF TxType, EntryType, NoEntry
<1>6. t.at = "detail" /\ t.doc = tx[s].doc
  BY <1>1 DEF TxType
<1>7. Course(t) /\ Reversing(t)
  BY <1>2, <1>4, <1>5, <1>6, FS_EmptySet DEF Course, Reversing
<1>8. Step(s, t)
  BY DEF InsertEntry
<1> HIDE DEF t
<1> QED BY <1>3, <1>4, <1>7, <1>8, QuietKeeps

LEMMA InsertDetailKeeps ==
    ASSUME IInv, NEW s \in Sessions, InsertDetail(s)
    PROVE  IInv'
<1> DEFINE t == [tx[s] EXCEPT !.at = "control", !.entry.detail = doc[tx[s].doc].total]
<1>1. tx[s] \in TxType /\ Course(tx[s]) /\ tx[s].at = "detail"
  BY TxParts DEF InsertDetail, At, TxOK
<1>2. tx[s].doc \in Docs /\ tx[s].row = "none" /\ tx[s].plus = {} /\ tx[s].doc # 0
      /\ tx[s].entry.owner = tx[s].doc /\ tx[s].entry.reverses = 0
  BY <1>1, ConcurrentAssumption DEF Course, TxType
<1>3. doc[tx[s].doc].total \in Nat
  BY <1>2 DEF IInv, Shapes, TypeOK
<1>4. t \in TxType
  <2> DEFINE e == [tx[s].entry EXCEPT !.detail = doc[tx[s].doc].total]
  <2>1. e \in EntryType
    BY <1>1, <1>3 DEF TxType, EntryType
  <2>2. t = [tx[s] EXCEPT !.at = "control", !.entry = e]
    BY <1>1 DEF TxType
  <2> HIDE DEF t, e
  <2> QED BY <1>1, <2>1, <2>2 DEF TxType, Steps
<1>5. t.at = "control" /\ t.doc = tx[s].doc /\ t.row = "none" /\ InsertedOf(t) = {} /\ t.plus = {}
  BY <1>1, <1>2 DEF TxType, InsertedOf
<1>6. t.entry.owner = t.doc /\ t.entry # NoEntry /\ t.entry.reverses = 0
  BY <1>1, <1>2 DEF TxType, EntryType, NoEntry
<1>7. Course(t) /\ Reversing(t)
  BY <1>2, <1>5, <1>6, FS_EmptySet DEF Course, Reversing
<1>8. Step(s, t)
  BY DEF InsertDetail
<1> HIDE DEF t
<1> QED BY <1>4, <1>5, <1>7, <1>8, QuietKeeps

LEMMA InsertControlKeeps ==
    ASSUME IInv, NEW s \in Sessions, InsertControl(s)
    PROVE  IInv'
<1> DEFINE t == [tx[s] EXCEPT !.at = "posted", !.entry.control = doc[tx[s].doc].total]
<1>1. tx[s] \in TxType /\ Course(tx[s]) /\ tx[s].at = "control"
  BY TxParts DEF InsertControl, At, TxOK
<1>2. tx[s].doc \in Docs /\ tx[s].row = "none" /\ tx[s].plus = {} /\ tx[s].doc # 0
      /\ tx[s].entry.owner = tx[s].doc /\ tx[s].entry.reverses = 0
  BY <1>1, ConcurrentAssumption DEF Course, TxType
<1>3. doc[tx[s].doc].total \in Nat
  BY <1>2 DEF IInv, Shapes, TypeOK
<1>4. t \in TxType
  <2> DEFINE e == [tx[s].entry EXCEPT !.control = doc[tx[s].doc].total]
  <2>1. e \in EntryType
    BY <1>1, <1>3 DEF TxType, EntryType
  <2>2. t = [tx[s] EXCEPT !.at = "posted", !.entry = e]
    BY <1>1 DEF TxType
  <2> HIDE DEF t, e
  <2> QED BY <1>1, <2>1, <2>2 DEF TxType, Steps
<1>5. t.at = "posted" /\ t.doc = tx[s].doc /\ t.row = "none" /\ InsertedOf(t) = {} /\ t.plus = {}
  BY <1>1, <1>2 DEF TxType, InsertedOf
<1>6. t.entry.owner = t.doc /\ t.entry # NoEntry /\ t.entry.reverses = 0
  BY <1>1, <1>2 DEF TxType, EntryType, NoEntry
<1>7. Course(t) /\ Reversing(t)
  BY <1>2, <1>5, <1>6, FS_EmptySet DEF Course, Reversing
<1>8. Step(s, t)
  BY DEF InsertControl
<1> HIDE DEF t
<1> QED BY <1>4, <1>5, <1>7, <1>8, QuietKeeps

LEMMA SetPostedKeeps ==
    ASSUME IInv, NEW s \in Sessions, SetPosted(s)
    PROVE  IInv'
<1> DEFINE row == IF doc[tx[s].doc].status = "deleted" THEN "none" ELSE "posted"
           t   == [tx[s] EXCEPT !.at = "commit", !.row = row]
<1>1. tx[s] \in TxType /\ TxOK(tx[s]) /\ tx[s].at = "posted" /\ ~RowLocked(s, tx[s].doc)
  BY TxParts DEF SetPosted, At
<1>2. tx[s].doc \in Docs /\ tx[s].row = "none" /\ tx[s].plus = {} /\ tx[s].entry # NoEntry
      /\ tx[s].entry.owner = tx[s].doc /\ tx[s].entry.reverses = 0
  BY <1>1 DEF TxOK, Course, TxType
<1>3. t \in TxType
  BY <1>1 DEF TxType, Steps
<1>4. /\ t.at = "commit" /\ t.doc = tx[s].doc /\ t.row = row /\ t.entry = tx[s].entry
      /\ t.plus = {} /\ t.minus = tx[s].minus
  BY <1>1, <1>2 DEF TxType
<1>5. Course(t) /\ Reversing(t)
  BY <1>2, <1>4, FS_EmptySet DEF Course, Reversing
<1>6. Holding(t) /\ Referring(t)
  BY <1>2, <1>4 DEF Holding, Referring, InsertedOf
<1>7. \A r \in Sessions \ {s} : Apart(t, tx[r]) /\ Apart(tx[r], t)
  BY <1>1, <1>4 DEF Apart, RowLocked, InsertedOf, Mentions
<1>8. Step(s, t)
  BY DEF SetPosted
<1> HIDE DEF t
<1> QED BY <1>3, <1>5, <1>6, <1>7, <1>8, StepKeeps DEF TxOK

LEMMA EditDraftKeeps ==
    ASSUME IInv, NEW s \in Sessions, NEW d \in Docs, EditDraft(s, d)
    PROVE  IInv'
<1>1. ~RowLocked(s, d) /\ doc[d].status = "draft"
  BY DEF EditDraft, IsDraft
<1>2. PICK n \in Totals[d] :
         Step(s, [NoTx EXCEPT !.doc = d, !.at = "commit", !.row = "draft", !.total = n])
  BY DEF EditDraft
<1> DEFINE t == [NoTx EXCEPT !.doc = d, !.at = "commit", !.row = "draft", !.total = n]
<1>3. n \in Nat
  BY ConcurrentAssumption DEF Docs
<1>4. t \in TxType /\ t = [NoTx EXCEPT !.doc = d, !.at = "commit", !.row = "draft", !.total = n]
  BY <1>3, NoTxFine DEF NoTx, TxType, Steps
<1>5. /\ t.at = "commit" /\ t.doc = d /\ t.row = "draft" /\ t.entry = NoEntry
      /\ t.entry.reverses = 0 /\ t.plus = {}
  BY DEF NoTx, NoEntry
<1>6. Course(t) /\ Reversing(t)
  BY <1>5, FS_EmptySet DEF Course, Reversing
<1>7. Holding(t) /\ Referring(t)
  BY <1>1, <1>5 DEF Holding, Referring, InsertedOf
<1>8. \A r \in Sessions \ {s} : Apart(t, tx[r]) /\ Apart(tx[r], t)
  BY <1>1, <1>5 DEF Apart, RowLocked, InsertedOf, Mentions
<1>9. Step(s, t)
  BY <1>2
<1> HIDE DEF t
<1> QED BY <1>4, <1>6, <1>7, <1>8, <1>9, StepKeeps DEF TxOK

LEMMA DeleteDraftKeeps ==
    ASSUME IInv, NEW s \in Sessions, NEW d \in Docs, DeleteDraft(s, d)
    PROVE  IInv'
<1> DEFINE t == [NoTx EXCEPT !.doc = d, !.at = "check", !.row = "deleted", !.minus = AppsOf(d)]
<1>1. ~RowLocked(s, d) /\ doc[d].status = "draft" /\ ~Referenced(s, d) /\ Step(s, t)
  BY DEF DeleteDraft, IsDraft
<1>2. AppsOf(d) \subseteq App
  BY DEF AppsOf, IInv, Shapes, TypeOK
<1>3. t \in TxType
  BY <1>2, NoTxFine DEF NoTx, TxType, Steps
<1>4. /\ t.at = "check" /\ t.doc = d /\ t.row = "deleted" /\ t.entry = NoEntry
      /\ t.entry.reverses = 0 /\ t.plus = {} /\ t.minus = AppsOf(d)
  BY DEF NoTx, NoEntry
<1>5. Course(t) /\ Reversing(t)
  BY <1>4, FS_EmptySet DEF Course, Reversing
<1>6. Holding(t) /\ Referring(t)
  BY <1>1, <1>4 DEF Holding, Referring, InsertedOf, Mentions, AppsOf
<1>7. \A r \in Sessions \ {s} : Apart(t, tx[r]) /\ Apart(tx[r], t)
  <2>1. ASSUME NEW r \in Sessions \ {s} PROVE ~Mentions(InsertedOf(tx[r]), d)
    BY <1>1 DEF Referenced, Inserted, InsertedOf, Mentions
  <2> QED BY <1>1, <1>4, <2>1 DEF Apart, RowLocked, InsertedOf, Mentions
<1> HIDE DEF t
<1> QED BY <1>1, <1>3, <1>5, <1>6, <1>7, StepKeeps DEF TxOK

\* An unposting knows the entry it is to reverse: the document's own.
LEMMA ReadPostedKeeps ==
    ASSUME IInv, NEW s \in Sessions, NEW d \in Docs, ReadPosted(s, d)
    PROVE  IInv'
<1> DEFINE step == IF d \in Invoices THEN "has_applications" ELSE "reverse"
           t    == [NoTx EXCEPT !.doc = d, !.old = doc[d].entry, !.at = step]
<1>1. doc[d].entry \in Ids /\ journal[doc[d].entry].owner = d /\ journal[doc[d].entry].reverses = 0
  BY DEF ReadPosted, IInv, Shapes, TypeOK, PostedEntryLive
<1>2. t \in TxType
  <2>1. step \in Steps /\ NoTx \in TxType
    BY NoTxFine DEF Steps
  <2> HIDE DEF step
  <2> QED BY <1>1, <2>1 DEF TxType
<1>3. /\ t.at = step /\ t.doc = d /\ t.old = doc[d].entry /\ t.row = "none" /\ t.plus = {}
      /\ t.entry = NoEntry /\ t.entry.reverses = 0
  BY DEF NoTx, NoEntry
<1>4. Course(t) /\ Reversing(t) /\ InsertedOf(t) = {}
  BY <1>1, <1>3, FS_EmptySet DEF Course, Reversing, Original, InsertedOf
<1>5. Step(s, t)
  BY DEF ReadPosted
<1> HIDE DEF t
<1> QED BY <1>2, <1>3, <1>4, <1>5, QuietKeeps

LEMMA HasNoApplicationsKeeps ==
    ASSUME IInv, NEW s \in Sessions, HasNoApplications(s)
    PROVE  IInv'
<1> DEFINE t == [tx[s] EXCEPT !.at = "reverse"]
<1>1. tx[s] \in TxType /\ TxOK(tx[s]) /\ tx[s].at = "has_applications"
  BY TxParts DEF HasNoApplications, At
<1>2. t \in TxType
  BY <1>1 DEF TxType, Steps
<1>3. /\ t.at = "reverse" /\ t.doc = tx[s].doc /\ t.old = tx[s].old /\ t.row = tx[s].row
      /\ t.plus = tx[s].plus /\ t.entry = tx[s].entry
  BY <1>1 DEF TxType
<1>4. Course(t) /\ Reversing(t) /\ t.row = "none" /\ InsertedOf(t) = {}
  BY <1>1, <1>3, FS_EmptySet DEF TxOK, Course, Reversing, Original, InsertedOf
<1>5. Step(s, t)
  BY DEF HasNoApplications
<1> HIDE DEF t
<1> QED BY <1>2, <1>4, <1>5, QuietKeeps

\* The reversal built is of an original entry of the document.
LEMMA InsertReversalKeeps ==
    ASSUME IInv, NEW s \in Sessions, InsertReversal(s)
    PROVE  IInv'
<1> DEFINE e    == tx[s].old
           back == [owner |-> journal[e].owner, detail |-> -journal[e].detail,
                    control |-> -journal[e].control, reverses |-> e]
           step == IF tx[s].doc \in Invoices THEN "draft" ELSE "remove"
           t    == [tx[s] EXCEPT !.entry = back, !.at = step]
<1>1. tx[s] \in TxType /\ TxOK(tx[s]) /\ tx[s].at = "reverse"
  BY TxParts DEF InsertReversal, At
<1>2. Original(tx[s], e) /\ tx[s].doc \in Docs /\ tx[s].row = "none" /\ tx[s].plus = {}
  BY <1>1 DEF TxOK, Course, Reversing
<1>3. e \in Ids /\ e # 0 /\ journal[e] \in [owner : Docs, detail : Int, control : Int, reverses : Ids \cup {0}]
  BY <1>2, EntryKnown DEF Original, Ids, IInv, EntryOf
<1>4. back \in EntryType /\ back.owner = tx[s].doc /\ back.reverses = e /\ back # NoEntry
  BY <1>2, <1>3 DEF EntryType, NoEntry, Original
<1>5. t \in TxType
  <2> HIDE DEF back
  <2> QED BY <1>1, <1>4 DEF TxType, Steps
<1>6. t.at = step /\ t.doc = tx[s].doc /\ t.row = "none" /\ t.plus = {} /\ t.entry = back
  BY <1>1, <1>2 DEF TxType
<1>7. Course(t) /\ Reversing(t) /\ InsertedOf(t) = {}
  <2> HIDE DEF t, back
  <2> QED BY <1>2, <1>3, <1>4, <1>6, FS_EmptySet DEF Course, Reversing, Original, InsertedOf
<1>8. Step(s, t)
  BY DEF InsertReversal
<1> HIDE DEF t
<1> QED BY <1>5, <1>6, <1>7, <1>8, QuietKeeps

LEMMA RemoveApplicationsKeeps ==
    ASSUME IInv, NEW s \in Sessions, RemoveApplications(s)
    PROVE  IInv'
<1> DEFINE t == [tx[s] EXCEPT !.at = "draft", !.minus = AppsOf(tx[s].doc)]
<1>1. tx[s] \in TxType /\ TxOK(tx[s]) /\ tx[s].at = "remove"
  BY TxParts DEF RemoveApplications, At
<1>2. AppsOf(tx[s].doc) \subseteq App
  BY DEF AppsOf, IInv, Shapes, TypeOK
<1>3. t \in TxType
  BY <1>1, <1>2 DEF TxType, Steps
<1>4. t.at = "draft" /\ t.doc = tx[s].doc /\ t.row = tx[s].row /\ t.plus = tx[s].plus /\ t.entry = tx[s].entry
  BY <1>1 DEF TxType
<1>5. Course(t) /\ Reversing(t) /\ t.row = "none" /\ InsertedOf(t) = {}
  BY <1>1, <1>4, FS_EmptySet DEF TxOK, Course, Reversing, Original, InsertedOf
<1>6. Step(s, t)
  BY DEF RemoveApplications
<1> HIDE DEF t
<1> QED BY <1>3, <1>5, <1>6, QuietKeeps

LEMMA SetDraftKeeps ==
    ASSUME IInv, NEW s \in Sessions, SetDraft(s)
    PROVE  IInv'
<1> DEFINE d   == tx[s].doc
           row == IF doc[d].status = "deleted" THEN "none" ELSE "draft"
           t   == [tx[s] EXCEPT !.at = "check", !.row = row, !.total = doc[d].total]
<1>1. tx[s] \in TxType /\ TxOK(tx[s]) /\ tx[s].at = "draft" /\ ~RowLocked(s, d)
  BY TxParts DEF SetDraft, At
<1>2. d \in Docs /\ tx[s].row = "none" /\ tx[s].plus = {} /\ tx[s].entry # NoEntry
      /\ tx[s].entry.reverses # 0 /\ tx[s].entry.owner = d /\ Original(tx[s], tx[s].entry.reverses)
  BY <1>1 DEF TxOK, Course, Reversing, TxType
<1>3. doc[d].total \in Nat
  BY <1>2 DEF IInv, Shapes, TypeOK
<1>4. t \in TxType
  BY <1>1, <1>3 DEF TxType, Steps
<1>5. /\ t.at = "check" /\ t.doc = d /\ t.row = row /\ t.plus = {} /\ t.entry = tx[s].entry
      /\ t.total = doc[d].total
  BY <1>1, <1>2 DEF TxType
<1>6. Course(t) /\ Reversing(t)
  BY <1>2, <1>5, FS_EmptySet DEF Course, Reversing, Original
<1>7. Holding(t) /\ Referring(t)
  BY <1>2, <1>5 DEF Holding, Referring, InsertedOf
<1>8. \A r \in Sessions \ {s} : Apart(t, tx[r]) /\ Apart(tx[r], t)
  BY <1>1, <1>5 DEF Apart, RowLocked, InsertedOf, Mentions
<1>9. Step(s, t)
  BY DEF SetDraft
<1> HIDE DEF t
<1> QED BY <1>4, <1>6, <1>7, <1>8, <1>9, StepKeeps DEF TxOK

LEMMA AllocateKeeps ==
    ASSUME IInv, NEW s \in Sessions, Allocate(s)
    PROVE  IInv'
<1> DEFINE p == tx[s].doc
           t == [tx[s] EXCEPT !.at = "insert", !.plus = NewApps(p)]
<1>1. tx[s] \in TxType /\ TxOK(tx[s]) /\ tx[s].at = "allocate"
  BY TxParts DEF Allocate, At
<1>2. p \in Payments /\ p \in Docs /\ tx[s].row = "none" /\ tx[s].entry = NoEntry
  BY <1>1 DEF TxOK, Course, Docs
<1>3. NewApps(p) \subseteq App /\ IsFiniteSet(NewApps(p))
  BY <1>2, NewAppsType DEF IInv
<1>4. t \in TxType
  BY <1>1, <1>3 DEF TxType, Steps
<1>5. /\ t.at = "insert" /\ t.doc = p /\ t.row = "none" /\ t.plus = NewApps(p)
      /\ t.entry = NoEntry /\ t.entry.reverses = 0
  BY <1>1, <1>2 DEF TxType, NoEntry
<1>6. Course(t) /\ Reversing(t) /\ InsertedOf(t) = {}
  BY <1>2, <1>3, <1>5 DEF Course, Reversing, InsertedOf
<1>7. Step(s, t)
  BY DEF Allocate
<1> HIDE DEF t
<1> QED BY <1>4, <1>5, <1>6, <1>7, QuietKeeps

\* The foreign keys: what is inserted refers to rows nobody deletes meanwhile.
LEMMA InsertApplicationsKeeps ==
    ASSUME IInv, NEW s \in Sessions, InsertApplications(s)
    PROVE  IInv'
<1> DEFINE t == [tx[s] EXCEPT !.at = "check"]
<1>1. tx[s] \in TxType /\ TxOK(tx[s]) /\ tx[s].at = "insert"
  BY TxParts DEF InsertApplications, At
<1>2. /\ tx[s].doc \in Docs /\ tx[s].row = "none" /\ tx[s].entry = NoEntry
      /\ tx[s].entry.reverses = 0 /\ IsFiniteSet(tx[s].plus)
  BY <1>1 DEF TxOK, Course, NoEntry
<1>3. t \in TxType
  BY <1>1 DEF TxType, Steps
<1>4. t.at = "check" /\ t.doc = tx[s].doc /\ t.row = "none" /\ t.plus = tx[s].plus /\ t.entry = tx[s].entry
  BY <1>1, <1>2 DEF TxType
<1>5. Course(t) /\ Reversing(t) /\ Holding(t)
  BY <1>2, <1>4 DEF Course, Reversing, Holding
<1>6. \A a \in t.plus : \A d \in {a.payment, a.invoice} :
         doc[d].status # "deleted" /\ \A r \in Sessions : ~(tx[r].doc = d /\ tx[r].row = "deleted")
  BY <1>4 DEF InsertApplications
<1>7. Referring(t)
  BY <1>4, <1>6 DEF Referring, InsertedOf
<1>8. \A r \in Sessions \ {s} : Apart(t, tx[r]) /\ Apart(tx[r], t)
  BY <1>4, <1>6 DEF Apart, InsertedOf, Mentions
<1>9. Step(s, t)
  BY DEF InsertApplications
<1> HIDE DEF t
<1> QED BY <1>3, <1>5, <1>7, <1>8, <1>9, StepKeeps DEF TxOK

LEMMA CheckAppliedKeeps ==
    ASSUME IInv, NEW s \in Sessions, CheckApplied(s)
    PROVE  IInv'
<1> DEFINE t == [tx[s] EXCEPT !.at = "commit"]
<1>1. tx[s] \in TxType /\ TxOK(tx[s]) /\ tx[s].at = "check"
  BY TxParts DEF CheckApplied, At
<1>2. t \in TxType
  BY <1>1 DEF TxType, Steps
<1>3. /\ t.at = "commit" /\ t.doc = tx[s].doc /\ t.row = tx[s].row /\ t.plus = tx[s].plus
      /\ t.minus = tx[s].minus /\ t.entry = tx[s].entry /\ t.total = tx[s].total
  BY <1>1 DEF TxType
<1>4. InsertedOf(t) = InsertedOf(tx[s])
  BY <1>1, <1>3 DEF InsertedOf
<1>5. TxOK(t)
  BY <1>1, <1>3, <1>4 DEF TxOK, Course, Reversing, Holding, Referring, Original
<1>6. \A r \in Sessions \ {s} : Apart(t, tx[r]) /\ Apart(tx[r], t)
  BY <1>3, <1>4, TxParts DEF Apart
<1>7. Step(s, t)
  BY DEF CheckApplied
<1> HIDE DEF t
<1> QED BY <1>2, <1>5, <1>6, <1>7, StepKeeps

LEMMA AbortKeeps ==
    ASSUME IInv, NEW s \in Sessions, Abort(s)
    PROVE  IInv'
BY NoTxFine, QuietKeeps DEF Abort

-----------------------------------------------------------------------------
(* A commit publishes what one transaction did. *)

\* What Commit does, for a transaction of the invariant.
LEMMA Commits ==
    ASSUME IInv, NEW s \in Sessions, Commit(s)
    PROVE  LET t == tx[s] IN
           /\ t \in TxType /\ TxOK(t) /\ t.at = "commit" /\ t.doc \in Docs /\ InsertedOf(t) = t.plus
           /\ \A d \in Docs : doc'[d] = IF d = t.doc THEN NewRow(s) ELSE doc[d]
           /\ doc' = [doc EXCEPT ![t.doc] = NewRow(s)]
           /\ apps' = (apps \ t.minus) \cup t.plus
           /\ \A r \in Sessions : tx'[r] = IF r = s THEN NoTx ELSE tx[r]
           /\ periodOpen' = periodOpen
<1>1. tx[s] \in TxType /\ TxOK(tx[s]) /\ tx[s].at = "commit"
  BY TxParts DEF Commit, At
<1>2. tx[s].doc \in Docs /\ InsertedOf(tx[s]) = tx[s].plus
  BY <1>1 DEF TxOK, Course, InsertedOf
<1>3. \A d \in Docs : doc'[d] = IF d = tx[s].doc THEN NewRow(s) ELSE doc[d]
  BY DEF Commit, IInv, Shapes, TypeOK
<1>4. \A r \in Sessions : tx'[r] = IF r = s THEN NoTx ELSE tx[r]
  BY DEF Commit, IInv, Shapes
<1> QED BY <1>1, <1>2, <1>3, <1>4 DEF Commit

\* The journal after it: the entry, if there is one, at the end.
LEMMA CommitsEntry ==
    ASSUME IInv, NEW s \in Sessions, Commit(s)
    PROVE  /\ journal' \in Seq([owner : Docs, detail : Int, control : Int, reverses : Ids' \cup {0}])
           /\ Ids \subseteq Ids' /\ \A e \in Ids : journal'[e] = journal[e]
           /\ tx[s].entry = NoEntry => Ids' = Ids /\ journal' = journal
           /\ tx[s].entry # NoEntry => /\ Ids' = Ids \cup {Len(journal) + 1}
                                       /\ Len(journal) + 1 \notin Ids /\ Len(journal) + 1 # 0
                                       /\ journal'[Len(journal) + 1] = tx[s].entry
                                       /\ Balanced(tx[s].entry)
<1> DEFINE e == tx[s].entry
           E == [owner : Docs, detail : Int, control : Int, reverses : Ids \cup {0}]
<1>1. journal \in Seq(E) /\ Len(journal) \in Nat
  BY DEF IInv, Shapes, TypeOK
<1>2. e \in EntryType /\ (e # NoEntry => e.owner \in Docs)
  BY Commits DEF TxType, TxOK, Course
<1>3. CASE e = NoEntry
  BY <1>1, <1>3 DEF Commit, Ids
<1>4. CASE e # NoEntry
  <2>1. e \in E /\ journal' = Append(journal, e) /\ Balanced(e)
    BY <1>2, <1>4 DEF EntryType, Commit
  <2>2. Len(journal') = Len(journal) + 1 /\ journal' \in Seq(E)
    BY <1>1, <2>1
  <2>3. Ids' = Ids \cup {Len(journal) + 1} /\ Len(journal) + 1 \notin Ids /\ Len(journal) + 1 # 0
    BY <1>1, <2>2 DEF Ids
  <2>4. \A f \in Ids : journal'[f] = journal[f]
    BY <1>1, <2>1 DEF Ids
  <2>5. journal'[Len(journal) + 1] = e
    BY <1>1, <2>1
  <2>6. journal' \in Seq([owner : Docs, detail : Int, control : Int, reverses : Ids' \cup {0}])
    <3>1. E \subseteq [owner : Docs, detail : Int, control : Int, reverses : Ids' \cup {0}]
      BY <2>3
    <3> HIDE DEF E
    <3> QED BY <2>2, <3>1, SeqMonotonic
  <2> HIDE DEF E
  <2> QED BY <1>4, <2>1, <2>3, <2>4, <2>5, <2>6
<1> QED BY <1>3, <1>4

\* The row it leaves, of the four ways it can hold it.
LEMMA RowLeft ==
    ASSUME IInv, NEW s \in Sessions, Commit(s)
    PROVE  LET t == tx[s] IN
           /\ NewRow(s) \in [status : {"draft", "posted", "deleted"}, total : Nat, entry : Ids' \cup {0}]
           /\ t.row = "none" => NewRow(s) = doc[t.doc]
           /\ t.row = "posted" => NewRow(s).status = "posted" /\ NewRow(s).entry = Len(journal) + 1
           /\ t.row = "draft" => NewRow(s).status = "draft"
           /\ t.row = "deleted" => NewRow(s).status = "deleted"
           /\ NewRow(s).status = "deleted" => t.row = "deleted" \/ doc[t.doc].status = "deleted"
<1> DEFINE R == [status : {"draft", "posted", "deleted"}, total : Nat, entry : Ids' \cup {0}]
           t == tx[s]
<1>1. t \in TxType /\ Holding(t) /\ t.doc \in Docs
  BY Commits DEF TxOK
<1>2. doc[t.doc] \in R
  <2>1. doc[t.doc] \in [status : {"draft", "posted", "deleted"}, total : Nat, entry : Ids \cup {0}]
    BY <1>1 DEF IInv, Shapes, TypeOK
  <2> QED BY <2>1, CommitsEntry
<1>3. CASE t.row = "none"
  BY <1>2, <1>3 DEF NewRow
<1>4. CASE t.row = "posted"
  <2>1. NewRow(s) = [doc[t.doc] EXCEPT !.status = "posted", !.entry = Len(journal) + 1]
    BY <1>4 DEF NewRow
  <2>2. Len(journal) + 1 \in Ids'
    BY <1>1, <1>4, CommitsEntry DEF Holding
  <2> QED BY <1>2, <1>4, <2>1, <2>2
<1>5. CASE t.row = "draft"
  <2>1. NewRow(s) = [status |-> "draft", total |-> t.total, entry |-> 0]
    BY <1>5 DEF NewRow
  <2> QED BY <1>1, <1>5, <2>1 DEF TxType
<1>6. CASE t.row = "deleted"
  <2>1. NewRow(s) = [status |-> "deleted", total |-> 0, entry |-> 0]
    BY <1>6 DEF NewRow
  <2> QED BY <1>6, <2>1
<1> QED BY <1>1, <1>3, <1>4, <1>5, <1>6 DEF TxType

LEMMA CommitShapes ==
    ASSUME IInv, NEW s \in Sessions, Commit(s)
    PROVE  Shapes'
<1>1. doc' \in [Docs -> [status : {"draft", "posted", "deleted"}, total : Nat, entry : Ids' \cup {0}]]
  <2>1. doc \in [Docs -> [status : {"draft", "posted", "deleted"}, total : Nat, entry : Ids' \cup {0}]]
    BY CommitsEntry DEF IInv, Shapes, TypeOK
  <2>2. /\ doc' = [doc EXCEPT ![tx[s].doc] = NewRow(s)]
        /\ NewRow(s) \in [status : {"draft", "posted", "deleted"}, total : Nat, entry : Ids' \cup {0}]
    BY Commits, RowLeft
  <2> QED BY <2>1, <2>2
<1>2. apps' \subseteq App /\ IsFiniteSet(apps')
  <2>1. apps' = (apps \ tx[s].minus) \cup tx[s].plus /\ tx[s].plus \subseteq App /\ IsFiniteSet(tx[s].plus)
    BY Commits DEF TxType, TxOK, Course
  <2>2. apps \subseteq App /\ IsFiniteSet(apps \ tx[s].minus)
    BY FS_Subset DEF IInv, Shapes, TypeOK
  <2> QED BY <2>1, <2>2, FS_Union
<1>3. tx' \in [Sessions -> TxType']
  <2>1. tx \in [Sessions -> TxType] /\ TxType \subseteq TxType'
    <3>1. EntryType \subseteq EntryType' /\ Ids \cup {0} \subseteq Ids' \cup {0}
      BY CommitsEntry DEF EntryType
    <3> QED BY <3>1 DEF IInv, Shapes, TxType
  <2>2. tx' = [tx EXCEPT ![s] = NoTx]
    BY DEF Commit
  <2> QED BY <2>1, <2>2, NoTxFine
<1>4. \A r \in Sessions : /\ tx'[r].plus \subseteq App /\ tx'[r].minus \subseteq App
                          /\ tx'[r].row \in {"none", "draft", "posted", "deleted"}
  BY <1>3 DEF TxType
<1>5. periodOpen' \in BOOLEAN
  BY Commits DEF IInv, Shapes, TypeOK
<1> QED BY <1>1, <1>2, <1>3, <1>4, <1>5, CommitsEntry DEF Shapes, TypeOK

\* The others keep what they know and hold: the row they lock is not this one,
\* and their applications do not refer to a row this one deletes.
LEMMA CommitOthers ==
    ASSUME IInv, NEW s \in Sessions, Commit(s), NEW r \in Sessions \ {s}
    PROVE  TxOK(tx[r])'
<1> DEFINE t == tx[s]
           u == tx[r]
<1>1. u \in TxType /\ TxOK(u) /\ Apart(t, u) /\ Apart(u, t) /\ tx'[r] = u
  BY TxParts, Commits
<1>2. Course(u)
  BY <1>1 DEF TxOK
<1>3. \A e : Original(u, e) => Original(u, e)'
  <2>1. \A e \in Ids : e \in Ids' /\ journal'[e] = journal[e]
    BY CommitsEntry
  <2> QED BY <1>1, <2>1 DEF Original
<1>4. u.at # "idle" => u.doc \in Docs
  BY <1>2 DEF Course
<1>5. ASSUME NEW d \in Docs, doc[d].status = "deleted" PROVE doc'[d].status = "deleted"
  BY <1>5, Commits, RowLeft DEF TxOK, Holding, TxType
<1>6. ASSUME NEW d \in Docs, doc[d].status # "deleted", doc'[d].status = "deleted"
      PROVE  d = t.doc /\ t.row = "deleted"
  BY <1>6, Commits, RowLeft
<1>7. u.entry.reverses # 0 => u.at # "idle"
  BY <1>2 DEF Course, NoTx, NoEntry
<1>8. Reversing(u)'
  BY <1>1, <1>3, <1>4, <1>5, <1>7 DEF TxOK, Reversing
<1>9. u.row # "none" => doc'[u.doc] = doc[u.doc]
  <2>1. ASSUME u.row # "none" PROVE u.doc \in Docs
    BY <1>2, <1>4, <2>1 DEF Course
  <2>2. t.row # "none" /\ u.row # "none" => u.doc # t.doc
    BY <1>1 DEF Apart
  <2> QED BY <2>1, <2>2, Commits, RowLeft
<1>10. Holding(u)'
  BY <1>1, <1>9 DEF TxOK, Holding
<1>11. Referring(u)'
  <2>1. ASSUME NEW a \in InsertedOf(u)
        PROVE  doc'[a.payment].status # "deleted" /\ doc'[a.invoice].status # "deleted"
    <3>1. a.payment \in Docs /\ a.invoice \in Docs
      BY <1>1 DEF InsertedOf, TxType, App, Docs
    <3>2. doc[a.payment].status # "deleted" /\ doc[a.invoice].status # "deleted"
      BY <1>1 DEF TxOK, Referring
    <3>3. t.row = "deleted" => a.payment # t.doc /\ a.invoice # t.doc
      BY <1>1 DEF Apart, Mentions
    <3> QED BY <1>6, <3>1, <3>2, <3>3
  <2>2. u.row = "deleted" => ~Mentions(apps' \ u.minus, u.doc)
    BY <1>1, Commits DEF TxOK, Referring, Apart, Mentions
  <2> QED BY <1>1, <2>1, <2>2 DEF Referring, InsertedOf, Mentions
<1> QED BY <1>1, <1>2, <1>8, <1>10, <1>11 DEF TxOK, Course

LEMMA CommitPosted ==
    ASSUME IInv, NEW s \in Sessions, Commit(s)
    PROVE  PostedEntryLive'
<1> DEFINE t == tx[s]
           n == Len(journal) + 1
<1>1. SUFFICES ASSUME NEW d \in Docs, doc'[d].status = "posted"
               PROVE  /\ doc'[d].entry # 0
                      /\ journal'[doc'[d].entry].owner = d /\ journal'[doc'[d].entry].reverses = 0
                      /\ \A f \in Ids' : journal'[f].reverses # doc'[d].entry
  BY DEF PostedEntryLive
<1>2. t \in TxType /\ Course(t) /\ Reversing(t) /\ Holding(t) /\ t.at = "commit" /\ t.doc \in Docs
  BY Commits DEF TxOK
<1>3. CASE d = t.doc /\ t.row = "posted"
  <2>1. doc'[d].entry = n /\ t.entry # NoEntry /\ t.entry.reverses = 0 /\ t.entry.owner = d
    BY <1>2, <1>3, Commits, RowLeft DEF Holding, Course
  <2>2. journal'[n] = t.entry /\ n # 0 /\ Ids' = Ids \cup {n} /\ n \notin Ids
    BY <2>1, CommitsEntry
  <2>3. \A f \in Ids : journal'[f].reverses # n
    <3>1. \A f \in Ids : journal[f].reverses \in Ids \cup {0}
      BY EntryKnown DEF IInv, EntryOf
    <3> QED BY <2>2, <3>1, CommitsEntry
  <2> QED BY <2>1, <2>2, <2>3
<1>4. CASE ~(d = t.doc /\ t.row = "posted")
  <2>1. doc'[d] = doc[d]
    BY <1>1, <1>2, <1>4, Commits, RowLeft DEF TxType
  <2>2. /\ doc[d].entry \in Ids /\ doc[d].entry # 0
        /\ journal[doc[d].entry].owner = d /\ journal[doc[d].entry].reverses = 0
        /\ \A f \in Ids : journal[f].reverses # doc[d].entry
    BY <1>1, <2>1 DEF IInv, Shapes, TypeOK, PostedEntryLive
  <2>3. t.entry.reverses # doc[d].entry
    <3>1. SUFFICES ASSUME t.entry.reverses = doc[d].entry PROVE FALSE
      OBVIOUS
    <3>2. t.doc = d /\ (t.row = "draft" \/ doc[d].status = "deleted")
      BY <1>2, <2>2, <3>1 DEF Reversing, Original
    <3> QED BY <1>1, <2>1, <3>2, Commits, RowLeft
  <2>4. \A f \in Ids' : journal'[f].reverses # doc[d].entry
    BY <2>2, <2>3, CommitsEntry
  <2> QED BY <2>1, <2>2, <2>4, CommitsEntry
<1> QED BY <1>3, <1>4

LEMMA CommitReferences ==
    ASSUME IInv, NEW s \in Sessions, Commit(s)
    PROVE  ReferencesKept'
<1> DEFINE t == tx[s]
<1>1. SUFFICES ASSUME NEW a \in apps'
               PROVE  doc'[a.payment].status # "deleted" /\ doc'[a.invoice].status # "deleted"
  BY DEF ReferencesKept
<1>2. t \in TxType /\ Course(t) /\ Referring(t) /\ InsertedOf(t) = t.plus
  BY Commits DEF TxOK
<1>3. a \in App /\ a.payment \in Docs /\ a.invoice \in Docs
  BY <1>1, <1>2, Commits DEF IInv, Shapes, TypeOK, TxType, App, Docs
<1>4. doc[a.payment].status # "deleted" /\ doc[a.invoice].status # "deleted"
  BY <1>1, <1>2, Commits DEF Referring, IInv, ReferencesKept
<1>5. t.row = "deleted" => a.payment # t.doc /\ a.invoice # t.doc
  <2>1. t.row = "deleted" => a \in apps \ t.minus
    BY <1>1, <1>2, Commits DEF Course
  <2> QED BY <1>2, <2>1 DEF Referring, Mentions
<1> QED BY <1>3, <1>4, <1>5, Commits, RowLeft

LEMMA CommitKeeps ==
    ASSUME IInv, NEW s \in Sessions, Commit(s)
    PROVE  IInv'
<1>1. \A r \in Sessions : tx'[r] = IF r = s THEN NoTx ELSE tx[r]
  BY Commits
<1>2. ASSUME NEW r \in Sessions PROVE TxOK(tx[r])'
  <2>1. TxOK(NoTx)'
    BY NoTxFine DEF TxOK, Course, Reversing, Holding, Referring, InsertedOf, NoTx, NoEntry
  <2>2. CASE r = s
    BY <1>1, <2>1, <2>2 DEF TxOK, Course, Reversing, Holding, Referring, InsertedOf, Original, Mentions
  <2>3. CASE r # s
    BY <2>3, CommitOthers
  <2> QED BY <2>2, <2>3
<1>3. ASSUME NEW r \in Sessions, NEW u \in Sessions \ {r} PROVE Apart(tx[r], tx[u])'
  <2>1. Apart(tx'[r], tx'[u])
    BY <1>1, TxParts, NoTxFine, NothingHeld
  <2> QED BY <2>1 DEF Apart, InsertedOf, Mentions
<1> QED BY <1>2, <1>3, CommitShapes, CommitPosted, CommitReferences DEF IInv

LEMMA PeriodKeeps ==
    ASSUME IInv, UpdateAccountingPeriod
    PROVE  IInv'
<1>1. /\ doc' = doc /\ apps' = apps /\ journal' = journal /\ tx' = tx /\ Ids' = Ids
      /\ periodOpen' \in BOOLEAN
  BY DEF UpdateAccountingPeriod, Ids, IInv, Shapes, TypeOK
<1>2. Shapes'
  BY <1>1 DEF IInv, Shapes, TypeOK, TxType, EntryType
<1>3. \A s \in Sessions : TxOK(tx[s])'
  BY <1>1 DEF IInv, TxOK, Course, Reversing, Holding, Referring, Original, InsertedOf, Mentions
<1>4. ASSUME NEW s \in Sessions, NEW r \in Sessions \ {s} PROVE Apart(tx[s], tx[r])'
  <2>1. Apart(tx[s], tx[r])
    BY DEF IInv
  <2>2. tx'[s] = tx[s] /\ tx'[r] = tx[r]
    BY <1>1
  <2> QED BY <2>1, <2>2 DEF Apart, InsertedOf, Mentions
<1> QED BY <1>1, <1>2, <1>3, <1>4 DEF IInv, PostedEntryLive, ReferencesKept

-----------------------------------------------------------------------------
(* The invariant holds of every step, and what follows from it. *)

LEMMA InitIInv == Init => IInv
<1> SUFFICES ASSUME Init PROVE IInv
  OBVIOUS
<1>1. \A s \in Sessions : tx[s] = NoTx
  BY DEF Init
<1>2. doc \in [Docs -> [status : {"draft"}, total : Nat, entry : {0}]]
  BY ConcurrentAssumption DEF Init, Docs
<1>3. journal \in Seq([owner : Docs, detail : Int, control : Int, reverses : Ids \cup {0}]) /\ Ids = {}
  BY DEF Init, Ids
<1>4. TypeOK
  BY <1>1, <1>2, <1>3 DEF Init, TypeOK, NoTx
<1>5. Shapes
  BY <1>4, NoTxFine, FS_EmptySet DEF Init, Shapes
<1>6. \A s \in Sessions : TxOK(tx[s])
  BY <1>1, NoTxFine DEF TxOK, Holding, Referring
<1>7. \A s, r \in Sessions : Apart(tx[s], tx[r])
  BY <1>1, NoTxFine, NothingHeld
<1>8. PostedEntryLive /\ ReferencesKept
  BY <1>2, <1>3 DEF Init, PostedEntryLive, ReferencesKept
<1> QED BY <1>5, <1>6, <1>7, <1>8 DEF IInv

LEMMA NextIInv == IInv /\ [Next]_vars => IInv'
<1> SUFFICES ASSUME IInv, [Next]_vars PROVE IInv'
  OBVIOUS
<1>1. ASSUME NEW s \in Sessions, PostStep(s) PROVE IInv'
  <2>1. ASSUME NEW d \in Docs, ReadDraft(s, d) PROVE IInv'
    BY <2>1, BeginKeeps DEF ReadDraft
  <2> QED BY <1>1, <2>1, InsertEntryKeeps, InsertDetailKeeps, InsertControlKeeps, SetPostedKeeps DEF PostStep
<1>2. ASSUME NEW s \in Sessions, DraftStep(s) PROVE IInv'
  BY <1>2, EditDraftKeeps, DeleteDraftKeeps DEF DraftStep
<1>3. ASSUME NEW s \in Sessions, UnpostStep(s) PROVE IInv'
  BY <1>3, ReadPostedKeeps, HasNoApplicationsKeeps, InsertReversalKeeps, RemoveApplicationsKeeps, SetDraftKeeps
  DEF UnpostStep
<1>4. ASSUME NEW s \in Sessions, ApplyStep(s) PROVE IInv'
  <2>1. ASSUME NEW p \in Payments, ReadSettler(s, p) PROVE IInv'
    BY <2>1, BeginKeeps DEF ReadSettler, Docs
  <2> QED BY <1>4, <2>1, AllocateKeeps, InsertApplicationsKeeps DEF ApplyStep
<1>5. CASE UNCHANGED vars
  <2>1. doc' = doc /\ apps' = apps /\ journal' = journal /\ periodOpen' = periodOpen /\ tx' = tx /\ Ids' = Ids
    BY <1>5 DEF vars, Ids
  <2>2. Shapes'
    BY <2>1 DEF IInv, Shapes, TypeOK, TxType, EntryType
  <2>3. \A s \in Sessions : TxOK(tx[s])'
    BY <2>1 DEF IInv, TxOK, Course, Reversing, Holding, Referring, Original, InsertedOf, Mentions
  <2>4. \A s \in Sessions : \A r \in Sessions \ {s} : Apart(tx[s], tx[r])'
    BY <2>1 DEF IInv, Apart, InsertedOf, Mentions
  <2> QED BY <2>1, <2>2, <2>3, <2>4 DEF IInv, PostedEntryLive, ReferencesKept
<1> QED BY <1>1, <1>2, <1>3, <1>4, <1>5, CheckAppliedKeeps, CommitKeeps, AbortKeeps, PeriodKeeps DEF Next

\* The inductive invariant: what each transaction has read still holds of the
\* rows it has locked, the entry it builds is the one it will commit, and no two
\* transactions have a claim on the same row.
THEOREM Invariance == Spec => []IInv
BY InitIInv, NextIInv, PTL DEF Spec

\* However the statements of overlapping requests interleave, the rows of
\* sales_invoices, customer_payments, payment_applications and the journal, and
\* what each transaction is about to write, keep their types and row checks.
THEOREM TypeCorrect == Spec => []TypeOK
<1>1. IInv => TypeOK
  BY DEF IInv, Shapes
<1> QED BY <1>1, Invariance, PTL

\* A posted document's entry is an original of its own that no reversal cancels,
\* though neither SetPosted nor SetDraft asks for the status it overwrites.
THEOREM EntryOfPosted == Spec => []PostedEntryLive
<1>1. IInv => PostedEntryLive
  BY DEF IInv
<1> QED BY <1>1, Invariance, PTL

\* An application never outlives its payment or invoice, in whatever order an
\* allocation, the unposting of what it reads and the deletion of the draft
\* interleave: an insertion and a deletion of what it refers to wait for each
\* other.
THEOREM ReferencesSafe == Spec => []ReferencesKept
<1>1. IInv => ReferencesKept
  BY DEF IInv
<1> QED BY <1>1, Invariance, PTL

\* An edit or deletion that found a draft holds its row until it commits, so it
\* never lands on a document another transaction has posted meanwhile.
THEOREM FrozenOncePosted == Spec => PostedFrozen
<1> DEFINE Frozen == \A d \in Docs : doc[d].status = "posted" =>
                        doc'[d].status # "deleted" /\ doc'[d].total = doc[d].total
<1>1. IInv /\ [Next]_vars => [Frozen]_vars
  <2> SUFFICES ASSUME IInv, [Next]_vars, NEW d \in Docs, doc[d].status = "posted"
               PROVE  doc'[d].status # "deleted" /\ doc'[d].total = doc[d].total
    OBVIOUS
  <2>1. CASE doc' = doc
    BY <2>1
  <2>2. ASSUME NEW s \in Sessions, Commit(s)
        PROVE  doc'[d].status # "deleted" /\ doc'[d].total = doc[d].total
    <3>1. CASE d # tx[s].doc
      BY <2>2, <3>1, Commits
    <3>2. CASE d = tx[s].doc
      <4>1. tx[s] \in TxType /\ Holding(tx[s]) /\ doc'[d] = NewRow(s)
        BY <2>2, <3>2, Commits DEF TxOK
      <4>2. doc[d] \in [status : {"draft", "posted", "deleted"}, total : Nat, entry : Ids \cup {0}]
        BY DEF IInv, Shapes, TypeOK
      <4>3. tx[s].row \in {"none", "posted", "draft"} /\ (tx[s].row = "draft" => tx[s].total = doc[d].total)
        BY <3>2, <4>1 DEF Holding, TxType
      <4> QED BY <3>2, <4>1, <4>2, <4>3 DEF NewRow
    <3> QED BY <3>1, <3>2
  <2> QED BY <2>1, <2>2 DEF vars, Next, PostStep, DraftStep, UnpostStep, ApplyStep,
        ReadDraft, InsertEntry, InsertDetail, InsertControl, SetPosted, EditDraft, DeleteDraft,
        ReadPosted, HasNoApplications, InsertReversal, RemoveApplications, SetDraft,
        ReadSettler, Allocate, InsertApplications, CheckApplied, Abort, UpdateAccountingPeriod,
        Begin, Step, Committed
<1> QED BY <1>1, Invariance, PTL DEF Spec, PostedFrozen
-----------------------------------------------------------------------------
(* Requests one at a time: what the documentation says of any two requests *)
(* is true of requests that do not overlap.                                *)

Resting == \A s \in Sessions : tx[s].at = "idle"
OneAtATime == \A s, r \in Sessions : tx[s].at # "idle" /\ tx[r].at # "idle" => s = r

\* No statement falls into another's transaction, nor does a change of the period.
Serial == OneAtATime' /\ (periodOpen' # periodOpen => Resting)

Within(A, B, d) == Settled((apps \ A) \cup B, d) <= doc[d].total

\* What the one transaction that is running has read, or checked, is still so.
Known(t) ==
    LET d == t.doc IN
    /\ t.at \in {"entry", "detail", "control", "posted"} \/ t.row = "posted" => doc[d].status = "draft"
    /\ t.at = "posted" \/ t.row = "posted" => t.entry.control = doc[d].total
    /\ t.at \in {"has_applications", "reverse"} => doc[d].status = "posted" /\ t.old = doc[d].entry
    /\ t.entry.reverses # 0 =>
          /\ doc[d].status = "posted" /\ t.entry.reverses = doc[d].entry
          /\ t.entry.detail = -journal[doc[d].entry].detail
          /\ t.entry.control = -journal[doc[d].entry].control
    /\ t.at = "remove" => d \in Payments
    /\ t.at = "reverse" /\ d \in Invoices => AppsOf(d) = {}
    /\ t.entry.reverses # 0 /\ t.at # "remove" => AppsOf(d) \subseteq t.minus
    /\ t.at \in {"check", "commit"} /\ t.row = "none" => t.entry = NoEntry
    /\ \A a \in t.plus : doc[a.payment].status = "posted" /\ doc[a.invoice].status = "posted"
    /\ t.at = "commit" => \A a \in t.plus : \A x \in {a.payment, a.invoice} : Within(t.minus, t.plus, x)
    /\ t.entry # NoEntry => periodOpen

\* A document that is not posted records no entry.
UnpostedBare == \A d \in Docs : doc[d].status # "posted" => doc[d].entry = 0

\* What the documentation says of the committed rows.
Documented ==
    /\ UnpostedBare /\ ReversedOnce /\ EntriesRecorded /\ ControlIsTotal
    /\ ApplicationsBetweenPosted /\ NeverOverApplied

SerialInv == IInv /\ OneAtATime /\ (\A s \in Sessions : Known(tx[s])) /\ Documented

-----------------------------------------------------------------------------
(* A statement of a transaction that knows, and goes on knowing.           *)

LEMMA KnownNoTx == Known(NoTx)
BY DEF Known, NoTx, NoEntry

LEMMA StepKnows ==
    ASSUME SerialInv, IInv', OneAtATime', NEW s \in Sessions, NEW t, Step(s, t), Known(t)
    PROVE  SerialInv'
<1>1. /\ doc' = doc /\ apps' = apps /\ journal' = journal /\ periodOpen' = periodOpen
      /\ tx' = [tx EXCEPT ![s] = t] /\ Ids' = Ids
  BY DEF Step, Committed, Ids
<1>2. \A r \in Sessions : tx'[r] = IF r = s THEN t ELSE tx[r]
  BY <1>1 DEF SerialInv, IInv, Shapes
<1>3. \A r \in Sessions : Known(tx'[r])
  BY <1>2 DEF SerialInv
<1>4. ASSUME NEW r \in Sessions PROVE Known(tx[r])'
  <2>1. ASSUME NEW d PROVE AppsOf(d)' = AppsOf(d)
    BY <1>1 DEF AppsOf
  <2>2. ASSUME NEW A, NEW B, NEW x PROVE Within(A, B, x)' <=> Within(A, B, x)
    BY <1>1 DEF Within, Settled
  <2>3. Known(tx'[r])
    BY <1>3
  <2> QED BY <1>1, <2>1, <2>2, <2>3 DEF Known
<1>5. Documented'
  BY <1>1 DEF SerialInv, Documented, UnpostedBare, ReversedOnce, EntriesRecorded, ControlIsTotal,
     ApplicationsBetweenPosted, NeverOverApplied, Settled
<1> QED BY <1>4, <1>5 DEF SerialInv

\* What the invariant says of one transaction.
LEMMA KnownParts ==
    ASSUME SerialInv, NEW s \in Sessions
    PROVE  tx[s] \in TxType /\ TxOK(tx[s]) /\ Course(tx[s]) /\ Known(tx[s])
BY TxParts DEF SerialInv, TxOK

LEMMA PostKnows ==
    ASSUME SerialInv, IInv', OneAtATime', NEW s \in Sessions, PostStep(s)
    PROVE  SerialInv'
<1>1. tx[s] \in TxType /\ Course(tx[s]) /\ Known(tx[s]) /\ TxOK(tx[s])
  BY KnownParts
<1>2. ASSUME NEW d \in Docs, ReadDraft(s, d) PROVE SerialInv'
  <2> DEFINE t == [NoTx EXCEPT !.doc = d, !.at = "entry"]
  <2>1. Known(t)
    BY <1>2, FS_EmptySet DEF ReadDraft, Known, NoTx, NoEntry
  <2>2. Step(s, t)
    BY <1>2 DEF ReadDraft, Begin
  <2> HIDE DEF t
  <2> QED BY <2>1, <2>2, StepKnows
<1>3. CASE InsertEntry(s)
  <2> DEFINE t == [tx[s] EXCEPT !.at = "detail", !.entry.owner = tx[s].doc]
  <2>1. /\ tx[s].at = "entry" /\ periodOpen /\ Step(s, t) /\ tx[s].entry = NoEntry
        /\ tx[s].row = "none" /\ tx[s].plus = {}
    BY <1>1, <1>3 DEF InsertEntry, At, Course, TxType
  <2>2. /\ t.at = "detail" /\ t.doc = tx[s].doc /\ t.row = "none" /\ t.plus = {} /\ t.entry.reverses = 0
    BY <1>1, <2>1 DEF TxType, EntryType, NoEntry
  <2>3. Known(t)
    <3> HIDE DEF t
    <3> QED BY <1>1, <2>1, <2>2 DEF Known
  <2> HIDE DEF t
  <2> QED BY <2>1, <2>3, StepKnows
<1>4. CASE InsertDetail(s)
  <2> DEFINE t == [tx[s] EXCEPT !.at = "control", !.entry.detail = doc[tx[s].doc].total]
  <2>1. /\ tx[s].at = "detail" /\ Step(s, t) /\ tx[s].entry # NoEntry /\ tx[s].entry.reverses = 0
        /\ tx[s].row = "none" /\ tx[s].plus = {}
    BY <1>1, <1>4 DEF InsertDetail, At, Course, TxType
  <2>2. /\ t.at = "control" /\ t.doc = tx[s].doc /\ t.row = "none" /\ t.plus = {} /\ t.entry.reverses = 0
    BY <1>1, <2>1 DEF TxType, EntryType
  <2>3. Known(t)
    <3> HIDE DEF t
    <3> QED BY <1>1, <2>1, <2>2 DEF Known
  <2> HIDE DEF t
  <2> QED BY <2>1, <2>3, StepKnows
<1>5. CASE InsertControl(s)
  <2> DEFINE t == [tx[s] EXCEPT !.at = "posted", !.entry.control = doc[tx[s].doc].total]
  <2>1. /\ tx[s].at = "control" /\ Step(s, t) /\ tx[s].entry # NoEntry /\ tx[s].entry.reverses = 0
        /\ tx[s].row = "none" /\ tx[s].plus = {}
    BY <1>1, <1>5 DEF InsertControl, At, Course, TxType
  <2>2. /\ t.at = "posted" /\ t.doc = tx[s].doc /\ t.row = "none" /\ t.plus = {} /\ t.entry.reverses = 0
        /\ t.entry.control = doc[tx[s].doc].total
    BY <1>1, <2>1 DEF TxType, EntryType
  <2>3. Known(t)
    <3> HIDE DEF t
    <3> QED BY <1>1, <2>1, <2>2 DEF Known
  <2> HIDE DEF t
  <2> QED BY <2>1, <2>3, StepKnows
<1>6. CASE SetPosted(s)
  <2> DEFINE row == IF doc[tx[s].doc].status = "deleted" THEN "none" ELSE "posted"
             t   == [tx[s] EXCEPT !.at = "commit", !.row = row]
  <2>1. /\ tx[s].at = "posted" /\ Step(s, t) /\ tx[s].entry # NoEntry /\ tx[s].entry.reverses = 0
        /\ tx[s].row = "none" /\ tx[s].plus = {}
    BY <1>1, <1>6 DEF SetPosted, At, Course, TxType
  <2>2. doc[tx[s].doc].status = "draft" /\ tx[s].entry.control = doc[tx[s].doc].total /\ periodOpen
    BY <1>1, <2>1 DEF Known
  <2>3. /\ t.at = "commit" /\ t.doc = tx[s].doc /\ t.row = "posted" /\ t.plus = {} /\ t.entry = tx[s].entry
    BY <1>1, <2>1, <2>2 DEF TxType
  <2>4. Known(t)
    <3> HIDE DEF t
    <3> QED BY <2>1, <2>2, <2>3 DEF Known
  <2> HIDE DEF t
  <2> QED BY <2>1, <2>4, StepKnows
<1> QED BY <1>2, <1>3, <1>4, <1>5, <1>6 DEF PostStep

LEMMA DraftKnows ==
    ASSUME SerialInv, IInv', OneAtATime', NEW s \in Sessions, DraftStep(s)
    PROVE  SerialInv'
<1>1. ASSUME NEW d \in Docs, EditDraft(s, d) PROVE SerialInv'
  <2>1. PICK n \in Totals[d] :
           Step(s, [NoTx EXCEPT !.doc = d, !.at = "commit", !.row = "draft", !.total = n])
    BY <1>1 DEF EditDraft
  <2> DEFINE t == [NoTx EXCEPT !.doc = d, !.at = "commit", !.row = "draft", !.total = n]
  <2>2. Known(t)
    BY DEF Known, NoTx, NoEntry
  <2>3. Step(s, t)
    BY <2>1
  <2> HIDE DEF t
  <2> QED BY <2>2, <2>3, StepKnows
<1>2. ASSUME NEW d \in Docs, DeleteDraft(s, d) PROVE SerialInv'
  <2> DEFINE t == [NoTx EXCEPT !.doc = d, !.at = "check", !.row = "deleted", !.minus = AppsOf(d)]
  <2>1. Known(t)
    BY DEF Known, NoTx, NoEntry
  <2>2. Step(s, t)
    BY <1>2 DEF DeleteDraft
  <2> HIDE DEF t
  <2> QED BY <2>1, <2>2, StepKnows
<1> QED BY <1>1, <1>2 DEF DraftStep

LEMMA UnpostKnows ==
    ASSUME SerialInv, IInv', OneAtATime', NEW s \in Sessions, UnpostStep(s)
    PROVE  SerialInv'
<1>1. tx[s] \in TxType /\ Course(tx[s]) /\ Known(tx[s]) /\ TxOK(tx[s])
  BY KnownParts
<1>2. ASSUME NEW d \in Docs, ReadPosted(s, d) PROVE SerialInv'
  <2> DEFINE step == IF d \in Invoices THEN "has_applications" ELSE "reverse"
             t    == [NoTx EXCEPT !.doc = d, !.old = doc[d].entry, !.at = step]
  <2>1. doc[d].status = "posted" /\ Step(s, t)
    BY <1>2 DEF ReadPosted
  <2>2. /\ t.at = step /\ t.doc = d /\ t.row = "none" /\ t.plus = {} /\ t.entry = NoEntry
        /\ t.entry.reverses = 0 /\ t.old = doc[d].entry
    BY DEF NoTx, NoEntry
  <2>3. Known(t)
    <3> HIDE DEF t
    <3> QED BY <2>1, <2>2 DEF Known
  <2> HIDE DEF t
  <2> QED BY <2>1, <2>3, StepKnows
<1>3. CASE HasNoApplications(s)
  <2> DEFINE t == [tx[s] EXCEPT !.at = "reverse"]
  <2>1. /\ tx[s].at = "has_applications" /\ Step(s, t) /\ AppsOf(tx[s].doc) = {} /\ tx[s].entry = NoEntry
        /\ tx[s].row = "none" /\ tx[s].plus = {}
    BY <1>1, <1>3 DEF HasNoApplications, At, Course, TxType
  <2>2. /\ t.at = "reverse" /\ t.doc = tx[s].doc /\ t.old = tx[s].old /\ t.row = "none"
        /\ t.plus = {} /\ t.entry = NoEntry /\ t.entry.reverses = 0
    BY <1>1, <2>1 DEF TxType, NoEntry
  <2>3. Known(t)
    <3> HIDE DEF t
    <3> QED BY <1>1, <2>1, <2>2 DEF Known
  <2> HIDE DEF t
  <2> QED BY <2>1, <2>3, StepKnows
<1>4. CASE InsertReversal(s)
  <2> DEFINE e    == tx[s].old
             back == [owner |-> journal[e].owner, detail |-> -journal[e].detail,
                      control |-> -journal[e].control, reverses |-> e]
             step == IF tx[s].doc \in Invoices THEN "draft" ELSE "remove"
             t    == [tx[s] EXCEPT !.entry = back, !.at = step]
  <2>1. /\ tx[s].at = "reverse" /\ Step(s, t) /\ periodOpen /\ tx[s].row = "none" /\ tx[s].plus = {}
        /\ tx[s].doc \in Docs
    BY <1>1, <1>4 DEF InsertReversal, At, Course, TxType
  <2>2. /\ t.at = step /\ t.doc = tx[s].doc /\ t.row = "none" /\ t.plus = {}
        /\ t.entry = back /\ t.entry.reverses = e /\ t.minus = tx[s].minus
        /\ t.entry.detail = -journal[e].detail /\ t.entry.control = -journal[e].control
    BY <1>1, <2>1 DEF TxType
  <2>3. /\ doc[tx[s].doc].status = "posted" /\ e = doc[tx[s].doc].entry
        /\ (tx[s].doc \in Invoices => AppsOf(tx[s].doc) = {})
    BY <1>1, <2>1 DEF Known
  <2>4. tx[s].doc \notin Invoices => tx[s].doc \in Payments
    BY <2>1 DEF Docs
  <2>5. Known(t)
    <3> HIDE DEF t, back
    <3> QED BY <2>1, <2>2, <2>3, <2>4 DEF Known
  <2> HIDE DEF t
  <2> QED BY <2>1, <2>5, StepKnows
<1>5. CASE RemoveApplications(s)
  <2> DEFINE t == [tx[s] EXCEPT !.at = "draft", !.minus = AppsOf(tx[s].doc)]
  <2>1. /\ tx[s].at = "remove" /\ Step(s, t) /\ tx[s].row = "none" /\ tx[s].plus = {}
        /\ tx[s].entry # NoEntry /\ tx[s].entry.reverses # 0
    BY <1>1, <1>5 DEF RemoveApplications, At, Course, TxType
  <2>2. /\ t.at = "draft" /\ t.doc = tx[s].doc /\ t.row = "none" /\ t.plus = {}
        /\ t.entry = tx[s].entry /\ t.minus = AppsOf(tx[s].doc)
    BY <1>1, <2>1 DEF TxType
  <2>3. Known(t)
    <3> HIDE DEF t
    <3> QED BY <1>1, <2>1, <2>2 DEF Known
  <2> HIDE DEF t
  <2> QED BY <2>1, <2>3, StepKnows
<1>6. CASE SetDraft(s)
  <2> DEFINE d   == tx[s].doc
             row == IF doc[d].status = "deleted" THEN "none" ELSE "draft"
             t   == [tx[s] EXCEPT !.at = "check", !.row = row, !.total = doc[d].total]
  <2>1. /\ tx[s].at = "draft" /\ Step(s, t) /\ tx[s].row = "none" /\ tx[s].plus = {}
        /\ tx[s].entry # NoEntry /\ tx[s].entry.reverses # 0
    BY <1>1, <1>6 DEF SetDraft, At, Course, TxType
  <2>2. doc[d].status = "posted" /\ row = "draft"
    BY <1>1, <2>1 DEF Known
  <2>3. /\ t.at = "check" /\ t.doc = d /\ t.row = "draft" /\ t.plus = {}
        /\ t.entry = tx[s].entry /\ t.minus = tx[s].minus
    BY <1>1, <2>1, <2>2 DEF TxType
  <2>4. Known(t)
    <3> HIDE DEF t
    <3> QED BY <1>1, <2>1, <2>2, <2>3 DEF Known
  <2> HIDE DEF t
  <2> QED BY <2>1, <2>4, StepKnows
<1> QED BY <1>2, <1>3, <1>4, <1>5, <1>6 DEF UnpostStep

LEMMA ApplyKnows ==
    ASSUME SerialInv, IInv', OneAtATime', NEW s \in Sessions, ApplyStep(s)
    PROVE  SerialInv'
<1>1. tx[s] \in TxType /\ Course(tx[s]) /\ Known(tx[s])
  BY KnownParts
<1>2. ASSUME NEW p \in Payments, ReadSettler(s, p) PROVE SerialInv'
  <2> DEFINE t == [NoTx EXCEPT !.doc = p, !.at = "allocate"]
  <2>1. Known(t)
    BY DEF Known, NoTx, NoEntry
  <2>2. Step(s, t)
    BY <1>2 DEF ReadSettler, Begin
  <2> HIDE DEF t
  <2> QED BY <2>1, <2>2, StepKnows
<1>3. CASE Allocate(s)
  <2> DEFINE p == tx[s].doc
             t == [tx[s] EXCEPT !.at = "insert", !.plus = NewApps(p)]
  <2>1. /\ tx[s].at = "allocate" /\ Step(s, t) /\ doc[p].status = "posted" /\ tx[s].entry = NoEntry
        /\ tx[s].row = "none"
    BY <1>1, <1>3 DEF Allocate, At, Course, TxType
  <2>2. t.at = "insert" /\ t.row = "none" /\ t.plus = NewApps(p) /\ t.entry = NoEntry /\ t.entry.reverses = 0
    BY <1>1, <2>1 DEF TxType, NoEntry
  <2>3. \A a \in NewApps(p) : doc[a.payment].status = "posted" /\ doc[a.invoice].status = "posted"
    BY <2>1 DEF NewApps, OpenInvoices
  <2>4. Known(t)
    <3> HIDE DEF t
    <3> QED BY <2>2, <2>3 DEF Known
  <2> HIDE DEF t
  <2> QED BY <2>1, <2>4, StepKnows
<1>4. CASE InsertApplications(s)
  <2> DEFINE t == [tx[s] EXCEPT !.at = "check"]
  <2>1. tx[s].at = "insert" /\ Step(s, t) /\ tx[s].entry = NoEntry /\ tx[s].row = "none"
    BY <1>1, <1>4 DEF InsertApplications, At, Course, TxType
  <2>2. t.at = "check" /\ t.row = "none" /\ t.plus = tx[s].plus /\ t.entry = NoEntry /\ t.entry.reverses = 0
    BY <1>1, <2>1 DEF TxType, NoEntry
  <2>3. Known(t)
    <3> HIDE DEF t
    <3> QED BY <1>1, <2>2 DEF Known
  <2> HIDE DEF t
  <2> QED BY <2>1, <2>3, StepKnows
<1> QED BY <1>2, <1>3, <1>4 DEF ApplyStep

\* The trigger has seen the sums the commit will leave.
LEMMA CheckKnows ==
    ASSUME SerialInv, IInv', OneAtATime', NEW s \in Sessions, CheckApplied(s)
    PROVE  SerialInv'
<1> DEFINE t == [tx[s] EXCEPT !.at = "commit"]
<1>1. tx[s] \in TxType /\ Course(tx[s]) /\ Known(tx[s]) /\ tx[s].at = "check" /\ Step(s, t)
  BY KnownParts DEF CheckApplied, At
<1>2. /\ t.at = "commit" /\ t.doc = tx[s].doc /\ t.row = tx[s].row /\ t.plus = tx[s].plus
      /\ t.minus = tx[s].minus /\ t.entry = tx[s].entry
  BY <1>1 DEF TxType
<1>3. ASSUME NEW a \in t.plus PROVE \A x \in {a.payment, a.invoice} : Within(t.minus, t.plus, x)
  <2>1. a \in tx[s].plus /\ tx[s].row = "none"
    BY <1>1, <1>2, <1>3 DEF Course
  <2>2. /\ Within(tx[s].minus, tx[s].plus, a.invoice)
        /\ Within(tx[s].minus, tx[s].plus, a.payment)
    BY <2>1 DEF CheckApplied, Within
  <2> QED BY <1>2, <2>2
<1>4. Known(t)
  <2> HIDE DEF t
  <2> QED BY <1>1, <1>2, <1>3 DEF Known
<1> HIDE DEF t
<1> QED BY <1>1, <1>4, StepKnows

LEMMA AbortKnows ==
    ASSUME SerialInv, IInv', OneAtATime', NEW s \in Sessions, Abort(s)
    PROVE  SerialInv'
BY KnownNoTx, StepKnows DEF Abort

\* Nobody knows anything while the period changes.
LEMMA PeriodKnows ==
    ASSUME SerialInv, IInv', OneAtATime', UpdateAccountingPeriod, Resting
    PROVE  SerialInv'
<1>1. doc' = doc /\ apps' = apps /\ journal' = journal /\ tx' = tx /\ Ids' = Ids
  BY DEF UpdateAccountingPeriod, Ids
<1>2. \A s \in Sessions : tx'[s] = NoTx
  BY <1>1, KnownParts DEF Resting, Course
<1>3. \A s \in Sessions : Known(tx[s])'
  BY <1>2 DEF Known, NoTx, NoEntry
<1>4. Documented'
  BY <1>1 DEF SerialInv, Documented, UnpostedBare, ReversedOnce, EntriesRecorded, ControlIsTotal,
     ApplicationsBetweenPosted, NeverOverApplied, Settled
<1> QED BY <1>3, <1>4 DEF SerialInv

-----------------------------------------------------------------------------
(* The sums of what is applied, as applications come and go.               *)

LEMMA SettledNat ==
    ASSUME NEW A \in SUBSET App, IsFiniteSet(A), NEW d
    PROVE  Settled(A, d) \in Nat /\ (~Mentions(A, d) => Settled(A, d) = 0)
<1> DEFINE S == {a \in A : d \in {a.payment, a.invoice}}
           F == [a \in S |-> a.amount]
<1>1. IsFiniteSet(S) /\ \A a \in S : F[a] \in Nat
  BY FS_Subset DEF App
<1>2. Settled(A, d) = SumOver(F, S)
  BY <1>1, SumAppliedIs DEF Settled
<1>3. ~Mentions(A, d) => S = {}
  BY DEF Mentions
<1> HIDE DEF S, F
<1> QED BY <1>1, <1>2, <1>3, SumNat, SumEmpty

\* A document is settled by no more when it loses applications and gains none.
LEMMA SettledLess ==
    ASSUME NEW A \in SUBSET App, IsFiniteSet(A), NEW B, NEW d,
           \A a \in B : d \in {a.payment, a.invoice} => a \in A
    PROVE  Settled(B, d) <= Settled(A, d)
<1> DEFINE S == {a \in A : d \in {a.payment, a.invoice}}
           R == {a \in B : d \in {a.payment, a.invoice}}
           F == [a \in S |-> a.amount]
           G == [a \in R |-> a.amount]
<1>1. R \subseteq S /\ S \subseteq App /\ IsFiniteSet(S) /\ IsFiniteSet(R)
  BY FS_Subset
<1>2. Settled(A, d) = SumOver(F, S) /\ Settled(B, d) = SumOver(G, R)
  BY <1>1, SumAppliedIs DEF Settled
<1>3. (\A a \in S : F[a] \in Nat) /\ \A a \in R : G[a] = F[a] /\ G[a] \in Int
  BY <1>1 DEF App
<1> HIDE DEF S, R, F, G
<1>4. SumOver(G, R) = SumOver(F, R)
  BY <1>1, <1>3, SumSame
<1>5. SumOver(F, R) <= SumOver(F, S)
  BY <1>1, <1>3, SumPart
<1> QED BY <1>2, <1>4, <1>5

-----------------------------------------------------------------------------
(* A commit of a transaction that ran alone leaves the books as documented. *)

\* The five ways it ends: what it knows, and the row it leaves.
Applied(t, d) == t.row = "none" /\ t.entry = NoEntry /\ doc'[d] = doc[d]
Posted(t, d) ==
    /\ t.entry # NoEntry /\ t.entry.reverses = 0 /\ t.entry.control = doc[d].total
    /\ doc[d].status = "draft" /\ doc'[d].status = "posted"
    /\ doc'[d].total = doc[d].total /\ doc'[d].entry = Len(journal) + 1
Rewritten(t, d) ==
    /\ t.entry = NoEntry /\ doc[d].status = "draft" /\ doc'[d].status \in {"draft", "deleted"}
    /\ doc'[d].entry = 0
Unposted(t, d) ==
    /\ t.entry # NoEntry /\ t.entry.reverses = doc[d].entry /\ t.entry.reverses # 0
    /\ doc[d].status = "posted" /\ doc'[d].status = "draft"
    /\ doc'[d].total = doc[d].total /\ doc'[d].entry = 0 /\ AppsOf(d) \subseteq t.minus

LEMMA CommitOutcome ==
    ASSUME SerialInv, NEW s \in Sessions, Commit(s)
    PROVE  LET t == tx[s] IN
           /\ t.doc \in Docs
           /\ \A d \in Docs \ {t.doc} : doc'[d] = doc[d]
           /\ Applied(t, t.doc) \/ Posted(t, t.doc) \/ Rewritten(t, t.doc) \/ Unposted(t, t.doc)
           /\ t.plus # {} => Applied(t, t.doc)
<1> DEFINE t == tx[s]
           d == t.doc
<1>1. /\ t \in TxType /\ Course(t) /\ Holding(t) /\ Known(t) /\ t.at = "commit" /\ d \in Docs
      /\ doc'[d] = NewRow(s) /\ \A x \in Docs \ {d} : doc'[x] = doc[x]
  BY Commits, KnownParts DEF SerialInv, TxOK
<1>2. doc[d] \in [status : {"draft", "posted", "deleted"}, total : Nat, entry : Ids \cup {0}]
  BY <1>1 DEF SerialInv, IInv, Shapes, TypeOK
<1>3. t.row = "none" => Applied(t, d)
  BY <1>1 DEF Applied, NewRow, Known
<1>4. CASE t.row = "posted"
  <2>1. NewRow(s) = [doc[d] EXCEPT !.status = "posted", !.entry = Len(journal) + 1]
    BY <1>4 DEF NewRow
  <2>2. t.entry # NoEntry /\ t.entry.reverses = 0 /\ t.entry.control = doc[d].total /\ doc[d].status = "draft"
    BY <1>1, <1>4 DEF Holding, Known
  <2>3. Posted(t, d)
    BY <1>1, <1>2, <2>1, <2>2 DEF Posted
  <2> QED BY <1>1, <1>4, <2>3 DEF Course
<1>5. CASE t.row = "draft"
  <2>1. NewRow(s) = [status |-> "draft", total |-> t.total, entry |-> 0]
    BY <1>5 DEF NewRow
  <2>2. CASE t.entry.reverses = 0
    <3>1. t.entry = NoEntry /\ doc[d].status = "draft"
      BY <1>1, <1>5, <2>2 DEF Holding
    <3> QED BY <1>1, <1>5, <2>1, <3>1 DEF Rewritten, Course
  <2>3. CASE t.entry.reverses # 0
    <3>1. t.total = doc[d].total /\ t.entry # NoEntry
      BY <1>1, <1>5, <2>3 DEF Holding, NoEntry
    <3>2. doc[d].status = "posted" /\ t.entry.reverses = doc[d].entry /\ AppsOf(d) \subseteq t.minus
      BY <1>1, <2>3 DEF Known
    <3> QED BY <1>1, <1>5, <2>1, <2>3, <3>1, <3>2 DEF Unposted, Course
  <2> QED BY <2>2, <2>3
<1>6. CASE t.row = "deleted"
  <2>1. NewRow(s) = [status |-> "deleted", total |-> 0, entry |-> 0]
    BY <1>6 DEF NewRow
  <2>2. t.entry = NoEntry /\ doc[d].status = "draft"
    BY <1>1, <1>6 DEF Holding
  <2> QED BY <1>1, <1>6, <2>1, <2>2 DEF Rewritten, Course
<1> QED BY <1>1, <1>3, <1>4, <1>5, <1>6 DEF TxType

\* What the invariant says of the rows.
LEMMA DocRow ==
    ASSUME SerialInv, NEW d \in Docs
    PROVE  /\ doc[d].status \in {"draft", "posted", "deleted"} /\ doc[d].total \in Nat
           /\ doc[d].entry \in Ids \cup {0}
           /\ doc[d].status # "posted" => doc[d].entry = 0
           /\ doc[d].status = "posted" =>
                /\ doc[d].entry \in Ids /\ journal[doc[d].entry].reverses = 0
                /\ journal[doc[d].entry].owner = d /\ journal[doc[d].entry].control = doc[d].total
                /\ \A f \in Ids : journal[f].reverses # doc[d].entry
BY DEF SerialInv, IInv, Shapes, TypeOK, Documented, UnpostedBare, ControlIsTotal, PostedEntryLive

LEMMA CommitRecords ==
    ASSUME SerialInv, NEW s \in Sessions, Commit(s)
    PROVE  UnpostedBare' /\ ReversedOnce' /\ EntriesRecorded'
<1> DEFINE t == tx[s]
           d == t.doc
           n == Len(journal) + 1
<1>1. /\ d \in Docs /\ \A x \in Docs \ {d} : doc'[x] = doc[x]
      /\ Applied(t, d) \/ Posted(t, d) \/ Rewritten(t, d) \/ Unposted(t, d)
  BY CommitOutcome
<1>2. /\ Ids \subseteq Ids' /\ \A e \in Ids : journal'[e] = journal[e]
      /\ t.entry = NoEntry => Ids' = Ids
      /\ t.entry # NoEntry => Ids' = Ids \cup {n} /\ n \notin Ids /\ n # 0 /\ journal'[n] = t.entry
  BY CommitsEntry DEF SerialInv
<1>3. ReversedOnce /\ EntriesRecorded
  BY DEF SerialInv, Documented
<1> HIDE DEF t, d, n
<1>4. UnpostedBare'
  BY <1>1, DocRow DEF UnpostedBare, Applied, Posted, Rewritten, Unposted
<1>5. ReversedOnce'
  <2> SUFFICES ASSUME NEW f \in Ids', NEW g \in Ids',
                      journal'[f].reverses = journal'[g].reverses, journal'[f].reverses # 0
               PROVE  f = g
    BY DEF ReversedOnce
  <2>1. f \in Ids /\ g \in Ids => f = g
    BY <1>2, <1>3 DEF ReversedOnce
  <2>2. CASE t.entry = NoEntry \/ t.entry.reverses = 0
    BY <1>2, <2>1, <2>2
  <2>3. CASE t.entry # NoEntry /\ t.entry.reverses # 0
    <3>1. \A h \in Ids : journal[h].reverses # t.entry.reverses
      BY <1>1, <2>3, DocRow DEF Applied, Posted, Rewritten, Unposted
    <3> QED BY <1>2, <2>1, <2>3, <3>1
  <2> QED BY <2>2, <2>3
<1>6. EntriesRecorded'
  <2> SUFFICES ASSUME NEW e \in Ids', journal'[e].reverses = 0, \A f \in Ids' : journal'[f].reverses # e
               PROVE  \E x \in Docs : doc'[x].entry = e
    BY DEF EntriesRecorded
  <2>1. CASE e \in Ids
    <3>1. PICK x \in Docs : doc[x].entry = e
      BY <1>2, <1>3, <2>1 DEF EntriesRecorded
    <3>2. e # 0
      BY <2>1 DEF Ids
    <3>3. doc[x].status = "posted"
      BY <3>1, <3>2, DocRow
    <3>4. CASE x = d
      <4>1. ~Posted(t, d) /\ ~Rewritten(t, d)
        BY <3>3, <3>4 DEF Posted, Rewritten
      <4>2. ~Unposted(t, d)
        BY <1>2, <3>1, <3>4 DEF Unposted
      <4> QED BY <1>1, <3>1, <3>4, <4>1, <4>2 DEF Applied
    <3> QED BY <1>1, <3>1, <3>4
  <2>2. CASE e \notin Ids
    <3>1. e = n /\ t.entry # NoEntry /\ t.entry.reverses = 0
      BY <1>2, <2>2
    <3>2. Posted(t, d)
      BY <1>1, <3>1 DEF Applied, Rewritten, Unposted
    <3> QED BY <1>1, <3>1, <3>2 DEF Posted, n
  <2> QED BY <2>1, <2>2
<1> QED BY <1>4, <1>5, <1>6

LEMMA CommitTotals ==
    ASSUME SerialInv, NEW s \in Sessions, Commit(s)
    PROVE  ControlIsTotal'
<1> DEFINE t == tx[s]
           n == Len(journal) + 1
<1> SUFFICES ASSUME NEW d \in Docs, doc'[d].status = "posted"
             PROVE  journal'[doc'[d].entry].control = doc'[d].total
  BY DEF ControlIsTotal
<1>1. /\ d # t.doc => doc'[d] = doc[d]
      /\ d = t.doc => Applied(t, d) \/ Posted(t, d) \/ Rewritten(t, d) \/ Unposted(t, d)
  BY CommitOutcome
<1>2. /\ \A e \in Ids : journal'[e] = journal[e]
      /\ t.entry # NoEntry => journal'[n] = t.entry
  BY CommitsEntry DEF SerialInv
<1>3. CASE doc'[d] = doc[d]
  BY <1>2, <1>3, DocRow
<1>4. CASE doc'[d] # doc[d]
  <2>1. Posted(t, d)
    BY <1>1, <1>4 DEF Applied, Rewritten, Unposted
  <2> QED BY <1>2, <2>1 DEF Posted
<1> QED BY <1>3, <1>4

\* The applications it leaves.
LEMMA CommitApps ==
    ASSUME SerialInv, NEW s \in Sessions, Commit(s)
    PROVE  /\ apps' = (apps \ tx[s].minus) \cup tx[s].plus
           /\ apps \subseteq App /\ IsFiniteSet(apps) /\ apps' \subseteq App /\ IsFiniteSet(apps')
           /\ Known(tx[s]) /\ tx[s].at = "commit"
<1>1. Shapes'
  BY CommitShapes DEF SerialInv
<1> QED BY <1>1, Commits, KnownParts DEF SerialInv, IInv, Shapes, TypeOK

LEMMA CommitApplications ==
    ASSUME SerialInv, NEW s \in Sessions, Commit(s)
    PROVE  ApplicationsBetweenPosted'
<1> DEFINE t == tx[s]
           d == t.doc
<1> SUFFICES ASSUME NEW a \in apps'
             PROVE  doc'[a.payment].status = "posted" /\ doc'[a.invoice].status = "posted"
  BY DEF ApplicationsBetweenPosted
<1>1. /\ d \in Docs /\ \A x \in Docs \ {d} : doc'[x] = doc[x]
      /\ Applied(t, d) \/ Posted(t, d) \/ Rewritten(t, d) \/ Unposted(t, d)
      /\ t.plus # {} => Applied(t, d)
  BY CommitOutcome
<1>2. a.payment \in Docs /\ a.invoice \in Docs
  BY CommitApps DEF App, Docs
<1>3. doc[a.payment].status = "posted" /\ doc[a.invoice].status = "posted"
  BY CommitApps DEF Known, SerialInv, Documented, ApplicationsBetweenPosted
<1>4. Unposted(t, d) => a \notin AppsOf(d)
  BY <1>1, CommitApps DEF Unposted, Applied
<1>5. ASSUME NEW x \in {a.payment, a.invoice} PROVE doc'[x].status = "posted"
  <2>1. CASE x # d
    BY <1>1, <1>2, <1>3, <2>1
  <2>2. CASE x = d
    <3>1. ~Posted(t, d) /\ ~Rewritten(t, d)
      BY <1>3, <2>2 DEF Posted, Rewritten
    <3>2. ~Unposted(t, d)
      <4>1. SUFFICES ASSUME Unposted(t, d) PROVE FALSE
        OBVIOUS
      <4>2. t.plus = {}
        BY <1>1, <4>1 DEF Unposted, Applied
      <4>3. a \in apps
        BY <4>2, CommitApps
      <4> QED BY <1>4, <2>2, <4>1, <4>3 DEF AppsOf
    <3> QED BY <1>1, <1>3, <2>2, <3>1, <3>2 DEF Applied
  <2> QED BY <2>1, <2>2
<1> QED BY <1>5

LEMMA CommitWithin ==
    ASSUME SerialInv, NEW s \in Sessions, Commit(s)
    PROVE  NeverOverApplied'
<1> DEFINE t == tx[s]
<1> SUFFICES ASSUME NEW d \in Docs PROVE Settled(apps', d) <= doc'[d].total
  BY DEF NeverOverApplied
<1>1. /\ d # t.doc => doc'[d] = doc[d]
      /\ d = t.doc => Applied(t, d) \/ Posted(t, d) \/ Rewritten(t, d) \/ Unposted(t, d)
      /\ t.plus # {} => Applied(t, t.doc)
  BY CommitOutcome
<1>2. CASE Mentions(t.plus, d)
  <2>1. Within(t.minus, t.plus, d)
    BY <1>2, CommitApps DEF Known, Mentions
  <2>2. doc'[d] = doc[d]
    BY <1>1, <1>2 DEF Mentions, Applied
  <2> QED BY <2>1, <2>2, CommitApps DEF Within
<1>3. CASE ~Mentions(t.plus, d)
  <2>1. \A a \in apps' : d \in {a.payment, a.invoice} => a \in apps
    BY <1>3, CommitApps DEF Mentions
  <2>2. Settled(apps', d) <= Settled(apps, d) /\ Settled(apps, d) <= doc[d].total
    BY <2>1, CommitApps, SettledLess DEF SerialInv, Documented, NeverOverApplied
  <2>3. Settled(apps', d) \in Nat /\ Settled(apps, d) \in Nat /\ doc[d].total \in Nat
    BY CommitApps, SettledNat, DocRow
  <2>4. CASE doc'[d].total = doc[d].total
    BY <2>2, <2>3, <2>4
  <2>5. CASE doc'[d].total # doc[d].total
    <3>1. doc[d].status = "draft"
      BY <1>1, <2>5 DEF Applied, Posted, Rewritten, Unposted
    <3>2. ~Mentions(apps, d)
      BY <3>1 DEF SerialInv, Documented, ApplicationsBetweenPosted, Mentions
    <3>3. ~Mentions(apps', d)
      BY <2>1, <3>2 DEF Mentions
    <3>4. Settled(apps', d) = 0
      BY <3>3, CommitApps, SettledNat
    <3>5. doc'[d].total \in Nat
      BY CommitShapes DEF SerialInv, Shapes, TypeOK
    <3> QED BY <3>4, <3>5
  <2> QED BY <2>4, <2>5
<1> QED BY <1>2, <1>3

\* Nobody else was running, so nobody knows anything afterwards.
LEMMA CommitKnows ==
    ASSUME SerialInv, IInv', NEW s \in Sessions, Commit(s)
    PROVE  SerialInv'
<1>1. \A r \in Sessions : tx'[r] = IF r = s THEN NoTx ELSE tx[r]
  BY Commits DEF SerialInv
<1>2. \A r \in Sessions \ {s} : tx[r] = NoTx
  BY KnownParts DEF Commit, At, SerialInv, OneAtATime, Course
<1>3. \A r \in Sessions : tx'[r] = NoTx
  BY <1>1, <1>2
<1>4. \A r \in Sessions : Known(tx[r])'
  BY <1>3 DEF Known, NoTx, NoEntry
<1>5. OneAtATime'
  BY <1>3 DEF OneAtATime, NoTx
<1> QED BY <1>4, <1>5, CommitRecords, CommitTotals, CommitApplications, CommitWithin DEF SerialInv, Documented

-----------------------------------------------------------------------------
(* Every step of requests that do not overlap.                             *)

LEMMA InitSerial == Init => SerialInv
<1> SUFFICES ASSUME Init PROVE SerialInv
  OBVIOUS
<1>1. IInv
  BY InitIInv
<1>2. (\A s \in Sessions : tx[s] = NoTx) /\ apps = {} /\ Ids = {}
  BY DEF Init, Ids
<1>3. OneAtATime /\ \A s \in Sessions : Known(tx[s])
  BY <1>2, KnownNoTx DEF OneAtATime, NoTx
<1>4. doc \in [Docs -> [status : {"draft"}, total : Nat, entry : {0}]]
  BY ConcurrentAssumption DEF Init, Docs
<1>5. NeverOverApplied
  <2>1. ASSUME NEW d \in Docs PROVE Settled(apps, d) = 0 /\ doc[d].total \in Nat
    BY <1>2, <1>4, SettledNat, FS_EmptySet DEF Mentions
  <2> QED BY <2>1 DEF NeverOverApplied
<1>6. UnpostedBare /\ ReversedOnce /\ EntriesRecorded /\ ControlIsTotal /\ ApplicationsBetweenPosted
  BY <1>2, <1>4 DEF UnpostedBare, ReversedOnce, EntriesRecorded, ControlIsTotal, ApplicationsBetweenPosted
<1> QED BY <1>1, <1>3, <1>5, <1>6 DEF SerialInv, Documented

LEMMA NextSerial == SerialInv /\ [Next]_vars /\ [Serial]_vars => SerialInv'
<1> SUFFICES ASSUME SerialInv, [Next]_vars, [Serial]_vars PROVE SerialInv'
  OBVIOUS
<1>1. IInv'
  BY NextIInv DEF SerialInv
<1>2. CASE UNCHANGED vars
  <2>1. doc' = doc /\ apps' = apps /\ journal' = journal /\ periodOpen' = periodOpen /\ tx' = tx /\ Ids' = Ids
    BY <1>2 DEF vars, Ids
  <2>2. ASSUME NEW s \in Sessions PROVE Known(tx[s])'
    <3>1. ASSUME NEW d PROVE AppsOf(d)' = AppsOf(d)
      BY <2>1 DEF AppsOf
    <3>2. ASSUME NEW A, NEW B, NEW x PROVE Within(A, B, x)' <=> Within(A, B, x)
      BY <2>1 DEF Within, Settled
    <3>3. Known(tx'[s])
      BY <2>1 DEF SerialInv
    <3> QED BY <2>1, <3>1, <3>2, <3>3 DEF Known
  <2>3. Documented'
    BY <2>1 DEF SerialInv, Documented, UnpostedBare, ReversedOnce, EntriesRecorded, ControlIsTotal,
       ApplicationsBetweenPosted, NeverOverApplied, Settled
  <2>4. OneAtATime'
    BY <2>1 DEF SerialInv, OneAtATime
  <2> QED BY <1>1, <2>2, <2>3, <2>4 DEF SerialInv
<1>3. CASE Next /\ Serial
  <2>1. OneAtATime'
    BY <1>3 DEF Serial
  <2>2. ASSUME NEW s \in Sessions,
               PostStep(s) \/ DraftStep(s) \/ UnpostStep(s) \/ ApplyStep(s)
               \/ CheckApplied(s) \/ Commit(s) \/ Abort(s)
        PROVE  SerialInv'
    BY <1>1, <2>1, <2>2, PostKnows, DraftKnows, UnpostKnows, ApplyKnows, CheckKnows, CommitKnows, AbortKnows
  <2>3. ASSUME UpdateAccountingPeriod PROVE SerialInv'
    <3>1. periodOpen' # periodOpen
      BY <2>3 DEF UpdateAccountingPeriod, SerialInv, IInv, Shapes, TypeOK
    <3>2. Resting
      BY <1>3, <3>1 DEF Serial
    <3> QED BY <1>1, <2>1, <2>3, <3>2, PeriodKnows
  <2> QED BY <1>3, <2>2, <2>3 DEF Next
<1> QED BY <1>2, <1>3

\* The inductive invariant of requests one at a time: what the running
\* transaction has read is still so, and the committed rows are as documented.
THEOREM SerialInvariance == Spec /\ [][Serial]_vars => []SerialInv
BY InitSerial, NextSerial, PTL DEF Spec

\* Whatever else is committed by the interleavings that break these, without
\* overlap reverseEntry reverses an entry once, every standing entry is some
\* document's, and its control line is the document's total.
THEOREM SerialEntries ==
    Spec /\ [][Serial]_vars => [](ReversedOnce /\ EntriesRecorded /\ ControlIsTotal)
<1>1. SerialInv => ReversedOnce /\ EntriesRecorded /\ ControlIsTotal
  BY DEF SerialInv, Documented
<1> QED BY <1>1, SerialInvariance, PTL

\* Without overlap AutoApplyCustomerPayment, UnpostSalesInvoice and the deferred
\* trigger leave applications only between posted documents and no document
\* over-applied.
THEOREM SerialApplications ==
    Spec /\ [][Serial]_vars => [](ApplicationsBetweenPosted /\ NeverOverApplied)
<1>1. SerialInv => ApplicationsBetweenPosted /\ NeverOverApplied
  BY DEF SerialInv, Documented
<1> QED BY <1>1, SerialInvariance, PTL

\* What is committed changes only by a commit, or a change of the period.
LEMMA OnlyCommit ==
    ASSUME [Next]_vars
    PROVE  (\E s \in Sessions : Commit(s)) \/ journal' = journal
BY DEF vars, Next, PostStep, DraftStep, UnpostStep, ApplyStep,
   ReadDraft, InsertEntry, InsertDetail, InsertControl, SetPosted, EditDraft, DeleteDraft,
   ReadPosted, HasNoApplications, InsertReversal, RemoveApplications, SetDraft,
   ReadSettler, Allocate, InsertApplications, CheckApplied, Abort, UpdateAccountingPeriod,
   Begin, Step, Committed

\* An entry is written in an open period, as its trigger checks, and without
\* overlap committed in it.
THEOREM SerialPeriod == Spec /\ [][Serial]_vars => ClosedPeriodSealed
<1>1. SerialInv /\ [Next]_vars => [~periodOpen => journal' = journal]_vars
  <2> SUFFICES ASSUME SerialInv, [Next]_vars, ~periodOpen PROVE journal' = journal
    OBVIOUS
  <2>1. ASSUME NEW s \in Sessions, Commit(s) PROVE journal' = journal
    <3>1. tx[s].entry = NoEntry
      BY KnownParts DEF Known
    <3> QED BY <2>1, <3>1 DEF Commit
  <2> QED BY <2>1, OnlyCommit
<1> QED BY <1>1, SerialInvariance, PTL DEF Spec, ClosedPeriodSealed

-----------------------------------------------------------------------------
(* The journal of requests one at a time is a general ledger: the two      *)
(* lines of an entry, debit and credit, in the base currency.              *)

Sides == {"detail", "control"}
Line(n) == [amount |-> n, base |-> n]
BookEntry(e) ==
    [owner |-> e.owner, reverses |-> e.reverses,
     lines |-> [side \in Sides |-> Line(IF side = "control" THEN e.control ELSE -e.detail)]]
Book == [e \in Ids |-> BookEntry(journal[e])]
Even == {[side \in Sides |-> Line(IF side = "control" THEN n ELSE -n)] : n \in Int \ {0}}

Ledgers == INSTANCE GeneralLedger WITH book <- Book, BalancedLines <- Even

LEMMA BookRows ==
    ASSUME Shapes
    PROVE  /\ Len(Book) = Len(journal) /\ Len(journal) \in Nat
           /\ Ledgers!Entries = Ids
           /\ \A e \in Ids : Book[e] = BookEntry(journal[e])
<1>1. Len(journal) \in Nat
  BY DEF Shapes, TypeOK
<1>2. DOMAIN Book = 1..Len(journal)
  BY DEF Book, Ids
<1>3. Len(Book) = Len(journal)
  BY <1>1, <1>2
<1> QED BY <1>1, <1>3 DEF Ledgers!Entries, Book, Ids

\* A commit that adds an entry adds it to the book.
LEMMA BookGrows ==
    ASSUME IInv, IInv', NEW s \in Sessions, Commit(s), tx[s].entry # NoEntry
    PROVE  /\ Ledgers!Grows
           /\ Ledgers!Added = {Len(journal) + 1}
           /\ Book'[Len(journal) + 1] = BookEntry(tx[s].entry)
<1> DEFINE n == Len(journal) + 1
<1>1. /\ \A e \in Ids : journal'[e] = journal[e]
      /\ Ids' = Ids \cup {n} /\ n \notin Ids /\ n # 0 /\ journal'[n] = tx[s].entry
  BY CommitsEntry
<1>2. /\ Len(Book) = Len(journal) /\ Len(journal) \in Nat /\ Ledgers!Entries = Ids
      /\ \A e \in Ids : Book[e] = BookEntry(journal[e])
  BY BookRows DEF IInv
<1>3. /\ Len(Book)' = Len(journal)' /\ \A e \in Ids' : Book'[e] = BookEntry(journal'[e])
  <2>1. Shapes'
    BY DEF IInv
  <2>2. (Len(Book) = Len(journal) /\ \A e \in Ids : Book[e] = BookEntry(journal[e]))'
    BY <2>1, BookRows, PTL
  <2> QED BY <2>2 DEF BookEntry
<1>4. Len(journal') = n
  BY <1>2 DEF Commit
<1>5. Ledgers!Added = {n}
  BY <1>2, <1>3, <1>4 DEF Ledgers!Added
<1>6. \A e \in Ids : Book'[e] = Book[e]
  BY <1>1, <1>2, <1>3
<1>7. Ledgers!Grows
  BY <1>2, <1>3, <1>4, <1>6 DEF Ledgers!Grows
<1> QED BY <1>1, <1>3, <1>5, <1>7

LEMMA BookReverses ==
    ASSUME NEW e
    PROVE  BookEntry(e).reverses = e.reverses
BY DEF BookEntry

\* Negating both lines of an entry, and naming it, is what a reversal builds.
LEMMA BookNegated ==
    ASSUME NEW e \in EntryOf(Ids), NEW r, NEW id,
           r = [owner |-> e.owner, detail |-> -e.detail, control |-> -e.control, reverses |-> id]
    PROVE  BookEntry(r) = [BookEntry(e) EXCEPT !.lines = Ledgers!Negated(@), !.reverses = id]
<1> DEFINE lines(x) == [side \in Sides |-> Line(IF side = "control" THEN x.control ELSE -x.detail)]
<1>1. BookEntry(e) = [owner |-> e.owner, reverses |-> e.reverses, lines |-> lines(e)]
      /\ BookEntry(r) = [owner |-> e.owner, reverses |-> id, lines |-> lines(r)]
  BY DEF BookEntry
<1>2. e.detail \in Int /\ e.control \in Int /\ r.detail = -e.detail /\ r.control = -e.control
  BY DEF EntryOf
<1>3. Ledgers!Negated(lines(e)) = lines(r)
  BY <1>2 DEF Ledgers!Negated, Line
<1> HIDE DEF lines
<1>4. BookEntry(e).lines = lines(e)
  BY <1>1
<1>5. ASSUME NEW k, NEW l, BookEntry(e) = [owner |-> e.owner, reverses |-> e.reverses, lines |-> k]
      PROVE  [BookEntry(e) EXCEPT !.lines = l, !.reverses = id]
             = [owner |-> e.owner, reverses |-> id, lines |-> l]
  <2> DEFINE b == BookEntry(e)
             o == e.owner
             v == e.reverses
  <2>1. b = [owner |-> o, reverses |-> v, lines |-> k]
    BY <1>5
  <2> HIDE DEF b, o, v
  <2>2. [b EXCEPT !.lines = l, !.reverses = id] = [owner |-> o, reverses |-> id, lines |-> l]
    <3>1. [b EXCEPT !.lines = l, !.reverses = id] =
             [f \in DOMAIN b |-> IF f = "reverses" THEN id ELSE IF f = "lines" THEN l ELSE b[f]]
      OBVIOUS
    <3>2. DOMAIN b = {"owner", "reverses", "lines"}
      BY <2>1
    <3> QED BY <2>1, <3>1, <3>2
  <2> QED BY <2>2 DEF b, o
<1>6. [BookEntry(e) EXCEPT !.lines = Ledgers!Negated(@), !.reverses = id]
      = [BookEntry(e) EXCEPT !.lines = lines(r), !.reverses = id]
  BY <1>3, <1>4
<1>7. [BookEntry(e) EXCEPT !.lines = lines(r), !.reverses = id]
      = [owner |-> e.owner, reverses |-> id, lines |-> lines(r)]
  BY <1>1, <1>5
<1> QED BY <1>1, <1>6, <1>7

LEMMA CommitBooks ==
    ASSUME SerialInv, IInv', NEW s \in Sessions, Commit(s)
    PROVE  Ledgers!Next \/ UNCHANGED Book
<1> DEFINE t == tx[s]
           d == t.doc
           n == Len(journal) + 1
<1>1. /\ d \in Docs /\ IInv /\ Known(t) /\ TxOK(t)
      /\ Applied(t, d) \/ Posted(t, d) \/ Rewritten(t, d) \/ Unposted(t, d)
  BY CommitOutcome, KnownParts DEF SerialInv
<1>2. ASSUME t.entry # NoEntry
      PROVE  Ledgers!Grows /\ Ledgers!Added = {n} /\ Book'[n] = BookEntry(t.entry)
  BY <1>1, <1>2, BookGrows
<1>3. CASE t.entry = NoEntry
  <2>1. journal' = journal /\ Ids' = Ids
    BY <1>3 DEF Commit, Ids
  <2> QED BY <2>1 DEF Book, BookEntry
<1>4. CASE Posted(t, d)
  <2>1. t.entry # NoEntry /\ t.entry.reverses = 0
    BY <1>4 DEF Posted
  <2>2. Balanced(t.entry) /\ t.entry \in EntryType
    BY <1>1, <2>1, Commits, CommitsEntry DEF TxType
  <2>3. BookEntry(t.entry).lines \in Even
    BY <2>2 DEF BookEntry, Even, Balanced, EntryType
  <2>4. BookEntry(t.entry).reverses = 0
    BY <2>1 DEF BookEntry
  <2>5. Ledgers!Record
    BY <1>2, <2>1, <2>3, <2>4 DEF Ledgers!Record
  <2> QED BY <2>5 DEF Ledgers!Next
<1>5. CASE Unposted(t, d)
  <2> DEFINE e == doc[d].entry
  <2>1. t.entry # NoEntry /\ t.entry.reverses = e /\ e # 0 /\ doc[d].status = "posted"
    BY <1>5 DEF Unposted
  <2>2. /\ e \in Ids /\ journal[e].reverses = 0 /\ journal[e].owner = d
        /\ \A f \in Ids : journal[f].reverses # e
    BY <1>1, <2>1, DocRow
  <2>3. t.entry = [owner |-> journal[e].owner, detail |-> -journal[e].detail,
                   control |-> -journal[e].control, reverses |-> e]
    <3>1. t.entry \in EntryType
      BY Commits, <1>1 DEF TxType
    <3>2. t.entry.owner = d
      BY <1>1, <2>1 DEF TxOK, Course
    <3>3. t.entry.detail = -journal[e].detail /\ t.entry.control = -journal[e].control
      BY <1>1, <2>1 DEF Known
    <3> HIDE DEF t, d, e
    <3> QED BY <2>1, <2>2, <3>1, <3>2, <3>3 DEF EntryType
  <2>4. /\ Ledgers!Entries = Ids /\ \A f \in Ids : Book[f] = BookEntry(journal[f])
    BY <1>1, BookRows DEF IInv
  <2>5. BookEntry(t.entry) = [Book[e] EXCEPT !.lines = Ledgers!Negated(@), !.reverses = e]
    <3>1. journal[e] \in EntryOf(Ids)
      BY <1>1, <2>2, EntryKnown DEF IInv
    <3>2. BookEntry(t.entry) = [BookEntry(journal[e]) EXCEPT !.lines = Ledgers!Negated(@), !.reverses = e]
      <4> HIDE DEF t, d, e
      <4> QED BY <2>3, <3>1, BookNegated
    <3>3. Book[e] = BookEntry(journal[e])
      BY <2>2, <2>4
    <3> QED BY <3>2, <3>3
  <2>6. \A f \in Ids : Book[f].reverses = journal[f].reverses
    BY <2>4, BookReverses
  <2>7. BookEntry(t.entry).reverses = e
    BY <2>1, BookReverses
  <2>8. ~Ledgers!Corrected(e)
    BY <2>2, <2>4, <2>6 DEF Ledgers!Corrected
  <2>9. Ledgers!Correct
    <3>1. Ledgers!Grows /\ Ledgers!Added = {n} /\ Book'[n] = BookEntry(t.entry)
      BY <1>2, <2>1
    <3>2. Book'[n].reverses = e /\ Book[e].reverses = 0 /\ e \in Ledgers!Entries
      BY <2>2, <2>4, <2>6, <2>7, <3>1
    <3>3. Book'[n] = [Book[e] EXCEPT !.lines = Ledgers!Negated(@), !.reverses = e]
      BY <2>5, <3>1
    <3> HIDE DEF e, d, t, n
    <3> QED BY <2>8, <3>1, <3>2, <3>3 DEF Ledgers!Correct
  <2> QED BY <2>9 DEF Ledgers!Next
<1> QED BY <1>1, <1>3, <1>4, <1>5 DEF Applied, Rewritten

\* Without overlap the journal implements GeneralLedger: a posting records, an
\* unposting corrects an entry by its negation, once.
THEOREM SerialLedger == Spec /\ [][Serial]_vars => Ledgers!Spec
<1>1. Init => Ledgers!Init
  <2> SUFFICES ASSUME Init PROVE Book = <<>>
    BY DEF Ledgers!Init
  <2>1. Ids = {}
    BY DEF Init, Ids
  <2> QED BY <2>1 DEF Book
<1>2. SerialInv /\ IInv' /\ [Next]_vars => [Ledgers!Next]_Book
  <2> SUFFICES ASSUME SerialInv, IInv', [Next]_vars PROVE Ledgers!Next \/ UNCHANGED Book
    OBVIOUS
  <2>1. journal' = journal => Book' = Book
    BY DEF Book, Ids, BookEntry
  <2> QED BY <2>1, CommitBooks, OnlyCommit
<1> QED BY <1>1, <1>2, SerialInvariance, Invariance, PTL DEF Spec, Ledgers!Spec

=============================================================================
