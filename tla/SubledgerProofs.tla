--------------------------- MODULE SubledgerProofs ---------------------------
(***************************************************************************)
(* Proofs about Subledger for every set of documents, every content and    *)
(* every rate table: the journal, what owns it, the abstract ledger it     *)
(* implements, what an allocation applies, and, last, what the control     *)
(* accounts are worth.                                                     *)
(***************************************************************************)
EXTENDS Subledger, SumTheorems, SequenceTheorems, TLAPS

-----------------------------------------------------------------------------
(* Arithmetic. *)

\* Rounding gives an integer.
LEMMA RoundDivInt ==
    ASSUME NEW n \in Int, NEW d \in Nat \ {0}
    PROVE  RoundDiv(n, d) \in Int
BY DEF RoundDiv

\* Rounding half away from zero treats both signs alike.
LEMMA RoundDivOdd ==
    ASSUME NEW n \in Int, NEW d \in Nat \ {0}
    PROVE  RoundDiv(-n, d) = -RoundDiv(n, d)
BY DEF RoundDiv

\* A rounded amount never changes side.
LEMMA RoundDivSign ==
    ASSUME NEW n \in Int, NEW d \in Nat \ {0}
    PROVE  /\ n >= 0 => RoundDiv(n, d) >= 0
           /\ n <= 0 => RoundDiv(n, d) <= 0
           /\ n = 0 => RoundDiv(n, d) = 0
<1>1. n >= 0 => (2 * n + d) \div (2 * d) >= 0
  OBVIOUS
<1>2. n <= 0 => (2 * (-n) + d) \div (2 * d) >= 0
  OBVIOUS
<1>3. d \div (2 * d) = 0
  OBVIOUS
<1> QED BY <1>1, <1>2, <1>3 DEF RoundDiv

\* Integer division of naturals is monotone.
LEMMA DivMonotone ==
    ASSUME NEW m \in Nat, NEW n \in Nat, m <= n, NEW d \in Nat \ {0}
    PROVE  m \div d <= n \div d
OBVIOUS

\* Rounding keeps the order of amounts.
LEMMA RoundDivMonotone ==
    ASSUME NEW m \in Int, NEW n \in Int, m <= n, NEW d \in Nat \ {0}
    PROVE  RoundDiv(m, d) <= RoundDiv(n, d)
<1>1. CASE m >= 0
  BY <1>1, DivMonotone DEF RoundDiv
<1>2. CASE n <= 0
  BY <1>2, DivMonotone, RoundDivOdd DEF RoundDiv
<1>3. CASE m < 0 /\ n > 0
  BY <1>3, RoundDivSign, RoundDivInt
<1> QED BY <1>1, <1>2, <1>3

\* A converted amount is an integer.
LEMMA ConvertInt ==
    ASSUME NEW a \in Int, NEW r \in Nat
    PROVE  Convert(a, r) \in Int
<1>1. a * r \in Int
  OBVIOUS
<1> QED BY <1>1, RoundDivInt, SubledgerAssumption DEF Convert

\* Of two amounts the larger converts to no less.
LEMMA ConvertMonotone ==
    ASSUME NEW a \in Int, NEW b \in Int, a <= b, NEW r \in Nat
    PROVE  Convert(a, r) <= Convert(b, r)
<1>1. a * r \in Int /\ b * r \in Int /\ a * r <= b * r
  OBVIOUS
<1> QED BY <1>1, RoundDivMonotone, SubledgerAssumption DEF Convert

\* An amount and its negation convert to opposite base amounts.
LEMMA ConvertOdd ==
    ASSUME NEW a \in Int, NEW r \in Nat
    PROVE  Convert(-a, r) = -Convert(a, r)
<1>1. a * r \in Int /\ (-a) * r = -(a * r)
  OBVIOUS
<1> QED BY <1>1, RoundDivOdd, SubledgerAssumption DEF Convert

\* A converted amount stays on the side of the amount.
LEMMA ConvertSign ==
    ASSUME NEW a \in Int, NEW r \in Nat
    PROVE  /\ a >= 0 => Convert(a, r) >= 0
           /\ a <= 0 => Convert(a, r) <= 0
<1>1. /\ a * r \in Int
      /\ a >= 0 => a * r >= 0
      /\ a <= 0 => a * r <= 0
  OBVIOUS
<1> QED BY <1>1, RoundDivSign, SubledgerAssumption DEF Convert

\* RateOn finds the latest row: the months on or before a date that have one
\* are finitely many.
LEMMA RateOnNat ==
    ASSUME NEW date \in Dates, rates \in [Dates -> Nat]
    PROVE  RateOn(date) \in Nat
<1> DEFINE known == {t \in Dates : t <= date /\ rates[t] # 0}
<1>1. CASE known = {}
  BY <1>1 DEF RateOn
<1>2. CASE known # {}
  <2>1. Dates \subseteq Nat
    BY SubledgerAssumption
  <2> DEFINE ages == {date - t : t \in known}
  <2>2. ages \in SUBSET Nat /\ ages # {}
    <3>1. ASSUME NEW t \in known PROVE date - t \in Nat
      BY <2>1
    <3> QED BY <1>2, <3>1
  <2>3. PICK x \in ages : \A y \in ages : x <= y
    <3> HIDE DEF ages
    <3> QED BY <2>2, Smallest
  <2>4. PICK t \in known : x = date - t
    BY <2>3
  <2>5. ASSUME NEW u \in known PROVE u <= t
    <3>1. date - u \in ages
      OBVIOUS
    <3>2. date - t <= date - u
      BY <2>3, <2>4, <3>1
    <3>3. date \in Nat /\ t \in Nat /\ u \in Nat
      BY <2>1
    <3> HIDE DEF ages, known
    <3> QED BY <3>2, <3>3
  <2>6. (CHOOSE v \in known : \A u \in known : u <= v) \in Dates
    BY <2>5
  <2> QED BY <1>2, <2>6 DEF RateOn
<1> QED BY <1>1, <1>2

-----------------------------------------------------------------------------
(* The shape of a step. *)

\* What the eight posting handlers pass to Post.
Postings == {<<"ar", 1, "revenue">>, <<"ap", -1, "expense">>,
             <<"ar", -1, "revenue">>, <<"ap", 1, "expense">>,
             <<"ar", -1, "cash">>, <<"ap", 1, "cash">>,
             <<"inventory", -1, "cogs">>, <<"inventory", 1, "grni">>}

\* Every step is one of seven operations on a document or leaves the documents,
\* the applications and the journal alone.
LEMMA StepKinds ==
    ASSUME Next
    PROVE  \/ \E d \in Docs, k \in Kinds : Create(d, k) \/ Update(d, k) \/ Delete(d, k)
           \/ \E d \in Docs : PostStep(d)
           \/ \E d \in Docs, k \in Settlers : AutoApply(d, k)
           \/ \E d \in Docs, k \in Kinds : Unpost(d, k)
           \/ \E d \in Docs, k \in Payments : UnpostPayment(d, k)
           \/ Surroundings
<1>1. ASSUME NEW d \in Docs, DraftStep(d)
      PROVE  \E k \in Kinds : Create(d, k) \/ Update(d, k) \/ Delete(d, k)
  BY <1>1 DEF DraftStep, Kinds, Movements,
       CreateSalesInvoice, UpdateSalesInvoice, DeleteSalesInvoice,
       CreatePurchaseBill, UpdatePurchaseBill, DeletePurchaseBill,
       CreateSalesCreditNote, UpdateSalesCreditNote, DeleteSalesCreditNote,
       CreatePurchaseCreditNote, UpdatePurchaseCreditNote, DeletePurchaseCreditNote,
       CreateCustomerPayment, UpdateCustomerPayment, DeleteCustomerPayment,
       CreateSupplierPayment, UpdateSupplierPayment, DeleteSupplierPayment,
       CreateStockMovement, UpdateStockMovement, DeleteStockMovement
<1>2. ASSUME NEW d \in Docs, ApplyStep(d)
      PROVE  \E k \in Settlers : AutoApply(d, k)
  BY <1>2 DEF ApplyStep, Settlers, Payments, AutoApplyCustomerPayment,
       AutoApplySupplierPayment, AutoApplySalesCreditNote, AutoApplyPurchaseCreditNote
<1>3. ASSUME NEW d \in Docs, UnpostStep(d)
      PROVE  \/ \E k \in Kinds : Unpost(d, k)
             \/ \E k \in Payments : UnpostPayment(d, k)
  BY <1>3 DEF UnpostStep, Kinds, Payments, Movements, UnpostSalesInvoice,
       UnpostPurchaseBill, UnpostSalesCreditNote, UnpostPurchaseCreditNote,
       UnpostCustomerPayment, UnpostSupplierPayment, UnpostStockMovement
<1> QED BY <1>1, <1>2, <1>3 DEF Next

\* A posting charges the control account of its document on the document's
\* side, and no other control account.
Charges(d, p) ==
    \A c \in {"ar", "ap"} : IF Kind[d] \in ControlKinds(c) THEN p[1] = c /\ p[2] = Side(d) ELSE p[1] # c

\* Each posting handler is Post with what it passes.
LEMMA PostCases ==
    ASSUME NEW d \in Docs, PostStep(d)
    PROVE  \E k \in Kinds, p \in Postings : Post(d, k, p[1], p[2], p[3]) /\ Charges(d, p)
<1> DEFINE Posted(k, c, i, t) == /\ k \in Kinds /\ <<c, i, t>> \in Postings /\ Kind[d] = k
                                 /\ Post(d, k, c, i, t)
<1>1. \/ Posted("sales_invoice", "ar", 1, "revenue")
      \/ Posted("purchase_bill", "ap", -1, "expense")
      \/ Posted("sales_credit_note", "ar", -1, "revenue")
      \/ Posted("purchase_credit_note", "ap", 1, "expense")
      \/ Posted("customer_payment", "ar", -1, "cash")
      \/ Posted("supplier_payment", "ap", 1, "cash")
      \/ Posted("issue", "inventory", -1, "cogs")
      \/ Posted("receipt", "inventory", 1, "grni")
  <2>1. \A k, c, i, t : Post(d, k, c, i, t) => Kind[d] = k
    BY DEF Post
  <2> QED BY <2>1 DEF PostStep, Kinds, Postings, PostSalesInvoice, PostPurchaseBill,
       PostSalesCreditNote, PostPurchaseCreditNote, PostCustomerPayment,
       PostSupplierPayment, PostInventoryIssue, PostInventoryReceipt
<1>2. ASSUME NEW k, NEW c, NEW i, NEW t, Posted(k, c, i, t), Charges(d, <<c, i, t>>)
      PROVE  \E l \in Kinds, p \in Postings : Post(d, l, p[1], p[2], p[3]) /\ Charges(d, p)
  <2>1. /\ k \in Kinds /\ <<c, i, t>> \in Postings /\ Charges(d, <<c, i, t>>)
        /\ Post(d, k, <<c, i, t>>[1], <<c, i, t>>[2], <<c, i, t>>[3])
    BY <1>2
  <2> QED BY <2>1
<1>3. /\ Kind[d] = "sales_invoice" => Charges(d, <<"ar", 1, "revenue">>)
      /\ Kind[d] = "purchase_bill" => Charges(d, <<"ap", -1, "expense">>)
      /\ Kind[d] = "sales_credit_note" => Charges(d, <<"ar", -1, "revenue">>)
      /\ Kind[d] = "purchase_credit_note" => Charges(d, <<"ap", 1, "expense">>)
      /\ Kind[d] = "customer_payment" => Charges(d, <<"ar", -1, "cash">>)
      /\ Kind[d] = "supplier_payment" => Charges(d, <<"ap", 1, "cash">>)
      /\ Kind[d] = "issue" => Charges(d, <<"inventory", -1, "cogs">>)
      /\ Kind[d] = "receipt" => Charges(d, <<"inventory", 1, "grni">>)
  BY DEF Charges, ControlKinds, Kinds, Side
<1>4. \A k, c, i, t : Posted(k, c, i, t) => Kind[d] = k
  OBVIOUS
<1> HIDE DEF Posted
<1> QED BY <1>1, <1>2, <1>3, <1>4

\* The same with the posting handlers as Post.
LEMMA StepCases ==
    ASSUME Next
    PROVE  \/ \E d \in Docs, k \in Kinds : Create(d, k) \/ Update(d, k) \/ Delete(d, k)
           \/ \E d \in Docs, k \in Kinds, p \in Postings : Post(d, k, p[1], p[2], p[3])
           \/ \E d \in Docs, k \in Settlers : AutoApply(d, k)
           \/ \E d \in Docs, k \in Kinds : Unpost(d, k)
           \/ \E d \in Docs, k \in Payments : UnpostPayment(d, k)
           \/ Surroundings
BY StepKinds, PostCases

-----------------------------------------------------------------------------
(* How the journal grows. *)

Lines == [Accounts -> [amount : Int, base : Int]]
Row(ids) == [date : Dates, rate : Nat \ {0}, reverses : ids \cup {0}, lines : Lines]

JournalOK == journal \in Seq(Row(Ids))

\* What the columns of a journal entry hold.
LEMMA JournalRows ==
    ASSUME JournalOK
    PROVE  /\ Len(journal) \in Nat
           /\ \A i \in Ids : /\ journal[i] \in Row(Ids)
                             /\ journal[i].date \in Dates
                             /\ journal[i].rate \in Nat \ {0}
                             /\ journal[i].reverses \in Ids \cup {0}
                             /\ journal[i].lines \in Lines
<1>1. Len(journal) \in Nat
  BY DEF JournalOK
<1>2. ASSUME NEW i \in Ids PROVE journal[i] \in Row(Ids)
  BY ElementOfSeq DEF JournalOK, Ids
<1> QED BY <1>1, <1>2 DEF Row

\* The step inserts exactly the entries entryOf[x], x \in S, with ids pos[x].
Grown(S, pos, entryOf) ==
    /\ Len(journal') \in Nat
    /\ DOMAIN journal' = 1..Len(journal')
    /\ journal' = [i \in 1..Len(journal') |-> journal'[i]]
    /\ Len(journal) <= Len(journal')
    /\ \A i \in Ids : journal'[i] = journal[i]
    /\ \A x \in S : /\ pos[x] \in (Len(journal) + 1)..Len(journal')
                    /\ journal'[pos[x]] = entryOf[x]
    /\ \A i \in (Len(journal) + 1)..Len(journal') : \E x \in S : pos[x] = i
    /\ \A x, y \in S : pos[x] = pos[y] => x = y

\* Posting grows the journal by the one entry it appends.
LEMMA AppendGrown ==
    ASSUME NEW R, journal \in Seq(R), NEW e \in R, journal' = Append(journal, e), NEW x
    PROVE  Grown({x}, [y \in {x} |-> Len(journal) + 1], [y \in {x} |-> e])
<1>1. /\ Len(journal) \in Nat
      /\ journal' \in Seq(R)
      /\ Len(journal') = Len(journal) + 1
      /\ \A i \in 1..Len(journal) : journal'[i] = journal[i]
      /\ journal'[Len(journal) + 1] = e
  OBVIOUS
<1>2. journal' \in [1..Len(journal') -> R]
  BY <1>1, LenProperties
<1>3. DOMAIN journal' = 1..Len(journal') /\ journal' = [i \in 1..Len(journal') |-> journal'[i]]
  BY <1>2
<1> QED BY <1>1, <1>3 DEF Grown, Ids

\* Inserting a set of entries in some order grows the journal by exactly
\* those.
LEMMA ExtendedGrown ==
    ASSUME NEW R, journal \in Seq(R), NEW n \in Nat, NEW S, NEW pos \in Bijection(S, NewIds(n)),
           NEW entryOf, journal' = Extended(n, S, pos, entryOf)
    PROVE  Grown(S, pos, entryOf)
<1>1. /\ pos \in [S -> NewIds(n)]
      /\ \A x, y \in S : pos[x] = pos[y] => x = y
      /\ \A i \in NewIds(n) : \E x \in S : pos[x] = i
  BY DEF Bijection, Injection, Surjection, IsInjective
<1>2. Len(journal) \in Nat
  OBVIOUS
<1>3. /\ DOMAIN journal' = 1..(Len(journal) + n)
      /\ \A i \in 1..(Len(journal) + n) : journal'[i] =
            IF i <= Len(journal) THEN journal[i] ELSE entryOf[CHOOSE x \in S : pos[x] = i]
      /\ journal' = [i \in 1..(Len(journal) + n) |-> journal'[i]]
  BY <1>2 DEF Extended
<1>4. Len(journal') = Len(journal) + n
  BY <1>2, <1>3
<1>5. NewIds(n) = (Len(journal) + 1)..Len(journal')
  BY <1>4 DEF NewIds
<1>6. ASSUME NEW i \in Ids PROVE journal'[i] = journal[i]
  <2>1. i \in 1..(Len(journal) + n) /\ i <= Len(journal)
    BY <1>2 DEF Ids
  <2> QED BY <1>3, <2>1
<1>7. ASSUME NEW x \in S PROVE journal'[pos[x]] = entryOf[x]
  <2>1. pos[x] \in 1..(Len(journal) + n) /\ ~(pos[x] <= Len(journal))
    BY <1>1, <1>2 DEF NewIds
  <2>2. (CHOOSE y \in S : pos[y] = pos[x]) = x
    BY <1>1
  <2> QED BY <1>3, <2>1, <2>2
<1> QED BY <1>1, <1>2, <1>3, <1>4, <1>5, <1>6, <1>7 DEF Grown

\* Old rows keep their type when ids only grow, so the new rows decide.
LEMMA GrownType ==
    ASSUME JournalOK, NEW S, NEW pos, NEW entryOf, Grown(S, pos, entryOf),
           \A x \in S : entryOf[x] \in Row(Ids)
    PROVE  JournalOK' /\ Ids \subseteq Ids'
<1>1. Len(journal) \in Nat /\ Ids \subseteq Ids' /\ Row(Ids) \subseteq Row(Ids')
  BY DEF JournalOK, Grown, Ids, Row
<1>2. ASSUME NEW i \in 1..Len(journal') PROVE journal'[i] \in Row(Ids')
  <2>1. CASE i \in Ids
    <3>1. journal'[i] = journal[i] /\ journal[i] \in Row(Ids)
      BY <2>1 DEF Grown, JournalOK, Ids
    <3> QED BY <1>1, <3>1
  <2>2. CASE i \notin Ids
    <3>1. i \in (Len(journal) + 1)..Len(journal')
      BY <1>1, <1>2, <2>2 DEF Ids, Grown
    <3>2. \E x \in S : journal'[i] = entryOf[x]
      BY <3>1 DEF Grown
    <3> QED BY <1>1, <3>2
  <2> QED BY <2>1, <2>2
<1>3. journal' \in [1..Len(journal') -> Row(Ids')] /\ Len(journal') \in Nat
  BY <1>2 DEF Grown
<1>4. journal' \in Seq(Row(Ids'))
  BY <1>3
<1> QED BY <1>1, <1>4 DEF JournalOK

LiveIds == {e \in Ids : Live(e)}

\* Inserting originals makes them live and leaves the rest as they were.
LEMMA GrownLive ==
    ASSUME JournalOK, NEW S, NEW pos, NEW entryOf, Grown(S, pos, entryOf),
           \A x \in S : entryOf[x].reverses = 0
    PROVE  LiveIds' = LiveIds \cup {pos[x] : x \in S}
<1> DEFINE New == (Len(journal) + 1)..Len(journal')
<1>1. /\ Len(journal) \in Nat /\ Len(journal') \in Nat
      /\ Ids' = Ids \cup New /\ Ids \cap New = {} /\ 0 \notin Ids \cup New
      /\ New = {pos[x] : x \in S}
  BY DEF JournalOK, Grown, Ids
<1>2. \A i \in Ids : journal'[i].reverses = journal[i].reverses /\ journal[i].reverses \in Ids \cup {0}
  BY JournalRows DEF Grown
<1>3. \A i \in New : journal'[i].reverses = 0
  BY DEF Grown
<1> HIDE DEF New
<1>4. ASSUME NEW e \in Ids PROVE Live(e)' <=> Live(e)
  BY <1>1, <1>2, <1>3 DEF Live
<1>5. ASSUME NEW e \in New PROVE Live(e)'
  BY <1>1, <1>2, <1>3 DEF Live
<1> QED BY <1>1, <1>4, <1>5 DEF LiveIds

\* Inserting a reversal of each of some live entries makes exactly those
\* entries dead.
LEMMA GrownDead ==
    ASSUME JournalOK, NEW S \in SUBSET LiveIds, NEW pos, NEW entryOf, Grown(S, pos, entryOf),
           \A x \in S : entryOf[x].reverses = x
    PROVE  LiveIds' = LiveIds \ S
<1> DEFINE New == (Len(journal) + 1)..Len(journal')
<1>1. /\ Len(journal) \in Nat /\ Len(journal') \in Nat
      /\ Ids' = Ids \cup New /\ Ids \cap New = {} /\ 0 \notin Ids \cup New
      /\ \A x \in S : x \in Ids /\ pos[x] \in New /\ journal'[pos[x]].reverses = x
  BY DEF JournalOK, Grown, Ids, LiveIds
<1>2. \A i \in Ids : journal'[i].reverses = journal[i].reverses /\ journal[i].reverses \in Ids \cup {0}
  BY JournalRows DEF Grown
<1>3. \A i \in New : journal'[i].reverses \in S
  BY DEF Grown
<1> HIDE DEF New
<1>4. ASSUME NEW e \in Ids \ S PROVE Live(e)' <=> Live(e)
  BY <1>1, <1>2, <1>3, <1>4 DEF Live
<1>5. ASSUME NEW e \in S PROVE ~Live(e)'
  BY <1>1, <1>5 DEF Live
<1>6. ASSUME NEW e \in New PROVE ~Live(e)'
  BY <1>1, <1>3, <1>6 DEF Live
<1> QED BY <1>1, <1>4, <1>5, <1>6 DEF LiveIds

\* A journal grown by balanced entries has only balanced entries.
LEMMA GrownBalanced ==
    ASSUME JournalOK, EntriesBalanced, NEW S, NEW pos, NEW entryOf, Grown(S, pos, entryOf),
           \A x \in S : EntryOK(entryOf[x].lines)
    PROVE  EntriesBalanced'
<1> SUFFICES ASSUME NEW i \in Ids' PROVE EntryOK(journal'[i].lines)
  BY DEF EntriesBalanced
<1>1. CASE i \in Ids
  BY <1>1 DEF EntriesBalanced, Grown
<1>2. CASE i \notin Ids
  <2>1. i \in (Len(journal) + 1)..Len(journal')
    BY <1>2, JournalRows DEF Ids, Grown
  <2> QED BY <2>1 DEF Grown
<1> QED BY <1>1, <1>2

\* Originals add no reversal.
LEMMA GrownMirror ==
    ASSUME JournalOK, ReversalsMirror, NEW S, NEW pos, NEW entryOf, Grown(S, pos, entryOf),
           \A x \in S : entryOf[x].reverses = 0
    PROVE  ReversalsMirror'
<1>1. ASSUME NEW i \in Ids', journal'[i].reverses # 0
      PROVE  i \in Ids /\ journal'[i] = journal[i] /\ journal[i].reverses \in Ids
  <2>1. i \in Ids
    <3> SUFFICES ASSUME i \notin Ids PROVE FALSE
      OBVIOUS
    <3>1. i \in (Len(journal) + 1)..Len(journal')
      BY JournalRows DEF Ids, Grown
    <3> QED BY <1>1, <3>1 DEF Grown
  <2> QED BY <1>1, <2>1, JournalRows DEF Grown
<1>2. \A e \in Ids : journal'[e] = journal[e]
  BY DEF Grown
<1> SUFFICES ASSUME NEW f \in Ids', NEW e, e = journal'[f].reverses, e # 0
    PROVE  /\ journal'[f].date = journal'[e].date /\ journal'[f].rate = journal'[e].rate
           /\ \A a \in Accounts : /\ journal'[f].lines[a].amount = -journal'[e].lines[a].amount
                                  /\ journal'[f].lines[a].base = -journal'[e].lines[a].base
           /\ e < f /\ journal'[e].reverses = 0
           /\ \A g \in Ids' : journal'[g].reverses = e => g = f
  BY DEF ReversalsMirror
<1>3. /\ f \in Ids /\ journal'[f] = journal[f] /\ e = journal[f].reverses
      /\ e \in Ids /\ journal'[e] = journal[e]
  BY <1>1, <1>2
<1>4. \A g \in Ids' : journal'[g].reverses = e => g \in Ids /\ journal[g].reverses = e
  BY <1>1
<1>5. \A g \in Ids : journal[g].reverses = e => g = f
  BY <1>3 DEF ReversalsMirror
<1>6. /\ journal[f].date = journal[e].date /\ journal[f].rate = journal[e].rate
      /\ e < f /\ journal[e].reverses = 0
  BY <1>3 DEF ReversalsMirror
<1>7. \A a \in Accounts : /\ journal[f].lines[a].amount = -journal[e].lines[a].amount
                          /\ journal[f].lines[a].base = -journal[e].lines[a].base
  BY <1>3 DEF ReversalsMirror
<1>8. /\ journal'[f].date = journal'[e].date /\ journal'[f].rate = journal'[e].rate
      /\ e < f /\ journal'[e].reverses = 0
  BY <1>3, <1>6
<1>9. \A a \in Accounts : /\ journal'[f].lines[a].amount = -journal'[e].lines[a].amount
                          /\ journal'[f].lines[a].base = -journal'[e].lines[a].base
  BY <1>3, <1>7
<1> QED BY <1>4, <1>5, <1>8, <1>9

\* What a mirror holds, field by field.
LEMMA MirrorFields ==
    ASSUME NEW e
    PROVE  /\ Mirror(e).date = journal[e].date /\ Mirror(e).rate = journal[e].rate
           /\ Mirror(e).reverses = e
           /\ \A a \in Accounts : /\ Mirror(e).lines[a].amount = -journal[e].lines[a].amount
                                  /\ Mirror(e).lines[a].base = -journal[e].lines[a].base
<1> DEFINE lines == [a \in Accounts |-> Line(-journal[e].lines[a].amount,
                                            -journal[e].lines[a].base)]
<1>1. \A a \in Accounts : lines[a].amount = -journal[e].lines[a].amount
  BY DEF Line
<1>2. \A a \in Accounts : lines[a].base = -journal[e].lines[a].base
  BY DEF Line
<1>3. Mirror(e) = Entry(journal[e].date, journal[e].rate, lines, e)
  BY DEF Mirror
<1> HIDE DEF lines
<1>4. /\ Mirror(e).date = journal[e].date /\ Mirror(e).rate = journal[e].rate
      /\ Mirror(e).reverses = e /\ Mirror(e).lines = lines
  BY <1>3 DEF Entry
<1> QED BY <1>1, <1>2, <1>4

\* Mirrors of live entries are reversals of entries that had none.
LEMMA GrownMirrored ==
    ASSUME JournalOK, ReversalsMirror, NEW S \in SUBSET LiveIds, NEW pos, NEW entryOf,
           Grown(S, pos, entryOf), \A x \in S : entryOf[x] = Mirror(x)
    PROVE  ReversalsMirror'
<1> DEFINE New == (Len(journal) + 1)..Len(journal')
<1>1. /\ Len(journal) \in Nat /\ Len(journal') \in Nat
      /\ Ids' = Ids \cup New /\ 0 \notin Ids
      /\ \A e \in Ids : journal'[e] = journal[e] /\ journal[e].reverses \in Ids \cup {0}
      /\ \A i \in Ids, j \in New : i < j
  BY JournalRows DEF Grown, Ids
<1>2. ASSUME NEW f \in New
      PROVE  \E e \in S : pos[e] = f /\ journal'[f] = Mirror(e) /\ journal'[f].reverses = e
  BY <1>2, MirrorFields DEF Grown
<1>3. \A e \in S : e \in Ids /\ journal[e].reverses = 0 /\ \A f \in Ids : journal[f].reverses # e
  BY DEF LiveIds, Live
<1>4. \A x, y \in S : pos[x] = pos[y] => x = y
  BY DEF Grown
<1> HIDE DEF New
<1> SUFFICES ASSUME NEW f \in Ids', NEW e, e = journal'[f].reverses, e # 0
    PROVE  /\ journal'[f].date = journal'[e].date /\ journal'[f].rate = journal'[e].rate
           /\ \A a \in Accounts : /\ journal'[f].lines[a].amount = -journal'[e].lines[a].amount
                                  /\ journal'[f].lines[a].base = -journal'[e].lines[a].base
           /\ e < f /\ journal'[e].reverses = 0
           /\ \A g \in Ids' : journal'[g].reverses = e => g = f
  BY DEF ReversalsMirror
<1>5. CASE f \in Ids
  <2>1. e \in Ids /\ e = journal[f].reverses /\ e \notin S
    BY <1>1, <1>3, <1>5
  <2>2. \A g \in New : journal'[g].reverses # e
    BY <1>2, <2>1
  <2>3. /\ journal'[f] = journal[f] /\ journal'[e] = journal[e]
        /\ \A g \in Ids' : journal'[g].reverses = e => g \in Ids /\ journal[g].reverses = e
    BY <1>1, <1>5, <2>1, <2>2
  <2>4. /\ journal[f].date = journal[e].date /\ journal[f].rate = journal[e].rate
        /\ \A a \in Accounts : /\ journal[f].lines[a].amount = -journal[e].lines[a].amount
                               /\ journal[f].lines[a].base = -journal[e].lines[a].base
        /\ e < f /\ journal[e].reverses = 0
        /\ \A g \in Ids : journal[g].reverses = e => g = f
    BY <1>5, <2>1 DEF ReversalsMirror
  <2> QED BY <2>3, <2>4
<1>6. CASE f \in New
  <2>1. e \in S /\ journal'[f] = Mirror(e) /\ pos[e] = f
    BY <1>2, <1>6
  <2>2. /\ e \in Ids /\ journal'[e] = journal[e] /\ journal[e].reverses = 0 /\ e < f
    BY <1>1, <1>3, <1>6, <2>1
  <2>3. \A g \in Ids' : journal'[g].reverses = e => g = f
    BY <1>1, <1>2, <1>3, <1>4, <2>1
  <2>4. Mirror(e).date = journal[e].date /\ Mirror(e).rate = journal[e].rate
    BY MirrorFields
  <2>5. \A a \in Accounts : /\ Mirror(e).lines[a].amount = -journal[e].lines[a].amount
                            /\ Mirror(e).lines[a].base = -journal[e].lines[a].base
    BY MirrorFields
  <2>6. /\ journal'[f].date = journal'[e].date /\ journal'[f].rate = journal'[e].rate
    BY <2>1, <2>2, <2>4
  <2>7. \A a \in Accounts : /\ journal'[f].lines[a].amount = -journal'[e].lines[a].amount
                            /\ journal'[f].lines[a].base = -journal'[e].lines[a].base
    BY <2>1, <2>2, <2>5
  <2> QED BY <2>2, <2>3, <2>6, <2>7
<1> QED BY <1>1, <1>5, <1>6

-----------------------------------------------------------------------------
(* What is inserted balances. *)

\* Three lines that cancel make the total zero.
LEMMA ThreeLines ==
    ASSUME NEW f, \A a \in Accounts : f[a] \in Int,
           NEW c \in {"ar", "ap", "inventory"},
           NEW t \in {"revenue", "expense", "cash", "fx", "cogs", "grni"},
           \A a \in Accounts : a \notin {c, t, "tax"} => f[a] = 0,
           f[c] + f[t] + f["tax"] = 0
    PROVE  Total(f) = 0
<1>1. /\ f["ar"] \in Int /\ f["ap"] \in Int /\ f["cash"] \in Int /\ f["revenue"] \in Int
      /\ f["expense"] \in Int /\ f["tax"] \in Int /\ f["fx"] \in Int
      /\ f["inventory"] \in Int /\ f["cogs"] \in Int /\ f["grni"] \in Int
  BY DEF Accounts
<1>2. /\ c = "ar" \/ f["ar"] = 0
      /\ c = "ap" \/ f["ap"] = 0
      /\ c = "inventory" \/ f["inventory"] = 0
  BY DEF Accounts
<1>3. /\ t = "revenue" \/ f["revenue"] = 0
      /\ t = "expense" \/ f["expense"] = 0
      /\ t = "cash" \/ f["cash"] = 0
      /\ t = "fx" \/ f["fx"] = 0
      /\ t = "cogs" \/ f["cogs"] = 0
      /\ t = "grni" \/ f["grni"] = 0
  BY DEF Accounts
<1>4. f["ar"] + f["ap"] + f["inventory"] = f[c]
  BY <1>1, <1>2
<1>5. f["revenue"] + f["expense"] + f["cash"] + f["fx"] + f["cogs"] + f["grni"] = f[t]
  <2>1. CASE t \in {"revenue", "expense", "cash"}
    <3>1. f["fx"] = 0 /\ f["cogs"] = 0 /\ f["grni"] = 0
      BY <1>3, <2>1
    <3> QED BY <1>1, <1>3, <2>1, <3>1
  <2>2. CASE t \in {"fx", "cogs", "grni"}
    <3>1. f["revenue"] = 0 /\ f["expense"] = 0 /\ f["cash"] = 0
      BY <1>3, <2>2
    <3> QED BY <1>1, <1>3, <2>2, <3>1
  <2> QED BY <2>1, <2>2
<1> QED BY <1>1, <1>4, <1>5 DEF Total

\* A document's entry: the control line's base is the sum of the details'.
LEMMA DocumentLinesOK ==
    ASSUME NEW d \in Docs, doc[d].net \in Int, doc[d].tax \in Int, Gross(d) > 0,
           EntryRate(d) \in Nat, NEW p \in Postings
    PROVE  /\ DocumentLines(d, p[1], p[2], p[3]) \in Lines
           /\ EntryOK(DocumentLines(d, p[1], p[2], p[3]))
<1> DEFINE net == doc[d].net
           tax == doc[d].tax
           bn == Convert(net, EntryRate(d))
           bt == Convert(tax, EntryRate(d))
           control == p[1]
           side == p[2]
           detail == p[3]
           L == [a \in Accounts |->
                   CASE a = control -> Line(side * (net + tax), side * (bn + bt))
                     [] a = detail  -> Line(-side * net, -side * bn)
                     [] a = "tax"   -> Line(-side * tax, -side * bt)
                     [] OTHER       -> NoLine]
<1>1. DocumentLines(d, p[1], p[2], p[3]) = L
  BY DEF DocumentLines
<1>2. /\ net \in Int /\ tax \in Int /\ net + tax > 0
      /\ bn \in Int /\ bt \in Int
  BY ConvertInt DEF Gross
<1>3. /\ bn + bt >= 0
      /\ net >= 0 => bn >= 0
      /\ net <= 0 => bn <= 0
      /\ tax >= 0 => bt >= 0
      /\ tax <= 0 => bt <= 0
  <2>1. -tax \in Int /\ -tax <= net
    BY <1>2
  <2>2. Convert(-tax, EntryRate(d)) <= bn /\ Convert(-tax, EntryRate(d)) = -bt
    BY <1>2, <2>1, ConvertMonotone, ConvertOdd
  <2> QED BY <1>2, <2>2, ConvertSign
<1>4. /\ control \in Accounts /\ detail \in Accounts /\ "tax" \in Accounts
      /\ control # detail /\ control # "tax" /\ detail # "tax" /\ side \in {1, -1}
  BY DEF Postings, Accounts
<1> HIDE DEF net, tax, bn, bt, control, side, detail
<1>5. /\ side * (net + tax) \in Int /\ side * (bn + bt) \in Int
      /\ -side * net \in Int /\ -side * bn \in Int
      /\ -side * tax \in Int /\ -side * bt \in Int
      /\ side * (net + tax) + (-side * net) + (-side * tax) = 0
      /\ side * (bn + bt) + (-side * bn) + (-side * bt) = 0
      /\ side * (net + tax) # 0
  BY <1>2, <1>4
<1>6. /\ side * (bn + bt) > 0 => side * (net + tax) > 0
      /\ side * (bn + bt) < 0 => side * (net + tax) < 0
      /\ -side * bn > 0 => -side * net > 0
      /\ -side * bn < 0 => -side * net < 0
      /\ -side * bt > 0 => -side * tax > 0
      /\ -side * bt < 0 => -side * tax < 0
  BY <1>2, <1>3, <1>4
<1>7. L \in Lines
  BY <1>4, <1>5 DEF Lines, Line, NoLine
<1>8. /\ L[control].amount # 0
      /\ \A a \in Accounts : /\ L[a].base > 0 => L[a].amount > 0
                             /\ L[a].base < 0 => L[a].amount < 0
  BY <1>4, <1>5, <1>6 DEF Line, NoLine
<1>9. Total(Amounts(L)) = 0 /\ Total(Bases(L)) = 0
  <2>1. \A a \in Accounts : /\ Amounts(L)[a] = L[a].amount /\ Amounts(L)[a] \in Int
                            /\ Bases(L)[a] = L[a].base /\ Bases(L)[a] \in Int
    BY <1>7 DEF Amounts, Bases, Lines
  <2>2. /\ control \in {"ar", "ap", "inventory"}
        /\ detail \in {"revenue", "expense", "cash", "fx", "cogs", "grni"}
    BY DEF Postings, control, detail
  <2>3. /\ L[control] = Line(side * (net + tax), side * (bn + bt))
        /\ L[detail] = Line(-side * net, -side * bn)
        /\ L["tax"] = Line(-side * tax, -side * bt)
        /\ \A a \in Accounts \ {control, detail, "tax"} : L[a] = NoLine
    BY <1>4
  <2>4. /\ \A a \in Accounts : a \notin {control, detail, "tax"} => Amounts(L)[a] = 0 /\ Bases(L)[a] = 0
        /\ Amounts(L)[control] + Amounts(L)[detail] + Amounts(L)["tax"] = 0
        /\ Bases(L)[control] + Bases(L)[detail] + Bases(L)["tax"] = 0
    BY <1>4, <1>5, <2>1, <2>3 DEF Line, NoLine
  <2> HIDE DEF L
  <2>5. Total(Amounts(L)) = 0
    BY <2>1, <2>2, <2>4, ThreeLines
  <2>6. Total(Bases(L)) = 0
    BY <2>1, <2>2, <2>4, ThreeLines
  <2> QED BY <2>5, <2>6
<1> HIDE DEF L
<1> QED BY <1>1, <1>4, <1>7, <1>8, <1>9 DEF EntryOK

\* An exchange entry: two equal lines, in base currency on both sides.
LEMMA FxEntryOK ==
    ASSUME NEW a, Difference(a) \in Int, Difference(a) # 0
    PROVE  FxEntry(a).lines \in Lines /\ EntryOK(FxEntry(a).lines)
<1> DEFINE arSide == Settles(Kind[a.settler]) = "sales_invoice"
           control == IF arSide THEN "ar" ELSE "ap"
           v == IF arSide THEN Difference(a) ELSE -Difference(a)
           L == [c \in Accounts |-> CASE c = control -> Line(v, v)
                                     [] c = "fx"    -> Line(-v, -v)
                                     [] OTHER       -> NoLine]
<1>1. FxEntry(a).lines = L
  BY DEF FxEntry, Entry
<1>2. /\ v \in Int /\ -v \in Int /\ v # 0 /\ v + (-v) + 0 = 0
      /\ control \in {"ar", "ap"} /\ control # "fx" /\ control # "tax"
      /\ control \in Accounts /\ "fx" \in Accounts /\ "tax" \in Accounts
  BY DEF Accounts
<1> HIDE DEF v, control
<1>3. /\ L[control] = Line(v, v) /\ L["fx"] = Line(-v, -v)
      /\ \A c \in Accounts \ {control, "fx"} : L[c] = NoLine
  BY <1>2
<1>4. L \in Lines
  BY <1>2 DEF Lines, Line, NoLine
<1>5. /\ L[control].amount # 0
      /\ \A c \in Accounts : L[c].base = L[c].amount
  BY <1>2, <1>3 DEF Line, NoLine
<1>6. Total(Amounts(L)) = 0 /\ Total(Bases(L)) = 0
  <2>1. \A c \in Accounts : /\ Amounts(L)[c] = L[c].amount /\ Amounts(L)[c] \in Int
                            /\ Bases(L)[c] = L[c].base /\ Bases(L)[c] \in Int
    BY <1>4 DEF Amounts, Bases, Lines
  <2>2. /\ \A c \in Accounts : c \notin {control, "fx", "tax"} => Amounts(L)[c] = 0 /\ Bases(L)[c] = 0
        /\ Amounts(L)[control] + Amounts(L)["fx"] + Amounts(L)["tax"] = 0
        /\ Bases(L)[control] + Bases(L)["fx"] + Bases(L)["tax"] = 0
    BY <1>2, <1>3, <2>1 DEF Line, NoLine
  <2> HIDE DEF L
  <2>3. Total(Amounts(L)) = 0
    BY <1>2, <2>1, <2>2, ThreeLines
  <2>4. Total(Bases(L)) = 0
    BY <1>2, <2>1, <2>2, ThreeLines
  <2> QED BY <2>3, <2>4
<1> HIDE DEF L
<1> QED BY <1>1, <1>2, <1>4, <1>5, <1>6 DEF EntryOK

\* A mirror of a balanced entry balances.
LEMMA MirrorOK ==
    ASSUME NEW e, journal[e].lines \in Lines, EntryOK(journal[e].lines)
    PROVE  Mirror(e).lines \in Lines /\ EntryOK(Mirror(e).lines)
<1> DEFINE K == journal[e].lines
           L == [a \in Accounts |-> Line(-K[a].amount, -K[a].base)]
<1>1. Mirror(e).lines = L
  BY DEF Mirror, Entry
<1>2. \A a \in Accounts : K[a].amount \in Int /\ K[a].base \in Int
  BY DEF Lines
<1> HIDE DEF K
<1>3. /\ L \in Lines
      /\ \A a \in Accounts : L[a].amount = -K[a].amount /\ L[a].base = -K[a].base
  BY <1>2 DEF Lines, Line
<1>4. /\ \A a \in Accounts : /\ Amounts(L)[a] = -Amounts(K)[a] /\ Bases(L)[a] = -Bases(K)[a]
                             /\ Amounts(K)[a] \in Int /\ Bases(K)[a] \in Int
  BY <1>2, <1>3 DEF Amounts, Bases
<1>5. /\ Total(Amounts(K)) = 0 => Total(Amounts(L)) = 0
      /\ Total(Bases(K)) = 0 => Total(Bases(L)) = 0
  <2> HIDE DEF L
  <2> QED BY <1>4 DEF Total, Accounts
<1>6. EntryOK(K)
  BY DEF K
<1> HIDE DEF L
<1>7. \A a \in Accounts : /\ L[a].amount = -K[a].amount /\ L[a].base = -K[a].base
                         /\ K[a].amount \in Int /\ K[a].base \in Int
  BY <1>2, <1>3
<1>8. /\ \E a \in Accounts : L[a].amount # 0
      /\ \A a \in Accounts : /\ L[a].base > 0 => L[a].amount > 0
                             /\ L[a].base < 0 => L[a].amount < 0
  BY <1>6, <1>7 DEF EntryOK
<1>9. Total(Amounts(L)) = 0 /\ Total(Bases(L)) = 0
  <2>1. Total(Amounts(K)) = 0 /\ Total(Bases(K)) = 0
    BY <1>6 DEF EntryOK
  <2> QED BY <1>5, <2>1
<1> QED BY <1>1, <1>3, <1>8, <1>9 DEF EntryOK

-----------------------------------------------------------------------------
(* The inductive invariant: the five invariants need one another.  A type is *)
(* kept because links name live entries, an entry has one owner because an   *)
(* applied document stays posted, and a reversal is unique because only live *)
(* entries are owned.                                                        *)

IInv == /\ TypeOK
        /\ EntriesBalanced
        /\ ReversalsMirror
        /\ LiveEntriesOwned
        /\ ApplicationsPinPosted

DocRow(ids) == [status : {"absent", "draft", "posted", "deleted"},
                date : Dates \cup {0}, net : Int, tax : Int, entry : ids \cup {0}]
AppRow(ids) == [settler : Docs, target : Docs, amount : Nat \ {0}, fx : ids \cup {0}]

DocsOK == /\ doc \in [Docs -> DocRow(Ids)]
          /\ \A d \in Docs : doc[d].status = "posted" <=> doc[d].entry # 0
          /\ \A d \in Docs : doc[d].status \in {"draft", "posted"} => doc[d].date \in Dates

SettingsOK == /\ rates \in [Dates -> Nat]
              /\ period \in [Dates -> {"none", "open", "closed"}]
              /\ fxAccount \in BOOLEAN
              /\ matched \subseteq Ids

\* The type invariant, table by table.
LEMMA TypeParts ==
    TypeOK <=> DocsOK /\ apps \subseteq AppRow(Ids) /\ JournalOK /\ SettingsOK
BY DEF TypeOK, DocsOK, DocRow, AppRow, JournalOK, Row, Lines, SettingsOK

\* The same of the next state.
LEMMA TypePartsNext ==
    TypeOK' <=> DocsOK' /\ (apps \subseteq AppRow(Ids))' /\ JournalOK' /\ SettingsOK'
BY DEF TypeOK, DocsOK, DocRow, AppRow, JournalOK, Row, Lines, SettingsOK

\* The empty books satisfy the invariant.
LEMMA InitInv == Init => IInv
<1> SUFFICES ASSUME Init PROVE IInv
  OBVIOUS
<1> USE DEF Init
<1>1. Ids = {} /\ Len(journal) = 0
  BY DEF Ids
<1>2. DocsOK
  BY DEF DocsOK, DocRow, NoDoc
<1>3. JournalOK
  BY DEF JournalOK
<1>4. SettingsOK
  BY DEF SettingsOK
<1>5. EntriesBalanced /\ ReversalsMirror
  BY <1>1 DEF EntriesBalanced, ReversalsMirror
<1>6. LiveEntriesOwned
  BY <1>1 DEF LiveEntriesOwned, DocEntries, FxEntries, NoDoc
<1>7. ApplicationsPinPosted
  BY DEF ApplicationsPinPosted
<1> QED BY <1>2, <1>3, <1>4, <1>5, <1>6, <1>7, TypeParts DEF IInv

\* Writing a document that is not posted, before or after, touches nothing else.
LEMMA DraftWrite ==
    ASSUME IInv, NEW d \in Docs, doc[d].status # "posted", NEW row \in DocRow({}),
           row.status # "posted", row.status = "draft" => row.date \in Dates,
           doc' = [doc EXCEPT ![d] = row], UNCHANGED Ledger
    PROVE  IInv'
<1>1. DocsOK /\ apps \subseteq AppRow(Ids) /\ JournalOK /\ SettingsOK
  BY TypeParts DEF IInv
<1>2. /\ journal' = journal /\ apps' = apps /\ rates' = rates /\ period' = period
      /\ fxAccount' = fxAccount /\ matched' = matched /\ Ids' = Ids
  BY DEF Ledger, Ids
<1>3. /\ row.entry = 0 /\ doc[d].entry = 0
      /\ doc'[d] = row
      /\ \A c \in Docs : c # d => doc'[c] = doc[c]
      /\ \A c \in Docs : doc'[c].entry = doc[c].entry
  BY <1>1 DEF DocsOK, DocRow
<1>4. DocsOK'
  BY <1>1, <1>2, <1>3 DEF DocsOK, DocRow
<1>5. (apps \subseteq AppRow(Ids))' /\ JournalOK' /\ SettingsOK'
  BY <1>1, <1>2 DEF JournalOK, SettingsOK
<1>6. EntriesBalanced' /\ ReversalsMirror'
  <2>1. EntriesBalanced'
    BY <1>2 DEF IInv, EntriesBalanced
  <2>2. ReversalsMirror'
    BY <1>2 DEF IInv, ReversalsMirror
  <2> QED BY <2>1, <2>2
<1>7. LiveEntriesOwned'
  <2>1. {e \in Ids : Live(e)}' = {e \in Ids : Live(e)}
    BY <1>2 DEF Live
  <2>2. DocEntries' = DocEntries
    BY <1>3 DEF DocEntries
  <2>3. FxEntries' = FxEntries
    BY <1>2 DEF FxEntries
  <2>4. \A c, x \in Docs : doc'[c].entry = doc'[x].entry /\ doc'[c].entry # 0 => c = x
    BY <1>3 DEF IInv, LiveEntriesOwned
  <2>5. \A a, b \in apps : a.fx = b.fx /\ a.fx # 0 => a = b
    BY DEF IInv, LiveEntriesOwned
  <2> QED BY <1>2, <2>1, <2>2, <2>3, <2>4, <2>5 DEF IInv, LiveEntriesOwned
<1>8. ApplicationsPinPosted'
  <2>1. \A a \in apps : /\ a.settler \in Docs /\ a.target \in Docs
                        /\ a.settler # d /\ a.target # d
    BY <1>1 DEF IInv, ApplicationsPinPosted, AppRow
  <2> QED BY <1>2, <1>3, <2>1 DEF IInv, ApplicationsPinPosted
<1> QED BY <1>4, <1>5, <1>6, <1>7, <1>8, TypePartsNext DEF IInv

\* Creating, editing and deleting drafts keeps the invariant.
LEMMA DraftInv ==
    ASSUME IInv, NEW d \in Docs, NEW k \in Kinds,
           Create(d, k) \/ Update(d, k) \/ Delete(d, k)
    PROVE  IInv'
<1>1. CASE Create(d, k) \/ Update(d, k)
  <2>1. PICK in \in Inputs[d] : doc' = [doc EXCEPT ![d] = Draft(in)]
    BY <1>1 DEF Create, Update
  <2>2. in.date \in Dates /\ in.net \in Int /\ in.tax \in Int
    <3>1. in \in Contents(Kind[d])
      BY SubledgerAssumption
    <3> QED BY <3>1 DEF Contents
  <2>3. /\ Draft(in) \in DocRow({}) /\ Draft(in).status = "draft" /\ Draft(in).date \in Dates
    BY <2>2 DEF Draft, DocRow
  <2>4. doc[d].status # "posted" /\ UNCHANGED Ledger
    BY <1>1 DEF Create, Update, IsDraft
  <2> QED BY <2>1, <2>3, <2>4, DraftWrite
<1>2. CASE Delete(d, k)
  <2>1. /\ NoDoc("deleted") \in DocRow({}) /\ NoDoc("deleted").status = "deleted"
    BY DEF NoDoc, DocRow
  <2>2. doc[d].status # "posted" /\ UNCHANGED Ledger /\ doc' = [doc EXCEPT ![d] = NoDoc("deleted")]
    BY <1>2 DEF Delete, IsDraft
  <2> QED BY <2>1, <2>2, DraftWrite
<1> QED BY <1>1, <1>2

\* Applications stay pinned while their documents and entries are left alone.
LEMMA PinsKept ==
    ASSUME ApplicationsPinPosted, apps' \subseteq apps,
           \A a \in apps' : /\ doc'[a.settler] = doc[a.settler]
                            /\ doc'[a.target] = doc[a.target]
                            /\ journal'[doc[a.settler].entry] = journal[doc[a.settler].entry]
                            /\ journal'[doc[a.target].entry] = journal[doc[a.target].entry]
    PROVE  ApplicationsPinPosted'
<1> SUFFICES ASSUME NEW a \in apps'
    PROVE /\ doc'[a.settler].status = "posted" /\ doc'[a.target].status = "posted"
          /\ Kind[a.target] = Settles(Kind[a.settler])
          /\ Party[a.target] = Party[a.settler]
          /\ (a.target \in Foreign <=> a.settler \in Foreign)
          /\ (a.fx # 0 <=> Convert(a.amount, journal'[doc'[a.settler].entry].rate)
                           # Convert(a.amount, journal'[doc'[a.target].entry].rate))
          /\ \A b \in apps' : b.settler = a.settler /\ b.target = a.target => b = a
  BY DEF ApplicationsPinPosted
<1>1. a \in apps
  OBVIOUS
<1> QED BY <1>1 DEF ApplicationsPinPosted

\* Posting keeps the invariant.
LEMMA PostInv ==
    ASSUME IInv, NEW d \in Docs, NEW k \in Kinds, NEW p \in Postings,
           Post(d, k, p[1], p[2], p[3])
    PROVE  IInv'
<1> DEFINE n == Len(journal) + 1
           e == Entry(doc[d].date, EntryRate(d), DocumentLines(d, p[1], p[2], p[3]), 0)
<1>1. DocsOK /\ apps \subseteq AppRow(Ids) /\ JournalOK /\ SettingsOK
  BY TypeParts DEF IInv
<1>2. /\ doc[d].status = "draft" /\ doc[d].entry = 0 /\ doc[d].date \in Dates
      /\ Gross(d) > 0 /\ EntryRate(d) # 0
      /\ journal' = Append(journal, e)
      /\ doc' = [doc EXCEPT ![d].status = "posted", ![d].entry = n]
      /\ period' = [period EXCEPT ![doc[d].date] = "open"]
      /\ apps' = apps /\ rates' = rates /\ fxAccount' = fxAccount /\ matched' = matched
  BY <1>1 DEF Post, IsDraft, TouchPeriod, DocsOK
<1>3. EntryRate(d) \in Nat \ {0}
  BY <1>1, <1>2, RateOnNat, SubledgerAssumption DEF EntryRate, SettingsOK
<1>4. e \in Row(Ids) /\ e.reverses = 0 /\ EntryOK(e.lines)
  <2>1. doc[d].net \in Int /\ doc[d].tax \in Int
    BY <1>1 DEF DocsOK, DocRow
  <2>2. /\ DocumentLines(d, p[1], p[2], p[3]) \in Lines
        /\ EntryOK(DocumentLines(d, p[1], p[2], p[3]))
    BY <1>2, <1>3, <2>1, DocumentLinesOK
  <2> QED BY <1>2, <1>3, <2>2 DEF Entry, Row
<1> HIDE DEF e
<1> DEFINE at == [y \in {d} |-> n]
           of == [y \in {d} |-> e]
<1>5. Grown({d}, at, of)
  BY <1>1, <1>2, <1>4, AppendGrown DEF JournalOK
<1>6. \A x \in {d} : at[x] = n /\ of[x] = e
  OBVIOUS
<1> HIDE DEF at, of
<1>7. JournalOK' /\ Ids \subseteq Ids'
  BY <1>1, <1>4, <1>5, <1>6, GrownType
<1>8. LiveIds' = LiveIds \cup {n}
  <2>1. LiveIds' = LiveIds \cup {at[x] : x \in {d}}
    BY <1>1, <1>4, <1>5, <1>6, GrownLive
  <2> QED BY <1>6, <2>1
<1>9. n \in Ids' /\ n \notin Ids /\ n # 0 /\ 0 \notin Ids /\ \A i \in Ids : journal'[i] = journal[i]
  BY <1>1, <1>5, <1>6, JournalRows DEF Grown, Ids
<1>10. /\ doc'[d].status = "posted" /\ doc'[d].entry = n /\ doc'[d].date = doc[d].date
       /\ \A c \in Docs : c # d => doc'[c] = doc[c]
       /\ doc' \in [Docs -> DocRow(Ids')]
  <2>1. DOMAIN doc = Docs /\ doc \in [Docs -> DocRow(Ids')]
    BY <1>1, <1>7 DEF DocsOK, DocRow
  <2>2. doc'[d] = [doc[d] EXCEPT !.status = "posted", !.entry = n]
    BY <1>2, <2>1
  <2>3. /\ doc'[d].status = "posted" /\ doc'[d].entry = n /\ doc'[d].date = doc[d].date
        /\ doc'[d] \in DocRow(Ids')
    BY <1>9, <2>1, <2>2 DEF DocRow
  <2> QED BY <1>2, <2>1, <2>3
<1>11. DocsOK'
  BY <1>1, <1>2, <1>9, <1>10 DEF DocsOK
<1>12. (apps \subseteq AppRow(Ids))'
  BY <1>1, <1>2, <1>7 DEF AppRow
<1>13. SettingsOK'
  BY <1>1, <1>2, <1>7 DEF SettingsOK
<1>14. EntriesBalanced'
  BY <1>1, <1>4, <1>5, <1>6, GrownBalanced DEF IInv
<1>15. ReversalsMirror'
  BY <1>1, <1>4, <1>5, <1>6, GrownMirror DEF IInv
<1>16. LiveEntriesOwned'
  <2>1. \A c \in Docs : doc[c].entry \in Ids \cup {0}
    BY <1>1 DEF DocsOK, DocRow
  <2>2. DocEntries' = DocEntries \cup {n}
    BY <1>2, <1>9, <1>10, <2>1 DEF DocEntries
  <2>3. FxEntries' = FxEntries /\ FxEntries \subseteq Ids
    BY <1>1, <1>2 DEF FxEntries, AppRow
  <2>4. \A c, b \in Docs : doc'[c].entry = doc'[b].entry /\ doc'[c].entry # 0 => c = b
    BY <1>9, <1>10, <2>1 DEF IInv, LiveEntriesOwned
  <2>5. LiveIds' = DocEntries' \cup FxEntries' /\ DocEntries' \cap FxEntries' = {}
    BY <1>8, <1>9, <2>2, <2>3 DEF IInv, LiveEntriesOwned, LiveIds
  <2> QED BY <1>2, <2>4, <2>5 DEF IInv, LiveEntriesOwned, LiveIds
<1>17. ApplicationsPinPosted'
  <2>1. \A a \in apps : /\ a.settler \in Docs /\ a.target \in Docs
                        /\ a.settler # d /\ a.target # d
                        /\ doc[a.settler].entry \in Ids /\ doc[a.target].entry \in Ids
    BY <1>1, <1>2 DEF IInv, ApplicationsPinPosted, AppRow, DocsOK, DocRow
  <2> QED BY <1>2, <1>9, <1>10, <2>1, PinsKept DEF IInv
<1> QED BY <1>7, <1>11, <1>12, <1>13, <1>14, <1>15, <1>16, <1>17, TypePartsNext DEF IInv

\* Unposting reverses exactly the live entries of the document and of its
\* applications, and removes the applications: nobody is left owning a dead
\* entry.
LEMMA UnpostAny ==
    ASSUME IInv, NEW d \in Docs, doc[d].status = "posted", AppsTo(d) = {},
           ReverseEntries(doc[d].entry, FxEntriesOf(d)), ToDraft(d), apps' = apps \ AppsOf(d),
           rates' = rates, fxAccount' = fxAccount, matched' = matched
    PROVE  IInv'
<1> DEFINE first == doc[d].entry
           E == {first} \cup FxEntriesOf(d)
           of == [e \in E |-> Mirror(e)]
<1>1. DocsOK /\ apps \subseteq AppRow(Ids) /\ JournalOK /\ SettingsOK
  BY TypeParts DEF IInv
<1>2. /\ first \in Ids /\ first # 0 /\ first \in DocEntries
      /\ FxEntriesOf(d) \subseteq FxEntries
      /\ \A c \in Docs : doc[c].entry \in Ids \cup {0}
  BY <1>1 DEF DocsOK, DocRow, DocEntries, FxEntriesOf, FxEntries, AppsOf
<1>3. E \in SUBSET LiveIds
  BY <1>2 DEF IInv, LiveEntriesOwned, LiveIds
<1>4. PICK n \in 0..Room : \E pos \in Bijection(E, NewIds(n)) : journal' = Extended(n, E, pos, of)
  BY DEF ReverseEntries
<1>5. PICK pos \in Bijection(E, NewIds(n)) : journal' = Extended(n, E, pos, of)
  BY <1>4
<1>6. period' = [t \in Dates |-> IF \E e \in E : journal[e].date = t THEN "open" ELSE period[t]]
  BY DEF ReverseEntries
<1>7. \A e \in E : of[e] = Mirror(e)
  OBVIOUS
<1>8. n \in Nat
  BY <1>4
<1> HIDE DEF E, of, first
<1>9. Grown(E, pos, of)
  BY <1>1, <1>5, <1>8, ExtendedGrown DEF JournalOK
<1>10. ASSUME NEW e \in E
       PROVE  of[e] \in Row(Ids) /\ of[e].reverses = e /\ EntryOK(of[e].lines)
  <2>1. e \in Ids /\ journal[e] \in Row(Ids) /\ journal[e].lines \in Lines
    BY <1>1, <1>3, JournalRows DEF LiveIds
  <2>2. EntryOK(journal[e].lines)
    BY <2>1 DEF IInv, EntriesBalanced
  <2>3. Mirror(e).lines \in Lines /\ EntryOK(Mirror(e).lines)
    BY <2>1, <2>2, MirrorOK
  <2>4. /\ Mirror(e).date = journal[e].date /\ Mirror(e).rate = journal[e].rate
        /\ Mirror(e).reverses = e
        /\ Mirror(e) = [date |-> Mirror(e).date, rate |-> Mirror(e).rate,
                        lines |-> Mirror(e).lines, reverses |-> Mirror(e).reverses]
    BY DEF Mirror, Entry
  <2>5. Mirror(e) \in Row(Ids)
    BY <2>1, <2>3, <2>4 DEF Row
  <2> QED BY <1>7, <2>3, <2>4, <2>5
<1>11. JournalOK' /\ Ids \subseteq Ids' /\ \A i \in Ids : journal'[i] = journal[i]
  <2>1. \A e \in E : of[e] \in Row(Ids)
    BY <1>10
  <2>2. JournalOK' /\ Ids \subseteq Ids'
    BY <1>1, <1>9, <2>1, GrownType
  <2> QED BY <1>9, <2>2 DEF Grown
<1>12. LiveIds' = LiveIds \ E
  BY <1>1, <1>3, <1>9, <1>10, GrownDead
<1>13. EntriesBalanced'
  BY <1>1, <1>9, <1>10, GrownBalanced DEF IInv
<1>14. ReversalsMirror'
  BY <1>1, <1>3, <1>7, <1>9, GrownMirrored DEF IInv
<1>15. /\ doc'[d].status = "draft" /\ doc'[d].entry = 0 /\ doc'[d].date = doc[d].date
       /\ \A c \in Docs : c # d => doc'[c] = doc[c]
       /\ doc' \in [Docs -> DocRow(Ids')]
  <2>1. DOMAIN doc = Docs /\ doc \in [Docs -> DocRow(Ids')]
    BY <1>1, <1>11 DEF DocsOK, DocRow
  <2>2. doc' = [doc EXCEPT ![d].status = "draft", ![d].entry = 0]
    BY DEF ToDraft
  <2>3. doc'[d] = [doc[d] EXCEPT !.status = "draft", !.entry = 0]
    BY <2>1, <2>2
  <2>4. /\ doc'[d].status = "draft" /\ doc'[d].entry = 0 /\ doc'[d].date = doc[d].date
        /\ doc'[d] \in DocRow(Ids')
    BY <2>1, <2>3 DEF DocRow
  <2> QED BY <2>1, <2>2, <2>4
<1>16. DocsOK'
  BY <1>1, <1>15 DEF DocsOK
<1>17. (apps \subseteq AppRow(Ids))'
  BY <1>1, <1>11 DEF AppRow
<1>18. SettingsOK'
  BY <1>1, <1>6, <1>11 DEF SettingsOK
<1>19. LiveEntriesOwned'
  <2>1. DocEntries' = DocEntries \ {first}
    BY <1>2, <1>15 DEF DocEntries, IInv, LiveEntriesOwned, first
  <2>2. FxEntries' = FxEntries \ FxEntriesOf(d)
    BY DEF FxEntries, FxEntriesOf, IInv, LiveEntriesOwned, AppsOf
  <2>3. DocEntries \cup FxEntries = LiveIds /\ DocEntries \cap FxEntries = {}
    BY DEF IInv, LiveEntriesOwned, LiveIds
  <2>4. LiveIds' = DocEntries' \cup FxEntries' /\ DocEntries' \cap FxEntries' = {}
    BY <1>2, <1>12, <2>1, <2>2, <2>3 DEF E
  <2>5. \A c, b \in Docs : doc'[c].entry = doc'[b].entry /\ doc'[c].entry # 0 => c = b
    BY <1>15 DEF IInv, LiveEntriesOwned
  <2>6. \A a, b \in apps' : a.fx = b.fx /\ a.fx # 0 => a = b
    BY DEF IInv, LiveEntriesOwned
  <2> QED BY <2>4, <2>5, <2>6 DEF LiveEntriesOwned, LiveIds
<1>20. ApplicationsPinPosted'
  <2>1. \A a \in apps' : /\ a \in apps /\ a.settler \in Docs /\ a.target \in Docs
                         /\ a.settler # d /\ a.target # d
                         /\ doc[a.settler].entry \in Ids /\ doc[a.target].entry \in Ids
    BY <1>1, <1>2 DEF IInv, ApplicationsPinPosted, AppRow, DocsOK, AppsOf, AppsTo
  <2> QED BY <1>11, <1>15, <2>1, PinsKept DEF IInv
<1> QED BY <1>11, <1>13, <1>14, <1>16, <1>17, <1>18, <1>19, <1>20, TypePartsNext DEF IInv

\* Unposting any document keeps the invariant.
LEMMA UnpostInv ==
    ASSUME IInv, NEW d \in Docs,
           \/ \E k \in Kinds : Unpost(d, k)
           \/ \E k \in Payments : UnpostPayment(d, k)
    PROVE  IInv'
<1>1. CASE \E k \in Kinds : Unpost(d, k)
  <2>1. AppsTo(d) = {} /\ AppsOf(d) = {} /\ FxEntriesOf(d) = {}
    BY <1>1 DEF Unpost, HasApplications, FxEntriesOf
  <2> QED BY <1>1, <2>1, UnpostAny DEF Unpost
<1>2. CASE \E k \in Payments : UnpostPayment(d, k)
  <2>1. AppsTo(d) = {}
    BY <1>2 DEF IInv, ApplicationsPinPosted, AppsTo, Settles, UnpostPayment, Payments
  <2> QED BY <1>2, <2>1, UnpostAny DEF UnpostPayment
<1> QED BY <1>1, <1>2

\* The administrator's and the bank's steps leave the ledger alone.
LEMMA SurroundingsInv ==
    ASSUME IInv, Surroundings \/ UNCHANGED vars
    PROVE  IInv'
<1>1. DocsOK /\ apps \subseteq AppRow(Ids) /\ JournalOK /\ SettingsOK
  BY TypeParts DEF IInv
<1>2. doc' = doc /\ apps' = apps /\ journal' = journal /\ Ids' = Ids
  BY DEF Surroundings, SetExchangeRate, CreateAccountingPeriod, UpdateAccountingPeriod,
       UpdateSettings, MatchLine, UnmatchLine, Documents, vars, Ids
<1>3. SettingsOK'
  <2>1. CASE \E t \in Dates, r \in Rates \cup {0} : SetExchangeRate(t, r)
    BY <1>1, <1>2, <2>1, SubledgerAssumption DEF SettingsOK, SetExchangeRate
  <2>2. CASE \E t \in Dates : CreateAccountingPeriod(t)
    BY <1>1, <1>2, <2>2 DEF SettingsOK, CreateAccountingPeriod
  <2>3. CASE \E t \in Dates, status \in {"open", "closed"} : UpdateAccountingPeriod(t, status)
    BY <1>1, <1>2, <2>3 DEF SettingsOK, UpdateAccountingPeriod
  <2>4. CASE UpdateSettings
    BY <1>1, <1>2, <2>4 DEF SettingsOK, UpdateSettings
  <2>5. CASE \E e \in 1..Len(journal) : MatchLine(e)
    BY <1>1, <1>2, <2>5 DEF SettingsOK, MatchLine, Ids
  <2>6. CASE \E e \in matched : UnmatchLine(e)
    BY <1>1, <1>2, <2>6 DEF SettingsOK, UnmatchLine
  <2>7. CASE UNCHANGED vars
    BY <1>1, <1>2, <2>7 DEF SettingsOK, vars
  <2> QED BY <2>1, <2>2, <2>3, <2>4, <2>5, <2>6, <2>7 DEF Surroundings
<1>4. DocsOK' /\ (apps \subseteq AppRow(Ids))' /\ JournalOK'
  BY <1>1, <1>2 DEF DocsOK, JournalOK
<1>5. EntriesBalanced' /\ ReversalsMirror'
  BY <1>2 DEF IInv, EntriesBalanced, ReversalsMirror
<1>6. LiveEntriesOwned'
  <2>1. DocEntries' = DocEntries /\ FxEntries' = FxEntries /\ LiveIds' = LiveIds
    BY <1>2 DEF DocEntries, FxEntries, LiveIds, Live
  <2> QED BY <1>2, <2>1 DEF IInv, LiveEntriesOwned, LiveIds
<1>7. ApplicationsPinPosted'
  BY <1>2 DEF IInv, ApplicationsPinPosted
<1> QED BY <1>3, <1>4, <1>5, <1>6, <1>7, TypePartsNext DEF IInv

\* What an allocation inserts: between posted documents that belong together,
\* in a positive amount, not yet with an exchange entry.
LEMMA NewAppsOK ==
    ASSUME NEW s \in Docs, NEW a \in NewApps(s)
    PROVE  /\ a \in AppRow({}) /\ a.settler = s /\ a.fx = 0
           /\ doc[a.target].status = "posted"
           /\ Kind[a.target] = Settles(Kind[s]) /\ Party[a.target] = Party[s]
           /\ (a.target \in Foreign <=> s \in Foreign)
           /\ \A b \in NewApps(s) : b.target = a.target => b = a
<1>1. \A b \in NewApps(s) : \E t \in OpenDocs(s) :
         /\ Allocation(s, t) \in Nat \ {0}
         /\ b = [settler |-> s, target |-> t, amount |-> Allocation(s, t), fx |-> 0]
  BY DEF NewApps
<1>2. PICK t \in OpenDocs(s) :
         /\ Allocation(s, t) \in Nat \ {0}
         /\ a = [settler |-> s, target |-> t, amount |-> Allocation(s, t), fx |-> 0]
  BY <1>1
<1>3. a.settler = s /\ a.target = t /\ a.fx = 0 /\ a \in AppRow({})
  BY <1>2 DEF AppRow, OpenDocs
<1>4. \A b \in NewApps(s) : b.target = t => b = a
  BY <1>1, <1>2
<1> QED BY <1>3, <1>4 DEF OpenDocs

\* An allocation inserts pinned applications of new pairs, and an exchange
\* entry of its own for each whose rates differ.
LEMMA ApplyInv ==
    ASSUME IInv, NEW s \in Docs, NEW k \in Settlers, AutoApply(s, k)
    PROVE  IInv'
<1> DEFINE inserted == NewApps(s)
           fxApps == {a \in AppsOf(s) \cup inserted : a.fx = 0 /\ Difference(a) # 0}
           all == apps \cup inserted
           of == [a \in fxApps |-> FxEntry(a)]
<1>1. DocsOK /\ apps \subseteq AppRow(Ids) /\ JournalOK /\ SettingsOK
  BY TypeParts DEF IInv
<1>2. /\ doc[s].status = "posted" /\ doc[s].date \in Dates
      /\ \A a \in inserted, b \in AppsOf(s) : a.target # b.target
      /\ period' = period \/ period' = [period EXCEPT ![doc[s].date] = "open"]
      /\ doc' = doc /\ rates' = rates /\ fxAccount' = fxAccount /\ matched' = matched
  BY <1>1 DEF AutoApply, TouchPeriod, DocsOK
<1>3. PICK n \in 0..Room : \E pos \in Bijection(fxApps, NewIds(n)) :
         /\ journal' = Extended(n, fxApps, pos, of)
         /\ apps' = ((apps \cup inserted) \ fxApps) \cup {[a EXCEPT !.fx = pos[a]] : a \in fxApps}
  BY DEF AutoApply
<1>4. PICK pos \in Bijection(fxApps, NewIds(n)) :
         /\ journal' = Extended(n, fxApps, pos, of)
         /\ apps' = (all \ fxApps) \cup {[a EXCEPT !.fx = pos[a]] : a \in fxApps}
  BY <1>3
<1>5. \A a \in fxApps : of[a] = FxEntry(a)
  OBVIOUS
<1>6. \A a \in inserted : /\ a \in AppRow(Ids) /\ a.settler = s /\ a.fx = 0
                          /\ doc[a.target].status = "posted"
                          /\ Kind[a.target] = Settles(Kind[s]) /\ Party[a.target] = Party[s]
                          /\ (a.target \in Foreign <=> s \in Foreign)
                          /\ \A b \in inserted : b.target = a.target => b = a
  BY NewAppsOK DEF AppRow
<1>7. /\ fxApps \subseteq all /\ apps \subseteq all
      /\ \A a \in fxApps : a.fx = 0 /\ Difference(a) # 0 /\ a.settler = s
      /\ \A a \in inserted : a.fx # 0 \/ a \in fxApps \/ ~(Difference(a) # 0)
      /\ \A a \in all : a \in apps \/ a \in inserted
  BY <1>6 DEF AppsOf
<1>8. \A b \in apps : b.settler = s => \A a \in inserted : a.target # b.target
  BY <1>2 DEF AppsOf
<1>9. n \in Nat
  BY <1>3
<1> HIDE DEF inserted, fxApps, of, all
<1>10. Grown(fxApps, pos, of)
  BY <1>1, <1>4, <1>9, ExtendedGrown DEF JournalOK
\* The applications before their exchange entries are linked.
<1>11. \A a \in all : /\ a \in AppRow(Ids)
                      /\ a.settler \in Docs /\ a.target \in Docs
                      /\ doc[a.settler].status = "posted" /\ doc[a.target].status = "posted"
                      /\ Kind[a.target] = Settles(Kind[a.settler])
                      /\ Party[a.target] = Party[a.settler]
                      /\ (a.target \in Foreign <=> a.settler \in Foreign)
  BY <1>1, <1>2, <1>6, <1>7 DEF AppRow, IInv, ApplicationsPinPosted
<1>12. \A a, b \in all : b.settler = a.settler /\ b.target = a.target => b = a
  BY <1>6, <1>7, <1>8 DEF IInv, ApplicationsPinPosted
<1>13. \A a \in all : /\ doc[a.settler].entry \in Ids /\ doc[a.target].entry \in Ids
                      /\ Difference(a) \in Int
  <2> SUFFICES ASSUME NEW a \in all
               PROVE  /\ doc[a.settler].entry \in Ids /\ doc[a.target].entry \in Ids
                      /\ Difference(a) \in Int
    OBVIOUS
  <2>1. doc[a.settler].entry \in Ids /\ doc[a.target].entry \in Ids /\ a.amount \in Int
    BY <1>1, <1>11 DEF DocsOK, DocRow, AppRow
  <2>2. journal[doc[a.settler].entry].rate \in Nat /\ journal[doc[a.target].entry].rate \in Nat
    BY <1>1, <2>1, JournalRows
  <2>3. /\ Convert(a.amount, journal[doc[a.settler].entry].rate) \in Int
        /\ Convert(a.amount, journal[doc[a.target].entry].rate) \in Int
    BY <2>1, <2>2, ConvertInt
  <2> QED BY <2>1, <2>3 DEF Difference
<1>14. ASSUME NEW a \in fxApps
       PROVE  of[a] \in Row(Ids) /\ of[a].reverses = 0 /\ EntryOK(of[a].lines)
  <2>1. FxEntry(a).lines \in Lines /\ EntryOK(FxEntry(a).lines)
    BY <1>7, <1>13, FxEntryOK
  <2>2. /\ FxEntry(a).date = doc[s].date /\ FxEntry(a).rate = RateScale
        /\ FxEntry(a).reverses = 0
        /\ FxEntry(a) = [date |-> FxEntry(a).date, rate |-> FxEntry(a).rate,
                        lines |-> FxEntry(a).lines, reverses |-> FxEntry(a).reverses]
    BY <1>7 DEF FxEntry, Entry
  <2>3. FxEntry(a) \in Row(Ids)
    BY <1>2, <2>1, <2>2, SubledgerAssumption DEF Row
  <2> QED BY <1>5, <2>1, <2>2, <2>3
<1>15. JournalOK' /\ Ids \subseteq Ids' /\ \A i \in Ids : journal'[i] = journal[i]
  <2>1. \A a \in fxApps : of[a] \in Row(Ids)
    BY <1>14
  <2>2. JournalOK' /\ Ids \subseteq Ids'
    BY <1>1, <1>10, <2>1, GrownType
  <2> QED BY <1>10, <2>2 DEF Grown
<1>16. LiveIds' = LiveIds \cup {pos[a] : a \in fxApps}
  BY <1>1, <1>10, <1>14, GrownLive
<1>17. EntriesBalanced'
  BY <1>1, <1>10, <1>14, GrownBalanced DEF IInv
<1>18. ReversalsMirror'
  BY <1>1, <1>10, <1>14, GrownMirror DEF IInv
<1>19. \A a \in fxApps : pos[a] \in Ids' /\ pos[a] \notin Ids /\ pos[a] # 0
  BY <1>1, <1>10, JournalRows DEF Grown, Ids
\* Each application of the new state, with the one it comes from.
<1>20. ASSUME NEW b \in apps'
       PROVE  \E a \in all : /\ b.settler = a.settler /\ b.target = a.target /\ b.amount = a.amount
                             /\ b \in AppRow(Ids')
                             /\ \/ a \in fxApps /\ b = [a EXCEPT !.fx = pos[a]] /\ b.fx = pos[a]
                                \/ a \notin fxApps /\ b = a
  <2>1. CASE b \in all \ fxApps
    BY <1>11, <1>15, <2>1 DEF AppRow
  <2>2. CASE b \in {[a EXCEPT !.fx = pos[a]] : a \in fxApps}
    <3>1. PICK a \in fxApps : b = [a EXCEPT !.fx = pos[a]]
      BY <2>2
    <3>2. a \in all /\ a \in AppRow(Ids)
      BY <1>7, <1>11
    <3>3. /\ b.settler = a.settler /\ b.target = a.target /\ b.amount = a.amount
          /\ b.fx = pos[a] /\ b \in AppRow(Ids')
      BY <1>19, <3>1, <3>2 DEF AppRow
    <3> QED BY <3>1, <3>2, <3>3
  <2> QED BY <1>4, <2>1, <2>2
<1>21. DocsOK'
  BY <1>1, <1>2, <1>15 DEF DocsOK, DocRow
<1>22. (apps \subseteq AppRow(Ids))'
  BY <1>20
<1>23. SettingsOK'
  BY <1>1, <1>2, <1>15 DEF SettingsOK
<1>24. LiveEntriesOwned'
  <2>1. DocEntries' = DocEntries /\ DocEntries \subseteq Ids
    BY <1>1, <1>2 DEF DocEntries, DocsOK, DocRow
  <2>2. FxEntries \subseteq Ids
    BY <1>1 DEF FxEntries, AppRow
  <2>3. FxEntries' \subseteq FxEntries \cup {pos[a] : a \in fxApps}
    <3>1. ASSUME NEW b \in apps', b.fx # 0 PROVE b.fx \in FxEntries \cup {pos[a] : a \in fxApps}
      BY <1>6, <1>7, <1>20, <3>1 DEF FxEntries
    <3> QED BY <3>1 DEF FxEntries
  <2>4. FxEntries \cup {pos[a] : a \in fxApps} \subseteq FxEntries'
    <3>1. ASSUME NEW a \in apps, a.fx # 0 PROVE a \in apps'
      BY <1>4, <1>7, <3>1
    <3>2. ASSUME NEW a \in fxApps PROVE \E b \in apps' : b.fx = pos[a]
      <4>1. [a EXCEPT !.fx = pos[a]] \in apps'
        BY <1>4
      <4>2. [a EXCEPT !.fx = pos[a]].fx = pos[a]
        BY <1>7, <1>11 DEF AppRow
      <4> QED BY <4>1, <4>2
    <3> QED BY <1>19, <3>1, <3>2 DEF FxEntries
  <2>5. LiveIds' = DocEntries' \cup FxEntries' /\ DocEntries' \cap FxEntries' = {}
    <3>1. DocEntries \cup FxEntries = LiveIds /\ DocEntries \cap FxEntries = {}
      BY DEF IInv, LiveEntriesOwned, LiveIds
    <3> QED BY <1>16, <1>19, <2>1, <2>3, <2>4, <3>1
  <2>6. ASSUME NEW b \in apps', NEW c \in apps', b.fx = c.fx, b.fx # 0 PROVE b = c
    <3>1. PICK a \in all : \/ a \in fxApps /\ b = [a EXCEPT !.fx = pos[a]] /\ b.fx = pos[a]
                           \/ a \notin fxApps /\ b = a
      BY <1>20
    <3>2. PICK e \in all : \/ e \in fxApps /\ c = [e EXCEPT !.fx = pos[e]] /\ c.fx = pos[e]
                           \/ e \notin fxApps /\ c = e
      BY <1>20
    <3>3. CASE a \in fxApps /\ e \in fxApps
      BY <1>10, <2>6, <3>1, <3>2, <3>3 DEF Grown
    <3>4. CASE a \notin fxApps /\ e \notin fxApps
      BY <1>6, <1>7, <2>6, <3>1, <3>2, <3>4 DEF IInv, LiveEntriesOwned
    <3>5. CASE a \in fxApps /\ e \notin fxApps
      <4>1. c.fx \in Ids \cup {0}
        BY <1>11, <3>2, <3>5 DEF AppRow
      <4> QED BY <1>19, <2>6, <3>1, <3>5, <4>1
    <3>6. CASE a \notin fxApps /\ e \in fxApps
      <4>1. b.fx \in Ids \cup {0}
        BY <1>11, <3>1, <3>6 DEF AppRow
      <4> QED BY <1>19, <2>6, <3>2, <3>6, <4>1
    <3> QED BY <3>3, <3>4, <3>5, <3>6
  <2> QED BY <1>2, <2>5, <2>6 DEF IInv, LiveEntriesOwned, LiveIds
<1>25. ApplicationsPinPosted'
  <2> SUFFICES ASSUME NEW b \in apps'
      PROVE /\ doc[b.settler].status = "posted" /\ doc[b.target].status = "posted"
            /\ Kind[b.target] = Settles(Kind[b.settler])
            /\ Party[b.target] = Party[b.settler]
            /\ (b.target \in Foreign <=> b.settler \in Foreign)
            /\ (b.fx # 0 <=> Convert(b.amount, journal'[doc[b.settler].entry].rate)
                             # Convert(b.amount, journal'[doc[b.target].entry].rate))
            /\ \A c \in apps' : c.settler = b.settler /\ c.target = b.target => c = b
    BY <1>2 DEF ApplicationsPinPosted
  <2>1. PICK a \in all : /\ b.settler = a.settler /\ b.target = a.target /\ b.amount = a.amount
                         /\ \/ a \in fxApps /\ b = [a EXCEPT !.fx = pos[a]] /\ b.fx = pos[a]
                            \/ a \notin fxApps /\ b = a
    BY <1>20
  <2>2. /\ journal'[doc[b.settler].entry] = journal[doc[a.settler].entry]
        /\ journal'[doc[b.target].entry] = journal[doc[a.target].entry]
    BY <1>13, <1>15, <2>1
  <2> DEFINE differ == Convert(a.amount, journal[doc[a.settler].entry].rate)
                       # Convert(a.amount, journal[doc[a.target].entry].rate)
  <2>3. differ <=> Difference(a) # 0
    <3>1. /\ Convert(a.amount, journal[doc[a.settler].entry].rate) \in Int
          /\ Convert(a.amount, journal[doc[a.target].entry].rate) \in Int
      <4>1. a.amount \in Int
        BY <1>11 DEF AppRow
      <4> QED BY <1>1, <1>13, <4>1, ConvertInt, JournalRows
    <3> QED BY <3>1 DEF Difference
  <2>4. b.fx # 0 <=> differ
    <3>1. CASE a \in fxApps
      BY <1>7, <1>19, <2>1, <2>3, <3>1
    <3>2. CASE a \notin fxApps /\ a \in apps
      BY <2>1, <3>2 DEF IInv, ApplicationsPinPosted
    <3>3. CASE a \notin fxApps /\ a \in inserted
      BY <1>6, <1>7, <2>1, <2>3, <3>3
    <3> QED BY <1>7, <3>1, <3>2, <3>3
  <2>5. ASSUME NEW c \in apps', c.settler = b.settler, c.target = b.target PROVE c = b
    <3>1. PICK e \in all : /\ c.settler = e.settler /\ c.target = e.target
                           /\ \/ e \in fxApps /\ c = [e EXCEPT !.fx = pos[e]]
                              \/ e \notin fxApps /\ c = e
      BY <1>20
    <3>2. e = a
      BY <1>12, <2>1, <2>5, <3>1
    <3> QED BY <2>1, <3>1, <3>2
  <2> QED BY <1>11, <2>1, <2>2, <2>4, <2>5
<1> QED BY <1>15, <1>17, <1>18, <1>21, <1>22, <1>23, <1>24, <1>25, TypePartsNext DEF IInv

-----------------------------------------------------------------------------
(* The theorems. *)

\* No step of any handler leaves the invariant.
LEMMA StepInv ==
    ASSUME IInv, [Next]_vars
    PROVE  IInv'
<1>1. CASE Next
  BY <1>1, StepCases, DraftInv, PostInv, ApplyInv, UnpostInv, SurroundingsInv
<1>2. CASE UNCHANGED vars
  BY <1>2, SurroundingsInv
<1> QED BY <1>1, <1>2

\* The strengthened invariant holds throughout: whatever documents there are,
\* whatever is written into them and however rates, periods and matches change.
THEOREM InvariantHolds == Spec => []IInv
<1>1. Init => IInv
  BY InitInv
<1>2. IInv /\ [Next]_vars => IInv'
  BY StepInv
<1> QED BY <1>1, <1>2, PTL DEF Spec

\* Every column keeps its type and every link names an entry that exists, after
\* any sequence of requests.
THEOREM TypeCorrect == Spec => []TypeOK
<1>1. IInv => TypeOK
  BY DEF IInv
<1> QED BY <1>1, InvariantHolds, PTL

\* No rate and no rounding makes a handler write an entry the balance trigger
\* or the row checks refuse.
THEOREM JournalBalanced == Spec => []EntriesBalanced
<1>1. IInv => EntriesBalanced
  BY DEF IInv
<1> QED BY <1>1, InvariantHolds, PTL

\* Unposting negates an entry exactly and at most once.
THEOREM ReversalsExact == Spec => []ReversalsMirror
<1>1. IInv => ReversalsMirror
  BY DEF IInv
<1> QED BY <1>1, InvariantHolds, PTL

\* The unreversed entries are exactly those that documents and applications
\* own, one owner each.
THEOREM LedgerOwned == Spec => []LiveEntriesOwned
<1>1. IInv => LiveEntriesOwned
  BY DEF IInv
<1> QED BY <1>1, InvariantHolds, PTL

\* A document under an application stays posted at its rate, and the exchange
\* entry is there exactly when the rates differ.
THEOREM ApplicationsPinned == Spec => []ApplicationsPinPosted
<1>1. IInv => ApplicationsPinPosted
  BY DEF IInv
<1> QED BY <1>1, InvariantHolds, PTL

-----------------------------------------------------------------------------
(* History, and the way back to draft. *)

Kept == Len(journal') >= Len(journal) /\ \A e \in Ids : journal'[e] = journal[e]

\* A journal that grows keeps its entries.
LEMMA GrownKept ==
    ASSUME JournalOK, NEW S, NEW pos, NEW entryOf, Grown(S, pos, entryOf)
    PROVE  Kept
BY JournalRows DEF Grown, Kept

\* An allocation grows the journal by the exchange entries of the
\* applications that still need one, and links each.
LEMMA AutoApplyGrown ==
    ASSUME IInv, NEW s \in Docs, NEW k \in Settlers, AutoApply(s, k)
    PROVE  LET inserted == NewApps(s)
               fxApps   == {a \in AppsOf(s) \cup inserted : a.fx = 0 /\ Difference(a) # 0}
           IN  \E pos : /\ Grown(fxApps, pos, [a \in fxApps |-> FxEntry(a)])
                        /\ apps' = ((apps \cup inserted) \ fxApps)
                                   \cup {[a EXCEPT !.fx = pos[a]] : a \in fxApps}
<1> DEFINE inserted == NewApps(s)
           fxApps == {a \in AppsOf(s) \cup inserted : a.fx = 0 /\ Difference(a) # 0}
           of == [a \in fxApps |-> FxEntry(a)]
           linked(pos) == ((apps \cup inserted) \ fxApps) \cup {[a EXCEPT !.fx = pos[a]] : a \in fxApps}
<1>1. \E n \in 0..Room : \E pos \in Bijection(fxApps, NewIds(n)) :
         journal' = Extended(n, fxApps, pos, of) /\ apps' = linked(pos)
  BY DEF AutoApply
<1> HIDE DEF inserted, fxApps, of, linked
<1> SUFFICES ASSUME NEW n \in 0..Room, NEW pos \in Bijection(fxApps, NewIds(n)),
                    journal' = Extended(n, fxApps, pos, of), apps' = linked(pos)
             PROVE  \E p : Grown(fxApps, p, of) /\ apps' = linked(p)
  BY <1>1 DEF inserted, fxApps, of, linked
<1>2. n \in Nat /\ journal \in Seq(Row(Ids))
  BY TypeParts DEF IInv, JournalOK
<1>3. Grown(fxApps, pos, of)
  BY <1>2, ExtendedGrown
<1> QED BY <1>3

\* An unposting grows the journal by the mirrors of what it reverses.
LEMMA ReverseEntriesGrown ==
    ASSUME IInv, NEW first, NEW rest, ReverseEntries(first, rest)
    PROVE  LET E == {first} \cup rest
           IN  \E pos : Grown(E, pos, [e \in E |-> Mirror(e)])
<1> DEFINE E == {first} \cup rest
           of == [e \in E |-> Mirror(e)]
<1>1. \E n \in 0..Room : \E pos \in Bijection(E, NewIds(n)) : journal' = Extended(n, E, pos, of)
  BY DEF ReverseEntries
<1> HIDE DEF E, of
<1> SUFFICES ASSUME NEW n \in 0..Room, NEW pos \in Bijection(E, NewIds(n)),
                    journal' = Extended(n, E, pos, of)
             PROVE  \E p : Grown(E, p, of)
  BY <1>1 DEF E, of
<1>2. n \in Nat /\ journal \in Seq(Row(Ids))
  BY TypeParts DEF IInv, JournalOK
<1>3. Grown(E, pos, of)
  BY <1>2, ExtendedGrown
<1> QED BY <1>3

\* Every handler only adds entries.
LEMMA StepKeeps ==
    ASSUME IInv, [Next]_vars
    PROVE  Kept
<1>1. JournalOK
  BY TypeParts DEF IInv
<1>2. CASE journal' = journal
  BY <1>1, <1>2, JournalRows DEF Kept
<1>3. ASSUME NEW d \in Docs, NEW k \in Kinds, NEW p \in Postings, Post(d, k, p[1], p[2], p[3])
      PROVE  Kept
  <2>1. PICK e : journal' = Append(journal, e)
    BY <1>3 DEF Post
  <2> QED BY <1>1, <2>1 DEF Kept, JournalOK, Ids
<1>4. ASSUME NEW d \in Docs, NEW k \in Settlers, AutoApply(d, k) PROVE Kept
  BY <1>1, <1>4, AutoApplyGrown, GrownKept
<1>5. ASSUME NEW d \in Docs, NEW rest, ReverseEntries(doc[d].entry, rest) PROVE Kept
  BY <1>1, <1>5, ReverseEntriesGrown, GrownKept
<1>6. CASE \E d \in Docs, k \in Kinds : Create(d, k) \/ Update(d, k) \/ Delete(d, k)
  BY <1>2, <1>6 DEF Create, Update, Delete, Ledger
<1>7. CASE \E d \in Docs : \/ \E k \in Kinds : Unpost(d, k)
                           \/ \E k \in Payments : UnpostPayment(d, k)
  BY <1>5, <1>7 DEF Unpost, UnpostPayment
<1>8. CASE Surroundings \/ UNCHANGED vars
  BY <1>2, <1>8 DEF Surroundings, SetExchangeRate, CreateAccountingPeriod,
       UpdateAccountingPeriod, UpdateSettings, MatchLine, UnmatchLine, Documents, vars
<1>9. CASE Next
  BY <1>3, <1>4, <1>6, <1>7, <1>8, <1>9, StepCases
<1> QED BY <1>8, <1>9

\* A posted document changes only when it is unposted: it goes back to draft as
\* it was, and a mirror of its entry is in the journal.
ToDraftOnly ==
    \A d \in Docs : doc[d].status = "posted" /\ doc'[d] # doc[d] =>
        /\ doc'[d].status = "draft"
        /\ doc'[d].date = doc[d].date /\ doc'[d].net = doc[d].net /\ doc'[d].tax = doc[d].tax
        /\ \E f \in 1..Len(journal') : journal'[f].reverses = doc[d].entry

\* A posted document changes only by returning to draft with a reversal.
LEMMA StepToDraft ==
    ASSUME IInv, [Next]_vars
    PROVE  ToDraftOnly
<1>1. DocsOK /\ JournalOK
  BY TypeParts DEF IInv
<1>2. CASE doc' = doc
  BY <1>2 DEF ToDraftOnly
<1>3. ASSUME NEW d \in Docs, doc[d].status # "posted", NEW row, doc' = [doc EXCEPT ![d] = row]
      PROVE  ToDraftOnly
  BY <1>1, <1>3 DEF ToDraftOnly, DocsOK
<1>4. ASSUME NEW d \in Docs, NEW k \in Kinds, Create(d, k) \/ Update(d, k) \/ Delete(d, k)
      PROVE  ToDraftOnly
  BY <1>3, <1>4 DEF Create, Update, Delete, IsDraft
<1>5. ASSUME NEW d \in Docs, NEW k \in Kinds, NEW p \in Postings, Post(d, k, p[1], p[2], p[3])
      PROVE  ToDraftOnly
  BY <1>1, <1>5 DEF ToDraftOnly, DocsOK, Post, IsDraft
<1>6. ASSUME NEW d \in Docs, NEW rest, ReverseEntries(doc[d].entry, rest), ToDraft(d)
      PROVE  ToDraftOnly
  <2> DEFINE E == {doc[d].entry} \cup rest
  <2>1. PICK pos : Grown(E, pos, [e \in E |-> Mirror(e)])
    BY <1>6, ReverseEntriesGrown
  <2>2. /\ pos[doc[d].entry] \in 1..Len(journal')
        /\ journal'[pos[doc[d].entry]].reverses = doc[d].entry
    <3>1. /\ pos[doc[d].entry] \in (Len(journal) + 1)..Len(journal')
          /\ journal'[pos[doc[d].entry]] = Mirror(doc[d].entry)
          /\ Len(journal) \in Nat /\ Len(journal') \in Nat
      BY <1>1, <2>1, JournalRows DEF Grown
    <3>2. Mirror(doc[d].entry).reverses = doc[d].entry
      BY MirrorFields
    <3> QED BY <3>1, <3>2
  <2>3. /\ DOMAIN doc = Docs
        /\ doc[d] \in DocRow(Ids)
        /\ doc' = [doc EXCEPT ![d].status = "draft", ![d].entry = 0]
    BY <1>1, <1>6 DEF DocsOK, ToDraft
  <2>4. /\ doc'[d] = [doc[d] EXCEPT !.status = "draft", !.entry = 0]
        /\ \A c \in Docs : c # d => doc'[c] = doc[c]
    BY <2>3
  <2>5. /\ doc'[d].status = "draft" /\ doc'[d].date = doc[d].date
        /\ doc'[d].net = doc[d].net /\ doc'[d].tax = doc[d].tax
    BY <2>3, <2>4 DEF DocRow
  <2> QED BY <2>2, <2>4, <2>5 DEF ToDraftOnly
<1>7. CASE Surroundings \/ UNCHANGED vars
  BY <1>2, <1>7 DEF Surroundings, SetExchangeRate, CreateAccountingPeriod,
       UpdateAccountingPeriod, UpdateSettings, MatchLine, UnmatchLine, Documents, vars
<1>8. CASE \E d \in Docs, k \in Settlers : AutoApply(d, k)
  BY <1>2, <1>8 DEF AutoApply
<1>9. CASE \E d \in Docs : \/ \E k \in Kinds : Unpost(d, k)
                           \/ \E k \in Payments : UnpostPayment(d, k)
  BY <1>6, <1>9 DEF Unpost, UnpostPayment
<1>10. CASE Next
  BY <1>4, <1>5, <1>7, <1>8, <1>9, <1>10, StepCases
<1> QED BY <1>7, <1>10

\* No request rewrites an entry, and a posted document only ever returns to
\* draft unchanged, reversed.
THEOREM HistoryImmutable == Spec => HistoryKept
<1> DEFINE A == /\ Len(journal') >= Len(journal)
                /\ \A e \in Ids : journal'[e] = journal[e]
                /\ \A d \in Docs : doc[d].status = "posted" /\ doc'[d] # doc[d] =>
                     /\ doc'[d].status = "draft"
                     /\ doc'[d].date = doc[d].date /\ doc'[d].net = doc[d].net /\ doc'[d].tax = doc[d].tax
                     /\ \E f \in 1..Len(journal') : journal'[f].reverses = doc[d].entry
<1>1. IInv /\ [Next]_vars => A
  BY StepKeeps, StepToDraft DEF Kept, ToDraftOnly
<1> HIDE DEF A
<1>2. Spec => [][A]_vars
  BY <1>1, InvariantHolds, PTL DEF Spec
<1> QED BY <1>2 DEF HistoryKept, A

\* Where entries are dated and which can be matched: the entry of a document is
\* dated with it, the exchange entries of an application with its settler, and
\* only entries with a cash line are matched.
EntriesDated ==
    /\ \A d \in Docs : doc[d].status = "posted" => journal[doc[d].entry].date = doc[d].date
    /\ \A a \in apps : a.fx # 0 => /\ journal[a.fx].date = doc[a.settler].date
                                   /\ journal[a.fx].lines["cash"] = NoLine
    /\ \A e \in matched : journal[e].lines["cash"] # NoLine

\* What owns an entry names one of the journal.
LEMMA Links ==
    ASSUME IInv
    PROVE  /\ \A d \in Docs : doc[d].status = "posted" => doc[d].entry \in Ids
           /\ \A a \in apps : a.settler \in Docs /\ (a.fx # 0 => a.fx \in Ids)
           /\ matched \subseteq Ids
BY TypeParts DEF IInv, DocsOK, DocRow, AppRow, SettingsOK

\* Every step keeps entries dated with their owners.
LEMMA DatedStep ==
    ASSUME IInv, EntriesDated, [Next]_vars
    PROVE  EntriesDated'
<1>1. \A i \in Ids : journal'[i] = journal[i]
  BY StepKeeps DEF Kept
<1>2. DocsOK /\ apps \subseteq AppRow(Ids) /\ JournalOK
  BY TypeParts DEF IInv
\* It is kept when no document becomes posted and no application is new.
<1>4. ASSUME apps' \subseteq apps,
             \A d \in Docs : doc'[d].status = "posted" => doc'[d] = doc[d],
             \A a \in apps' : doc'[a.settler].status = "posted",
             matched' = matched
      PROVE  EntriesDated'
  BY <1>1, <1>4, Links DEF EntriesDated
<1>5. ASSUME NEW d \in Docs, NEW k \in Kinds, Create(d, k) \/ Update(d, k) \/ Delete(d, k)
      PROVE  EntriesDated'
  <2>1. /\ apps' = apps /\ matched' = matched /\ doc[d].status # "posted"
        /\ \A c \in Docs : c # d => doc'[c] = doc[c]
    BY <1>2, <1>5 DEF Create, Update, Delete, IsDraft, Ledger, DocsOK
  <2>2. doc'[d].status # "posted"
    BY <1>2, <1>5 DEF Create, Update, Delete, Draft, NoDoc, DocsOK
  <2>3. \A a \in apps' : a.settler # d /\ a.settler \in Docs /\ doc[a.settler].status = "posted"
    BY <2>1, Links DEF IInv, ApplicationsPinPosted
  <2> QED BY <1>4, <2>1, <2>2, <2>3
<1>6. ASSUME NEW d \in Docs, NEW k \in Kinds, NEW p \in Postings, Post(d, k, p[1], p[2], p[3])
      PROVE  EntriesDated'
  <2>1. /\ apps' = apps /\ matched' = matched /\ doc[d].status # "posted"
        /\ \A c \in Docs : c # d => doc'[c] = doc[c]
        /\ doc'[d].date = doc[d].date /\ doc'[d].entry = Len(journal) + 1
    <3>1. /\ DOMAIN doc = Docs /\ doc[d] \in DocRow(Ids)
          /\ doc' = [doc EXCEPT ![d].status = "posted", ![d].entry = Len(journal) + 1]
          /\ doc[d].status = "draft"
      BY <1>2, <1>6 DEF Post, DocsOK, IsDraft
    <3>2. doc'[d] = [doc[d] EXCEPT !.status = "posted", !.entry = Len(journal) + 1]
      BY <3>1
    <3> QED BY <1>6, <3>1, <3>2 DEF Post, DocRow
  <2>2. journal'[Len(journal) + 1].date = doc[d].date
    <3>1. PICK e : journal' = Append(journal, e) /\ e.date = doc[d].date
      BY <1>6 DEF Post, Entry
    <3> QED BY <1>2, <3>1 DEF JournalOK
  <2>3. \A a \in apps : a.settler # d /\ a.settler \in Docs
    BY <2>1, Links DEF IInv, ApplicationsPinPosted
  <2> QED BY <1>1, <2>1, <2>2, <2>3, Links DEF EntriesDated
<1>7. ASSUME NEW s \in Docs, NEW k \in Settlers, AutoApply(s, k)
      PROVE  EntriesDated'
  <2> DEFINE fxApps == {a \in AppsOf(s) \cup NewApps(s) : a.fx = 0 /\ Difference(a) # 0}
             of == [a \in fxApps |-> FxEntry(a)]
  <2>1. PICK pos : /\ Grown(fxApps, pos, of)
                   /\ apps' = ((apps \cup NewApps(s)) \ fxApps)
                              \cup {[a EXCEPT !.fx = pos[a]] : a \in fxApps}
    BY <1>7, AutoApplyGrown
  <2>2. doc' = doc /\ matched' = matched
    BY <1>7 DEF AutoApply
  <2>3. \A a \in NewApps(s) : a.fx = 0 /\ a.settler = s /\ a \in AppRow(Ids)
    BY NewAppsOK DEF AppRow
  <2>4. ASSUME NEW a \in fxApps
        PROVE  /\ journal'[pos[a]].date = doc[s].date
               /\ journal'[pos[a]].lines["cash"] = NoLine
               /\ [a EXCEPT !.fx = pos[a]].settler = s
               /\ [a EXCEPT !.fx = pos[a]].fx = pos[a]
    <3>1. a \in AppRow(Ids) /\ a.settler = s
      BY <1>2, <2>3 DEF AppsOf
    <3>2. journal'[pos[a]] = FxEntry(a)
      BY <2>1 DEF Grown
    <3>3. FxEntry(a).date = doc[s].date
      BY <3>1 DEF FxEntry, Entry
    <3>4. FxEntry(a).lines["cash"] = NoLine
      BY DEF FxEntry, Entry, Accounts
    <3> QED BY <3>1, <3>2, <3>3, <3>4 DEF AppRow
  <2>5. ASSUME NEW b \in apps', b.fx # 0
        PROVE  journal'[b.fx].date = doc[b.settler].date /\ journal'[b.fx].lines["cash"] = NoLine
    <3>1. CASE b \in apps
      BY <1>1, <2>5, <3>1, Links DEF EntriesDated
    <3>2. CASE b \notin apps
      <4>1. b \notin NewApps(s)
        BY <2>3, <2>5
      <4>2. PICK a \in fxApps : b = [a EXCEPT !.fx = pos[a]]
        <5> HIDE DEF fxApps
        <5> QED BY <2>1, <3>2, <4>1
      <4> QED BY <2>4, <4>2
    <3> QED BY <3>1, <3>2
  <2> QED BY <1>1, <2>2, <2>5, Links DEF EntriesDated
<1>8. ASSUME NEW d \in Docs,
             \/ \E k \in Kinds : Unpost(d, k)
             \/ \E k \in Payments : UnpostPayment(d, k)
      PROVE  EntriesDated'
  <2>1. /\ doc' = [doc EXCEPT ![d].status = "draft", ![d].entry = 0]
        /\ matched' = matched
    BY <1>8 DEF Unpost, UnpostPayment, ToDraft
  <2>2. apps' \subseteq apps /\ \A a \in apps' : a.settler # d
    BY <1>8 DEF Unpost, UnpostPayment, HasApplications, AppsOf
  <2>3. /\ \A c \in Docs : c # d => doc'[c] = doc[c]
        /\ doc'[d].status = "draft"
    <3>1. DOMAIN doc = Docs /\ doc[d] \in DocRow(Ids)
      BY <1>2 DEF DocsOK
    <3>2. doc'[d] = [doc[d] EXCEPT !.status = "draft", !.entry = 0]
      BY <2>1, <3>1
    <3> QED BY <2>1, <3>1, <3>2 DEF DocRow
  <2>4. \A a \in apps' : doc'[a.settler].status = "posted"
    BY <2>2, <2>3, Links DEF IInv, ApplicationsPinPosted
  <2> QED BY <1>4, <2>1, <2>2, <2>3, <2>4
<1>9. CASE Surroundings \/ UNCHANGED vars
  <2>1. doc' = doc /\ apps' = apps /\ journal' = journal
    BY <1>9 DEF Surroundings, SetExchangeRate, CreateAccountingPeriod, UpdateAccountingPeriod,
         UpdateSettings, MatchLine, UnmatchLine, Documents, vars
  <2>2. \A e \in matched' : journal[e].lines["cash"] # NoLine
    BY <1>9 DEF EntriesDated, Surroundings, SetExchangeRate, CreateAccountingPeriod,
         UpdateAccountingPeriod, UpdateSettings, MatchLine, UnmatchLine, vars
  <2> QED BY <2>1, <2>2 DEF EntriesDated
<1>10. CASE Next
  BY <1>5, <1>6, <1>7, <1>8, <1>9, <1>10, StepCases
<1> QED BY <1>9, <1>10

\* What the guards of unposting look at, for a document of an open month whose
\* entry is not matched.
LEMMA DatedUnposts ==
    ASSUME IInv, EntriesDated
    PROVE  UnpostNeverStuck
<1> SUFFICES ASSUME NEW d \in Docs, doc[d].status = "posted",
                    PeriodFor(doc[d].date), doc[d].entry \notin matched,
                    NEW e \in {doc[d].entry} \cup FxEntriesOf(d)
             PROVE  ~Reversed(e) /\ e \notin matched /\ PeriodFor(journal[e].date)
  BY DEF UnpostNeverStuck
<1>1. doc[d].entry # 0
  BY TypeParts DEF IInv, DocsOK
<1>2. CASE e = doc[d].entry
  <2>1. e \in DocEntries
    BY <1>1, <1>2 DEF DocEntries
  <2>2. ~Reversed(e)
    BY <2>1 DEF IInv, LiveEntriesOwned, Live, Reversed, Ids
  <2> QED BY <1>2, <2>2 DEF EntriesDated
<1>3. CASE e \in FxEntriesOf(d)
  <2>1. PICK a \in apps : a.settler = d /\ a.fx = e /\ e # 0
    BY <1>3 DEF FxEntriesOf, AppsOf
  <2>2. e \in FxEntries
    BY <2>1 DEF FxEntries
  <2>3. ~Reversed(e)
    BY <2>2 DEF IInv, LiveEntriesOwned, Live, Reversed, Ids
  <2> QED BY <2>1, <2>3 DEF EntriesDated
<1> QED BY <1>2, <1>3

\* In an open month, and unless its own entry is matched at the bank, a posted
\* document is never refused for the state of the entries to reverse.
THEOREM UnpostAlwaysOpen == Spec => []UnpostNeverStuck
<1>1. Init => EntriesDated
  BY DEF Init, EntriesDated, NoDoc
<1>2. IInv /\ EntriesDated /\ [Next]_vars => EntriesDated'
  BY DatedStep
<1>3. IInv /\ EntriesDated => UnpostNeverStuck
  BY DatedUnposts
<1> QED BY <1>1, <1>2, <1>3, InvariantHolds, PTL DEF Spec

-----------------------------------------------------------------------------
(* The subledgers implement the general ledger. *)

\* A journal that grows is a book that grows.
LEMMA GrownGrows ==
    ASSUME JournalOK, NEW S, NEW pos, NEW entryOf, Grown(S, pos, entryOf)
    PROVE  Ledgers!Grows
BY JournalRows DEF Grown, Ledgers!Grows, Ledgers!Entries, Ids

\* Inserting balanced originals records.
LEMMA GrownRecord ==
    ASSUME JournalOK, JournalOK', EntriesBalanced', NEW S, NEW pos, NEW entryOf,
           Grown(S, pos, entryOf), \A x \in S : entryOf[x].reverses = 0
    PROVE  Ledgers!Record
<1>1. ASSUME NEW f \in (Len(journal) + 1)..Len(journal')
      PROVE  /\ journal'[f].reverses = 0
             /\ journal'[f].lines \in {l \in [Accounts -> [amount : Int, base : Int]] : EntryOK(l)}
  <2>1. PICK x \in S : pos[x] = f
    BY <1>1 DEF Grown
  <2>2. journal'[f] = entryOf[x]
    BY <2>1 DEF Grown
  <2>3. f \in Ids'
    BY JournalRows DEF Ids, Grown
  <2>4. EntryOK(journal'[f].lines)
    BY <2>3 DEF EntriesBalanced
  <2>5. journal'[f] \in Row(Ids')
    BY <2>3, ElementOfSeq DEF JournalOK, Ids
  <2>6. journal'[f].lines \in [Accounts -> [amount : Int, base : Int]]
    BY <2>5 DEF Row, Lines
  <2> QED BY <2>2, <2>4, <2>6
<1>2. Ledgers!Grows
  BY GrownGrows
<1> QED BY <1>1, <1>2 DEF Ledgers!Record, Ledgers!Added

\* Two fields of a row replaced.
LEMMA RowExcept ==
    ASSUME NEW ids, NEW r \in Row(ids), NEW l, NEW e
    PROVE  [r EXCEPT !.lines = l, !.reverses = e]
           = [date |-> r.date, rate |-> r.rate, lines |-> l, reverses |-> e]
<1>1. r = [date |-> r.date, rate |-> r.rate, reverses |-> r.reverses, lines |-> r.lines]
  BY DEF Row
<1>2. ASSUME NEW date, NEW rate, NEW reverses, NEW lines,
             r = [date |-> date, rate |-> rate, reverses |-> reverses, lines |-> lines]
      PROVE  [r EXCEPT !.lines = l, !.reverses = e]
             = [date |-> date, rate |-> rate, lines |-> l, reverses |-> e]
  <2>1. [r EXCEPT !.lines = l, !.reverses = e] =
           [k \in DOMAIN r |-> IF k = "reverses" THEN e ELSE IF k = "lines" THEN l ELSE r[k]]
    OBVIOUS
  <2>2. DOMAIN r = {"date", "rate", "reverses", "lines"}
    BY <1>2
  <2> QED BY <1>2, <2>1, <2>2
<1> QED BY <1>1, <1>2

\* A mirror is the entry with its lines negated, field by field.
LEMMA MirrorNegates ==
    ASSUME JournalOK, NEW e \in Ids
    PROVE  Mirror(e) = [journal[e] EXCEPT !.lines = Ledgers!Negated(@), !.reverses = e]
<1> DEFINE row == journal[e]
           lines == [a \in Accounts |-> Line(-row.lines[a].amount, -row.lines[a].base)]
<1>1. row \in Row(Ids) /\ DOMAIN row.lines = Accounts
  BY JournalRows DEF Lines
<1>2. Ledgers!Negated(row.lines) = lines
  BY <1>1 DEF Ledgers!Negated, Line
<1>3. Mirror(e) = [date |-> row.date, rate |-> row.rate, lines |-> lines, reverses |-> e]
  BY DEF Mirror, Entry
<1> HIDE DEF row, lines
<1>4. [row EXCEPT !.lines = lines, !.reverses = e]
      = [date |-> row.date, rate |-> row.rate, lines |-> lines, reverses |-> e]
  BY <1>1, RowExcept
<1>5. [row EXCEPT !.lines = Ledgers!Negated(@), !.reverses = e]
      = [row EXCEPT !.lines = lines, !.reverses = e]
  BY <1>1, <1>2 DEF Row
<1> QED BY <1>3, <1>4, <1>5 DEF row

\* Inserting mirrors of live entries corrects.
LEMMA GrownCorrect ==
    ASSUME JournalOK, NEW S \in SUBSET LiveIds, NEW pos, NEW entryOf,
           Grown(S, pos, entryOf), \A x \in S : entryOf[x] = Mirror(x)
    PROVE  Ledgers!Correct
<1>1. ASSUME NEW f \in (Len(journal) + 1)..Len(journal')
      PROVE  \E x \in S : pos[x] = f /\ journal'[f] = Mirror(x) /\ journal'[f].reverses = x
  <2>1. PICK x \in S : pos[x] = f
    BY <1>1 DEF Grown
  <2>2. journal'[f] = Mirror(x)
    BY <2>1 DEF Grown
  <2> QED BY <2>1, <2>2, MirrorFields
<1>2. ASSUME NEW f \in (Len(journal) + 1)..Len(journal'), NEW x \in S,
             pos[x] = f, journal'[f] = Mirror(x), journal'[f].reverses = x
      PROVE  /\ x \in 1..Len(journal) /\ journal[x].reverses = 0
             /\ ~(\E g \in 1..Len(journal) : journal[g].reverses = x)
             /\ journal'[f] = [journal[x] EXCEPT !.lines = Ledgers!Negated(@), !.reverses = x]
             /\ \A g \in (Len(journal) + 1)..Len(journal') : journal'[g].reverses = x => g = f
  <2>1. x \in Ids /\ Live(x)
    BY DEF LiveIds
  <2>2. /\ x \in 1..Len(journal) /\ journal[x].reverses = 0
        /\ ~(\E g \in 1..Len(journal) : journal[g].reverses = x)
    BY <2>1 DEF Live, Ids
  <2>3. journal'[f] = [journal[x] EXCEPT !.lines = Ledgers!Negated(@), !.reverses = x]
    BY <1>2, <2>1, MirrorNegates
  <2>4. ASSUME NEW g \in (Len(journal) + 1)..Len(journal'), journal'[g].reverses = x
        PROVE  g = f
    <3>1. PICK y \in S : pos[y] = g /\ journal'[g].reverses = y
      BY <1>1
    <3> QED BY <1>2, <2>4, <3>1
  <2> QED BY <2>2, <2>3, <2>4
<1>3. Ledgers!Grows
  BY GrownGrows
<1>4. ASSUME NEW f \in Ledgers!Added
      PROVE  LET e == journal'[f].reverses IN
                /\ e \in Ledgers!Entries /\ journal[e].reverses = 0 /\ ~Ledgers!Corrected(e)
                /\ journal'[f] = [journal[e] EXCEPT !.lines = Ledgers!Negated(@), !.reverses = e]
                /\ \A g \in Ledgers!Added : journal'[g].reverses = e => g = f
  <2>1. f \in (Len(journal) + 1)..Len(journal')
    BY DEF Ledgers!Added
  <2>2. PICK x \in S : pos[x] = f /\ journal'[f] = Mirror(x) /\ journal'[f].reverses = x
    BY <1>1, <2>1
  <2>3. /\ x \in 1..Len(journal) /\ journal[x].reverses = 0
        /\ ~(\E g \in 1..Len(journal) : journal[g].reverses = x)
        /\ journal'[f] = [journal[x] EXCEPT !.lines = Ledgers!Negated(@), !.reverses = x]
        /\ \A g \in (Len(journal) + 1)..Len(journal') : journal'[g].reverses = x => g = f
    BY <1>2, <2>1, <2>2
  <2> QED BY <2>2, <2>3 DEF Ledgers!Added, Ledgers!Entries, Ledgers!Corrected
<1> QED BY <1>3, <1>4 DEF Ledgers!Correct

\* Posting records.
LEMMA PostRecords ==
    ASSUME IInv, IInv', NEW d \in Docs, NEW k \in Kinds, NEW p \in Postings,
           Post(d, k, p[1], p[2], p[3])
    PROVE  Ledgers!Record
<1> DEFINE e == Entry(doc[d].date, EntryRate(d), DocumentLines(d, p[1], p[2], p[3]), 0)
<1>1. journal' = Append(journal, e) /\ e.reverses = 0
  BY DEF Post, Entry
<1>2. JournalOK /\ JournalOK' /\ EntriesBalanced'
  BY TypeParts, TypePartsNext DEF IInv
<1> HIDE DEF e
<1>3. /\ Len(journal) \in Nat /\ Len(journal') = Len(journal) + 1
      /\ \A i \in 1..Len(journal) : journal'[i] = journal[i]
      /\ journal'[Len(journal) + 1] = e
  BY <1>1, <1>2 DEF JournalOK
<1>4. ASSUME NEW f \in (Len(journal) + 1)..Len(journal')
      PROVE  f = Len(journal) + 1 /\ f \in Ids'
  BY <1>3 DEF Ids
<1>5. ASSUME NEW f \in (Len(journal) + 1)..Len(journal')
      PROVE  /\ journal'[f].reverses = 0
             /\ journal'[f].lines \in {l \in [Accounts -> [amount : Int, base : Int]] : EntryOK(l)}
  <2>1. journal'[f] = e /\ f \in Ids'
    BY <1>3, <1>4
  <2>2. EntryOK(journal'[f].lines)
    BY <1>2, <2>1 DEF EntriesBalanced
  <2>3. journal'[f] \in Row(Ids')
    BY <1>2, <2>1, ElementOfSeq DEF JournalOK, Ids
  <2>4. journal'[f].lines \in [Accounts -> [amount : Int, base : Int]]
    BY <2>3 DEF Row, Lines
  <2> QED BY <1>1, <2>1, <2>2, <2>4
<1>6. Ledgers!Grows
  BY <1>3 DEF Ledgers!Grows, Ledgers!Entries
<1> QED BY <1>5, <1>6 DEF Ledgers!Record, Ledgers!Added

\* Applying records the exchange differences, if there are any.
LEMMA ApplyRecords ==
    ASSUME IInv, IInv', NEW s \in Docs, NEW k \in Settlers, AutoApply(s, k)
    PROVE  Ledgers!Record
<1> DEFINE fxApps == {a \in AppsOf(s) \cup NewApps(s) : a.fx = 0 /\ Difference(a) # 0}
           of == [a \in fxApps |-> FxEntry(a)]
<1>1. PICK pos : Grown(fxApps, pos, of)
  BY AutoApplyGrown
<1>2. \A a \in fxApps : of[a].reverses = 0
  BY DEF FxEntry, Entry
<1>3. JournalOK /\ JournalOK' /\ EntriesBalanced'
  BY TypeParts, TypePartsNext DEF IInv
<1> HIDE DEF fxApps, of
<1> QED BY <1>1, <1>2, <1>3, GrownRecord

\* Unposting corrects: what it reverses was live.
LEMMA UnpostCorrects ==
    ASSUME IInv, NEW d \in Docs, doc[d].status = "posted", NEW rest,
           rest \subseteq FxEntriesOf(d), ReverseEntries(doc[d].entry, rest)
    PROVE  Ledgers!Correct
<1> DEFINE E == {doc[d].entry} \cup rest
           of == [e \in E |-> Mirror(e)]
<1>1. DocsOK /\ JournalOK
  BY TypeParts DEF IInv
<1>2. doc[d].entry \in DocEntries /\ FxEntriesOf(d) \subseteq FxEntries
  BY <1>1 DEF DocsOK, DocRow, DocEntries, FxEntriesOf, FxEntries, AppsOf
<1>3. E \in SUBSET LiveIds
  BY <1>2 DEF IInv, LiveEntriesOwned, LiveIds
<1>4. PICK pos : Grown(E, pos, of)
  BY ReverseEntriesGrown
<1>5. \A e \in E : of[e] = Mirror(e)
  OBVIOUS
<1> HIDE DEF E, of
<1> QED BY <1>1, <1>3, <1>4, <1>5, GrownCorrect

\* Every step records, corrects or leaves the book alone.
LEMMA LedgerStep ==
    ASSUME IInv, IInv', [Next]_vars
    PROVE  [Ledgers!Next]_journal
<1>1. CASE \E d \in Docs, k \in Kinds : Create(d, k) \/ Update(d, k) \/ Delete(d, k)
  BY <1>1 DEF Create, Update, Delete, Ledger
<1>2. CASE \E d \in Docs, k \in Kinds, p \in Postings : Post(d, k, p[1], p[2], p[3])
  BY <1>2, PostRecords DEF Ledgers!Next
<1>3. CASE \E d \in Docs, k \in Settlers : AutoApply(d, k)
  BY <1>3, ApplyRecords DEF Ledgers!Next
<1>4. CASE \E d \in Docs, k \in Kinds : Unpost(d, k)
  BY <1>4, UnpostCorrects DEF Unpost, Ledgers!Next
<1>5. CASE \E d \in Docs, k \in Payments : UnpostPayment(d, k)
  BY <1>5, UnpostCorrects DEF UnpostPayment, Ledgers!Next
<1>6. CASE Surroundings \/ UNCHANGED vars
  BY <1>6 DEF Surroundings, SetExchangeRate, CreateAccountingPeriod,
       UpdateAccountingPeriod, UpdateSettings, MatchLine, UnmatchLine, Documents, vars
<1> QED BY <1>1, <1>2, <1>3, <1>4, <1>5, <1>6, StepCases

\* The journal the handlers write is a general ledger: it only grows, records
\* balance, and what is corrected is corrected exactly and once.
THEOREM LedgerImplemented == Spec => LedgerKept
<1>1. Init => Ledgers!Init
  BY DEF Init, Ledgers!Init
<1>2. IInv /\ IInv' /\ [Next]_vars => [Ledgers!Next]_journal
  BY LedgerStep
<1>3. Spec => Ledgers!Init /\ [][Ledgers!Next]_journal
  BY <1>1, <1>2, InvariantHolds, PTL DEF Spec
<1> QED BY <1>3 DEF LedgerKept, Ledgers!Spec

-----------------------------------------------------------------------------
(* Spreading an amount over documents in an order. *)

\* A strict order of the elements of D; before are its pairs.
Orders(before, D) ==
    /\ \A x \in D : <<x, x>> \notin before
    /\ \A x, y \in D : x # y => <<x, y>> \in before \/ <<y, x>> \in before
    /\ \A x, y, z \in D : <<x, y>> \in before /\ <<y, z>> \in before => <<x, z>> \in before

\* The element of T that comes last.
LastOf(x, T, before) == x \in T /\ \A y \in T \ {x} : <<y, x>> \in before

LEMMA LastExists ==
    ASSUME NEW D, IsFiniteSet(D), NEW before, Orders(before, D), D # {}
    PROVE  \E x \in D : LastOf(x, D, before)
<1> DEFINE Good == {T \in SUBSET D : T # {} => \E x \in T : LastOf(x, T, before)}
<1>1. {} \in Good
  OBVIOUS
<1>2. ASSUME NEW T \in SUBSET D, NEW x \in D \ T, T \in Good PROVE T \cup {x} \in Good
  <2>1. CASE T = {}
    BY <2>1 DEF LastOf
  <2>2. CASE T # {}
    <3>1. PICK y \in T : LastOf(y, T, before)
      BY <1>2, <2>2
    <3>2. CASE <<x, y>> \in before
      <4>1. LastOf(y, T \cup {x}, before)
        BY <3>1, <3>2 DEF LastOf
      <4> QED BY <4>1, <3>1
    <3>3. CASE <<y, x>> \in before
      <4>1. LastOf(x, T \cup {x}, before)
        BY <1>2, <3>1, <3>3 DEF LastOf, Orders
      <4> QED BY <4>1
    <3> QED BY <1>2, <3>1, <3>2, <3>3 DEF Orders
  <2> QED BY <2>1, <2>2
<1>3. D \in Good
  <2> HIDE DEF Good
  <2> QED BY <1>1, <1>2, SetInduction
<1> QED BY <1>3

\* What is before x in T.
Prior(x, T, before) == {y \in T : <<y, x>> \in before}

\* The share of x when amount r is spread over T, each y taking F[y] at most.
Share(x, T, before, F, r) ==
    LET prior == SumOver(F, Prior(x, T, before))
        left  == IF r > prior THEN r - prior ELSE 0
    IN  IF left < F[x] THEN left ELSE F[x]

Shares(T, before, F, r) == [x \in T |-> Share(x, T, before, F, r)]

LEMMA ShareBounds ==
    ASSUME NEW T, IsFiniteSet(T), NEW before, NEW F, \A x \in T : F[x] \in Nat, NEW r \in Int,
           NEW x \in T
    PROVE  Share(x, T, before, F, r) \in Nat /\ Share(x, T, before, F, r) <= F[x]
<1> DEFINE prior == SumOver(F, Prior(x, T, before))
<1>1. prior \in Int
  <2>1. Prior(x, T, before) \in SUBSET T
    BY DEF Prior
  <2>2. IsFiniteSet(Prior(x, T, before)) /\ \A y \in Prior(x, T, before) : F[y] \in Int
    BY <2>1, FS_Subset
  <2> QED BY <2>2, SumInt
<1>2. Share(x, T, before, F, r) = LET left == IF r > prior THEN r - prior ELSE 0 IN IF left < F[x] THEN left ELSE F[x]
  BY Zenon DEF Share
<1>3. F[x] \in Nat
  OBVIOUS
<1> HIDE DEF prior
<1> QED BY <1>1, <1>2, <1>3

Lesser(a, b) == IF a <= b THEN a ELSE b

\* Without the last one, the shares of the others are what they were.
LEMMA SharesWithoutLast ==
    ASSUME NEW T, NEW before, Orders(before, T), NEW F, NEW r, NEW x \in T, LastOf(x, T, before)
    PROVE  /\ Prior(x, T, before) = T \ {x}
           /\ \A y \in T \ {x} : Shares(T, before, F, r)[y] = Shares(T \ {x}, before, F, r)[y]
<1>1. Prior(x, T, before) = T \ {x}
  BY DEF Prior, LastOf, Orders
<1>2. ASSUME NEW y \in T \ {x} PROVE Prior(y, T, before) = Prior(y, T \ {x}, before)
  <2>1. <<x, y>> \notin before
    BY DEF LastOf, Orders
  <2> QED BY <2>1 DEF Prior
<1>3. ASSUME NEW y \in T \ {x} PROVE Share(y, T, before, F, r) = Share(y, T \ {x}, before, F, r)
  BY <1>2, Zenon DEF Share
<1> QED BY <1>1, <1>3 DEF Shares

\* The shares add up to the amount, or to all that can be taken.
LEMMA SharesSum ==
    ASSUME NEW D, IsFiniteSet(D), NEW before, Orders(before, D),
           NEW F, \A x \in D : F[x] \in Nat, NEW r \in Nat
    PROVE  SumOver(Shares(D, before, F, r), D) = Lesser(r, SumOver(F, D))
<1> DEFINE Fails(T) == SumOver(Shares(T, before, F, r), T) # Lesser(r, SumOver(F, T))
           Sizes == {n \in Nat : \E T \in SUBSET D : Fails(T) /\ Cardinality(T) = n}
<1>1. \A T \in SUBSET D : IsFiniteSet(T) /\ Cardinality(T) \in Nat
  BY FS_Subset, FS_CardinalityType
<1>2. SUFFICES ASSUME Fails(D) PROVE FALSE
  OBVIOUS
<1>3. Sizes \in SUBSET Nat /\ Sizes # {}
  BY <1>1, <1>2
<1>4. PICK n \in Sizes : \A m \in Sizes : n <= m
  BY <1>3, Smallest
<1>5. PICK T \in SUBSET D : Fails(T) /\ Cardinality(T) = n
  BY <1>4
<1>6. T # {}
  <2>1. ~Fails({})
    BY SumEmpty DEF Lesser
  <2> HIDE DEF Fails
  <2> QED BY <1>5, <2>1
<1>7. IsFiniteSet(T) /\ Orders(before, T) /\ \A x \in T : F[x] \in Nat
  BY <1>1 DEF Orders
<1>8. PICK x \in T : LastOf(x, T, before)
  BY <1>6, <1>7, LastExists
<1> DEFINE R == T \ {x}
           sh == Shares(T, before, F, r)
<1>9. ~Fails(R)
  <2>1. Cardinality(R) = n - 1 /\ R \in SUBSET D
    BY <1>1, <1>5, FS_RemoveElement
  <2>2. Cardinality(R) \in Nat /\ n \in Nat
    BY <1>1, <1>3, <2>1
  <2>3. Cardinality(R) \notin Sizes
    BY <1>4, <2>1, <2>2
  <2> HIDE DEF Fails
  <2> QED BY <2>1, <2>2, <2>3
<1>10. Prior(x, T, before) = R /\ \A y \in R : sh[y] = Shares(R, before, F, r)[y]
  <2>1. x \in T /\ Orders(before, T) /\ LastOf(x, T, before)
    BY <1>7, <1>8
  <2> HIDE DEF Fails, Sizes
  <2> QED BY <2>1, SharesWithoutLast
<1>11. IsFiniteSet(R) /\ SumOver(F, R) \in Nat
  BY <1>1, <1>7, SumNat, FS_RemoveElement
<1>12. \A y \in T : sh[y] \in Int
  BY <1>7, ShareBounds DEF Shares
<1>13. SumOver(sh, R) = Lesser(r, SumOver(F, R))
  <2>1. SumOver(sh, R) = SumOver(Shares(R, before, F, r), R)
    <3> HIDE DEF sh
    <3> QED BY <1>10, <1>11, <1>12, SumSame
  <2> QED BY <1>9, <2>1
<1>14. SumOver(F, T) = F[x] + SumOver(F, R)
  BY <1>7, SumRemove
<1>15. SumOver(sh, T) = sh[x] + SumOver(sh, R)
  <2> HIDE DEF sh
  <2> QED BY <1>7, <1>12, SumRemove
<1>16. sh[x] = LET left == IF r > SumOver(F, R) THEN r - SumOver(F, R) ELSE 0 IN IF left < F[x] THEN left ELSE F[x]
  <2>1. sh[x] = Share(x, T, before, F, r)
    BY DEF Shares
  <2> QED BY <1>10, <2>1 DEF Share
<1>17. SumOver(sh, T) = Lesser(r, SumOver(F, T))
  <2> DEFINE p == SumOver(F, R)
  <2>1. p \in Nat /\ F[x] \in Nat
    BY <1>7, <1>11
  <2>2. SumOver(sh, T) = (LET left == IF r > p THEN r - p ELSE 0 IN IF left < F[x] THEN left ELSE F[x]) + Lesser(r, p)
    BY <1>13, <1>15, <1>16
  <2>3. SumOver(F, T) = F[x] + p
    BY <1>14
  <2> HIDE DEF p
  <2> QED BY <2>1, <2>2, <2>3 DEF Lesser
<1> QED BY <1>5, <1>17

-----------------------------------------------------------------------------
(* Sums of applications. *)

Finite == IsFiniteSet(apps)

\* The applied amounts of a finite set of applications, as a sum of a function.
LEMMA SumAppliedIs ==
    ASSUME NEW A, IsFiniteSet(A)
    PROVE  SumApplied(A) = SumOver([a \in A |-> a.amount], A)
<1> DEFINE F == [a \in A |-> a.amount]
           Adding(g) == [T \in SUBSET A |-> IF T = {} THEN 0
                            ELSE (CHOOSE x \in T : TRUE).amount + g[T \ {CHOOSE x \in T : TRUE}]]
<1>1. ASSUME NEW g PROVE Adds(g, F, A) <=> g = Adding(g)
  BY DEF Adds
<1>2. SumApplied(A) = (CHOOSE g : g = Adding(g))[A]
  BY Zenon DEF SumApplied, MapThenSumSet, MapThenFoldSet
<1> HIDE DEF F, Adding
<1>3. PICK g : g = Adding(g)
  BY <1>1, AddsExists
<1>4. Adds(CHOOSE h : h = Adding(h), F, A)
  BY <1>1, <1>3
<1> QED BY <1>2, <1>4, SumIs DEF F

\* What is available of documents, likewise.
LEMMA SumAvailableIs ==
    ASSUME NEW D, IsFiniteSet(D)
    PROVE  MapThenSumSet(Available, D) = SumOver([d \in D |-> Available(d)], D)
<1> DEFINE F == [d \in D |-> Available(d)]
           Adding(g) == [T \in SUBSET D |-> IF T = {} THEN 0
                            ELSE Available(CHOOSE x \in T : TRUE) + g[T \ {CHOOSE x \in T : TRUE}]]
<1>1. ASSUME NEW g PROVE Adds(g, F, D) <=> g = Adding(g)
  BY DEF Adds
<1>2. MapThenSumSet(Available, D) = (CHOOSE g : g = Adding(g))[D]
  BY Zenon DEF MapThenSumSet, MapThenFoldSet
<1> HIDE DEF F, Adding
<1>3. PICK g : g = Adding(g)
  BY <1>1, AddsExists
<1>4. Adds(CHOOSE h : h = Adding(h), F, D)
  BY <1>1, <1>3
<1> QED BY <1>2, <1>4, SumIs DEF F

\* Applications have positive amounts, so sums of them are natural numbers, and
\* a part of them sums up to no more.
LEMMA SumAppliedPart ==
    ASSUME NEW A, IsFiniteSet(A), \A a \in A : a.amount \in Nat, NEW B \in SUBSET A
    PROVE  SumApplied(A) \in Nat /\ SumApplied(B) \in Nat /\ SumApplied(B) <= SumApplied(A)
<1> DEFINE F == [a \in A |-> a.amount]
           G == [a \in B |-> a.amount]
<1>1. IsFiniteSet(B)
  BY FS_Subset
<1>2. SumApplied(A) = SumOver(F, A) /\ SumApplied(B) = SumOver(G, B)
  BY <1>1, SumAppliedIs
<1>3. (\A a \in A : F[a] \in Nat) /\ (\A a \in B : G[a] = F[a] /\ G[a] \in Nat /\ G[a] \in Int)
  OBVIOUS
<1> HIDE DEF F, G
<1>4. SumOver(G, B) = SumOver(F, B)
  BY <1>1, <1>3, SumSame
<1>5. SumOver(F, A) \in Nat /\ SumOver(F, B) \in Nat
  BY <1>1, <1>3, SumNat
<1> QED BY <1>2, <1>3, <1>4, <1>5, SumPart

\* Two sets of applications with nothing in common.
LEMMA SumAppliedUnion ==
    ASSUME NEW A, IsFiniteSet(A), NEW B, IsFiniteSet(B), A \cap B = {},
           \A a \in A \cup B : a.amount \in Nat
    PROVE  SumApplied(A \cup B) = SumApplied(A) + SumApplied(B)
<1> DEFINE F == [a \in A \cup B |-> a.amount]
           G == [a \in A |-> a.amount]
           H == [a \in B |-> a.amount]
<1>1. IsFiniteSet(A \cup B)
  BY FS_Union
<1>2. SumApplied(A \cup B) = SumOver(F, A \cup B) /\ SumApplied(A) = SumOver(G, A) /\ SumApplied(B) = SumOver(H, B)
  BY <1>1, SumAppliedIs
<1>3. /\ \A a \in A \cup B : F[a] \in Int
      /\ \A a \in A : G[a] = F[a] /\ G[a] \in Int
      /\ \A a \in B : H[a] = F[a] /\ H[a] \in Int
  OBVIOUS
<1> HIDE DEF F, G, H
<1>4. SumOver(G, A) = SumOver(F, A) /\ SumOver(H, B) = SumOver(F, B)
  BY <1>3, SumSame
<1>5. SumOver(F, A \cup B) = SumOver(F, A) + SumOver(F, B)
  BY <1>3, SumDisjoint
<1> QED BY <1>2, <1>4, <1>5

\* Applications that correspond to others of the same amount.
LEMMA SumAppliedRenamed ==
    ASSUME NEW A, IsFiniteSet(A), NEW B, NEW f \in Bijection(A, B),
           \A a \in A : a.amount \in Nat /\ f[a].amount = a.amount
    PROVE  IsFiniteSet(B) /\ SumApplied(B) = SumApplied(A)
<1> DEFINE F == [a \in A |-> a.amount]
           G == [a \in B |-> a.amount]
<1>1. \A a \in A : F[a] \in Int /\ G[f[a]] = F[a]
  BY DEF Bijection, Injection
<1> HIDE DEF F, G
<1>2. IsFiniteSet(B) /\ SumOver(G, B) = SumOver(F, A)
  BY <1>1, SumRenamed
<1> QED BY <1>2, SumAppliedIs DEF F, G

\* What is left of a document is a number.
LEMMA AvailableInt ==
    ASSUME TypeOK, Finite, NEW d \in Docs
    PROVE  /\ Gross(d) \in Int /\ Available(d) \in Int /\ Remaining(d) \in Int
           /\ IsFiniteSet(AppsTo(d)) /\ IsFiniteSet(AppsOf(d))
           /\ SumApplied(AppsTo(d)) \in Nat /\ SumApplied(AppsOf(d)) \in Nat
<1>1. IsFiniteSet(AppsTo(d)) /\ IsFiniteSet(AppsOf(d)) /\ \A a \in apps : a.amount \in Nat
  BY FS_Subset DEF Finite, AppsTo, AppsOf, TypeOK
<1>2. SumApplied(AppsTo(d)) \in Nat /\ SumApplied(AppsOf(d)) \in Nat
  BY <1>1, SumAppliedPart DEF AppsTo, AppsOf
<1>3. Gross(d) \in Int
  BY DEF TypeOK, Gross
<1> QED BY <1>1, <1>2, <1>3 DEF Available, Remaining

-----------------------------------------------------------------------------
(* One allocation. *)

OlderPairs == {p \in Docs \X Docs : Older(p[1], p[2])}
Avail(s) == [t \in OpenDocs(s) |-> Available(t)]

\* The open documents, oldest first.
LEMMA OpenDocsOrder ==
    ASSUME TypeOK, Finite, NEW s \in Docs
    PROVE  /\ OpenDocs(s) \subseteq Docs /\ IsFiniteSet(OpenDocs(s))
           /\ Orders(OlderPairs, OpenDocs(s))
           /\ \A t \in OpenDocs(s) : Avail(s)[t] = Available(t) /\ Avail(s)[t] \in Nat /\ Available(t) > 0
<1>1. OpenDocs(s) \subseteq Docs /\ IsFiniteSet(OpenDocs(s))
  BY SubledgerAssumption, FS_Subset DEF OpenDocs
<1>2. \A t \in Docs : t \in Int /\ doc[t].date \in Int
  <2>1. \A t \in Docs : doc[t].date \in Dates \cup {0}
    BY TypeParts DEF DocsOK, DocRow
  <2>2. Docs \subseteq Int /\ Dates \cup {0} \subseteq Int
    BY SubledgerAssumption
  <2> QED BY <2>1, <2>2
<1>3. \A t, u \in Docs : <<t, u>> \in OlderPairs <=> Older(t, u)
  BY DEF OlderPairs
<1>4. Orders(OlderPairs, OpenDocs(s))
  <2>1. \A t \in Docs : ~Older(t, t)
    BY <1>2 DEF Older
  <2>2. \A t, u \in Docs : t # u => Older(t, u) \/ Older(u, t)
    BY <1>2 DEF Older
  <2>3. \A t, u, v \in Docs : Older(t, u) /\ Older(u, v) => Older(t, v)
    BY <1>2 DEF Older
  <2> QED BY <1>1, <1>3, <2>1, <2>2, <2>3 DEF Orders
<1>5. \A t \in OpenDocs(s) : Available(t) \in Nat /\ Available(t) > 0
  <2>1. \A t \in OpenDocs(s) : Available(t) \in Int /\ Available(t) > 0
    BY AvailableInt DEF OpenDocs
  <2> QED BY <2>1
<1> QED BY <1>1, <1>4, <1>5 DEF Avail

\* Each gets its share of the remainder.
LEMMA AllocationIs ==
    ASSUME TypeOK, Finite, NEW s \in Docs, NEW t \in OpenDocs(s)
    PROVE  Allocation(s, t) = Share(t, OpenDocs(s), OlderPairs, Avail(s), Remaining(s))
<1> DEFINE D == OpenDocs(s)
           P == {u \in D : Older(u, t)}
           G == [u \in P |-> Available(u)]
<1>1. D \subseteq Docs /\ IsFiniteSet(P) /\ \A u \in P : G[u] = Avail(s)[u] /\ G[u] \in Int
  <2>1. D \subseteq Docs /\ IsFiniteSet(D) /\ \A u \in D : Avail(s)[u] = Available(u) /\ Avail(s)[u] \in Nat
    BY OpenDocsOrder
  <2>2. P \in SUBSET D
    OBVIOUS
  <2> QED BY <2>1, <2>2, FS_Subset
<1>2. P = Prior(t, D, OlderPairs)
  BY <1>1 DEF Prior, OlderPairs
<1>3. MapThenSumSet(Available, P) = SumOver(G, P)
  BY <1>1, SumAvailableIs
<1>4. SumOver(G, P) = SumOver(Avail(s), P)
  <2> HIDE DEF G, P
  <2> QED BY <1>1, SumSame
<1>5. Avail(s)[t] = Available(t)
  BY DEF Avail
<1>6. Allocation(s, t) = LET prior == MapThenSumSet(Available, P)
                             left == IF Remaining(s) > prior THEN Remaining(s) - prior ELSE 0
                         IN  IF left < Available(t) THEN left ELSE Available(t)
  BY Zenon DEF Allocation
<1> HIDE DEF P, G
<1> QED BY <1>2, <1>3, <1>4, <1>5, <1>6 DEF Share

\* What an allocation gives a document is no more than its balance.
LEMMA AllocationBounds ==
    ASSUME TypeOK, Finite, NEW s \in Docs, NEW t \in OpenDocs(s)
    PROVE  Allocation(s, t) \in Nat /\ Allocation(s, t) <= Available(t)
<1> DEFINE D == OpenDocs(s)
           F == Avail(s)
           r == Remaining(s)
           share == Share(t, D, OlderPairs, F, r)
<1>1. IsFiniteSet(D) /\ (\A u \in D : F[u] \in Nat) /\ t \in D /\ F[t] = Available(t)
  BY OpenDocsOrder
<1>2. r \in Int
  BY AvailableInt
<1>3. Allocation(s, t) = share
  BY AllocationIs
<1> HIDE DEF D, F, r
<1>4. share \in Nat /\ share <= F[t]
  BY <1>1, <1>2, ShareBounds
<1> HIDE DEF share
<1> QED BY <1>1, <1>3, <1>4

\* What it gives all of them is the remainder, or all that is open.
LEMMA NewAppsSum ==
    ASSUME TypeOK, Finite, NEW s \in Docs, Remaining(s) \in Nat
    PROVE  /\ IsFiniteSet(NewApps(s)) /\ \A a \in NewApps(s) : a.amount \in Nat
           /\ SumApplied(NewApps(s)) = Lesser(Remaining(s), SumOver(Avail(s), OpenDocs(s)))
<1> DEFINE D == OpenDocs(s)
           given == {u \in D : Allocation(s, u) \in Nat \ {0}}
           rest == D \ given
           app(t) == [settler |-> s, target |-> t, amount |-> Allocation(s, t), fx |-> 0]
           f == [t \in given |-> app(t)]
           sh == Shares(D, OlderPairs, Avail(s), Remaining(s))
           G == [a \in NewApps(s) |-> a.amount]
<1>1. NewApps(s) = {app(t) : t \in given}
  BY Zenon DEF NewApps
<1>2. f \in Bijection(given, NewApps(s))
  <2>1. f \in [given -> NewApps(s)] /\ \A a \in NewApps(s) : \E t \in given : f[t] = a
    BY <1>1
  <2>2. \A t, u \in given : f[t] = f[u] => t = u
    OBVIOUS
  <2> QED BY <2>1, <2>2 DEF Bijection, Injection, Surjection, IsInjective
<1>3. IsFiniteSet(D) /\ IsFiniteSet(given) /\ IsFiniteSet(rest)
      /\ given \cup rest = D /\ given \cap rest = {}
  BY OpenDocsOrder, FS_Subset
<1>4. \A t \in D : sh[t] = Allocation(s, t) /\ sh[t] \in Nat
  BY AllocationIs, AllocationBounds DEF Shares
<1>5. \A t \in given : G[f[t]] = sh[t] /\ sh[t] \in Int
  BY <1>1, <1>4
<1>6. SumOver(sh, D) = Lesser(Remaining(s), SumOver(Avail(s), D))
  <2> HIDE DEF D
  <2>1. IsFiniteSet(D) /\ Orders(OlderPairs, D) /\ \A t \in D : Avail(s)[t] \in Nat
    BY OpenDocsOrder DEF D
  <2> QED BY <2>1, SharesSum
<1>7. \A t \in rest : sh[t] = 0
  BY <1>4
<1>8. \A a \in NewApps(s) : a.amount \in Nat
  BY <1>1
<1>9. SumOver(sh, D) = SumOver(sh, given) + SumOver(sh, rest)
  <2>1. \A t \in given \cup rest : sh[t] \in Int
    BY <1>4
  <2> HIDE DEF sh, D, given, rest
  <2> QED BY <1>3, <2>1, SumDisjoint
<1> HIDE DEF sh, D, given, rest, f, G
<1>10. IsFiniteSet(NewApps(s)) /\ SumOver(G, NewApps(s)) = SumOver(sh, given)
  BY <1>2, <1>3, <1>5, SumRenamed
<1>11. SumOver(sh, rest) = 0
  BY <1>3, <1>7, SumZero
<1>12. SumOver(sh, given) \in Int
  BY <1>3, <1>5, SumInt
<1>13. SumApplied(NewApps(s)) = SumOver(G, NewApps(s))
  BY <1>10, SumAppliedIs DEF G
<1> QED BY <1>6, <1>8, <1>9, <1>10, <1>11, <1>12, <1>13 DEF D

-----------------------------------------------------------------------------
(* The applications after an allocation. *)

LEMMA SumAppliedOne ==
    ASSUME NEW a, a.amount \in Nat
    PROVE  SumApplied({a}) = a.amount /\ SumApplied({}) = 0
<1> DEFINE F == [b \in {a} |-> b.amount]
           N == [b \in {} |-> b.amount]
<1>1. IsFiniteSet({a}) /\ IsFiniteSet({}) /\ {a} \ {a} = {}
  BY FS_Singleton, FS_EmptySet
<1>2. F[a] = a.amount /\ \A b \in {a} : F[b] \in Int
  OBVIOUS
<1>3. SumApplied({a}) = SumOver(F, {a})
  BY <1>1, SumAppliedIs
<1>4. SumApplied({}) = SumOver(N, {})
  BY <1>1, SumAppliedIs
<1> HIDE DEF F, N
<1>5. SumOver(F, {a}) = F[a] + SumOver(F, {a} \ {a})
  BY <1>1, <1>2, SumRemove
<1> QED BY <1>1, <1>2, <1>3, <1>4, <1>5, SumEmpty

\* An application with its exchange entry, if it gets one.
Linked(a, fxApps, pos) == IF a \in fxApps THEN [a EXCEPT !.fx = pos[a]] ELSE a

LEMMA LinkedFields ==
    ASSUME NEW R, NEW a \in AppRow(R), NEW fxApps, NEW pos
    PROVE  /\ Linked(a, fxApps, pos).settler = a.settler
           /\ Linked(a, fxApps, pos).target = a.target
           /\ Linked(a, fxApps, pos).amount = a.amount
BY DEF Linked, AppRow

\* No two applications of A are of the same pair.
Pairwise(A) == \A a, b \in A : b.settler = a.settler /\ b.target = a.target => b = a

\* Linking changes no amount and merges none.
LEMMA LinkedSum ==
    ASSUME NEW R, NEW A \in SUBSET AppRow(R), IsFiniteSet(A), Pairwise(A), NEW fxApps, NEW pos
    PROVE  LET B == {Linked(a, fxApps, pos) : a \in A} IN
           IsFiniteSet(B) /\ SumApplied(B) = SumApplied(A)
<1> DEFINE B == {Linked(a, fxApps, pos) : a \in A}
           f == [a \in A |-> Linked(a, fxApps, pos)]
<1>1. f \in [A -> B] /\ \A b \in B : \E a \in A : f[a] = b
  OBVIOUS
<1>2. ASSUME NEW a \in A, NEW b \in A, f[a] = f[b] PROVE a = b
  <2>1. Linked(a, fxApps, pos) = Linked(b, fxApps, pos)
    BY <1>2
  <2>2. a.settler = b.settler /\ a.target = b.target
    BY <2>1, LinkedFields
  <2> QED BY <2>2 DEF Pairwise
<1>3. f \in Bijection(A, B)
  BY <1>1, <1>2 DEF Bijection, Injection, Surjection, IsInjective
<1>4. \A a \in A : a.amount \in Nat /\ f[a].amount = a.amount
  BY LinkedFields DEF AppRow
<1> HIDE DEF f, B
<1>5. IsFiniteSet(B) /\ SumApplied(B) = SumApplied(A)
  BY <1>3, <1>4, SumAppliedRenamed
<1> QED BY <1>5 DEF B

\* What is inserted for one document.
LEMMA NewAppsTo ==
    ASSUME TypeOK, Finite, NEW s \in Docs, NEW d \in Docs
    PROVE  SumApplied({a \in NewApps(s) : a.target = d})
              = IF d \in OpenDocs(s) THEN Allocation(s, d) ELSE 0
<1> DEFINE app(t) == [settler |-> s, target |-> t, amount |-> Allocation(s, t), fx |-> 0]
           given == {u \in OpenDocs(s) : Allocation(s, u) \in Nat \ {0}}
           A == {a \in NewApps(s) : a.target = d}
<1>1. NewApps(s) = {app(t) : t \in given}
  BY Zenon DEF NewApps
<1>2. CASE d \in given
  <2>1. A = {app(d)}
    BY <1>1, <1>2
  <2>2. app(d).amount = Allocation(s, d) /\ app(d).amount \in Nat
    BY <1>2
  <2> HIDE DEF app
  <2> QED BY <1>2, <2>1, <2>2, SumAppliedOne
<1>3. CASE d \notin given
  <2>1. A = {}
    BY <1>1, <1>3
  <2>2. SumApplied({}) = 0
    <3>1. [amount |-> 0].amount \in Nat
      OBVIOUS
    <3> QED BY <3>1, SumAppliedOne
  <2>3. d \in OpenDocs(s) => Allocation(s, d) = 0
    BY <1>3, AllocationBounds
  <2> QED BY <2>1, <2>2, <2>3
<1> QED BY <1>2, <1>3

\* The applications before they are linked: of different pairs.
LEMMA BeforeLinking ==
    ASSUME IInv, Finite, NEW s \in Docs, NEW k \in Settlers, AutoApply(s, k), Remaining(s) \in Nat
    PROVE  /\ apps \cup NewApps(s) \subseteq AppRow(Ids) /\ IsFiniteSet(apps \cup NewApps(s))
           /\ Pairwise(apps \cup NewApps(s)) /\ apps \cap NewApps(s) = {}
           /\ \E fxApps : \E pos :
                 /\ apps' = {Linked(a, fxApps, pos) : a \in apps \cup NewApps(s)}
                 /\ fxApps \subseteq NewApps(s)
<1> DEFINE inserted == NewApps(s)
           fxApps == {a \in AppsOf(s) \cup inserted : a.fx = 0 /\ Difference(a) # 0}
<1>1. TypeOK /\ DocsOK /\ apps \subseteq AppRow(Ids) /\ JournalOK
  BY TypeParts DEF IInv
<1>2. \A a \in inserted : /\ a \in AppRow(Ids) /\ a.settler = s
                          /\ \A b \in inserted : b.target = a.target => b = a
  BY NewAppsOK DEF AppRow
<1>3. \A a \in inserted, b \in AppsOf(s) : a.target # b.target
  BY DEF AutoApply
<1>4. IsFiniteSet(apps \cup inserted)
  BY <1>1, NewAppsSum, FS_Union DEF Finite
<1>5. Pairwise(apps \cup inserted) /\ apps \cap inserted = {}
  <2>1. \A b \in apps : b.settler = s => b \in AppsOf(s)
    BY DEF AppsOf
  <2>2. \A a, b \in apps : b.settler = a.settler /\ b.target = a.target => b = a
    BY DEF IInv, ApplicationsPinPosted
  <2> QED BY <1>2, <1>3, <2>1, <2>2 DEF Pairwise
<1>6. ASSUME NEW a \in AppsOf(s) PROVE ~(a.fx = 0 /\ Difference(a) # 0)
  <2>1. /\ a \in apps /\ a \in AppRow(Ids)
        /\ (a.fx # 0 <=> Convert(a.amount, journal[doc[a.settler].entry].rate)
                         # Convert(a.amount, journal[doc[a.target].entry].rate))
        /\ doc[a.settler].status = "posted" /\ doc[a.target].status = "posted"
    BY <1>1 DEF AppsOf, IInv, ApplicationsPinPosted
  <2>2. doc[a.settler].entry \in Ids /\ doc[a.target].entry \in Ids /\ a.amount \in Int
    BY <1>1, <2>1 DEF DocsOK, DocRow, AppRow
  <2>3. journal[doc[a.settler].entry].rate \in Nat /\ journal[doc[a.target].entry].rate \in Nat
    BY <1>1, <2>2, JournalRows
  <2>4. /\ Convert(a.amount, journal[doc[a.settler].entry].rate) \in Int
        /\ Convert(a.amount, journal[doc[a.target].entry].rate) \in Int
    BY <2>2, <2>3, ConvertInt
  <2> QED BY <2>1, <2>4 DEF Difference
<1>7. fxApps \subseteq inserted
  BY <1>6
<1>8. PICK pos : apps' = ((apps \cup inserted) \ fxApps) \cup {[a EXCEPT !.fx = pos[a]] : a \in fxApps}
  BY AutoApplyGrown
<1> HIDE DEF fxApps, inserted
<1>9. apps' = {Linked(a, fxApps, pos) : a \in apps \cup inserted}
  <2>1. \A a \in (apps \cup inserted) \ fxApps : Linked(a, fxApps, pos) = a
    BY DEF Linked
  <2>2. \A a \in fxApps : Linked(a, fxApps, pos) = [a EXCEPT !.fx = pos[a]]
    BY DEF Linked
  <2> DEFINE other(a) == [a EXCEPT !.fx = pos[a]]
  <2>3. apps' = ((apps \cup inserted) \ fxApps) \cup {other(a) : a \in fxApps}
    BY <1>8
  <2>4. \A a \in fxApps : Linked(a, fxApps, pos) = other(a)
    BY <2>2
  <2> HIDE DEF other
  <2> QED BY <1>7, <2>1, <2>3, <2>4
<1>10. apps \cup inserted \subseteq AppRow(Ids)
  BY <1>1, <1>2
<1> QED BY <1>4, <1>5, <1>7, <1>9, <1>10 DEF inserted

\* An allocation adds to what is applied to each document its allocation, and
\* to what the settler has applied the sum of them.
LEMMA ApplySums ==
    ASSUME IInv, Finite, NEW s \in Docs, NEW k \in Settlers, AutoApply(s, k), Remaining(s) \in Nat
    PROVE  /\ Finite' /\ doc' = doc
           /\ \A d \in Docs :
                 /\ SumApplied(AppsTo(d))' = SumApplied(AppsTo(d))
                                             + (IF d \in OpenDocs(s) THEN Allocation(s, d) ELSE 0)
                 /\ SumApplied(AppsOf(d))' = SumApplied(AppsOf(d))
                                             + (IF d = s THEN SumApplied(NewApps(s)) ELSE 0)
           /\ \A a \in Added : /\ a.settler = s /\ a.target \in OpenDocs(s)
                               /\ Allocation(s, a.target) > 0
<1> DEFINE new == NewApps(s)
           all == apps \cup new
<1>1. /\ TypeOK /\ doc' = doc /\ IsFiniteSet(new)
      /\ all \subseteq AppRow(Ids) /\ IsFiniteSet(all) /\ Pairwise(all) /\ apps \cap new = {}
  BY BeforeLinking, NewAppsSum DEF IInv, AutoApply
<1>2. PICK fxApps, pos : apps' = {Linked(a, fxApps, pos) : a \in all} /\ fxApps \subseteq new
  BY BeforeLinking
<1>3. \A a \in new : \E t \in OpenDocs(s) :
         a = [settler |-> s, target |-> t, amount |-> Allocation(s, t), fx |-> 0] /\ Allocation(s, t) \in Nat \ {0}
  BY DEF NewApps
<1>4. \A a \in new : a.settler = s /\ a.target \in OpenDocs(s) /\ Allocation(s, a.target) > 0
  BY <1>3
<1>5. \A d \in Docs : SumApplied({a \in new : a.target = d}) = IF d \in OpenDocs(s) THEN Allocation(s, d) ELSE 0
  BY <1>1, NewAppsTo
<1>6. \A a \in all : a.amount \in Nat
  BY <1>1 DEF AppRow
<1> HIDE DEF new, all
<1>7. \A a \in all : /\ Linked(a, fxApps, pos).settler = a.settler
                     /\ Linked(a, fxApps, pos).target = a.target
  BY <1>1, LinkedFields
<1>8. Finite'
  <2>1. IsFiniteSet({Linked(a, fxApps, pos) : a \in all})
    BY <1>1, LinkedSum
  <2> QED BY <1>2, <2>1 DEF Finite
<1>9. ASSUME NEW A \in SUBSET all
      PROVE  SumApplied({Linked(a, fxApps, pos) : a \in A}) = SumApplied(A)
  <2>1. A \in SUBSET AppRow(Ids) /\ IsFiniteSet(A) /\ Pairwise(A)
    BY <1>1, FS_Subset DEF Pairwise
  <2> QED BY <2>1, LinkedSum
<1>10. ASSUME NEW d \in Docs
       PROVE  SumApplied(AppsTo(d))' = SumApplied(AppsTo(d)) + SumApplied({a \in new : a.target = d})
  <2> DEFINE A == {a \in all : a.target = d}
             N == {a \in new : a.target = d}
  <2>1. AppsTo(d)' = {Linked(a, fxApps, pos) : a \in A}
    <3>1. AppsTo(d)' = {b \in apps' : b.target = d}
      BY DEF AppsTo
    <3> QED BY <1>2, <1>7, <3>1
  <2>2. A = AppsTo(d) \cup N /\ AppsTo(d) \cap N = {} /\ A \in SUBSET all
    BY <1>1 DEF all, AppsTo
  <2>3. IsFiniteSet(AppsTo(d)) /\ IsFiniteSet(N) /\ \A a \in AppsTo(d) \cup N : a.amount \in Nat
    BY <1>1, <1>6, <2>2, FS_Subset
  <2> HIDE DEF A, N
  <2>4. SumApplied(A) = SumApplied(AppsTo(d)) + SumApplied(N)
    BY <2>2, <2>3, SumAppliedUnion
  <2> QED BY <1>9, <2>1, <2>2, <2>4 DEF N
<1>11. ASSUME NEW d \in Docs
       PROVE  SumApplied(AppsOf(d))' = SumApplied(AppsOf(d)) + (IF d = s THEN SumApplied(new) ELSE 0)
  <2> DEFINE A == {a \in all : a.settler = d}
             N == {a \in new : a.settler = d}
  <2>1. AppsOf(d)' = {Linked(a, fxApps, pos) : a \in A}
    <3>1. AppsOf(d)' = {b \in apps' : b.settler = d}
      BY DEF AppsOf
    <3> QED BY <1>2, <1>7, <3>1
  <2>2. A = AppsOf(d) \cup N /\ AppsOf(d) \cap N = {} /\ A \in SUBSET all
    BY <1>1 DEF all, AppsOf
  <2>3. IsFiniteSet(AppsOf(d)) /\ IsFiniteSet(N) /\ \A a \in AppsOf(d) \cup N : a.amount \in Nat
    BY <1>1, <1>6, <2>2, FS_Subset
  <2>4. N = IF d = s THEN new ELSE {}
    BY <1>4
  <2>5. SumApplied(N) = IF d = s THEN SumApplied(new) ELSE 0
    <3>1. [amount |-> 0].amount \in Nat
      OBVIOUS
    <3> QED BY <2>4, <3>1, SumAppliedOne
  <2> HIDE DEF A, N
  <2>6. SumApplied(A) = SumApplied(AppsOf(d)) + SumApplied(N)
    BY <2>2, <2>3, SumAppliedUnion
  <2> QED BY <1>9, <2>1, <2>2, <2>5, <2>6
<1>12. ASSUME NEW b \in Added
       PROVE  b.settler = s /\ b.target \in OpenDocs(s) /\ Allocation(s, b.target) > 0
  <2>1. PICK a \in all : b = Linked(a, fxApps, pos)
    BY <1>2 DEF Added
  <2>2. a \in new
    <3>1. a \in apps /\ a \notin new => Linked(a, fxApps, pos) = a
      BY <1>2 DEF Linked
    <3> QED BY <2>1, <3>1 DEF all, Added
  <2> QED BY <1>4, <1>7, <2>1, <2>2
<1> QED BY <1>1, <1>5, <1>8, <1>10, <1>11, <1>12 DEF new

-----------------------------------------------------------------------------
(* The invariant. *)

SInv == IInv /\ Finite /\ NeverOverApplied

\* What is left of a posted document is not negative.
LEMMA LeftNat ==
    ASSUME SInv, NEW d \in Docs, doc[d].status = "posted"
    PROVE  Remaining(d) \in Nat /\ Available(d) \in Nat
<1>1. SumApplied(AppsTo(d)) <= Gross(d) /\ SumApplied(AppsOf(d)) <= Gross(d)
  BY DEF SInv, NeverOverApplied, AppsTo, AppsOf
<1>2. /\ Gross(d) \in Int /\ Available(d) \in Int /\ Remaining(d) \in Int
      /\ SumApplied(AppsTo(d)) \in Nat /\ SumApplied(AppsOf(d)) \in Nat
  BY AvailableInt DEF SInv, IInv
<1> QED BY <1>1, <1>2 DEF Remaining, Available

\* An allocation gives no more than is open and spends no more than is left.
LEMMA ApplyWithin ==
    ASSUME SInv, NEW s \in Docs, NEW k \in Settlers, AutoApply(s, k)
    PROVE  Finite' /\ NeverOverApplied'
<1>1. TypeOK /\ Finite /\ IInv /\ doc[s].status = "posted"
  BY DEF SInv, IInv, AutoApply
<1>2. Remaining(s) \in Nat
  BY <1>1, LeftNat
<1>3. Finite' /\ doc' = doc
  BY <1>1, <1>2, ApplySums
<1>4. ASSUME NEW d \in Docs, doc[d].status = "posted"
      PROVE  SumApplied(AppsTo(d))' <= Gross(d) /\ SumApplied(AppsOf(d))' <= Gross(d)
  <2>1. /\ Gross(d) \in Int
        /\ SumApplied(AppsTo(d)) \in Nat /\ SumApplied(AppsOf(d)) \in Nat
        /\ Available(d) = Gross(d) - SumApplied(AppsTo(d))
        /\ Remaining(d) = Gross(d) - SumApplied(AppsOf(d))
    BY <1>1, AvailableInt DEF Available, Remaining
  <2>2. Available(d) \in Nat /\ Remaining(d) \in Nat
    BY <1>4, LeftNat
  <2>3. d \in OpenDocs(s) => Allocation(s, d) \in Nat /\ Allocation(s, d) <= Available(d)
    BY <1>1, AllocationBounds
  <2>4. SumApplied(AppsTo(d))' = SumApplied(AppsTo(d)) + (IF d \in OpenDocs(s) THEN Allocation(s, d) ELSE 0)
    BY <1>1, <1>2, ApplySums
  <2>5. SumApplied(AppsOf(d))' = SumApplied(AppsOf(d)) + (IF d = s THEN SumApplied(NewApps(s)) ELSE 0)
    BY <1>1, <1>2, ApplySums
  <2>6. SumApplied(NewApps(s)) \in Int /\ SumApplied(NewApps(s)) <= Remaining(s)
    <3>1. SumOver(Avail(s), OpenDocs(s)) \in Nat
      BY <1>1, OpenDocsOrder, SumNat
    <3> QED BY <1>1, <1>2, <3>1, NewAppsSum DEF Lesser
  <2>7. SumApplied(AppsTo(d))' <= Gross(d)
    BY <2>1, <2>2, <2>3, <2>4
  <2>8. SumApplied(AppsOf(d))' <= Gross(d)
    BY <2>1, <2>2, <2>5, <2>6
  <2> QED BY <2>7, <2>8
<1>5. \A d \in Docs : Gross(d)' = Gross(d)
  BY <1>3 DEF Gross
<1> QED BY <1>3, <1>4, <1>5 DEF NeverOverApplied, AppsTo, AppsOf

\* Every other step applies nothing, and a document it posts has a positive
\* total; posted documents keep theirs.
LEMMA OtherSteps ==
    ASSUME IInv, [Next]_vars
    PROVE  \/ \E s \in Docs, k \in Settlers : AutoApply(s, k)
           \/ /\ apps' \subseteq apps
              /\ \A d \in Docs : doc'[d].status = "posted" =>
                    /\ Gross(d)' = Gross(d)
                    /\ doc[d].status # "posted" => Gross(d) > 0
<1> DEFINE Steady == \A d \in Docs : doc'[d].status = "posted" =>
                        Gross(d)' = Gross(d) /\ (doc[d].status # "posted" => Gross(d) > 0)
<1>1. DocsOK
  BY TypeParts DEF IInv
<1>2. ASSUME doc' = doc PROVE Steady
  BY <1>2 DEF Gross
<1>3. ASSUME NEW d \in Docs, NEW row, row.status # "posted", doc' = [doc EXCEPT ![d] = row]
      PROVE  Steady
  BY <1>1, <1>3 DEF DocsOK, Gross
<1>4. ASSUME NEW d \in Docs, NEW k \in Kinds, Create(d, k) \/ Update(d, k) \/ Delete(d, k)
      PROVE  apps' = apps /\ Steady
  BY <1>3, <1>4 DEF Create, Update, Delete, Draft, NoDoc, Ledger
<1>5. ASSUME NEW d \in Docs, NEW k \in Kinds, NEW p \in Postings, Post(d, k, p[1], p[2], p[3])
      PROVE  apps' = apps /\ Steady
  <2>1. /\ doc' = [doc EXCEPT ![d].status = "posted", ![d].entry = Len(journal) + 1]
        /\ apps' = apps /\ Gross(d) > 0
    BY <1>5 DEF Post
  <2>2. \A c \in Docs : doc'[c].net = doc[c].net /\ doc'[c].tax = doc[c].tax
                        /\ (c # d => doc'[c].status = doc[c].status)
    BY <1>1, <2>1 DEF DocsOK, DocRow
  <2> QED BY <2>1, <2>2 DEF Gross
<1>6. ASSUME NEW d \in Docs, ToDraft(d) PROVE Steady
  <2>1. doc' = [doc EXCEPT ![d].status = "draft", ![d].entry = 0]
    BY <1>6 DEF ToDraft
  <2>2. \A c \in Docs : doc'[c].net = doc[c].net /\ doc'[c].tax = doc[c].tax
                        /\ (c # d => doc'[c].status = doc[c].status) /\ doc'[d].status # "posted"
    BY <1>1, <2>1 DEF DocsOK, DocRow
  <2> QED BY <2>2 DEF Gross
<1>7. CASE \E d \in Docs, k \in Kinds : Unpost(d, k)
  BY <1>6, <1>7 DEF Unpost
<1>8. CASE \E d \in Docs, k \in Payments : UnpostPayment(d, k)
  BY <1>6, <1>8 DEF UnpostPayment
<1>9. CASE Surroundings \/ UNCHANGED vars
  BY <1>2, <1>9 DEF Surroundings, SetExchangeRate, CreateAccountingPeriod,
       UpdateAccountingPeriod, UpdateSettings, MatchLine, UnmatchLine, Documents, vars
<1> HIDE DEF Steady
<1>10. CASE Next
  BY <1>4, <1>5, <1>7, <1>8, <1>9, <1>10, StepCases DEF Steady
<1> QED BY <1>9, <1>10 DEF Steady

\* Fewer applications sum up to less, and a draft has none.
LEMMA OtherWithin ==
    ASSUME SInv, apps' \subseteq apps,
           \A d \in Docs : doc'[d].status = "posted" =>
              Gross(d)' = Gross(d) /\ (doc[d].status # "posted" => Gross(d) > 0)
    PROVE  Finite' /\ NeverOverApplied'
<1>1. TypeOK /\ Finite
  BY DEF SInv, IInv
<1>2. Finite'
  BY <1>1, FS_Subset DEF Finite
<1>3. ASSUME NEW d \in Docs, doc'[d].status = "posted"
      PROVE  SumApplied(AppsTo(d))' <= Gross(d)' /\ SumApplied(AppsOf(d))' <= Gross(d)'
  <2>1. AppsTo(d)' \in SUBSET AppsTo(d) /\ AppsOf(d)' \in SUBSET AppsOf(d)
    BY DEF AppsTo, AppsOf
  <2>2. /\ IsFiniteSet(AppsTo(d)) /\ IsFiniteSet(AppsOf(d))
        /\ SumApplied(AppsTo(d)) \in Nat /\ SumApplied(AppsOf(d)) \in Nat /\ Gross(d) \in Int
    BY <1>1, AvailableInt
  <2>3. (\A a \in AppsTo(d) : a.amount \in Nat) /\ \A a \in AppsOf(d) : a.amount \in Nat
    BY <1>1 DEF TypeOK, AppsTo, AppsOf
  <2>4. /\ SumApplied(AppsTo(d)') \in Nat /\ SumApplied(AppsTo(d)') <= SumApplied(AppsTo(d))
        /\ SumApplied(AppsOf(d)') \in Nat /\ SumApplied(AppsOf(d)') <= SumApplied(AppsOf(d))
    BY <2>1, <2>2, <2>3, SumAppliedPart
  <2>5. SumApplied(AppsTo(d))' = SumApplied(AppsTo(d)') /\ SumApplied(AppsOf(d))' = SumApplied(AppsOf(d)')
    OBVIOUS
  <2>6. SumApplied(AppsTo(d)) <= Gross(d) /\ SumApplied(AppsOf(d)) <= Gross(d)
    <3>1. CASE doc[d].status = "posted"
      BY <3>1 DEF SInv, NeverOverApplied, AppsTo, AppsOf
    <3>2. CASE doc[d].status # "posted"
      <4>1. AppsTo(d) = {} /\ AppsOf(d) = {}
        BY <3>2 DEF SInv, IInv, ApplicationsPinPosted, AppsTo, AppsOf
      <4>2. SumApplied({}) = 0
        <5>1. [amount |-> 0].amount \in Nat
          OBVIOUS
        <5> QED BY <5>1, SumAppliedOne
      <4>3. Gross(d) > 0
        BY <1>3, <3>2
      <4> QED BY <2>2, <4>1, <4>2, <4>3
    <3> QED BY <3>1, <3>2
  <2>7. Gross(d)' = Gross(d)
    BY <1>3
  <2> QED BY <2>2, <2>4, <2>5, <2>6, <2>7
<1> QED BY <1>2, <1>3 DEF NeverOverApplied, AppsTo, AppsOf

\* The invariant of the applications, with the one it rests on: what is applied
\* keeps within the totals whatever is posted, applied, unposted and edited.
THEOREM SettlementInvariance == Spec => []SInv
<1>1. Init => SInv
  <2>1. Init => apps = {} /\ IInv /\ \A d \in Docs : doc[d].status # "posted"
    BY InitInv DEF Init, NoDoc
  <2>2. Init => Finite /\ NeverOverApplied
    BY <2>1, FS_EmptySet DEF Finite, NeverOverApplied
  <2> QED BY <2>1, <2>2 DEF SInv
<1>2. ASSUME SInv, [Next]_vars PROVE SInv'
  <2>1. IInv'
    BY <1>2, StepInv DEF SInv
  <2>2. Finite' /\ NeverOverApplied'
    BY <1>2, ApplyWithin, OtherWithin, OtherSteps DEF SInv
  <2> QED BY <2>1, <2>2 DEF SInv
<1> QED BY <1>1, <1>2, PTL DEF Spec

\* Payments and notes never settle more of a posted invoice or bill than its
\* total nor give more than their own, over any sequence of requests: the
\* allocation does it, the over-application trigger has nothing to refuse.
THEOREM WithinTotals == Spec => []NeverOverApplied
<1>1. SInv => NeverOverApplied
  BY DEF SInv
<1> QED BY <1>1, SettlementInvariance, PTL

-----------------------------------------------------------------------------
(* The order and the extent of one allocation. *)

\* A document takes all it can when what is before it, and it, fit the amount.
LEMMA ShareFull ==
    ASSUME NEW T, IsFiniteSet(T), NEW before, NEW F, \A y \in T : F[y] \in Nat, NEW r \in Int,
           NEW x \in T, <<x, x>> \notin before,
           NEW R \in SUBSET T, Prior(x, T, before) \cup {x} \subseteq R, SumOver(F, R) <= r
    PROVE  Share(x, T, before, F, r) = F[x]
<1> DEFINE P == Prior(x, T, before)
           p == SumOver(F, P)
<1>1. P \in SUBSET T /\ x \notin P /\ P \cup {x} \in SUBSET R
  BY DEF Prior
<1>2. IsFiniteSet(P) /\ IsFiniteSet(R) /\ (\A y \in R : F[y] \in Nat) /\ \A y \in P \cup {x} : F[y] \in Int
  BY <1>1, FS_Subset
<1> HIDE DEF P
<1>3. SumOver(F, P \cup {x}) = F[x] + p
  BY <1>1, <1>2, SumAdd
<1>4. SumOver(F, P \cup {x}) <= SumOver(F, R)
  BY <1>1, <1>2, SumPart
<1>5. p \in Int /\ F[x] \in Nat /\ SumOver(F, R) \in Int
  BY <1>1, <1>2, SumInt
<1>6. Share(x, T, before, F, r) = LET left == IF r > p THEN r - p ELSE 0 IN IF left < F[x] THEN left ELSE F[x]
  BY Zenon DEF Share, P
<1> HIDE DEF p
<1> QED BY <1>3, <1>4, <1>5, <1>6

\* A document gets something only after those before it got all they could take.
LEMMA ShareInTurn ==
    ASSUME NEW T, IsFiniteSet(T), NEW before, Orders(before, T), NEW F, \A y \in T : F[y] \in Nat,
           NEW r \in Int, NEW x \in T, NEW y \in T, <<x, y>> \in before, Share(y, T, before, F, r) > 0
    PROVE  Share(x, T, before, F, r) = F[x]
<1> DEFINE P == Prior(y, T, before)
           p == SumOver(F, P)
<1>1. P \in SUBSET T /\ Prior(x, T, before) \cup {x} \subseteq P /\ <<x, x>> \notin before
  BY DEF Prior, Orders
<1>2. p \in Int
  <2>1. IsFiniteSet(P) /\ \A z \in P : F[z] \in Int
    BY <1>1, FS_Subset
  <2> HIDE DEF P
  <2> QED BY <2>1, SumInt
<1>3. Share(y, T, before, F, r) = LET left == IF r > p THEN r - p ELSE 0 IN IF left < F[y] THEN left ELSE F[y]
  BY Zenon DEF Share
<1>4. F[y] \in Nat
  OBVIOUS
<1> HIDE DEF P
<1>5. p <= r
  <2> HIDE DEF p
  <2> QED BY <1>2, <1>3, <1>4
<1> QED BY <1>1, <1>5, ShareFull

\* The documents an allocation to t passes by.
Beside(u, t) == /\ doc[u].status = "posted" /\ Kind[u] = Kind[t]
                /\ Party[u] = Party[t] /\ (u \in Foreign <=> t \in Foreign)

\* A document beside one that an allocation reaches is open, or settled.
LEMMA BesideOpen ==
    ASSUME SInv, NEW s \in Docs, NEW t \in OpenDocs(s), NEW u \in Docs, Beside(u, t)
    PROVE  u \in OpenDocs(s) \/ Available(u) = 0
<1>1. Available(u) \in Nat
  BY LeftNat DEF Beside
<1> QED BY <1>1 DEF Beside, OpenDocs

\* What becomes of balances.
LEMMA ApplyBalances ==
    ASSUME SInv, NEW s \in Docs, NEW k \in Settlers, AutoApply(s, k)
    PROVE  \A u \in Docs : Balance(u)' = Available(u) - (IF u \in OpenDocs(s) THEN Allocation(s, u) ELSE 0)
<1> TAKE u \in Docs
<1>1. TypeOK /\ Finite /\ IInv /\ Remaining(s) \in Nat
  BY LeftNat DEF SInv, IInv, AutoApply
<1>2. /\ SumApplied(AppsTo(u))' = SumApplied(AppsTo(u)) + (IF u \in OpenDocs(s) THEN Allocation(s, u) ELSE 0)
      /\ doc' = doc
  BY <1>1, ApplySums
<1>3. Balance(u)' = Gross(u)' - SumApplied(AppsTo(u))' /\ Gross(u)' = Gross(u)
  BY <1>2 DEF Balance, AppsTo, Gross
<1>4. /\ Gross(u) \in Int /\ SumApplied(AppsTo(u)) \in Nat /\ Available(u) = Gross(u) - SumApplied(AppsTo(u))
      /\ u \in OpenDocs(s) => Allocation(s, u) \in Nat
  BY <1>1, AvailableInt, AllocationBounds DEF Available
<1> QED BY <1>2, <1>3, <1>4

LEMMA ApplyInTurn ==
    ASSUME SInv, NEW s \in Docs, NEW k \in Settlers, AutoApply(s, k),
           NEW t \in OpenDocs(s), Allocation(s, t) > 0, NEW u \in Docs, Beside(u, t), doc[u].date < doc[t].date
    PROVE  Balance(u)' = 0
<1>1. TypeOK /\ Finite /\ Remaining(s) \in Int
  BY AvailableInt DEF SInv, IInv
<1>2. CASE u \in OpenDocs(s)
  <2> DEFINE D == OpenDocs(s)
             F == Avail(s)
  <2>1. D \subseteq Docs /\ IsFiniteSet(D) /\ Orders(OlderPairs, D) /\ \A x \in D : F[x] = Available(x) /\ F[x] \in Nat
    BY <1>1, OpenDocsOrder
  <2>2. <<u, t>> \in OlderPairs
    BY <2>1 DEF OlderPairs, Older
  <2>3. /\ Allocation(s, t) = Share(t, D, OlderPairs, F, Remaining(s))
        /\ Allocation(s, u) = Share(u, D, OlderPairs, F, Remaining(s))
    BY <1>1, <1>2, AllocationIs
  <2>4. t \in D /\ u \in D
    BY <1>2
  <2> HIDE DEF D, F
  <2>5. Share(u, D, OlderPairs, F, Remaining(s)) = F[u]
    BY <1>1, <2>1, <2>2, <2>3, <2>4, ShareInTurn
  <2>6. Allocation(s, u) = Available(u) /\ Available(u) \in Nat
    BY <2>1, <2>3, <2>4, <2>5
  <2> QED BY <1>2, <2>6, ApplyBalances
<1>3. CASE u \notin OpenDocs(s)
  BY <1>3, BesideOpen, ApplyBalances
<1> QED BY <1>2, <1>3

LEMMA ApplyAll ==
    ASSUME SInv, NEW s \in Docs, NEW k \in Settlers, AutoApply(s, k), NEW t \in OpenDocs(s)
    PROVE  \/ Gross(s) = SumApplied(AppsOf(s))'
           \/ \A u \in Docs : Beside(u, t) => Balance(u)' = 0
<1> DEFINE D == OpenDocs(s)
           F == Avail(s)
           r == Remaining(s)
<1>1. TypeOK /\ Finite /\ IInv /\ r \in Nat /\ r = Gross(s) - SumApplied(AppsOf(s))
      /\ Gross(s) \in Int /\ SumApplied(AppsOf(s)) \in Nat
  BY LeftNat, AvailableInt DEF SInv, IInv, AutoApply, Remaining
<1>2. D \subseteq Docs /\ IsFiniteSet(D) /\ Orders(OlderPairs, D) /\ \A x \in D : F[x] = Available(x) /\ F[x] \in Nat
  BY <1>1, OpenDocsOrder
<1>3. SumOver(F, D) \in Nat
  BY <1>2, SumNat
<1>4. CASE r <= SumOver(F, D)
  <2>1. SumApplied(AppsOf(s))' = SumApplied(AppsOf(s)) + SumApplied(NewApps(s))
    BY <1>1, ApplySums
  <2>2. SumApplied(NewApps(s)) = r
    BY <1>1, <1>3, <1>4, NewAppsSum DEF Lesser
  <2> HIDE DEF r
  <2> QED BY <1>1, <2>1, <2>2
<1>5. CASE SumOver(F, D) <= r
  <2>1. ASSUME NEW u \in D PROVE Allocation(s, u) = Available(u) /\ Available(u) \in Nat
    <3>1. Allocation(s, u) = Share(u, D, OlderPairs, F, r)
      BY <1>1, AllocationIs
    <3>2. Prior(u, D, OlderPairs) \cup {u} \subseteq D /\ <<u, u>> \notin OlderPairs
      BY <1>2 DEF Prior, Orders
    <3> HIDE DEF D, F, r
    <3>3. Share(u, D, OlderPairs, F, r) = F[u]
      <4>1. r \in Int /\ D \in SUBSET D /\ \A y \in D : F[y] \in Nat
        BY <1>1, <1>2
      <4> QED BY <1>2, <1>5, <2>1, <3>2, <4>1, ShareFull
    <3> QED BY <1>2, <2>1, <3>1, <3>3
  <2>2. ASSUME NEW u \in Docs, Beside(u, t) PROVE Balance(u)' = 0
    <3>1. CASE u \in D
      BY <2>1, <3>1, ApplyBalances
    <3>2. CASE u \notin D
      BY <2>2, <3>2, BesideOpen, ApplyBalances
    <3> QED BY <3>1, <3>2
  <2> QED BY <2>2
<1> QED BY <1>1, <1>3, <1>4, <1>5

\* An INSERT ... SELECT of an allocation reaches a document only once every
\* earlier one of the party in the same currency is settled.
THEOREM OldestSettledFirst == Spec => OldestFirst
<1> DEFINE InTurn == \A a \in Added : \A u \in Docs :
                        /\ doc[u].status = "posted" /\ Kind[u] = Kind[a.target]
                        /\ Party[u] = Party[a.target] /\ (u \in Foreign <=> a.target \in Foreign)
                        /\ doc[u].date < doc[a.target].date
                        => Balance(u)' = 0
<1>1. ASSUME SInv, [Next]_vars PROVE InTurn
  <2>1. CASE apps' \subseteq apps
    BY <2>1 DEF Added
  <2>2. ASSUME NEW s \in Docs, NEW k \in Settlers, AutoApply(s, k) PROVE InTurn
    <3>1. Remaining(s) \in Nat /\ IInv /\ Finite
      BY <1>1, <2>2, LeftNat DEF SInv, AutoApply
    <3>2. \A a \in Added : a.target \in OpenDocs(s) /\ Allocation(s, a.target) > 0
      BY <2>2, <3>1, ApplySums
    <3> QED BY <1>1, <2>2, <3>2, ApplyInTurn DEF Beside
  <2>3. IInv
    BY <1>1 DEF SInv
  <2> HIDE DEF InTurn
  <2> QED BY <1>1, <2>1, <2>2, <2>3, OtherSteps
<1>2. SInv /\ [Next]_vars => [InTurn]_vars
  BY <1>1
<1> QED BY <1>2, SettlementInvariance, PTL DEF Spec, OldestFirst

\* It spends the payment or note, or leaves nothing open that it could settle.
THEOREM NothingWithheld == Spec => AllocationExhausts
<1> DEFINE Spent == \A a \in Added :
          \/ Gross(a.settler) = SumApplied({b \in apps : b.settler = a.settler})'
          \/ \A u \in Docs : /\ doc[u].status = "posted" /\ Kind[u] = Kind[a.target]
                             /\ Party[u] = Party[a.target] /\ (u \in Foreign <=> a.target \in Foreign)
                             => Balance(u)' = 0
<1>1. ASSUME SInv, [Next]_vars PROVE Spent
  <2>1. CASE apps' \subseteq apps
    BY <2>1 DEF Added
  <2>2. ASSUME NEW s \in Docs, NEW k \in Settlers, AutoApply(s, k) PROVE Spent
    <3>1. Remaining(s) \in Nat /\ IInv /\ Finite
      BY <1>1, <2>2, LeftNat DEF SInv, AutoApply
    <3>2. \A a \in Added : a.settler = s /\ a.target \in OpenDocs(s)
      BY <2>2, <3>1, ApplySums
    <3> QED BY <1>1, <2>2, <3>2, ApplyAll DEF Beside, AppsOf
  <2>3. IInv
    BY <1>1 DEF SInv
  <2> HIDE DEF Spent
  <2> QED BY <1>1, <2>1, <2>2, <2>3, OtherSteps
<1>2. SInv /\ [Next]_vars => [Spent]_vars
  BY <1>1
<1> QED BY <1>2, SettlementInvariance, PTL DEF Spec, AllocationExhausts

-----------------------------------------------------------------------------
(* The control accounts. *)

\* Rounding is off by half a unit at most.
LEMMA RoundDivNear ==
    ASSUME NEW n \in Int, NEW d \in Nat \ {0}
    PROVE  2 * (d * RoundDiv(n, d)) - 2 * n \in -d..d
<1>1. ASSUME NEW m \in Nat PROVE 2 * (d * ((2 * m + d) \div (2 * d))) - 2 * m \in -d..d
  <2> DEFINE q == (2 * m + d) \div (2 * d)
  <2>1. q \in Int
    OBVIOUS
  <2>2. /\ (2 * d) * q <= 2 * m + d
        /\ 2 * m + d < (2 * d) * q + 2 * d
    <3>1. 2 * m + d \in Int /\ 2 * d \in Int /\ 2 * d > 0
      OBVIOUS
    <3>2. \A x, y \in Int : y > 0 => y * (x \div y) <= x /\ x < y * (x \div y) + y
      OBVIOUS
    <3> QED BY <3>1, <3>2
  <2> HIDE DEF q
  <2>3. (2 * d) * q = 2 * (d * q) /\ d * q \in Int
    BY <2>1
  <2>4. 2 * (d * q) - 2 * m \in -d..d
    BY <2>2, <2>3
  <2> QED BY <2>4 DEF q
<1>2. CASE n >= 0
  BY <1>1, <1>2 DEF RoundDiv
<1>3. CASE n < 0
  <2>1. -n \in Nat
    BY <1>3
  <2>2. 2 * (d * RoundDiv(-n, d)) - 2 * (-n) \in -d..d
    BY <1>1, <2>1 DEF RoundDiv
  <2>3. RoundDiv(n, d) = -RoundDiv(-n, d) /\ RoundDiv(-n, d) \in Int
    BY <2>1, RoundDivOdd, RoundDivInt
  <2>4. ASSUME NEW q \in Int, 2 * (d * q) - 2 * (-n) \in -d..d
        PROVE  2 * (d * (-q)) - 2 * n \in -d..d
    <3>1. d * (-q) = -(d * q) /\ d * q \in Int
      OBVIOUS
    <3> QED BY <2>4, <3>1
  <2> QED BY <2>2, <2>3, <2>4
<1> QED BY <1>2, <1>3

\* So is converting.
LEMMA ConvertNear ==
    ASSUME NEW a \in Int, NEW r \in Nat
    PROVE  2 * (RateScale * Convert(a, r)) - 2 * (a * r) \in -RateScale..RateScale
<1>1. a * r \in Int
  OBVIOUS
<1> QED BY <1>1, RoundDivNear, SubledgerAssumption DEF Convert

\* At the rate 1 nothing is rounded.
LEMMA ConvertExact ==
    ASSUME NEW a \in Int
    PROVE  Convert(a, RateScale) = a
<1>1. RateScale \in Nat \ {0}
  BY SubledgerAssumption
<1>2. 2 * (RateScale * Convert(a, RateScale)) - 2 * (a * RateScale) \in -RateScale..RateScale
  BY <1>1, ConvertNear
<1>3. Convert(a, RateScale) \in Int
  BY <1>1, ConvertInt
<1>4. ASSUME NEW c \in Int, NEW u \in Nat \ {0}, 2 * (u * c) - 2 * (a * u) \in -u..u
      PROVE  c = a
  <2>1. 2 * (u * c) - 2 * (a * u) = u * (2 * (c - a))
    OBVIOUS
  <2>2. u * (2 * (c - a)) >= -u /\ u * (2 * (c - a)) <= u
    BY <1>4, <2>1
  <2>3. \A x \in Int : x >= 2 => u * x >= 2 * u
    OBVIOUS
  <2>4. \A x \in Int : x <= -2 => u * x <= -(2 * u)
    OBVIOUS
  <2>5. 2 * (c - a) < 2 /\ 2 * (c - a) > -2
    BY <2>2, <2>3, <2>4
  <2> QED BY <2>5
<1> QED BY <1>1, <1>2, <1>3, <1>4

\* The applied amounts, each converted, and what they add up to.
InBase(A, r) == [a \in A |-> Convert(a.amount, r)]

\* Applications converted one by one are their sum converted, to half a unit
\* for each of them.
LEMMA AppliedNear ==
    ASSUME NEW A, IsFiniteSet(A), \A a \in A : a.amount \in Nat, NEW r \in Nat
    PROVE  /\ SumOver(InBase(A, r), A) \in Int /\ SumApplied(A) \in Nat /\ Cardinality(A) \in Nat
           /\ 2 * (RateScale * SumOver(InBase(A, r), A)) - 2 * (SumApplied(A) * r)
                 \in -(RateScale * Cardinality(A))..(RateScale * Cardinality(A))
           /\ r = RateScale => SumOver(InBase(A, r), A) = SumApplied(A)
<1> DEFINE U == RateScale
           C == InBase(A, r)
           N == [a \in A |-> a.amount]
           TwiceC == [a \in A |-> (2 * U) * C[a]]
           TwiceN == [a \in A |-> (2 * r) * N[a]]
           Unit == [a \in A |-> U]
           Less == [a \in A |-> -U]
           High == [a \in A |-> TwiceN[a] + Unit[a]]
           Low == [a \in A |-> TwiceN[a] + Less[a]]
           n == Cardinality(A)
<1>1. U \in Nat \ {0} /\ n \in Nat
  BY SubledgerAssumption, FS_CardinalityType
<1>2. \A a \in A : N[a] = a.amount /\ N[a] \in Nat /\ C[a] = Convert(a.amount, r) /\ C[a] \in Int
  BY ConvertInt DEF InBase
<1>3. SumApplied(A) = SumOver(N, A)
  BY SumAppliedIs
<1>4. \A a \in A : 2 * (U * C[a]) - 2 * (N[a] * r) \in -U..U
  <2>1. \A a \in A : 2 * (RateScale * Convert(a.amount, r)) - 2 * (a.amount * r) \in -RateScale..RateScale
    <3> SUFFICES ASSUME NEW a \in A
                 PROVE  2 * (RateScale * Convert(a.amount, r)) - 2 * (a.amount * r) \in -RateScale..RateScale
      OBVIOUS
    <3>1. a.amount \in Int
      OBVIOUS
    <3> QED BY <3>1, ConvertNear
  <2> HIDE DEF C, N
  <2> QED BY <1>2, <2>1
<1> HIDE DEF C, N, U
<1>5. \A a \in A : /\ TwiceC[a] = (2 * U) * C[a] /\ TwiceN[a] = (2 * r) * N[a]
                   /\ Unit[a] = U /\ Less[a] = -U
                   /\ High[a] = TwiceN[a] + Unit[a] /\ Low[a] = TwiceN[a] + Less[a]
  OBVIOUS
<1> HIDE DEF TwiceC, TwiceN, Unit, Less, High, Low, n
<1>6. ASSUME NEW a \in A
      PROVE  /\ TwiceC[a] \in Int /\ TwiceN[a] \in Int /\ Unit[a] \in Int /\ Less[a] \in Int
             /\ High[a] \in Int /\ Low[a] \in Int
             /\ Low[a] <= TwiceC[a] /\ TwiceC[a] <= High[a]
  <2>1. C[a] \in Int /\ N[a] \in Nat /\ 2 * (U * C[a]) - 2 * (N[a] * r) \in -U..U
    BY <1>2, <1>4
  <2>2. \A x, y, z \in Int : (2 * x) * y = 2 * (x * y) /\ (2 * x) * y = 2 * (y * x) /\ x * y \in Int
    OBVIOUS
  <2>3. TwiceC[a] = 2 * (U * C[a]) /\ TwiceN[a] = 2 * (N[a] * r) /\ U * C[a] \in Int /\ N[a] * r \in Int
    BY <1>1, <1>5, <2>1, <2>2
  <2> QED BY <1>1, <1>5, <2>1, <2>3
<1>7. SumOver(C, A) \in Int /\ SumOver(N, A) \in Nat
  BY <1>2, SumInt, SumNat
<1>8. SumOver(TwiceC, A) = (2 * U) * SumOver(C, A) /\ SumOver(TwiceN, A) = (2 * r) * SumOver(N, A)
  <2>1. 2 * U \in Int /\ 2 * r \in Int /\ \A a \in A : N[a] \in Int
    BY <1>1, <1>2
  <2> HIDE DEF C, N
  <2>2. SumOver(TwiceC, A) = (2 * U) * SumOver(C, A)
    BY <1>2, <1>5, <2>1, SumScaled
  <2>3. SumOver(TwiceN, A) = (2 * r) * SumOver(N, A)
    BY <1>2, <1>5, <2>1, SumScaled
  <2> QED BY <2>2, <2>3
<1>9. SumOver(Unit, A) = U * n /\ SumOver(Less, A) = (-U) * n
  <2>1. U \in Int /\ -U \in Int
    BY <1>1
  <2> QED BY <1>5, <2>1, SumConstant DEF n
<1>10. /\ SumOver(High, A) = SumOver(TwiceN, A) + SumOver(Unit, A)
       /\ SumOver(Low, A) = SumOver(TwiceN, A) + SumOver(Less, A)
  BY <1>5, <1>6, SumPlus
<1>11. SumOver(Low, A) <= SumOver(TwiceC, A) /\ SumOver(TwiceC, A) <= SumOver(High, A)
  BY <1>6, SumAtMost
<1>12. ASSUME NEW w \in Int, NEW l \in Nat, NEW u \in Nat, NEW m \in Nat,
              (2 * r) * l + (-u) * m <= (2 * u) * w, (2 * u) * w <= (2 * r) * l + u * m
       PROVE  2 * (u * w) - 2 * (l * r) \in -(u * m)..(u * m)
  <2>1. (2 * r) * l = 2 * (l * r) /\ (2 * u) * w = 2 * (u * w) /\ (-u) * m = -(u * m)
    OBVIOUS
  <2>2. l * r \in Int /\ u * w \in Int /\ u * m \in Int
    OBVIOUS
  <2> QED BY <1>12, <2>1, <2>2
<1>13. 2 * (U * SumOver(C, A)) - 2 * (SumOver(N, A) * r) \in -(U * n)..(U * n)
  BY <1>1, <1>7, <1>8, <1>9, <1>10, <1>11, <1>12
<1>14. ASSUME r = U PROVE SumOver(C, A) = SumOver(N, A)
  <2>1. \A a \in A : C[a] = N[a] /\ C[a] \in Int
    BY <1>2, <1>14, ConvertExact DEF U
  <2> QED BY <2>1, SumSame
<1> QED BY <1>1, <1>3, <1>7, <1>13, <1>14 DEF C, U, n

\* What a document's conversions leave: its two amounts when it was posted,
\* less its open item, less its applications as they were booked.
Rounding(net, tax, A, r) ==
    Convert(net, r) + Convert(tax, r) - Convert(net + tax - SumApplied(A), r) - SumOver(InBase(A, r), A)

\* That is half a unit for each of them, and nothing in base currency.
LEMMA RoundingBound ==
    ASSUME NEW net \in Int, NEW tax \in Int, NEW r \in Nat,
           NEW A, IsFiniteSet(A), \A a \in A : a.amount \in Nat
    PROVE  /\ Rounding(net, tax, A, r) \in Int
           /\ 2 * Rounding(net, tax, A, r) \in -(3 + Cardinality(A))..(3 + Cardinality(A))
           /\ r = RateScale => Rounding(net, tax, A, r) = 0
<1> DEFINE U == RateScale
           w == SumOver(InBase(A, r), A)
           l == SumApplied(A)
           n == Cardinality(A)
           open == net + tax - l
           cn == Convert(net, r)
           ct == Convert(tax, r)
           co == Convert(open, r)
<1>1. U \in Nat \ {0} /\ w \in Int /\ l \in Nat /\ n \in Nat /\ open \in Int
  BY AppliedNear, SubledgerAssumption
<1>2. 2 * (U * w) - 2 * (l * r) \in -(U * n)..(U * n)
  BY AppliedNear
<1>3. cn \in Int /\ ct \in Int /\ co \in Int
  BY <1>1, ConvertInt
<1>4. /\ 2 * (U * cn) - 2 * (net * r) \in -U..U
      /\ 2 * (U * ct) - 2 * (tax * r) \in -U..U
      /\ 2 * (U * co) - 2 * (open * r) \in -U..U
  BY <1>1, ConvertNear
<1>5. open * r = net * r + tax * r - l * r
  <2>1. \A x, y, z \in Int : (x + y - z) * r = x * r + y * r - z * r
    OBVIOUS
  <2> QED BY <1>1, <2>1
<1>6. Rounding(net, tax, A, r) = cn + ct - co - w
  BY DEF Rounding
<1>7. r = U => cn = net /\ ct = tax /\ co = open /\ w = l
  BY <1>1, ConvertExact, AppliedNear
<1> HIDE DEF U, w, l, n, cn, ct, co
<1>8. U * (2 * (cn + ct - co - w)) \in -(U * (3 + n))..(U * (3 + n))
  <2>1. \A x, y, z, v \in Int : U * (2 * (x + y - z - v)) = 2 * (U * x) + 2 * (U * y) - 2 * (U * z) - 2 * (U * v)
    BY <1>1
  <2>2. U * (2 * (cn + ct - co - w)) = 2 * (U * cn) + 2 * (U * ct) - 2 * (U * co) - 2 * (U * w)
    BY <1>1, <1>3, <2>1
  <2>3. U * (3 + n) = 3 * U + U * n /\ U * n \in Int
    BY <1>1
  <2>4. ASSUME NEW a \in Int, NEW b \in Int, NEW c \in Int, NEW d \in Int,
               NEW p \in Int, NEW q \in Int, NEW s \in Int, NEW t \in Int,
               NEW u \in Int, NEW m \in Int,
               2 * a - 2 * p \in -u..u, 2 * b - 2 * q \in -u..u, 2 * c - 2 * s \in -u..u,
               2 * d - 2 * t \in -m..m, s = p + q - t
        PROVE  2 * a + 2 * b - 2 * c - 2 * d \in -(3 * u + m)..(3 * u + m)
    BY <2>4
  <2>5. /\ U * cn \in Int /\ U * ct \in Int /\ U * co \in Int /\ U * w \in Int
        /\ net * r \in Int /\ tax * r \in Int /\ open * r \in Int /\ l * r \in Int
    BY <1>1, <1>3
  <2> HIDE DEF open
  <2>6. 2 * (U * cn) + 2 * (U * ct) - 2 * (U * co) - 2 * (U * w) \in -(3 * U + U * n)..(3 * U + U * n)
    BY <1>1, <1>2, <1>4, <1>5, <2>3, <2>4, <2>5
  <2> QED BY <2>2, <2>3, <2>6
<1>9. ASSUME NEW x \in Int, NEW m \in Nat, NEW u \in Nat \ {0}, u * x \in -(u * m)..(u * m)
      PROVE  x \in -m..m
  <2>1. u * x <= u * m => x <= m
    OBVIOUS
  <2>2. u * x >= -(u * m) => x >= -m
    <3>1. -(u * m) = u * (-m)
      OBVIOUS
    <3>2. \A y \in Int : u * x >= u * y => x >= y
      OBVIOUS
    <3> QED BY <3>1, <3>2
  <2>3. u * x <= u * m /\ u * x >= -(u * m)
    BY <1>9
  <2> QED BY <2>1, <2>2, <2>3
<1>10. 2 * (cn + ct - co - w) \in -(3 + n)..(3 + n)
  <2>1. 2 * (cn + ct - co - w) \in Int /\ 3 + n \in Nat
    BY <1>1, <1>3
  <2> QED BY <1>1, <1>8, <1>9, <2>1
<1> QED BY <1>1, <1>3, <1>6, <1>7, <1>10 DEF U, n


\* The entries that stand are worth what owns them: a posted document's entry
\* charges its control account with its two amounts, each converted at the
\* entry's rate, and an application's exchange entry with the difference of the
\* two documents' rates.
RateOf(d) == journal[doc[d].entry].rate
DocBase(d, c) ==
    IF Kind[d] \in ControlKinds(c)
    THEN Side(d) * (Convert(doc[d].net, RateOf(d)) + Convert(doc[d].tax, RateOf(d)))
    ELSE 0
AppBase(a, c) ==
    IF Kind[a.settler] \in ControlKinds(c)
    THEN IF c = "ar" THEN Difference(a) ELSE -Difference(a)
    ELSE 0

DocValued(d) == /\ \A c \in {"ar", "ap"} : journal[doc[d].entry].lines[c].base = DocBase(d, c)
                /\ d \notin Foreign => RateOf(d) = RateScale
AppValued(a) == /\ Kind[a.settler] \in Settlers
                /\ a.fx # 0 => \A c \in {"ar", "ap"} : journal[a.fx].lines[c].base = AppBase(a, c)

Valued == /\ \A d \in Docs : doc[d].status = "posted" => DocValued(d)
          /\ \A a \in apps : AppValued(a)

\* Nothing of this changes while the document, or both documents of the
\* application, stay as they are.
LEMMA DocValuedKept ==
    ASSUME IInv, Kept, NEW d \in Docs, doc[d].status = "posted", doc'[d] = doc[d], DocValued(d)
    PROVE  DocValued(d)'
<1>1. doc[d].entry \in Ids
  BY Links
<1>2. journal'[doc'[d].entry] = journal[doc[d].entry]
  BY <1>1 DEF Kept
<1> QED BY <1>2 DEF DocValued, DocBase, RateOf

\* An application's exchange difference is what it was as long as its two
\* documents are.
LEMMA DifferenceKept ==
    ASSUME IInv, Kept, NEW a, a.settler \in Docs, a.target \in Docs,
           doc[a.settler].status = "posted", doc[a.target].status = "posted",
           doc'[a.settler] = doc[a.settler], doc'[a.target] = doc[a.target], NEW c
    PROVE  AppBase(a, c)' = AppBase(a, c)
<1>1. doc[a.settler].entry \in Ids /\ doc[a.target].entry \in Ids
  BY Links
<1>2. /\ journal'[doc'[a.settler].entry] = journal[doc[a.settler].entry]
      /\ journal'[doc'[a.target].entry] = journal[doc[a.target].entry]
  BY <1>1 DEF Kept
<1>3. Difference(a)' = Difference(a)
  BY <1>2 DEF Difference
<1> QED BY <1>3 DEF AppBase

\* So an application stays valued when its documents do.
LEMMA AppValuedKept ==
    ASSUME IInv, Kept, NEW a \in apps, AppValued(a),
           doc'[a.settler] = doc[a.settler], doc'[a.target] = doc[a.target]
    PROVE  AppValued(a)'
<1>1. /\ a.settler \in Docs /\ a.target \in Docs /\ (a.fx # 0 => a.fx \in Ids)
      /\ doc[a.settler].status = "posted" /\ doc[a.target].status = "posted"
  BY TypeParts DEF IInv, ApplicationsPinPosted, AppRow
<1>2. \A c : AppBase(a, c)' = AppBase(a, c)
  BY <1>1, DifferenceKept
<1>3. a.fx # 0 => journal'[a.fx] = journal[a.fx]
  BY <1>1 DEF Kept
<1> QED BY <1>2, <1>3 DEF AppValued

\* A posting's lines on the control accounts.
LEMMA PostingBase ==
    ASSUME NEW d \in Docs, NEW p \in Postings, Charges(d, p), NEW c \in {"ar", "ap"}
    PROVE  DocumentLines(d, p[1], p[2], p[3])[c].base =
              IF Kind[d] \in ControlKinds(c)
              THEN Side(d) * (Convert(doc[d].net, EntryRate(d)) + Convert(doc[d].tax, EntryRate(d)))
              ELSE 0
<1>1. c \in Accounts /\ p[3] # c /\ c # "tax"
  BY DEF Accounts, Postings
<1>2. CASE Kind[d] \in ControlKinds(c)
  <2>1. p[1] = c /\ p[2] = Side(d)
    BY <1>2 DEF Charges
  <2> QED BY <1>1, <1>2, <2>1 DEF DocumentLines, Line
<1>3. CASE Kind[d] \notin ControlKinds(c)
  <2>1. p[1] # c
    BY <1>3 DEF Charges
  <2> QED BY <1>1, <1>3, <2>1 DEF DocumentLines, Line, NoLine
<1> QED BY <1>2, <1>3

\* An exchange entry's.
LEMMA FxBase ==
    ASSUME NEW a, Kind[a.settler] \in Settlers, NEW c \in {"ar", "ap"}
    PROVE  FxEntry(a).lines[c].base = AppBase(a, c)
<1>1. /\ Settles(Kind[a.settler]) = "sales_invoice" <=> Kind[a.settler] \in ControlKinds("ar")
      /\ Kind[a.settler] \in ControlKinds("ap") <=> Kind[a.settler] \notin ControlKinds("ar")
  BY DEF Settles, ControlKinds, Kinds, Settlers, Payments
<1>2. c \in Accounts /\ c # "fx"
  BY DEF Accounts
<1> QED BY <1>1, <1>2 DEF FxEntry, Entry, Line, NoLine, AppBase

\* Every step keeps what stands valued: a posting books its own document, an
\* exchange entry its application, a reversal nothing.
LEMMA ValuedStep ==
    ASSUME IInv, Valued, [Next]_vars
    PROVE  Valued'
<1>1. Kept
  BY StepKeeps
<1>2. DocsOK /\ apps \subseteq AppRow(Ids) /\ JournalOK
  BY TypeParts DEF IInv
<1>3. \A a \in apps : /\ a.settler \in Docs /\ a.target \in Docs
                      /\ doc[a.settler].status = "posted" /\ doc[a.target].status = "posted"
  BY <1>2 DEF IInv, ApplicationsPinPosted, AppRow
\* It is kept when no document becomes posted and no application is new.
<1>4. ASSUME apps' \subseteq apps,
             \A d \in Docs : doc'[d].status = "posted" => doc'[d] = doc[d],
             \A a \in apps' : doc'[a.settler].status = "posted" /\ doc'[a.target].status = "posted"
      PROVE  Valued'
  <2>1. \A d \in Docs : doc'[d].status = "posted" => DocValued(d)'
    BY <1>1, <1>4, DocValuedKept DEF Valued
  <2>2. \A a \in apps' : AppValued(a)'
    BY <1>1, <1>3, <1>4, AppValuedKept DEF Valued
  <2> QED BY <2>1, <2>2 DEF Valued
<1>5. ASSUME NEW d \in Docs, NEW k \in Kinds, Create(d, k) \/ Update(d, k) \/ Delete(d, k)
      PROVE  Valued'
  <2>1. /\ apps' = apps /\ doc[d].status # "posted"
        /\ \A c \in Docs : c # d => doc'[c] = doc[c]
    BY <1>2, <1>5 DEF Create, Update, Delete, IsDraft, Ledger, DocsOK
  <2>2. doc'[d].status # "posted"
    BY <1>2, <1>5 DEF Create, Update, Delete, Draft, NoDoc, DocsOK
  <2>3. \A a \in apps' : doc'[a.settler] = doc[a.settler] /\ doc'[a.target] = doc[a.target]
    BY <1>3, <2>1
  <2> QED BY <1>3, <1>4, <2>1, <2>2, <2>3
<1>6. ASSUME NEW d \in Docs, PostStep(d)
      PROVE  Valued'
  <2>1. PICK k \in Kinds, p \in Postings : Post(d, k, p[1], p[2], p[3]) /\ Charges(d, p)
    BY <1>6, PostCases
  <2>2. /\ DOMAIN doc = Docs /\ doc[d] \in DocRow(Ids)
        /\ doc' = [doc EXCEPT ![d].status = "posted", ![d].entry = Len(journal) + 1]
        /\ doc[d].status = "draft" /\ apps' = apps
    BY <1>2, <2>1 DEF Post, DocsOK, IsDraft
  <2>3. doc'[d] = [doc[d] EXCEPT !.status = "posted", !.entry = Len(journal) + 1]
    BY <2>2
  <2>4. /\ doc'[d].net = doc[d].net /\ doc'[d].tax = doc[d].tax /\ doc'[d].entry = Len(journal) + 1
        /\ \A c \in Docs : c # d => doc'[c] = doc[c]
    BY <2>2, <2>3 DEF DocRow
  <2>5. /\ journal'[Len(journal) + 1].rate = EntryRate(d)
        /\ journal'[Len(journal) + 1].lines = DocumentLines(d, p[1], p[2], p[3])
    <3>1. PICK e : /\ journal' = Append(journal, e) /\ e.rate = EntryRate(d)
                   /\ e.lines = DocumentLines(d, p[1], p[2], p[3])
      BY <2>1 DEF Post, Entry
    <3> QED BY <1>2, <3>1 DEF JournalOK
  <2>6. RateOf(d)' = EntryRate(d)
    BY <2>4, <2>5 DEF RateOf
  <2>7. \A c \in {"ar", "ap"} : journal'[doc'[d].entry].lines[c].base = DocBase(d, c)'
    <3>1. ASSUME NEW c \in {"ar", "ap"}
          PROVE  journal'[doc'[d].entry].lines[c].base = DocBase(d, c)'
      BY <2>1, <2>4, <2>5, <2>6, PostingBase DEF DocBase
    <3> QED BY <3>1
  <2>8. d \notin Foreign => RateOf(d)' = RateScale
    BY <2>6 DEF EntryRate
  <2>9. DocValued(d)'
    BY <2>7, <2>8 DEF DocValued
  <2>10. \A c \in Docs : doc'[c].status = "posted" => DocValued(c)'
    <3>1. ASSUME NEW c \in Docs, c # d, doc'[c].status = "posted" PROVE DocValued(c)'
      BY <1>1, <2>4, <3>1, DocValuedKept DEF Valued
    <3> QED BY <2>9, <3>1
  <2>11. \A a \in apps : a.settler # d /\ a.target # d
    BY <1>3, <2>2
  <2>12. \A a \in apps' : AppValued(a)'
    BY <1>1, <1>3, <2>2, <2>4, <2>11, AppValuedKept DEF Valued
  <2> QED BY <2>10, <2>12 DEF Valued
<1>7. ASSUME NEW s \in Docs, NEW k \in Settlers, AutoApply(s, k)
      PROVE  Valued'
  <2> DEFINE fxApps == {a \in AppsOf(s) \cup NewApps(s) : a.fx = 0 /\ Difference(a) # 0}
             of == [a \in fxApps |-> FxEntry(a)]
  <2>1. PICK pos : /\ Grown(fxApps, pos, of)
                   /\ apps' = ((apps \cup NewApps(s)) \ fxApps)
                              \cup {[a EXCEPT !.fx = pos[a]] : a \in fxApps}
    BY <1>7, AutoApplyGrown
  <2>2. doc' = doc /\ Kind[s] \in Settlers /\ doc[s].status = "posted"
    BY <1>7 DEF AutoApply
  <2>3. \A a \in NewApps(s) : /\ a.fx = 0 /\ a.settler = s /\ a \in AppRow(Ids)
                              /\ doc[a.target].status = "posted"
    BY NewAppsOK DEF AppRow
  <2>4. ASSUME NEW a \in fxApps
        PROVE  AppValued([a EXCEPT !.fx = pos[a]])'
    <3> DEFINE b == [a EXCEPT !.fx = pos[a]]
    <3>1. a \in AppRow(Ids) /\ a.settler = s /\ doc[a.target].status = "posted"
      BY <1>2, <1>3, <2>3 DEF AppsOf
    <3>2. b.settler = s /\ b.target = a.target /\ b.amount = a.amount /\ b.fx = pos[a] /\ a.target \in Docs
      BY <3>1 DEF AppRow
    <3> HIDE DEF b
    <3>3. journal'[pos[a]] = FxEntry(a)
      BY <2>1 DEF Grown
    <3>4. \A c \in {"ar", "ap"} : FxEntry(a).lines[c].base = AppBase(a, c)
      BY <2>2, <3>1, FxBase
    <3>5. Difference(b) = Difference(a)
      BY <3>1, <3>2 DEF Difference
    <3>6. \A c : AppBase(b, c) = AppBase(a, c)
      BY <3>1, <3>2, <3>5 DEF AppBase
    <3>7. \A c : AppBase(b, c)' = AppBase(b, c)
      BY <1>1, <2>2, <3>1, <3>2, DifferenceKept
    <3>8. \A c \in {"ar", "ap"} : journal'[b.fx].lines[c].base = AppBase(b, c)'
      BY <3>2, <3>3, <3>4, <3>6, <3>7
    <3>9. AppValued(b)'
      BY <2>2, <3>2, <3>8 DEF AppValued
    <3> QED BY <3>9 DEF b
  <2>5. ASSUME NEW b \in apps' PROVE AppValued(b)'
    <3>1. CASE b \in apps
      BY <1>1, <2>2, <3>1, AppValuedKept DEF Valued
    <3>2. CASE b \in NewApps(s)
      BY <2>2, <2>3, <3>2 DEF AppValued
    <3>3. CASE b \notin apps /\ b \notin NewApps(s)
      <4>1. PICK a \in fxApps : b = [a EXCEPT !.fx = pos[a]]
        <5> HIDE DEF fxApps
        <5> QED BY <2>1, <3>3
      <4> QED BY <2>4, <4>1
    <3> QED BY <3>1, <3>2, <3>3
  <2>6. \A d \in Docs : doc'[d].status = "posted" => DocValued(d)'
    BY <1>1, <2>2, DocValuedKept DEF Valued
  <2> QED BY <2>5, <2>6 DEF Valued
<1>8. ASSUME NEW d \in Docs,
             \/ \E k \in Kinds : Unpost(d, k)
             \/ \E k \in Payments : UnpostPayment(d, k)
      PROVE  Valued'
  <2>1. doc' = [doc EXCEPT ![d].status = "draft", ![d].entry = 0]
    BY <1>8 DEF Unpost, UnpostPayment, ToDraft
  <2>2. apps' \subseteq apps /\ \A a \in apps' : a.settler # d /\ a.target # d
    <3>1. CASE \E k \in Kinds : Unpost(d, k)
      BY <3>1 DEF Unpost, HasApplications, AppsOf, AppsTo
    <3>2. CASE \E k \in Payments : UnpostPayment(d, k)
      <4>1. Kind[d] \in Payments /\ apps' = apps \ AppsOf(d)
        BY <3>2 DEF UnpostPayment
      <4>2. \A a \in apps : a.target # d
        BY <4>1 DEF IInv, ApplicationsPinPosted, Settles, Payments
      <4> QED BY <4>1, <4>2 DEF AppsOf
    <3> QED BY <1>8, <3>1, <3>2
  <2>3. /\ \A c \in Docs : c # d => doc'[c] = doc[c]
        /\ doc'[d].status = "draft"
    <3>1. DOMAIN doc = Docs /\ doc[d] \in DocRow(Ids)
      BY <1>2 DEF DocsOK
    <3>2. doc'[d] = [doc[d] EXCEPT !.status = "draft", !.entry = 0]
      BY <2>1, <3>1
    <3> QED BY <2>1, <3>1, <3>2 DEF DocRow
  <2>4. \A a \in apps' : doc'[a.settler].status = "posted" /\ doc'[a.target].status = "posted"
    BY <1>3, <2>2, <2>3
  <2> QED BY <1>4, <2>2, <2>3, <2>4
<1>9. CASE Surroundings \/ UNCHANGED vars
  <2>1. doc' = doc /\ apps' = apps /\ journal' = journal
    BY <1>9 DEF Surroundings, SetExchangeRate, CreateAccountingPeriod, UpdateAccountingPeriod,
         UpdateSettings, MatchLine, UnmatchLine, Documents, vars
  <2> QED BY <1>3, <1>4, <2>1
<1>10. CASE Next
  BY <1>5, <1>6, <1>7, <1>8, <1>9, <1>10, StepKinds
<1> QED BY <1>9, <1>10


\* A reversal and what it reverses come to nothing, so a balance is that of the
\* entries that stand.
LiveIn == {e \in Ids : Live(e)}

\* A reversed entry and its reversal add up to nothing: what is left is what
\* stands.
LEMMA ReversedCancel ==
    ASSUME IInv, NEW B, \A e \in Ids : B[e] \in Int,
           \A f \in Ids : journal[f].reverses # 0 => B[f] = -B[journal[f].reverses]
    PROVE  IsFiniteSet(LiveIn) /\ SumOver(B, Ids) = SumOver(B, LiveIn)
<1> DEFINE R == {f \in Ids : journal[f].reverses # 0}
           D == {e \in Ids : journal[e].reverses = 0 /\ \E f \in Ids : journal[f].reverses = e}
           of == [f \in R |-> journal[f].reverses]
           N == [e \in Ids |-> -B[e]]
<1>1. JournalOK /\ IsFiniteSet(Ids)
  <2>1. JournalOK
    BY TypeParts DEF IInv
  <2> QED BY <2>1, JournalRows, FS_Interval DEF Ids
<1>2. /\ LiveIn \in SUBSET Ids /\ R \in SUBSET Ids /\ D \in SUBSET Ids
      /\ LiveIn \cap (D \cup R) = {} /\ D \cap R = {} /\ LiveIn \cup (D \cup R) = Ids
  BY DEF LiveIn, Live
<1>3. IsFiniteSet(LiveIn) /\ IsFiniteSet(R) /\ IsFiniteSet(D) /\ IsFiniteSet(D \cup R)
  BY <1>1, <1>2, FS_Subset, FS_Union
<1>4. of \in Bijection(R, D)
  <2>1. \A f \in R : of[f] \in D
    BY <1>1, JournalRows DEF IInv, ReversalsMirror
  <2>2. \A f, g \in R : of[f] = of[g] => f = g
    BY DEF IInv, ReversalsMirror
  <2>3. ASSUME NEW e \in D PROVE \E f \in R : of[f] = e
    <3>1. PICK f \in Ids : journal[f].reverses = e
      OBVIOUS
    <3>2. e # 0
      BY <1>1, JournalRows DEF Ids
    <3> QED BY <3>1, <3>2
  <2> QED BY <2>1, <2>2, <2>3 DEF Bijection, Injection, Surjection, IsInjective
<1>5. \A f \in R : B[f] \in Int /\ N[of[f]] = B[f]
  BY <1>1, JournalRows
<1>6. \A e \in D : B[e] \in Int /\ N[e] = (-1) * B[e]
  BY <1>2
<1> HIDE DEF R, D, of, N
<1>7. SumOver(N, D) = SumOver(B, R)
  BY <1>3, <1>4, <1>5, SumRenamed
<1>8. SumOver(N, D) = (-1) * SumOver(B, D)
  <2>1. -1 \in Int
    OBVIOUS
  <2> QED BY <1>3, <1>6, <2>1, SumScaled
<1>9. SumOver(B, D \cup R) = SumOver(B, D) + SumOver(B, R)
  BY <1>2, <1>3, SumDisjoint
<1>10. SumOver(B, LiveIn \cup (D \cup R)) = SumOver(B, LiveIn) + SumOver(B, D \cup R)
  BY <1>2, <1>3, SumDisjoint
<1>11. SumOver(B, D) \in Int /\ SumOver(B, R) \in Int /\ SumOver(B, LiveIn) \in Int
  BY <1>2, <1>3, SumInt
<1>12. SumOver(B, D \cup R) = 0
  BY <1>7, <1>8, <1>9, <1>11
<1>13. SumOver(B, LiveIn) + 0 = SumOver(B, LiveIn)
  BY <1>11
<1> QED BY <1>2, <1>3, <1>10, <1>12, <1>13

\* The posted documents and the applications that have an exchange entry.
PostedDocs == {d \in Docs : doc[d].status = "posted"}
Booked == {a \in apps : a.fx # 0}

\* What stands is what they own, each entry once.
LEMMA LiveSplit ==
    ASSUME IInv, Finite, NEW B, \A e \in Ids : B[e] \in Int,
           NEW F, \A d \in PostedDocs : F[d] = B[doc[d].entry],
           NEW G, \A a \in Booked : G[a] = B[a.fx]
    PROVE  /\ IsFiniteSet(PostedDocs) /\ IsFiniteSet(Booked)
           /\ SumOver(B, LiveIn) = SumOver(F, PostedDocs) + SumOver(G, Booked)
<1> DEFINE ofDoc == [d \in PostedDocs |-> doc[d].entry]
           ofApp == [a \in Booked |-> a.fx]
<1>1. IsFiniteSet(PostedDocs) /\ IsFiniteSet(Booked)
  BY FS_Subset, SubledgerAssumption DEF PostedDocs, Booked, Finite
<1>2. \A d \in Docs : doc[d].status = "posted" <=> doc[d].entry # 0
  BY TypeParts DEF IInv, DocsOK
<1>3. DocEntries = {doc[d].entry : d \in PostedDocs} /\ FxEntries = {a.fx : a \in Booked}
  BY <1>2 DEF DocEntries, FxEntries, PostedDocs, Booked
<1>4. ofDoc \in Bijection(PostedDocs, DocEntries)
  <2>1. \A c, d \in PostedDocs : ofDoc[c] = ofDoc[d] => c = d
    BY <1>2 DEF PostedDocs, IInv, LiveEntriesOwned
  <2> QED BY <1>3, <2>1 DEF Bijection, Injection, Surjection, IsInjective
<1>5. ofApp \in Bijection(Booked, FxEntries)
  <2>1. \A a, b \in Booked : ofApp[a] = ofApp[b] => a = b
    BY DEF Booked, IInv, LiveEntriesOwned
  <2> QED BY <1>3, <2>1 DEF Bijection, Injection, Surjection, IsInjective
<1>6. \A d \in PostedDocs : F[d] \in Int /\ B[ofDoc[d]] = F[d]
  BY Links DEF PostedDocs
<1>7. \A a \in Booked : G[a] \in Int /\ B[ofApp[a]] = G[a]
  BY Links DEF Booked
<1> HIDE DEF ofDoc, ofApp
<1>8. IsFiniteSet(DocEntries) /\ SumOver(B, DocEntries) = SumOver(F, PostedDocs)
  BY <1>1, <1>4, <1>6, SumRenamed
<1>9. IsFiniteSet(FxEntries) /\ SumOver(B, FxEntries) = SumOver(G, Booked)
  BY <1>1, <1>5, <1>7, SumRenamed
<1>10. LiveIn = DocEntries \cup FxEntries /\ DocEntries \cap FxEntries = {} /\ LiveIn \subseteq Ids
  BY DEF IInv, LiveEntriesOwned, LiveIn
<1>11. SumOver(B, DocEntries \cup FxEntries) = SumOver(B, DocEntries) + SumOver(B, FxEntries)
  <2>1. \A e \in DocEntries \cup FxEntries : B[e] \in Int
    BY <1>10
  <2> QED BY <1>8, <1>9, <1>10, <2>1, SumDisjoint
<1> QED BY <1>1, <1>8, <1>9, <1>10, <1>11

\* An account's amounts, and so its balance.
LEMMA BalanceSplit ==
    ASSUME IInv, Finite, Valued, NEW c \in {"ar", "ap"}
    PROVE  /\ IsFiniteSet(PostedDocs) /\ IsFiniteSet(apps)
           /\ \A d \in PostedDocs : DocBase(d, c) \in Int
           /\ \A a \in apps : AppBase(a, c) \in Int
           /\ SumOver([e \in Ids |-> journal[e].lines[c].base], Ids)
                 = SumOver([d \in PostedDocs |-> DocBase(d, c)], PostedDocs)
                   + SumOver([a \in apps |-> AppBase(a, c)], apps)
<1> DEFINE B == [e \in Ids |-> journal[e].lines[c].base]
           F == [d \in PostedDocs |-> DocBase(d, c)]
           G == [a \in apps |-> AppBase(a, c)]
<1>1. JournalOK /\ c \in Accounts
  BY TypeParts DEF IInv, Accounts
<1>2. \A e \in Ids : B[e] = journal[e].lines[c].base /\ B[e] \in Int
  BY <1>1, JournalRows DEF Lines
<1>3. \A f \in Ids : journal[f].reverses # 0 => B[f] = -B[journal[f].reverses]
  BY <1>1, <1>2, JournalRows DEF IInv, ReversalsMirror
<1>4. \A d \in PostedDocs : F[d] = B[doc[d].entry] /\ F[d] \in Int
  BY <1>2, Links DEF Valued, DocValued, PostedDocs
<1>5. \A a \in Booked : G[a] = B[a.fx] /\ G[a] \in Int
  BY <1>2, Links DEF Valued, AppValued, Booked
<1>6. \A a \in apps \ Booked : G[a] = 0
  <2>1. ASSUME NEW a \in apps, a.fx = 0 PROVE Difference(a) = 0
    <3>1. /\ a.amount \in Int /\ a.settler \in Docs /\ a.target \in Docs
          /\ doc[a.settler].status = "posted" /\ doc[a.target].status = "posted"
      BY TypeParts DEF IInv, ApplicationsPinPosted, AppRow
    <3>2. RateOf(a.settler) \in Nat /\ RateOf(a.target) \in Nat
      BY <1>1, <3>1, Links, JournalRows DEF RateOf
    <3>3. Convert(a.amount, RateOf(a.settler)) = Convert(a.amount, RateOf(a.target))
      BY <2>1 DEF IInv, ApplicationsPinPosted, RateOf
    <3>4. Convert(a.amount, RateOf(a.settler)) \in Int
      BY <3>1, <3>2, ConvertInt
    <3> QED BY <3>3, <3>4 DEF Difference, RateOf
  <2> QED BY <2>1 DEF AppBase, Booked
<1>7. \A a \in apps : G[a] \in Int /\ G[a] = AppBase(a, c)
  <2>1. \A a \in apps : G[a] = AppBase(a, c)
    OBVIOUS
  <2> HIDE DEF G
  <2>2. ASSUME NEW a \in apps PROVE G[a] \in Int
    <3>1. CASE a \in Booked
      BY <1>5, <3>1
    <3>2. CASE a \notin Booked
      <4>1. G[a] = 0
        BY <1>6, <3>2
      <4> QED BY <4>1
    <3> QED BY <3>1, <3>2
  <2> QED BY <2>1, <2>2
<1>8. \A d \in PostedDocs : F[d] = DocBase(d, c)
  OBVIOUS
<1> HIDE DEF B, F, G
<1>9. SumOver(B, Ids) = SumOver(F, PostedDocs) + SumOver(G, Booked) /\ IsFiniteSet(PostedDocs)
  BY <1>2, <1>3, <1>4, <1>5, ReversedCancel, LiveSplit
<1>10. IsFiniteSet(apps) /\ Booked \in SUBSET apps
  BY DEF Finite, Booked
<1>11. SumOver(G, apps) = SumOver(G, Booked)
  BY <1>6, <1>7, <1>10, SumSupport
<1> QED BY <1>4, <1>7, <1>8, <1>9, <1>10, <1>11 DEF B, F, G

\* The side on which a document is on account c, 0 when it is not.
Weight(d, c) == IF Kind[d] \in ControlKinds(c) THEN Side(d) ELSE 0

\* The exchange entry of an application undoes what both its documents convert.
AtSettler(c) == [a \in apps |-> Weight(a.settler, c) * Convert(a.amount, RateOf(a.settler))]
AtTarget(c) == [a \in apps |-> Weight(a.target, c) * Convert(a.amount, RateOf(a.target))]

\* An application's two documents are different, posted, and of kinds that settle
\* one another.
LEMMA AppEnds ==
    ASSUME IInv, Valued, NEW a \in apps
    PROVE  /\ a.settler \in PostedDocs /\ a.target \in PostedDocs /\ a.settler # a.target
           /\ a.amount \in Nat /\ RateOf(a.settler) \in Nat /\ RateOf(a.target) \in Nat
           /\ Kind[a.target] = Settles(Kind[a.settler]) /\ Kind[a.settler] \in Settlers
<1>1. /\ a.amount \in Nat /\ a.settler \in Docs /\ a.target \in Docs
      /\ doc[a.settler].status = "posted" /\ doc[a.target].status = "posted"
      /\ Kind[a.target] = Settles(Kind[a.settler])
  BY TypeParts DEF IInv, ApplicationsPinPosted, AppRow
<1>2. RateOf(a.settler) \in Nat /\ RateOf(a.target) \in Nat
  BY <1>1, TypeParts, Links, JournalRows DEF IInv, RateOf
<1>3. Kind[a.settler] \in Settlers
  BY DEF Valued, AppValued
<1>4. Kind[a.target] \notin Settlers
  BY <1>1 DEF Settles, Settlers, Payments
<1> QED BY <1>1, <1>2, <1>3, <1>4 DEF PostedDocs

\* An exchange entry moves what its application takes from each end, at the
\* rate of that end.
LEMMA AppBaseEnds ==
    ASSUME IInv, Valued, NEW c \in {"ar", "ap"}, NEW a \in apps
    PROVE  /\ AtSettler(c)[a] \in Int /\ AtTarget(c)[a] \in Int
           /\ AppBase(a, c) = (-1) * (AtSettler(c)[a] + AtTarget(c)[a])
<1> DEFINE x == Convert(a.amount, RateOf(a.settler))
           y == Convert(a.amount, RateOf(a.target))
<1>1. x \in Int /\ y \in Int
  BY AppEnds, ConvertInt
<1>2. /\ AtSettler(c)[a] = Weight(a.settler, c) * x
      /\ AtTarget(c)[a] = Weight(a.target, c) * y
  BY DEF AtSettler, AtTarget
<1>3. Difference(a) = x - y
  BY DEF Difference, RateOf
<1> HIDE DEF x, y
<1>4. CASE Kind[a.settler] \in ControlKinds(c)
  <2>1. CASE c = "ar"
    <3>1. Weight(a.settler, c) = -1 /\ Weight(a.target, c) = 1
      BY <1>4, <2>1, AppEnds DEF Weight, ControlKinds, Kinds, Side, Settles, Settlers, Payments
    <3>2. AppBase(a, c) = x - y
      BY <1>3, <1>4, <2>1 DEF AppBase
    <3> QED BY <1>1, <1>2, <3>1, <3>2
  <2>2. CASE c = "ap"
    <3>1. Weight(a.settler, c) = 1 /\ Weight(a.target, c) = -1
      BY <1>4, <2>2, AppEnds DEF Weight, ControlKinds, Kinds, Side, Settles, Settlers, Payments
    <3>2. AppBase(a, c) = -(x - y)
      BY <1>3, <1>4, <2>2 DEF AppBase
    <3> QED BY <1>1, <1>2, <3>1, <3>2
  <2> QED BY <2>1, <2>2
<1>5. CASE Kind[a.settler] \notin ControlKinds(c)
  <2>1. Weight(a.settler, c) = 0 /\ Weight(a.target, c) = 0
    BY <1>5, AppEnds DEF Weight, ControlKinds, Kinds, Settles, Settlers, Payments
  <2>2. AppBase(a, c) = 0
    BY <1>5 DEF AppBase
  <2> QED BY <1>1, <1>2, <2>1, <2>2
<1> QED BY <1>4, <1>5

\* A document's applications, whichever end it is.
LEMMA AppsGroup ==
    ASSUME IInv, Finite, Valued, NEW c \in {"ar", "ap"}, NEW d \in PostedDocs
    PROVE  LET A == AppsWith(d) IN
           /\ IsFiniteSet(A) /\ \A a \in A : a.amount \in Nat
           /\ RateOf(d) \in Nat /\ Weight(d, c) \in {-1, 0, 1}
           /\ SumOver(AtSettler(c), AppsOf(d)) \in Int /\ SumOver(AtTarget(c), AppsTo(d)) \in Int
           /\ SumOver(AtSettler(c), AppsOf(d)) + SumOver(AtTarget(c), AppsTo(d))
                 = Weight(d, c) * SumOver(InBase(A, RateOf(d)), A)
<1> DEFINE A == AppsWith(d)
           r == RateOf(d)
           w == Weight(d, c)
           I == InBase(A, r)
           S == AtSettler(c)
           T == AtTarget(c)
<1>1. /\ A \in SUBSET apps /\ AppsOf(d) \in SUBSET apps /\ AppsTo(d) \in SUBSET apps
      /\ A = AppsOf(d) \cup AppsTo(d) /\ AppsOf(d) \cap AppsTo(d) = {}
  BY AppEnds DEF AppsWith, AppsOf, AppsTo
<1>2. IsFiniteSet(A) /\ IsFiniteSet(AppsOf(d)) /\ IsFiniteSet(AppsTo(d))
  BY <1>1, FS_Subset DEF Finite
<1>3. \A a \in A : a.amount \in Nat
  BY <1>1, AppEnds
<1>4. r \in Nat /\ w \in {-1, 0, 1} /\ w \in Int
  BY TypeParts, Links, JournalRows DEF IInv, RateOf, PostedDocs, Weight, Side
<1>5. \A a \in A : I[a] = Convert(a.amount, r) /\ I[a] \in Int
  BY <1>3, <1>4, ConvertInt DEF InBase
<1>6. \A a \in AppsOf(d) : I[a] \in Int /\ S[a] = w * I[a]
  BY <1>1, <1>5 DEF AppsOf, AtSettler
<1>7. \A a \in AppsTo(d) : I[a] \in Int /\ T[a] = w * I[a]
  BY <1>1, <1>5 DEF AppsTo, AtTarget
<1> HIDE DEF A, r, w, I, S, T
<1>8. /\ SumOver(S, AppsOf(d)) = w * SumOver(I, AppsOf(d))
      /\ SumOver(T, AppsTo(d)) = w * SumOver(I, AppsTo(d))
  <2>1. SumOver(S, AppsOf(d)) = w * SumOver(I, AppsOf(d))
    BY <1>2, <1>4, <1>6, SumScaled
  <2>2. SumOver(T, AppsTo(d)) = w * SumOver(I, AppsTo(d))
    BY <1>2, <1>4, <1>7, SumScaled
  <2> QED BY <2>1, <2>2
<1>9. SumOver(I, AppsOf(d)) \in Int /\ SumOver(I, AppsTo(d)) \in Int
  BY <1>2, <1>6, <1>7, SumInt
<1>10. SumOver(I, A) = SumOver(I, AppsOf(d)) + SumOver(I, AppsTo(d))
  <2>1. \A a \in AppsOf(d) \cup AppsTo(d) : I[a] \in Int
    BY <1>6, <1>7
  <2> QED BY <1>1, <1>2, <2>1, SumDisjoint
<1>11. \A m, n \in Int : w * (m + n) = w * m + w * n /\ w * m \in Int
  BY <1>4
<1>12. /\ SumOver(S, AppsOf(d)) \in Int /\ SumOver(T, AppsTo(d)) \in Int
       /\ SumOver(S, AppsOf(d)) + SumOver(T, AppsTo(d)) = w * SumOver(I, A)
  BY <1>8, <1>9, <1>10, <1>11
<1> QED BY <1>2, <1>3, <1>4, <1>12 DEF A, r, w, I, S, T

\* The exchange entries by document.
WithDoc(d, c) == Weight(d, c) * SumOver(InBase(AppsWith(d), RateOf(d)), AppsWith(d))

\* So the exchange entries, together, are each document's applications at its
\* own rate.
LEMMA AppsGrouped ==
    ASSUME IInv, Finite, Valued, NEW c \in {"ar", "ap"}
    PROVE  SumOver([a \in apps |-> AppBase(a, c)], apps)
              = (-1) * SumOver([d \in PostedDocs |-> WithDoc(d, c)], PostedDocs)
<1> DEFINE S == AtSettler(c)
           T == AtTarget(c)
           ST == [a \in apps |-> S[a] + T[a]]
           G == [a \in apps |-> AppBase(a, c)]
           settler == [a \in apps |-> a.settler]
           target == [a \in apps |-> a.target]
           SD == [d \in PostedDocs |-> SumOver(S, AppsOf(d))]
           TD == [d \in PostedDocs |-> SumOver(T, AppsTo(d))]
           W == [d \in PostedDocs |-> WithDoc(d, c)]
<1>1. IsFiniteSet(apps) /\ IsFiniteSet(PostedDocs)
  BY BalanceSplit
<1>2. \A a \in apps : /\ S[a] \in Int /\ T[a] \in Int /\ ST[a] = S[a] + T[a] /\ ST[a] \in Int
                      /\ G[a] = (-1) * ST[a]
  BY AppBaseEnds
<1>3. settler \in [apps -> PostedDocs] /\ target \in [apps -> PostedDocs]
  BY AppEnds
<1>4. \A d \in PostedDocs : SD[d] = SumOver(S, {a \in apps : settler[a] = d})
  <2>1. ASSUME NEW d \in PostedDocs PROVE {a \in apps : settler[a] = d} = AppsOf(d)
    BY DEF AppsOf
  <2> HIDE DEF S, settler
  <2> QED BY <2>1
<1>5. \A d \in PostedDocs : TD[d] = SumOver(T, {a \in apps : target[a] = d})
  <2>1. ASSUME NEW d \in PostedDocs PROVE {a \in apps : target[a] = d} = AppsTo(d)
    BY DEF AppsTo
  <2> HIDE DEF T, target
  <2> QED BY <2>1
<1>6. \A d \in PostedDocs : SD[d] \in Int /\ TD[d] \in Int /\ W[d] = SD[d] + TD[d]
  BY AppsGroup DEF WithDoc
<1> HIDE DEF S, T, ST, G, settler, target, SD, TD, W
<1>7. SumOver(S, apps) = SumOver(SD, PostedDocs)
  <2>1. Groups(apps, PostedDocs, settler, S, SD)
    BY <1>2, <1>3, <1>4 DEF Groups
  <2> QED BY <1>1, <2>1, SumGrouped
<1>8. SumOver(T, apps) = SumOver(TD, PostedDocs)
  <2>1. Groups(apps, PostedDocs, target, T, TD)
    BY <1>2, <1>3, <1>5 DEF Groups
  <2> QED BY <1>1, <2>1, SumGrouped
<1>9. SumOver(W, PostedDocs) = SumOver(SD, PostedDocs) + SumOver(TD, PostedDocs)
  BY <1>1, <1>6, SumPlus
<1>10. SumOver(ST, apps) = SumOver(S, apps) + SumOver(T, apps)
  BY <1>1, <1>2, SumPlus
<1>11. SumOver(G, apps) = (-1) * SumOver(ST, apps)
  <2>1. -1 \in Int
    OBVIOUS
  <2> QED BY <1>1, <1>2, <2>1, SumScaled
<1> QED BY <1>7, <1>8, <1>9, <1>10, <1>11 DEF G, W

\* What is left of a document's conversions, its open item, and the bound on
\* the former, each on account c.
ErrorOf(d, c) == Weight(d, c) * Rounding(doc[d].net, doc[d].tax, AppsWith(d), RateOf(d))
OpenOf(d, c) == Weight(d, c) * Convert(Gross(d) - SumApplied(AppsWith(d)), RateOf(d))
BoundOf(d, c) == IF Kind[d] \in ControlKinds(c) THEN Conversions(d) ELSE 0

\* A document's posting is its open item, its applications and an error of
\* half a unit for each conversion.
LEMMA DocError ==
    ASSUME IInv, Finite, Valued, NEW c \in {"ar", "ap"}, NEW d \in PostedDocs
    PROVE  /\ ErrorOf(d, c) \in Int /\ OpenOf(d, c) \in Int /\ WithDoc(d, c) \in Int /\ BoundOf(d, c) \in Int
           /\ DocBase(d, c) = (OpenOf(d, c) + ErrorOf(d, c)) + WithDoc(d, c)
           /\ -BoundOf(d, c) <= 2 * ErrorOf(d, c) /\ 2 * ErrorOf(d, c) <= BoundOf(d, c)
           /\ Kind[d] \notin ControlKinds(c) => OpenOf(d, c) = 0 /\ BoundOf(d, c) = 0
           /\ Kind[d] \in ControlKinds(c) => OpenOf(d, c) = OpenItem(d) /\ BoundOf(d, c) = Conversions(d)
<1> DEFINE A == AppsWith(d)
           r == RateOf(d)
           w == Weight(d, c)
           net == doc[d].net
           tax == doc[d].tax
           base == Convert(net, r) + Convert(tax, r)
           open == Convert((net + tax) - SumApplied(A), r)
           sum == SumOver(InBase(A, r), A)
           off == Rounding(net, tax, A, r)
<1>1. /\ net \in Int /\ tax \in Int /\ d \in Docs /\ (d \notin Foreign => r = RateScale)
  BY TypeParts DEF IInv, DocsOK, DocRow, PostedDocs, Valued, DocValued
<1>2. IsFiniteSet(A) /\ (\A a \in A : a.amount \in Nat) /\ r \in Nat /\ w \in {-1, 0, 1}
  BY AppsGroup
<1>3. SumApplied(A) \in Nat /\ sum \in Int /\ Cardinality(A) \in Nat
  BY <1>2, AppliedNear
<1>4. /\ (net + tax) - SumApplied(A) \in Int
      /\ net + tax - SumApplied(A) = (net + tax) - SumApplied(A)
  BY <1>1, <1>3
<1>5. base \in Int /\ open \in Int
  BY <1>1, <1>2, <1>4, ConvertInt
<1>6. off \in Int /\ 2 * off \in -(3 + Cardinality(A))..(3 + Cardinality(A)) /\ (r = RateScale => off = 0)
  BY <1>1, <1>2, RoundingBound
<1>7. off = base - open - sum
  <2>1. Convert(net, r) \in Int /\ Convert(tax, r) \in Int
    BY <1>1, <1>2, ConvertInt
  <2>2. off = Convert(net, r) + Convert(tax, r) - open - sum
    BY <1>4 DEF Rounding
  <2> HIDE DEF A, r, net, tax, open, sum, off
  <2> QED BY <1>3, <1>5, <2>1, <2>2
<1>8. /\ ErrorOf(d, c) = w * off /\ OpenOf(d, c) = w * open /\ WithDoc(d, c) = w * sum
      /\ DocBase(d, c) = w * base
  <2>1. DocBase(d, c) = w * base
    <3>1. 0 * base = 0
      BY <1>5
    <3> HIDE DEF base
    <3> QED BY <3>1 DEF DocBase, Weight, base
  <2>2. ErrorOf(d, c) = w * off
    BY DEF ErrorOf
  <2>3. OpenOf(d, c) = w * open
    <3>1. Gross(d) = net + tax
      BY DEF Gross
    <3>2. OpenOf(d, c) = Weight(d, c) * Convert(Gross(d) - SumApplied(AppsWith(d)), RateOf(d))
      BY DEF OpenOf
    <3> HIDE DEF A, r, net, tax, w
    <3>3. open = Convert((net + tax) - SumApplied(A), r)
      OBVIOUS
    <3>4. A = AppsWith(d) /\ r = RateOf(d) /\ w = Weight(d, c)
      BY DEF A, r, w
    <3> HIDE DEF open
    <3> QED BY <3>1, <3>2, <3>3, <3>4, Zenon
  <2>4. WithDoc(d, c) = w * sum
    BY DEF WithDoc
  <2> HIDE DEF w, off, open, sum, base
  <2> QED BY <2>1, <2>2, <2>3, <2>4
<1>9. /\ Conversions(d) = IF d \in Foreign THEN 3 + Cardinality(A) ELSE 0
      /\ OpenItem(d) = Side(d) * open
      /\ w = IF Kind[d] \in ControlKinds(c) THEN Side(d) ELSE 0
      /\ Side(d) \in {-1, 1}
  <2>1. Conversions(d) = IF d \in Foreign THEN 3 + Cardinality(A) ELSE 0
    BY DEF Conversions
  <2>2. OpenItem(d) = Side(d) * open
    <3>1. Gross(d) = net + tax /\ journal[doc[d].entry].rate = r
      BY DEF Gross, RateOf
    <3>2. OpenItem(d) = Side(d) * Convert(Gross(d) - SumApplied(AppsWith(d)), journal[doc[d].entry].rate)
      BY DEF OpenItem
    <3> HIDE DEF A, r, net, tax
    <3>3. open = Convert((net + tax) - SumApplied(A), r)
      OBVIOUS
    <3>4. A = AppsWith(d)
      BY DEF A
    <3> HIDE DEF open
    <3> QED BY <3>1, <3>2, <3>3, <3>4, Zenon
  <2>3. w = IF Kind[d] \in ControlKinds(c) THEN Side(d) ELSE 0
    BY DEF Weight
  <2>4. Side(d) \in {-1, 1}
    BY DEF Side
  <2> HIDE DEF A, open, w
  <2> QED BY <2>1, <2>2, <2>3, <2>4
<1> HIDE DEF A, r, w, net, tax, base, open, sum, off
<1>10. /\ Conversions(d) \in Nat /\ -Conversions(d) <= 2 * off /\ 2 * off <= Conversions(d)
  BY <1>1, <1>3, <1>6, <1>9
<1>11. CASE Kind[d] \in ControlKinds(c)
  <2>1. w = Side(d) /\ BoundOf(d, c) = Conversions(d)
    BY <1>9, <1>11 DEF BoundOf
  <2>2. CASE Side(d) = 1
    BY <1>3, <1>5, <1>6, <1>7, <1>8, <1>9, <1>10, <1>11, <2>1, <2>2
  <2>3. CASE Side(d) = -1
    BY <1>3, <1>5, <1>6, <1>7, <1>8, <1>9, <1>10, <1>11, <2>1, <2>3
  <2> QED BY <1>9, <2>2, <2>3
<1>12. CASE Kind[d] \notin ControlKinds(c)
  <2>1. w = 0 /\ BoundOf(d, c) = 0
    BY <1>9, <1>12 DEF BoundOf
  <2> QED BY <1>3, <1>5, <1>6, <1>8, <1>12, <2>1
<1> QED BY <1>11, <1>12

\* The sums of ControlAccountRevalued, as sums of functions.
LEMMA BalanceIs ==
    ASSUME IsFiniteSet(Ids), NEW c
    PROVE  MapThenSumSet(LAMBDA e : journal[e].lines[c].base, Ids)
              = SumOver([e \in Ids |-> journal[e].lines[c].base], Ids)
<1> DEFINE F == [e \in Ids |-> journal[e].lines[c].base]
           Adding(g) == [T \in SUBSET Ids |-> IF T = {} THEN 0
                            ELSE journal[CHOOSE x \in T : TRUE].lines[c].base + g[T \ {CHOOSE x \in T : TRUE}]]
<1>1. ASSUME NEW g PROVE Adds(g, F, Ids) <=> g = Adding(g)
  BY DEF Adds
<1>2. MapThenSumSet(LAMBDA e : journal[e].lines[c].base, Ids) = (CHOOSE g : g = Adding(g))[Ids]
  BY Zenon DEF MapThenSumSet, MapThenFoldSet
<1> HIDE DEF F, Adding
<1>3. PICK g : g = Adding(g)
  BY <1>1, AddsExists
<1>4. Adds(CHOOSE h : h = Adding(h), F, Ids)
  BY <1>1, <1>3
<1> QED BY <1>2, <1>4, SumIs DEF F

\* As BalanceIs, of the open items.
LEMMA OpenItemsAre ==
    ASSUME NEW D, IsFiniteSet(D)
    PROVE  MapThenSumSet(OpenItem, D) = SumOver([d \in D |-> OpenItem(d)], D)
<1> DEFINE F == [d \in D |-> OpenItem(d)]
           Adding(g) == [T \in SUBSET D |-> IF T = {} THEN 0
                            ELSE OpenItem(CHOOSE x \in T : TRUE) + g[T \ {CHOOSE x \in T : TRUE}]]
<1>1. ASSUME NEW g PROVE Adds(g, F, D) <=> g = Adding(g)
  BY DEF Adds
<1>2. MapThenSumSet(OpenItem, D) = (CHOOSE g : g = Adding(g))[D]
  BY Zenon DEF MapThenSumSet, MapThenFoldSet
<1> HIDE DEF F, Adding
<1>3. PICK g : g = Adding(g)
  BY <1>1, AddsExists
<1>4. Adds(CHOOSE h : h = Adding(h), F, D)
  BY <1>1, <1>3
<1> QED BY <1>2, <1>4, SumIs DEF F

\* As BalanceIs, of the conversions.
LEMMA ConversionsAre ==
    ASSUME NEW D, IsFiniteSet(D)
    PROVE  MapThenSumSet(Conversions, D) = SumOver([d \in D |-> Conversions(d)], D)
<1> DEFINE F == [d \in D |-> Conversions(d)]
           Adding(g) == [T \in SUBSET D |-> IF T = {} THEN 0
                            ELSE Conversions(CHOOSE x \in T : TRUE) + g[T \ {CHOOSE x \in T : TRUE}]]
<1>1. ASSUME NEW g PROVE Adds(g, F, D) <=> g = Adding(g)
  BY DEF Adds
<1>2. MapThenSumSet(Conversions, D) = (CHOOSE g : g = Adding(g))[D]
  BY Zenon DEF MapThenSumSet, MapThenFoldSet
<1> HIDE DEF F, Adding
<1>3. PICK g : g = Adding(g)
  BY <1>1, AddsExists
<1>4. Adds(CHOOSE h : h = Adding(h), F, D)
  BY <1>1, <1>3
<1> QED BY <1>2, <1>4, SumIs DEF F

\* A control account: its balance less the open items is the errors of its
\* documents, each within its bound.
LEMMA AccountRevalued ==
    ASSUME IInv, Finite, Valued, NEW c \in {"ar", "ap"}
    PROVE  LET balance == MapThenSumSet(LAMBDA e : journal[e].lines[c].base, Ids)
               error   == balance - MapThenSumSet(OpenItem, PostedOn(c))
               bound   == MapThenSumSet(Conversions, PostedOn(c))
           IN  2 * error \in -bound..bound
<1> DEFINE P == PostedDocs
           On == PostedOn(c)
           Doc == [d \in P |-> DocBase(d, c)]
           Open == [d \in P |-> OpenOf(d, c)]
           Err == [d \in P |-> ErrorOf(d, c)]
           With == [d \in P |-> WithDoc(d, c)]
           Bound == [d \in P |-> BoundOf(d, c)]
           Both == [d \in P |-> Open[d] + Err[d]]
           Twice == [d \in P |-> 2 * Err[d]]
           Below == [d \in P |-> (-1) * Bound[d]]
           Items == [d \in On |-> OpenItem(d)]
           Counts == [d \in On |-> Conversions(d)]
           App == [a \in apps |-> AppBase(a, c)]
           Base == [e \in Ids |-> journal[e].lines[c].base]
<1>1. /\ IsFiniteSet(P) /\ IsFiniteSet(Ids)
      /\ SumOver(Base, Ids) = SumOver(Doc, P) + SumOver(App, apps)
  <2>1. Len(journal) \in Nat
    BY TypeParts, JournalRows DEF IInv
  <2>2. IsFiniteSet(Ids)
    BY <2>1, FS_Interval DEF Ids
  <2> QED BY <2>2, BalanceSplit
<1>2. SumOver(App, apps) = (-1) * SumOver(With, P)
  BY AppsGrouped
<1>3. /\ On \in SUBSET P
      /\ \A d \in P \ On : Open[d] = 0 /\ Bound[d] = 0
      /\ \A d \in On : Open[d] = Items[d] /\ Bound[d] = Counts[d]
  <2>1. On \in SUBSET P /\ \A d \in P : d \in On <=> Kind[d] \in ControlKinds(c)
    BY DEF PostedOn, PostedDocs
  <2> HIDE DEF P, On
  <2> QED BY <2>1, DocError DEF P
<1>4. \A d \in P : /\ Open[d] \in Int /\ Err[d] \in Int /\ With[d] \in Int /\ Bound[d] \in Int
                   /\ Both[d] = Open[d] + Err[d] /\ Both[d] \in Int
                   /\ Doc[d] = Both[d] + With[d]
                   /\ Twice[d] = 2 * Err[d] /\ Twice[d] \in Int
                   /\ Below[d] = (-1) * Bound[d] /\ Below[d] \in Int
                   /\ Below[d] <= Twice[d] /\ Twice[d] <= Bound[d]
  <2>1. ASSUME NEW d \in P
        PROVE  /\ Open[d] = OpenOf(d, c) /\ Err[d] = ErrorOf(d, c) /\ With[d] = WithDoc(d, c)
               /\ Bound[d] = BoundOf(d, c) /\ Both[d] = Open[d] + Err[d] /\ Doc[d] = DocBase(d, c)
               /\ Twice[d] = 2 * Err[d] /\ Below[d] = (-1) * Bound[d]
    OBVIOUS
  <2> HIDE DEF Open, Err, With, Bound, Both, Doc, Twice, Below
  <2> SUFFICES ASSUME NEW d \in P
               PROVE  /\ Open[d] \in Int /\ Err[d] \in Int /\ With[d] \in Int /\ Bound[d] \in Int
                      /\ Both[d] = Open[d] + Err[d] /\ Both[d] \in Int
                      /\ Doc[d] = Both[d] + With[d]
                      /\ Twice[d] = 2 * Err[d] /\ Twice[d] \in Int
                      /\ Below[d] = (-1) * Bound[d] /\ Below[d] \in Int
                      /\ Below[d] <= Twice[d] /\ Twice[d] <= Bound[d]
    OBVIOUS
  <2> QED BY <2>1, DocError
<1>5. /\ MapThenSumSet(OpenItem, On) = SumOver(Items, On)
      /\ MapThenSumSet(Conversions, On) = SumOver(Counts, On)
      /\ MapThenSumSet(LAMBDA e : journal[e].lines[c].base, Ids) = SumOver(Base, Ids)
  <2>1. IsFiniteSet(On)
    BY <1>1, <1>3, FS_Subset
  <2> QED BY <1>1, <2>1, OpenItemsAre, ConversionsAre, BalanceIs
<1> HIDE DEF P, On, Doc, Open, Err, With, Bound, Both, Twice, Below, Items, Counts, App, Base
<1>6. IsFiniteSet(On) /\ SumOver(Open, P) = SumOver(Items, On) /\ SumOver(Bound, P) = SumOver(Counts, On)
  <2>0. /\ \A d \in P : Open[d] \in Int
        /\ \A d \in P : Bound[d] \in Int
        /\ \A d \in P \ On : Open[d] = 0
        /\ \A d \in P \ On : Bound[d] = 0
        /\ IsFiniteSet(P) /\ On \in SUBSET P
    BY <1>1, <1>3, <1>4
  <2>1. IsFiniteSet(On) /\ SumOver(Open, P) = SumOver(Open, On)
    BY ONLY <2>0, SumSupport
  <2>2. SumOver(Bound, P) = SumOver(Bound, On)
    BY ONLY <2>0, SumSupport
  <2>3. \A d \in On : /\ Open[d] = Items[d] /\ Open[d] \in Int
                      /\ Bound[d] = Counts[d] /\ Bound[d] \in Int
    BY <1>3, <1>4
  <2>4. SumOver(Open, On) = SumOver(Items, On)
    BY <2>1, <2>3, SumSame
  <2>5. SumOver(Bound, On) = SumOver(Counts, On)
    BY <2>1, <2>3, SumSame
  <2> QED BY <2>1, <2>2, <2>4, <2>5
<1>7. SumOver(Doc, P) = SumOver(Both, P) + SumOver(With, P)
  BY <1>1, <1>4, SumPlus
<1>8. SumOver(Both, P) = SumOver(Open, P) + SumOver(Err, P)
  BY <1>1, <1>4, SumPlus
<1>9. /\ SumOver(Open, P) \in Int /\ SumOver(Err, P) \in Int
      /\ SumOver(With, P) \in Int /\ SumOver(Bound, P) \in Int
  BY <1>1, <1>4, SumInt
<1>10. SumOver(Twice, P) = 2 * SumOver(Err, P) /\ SumOver(Below, P) = (-1) * SumOver(Bound, P)
  <2>1. 2 \in Int /\ -1 \in Int
    OBVIOUS
  <2>2. SumOver(Twice, P) = 2 * SumOver(Err, P)
    BY <1>1, <1>4, <2>1, SumScaled
  <2>3. SumOver(Below, P) = (-1) * SumOver(Bound, P)
    BY <1>1, <1>4, <2>1, SumScaled
  <2> QED BY <2>2, <2>3
<1>11. SumOver(Below, P) <= SumOver(Twice, P) /\ SumOver(Twice, P) <= SumOver(Bound, P)
  BY <1>1, <1>4, SumAtMost
<1>12. SumOver(Base, Ids) - SumOver(Items, On) = SumOver(Err, P)
  BY <1>1, <1>2, <1>6, <1>7, <1>8, <1>9
<1>13. 2 * (SumOver(Base, Ids) - SumOver(Items, On)) \in -SumOver(Counts, On)..SumOver(Counts, On)
  BY <1>6, <1>9, <1>10, <1>11, <1>12
<1> QED BY <1>5, <1>13 DEF On

\* In base currency the receivables and payables stay at the open items, each at
\* the rate of its posting, up to half a unit a conversion: no sequence of
\* postings, applications, unpostings and edits of the rate table loses an
\* exchange difference or books one twice.
THEOREM AccountsRevalued == Spec => []ControlAccountRevalued
<1>1. Init => Valued
  BY DEF Init, Valued, NoDoc
<1>2. IInv /\ Valued /\ [Next]_vars => Valued'
  BY ValuedStep
<1>3. SInv => IInv /\ Finite
  BY DEF SInv
<1>4. IInv /\ Finite /\ Valued => ControlAccountRevalued
  BY AccountRevalued DEF ControlAccountRevalued
<1> QED BY <1>1, <1>2, <1>3, <1>4, SettlementInvariance, PTL DEF Spec

=============================================================================
