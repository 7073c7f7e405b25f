----------------------------- MODULE OrderProofs -----------------------------
(***************************************************************************)
(* Proofs about OrderFulfilment for any number of lines, screens and       *)
(* overlapping requests: drafts are undrawn, and requests that come one    *)
(* after the other keep an order within what was ordered.                  *)
(***************************************************************************)
EXTENDS OrderFulfilment, SumTheorems, TLAPS

-----------------------------------------------------------------------------
(* The inductive invariant. *)

View == [status : {"none"} \cup Statuses, left : [Axes -> SUBSET Lines]]
Tab == [open : BOOLEAN, loading : BOOLEAN, acting : BOOLEAN, busy : BOOLEAN,
        panel : {"none"} \cup Axes, view : View]
Request == [tab : {"none"} \cup Tabs, op : {"none"} \cup Lifecycle \cup Axes,
            ask : LineQuantities, rows : LineQuantities, of : {"none", "tab", "all"},
            step : {"none", "sent", "begun", "drawn", "checked", "written", "done"}]

\* What a request is at each step, and what it asks for.
Own(r) ==
    /\ r.step # "none" => r.op \in Lifecycle \cup Axes /\ r.tab \in Tabs
    /\ r.step \in {"drawn", "checked"} => r.op \in Axes
    /\ r.step = "written" => r.op \in Lifecycle
    /\ r.op \in Axes /\ r.step \in {"sent", "begun"} => r.ask # None
    /\ r.step \notin {"drawn", "checked"} => r.rows = None
    /\ \A l \in Lines : r.rows[l] <= r.ask[l]

\* A screen that still holds what sent a request is open.
Shown(ts, r) == r.of # "none" => r.tab \in Tabs /\ ts[r.tab].open

Runs(r) == r.step \in {"begun", "drawn", "checked", "written"}

\* A draw keeps within what was ordered.
Fits(r) ==
    r.step \in {"drawn", "checked"} => \A l \in Lines : drawn[r.op][l] + r.rows[l] <= order.ordered[l]

Typed ==
    /\ order \in [status : Statuses, ordered : LineQuantities]
    /\ drawn \in [Axes -> LineQuantities]
    /\ tabs \in [Tabs -> Tab] /\ requests \in [Slots -> Request] /\ overlapped \in BOOLEAN
    /\ \A t \in Tabs : ~tabs[t].open => tabs[t] = Closed
    /\ \A s \in Slots : Own(requests[s]) /\ Shown(tabs, requests[s])

\* The row's lock: one transaction at most has written it, and a deletion
\* still finds the draft it deletes.
OneWrites ==
    \A s \in Slots : requests[s].step = "written" =>
        /\ requests[s].op = "delete" => order.status = "draft"
        /\ \A u \in Slots \ {s} : requests[u].step # "written"

\* Nothing is drawn, or being drawn, from a draft or an order that is gone.
Undrawn ==
    order.status \in {"draft", "gone"} =>
        ~Fulfilled /\ \A s \in Slots : Runs(requests[s]) => requests[s].op \notin Axes

\* What holds as long as no two transactions have been open at once: the one
\* that runs still finds what permitted it.
Alone ==
    /\ OnlyOrdered
    /\ order.status = "cancelled" => ~Fulfilled
    /\ \A s \in Slots : Runs(requests[s]) =>
          /\ Permits(requests[s].op) /\ Fits(requests[s])
          /\ \A u \in Slots \ {s} : ~Runs(requests[u])

IInv == Typed /\ OneWrites /\ Undrawn /\ (~overlapped => Alone)
-----------------------------------------------------------------------------
(* Helpers. *)

\* The lesser and the greater of two numbers.
LEMMA MinOfTwo ==
    ASSUME NEW a \in Int, NEW b \in Int
    PROVE  Min({a, b}) = IF a <= b THEN a ELSE b
<1>1. \E x \in {a, b} : \A y \in {a, b} : x <= y
  OBVIOUS
<1> QED BY <1>1 DEF Min

LEMMA MaxOfTwo ==
    ASSUME NEW a \in Int, NEW b \in Int
    PROVE  Max({a, b}) = IF a >= b THEN a ELSE b
<1>1. \E x \in {a, b} : \A y \in {a, b} : x >= y
  OBVIOUS
<1> QED BY <1>1 DEF Max

\* A quantity that is largest exists.
LEMMA LargestQuantity == Max(Quantities) \in Nat
<1> DEFINE Good == {T \in SUBSET Quantities : T # {} => \E x \in T : \A y \in T : x >= y}
<1>1. Quantities \subseteq Nat /\ 0 \in Quantities /\ IsFiniteSet(Quantities)
  BY OrderAssumption
<1>2. {} \in Good
  OBVIOUS
<1>3. ASSUME NEW T \in SUBSET Quantities, NEW q \in Quantities \ T, T \in Good
      PROVE  T \cup {q} \in Good
  <2>1. CASE T = {}
    BY <1>1, <2>1
  <2>2. CASE T # {}
    <3>1. PICK x \in T : \A y \in T : x >= y
      BY <1>3, <2>2
    <3>2. x \in Nat /\ q \in Nat /\ T \subseteq Nat
      BY <1>1
    <3>3. \E z \in T \cup {q} : \A y \in T \cup {q} : z >= y
      <4>1. CASE x >= q
        BY <3>1, <3>2, <4>1
      <4>2. CASE ~(x >= q)
        BY <3>1, <3>2, <4>2
      <4> QED BY <4>1, <4>2
    <3> QED BY <3>3
  <2> QED BY <2>1, <2>2
<1> HIDE DEF Good
<1>4. Quantities \in Good
  BY <1>1, <1>2, <1>3, SetInduction
<1>5. \E x \in Quantities : \A y \in Quantities : x >= y
  BY <1>1, <1>4 DEF Good
<1> QED BY <1>1, <1>5 DEF Max

\* The shapes of the empty values.
LEMMA Shapes ==
    /\ None \in LineQuantities /\ \A l \in Lines : None[l] = 0
    /\ NoRequest \in Request /\ Closed \in Tab
    /\ NoRequest.step = "none" /\ NoRequest.of = "none" /\ NoRequest.op = "none"
    /\ NoRequest.rows = None /\ NoRequest.ask = None
    /\ ~Closed.open /\ Closed.view = NoView
<1>1. None \in LineQuantities /\ \A l \in Lines : None[l] = 0
  BY DEF None, LineQuantities
<1>2. NoView \in View
  BY DEF NoView, View
<1> QED BY <1>1, <1>2 DEF NoRequest, Request, Closed, Tab

LEMMA NoRequestOwn == Own(NoRequest) /\ ~Runs(NoRequest)
BY Shapes DEF Own, Runs

\* What is left of a line is a natural number.
LEMMA LeftIs ==
    ASSUME order \in [status : Statuses, ordered : LineQuantities], drawn \in [Axes -> LineQuantities],
           NEW axis \in Axes, NEW l \in Lines
    PROVE  /\ LeftOn(axis, l) \in Nat /\ order.ordered[l] \in Nat /\ drawn[axis][l] \in Nat
           /\ drawn[axis][l] <= order.ordered[l] => drawn[axis][l] + LeftOn(axis, l) <= order.ordered[l]
<1>1. order.ordered[l] \in Nat /\ drawn[axis][l] \in Nat
  BY DEF LineQuantities
<1>2. order.ordered[l] - drawn[axis][l] \in Int
  BY <1>1
<1> DEFINE d == order.ordered[l] - drawn[axis][l]
<1>3. Max({d, 0}) = IF d >= 0 THEN d ELSE 0
  BY <1>2, MaxOfTwo
<1> QED BY <1>1, <1>3 DEF LeftOn

\* What a draw picks is within what is left and what is asked for.
LEMMA PickedIs ==
    ASSUME order \in [status : Statuses, ordered : LineQuantities], drawn \in [Axes -> LineQuantities],
           NEW axis \in Axes, NEW ask \in LineQuantities, ask # None
    PROVE  /\ Picked(axis, ask) \in LineQuantities
           /\ \A l \in Lines : Picked(axis, ask)[l] <= ask[l] /\ Picked(axis, ask)[l] <= LeftOn(axis, l)
<1>1. \A l \in Lines : LeftOn(axis, l) \in Nat /\ ask[l] \in Nat
  BY LeftIs DEF LineQuantities
<1>2. \A l \in Lines : Min({LeftOn(axis, l), ask[l]}) = IF LeftOn(axis, l) <= ask[l] THEN LeftOn(axis, l) ELSE ask[l]
  BY <1>1, MinOfTwo
<1>3. Picked(axis, ask) = [l \in Lines |-> IF LeftOn(axis, l) <= ask[l] THEN LeftOn(axis, l) ELSE ask[l]]
  BY <1>2 DEF Picked
<1> QED BY <1>1, <1>3 DEF LineQuantities
-----------------------------------------------------------------------------
(* The screens: they send requests and lose them, and touch nothing else. *)

\* The same work, whoever still waits for it.
SameWork(q, p) == q.tab = p.tab /\ q.op = p.op /\ q.ask = p.ask /\ q.rows = p.rows /\ q.step = p.step

\* A request after a step of the screens: well formed, and if it is open, it
\* was, with the same work.
Follows(q, p) == q \in Request /\ Own(q) /\ (Runs(q) => SameWork(q, p))

LEMMA ScreenStep ==
    ASSUME IInv, UNCHANGED <<order, drawn, overlapped>>,
           tabs' \in [Tabs -> Tab], \A t \in Tabs : ~tabs'[t].open => tabs'[t] = Closed,
           requests' = [s \in Slots |-> requests'[s]],
           \A s \in Slots : Follows(requests'[s], requests[s]) /\ Shown(tabs', requests'[s])
    PROVE  IInv'
<1>1. order' = order /\ drawn' = drawn /\ overlapped' = overlapped
  OBVIOUS
<1>2. \A s \in Slots : requests'[s] \in Request /\ Own(requests'[s])
  BY DEF Follows
<1>3. requests' \in [Slots -> Request]
  BY <1>2
<1>4. Typed'
  BY <1>1, <1>2, <1>3 DEF IInv, Typed
<1>5. \A s \in Slots : Runs(requests'[s]) => SameWork(requests'[s], requests[s]) /\ Runs(requests[s])
  BY DEF Follows, SameWork, Runs
<1>6. \A s \in Slots : requests'[s].step = "written" => requests[s].step = "written" /\ requests'[s].op = requests[s].op
  BY DEF Follows, SameWork, Runs
<1>7. OneWrites'
  BY <1>1, <1>6 DEF IInv, OneWrites
<1>8. Fulfilled' = Fulfilled /\ OnlyOrdered' = OnlyOrdered
  BY <1>1 DEF Fulfilled, OnlyOrdered
<1>9. Undrawn'
  BY <1>1, <1>5, <1>8 DEF IInv, Undrawn, SameWork
<1>10. ASSUME Alone PROVE Alone'
  <2>2. \A s \in Slots : Runs(requests'[s]) =>
          /\ Runs(requests[s]) /\ requests'[s].op = requests[s].op /\ requests[s].op \in Lifecycle \cup Axes
          /\ requests'[s].rows = requests[s].rows /\ requests'[s].step = requests[s].step
    BY <1>5 DEF SameWork, IInv, Typed, Own, Runs
  <2>1. \A s \in Slots : Runs(requests'[s]) => Permits(requests[s].op)
    BY <1>10, <2>2 DEF Alone
  <2>3. \A s \in Slots : Runs(requests'[s]) => Permits(requests[s].op)'
    BY <1>1, <1>8, <2>1, <2>2 DEF Permits, Lifecycle, Axes
  <2>4. \A s \in Slots : Runs(requests'[s]) => Fits(requests[s])
    BY <1>10, <2>2 DEF Alone
  <2>5. \A s \in Slots : Runs(requests'[s]) => Fits(requests[s])'
    BY <1>1, <2>2, <2>4 DEF Fits
  <2>6. \A s \in Slots : Runs(requests'[s]) => \A u \in Slots \ {s} : ~Runs(requests'[u])
    BY <1>5, <1>10, <2>2 DEF Alone
  <2> QED BY <1>1, <1>8, <1>10, <2>3, <2>5, <2>6 DEF Alone
<1> QED BY <1>1, <1>4, <1>7, <1>9, <1>10 DEF IInv

\* A request of which less is still there.
LEMMA Loses ==
    ASSUME NEW r \in Request, Own(r), NEW v \in {"none", "tab", "all"}, NEW q, q = [r EXCEPT !.of = v]
    PROVE  Follows(q, r) /\ q.of = v /\ q.tab = r.tab
<1>1. q \in Request /\ q.of = v /\ q.tab = r.tab /\ q.op = r.op /\ q.ask = r.ask /\ q.rows = r.rows
      /\ q.step = r.step
  BY DEF Request
<1>2. Own(q)
  BY <1>1 DEF Own
<1> QED BY <1>1, <1>2 DEF Follows, SameWork

\* What the requests are after the screen, or its panel, is gone.
Lost(q, r) == Follows(q, r) /\ q.tab = r.tab /\ (q.of # "none" => r.of # "none")

LEMMA PanelLoses ==
    ASSUME Typed, NEW t \in Tabs
    PROVE  /\ PanelGone(t) = [s \in Slots |-> PanelGone(t)[s]]
           /\ \A s \in Slots : Lost(PanelGone(t)[s], requests[s])
<1>1. PanelGone(t) = [s \in Slots |-> PanelGone(t)[s]]
  BY DEF PanelGone
<1>2. ASSUME NEW s \in Slots PROVE Lost(PanelGone(t)[s], requests[s])
  <2>1. requests[s] \in Request /\ Own(requests[s])
    BY DEF Typed
  <2>2. CASE requests[s].tab = t /\ requests[s].op \in Axes /\ requests[s].of = "all"
    <3>1. PanelGone(t)[s] = [requests[s] EXCEPT !.of = "tab"]
      BY <2>2 DEF PanelGone
    <3> QED BY <2>1, <2>2, <3>1, Loses DEF Lost
  <2>3. CASE ~(requests[s].tab = t /\ requests[s].op \in Axes /\ requests[s].of = "all")
    <3>1. PanelGone(t)[s] = requests[s]
      BY <2>3 DEF PanelGone
    <3> QED BY <2>1, <3>1 DEF Lost, Follows, SameWork
  <2> QED BY <2>2, <2>3
<1> QED BY <1>1, <1>2

LEMMA TabLoses ==
    ASSUME Typed, NEW t \in Tabs
    PROVE  /\ TabGone(t) = [s \in Slots |-> TabGone(t)[s]]
           /\ \A s \in Slots : /\ Lost(TabGone(t)[s], requests[s])
                               /\ TabGone(t)[s].of # "none" => TabGone(t)[s].tab # t
<1>1. TabGone(t) = [s \in Slots |-> TabGone(t)[s]]
  BY DEF TabGone
<1>2. ASSUME NEW s \in Slots
      PROVE  Lost(TabGone(t)[s], requests[s]) /\ (TabGone(t)[s].of # "none" => TabGone(t)[s].tab # t)
  <2>1. requests[s] \in Request /\ Own(requests[s])
    BY DEF Typed
  <2>2. CASE requests[s].tab = t
    <3>1. TabGone(t)[s] = [requests[s] EXCEPT !.of = "none"]
      BY <2>2 DEF TabGone
    <3> QED BY <2>1, <2>2, <3>1, Loses DEF Lost
  <2>3. CASE requests[s].tab # t
    <3>1. TabGone(t)[s] = requests[s]
      BY <2>3 DEF TabGone
    <3> QED BY <2>1, <2>3, <3>1 DEF Lost, Follows, SameWork
  <2> QED BY <2>2, <2>3
<1> QED BY <1>1, <1>2

\* The screen t takes a new state; the others keep theirs.
LEMMA TabTakes ==
    ASSUME Typed, NEW t \in Tabs, NEW new \in Tab, new.open \/ new = Closed,
           tabs' = [tabs EXCEPT ![t] = new]
    PROVE  /\ tabs' \in [Tabs -> Tab] /\ \A u \in Tabs : ~tabs'[u].open => tabs'[u] = Closed
           /\ tabs'[t] = new /\ \A u \in Tabs \ {t} : tabs'[u] = tabs[u]
BY DEF Typed

\* What is still shown is, after t took a state that is open, or if it is not t's.
LEMMA StillShown ==
    ASSUME Typed, NEW t \in Tabs, NEW s \in Slots, NEW q, Lost(q, requests[s]),
           \A u \in Tabs \ {t} : tabs'[u] = tabs[u],
           tabs'[t].open \/ ~tabs[t].open \/ (q.of # "none" => q.tab # t)
    PROVE  Follows(q, requests[s]) /\ Shown(tabs', q)
<1>1. Shown(tabs, requests[s])
  BY DEF Typed
<1> QED BY <1>1 DEF Lost, Shown

LEMMA RequestsStay == ASSUME Typed PROVE \A s \in Slots : Lost(requests[s], requests[s])
BY DEF Typed, Lost, Follows, SameWork

LEMMA RequestsAre == ASSUME Typed PROVE requests = [s \in Slots |-> requests[s]]
BY DEF Typed
\* What is sent.
Asking(t, op, ask) ==
    [NoRequest EXCEPT !.tab = t, !.op = op, !.ask = ask, !.step = "sent", !.of = "all"]

\* A request is put into the first free slot.
LEMMA SentTo ==
    ASSUME Typed, Free # {}, NEW t, NEW op, NEW ask, Sent(t, op, ask)
    PROVE  \E s \in Slots :
             /\ requests[s] = NoRequest
             /\ requests' = [requests EXCEPT ![s] = Asking(t, op, ask)]
<1> DEFINE s == CHOOSE s \in Free : \A u \in Free : s <= u
<1>1. Free \in SUBSET Nat
  BY OrderAssumption DEF Free, Slots
<1>2. \E x \in Free : \A u \in Free : x <= u
  BY <1>1, Smallest
<1>3. s \in Free
  BY <1>2
<1> HIDE DEF s
<1>4. requests' = [requests EXCEPT ![s] = Asking(t, op, ask)]
  BY DEF Sent, s, Asking
<1> QED BY <1>3, <1>4 DEF Free

\* What has only been sent is not running, and well formed.
LEMMA JustSent ==
    ASSUME NEW t \in Tabs, NEW op \in Lifecycle \cup Axes, NEW ask \in LineQuantities,
           op \in Axes => ask # None, NEW q, q = Asking(t, op, ask)
    PROVE  q \in Request /\ Own(q) /\ ~Runs(q) /\ q.tab = t
<1> DEFINE n == NoRequest
<1>1. n \in Request /\ n.rows = None /\ q = [n EXCEPT !.tab = t, !.op = op, !.ask = ask, !.step = "sent", !.of = "all"]
  BY Shapes DEF Asking
<1> HIDE DEF n
<1>2. q \in Request /\ q.rows = None /\ q.op = op /\ q.ask = ask /\ q.step = "sent" /\ q.tab = t
  BY <1>1 DEF Request
<1>3. \A l \in Lines : None[l] = 0 /\ ask[l] \in Nat
  BY Shapes DEF LineQuantities
<1>4. \A l \in Lines : q.rows[l] <= q.ask[l]
  BY <1>2, <1>3
<1> QED BY <1>2, <1>4 DEF Own, Runs

\* A screen sends a request: it stays open, or opens.
LEMMA SendKeeps ==
    ASSUME IInv, Free # {}, NEW t \in Tabs, NEW op \in Lifecycle \cup Axes, NEW ask \in LineQuantities,
           op \in Axes => ask # None, Sent(t, op, ask),
           NEW new \in Tab, new.open, tabs' = [tabs EXCEPT ![t] = new],
           UNCHANGED <<order, drawn, overlapped>>
    PROVE  IInv'
<1>0. Typed
  BY DEF IInv
<1>1. /\ tabs' \in [Tabs -> Tab] /\ \A u \in Tabs : ~tabs'[u].open => tabs'[u] = Closed
      /\ tabs'[t] = new /\ \A u \in Tabs \ {t} : tabs'[u] = tabs[u]
  BY <1>0, TabTakes
<1> DEFINE q == Asking(t, op, ask)
<1>2. PICK s \in Slots : requests[s] = NoRequest /\ requests' = [requests EXCEPT ![s] = q]
  BY <1>0, SentTo
<1>3. q \in Request /\ Own(q) /\ ~Runs(q) /\ q.tab = t
  BY JustSent
<1> HIDE DEF q
<1>4. requests' = [u \in Slots |-> requests'[u]] /\ requests'[s] = q
      /\ \A u \in Slots \ {s} : requests'[u] = requests[u]
  BY <1>0, <1>2 DEF Typed
<1>5. Follows(q, requests[s]) /\ Shown(tabs', q)
  BY <1>1, <1>3 DEF Follows, Shown
<1>6. ASSUME NEW u \in Slots \ {s} PROVE Follows(requests[u], requests[u]) /\ Shown(tabs', requests[u])
  BY <1>0, <1>1, RequestsStay, StillShown
<1>7. \A u \in Slots : Follows(requests'[u], requests[u]) /\ Shown(tabs', requests'[u])
  BY <1>4, <1>5, <1>6
<1> QED BY <1>1, <1>4, <1>7, ScreenStep

\* A screen changes its own state while it is, or comes to be, open, or stays
\* as it is; requests are answered or lose their panels.
LEMMA OpenKeeps ==
    ASSUME IInv, NEW t \in Tabs, NEW new \in Tab, new.open \/ new = tabs[t],
           tabs' = [tabs EXCEPT ![t] = new], requests' = [s \in Slots |-> requests'[s]],
           \A s \in Slots : requests'[s] \in {NoRequest, requests[s], PanelGone(t)[s]},
           UNCHANGED <<order, drawn, overlapped>>
    PROVE  IInv'
<1>0. Typed
  BY DEF IInv
<1>1. /\ tabs' \in [Tabs -> Tab] /\ \A u \in Tabs : ~tabs'[u].open => tabs'[u] = Closed
      /\ tabs'[t] = new /\ \A u \in Tabs \ {t} : tabs'[u] = tabs[u]
  <2>1. new.open \/ new = Closed
    BY <1>0 DEF Typed
  <2> QED BY <1>0, <2>1, TabTakes
<1>2. ASSUME NEW s \in Slots PROVE Lost(requests'[s], requests[s]) \/ requests'[s] = NoRequest
  BY <1>0, RequestsStay, PanelLoses
<1>3. ASSUME NEW s \in Slots PROVE Follows(requests'[s], requests[s]) /\ Shown(tabs', requests'[s])
  <2> DEFINE q == requests'[s]
  <2>1. CASE q = NoRequest
    BY <2>1, Shapes, NoRequestOwn DEF Follows, Shown
  <2>2. CASE Lost(q, requests[s])
    <3> HIDE DEF q
    <3>1. tabs'[t].open \/ ~tabs[t].open
      BY <1>1
    <3>2. Follows(q, requests[s]) /\ Shown(tabs', q)
      BY <1>0, <1>1, <2>2, <3>1, StillShown
    <3> QED BY <3>2 DEF q
  <2> QED BY <1>2, <2>1, <2>2
<1> QED BY <1>1, <1>3, ScreenStep

\* A screen that acts, or shows something, is open.
LEMMA ActsOpen ==
    ASSUME Typed, NEW t \in Tabs,
           \/ tabs[t].loading \/ tabs[t].acting \/ tabs[t].panel # "none"
           \/ tabs[t].view.status # "none"
    PROVE  tabs[t].open
BY DEF Typed, Closed, NoView

LEMMA SnapshotIs == ASSUME Typed PROVE Snapshot \in View
<1>1. [axis \in Axes |-> {l \in Lines : LeftOn(axis, l) > 0}] \in [Axes -> SUBSET Lines]
  OBVIOUS
<1> HIDE DEF LeftOn
<1> QED BY <1>1 DEF Snapshot, View, Typed

LEMMA VisitKeeps == ASSUME IInv, NEW t \in Tabs, Visit(t) PROVE IInv'
<1> DEFINE new == [Closed EXCEPT !.open = TRUE, !.loading = TRUE]
<1>1. new \in Tab /\ new.open
  BY Shapes DEF Tab
<1>2. tabs' = [tabs EXCEPT ![t] = new] /\ requests' = requests /\ UNCHANGED <<order, drawn, overlapped>>
  BY DEF Visit
<1>3. requests' = [s \in Slots |-> requests'[s]]
  BY <1>2 DEF IInv, Typed
<1> HIDE DEF new
<1> QED BY <1>1, <1>2, <1>3, OpenKeeps

LEMMA LeaveKeeps ==
    ASSUME IInv, NEW t \in Tabs, tabs' = [tabs EXCEPT ![t] = Closed],
           requests' = [s \in Slots |-> requests'[s]],
           \A s \in Slots : requests'[s] = NoRequest \/ requests'[s] = TabGone(t)[s],
           UNCHANGED <<order, drawn, overlapped>>
    PROVE  IInv'
<1>0. Typed
  BY DEF IInv
<1>1. /\ tabs' \in [Tabs -> Tab] /\ \A u \in Tabs : ~tabs'[u].open => tabs'[u] = Closed
      /\ \A u \in Tabs \ {t} : tabs'[u] = tabs[u]
  BY <1>0, Shapes, TabTakes
<1>2. ASSUME NEW s \in Slots PROVE Follows(requests'[s], requests[s]) /\ Shown(tabs', requests'[s])
  <2>1. CASE requests'[s] = NoRequest
    BY <2>1, Shapes, NoRequestOwn DEF Follows, Shown
  <2>2. CASE requests'[s] = TabGone(t)[s]
    <3> DEFINE q == TabGone(t)[s]
    <3>1. Lost(q, requests[s]) /\ (q.of # "none" => q.tab # t)
      BY <1>0, TabLoses
    <3> HIDE DEF q
    <3>2. Follows(q, requests[s]) /\ Shown(tabs', q)
      BY <1>0, <1>1, <3>1, StillShown
    <3> QED BY <2>2, <3>2 DEF q
  <2> QED BY <2>1, <2>2
<1> QED BY <1>1, <1>2, ScreenStep

LEMMA LoadKeeps == ASSUME IInv, NEW t \in Tabs, Loaded(t) \/ LoadFails(t) PROVE IInv'
<1>0. Typed /\ tabs[t] \in Tab /\ tabs[t].loading
  BY DEF IInv, Typed, Loaded, LoadFails
<1>1. tabs[t].open /\ requests' = [s \in Slots |-> requests'[s]]
  BY <1>0, ActsOpen DEF Typed, Loaded, LoadFails
<1>2. CASE Loaded(t)
  <2> DEFINE new == [tabs[t] EXCEPT !.loading = FALSE, !.view = Snapshot]
  <2>1. new \in Tab /\ new.open
    BY <1>0, <1>1, SnapshotIs DEF Tab
  <2>2. tabs' = [tabs EXCEPT ![t] = new] /\ requests' = requests /\ UNCHANGED <<order, drawn, overlapped>>
    BY <1>0, <1>2 DEF Loaded, Typed
  <2> HIDE DEF new
  <2> QED BY <1>1, <2>1, <2>2, OpenKeeps
<1>3. CASE LoadFails(t)
  <2> DEFINE new == [tabs[t] EXCEPT !.loading = FALSE]
  <2>1. new \in Tab /\ new.open
    BY <1>0, <1>1 DEF Tab
  <2>2. tabs' = [tabs EXCEPT ![t] = new] /\ requests' = requests /\ UNCHANGED <<order, drawn, overlapped>>
    BY <1>3 DEF LoadFails
  <2> HIDE DEF new
  <2> QED BY <1>1, <2>1, <2>2, OpenKeeps
<1> QED BY <1>2, <1>3

LEMMA PressKeeps == ASSUME IInv, NEW t \in Tabs, NEW op \in Lifecycle, Press(t, op) PROVE IInv'
<1>0. Typed /\ tabs[t] \in Tab
  BY DEF IInv, Typed
<1>1. tabs[t].view.status # "none"
  BY DEF Press, Offers
<1>2. tabs[t].open
  BY <1>0, <1>1, ActsOpen
<1> DEFINE new == [tabs[t] EXCEPT !.acting = TRUE]
<1>3. new \in Tab /\ new.open
  BY <1>0, <1>2 DEF Tab
<1>4. tabs' = [tabs EXCEPT ![t] = new] /\ UNCHANGED <<order, drawn, overlapped>>
  BY DEF Press
<1>5. Free # {} /\ Sent(t, op, None)
  BY DEF Press
<1> HIDE DEF new
<1> QED BY <1>3, <1>4, <1>5, Shapes, SendKeeps DEF Lifecycle, Axes

LEMMA ToggleKeeps == ASSUME IInv, NEW t \in Tabs, NEW axis \in Axes, Toggle(t, axis) PROVE IInv'
<1>0. Typed /\ tabs[t] \in Tab
  BY DEF IInv, Typed
<1>1. tabs[t].view.status # "none"
  BY DEF Toggle, Offers
<1>2. tabs[t].open
  BY <1>0, <1>1, ActsOpen
<1> DEFINE new == [tabs[t] EXCEPT !.panel = IF @ = axis THEN "none" ELSE axis, !.busy = FALSE]
<1>3. new \in Tab /\ new.open
  BY <1>0, <1>2 DEF Tab
<1>4. tabs' = [tabs EXCEPT ![t] = new] /\ UNCHANGED <<order, drawn, overlapped>> /\ requests' = PanelGone(t)
  BY DEF Toggle
<1>5. requests' = [s \in Slots |-> requests'[s]]
  BY <1>0, <1>4, PanelLoses
<1> HIDE DEF new
<1> QED BY <1>3, <1>4, <1>5, OpenKeeps

LEMMA SubmitKeeps == ASSUME IInv, NEW t \in Tabs, NEW entered \in [Lines -> Quantities], Submit(t, entered) PROVE IInv'
<1>0. Typed /\ tabs[t] \in Tab
  BY DEF IInv, Typed
<1>1. tabs[t].open /\ tabs[t].panel \in Axes
  BY <1>0, ActsOpen DEF Submit, Tab
<1> DEFINE new == [tabs[t] EXCEPT !.busy = TRUE]
<1>2. new \in Tab /\ new.open
  BY <1>0, <1>1 DEF Tab
<1>3. tabs' = [tabs EXCEPT ![t] = new] /\ UNCHANGED <<order, drawn, overlapped>>
  BY DEF Submit
<1>4. Free # {} /\ Sent(t, tabs[t].panel, Chosen(t, entered)) /\ Chosen(t, entered) # None
  BY DEF Submit, Sendable
<1>5. Chosen(t, entered) \in LineQuantities
  BY OrderAssumption DEF Chosen, LineQuantities
<1> HIDE DEF new
<1> QED BY <1>1, <1>2, <1>3, <1>4, <1>5, SendKeeps
\* The answer to a request that is done.
LEMMA AnswerKeeps == ASSUME IInv, NEW s \in Slots, Answered(s) PROVE IInv'
<1> DEFINE r == requests[s]
           t == requests[s].tab
<1>0. Typed /\ r \in Request /\ Own(r) /\ Shown(tabs, r) /\ r.step = "done"
  BY DEF IInv, Typed, Answered
<1>1. t \in Tabs /\ tabs[t] \in Tab
  BY <1>0 DEF Own, Typed
<1>2. UNCHANGED <<order, drawn, overlapped>>
  BY DEF Answered
<1>3. CASE r.op \in {"delete", "doc"}
  <2>1. tabs' = [tabs EXCEPT ![t] = Closed] /\ requests' = [TabGone(t) EXCEPT ![s] = NoRequest]
    BY <1>3 DEF Answered
  <2>2. /\ requests' = [u \in Slots |-> requests'[u]]
        /\ \A u \in Slots : requests'[u] = NoRequest \/ requests'[u] = TabGone(t)[u]
    BY <1>0, <1>1, <2>1, TabLoses
  <2> QED BY <1>1, <1>2, <2>1, <2>2, LeaveKeeps
<1>4. CASE r.op \notin {"delete", "doc"} /\ r.of = "none"
  <2> DEFINE new == tabs[t]
  <2>1. tabs' = [tabs EXCEPT ![t] = new] /\ requests' = [requests EXCEPT ![s] = NoRequest]
    BY <1>0, <1>1, <1>4 DEF Answered, Typed
  <2>2. /\ requests' = [u \in Slots |-> requests'[u]]
        /\ \A u \in Slots : requests'[u] \in {NoRequest, requests[u], PanelGone(t)[u]}
    BY <1>0, <2>1 DEF Typed
  <2> QED BY <1>1, <1>2, <2>1, <2>2, OpenKeeps
<1>5. CASE r.op \notin {"delete", "doc"} /\ r.of # "none"
  <2> DEFINE old == tabs[t]
             new == [old EXCEPT !.acting = @ /\ r.op = "move", !.panel = "none", !.busy = FALSE, !.loading = TRUE]
  <2>1. old \in Tab /\ old.open
    BY <1>0, <1>1, <1>5 DEF Shown
  <2>2. tabs' = [tabs EXCEPT ![t] = new] /\ requests' = [PanelGone(t) EXCEPT ![s] = NoRequest]
    BY <1>5 DEF Answered
  <2> HIDE DEF old
  <2>3. new \in Tab /\ new.open
    BY <2>1 DEF Tab
  <2>4. /\ requests' = [u \in Slots |-> requests'[u]]
        /\ \A u \in Slots : requests'[u] \in {NoRequest, requests[u], PanelGone(t)[u]}
    BY <1>0, <1>1, <2>2, PanelLoses
  <2> HIDE DEF new
  <2> QED BY <1>1, <1>2, <2>2, <2>3, <2>4, OpenKeeps
<1> QED BY <1>3, <1>4, <1>5

\* A request that fails, or whose answer is lost.
LEMMA FailKeeps == ASSUME IInv, NEW s \in Slots, Fails(s) PROVE IInv'
<1> DEFINE r == requests[s]
           t == requests[s].tab
<1>0. Typed /\ r \in Request /\ Own(r) /\ Shown(tabs, r) /\ r.step # "none"
  BY DEF IInv, Typed, Fails
<1>1. t \in Tabs /\ tabs[t] \in Tab
  BY <1>0 DEF Own, Typed
<1>2. UNCHANGED <<order, drawn, overlapped>> /\ requests' = [requests EXCEPT ![s] = NoRequest]
  BY DEF Fails
<1>3. /\ requests' = [u \in Slots |-> requests'[u]]
      /\ \A u \in Slots : requests'[u] \in {NoRequest, requests[u], PanelGone(t)[u]}
  BY <1>0, <1>2 DEF Typed
<1>4. CASE r.of # "all"
  <2> DEFINE new == tabs[t]
  <2>1. tabs' = [tabs EXCEPT ![t] = new]
    BY <1>0, <1>1, <1>4 DEF Fails, Typed
  <2> QED BY <1>1, <1>2, <1>3, <2>1, OpenKeeps
<1>5. CASE r.of = "all"
  <2> DEFINE old == tabs[t]
             new == IF r.op \in Axes THEN [old EXCEPT !.busy = FALSE] ELSE [old EXCEPT !.acting = FALSE]
  <2>1. old \in Tab /\ old.open
    BY <1>0, <1>1, <1>5 DEF Shown
  <2>2. tabs' = [tabs EXCEPT ![t] = new]
    BY <1>5 DEF Fails
  <2> HIDE DEF old
  <2>3. new \in Tab /\ new.open
    BY <2>1 DEF Tab
  <2> HIDE DEF new
  <2> QED BY <1>1, <1>2, <1>3, <2>2, <2>3, OpenKeeps
<1> QED BY <1>4, <1>5
-----------------------------------------------------------------------------
(* The server. *)

\* A transaction takes a step before its commit.
LEMMA WorkStep ==
    ASSUME IInv, NEW s \in Slots, NEW q \in Request, requests' = [requests EXCEPT ![s] = q],
           UNCHANGED <<order, drawn, tabs>>, overlapped' \in BOOLEAN,
           Own(q), Shown(tabs, q),
           Runs(q) /\ q.op \in Axes => order.status \notin {"draft", "gone"},
           q.step = "written" => /\ q.op = "delete" => order.status = "draft"
                                 /\ \A u \in Slots : requests[u].step # "written",
           ~overlapped' => /\ ~overlapped
                           /\ Runs(q) => /\ Permits(q.op) /\ Fits(q)
                                         /\ \A u \in Slots \ {s} : ~Runs(requests[u])
    PROVE  IInv'
<1>1. order' = order /\ drawn' = drawn /\ tabs' = tabs
  OBVIOUS
<1>2. requests' \in [Slots -> Request] /\ requests'[s] = q /\ \A u \in Slots \ {s} : requests'[u] = requests[u]
  BY DEF IInv, Typed
<1>3. Typed'
  BY <1>1, <1>2 DEF IInv, Typed
<1>4. OneWrites'
  BY <1>1, <1>2 DEF IInv, OneWrites
<1>5. Fulfilled' = Fulfilled /\ OnlyOrdered' = OnlyOrdered
  BY <1>1 DEF Fulfilled, OnlyOrdered
<1>6. Undrawn'
  <2>1. ASSUME order.status \in {"draft", "gone"} PROVE ~Fulfilled /\ \A u \in Slots : Runs(requests'[u]) => requests'[u].op \notin Axes
    BY <1>2, <2>1 DEF IInv, Undrawn
  <2> QED BY <1>1, <1>5, <2>1 DEF Undrawn
<1>7. ASSUME ~overlapped' PROVE Alone'
  <2>1. Alone
    BY <1>7 DEF IInv
  <2>2. ASSUME NEW u \in Slots, Runs(requests'[u])
        PROVE  Permits(requests'[u].op) /\ Fits(requests'[u]) /\ \A v \in Slots \ {u} : ~Runs(requests'[v])
    <3>1. CASE u = s
      BY <1>2, <1>7, <2>2, <3>1
    <3>2. CASE u # s
      <4>1. Runs(requests[u])
        BY <1>2, <2>2, <3>2
      <4>2. ~Runs(q)
        BY <1>7, <3>2, <4>1
      <4> QED BY <1>2, <2>1, <3>2, <4>1, <4>2 DEF Alone
    <3> QED BY <3>1, <3>2
  <2>3. ASSUME NEW u \in Slots, Runs(requests'[u]) PROVE (Permits(requests[u].op) /\ Fits(requests[u]))'
    <3>1. requests'[u].op \in Lifecycle \cup Axes
      BY <1>3, <2>3 DEF Typed, Own, Runs
    <3>2. Permits(requests[u].op)'
      BY <1>1, <1>5, <2>2, <2>3, <3>1 DEF Permits, Lifecycle, Axes
    <3>3. Fits(requests[u])'
      BY <1>1, <2>2, <2>3 DEF Fits
    <3> QED BY <3>2, <3>3
  <2> QED BY <1>1, <1>5, <2>1, <2>2, <2>3 DEF Alone
<1> QED BY <1>3, <1>4, <1>6, <1>7 DEF IInv

\* A request that takes a step, one that has drawn, and one that is done.
Stepped(r, step) == [r EXCEPT !.step = step]
Drew(r, rows) == [r EXCEPT !.step = "drawn", !.rows = rows]
Ended(r) == [r EXCEPT !.step = "done", !.ask = None, !.rows = None]

LEMMA DrewIs ==
    ASSUME Typed, NEW s \in Slots, NEW rows \in LineQuantities, NEW q, q = Drew(requests[s], rows),
           requests[s].step \notin {"none", "done"}
    PROVE  /\ q \in Request /\ q.step = "drawn" /\ q.rows = rows /\ q.op = requests[s].op /\ q.ask = requests[s].ask
           /\ q.op \in Lifecycle \cup Axes /\ q.tab \in Tabs /\ Shown(tabs, q) /\ Runs(q)
<1> DEFINE r == requests[s]
<1>1. r \in Request /\ Own(r) /\ Shown(tabs, r) /\ q = [r EXCEPT !.step = "drawn", !.rows = rows]
  BY DEF Typed, Drew
<1> HIDE DEF r
<1>2. q \in Request /\ q.step = "drawn" /\ q.rows = rows /\ q.op = r.op /\ q.ask = r.ask /\ q.tab = r.tab /\ q.of = r.of
  BY <1>1 DEF Request
<1>3. r.step \notin {"none", "done"}
  BY DEF r
<1> QED BY <1>1, <1>2, <1>3 DEF Own, Shown, Runs, r
\* The step alone changes: the draw stays what it was.
LEMMA NextStep ==
    ASSUME Typed, NEW s \in Slots, NEW step \in {"begun", "drawn", "checked", "written"},
           NEW q, q = Stepped(requests[s], step), requests[s].step \notin {"none", "done"}
    PROVE  /\ q \in Request /\ q.step = step /\ q.rows = requests[s].rows /\ q.op = requests[s].op
           /\ q.ask = requests[s].ask /\ q.op \in Lifecycle \cup Axes /\ q.tab \in Tabs
           /\ Shown(tabs, q) /\ Runs(q) /\ Own(requests[s])
           /\ requests[s].step = "sent" \/ Runs(requests[s])
<1> DEFINE r == requests[s]
<1>1. r \in Request /\ Own(r) /\ Shown(tabs, r) /\ q = [r EXCEPT !.step = step]
  BY DEF Typed, Stepped
<1>2. r.step \notin {"none", "done"}
  OBVIOUS
<1> HIDE DEF r
<1>3. q \in Request /\ q.step = step /\ q.rows = r.rows /\ q.op = r.op /\ q.ask = r.ask /\ q.tab = r.tab /\ q.of = r.of
  BY <1>1 DEF Request
<1>4. r.step = "sent" \/ Runs(r)
  BY <1>1, <1>2 DEF Request, Runs
<1> QED BY <1>1, <1>2, <1>3, <1>4 DEF Own, Shown, Runs, r

LEMMA BeginKeeps == ASSUME IInv, NEW s \in Slots, Begin(s) PROVE IInv'
<1> DEFINE q == Stepped(requests[s], "begun")
<1>1. Typed /\ requests[s].step = "sent" /\ Permits(requests[s].op)
  BY DEF IInv, Begin
<1>2. /\ q \in Request /\ q.step = "begun" /\ q.rows = requests[s].rows /\ q.op = requests[s].op
      /\ q.ask = requests[s].ask /\ q.op \in Lifecycle \cup Axes /\ q.tab \in Tabs
      /\ Shown(tabs, q) /\ Runs(q) /\ Own(requests[s])
  BY <1>1, NextStep
<1>3. requests' = [requests EXCEPT ![s] = q] /\ UNCHANGED <<order, drawn, tabs>>
      /\ overlapped' = (overlapped \/ Running # {})
  BY DEF Begin, Stepped
<1> HIDE DEF q
<1>4. Own(q)
  BY <1>1, <1>2 DEF Own
<1>5. q.op \in Axes => order.status = "open"
  BY <1>1, <1>2 DEF Permits, Axes
<1>6. Fits(q)
  BY <1>2 DEF Fits
<1>7. ~overlapped' => ~overlapped /\ \A u \in Slots : ~Runs(requests[u])
  BY <1>1, <1>3 DEF Running, Runs
<1>8. overlapped' \in BOOLEAN
  BY <1>3
<1>9. Permits(q.op)
  BY <1>1, <1>2
<1> QED BY <1>2, <1>3, <1>4, <1>5, <1>6, <1>7, <1>8, <1>9, WorkStep

\* A request that runs alone still may, and one that draws is from an open order.
LEMMA RunsOn ==
    ASSUME IInv, NEW s \in Slots, Runs(requests[s])
    PROVE  /\ requests[s].op \in Axes => order.status \notin {"draft", "gone"}
           /\ ~overlapped => /\ Permits(requests[s].op) /\ Fits(requests[s]) /\ OnlyOrdered
                             /\ \A u \in Slots \ {s} : ~Runs(requests[u])
BY DEF IInv, Undrawn, Alone

LEMMA DrawKeeps == ASSUME IInv, NEW s \in Slots, Draw(s) PROVE IInv'
<1> DEFINE r == requests[s]
           rows == Picked(r.op, r.ask)
           q == Drew(requests[s], rows)
<1>1. Typed /\ r.step = "begun" /\ r.op \in Axes /\ r \in Request /\ Own(r) /\ Runs(r)
  BY DEF IInv, Draw, Typed, Runs
<1>2. r.ask \in LineQuantities /\ r.ask # None
  BY <1>1 DEF Request, Own
<1>3. order \in [status : Statuses, ordered : LineQuantities] /\ drawn \in [Axes -> LineQuantities]
  BY <1>1 DEF Typed
<1>4. rows \in LineQuantities /\ \A l \in Lines : rows[l] <= r.ask[l] /\ rows[l] <= LeftOn(r.op, l)
  BY <1>1, <1>2, <1>3, PickedIs
<1>5. requests' = [requests EXCEPT ![s] = q] /\ UNCHANGED <<order, drawn, tabs>> /\ overlapped' = overlapped
  BY DEF Draw, Drew
<1> HIDE DEF rows
<1>6. /\ q \in Request /\ q.step = "drawn" /\ q.rows = rows /\ q.op = r.op /\ q.ask = r.ask
      /\ q.op \in Lifecycle \cup Axes /\ q.tab \in Tabs /\ Shown(tabs, q) /\ Runs(q)
  BY <1>1, <1>4, DrewIs
<1> HIDE DEF q
<1>7. Own(q)
  BY <1>1, <1>4, <1>6 DEF Own
<1>8. ASSUME OnlyOrdered PROVE Fits(q)
  <2>1. ASSUME NEW l \in Lines PROVE drawn[q.op][l] + rows[l] <= order.ordered[l]
    <3>1. /\ LeftOn(r.op, l) \in Nat /\ order.ordered[l] \in Nat /\ drawn[r.op][l] \in Nat
          /\ drawn[r.op][l] + LeftOn(r.op, l) <= order.ordered[l]
      BY <1>1, <1>3, <1>8, LeftIs DEF OnlyOrdered
    <3>2. rows[l] \in Nat /\ rows[l] <= LeftOn(r.op, l)
      BY <1>4 DEF LineQuantities
    <3> QED BY <1>6, <3>1, <3>2
  <2> QED BY <1>6, <2>1 DEF Fits
<1>9. /\ r.op \in Axes => order.status \notin {"draft", "gone"}
      /\ ~overlapped => Permits(r.op) /\ OnlyOrdered /\ \A u \in Slots \ {s} : ~Runs(requests[u])
  BY <1>1, RunsOn
<1>10. overlapped' \in BOOLEAN
  BY <1>1, <1>5 DEF Typed
<1> QED BY <1>5, <1>6, <1>7, <1>8, <1>9, <1>10, WorkStep

LEMMA CheckKeeps == ASSUME IInv, NEW s \in Slots, Check(s) PROVE IInv'
<1> DEFINE q == Stepped(requests[s], "checked")
<1>1. Typed /\ requests[s].step = "drawn" /\ Runs(requests[s])
  BY DEF IInv, Check, Runs
<1>2. /\ q \in Request /\ q.step = "checked" /\ q.rows = requests[s].rows /\ q.op = requests[s].op
      /\ q.ask = requests[s].ask /\ q.op \in Lifecycle \cup Axes /\ q.tab \in Tabs
      /\ Shown(tabs, q) /\ Runs(q) /\ Own(requests[s])
  BY <1>1, NextStep
<1>3. requests' = [requests EXCEPT ![s] = q] /\ UNCHANGED <<order, drawn, tabs>> /\ overlapped' = overlapped
  BY DEF Check, Stepped
<1> HIDE DEF q
<1>4. Own(q)
  BY <1>1, <1>2 DEF Own
<1>5. Fits(requests[s]) => Fits(q)
  BY <1>1, <1>2 DEF Fits
<1>6. /\ q.op \in Axes => order.status \notin {"draft", "gone"}
      /\ ~overlapped => Permits(q.op) /\ Fits(q) /\ \A u \in Slots \ {s} : ~Runs(requests[u])
  BY <1>1, <1>2, <1>5, RunsOn
<1>7. overlapped' \in BOOLEAN
  BY <1>1, <1>3 DEF Typed
<1> QED BY <1>2, <1>3, <1>4, <1>6, <1>7, WorkStep

LEMMA WriteKeeps == ASSUME IInv, NEW s \in Slots, Write(s) PROVE IInv'
<1> DEFINE q == Stepped(requests[s], "written")
<1>1. Typed /\ requests[s].step = "begun" /\ requests[s].op \in Lifecycle /\ Runs(requests[s])
  BY DEF IInv, Write, Runs
<1>2. /\ q \in Request /\ q.step = "written" /\ q.rows = requests[s].rows /\ q.op = requests[s].op
      /\ q.ask = requests[s].ask /\ q.op \in Lifecycle \cup Axes /\ q.tab \in Tabs
      /\ Shown(tabs, q) /\ Runs(q) /\ Own(requests[s])
  BY <1>1, NextStep
<1>3. requests' = [requests EXCEPT ![s] = q] /\ UNCHANGED <<order, drawn, tabs>> /\ overlapped' = overlapped
  BY DEF Write, Stepped
<1>4. requests[s].op = "delete" => order.status = "draft"
  BY DEF Write, Deletable
<1>5. \A u \in Slots : requests[u].step # "written"
  BY DEF Write, Locked
<1> HIDE DEF q
<1>6. Own(q)
  BY <1>1, <1>2 DEF Own, Lifecycle, Axes
<1>7. Fits(q)
  BY <1>2 DEF Fits
<1>8. /\ q.op \in Axes => order.status \notin {"draft", "gone"}
      /\ ~overlapped => Permits(q.op) /\ \A u \in Slots \ {s} : ~Runs(requests[u])
  BY <1>1, <1>2, RunsOn
<1>9. overlapped' \in BOOLEAN
  BY <1>1, <1>3 DEF Typed
<1> QED BY <1>2, <1>3, <1>4, <1>5, <1>6, <1>7, <1>8, <1>9, WorkStep

\* A transaction commits.
LEMMA DoneIs ==
    ASSUME Typed, NEW s \in Slots, Runs(requests[s]), NEW q,
           q = Ended(requests[s])
    PROVE  q \in Request /\ Own(q) /\ Shown(tabs, q) /\ ~Runs(q)
<1> DEFINE r == requests[s]
<1>1. r \in Request /\ Own(r) /\ Shown(tabs, r) /\ q = [r EXCEPT !.step = "done", !.ask = None, !.rows = None]
      /\ Runs(r)
  BY DEF Typed, Ended
<1> HIDE DEF r
<1> DEFINE n == None
<1>2. n \in LineQuantities /\ (\A l \in Lines : n[l] = 0) /\ n = None
  BY Shapes
<1> HIDE DEF n
<1>3. q \in Request /\ q.step = "done" /\ q.rows = n /\ q.op = r.op /\ q.ask = n /\ q.tab = r.tab /\ q.of = r.of
  BY <1>1, <1>2 DEF Request
<1>4. \A l \in Lines : q.rows[l] <= q.ask[l]
  BY <1>2, <1>3
<1>5. r.op \in Lifecycle \cup Axes /\ r.tab \in Tabs
  BY <1>1 DEF Own, Runs
<1> QED BY <1>1, <1>2, <1>3, <1>4, <1>5 DEF Own, Shown, Runs

LEMMA CommitKeeps == ASSUME IInv, NEW s \in Slots, Commit(s) PROVE IInv'
<1> DEFINE r == requests[s]
           q == Ended(requests[s])
<1>1. Typed /\ r \in Request /\ Own(r) /\ Runs(r) /\ r.op \in Lifecycle \cup Axes
  BY DEF IInv, Typed, Commit, Runs, Own
<1>2. requests' = [requests EXCEPT ![s] = q] /\ tabs' = tabs /\ overlapped' = overlapped
  BY DEF Commit, Ended
<1>3. q \in Request /\ Own(q) /\ Shown(tabs, q) /\ ~Runs(q)
  BY <1>1, DoneIs
<1> HIDE DEF q
<1>4. requests' \in [Slots -> Request] /\ requests'[s] = q /\ \A u \in Slots \ {s} : requests'[u] = requests[u]
  BY <1>1, <1>2, <1>3 DEF Typed
<1>5. order \in [status : Statuses, ordered : LineQuantities] /\ drawn \in [Axes -> LineQuantities]
  BY <1>1 DEF Typed
<1>6. ASSUME NEW o \in [status : Statuses, ordered : LineQuantities], order' = o,
             NEW d \in [Axes -> LineQuantities], drawn' = d
      PROVE  Typed'
  BY <1>1, <1>2, <1>3, <1>4, <1>6 DEF Typed
<1>7. /\ r.op \in Axes => order.status \notin {"draft", "gone"}
      /\ ~overlapped => /\ Permits(r.op) /\ Fits(r) /\ OnlyOrdered
                        /\ \A u \in Slots \ {s} : ~Runs(requests[u])
  BY <1>1, RunsOn
<1>8. ~overlapped' => ~overlapped /\ \A u \in Slots : ~Runs(requests'[u])
  BY <1>2, <1>3, <1>4, <1>7
<1>9. CASE r.step = "written"
  <2> DEFINE after == IF order.status = "gone" THEN "gone" ELSE Becomes(r.op)
  <2>1. r.op \in Lifecycle
    BY <1>1, <1>9 DEF Own
  <2>2. order' = [order EXCEPT !.status = after] /\ drawn' = drawn
    BY <1>9 DEF Commit
  <2>3. /\ after \in Statuses /\ after # "draft"
        /\ after = "gone" => order.status = "gone" \/ r.op = "delete"
        /\ after = "cancelled" => r.op = "cancel"
    BY <1>5, <2>1 DEF Becomes, Lifecycle, Statuses
  <2> HIDE DEF after
  <2>4. order' \in [status : Statuses, ordered : LineQuantities] /\ order'.ordered = order.ordered /\ order'.status = after
    BY <1>5, <2>2, <2>3
  <2>5. Typed'
    BY <1>5, <1>6, <2>2, <2>4
  <2>6. OneWrites'
    <3>1. \A u \in Slots : requests'[u].step # "written"
      BY <1>3, <1>4, <1>9 DEF IInv, OneWrites, Runs
    <3> QED BY <3>1 DEF OneWrites
  <2>7. Fulfilled' = Fulfilled /\ OnlyOrdered' = OnlyOrdered
    BY <2>2, <2>4 DEF Fulfilled, OnlyOrdered
  <2>8. Undrawn'
    <3>1. ASSUME after \in {"draft", "gone"} PROVE order.status \in {"draft", "gone"}
      BY <1>9, <2>3, <3>1 DEF IInv, OneWrites
    <3>2. ASSUME after \in {"draft", "gone"}
          PROVE  ~Fulfilled /\ \A u \in Slots : Runs(requests'[u]) => requests'[u].op \notin Axes
      BY <1>3, <1>4, <3>1, <3>2 DEF IInv, Undrawn
    <3> QED BY <2>4, <2>7, <3>2 DEF Undrawn
  <2>9. ASSUME ~overlapped' PROVE Alone'
    <3>1. after = "cancelled" => ~Fulfilled
      BY <1>7, <1>8, <2>3, <2>9 DEF Permits, IInv, Undrawn
    <3> QED BY <1>7, <1>8, <2>4, <2>7, <2>9, <3>1 DEF Alone
  <2> QED BY <2>5, <2>6, <2>8, <2>9 DEF IInv
<1>10. CASE r.step = "checked"
  <2>1. r.op \in Axes /\ r.rows \in LineQuantities
    BY <1>1, <1>10 DEF Own, Request
  <2>2. order' = order /\ drawn' = [drawn EXCEPT ![r.op] = [l \in Lines |-> drawn[r.op][l] + r.rows[l]]]
    BY <1>10 DEF Commit
  <2>3. \A axis \in Axes, l \in Lines : drawn[axis][l] \in Nat /\ r.rows[l] \in Nat
    BY <1>5, <2>1 DEF LineQuantities
  <2>4. drawn' \in [Axes -> LineQuantities]
    BY <1>5, <2>1, <2>2, <2>3 DEF LineQuantities
  <2>5. \A axis \in Axes, l \in Lines :
          drawn'[axis][l] = IF axis = r.op THEN drawn[axis][l] + r.rows[l] ELSE drawn[axis][l]
    BY <1>5, <2>1, <2>2
  <2>6. Typed'
    BY <1>5, <1>6, <2>2, <2>4
  <2>7. OneWrites'
    BY <1>3, <1>4, <2>2 DEF IInv, OneWrites, Runs
  <2>8. Undrawn'
    BY <1>7, <2>1, <2>2 DEF Undrawn
  <2>9. ASSUME ~overlapped' PROVE Alone'
    <3>1. OnlyOrdered'
      BY <1>7, <1>8, <1>10, <2>2, <2>5, <2>9 DEF OnlyOrdered, Fits
    <3>2. order.status = "open"
      BY <1>7, <1>8, <2>1, <2>9 DEF Permits, Axes
    <3> QED BY <1>8, <2>2, <2>9, <3>1, <3>2 DEF Alone
  <2> QED BY <2>6, <2>7, <2>8, <2>9 DEF IInv
<1> QED BY <1>9, <1>10 DEF Commit
-----------------------------------------------------------------------------
(* The order's form and the documents' own screens. *)

LEMMA EditKeeps ==
    ASSUME IInv, NEW l \in Lines, NEW q \in Quantities, Edit(l, q) PROVE IInv'
<1>1. /\ Typed /\ Undrawn /\ order.status = "draft"
      /\ drawn' = drawn /\ tabs' = tabs /\ requests' = requests /\ overlapped' = overlapped
      /\ order' = [order EXCEPT !.ordered[l] = q]
  BY DEF IInv, Edit
<1>2. order \in [status : Statuses, ordered : LineQuantities] /\ drawn \in [Axes -> LineQuantities] /\ q \in Nat
  BY <1>1, OrderAssumption DEF Typed
<1>3. order' \in [status : Statuses, ordered : LineQuantities] /\ order'.status = order.status
  BY <1>1, <1>2 DEF LineQuantities
<1>4. Typed'
  BY <1>1, <1>3 DEF Typed
<1>5. OneWrites'
  BY <1>1, <1>3 DEF IInv, OneWrites
<1>6. Fulfilled' = Fulfilled
  BY <1>1 DEF Fulfilled
<1>7. Undrawn'
  BY <1>1, <1>3, <1>6 DEF Undrawn
<1>8. ~Fulfilled /\ \A s \in Slots : Runs(requests[s]) => requests[s].op \notin Axes
  BY <1>1 DEF Undrawn
<1>9. ASSUME ~overlapped' PROVE Alone'
  <2>1. Alone
    BY <1>1, <1>9 DEF IInv
  <2>2. \A axis \in Axes, k \in Lines : drawn[axis][k] \in Nat /\ order'.ordered[k] \in Nat
    BY <1>2, <1>3 DEF LineQuantities
  <2>3. OnlyOrdered'
    BY <1>1, <1>8, <2>2 DEF OnlyOrdered, Fulfilled
  <2>4. ASSUME NEW s \in Slots, Runs(requests[s])
        PROVE  /\ Permits(requests[s].op)' /\ Fits(requests[s])'
               /\ \A u \in Slots \ {s} : ~Runs(requests[u])
    <3>1. Own(requests[s])
      BY <1>1 DEF Typed
    <3>2. requests[s].op \in Lifecycle /\ Permits(requests[s].op)
      BY <1>8, <2>1, <2>4, <3>1 DEF Own, Runs, Alone
    <3>3. Permits(requests[s].op)'
      BY <1>1, <1>3, <1>6, <3>2 DEF Permits, Lifecycle
    <3>4. Fits(requests[s])'
      BY <1>1, <1>8, <2>4, <3>1 DEF Own, Fits
    <3> QED BY <2>1, <2>4, <3>3, <3>4 DEF Alone
  <2> QED BY <1>1, <1>3, <1>6, <2>1, <2>3, <2>4 DEF Alone
<1> QED BY <1>4, <1>5, <1>7, <1>9 DEF IInv

LEMMA DeleteKeeps ==
    ASSUME IInv, NEW axis \in Axes, NEW l \in Lines, NEW q \in Quantities, DeleteDraft(axis, l, q) PROVE IInv'
<1>1. /\ Typed /\ q \in 1..drawn[axis][l]
      /\ order' = order /\ tabs' = tabs /\ requests' = requests /\ overlapped' = overlapped
      /\ drawn' = [drawn EXCEPT ![axis][l] = @ - q]
  BY DEF IInv, DeleteDraft
<1>2. drawn \in [Axes -> LineQuantities] /\ q \in Nat
  BY <1>1, OrderAssumption DEF Typed
<1>3. \A a \in Axes, k \in Lines : drawn[a][k] \in Nat
  BY <1>2 DEF LineQuantities
<1>4. \A a \in Axes, k \in Lines :
        drawn'[a][k] = IF a = axis /\ k = l THEN drawn[a][k] - q ELSE drawn[a][k]
  BY <1>1, <1>2 DEF LineQuantities
<1>5. drawn' \in [Axes -> LineQuantities]
  <2>1. drawn[axis][l] - q \in Nat
    BY <1>1, <1>2, <1>3
  <2> QED BY <1>1, <1>2, <2>1 DEF LineQuantities
<1>6. \A a \in Axes, k \in Lines : drawn'[a][k] \in Nat /\ drawn'[a][k] <= drawn[a][k]
  BY <1>1, <1>2, <1>3, <1>4
<1>7. Typed'
  BY <1>1, <1>5 DEF Typed
<1>8. OneWrites'
  BY <1>1 DEF IInv, OneWrites
<1>9. Fulfilled' => Fulfilled
  BY <1>3, <1>6 DEF Fulfilled
<1>10. Undrawn'
  BY <1>1, <1>9 DEF IInv, Undrawn
<1>11. ASSUME ~overlapped' PROVE Alone'
  <2>1. Alone
    BY <1>1, <1>11 DEF IInv
  <2>2. \A k \in Lines : order.ordered[k] \in Nat
    BY <1>1 DEF Typed, LineQuantities
  <2>3. OnlyOrdered'
    BY <1>1, <1>3, <1>6, <2>1, <2>2 DEF OnlyOrdered, Alone
  <2>4. ASSUME NEW s \in Slots, Runs(requests[s])
        PROVE  /\ Permits(requests[s].op)' /\ Fits(requests[s])'
               /\ \A u \in Slots \ {s} : ~Runs(requests[u])
    <3>1. Own(requests[s]) /\ requests[s] \in Request
      BY <1>1 DEF Typed
    <3>2. requests[s].op \in Lifecycle \cup Axes /\ Permits(requests[s].op) /\ Fits(requests[s])
      BY <2>1, <2>4, <3>1 DEF Own, Runs, Alone
    <3>3. Permits(requests[s].op)'
      BY <1>1, <1>9, <3>2 DEF Permits, Lifecycle, Axes
    <3>4. Fits(requests[s])'
      <4>1. ASSUME requests[s].step \in {"drawn", "checked"}, NEW k \in Lines
            PROVE  drawn'[requests[s].op][k] + requests[s].rows[k] <= order.ordered[k]
        <5>1. requests[s].op \in Axes /\ requests[s].rows[k] \in Nat
          BY <3>1, <4>1 DEF Own, Request, LineQuantities
        <5>2. drawn[requests[s].op][k] + requests[s].rows[k] <= order.ordered[k]
          BY <3>2, <4>1 DEF Fits
        <5> QED BY <1>3, <1>6, <2>2, <5>1, <5>2
      <4> QED BY <1>1, <4>1 DEF Fits
    <3> QED BY <2>1, <2>4, <3>3, <3>4 DEF Alone
  <2> QED BY <1>1, <1>9, <2>1, <2>3, <2>4 DEF Alone
<1> QED BY <1>7, <1>8, <1>10, <1>11 DEF IInv

-----------------------------------------------------------------------------
(* The invariant, and what follows from it. *)

LEMMA InitIInv == ASSUME Init PROVE IInv
<1>1. /\ order.status = "draft" /\ order.ordered \in LineQuantities
      /\ order \in [status : Statuses, ordered : LineQuantities]
  BY LargestQuantity DEF Init, Statuses, LineQuantities
<1>2. drawn = [axis \in Axes |-> None] /\ tabs = [t \in Tabs |-> Closed] /\ overlapped = FALSE
      /\ requests = [s \in Slots |-> NoRequest]
  BY DEF Init
<1>3. drawn \in [Axes -> LineQuantities] /\ \A axis \in Axes, l \in Lines : drawn[axis][l] = 0
  BY <1>2, Shapes
<1>4. \A s \in Slots : requests[s] \in Request /\ Own(requests[s]) /\ Shown(tabs, requests[s])
                       /\ ~Runs(requests[s]) /\ requests[s].step # "written"
  BY <1>2, Shapes, NoRequestOwn DEF Shown
<1>5. Typed
  BY <1>1, <1>2, <1>3, <1>4, Shapes DEF Typed
<1>6. ~Fulfilled
  BY <1>3 DEF Fulfilled
<1>7. OnlyOrdered
  BY <1>1, <1>3 DEF OnlyOrdered, LineQuantities
<1> QED BY <1>1, <1>4, <1>5, <1>6, <1>7 DEF IInv, OneWrites, Undrawn, Alone

LEMMA NextIInv == ASSUME IInv, [Next]_vars PROVE IInv'
<1>1. ASSUME NEW t \in Tabs, Screen(t) PROVE IInv'
  <2>1. CASE Visit(t)
    BY <1>1, <2>1, VisitKeeps
  <2>2. CASE Leave(t)
    <3>1. tabs' = [tabs EXCEPT ![t] = Closed] /\ requests' = TabGone(t) /\ UNCHANGED <<order, drawn, overlapped>>
      BY <2>2 DEF Leave
    <3>2. /\ requests' = [s \in Slots |-> requests'[s]]
          /\ \A s \in Slots : requests'[s] = NoRequest \/ requests'[s] = TabGone(t)[s]
      BY <3>1, TabLoses DEF IInv
    <3> QED BY <3>1, <3>2, LeaveKeeps
  <2>3. CASE Loaded(t) \/ LoadFails(t)
    BY <1>1, <2>3, LoadKeeps
  <2>4. CASE \E op \in Lifecycle : Press(t, op)
    BY <1>1, <2>4, PressKeeps
  <2>5. CASE \E axis \in Axes : Toggle(t, axis)
    BY <1>1, <2>5, ToggleKeeps
  <2>6. CASE \E entered \in [Lines -> Quantities] : Submit(t, entered)
    BY <1>1, <2>6, SubmitKeeps
  <2> QED BY <1>1, <2>1, <2>2, <2>3, <2>4, <2>5, <2>6 DEF Screen
<1>2. ASSUME NEW s \in Slots, Serve(s) PROVE IInv'
  BY <1>2, BeginKeeps, DrawKeeps, CheckKeeps, WriteKeeps, CommitKeeps, AnswerKeeps, FailKeeps DEF Serve
<1>3. CASE UNCHANGED vars
  <2>1. order' = order /\ drawn' = drawn /\ tabs' = tabs /\ requests' = requests /\ overlapped' = overlapped
    BY <1>3 DEF vars
  <2>2. /\ tabs' \in [Tabs -> Tab] /\ \A t \in Tabs : ~tabs'[t].open => tabs'[t] = Closed
        /\ requests' = [s \in Slots |-> requests'[s]]
        /\ \A s \in Slots : Follows(requests'[s], requests[s]) /\ Shown(tabs', requests'[s])
    BY <2>1 DEF IInv, Typed, Follows, SameWork
  <2> QED BY <2>1, <2>2, ScreenStep
<1> QED BY <1>1, <1>2, <1>3, EditKeeps, DeleteKeeps DEF Next

\* The inductive invariant: one transaction at most has written the order's row,
\* nothing is drawn from a draft, and a request that runs alone still finds what
\* permitted it and draws within what was ordered.
THEOREM Invariance == Spec => []IInv
<1>1. Init => IInv
  BY InitIInv
<1>2. IInv /\ [Next]_vars => IInv'
  BY NextIInv
<1> QED BY <1>1, <1>2, PTL DEF Spec

\* The row, the linked documents, the screens and the transactions have their
\* shapes, and a screen that is left waits for nothing.
THEOREM TypeCorrect == Spec => []TypeOK
<1>1. IInv => TypeOK
  BY DEF IInv, Typed, TypeOK, Tab, View, Request
<1> QED BY <1>1, Invariance, PTL

\* Draft orders, and those deleted as drafts, have nothing linked to them and
\* nothing being drawn, however requests overlap.
THEOREM DraftsUndrawn == Spec => []DraftUndrawn
<1>1. IInv => DraftUndrawn
  BY DEF IInv, Undrawn, DraftUndrawn, Running, Runs
<1> QED BY <1>1, Invariance, PTL

\* A draw holds no more of a line than its user asked for, however stale the
\* panel was.
THEOREM AskedOnly == Spec => []NeverMoreThanAsked
<1>1. IInv => NeverMoreThanAsked
  BY DEF IInv, Typed, Own, NeverMoreThanAsked
<1> QED BY <1>1, Invariance, PTL

\* As long as requests come one after the other, neither axis of a line exceeds
\* what was ordered.
THEOREM WithinOrdered == Spec => []NeverOverDrawn
<1>1. IInv => NeverOverDrawn
  BY DEF IInv, Alone, NeverOverDrawn
<1> QED BY <1>1, Invariance, PTL

\* Under the same condition nothing has been drawn from a cancelled order.
THEOREM CancelledEmpty == Spec => []CancelledUndrawn
<1>1. IInv => CancelledUndrawn
  BY DEF IInv, Alone, CancelledUndrawn
<1> QED BY <1>1, Invariance, PTL

\* Under the same condition a status is left only for those the lifecycle leads to.
THEOREM OnlyForward == Spec => StatusForward
<1> DEFINE Forward == ~overlapped' /\ order'.status # order.status => <<order.status, order'.status>> \in Leads
<1>1. ASSUME IInv, NEW s \in Slots, Commit(s), requests[s].step = "written", ~overlapped',
             order'.status # order.status
      PROVE  <<order.status, order'.status>> \in Leads
  <2> DEFINE r == requests[s]
  <2>1. Typed /\ Runs(r) /\ Own(r) /\ r.op \in Lifecycle /\ overlapped' = overlapped
    BY <1>1 DEF IInv, Typed, Runs, Own, Commit
  <2>2. Permits(r.op)
    BY <1>1, <2>1, RunsOn
  <2>3. order'.status = IF order.status = "gone" THEN "gone" ELSE Becomes(r.op)
    BY <1>1, <2>1 DEF Commit, Typed
  <2> QED BY <1>1, <2>1, <2>2, <2>3 DEF Permits, Becomes, Lifecycle, Leads
<1>2. ASSUME IInv, [Next]_vars, ~overlapped', order'.status # order.status
      PROVE  <<order.status, order'.status>> \in Leads
  <2>1. CASE order' = order
    BY <1>2, <2>1
  <2>2. CASE \E s \in Slots : Commit(s) /\ requests[s].step = "written"
    BY <1>1, <1>2, <2>2
  <2>3. CASE \E l \in Lines, q \in Quantities : Edit(l, q)
    BY <1>2, <2>3 DEF Edit, IInv, Typed
  <2> QED BY <1>2, <2>1, <2>2, <2>3 DEF vars, Next, Screen, Serve, Visit, Leave, Loaded, LoadFails, Press,
        Toggle, Submit, Begin, Draw, Check, Write, Commit, Answered, Fails, DeleteDraft
<1>3. IInv /\ [Next]_vars => [Forward]_vars
  BY <1>2
<1> QED BY <1>3, Invariance, PTL DEF Spec, StatusForward

=============================================================================
