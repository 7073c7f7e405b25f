--------------------------- MODULE OrderFulfilment ---------------------------
(***************************************************************************)
(* One order, sales or purchase, the documents and stock movements drawn   *)
(* from it, and the detail screens of the users that act on it.            *)
(*                                                                         *)
(* Orders have two axes: a document draws quantities of the lines to be    *)
(* invoiced or billed, stock movements those to be shipped or received.    *)
(* What is left of a line is never stored: it is what was ordered less     *)
(* what the documents of that axis hold, posted or not, so that deleting   *)
(* a draft gives its quantities back.                                      *)
(*                                                                         *)
(* A request is one transaction under READ COMMITTED: every statement sees *)
(* what had been committed when it began, the triggers at the end see that *)
(* and the transaction's own rows, and a row that was updated stays locked *)
(* until the end.  A screen acts on what it last loaded.                   *)
(***************************************************************************)
EXTENDS Integers, FiniteSets, FiniteSetsExt

CONSTANTS
    Lines,         \* lines of the order
    Stocked,       \* those whose product is an active, tracked one
    Quantities,    \* quantities a user may order, or enter in a panel
    Tabs,          \* open detail screens
    MaxRequests    \* bound on the requests in flight

ASSUME OrderAssumption ==
    /\ Stocked \subseteq Lines /\ IsFiniteSet(Lines)
    /\ Quantities \subseteq Nat /\ 0 \in Quantities /\ IsFiniteSet(Quantities)
    /\ MaxRequests \in Nat

VARIABLES
    order,         \* the row: its status, and the quantities ordered
    drawn,         \* per axis and line, the sum over the documents linked to it
    tabs,          \* what the screens hold
    requests,      \* requests and their transactions
    overlapped     \* have two transactions ever been open at once?

vars == <<order, drawn, tabs, requests, overlapped>>

Axes == {"doc", "move"}
Lifecycle == {"confirm", "close", "cancel", "delete"}
Slots == 1..MaxRequests
None == [l \in Lines |-> 0]

-----------------------------------------------------------------------------
(* Derived quantities: the fulfilment views. *)

\* qty_to_invoice, qty_to_ship: services are invoiced, never shipped.
LeftOn(axis, l) ==
    IF axis = "move" /\ l \notin Stocked THEN 0 ELSE Max({order.ordered[l] - drawn[axis][l], 0})

Fulfilled == \E axis \in Axes, l \in Lines : drawn[axis][l] > 0

-----------------------------------------------------------------------------
(* Screens. *)

\* The header's status, and the lines with something left on each axis.
Snapshot == [status |-> order.status, left |-> [axis \in Axes |-> {l \in Lines : LeftOn(axis, l) > 0}]]
NoView == [status |-> "none", left |-> [axis \in Axes |-> {}]]

Closed == [open |-> FALSE, loading |-> FALSE, view |-> NoView, acting |-> FALSE,
           panel |-> "none", busy |-> FALSE]
NoRequest == [tab |-> "none", op |-> "none", ask |-> None, rows |-> None,
              step |-> "none", of |-> "none"]

Free == {s \in Slots : requests[s] = NoRequest}

Sent(t, op, ask) ==
    requests' = [requests EXCEPT ![CHOOSE s \in Free : \A u \in Free : s <= u] =
        [NoRequest EXCEPT !.tab = t, !.op = op, !.ask = ask, !.step = "sent", !.of = "all"]]

\* A panel that is closed takes its component with it, and the screen that is
\* left takes everything: "of" is what is still there of what sent a request.
PanelGone(t) ==
    [s \in Slots |-> IF requests[s].tab = t /\ requests[s].op \in Axes /\ requests[s].of = "all"
                     THEN [requests[s] EXCEPT !.of = "tab"] ELSE requests[s]]
\* Variant of TabGone: only the panels know that they are gone.
TabLingers(t) == PanelGone(t)

TabGone(t) ==
    [s \in Slots |-> IF requests[s].tab = t THEN [requests[s] EXCEPT !.of = "none"] ELSE requests[s]]

Visit(t) ==
    /\ ~tabs[t].open
    /\ tabs' = [tabs EXCEPT ![t] = [Closed EXCEPT !.open = TRUE, !.loading = TRUE]]
    /\ UNCHANGED <<order, drawn, requests, overlapped>>

Leave(t) ==
    /\ tabs[t].open
    /\ tabs' = [tabs EXCEPT ![t] = Closed]
    /\ requests' = TabGone(t)
    /\ UNCHANGED <<order, drawn, overlapped>>

\* load, on mounting and after an action; the order may be gone by then.
Loaded(t) ==
    /\ tabs[t].loading /\ order.status # "gone"
    /\ tabs' = [tabs EXCEPT ![t].loading = FALSE, ![t].view = Snapshot]
    /\ UNCHANGED <<order, drawn, requests, overlapped>>

LoadFails(t) ==
    /\ tabs[t].loading
    /\ tabs' = [tabs EXCEPT ![t].loading = FALSE]
    /\ UNCHANGED <<order, drawn, requests, overlapped>>

\* The buttons a status offers.
Offers(status) ==
    CASE status = "draft" -> {"confirm", "cancel", "delete"}
      [] status = "open"  -> {"close", "cancel"} \cup Axes
      [] OTHER            -> {}

\* runLifecycle, runDelete.
Press(t, op) ==
    /\ op \in Lifecycle \cap Offers(tabs[t].view.status)
    /\ ~tabs[t].acting /\ Free # {}
    /\ tabs' = [tabs EXCEPT ![t].acting = TRUE]
    /\ Sent(t, op, None)
    /\ UNCHANGED <<order, drawn, overlapped>>

\* The button of a panel opens it, or closes it when it is open.
Toggle(t, axis) ==
    /\ axis \in Offers(tabs[t].view.status) /\ ~tabs[t].acting
    /\ tabs' = [tabs EXCEPT ![t].panel = IF @ = axis THEN "none" ELSE axis, ![t].busy = FALSE]
    /\ requests' = PanelGone(t)
    /\ UNCHANGED <<order, drawn, overlapped>>

\* chosen: of what was entered, the lines the panel still offers.
Chosen(t, entered) ==
    [l \in Lines |-> IF l \in tabs[t].view.left[tabs[t].panel] THEN entered[l] ELSE 0]

\* Variant of Sendable: the form is sent as it is.
SendableAsIs(lines) == TRUE

\* "Enter a quantity on at least one line."
Sendable(lines) == lines # None

\* submit of CreateDocPanel and of MovePanel.
Submit(t, entered) ==
    /\ tabs[t].panel # "none" /\ tabs[t].view.left[tabs[t].panel] # {}
    /\ ~tabs[t].busy /\ Free # {}
    /\ Sendable(Chosen(t, entered))
    /\ tabs' = [tabs EXCEPT ![t].busy = TRUE]
    /\ Sent(t, tabs[t].panel, Chosen(t, entered))
    /\ UNCHANGED <<order, drawn, overlapped>>

-----------------------------------------------------------------------------
(* The server: one transaction per request. *)

Running == {s \in Slots : requests[s].step \in {"begun", "drawn", "checked", "written"}}
Locked == \E s \in Slots : requests[s].step = "written"

\* Variant of Permits: the handlers rely on the screen's buttons.
PermitsAsShown(op) == order.status # "gone"

\* statusOf and the guards of confirm, closeOrder, cancel and the draws.
Permits(op) ==
    CASE op \in {"confirm", "delete"} -> order.status = "draft"
      [] op = "cancel" -> order.status = "draft" \/ (order.status = "open" /\ ~Fulfilled)
      [] op \in {"close", "doc", "move"} -> order.status = "open"

Begin(s) ==
    /\ requests[s].step = "sent" /\ Permits(requests[s].op)
    /\ requests' = [requests EXCEPT ![s].step = "begun"]
    /\ overlapped' = (overlapped \/ Running # {})
    /\ UNCHANGED <<order, drawn, tabs>>

\* Variant of Picked: the quantity asked for is taken as it is.
PickedUncapped(axis, ask) ==
    [l \in Lines |-> IF ask = None THEN LeftOn(axis, l) ELSE ask[l]]

\* An empty list of lines asks for all that is left.
Picked(axis, ask) ==
    [l \in Lines |-> IF ask = None THEN LeftOn(axis, l) ELSE Min({LeftOn(axis, l), ask[l]})]

\* INSERT ... SELECT of the lines or the movements; none is an error.
Draw(s) ==
    LET r == requests[s] IN
    /\ r.step = "begun" /\ r.op \in Axes
    /\ Picked(r.op, r.ask) # None
    /\ requests' = [requests EXCEPT ![s].step = "drawn", ![s].rows = Picked(r.op, r.ask)]
    /\ UNCHANGED <<order, drawn, tabs, overlapped>>

\* trg_invoice_line_order_check, deferred to the end; movements have none.
Check(s) ==
    LET r == requests[s] IN
    /\ r.step = "drawn"
    /\ r.op = "doc" =>
        /\ order.status = "open"
        /\ \A l \in Lines : r.rows[l] > 0 => drawn["doc"][l] + r.rows[l] <= order.ordered[l]
    /\ requests' = [requests EXCEPT ![s].step = "checked"]
    /\ UNCHANGED <<order, drawn, tabs, overlapped>>

\* Variant of Deletable: the draft was seen to be one when the request began.
DeletableAsSeen == TRUE

\* DELETE ... WHERE id = $1 AND status = 'draft'
Deletable == order.status = "draft"

\* The UPDATE of the status waits for the row; DELETE looks at it again.
Write(s) ==
    LET r == requests[s] IN
    /\ r.step = "begun" /\ r.op \in Lifecycle /\ ~Locked
    /\ r.op = "delete" => Deletable
    /\ requests' = [requests EXCEPT ![s].step = "written"]
    /\ UNCHANGED <<order, drawn, tabs, overlapped>>

Becomes(op) ==
    CASE op = "confirm" -> "open"
      [] op = "close"   -> "closed"
      [] op = "cancel"  -> "cancelled"
      [] op = "delete"  -> "gone"

Commit(s) ==
    LET r == requests[s] IN
    /\ \/ /\ r.step = "written"
          /\ order' = [order EXCEPT !.status = IF @ = "gone" THEN @ ELSE Becomes(r.op)]
          /\ UNCHANGED drawn
       \/ /\ r.step = "checked"
          /\ drawn' = [drawn EXCEPT ![r.op] = [l \in Lines |-> @[l] + r.rows[l]]]
          /\ UNCHANGED order
    /\ requests' = [requests EXCEPT ![s].step = "done", ![s].ask = None, ![s].rows = None]
    /\ UNCHANGED <<tabs, overlapped>>

\* runLifecycle's then, runDelete's, onCreated of the two panels.
Answered(s) ==
    LET r == requests[s] t == r.tab IN
    /\ r.step = "done"
    /\ tabs' =
         IF r.op \in {"delete", "doc"} THEN [tabs EXCEPT ![t] = Closed]
         ELSE IF r.of = "none" THEN tabs
         ELSE [tabs EXCEPT ![t].acting = @ /\ r.op = "move", ![t].panel = "none", ![t].busy = FALSE,
                           ![t].loading = TRUE]
    /\ requests' = [(IF r.op \in {"delete", "doc"} THEN TabGone(t)
                      ELSE IF r.of = "none" THEN requests
                      ELSE PanelGone(t)) EXCEPT ![s] = NoRequest]
    /\ UNCHANGED <<order, drawn, overlapped>>

\* A guard, a constraint or the network fails the request, or its answer is
\* lost: what was committed stays.
Fails(s) ==
    LET r == requests[s] t == r.tab IN
    /\ r.step # "none"
    /\ tabs' = IF r.of # "all" THEN tabs
               ELSE IF r.op \in Axes THEN [tabs EXCEPT ![t].busy = FALSE]
               ELSE [tabs EXCEPT ![t].acting = FALSE]
    /\ requests' = [requests EXCEPT ![s] = NoRequest]
    /\ UNCHANGED <<order, drawn, overlapped>>

-----------------------------------------------------------------------------
(* Elsewhere. *)

\* UpdateSalesOrder, from the order's form: one guarded UPDATE holds the row.
Edit(l, q) ==
    /\ order.status = "draft" /\ ~Locked /\ q # 0
    /\ order' = [order EXCEPT !.ordered[l] = q]
    /\ UNCHANGED <<drawn, tabs, requests, overlapped>>

\* A draft document or movement is deleted and gives back what it held; what
\* is posted can be unposted first.
DeleteDraft(axis, l, q) ==
    /\ q \in 1..drawn[axis][l]
    /\ drawn' = [drawn EXCEPT ![axis][l] = @ - q]
    /\ UNCHANGED <<order, tabs, requests, overlapped>>

-----------------------------------------------------------------------------
Init ==
    /\ order \in [status : {"draft"}, ordered : [Lines -> {Max(Quantities)}]]
    /\ drawn = [axis \in Axes |-> None]
    /\ tabs = [t \in Tabs |-> Closed]
    /\ requests = [s \in Slots |-> NoRequest]
    /\ overlapped = FALSE

Screen(t) ==
    \/ Visit(t) \/ Leave(t) \/ Loaded(t) \/ LoadFails(t)
    \/ \E op \in Lifecycle : Press(t, op)
    \/ \E axis \in Axes : Toggle(t, axis)
    \/ \E entered \in [Lines -> Quantities] : Submit(t, entered)

Serve(s) == Begin(s) \/ Draw(s) \/ Check(s) \/ Write(s) \/ Commit(s) \/ Answered(s) \/ Fails(s)

Next ==
    \/ \E t \in Tabs : Screen(t)
    \/ \E s \in Slots : Serve(s)
    \/ \E l \in Lines, q \in Quantities : Edit(l, q)
    \/ \E axis \in Axes, l \in Lines, q \in Quantities : DeleteDraft(axis, l, q)

Spec == Init /\ [][Next]_vars

-----------------------------------------------------------------------------
(* Properties. *)

LineQuantities == [Lines -> Nat]
Statuses == {"draft", "open", "closed", "cancelled", "gone"}

\* The row, the linked documents, the component state and the transactions have
\* their shapes; nothing is acting, busy or waiting on a screen that is left.
TypeOK ==
    /\ order \in [status : Statuses, ordered : LineQuantities]
    /\ drawn \in [Axes -> LineQuantities]
    /\ tabs \in [Tabs -> [open : BOOLEAN, loading : BOOLEAN, acting : BOOLEAN, busy : BOOLEAN,
                          panel : {"none"} \cup Axes,
                          view : [status : {"none"} \cup Statuses, left : [Axes -> SUBSET Lines]]]]
    /\ requests \in [Slots -> [tab : {"none"} \cup Tabs, op : {"none"} \cup Lifecycle \cup Axes,
                               ask : LineQuantities, rows : LineQuantities,
                               of : {"none", "tab", "all"},
                               step : {"none", "sent", "begun", "drawn", "checked", "written", "done"}]]
    /\ overlapped \in BOOLEAN
    /\ \A t \in Tabs : ~tabs[t].open => tabs[t] = Closed

\* "Draft orders cannot have been fulfilled (fulfilment requires an open order,
\* and confirmation is one-way), so no order-link guard is needed here": neither
\* when requests overlap.  An order that can still be edited or was deleted has
\* nothing linked to it and nothing being drawn.
DraftUndrawn ==
    order.status \in {"draft", "gone"} =>
        ~Fulfilled /\ \A s \in Running : requests[s].op \notin Axes

\* However stale the panel, a document or shipment holds no more of a line than
\* its user asked for; an empty list of lines, which the server takes for all
\* there is, is never what a user that asked for nothing sends.
NeverMoreThanAsked == \A s \in Slots, l \in Lines : requests[s].rows[l] <= requests[s].ask[l]

\* The line's cumulative quantity, on either axis, stays within what was ordered
\* as long as no two transactions have been open at once: whatever the screens
\* showed when their users acted, however often a request is sent again.
OnlyOrdered == \A axis \in Axes, l \in Lines : drawn[axis][l] <= order.ordered[l]
NeverOverDrawn == ~overlapped => OnlyOrdered

\* Under the same condition an order is cancelled only while nothing has been
\* drawn, and nothing is drawn from it afterwards.
CancelledUndrawn == ~overlapped /\ order.status = "cancelled" => ~Fulfilled

\* A status is left only for those the lifecycle leads to, by any of the tabs:
\* a closed or cancelled order stays so, unless transactions have overlapped.
Leads == {<<"draft", "open">>, <<"draft", "cancelled">>, <<"draft", "gone">>,
          <<"open", "closed">>, <<"open", "cancelled">>}
StatusForward ==
    [][~overlapped' /\ order'.status # order.status => <<order.status, order'.status>> \in Leads]_vars

=============================================================================
