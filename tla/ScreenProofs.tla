----------------------------- MODULE ScreenProofs -----------------------------
(***************************************************************************)
(* Theorems about WebScreens, for any screens, records and bounds: a page  *)
(* that has settled shows the record of its address as it was last read,   *)
(* unless an action and a change of address have crossed on it, and never  *)
(* has two actions under way, in whatever order requests are answered.     *)
(***************************************************************************)
EXTENDS WebScreens, SumTheorems

-----------------------------------------------------------------------------
(* The inductive invariant. *)

Loading(s) == calls[s].kind = "load"

\* Contents of a record no older than the page must show them.
Fresh(c, id) == c.from = id /\ c.head >= page.least /\ c.lines >= page.least

\* Every request knows what it is for, and only a detail page's actions end in
\* another load.
Requests ==
    \A s \in Slots :
        /\ calls[s].rec = 0 => calls[s].todo = {}
        /\ Loading(s) => calls[s].rec = page.at.id
        /\ calls[s].kind \in {"reload", "amend", "post", "apply", "unpost"} => Acts

\* A page has one load and one action in flight, and is busy during the action.
OneAtATime ==
    /\ \A s, t \in Slots : Loading(s) /\ Loading(t) => s = t
    /\ \A s, t \in Slots : Pending(s) /\ Pending(t) => s = t
    /\ \A s \in Slots : Pending(s) => page.busy

\* Unless action and address have crossed, the action is about the address, and
\* nothing else is loading meanwhile.
Apart ==
    Acts /\ ~page.crossed =>
        \A s \in Slots : /\ Pending(s) => calls[s].rec = page.at.id
                         /\ Loading(s) => ~page.busy

\* The version the page knows of is one the record has reached.
Known == page.at.id # 0 => page.least <= row[page.at.id].version

\* What a load has read so far is no older than that.
Reading ==
    \A s \in Slots :
        /\ calls[s].kind \in {"load", "reload"} /\ calls[s].rec # 0
        /\ Acts => ~page.crossed
        => /\ "head" \notin calls[s].todo =>
                 /\ calls[s].got.from = calls[s].rec /\ calls[s].got.head >= page.least
                 /\ screen.gets = 1 => calls[s].got.lines >= page.least
           /\ screen.gets = 2 /\ "lines" \notin calls[s].todo => calls[s].got.lines >= page.least

\* Nor is what a page shows that has loaded.
Settled ==
    /\ page.at.id # 0 /\ page.ready /\ ~page.error /\ \A s \in Slots : ~Loading(s)
    /\ Acts => ~page.busy /\ ~page.failed /\ ~page.crossed
    => Fresh(page.shows, page.at.id)

\* Each created record was a write, so that the new ids do not run out.
Born == \A n \in NewIds : row[n].status # "none" => row[n].version >= 1

Bounded == Done + Asked <= MaxWrites

IInv ==
    /\ TypeOK /\ screen \in Screens /\ Bounded
    /\ Requests /\ OneAtATime /\ Apart /\ Known /\ Reading /\ Settled /\ Born

\* The parts of TypeOK.
PageType == [at : {Away} \cup Urls, ready : BOOLEAN, shows : ContentsType, error : BOOLEAN,
             busy : BOOLEAN, failed : BOOLEAN, least : Versions, crossed : BOOLEAN]
CallType == [kind : {"none", "load", "reload"} \cup Writes, rec : {0} \cup Records,
             todo : SUBSET {"head", "lines"}, got : ContentsType,
             mine : BOOLEAN, at : {"sent", "done"}]
RowType == [status : Statuses, about : {0} \cup Records, version : Versions]
Gone == page.at = Away => page = Closed /\ \A s \in Slots : calls[s].kind \in Writes \cup {"none"}

LEMMA Types == TypeOK <=> /\ page \in PageType /\ calls \in [Slots -> CallType]
                          /\ row \in [Ids -> RowType] /\ Gone
BY DEF TypeOK, PageType, CallType, RowType, Gone

-----------------------------------------------------------------------------
(* Addresses and slots. *)

LEMMA ANatural == 0 \in Nat /\ 0 \in Versions /\ Ids \subseteq Nat \ {0} /\ IsFiniteSet(Ids)
                  /\ Records \subseteq Ids /\ NewIds \subseteq Ids /\ 0 \notin Ids
BY ScreensAssumption DEF Versions, Ids

\* What is known of the addresses of a screen.
LEMMA Addresses ==
    ASSUME screen \in Screens, NEW u \in Urls
    PROVE  /\ u # Away /\ u.id \in {0} \cup Records
           /\ u.id # 0 => Fetches(u)
           /\ Acts => u.id # 0
<1>1. Min(Records) \in Records
  <2>1. Records \in SUBSET Nat /\ Records # {}
    BY ScreensAssumption
  <2>2. \E x \in Records : \A y \in Records : x <= y
    BY <2>1, Smallest
  <2> QED BY <2>2 DEF Min
<1>2. \/ screen.kind \in {"draft", "record"} /\ (u = Url("create", 0) \/ \E r \in Records : u = Url("edit", r))
      \/ screen.kind = "list" /\ u = Url("view", Min(Records))
      \/ screen.kind \in {"detail", "view"} /\ \E r \in Records : u = Url("view", r)
  <2>1. screen.kind \in {"draft", "record", "detail", "view", "list"}
    BY DescriptionsAssumption DEF Descriptions
  <2> QED BY <2>1 DEF Urls
<1>3. 0 \notin Records
  BY ScreensAssumption
<1> QED BY <1>1, <1>2, <1>3 DEF Url, Away, Fetches, Acts

\* A screen never turns into another.
LEMMA SameScreen ==
    ASSUME UNCHANGED screen
    PROVE  /\ Urls' = Urls /\ Acts' = Acts /\ Parts' = Parts /\ PageType' = PageType
           /\ (screen \in Screens)' = (screen \in Screens)
           /\ \A u : Fetches(u)' = Fetches(u)
BY DEF Urls, Acts, Parts, PageType, Fetches

LEMMA PartsAre ==
    ASSUME screen \in Screens
    PROVE  /\ Parts \subseteq {"head", "lines"} /\ "head" \in Parts
           /\ screen.gets = 2 => "lines" \in Parts
           /\ screen.gets \in {1, 2}
BY DescriptionsAssumption DEF Descriptions, Parts

LEMMA AFreeSlot ==
    ASSUME Free # {}
    PROVE  FreeSlot \in Slots /\ calls[FreeSlot] = NoCall
<1>1. Free \in SUBSET Nat
  BY ScreensAssumption DEF Free, Slots
<1>2. \E s \in Free : \A t \in Free : s <= t
  BY <1>1, Smallest
<1>3. FreeSlot \in Free
  BY <1>2 DEF FreeSlot
<1> QED BY <1>3 DEF Free

\* A request put in the free slot, the others as they are in cs.
LEMMA Sending ==
    ASSUME Free # {}, NEW cs, cs \in [Slots -> CallType], NEW c \in CallType
    PROVE  /\ Sent(cs, c) \in [Slots -> CallType] /\ Sent(cs, c)[FreeSlot] = c
           /\ \A s \in Slots \ {FreeSlot} : Sent(cs, c)[s] = cs[s]
BY AFreeSlot DEF Sent

\* The empty contents and requests, and those that are sent.
LEMMA Empty == Blank \in ContentsType /\ NoCall \in CallType
<1>1. Blank \in ContentsType
  BY ANatural DEF Blank, ContentsType, Statuses
<1> QED BY <1>1 DEF NoCall, CallType

LEMMA LoadCalls ==
    ASSUME screen \in Screens, NEW kind \in {"load", "reload"}, NEW id \in {0} \cup Records
    PROVE  /\ LoadCall(kind, id) \in CallType
           /\ LoadCall(kind, id).kind = kind /\ LoadCall(kind, id).rec = id
           /\ LoadCall(kind, id).at = "sent" /\ LoadCall(kind, id).mine = FALSE
           /\ LoadCall(kind, id).todo = IF id = 0 THEN {} ELSE Parts
<1>1. Parts \in SUBSET {"head", "lines"}
  BY PartsAre
<1> QED BY <1>1, Empty DEF LoadCall, NoCall, CallType

LEMMA WriteCalls ==
    ASSUME NEW kind \in Writes, NEW id \in {0} \cup Records, NEW about \in {0} \cup Records
    PROVE  /\ WriteCall(kind, id, about) \in CallType
           /\ WriteCall(kind, id, about).kind = kind /\ WriteCall(kind, id, about).rec = id
           /\ WriteCall(kind, id, about).at = "sent" /\ WriteCall(kind, id, about).mine = TRUE
           /\ WriteCall(kind, id, about).todo = {}
<1>1. [Blank EXCEPT !.about = about] \in ContentsType
  BY ANatural DEF Blank, ContentsType, Statuses
<1> QED BY <1>1 DEF WriteCall, NoCall, CallType

-----------------------------------------------------------------------------
(* The bound on writes. *)

Asking == {s \in Slots : calls[s].kind \in Writes /\ calls[s].at = "sent"}

LEMMA AskedIs == Asked = Cardinality(Asking) /\ IsFiniteSet(Asking) /\ Asked \in Nat
<1>1. IsFiniteSet(Slots)
  BY ScreensAssumption, FS_Interval DEF Slots
<1>2. Asking \in SUBSET Slots
  BY DEF Asking
<1> QED BY <1>1, <1>2, FS_Subset, FS_CardinalityType DEF Asked, Asking

LEMMA AskedLess ==
    ASSUME Asking' \subseteq Asking
    PROVE  Asked' <= Asked /\ Asked' \in Nat
<1>1. Asking' \in SUBSET Asking /\ IsFiniteSet(Asking') /\ Asked' = Cardinality(Asking')
  <2>1. Asked' = Cardinality(Asking')
    BY DEF Asked, Asking
  <2> QED BY <2>1, AskedIs, FS_Subset
<1> QED BY <1>1, AskedIs, FS_Subset, FS_CardinalityType

LEMMA AskedOneMore ==
    ASSUME NEW s, s \notin Asking, Asking' = Asking \cup {s}
    PROVE  Asked' = Asked + 1
<1>1. Asked' = Cardinality(Asking')
  BY DEF Asked, Asking
<1> QED BY <1>1, AskedIs, FS_AddElement

LEMMA AskedOneLess ==
    ASSUME NEW s \in Asking, Asking' = Asking \ {s}
    PROVE  Asked' = Asked - 1
<1>1. Asked' = Cardinality(Asking')
  BY DEF Asked, Asking
<1> QED BY <1>1, AskedIs, FS_RemoveElement

\* The recursion behind Done, for any table of rows, is that of a sum.
Adding(rw, g) ==
    [T \in SUBSET Ids |-> IF T = {} THEN 0
        ELSE rw[CHOOSE x \in T : TRUE].version + g[T \ {CHOOSE x \in T : TRUE}]]

LEMMA VersionsSum ==
    ASSUME NEW rw
    PROVE  (CHOOSE g : g = Adding(rw, g))[Ids] = SumOver([r \in Ids |-> rw[r].version], Ids)
<1> DEFINE F == [r \in Ids |-> rw[r].version]
<1>1. IsFiniteSet(Ids)
  BY ANatural
<1>2. ASSUME NEW g PROVE Adds(g, F, Ids) <=> g = Adding(rw, g)
  BY DEF Adds, Adding
<1> HIDE DEF F
<1>3. PICK g : g = Adding(rw, g)
  BY <1>1, <1>2, AddsExists
<1>4. Adds(CHOOSE h : h = Adding(rw, h), F, Ids)
  BY <1>2, <1>3
<1> QED BY <1>1, <1>4, SumIs DEF F

LEMMA DoneIs ==
    /\ Done = SumOver([r \in Ids |-> row[r].version], Ids)
    /\ Done' = SumOver([r \in Ids |-> row'[r].version], Ids)
<1>1. Done = (CHOOSE g : g = Adding(row, g))[Ids]
  BY Zenon DEF Done, MapThenSumSet, MapThenFoldSet, Adding
<1>2. Done' = (CHOOSE g : g = Adding(row', g))[Ids]
  BY Zenon DEF Done, MapThenSumSet, MapThenFoldSet, Adding
<1> QED BY <1>1, <1>2, VersionsSum

\* Every version is counted.
LEMMA DoneBounds ==
    ASSUME row \in [Ids -> RowType]
    PROVE  Done \in Nat /\ \A r \in Ids : row[r].version <= Done
<1> DEFINE F == [r \in Ids |-> row[r].version]
<1>1. \A r \in Ids : F[r] \in Nat /\ F[r] \in Int /\ F[r] = row[r].version
  BY DEF RowType, Versions
<1>2. Done = SumOver(F, Ids)
  BY DoneIs
<1> HIDE DEF F
<1>3. Done \in Nat
  BY <1>1, <1>2, ANatural, SumNat
<1>4. ASSUME NEW r \in Ids PROVE row[r].version <= Done
  <2>1. IsFiniteSet(Ids \ {r}) /\ Ids \ {r} \in SUBSET Ids
    BY ANatural, FS_Subset
  <2>2. SumOver(F, Ids \ {r}) \in Nat
    BY <1>1, <2>1, SumNat
  <2>3. SumOver(F, Ids) = F[r] + SumOver(F, Ids \ {r})
    BY <1>1, ANatural, SumRemove
  <2> QED BY <1>1, <1>2, <2>2, <2>3
<1> QED BY <1>3, <1>4

\* A change of a row is one write more.
LEMMA Changed ==
    ASSUME row \in [Ids -> RowType], NEW r \in Ids, NEW st \in Statuses, NEW ab \in {0} \cup Records,
           Done < MaxWrites, Change(r, st, ab)
    PROVE  /\ row' \in [Ids -> RowType] /\ Done' = Done + 1
           /\ row'[r] = [status |-> st, about |-> ab, version |-> row[r].version + 1]
           /\ \A q \in Ids \ {r} : row'[q] = row[q]
           /\ \A q \in Ids : row[q].version <= row'[q].version
<1> DEFINE F == [q \in Ids |-> row[q].version]
           G == [q \in Ids |-> row'[q].version]
<1>1. Done \in Nat /\ row[r].version <= Done /\ row[r].version \in Nat
  BY DoneBounds DEF RowType, Versions
<1>2. row[r].version + 1 \in Versions
  BY <1>1, ScreensAssumption DEF Versions
<1>3. [status |-> st, about |-> ab, version |-> row[r].version + 1] \in RowType
  BY <1>2 DEF RowType
<1>4. /\ row' \in [Ids -> RowType]
      /\ row'[r] = [status |-> st, about |-> ab, version |-> row[r].version + 1]
      /\ \A q \in Ids \ {r} : row'[q] = row[q]
  BY <1>3 DEF Change
<1>5. \A q \in Ids : row[q].version \in Nat
  BY DEF RowType, Versions
<1>6. \A q \in Ids : F[q] \in Int /\ G[q] \in Int
  BY <1>4 DEF RowType, Versions
<1>7. G[r] = F[r] + 1 /\ \A q \in Ids \ {r} : G[q] = F[q]
  BY <1>4
<1>8. Done = SumOver(F, Ids) /\ Done' = SumOver(G, Ids)
  BY DoneIs
<1> HIDE DEF F, G
<1>9. IsFiniteSet(Ids \ {r})
  BY ANatural, FS_RemoveElement
<1>10. SumOver(F, Ids \ {r}) = SumOver(G, Ids \ {r})
  BY <1>6, <1>7, <1>9, SumSame
<1>11. /\ SumOver(F, Ids) = F[r] + SumOver(F, Ids \ {r})
       /\ SumOver(G, Ids) = G[r] + SumOver(G, Ids \ {r})
  BY <1>6, ANatural, SumRemove
<1>12. SumOver(F, Ids \ {r}) \in Int
  BY <1>6, <1>9, SumInt
<1>13. Done' = Done + 1
  BY <1>6, <1>7, <1>8, <1>10, <1>11, <1>12
<1> QED BY <1>4, <1>5, <1>13

-----------------------------------------------------------------------------
(* Putting the invariant together. *)

LEMMA Assembled ==
    ASSUME UNCHANGED screen, screen \in Screens, page' \in PageType, calls' \in [Slots -> CallType],
           row' \in [Ids -> RowType], Gone', Bounded', Requests', OneAtATime', Apart', Known',
           Reading', Settled', Born'
    PROVE  IInv'
<1>1. PageType' = PageType /\ screen' \in Screens
  BY SameScreen
<1>2. TypeOK'
  BY <1>1 DEF TypeOK, PageType, CallType, RowType, Gone
<1> QED BY <1>1, <1>2 DEF IInv

LEMMA Parted ==
    ASSUME IInv
    PROVE  /\ page \in PageType /\ calls \in [Slots -> CallType] /\ row \in [Ids -> RowType]
           /\ Gone /\ screen \in Screens /\ Bounded /\ Requests /\ OneAtATime /\ Apart /\ Known
           /\ Reading /\ Settled /\ Born
BY Types DEF IInv

\* While nothing is written, the bound and the rows stay.
LEMMA NothingWritten ==
    ASSUME IInv, UNCHANGED <<screen, row>>, Asking' \subseteq Asking
    PROVE  row' \in [Ids -> RowType] /\ Bounded' /\ Born'
<1>1. Done' = Done
  BY DoneIs
<1>2. Asked' <= Asked /\ Asked' \in Nat /\ Asked \in Nat
  BY AskedLess, AskedIs
<1>3. Done \in Nat /\ MaxWrites \in Nat
  BY Parted, DoneBounds, ScreensAssumption
<1>4. Born /\ row \in [Ids -> RowType]
  BY Parted
<1>5. Done' + Asked' <= MaxWrites
  <2>1. Done + Asked <= MaxWrites
    BY Parted DEF Bounded
  <2>2. ASSUME NEW a \in Nat, NEW b \in Nat, NEW c \in Nat, NEW m \in Nat, a + b <= m, c <= b
        PROVE  a + c <= m
    BY <2>2
  <2>3. Done + Asked' <= MaxWrites
    BY <1>2, <1>3, <2>1, <2>2
  <2> QED BY <1>1, <2>3
<1>6. Born'
  BY <1>4 DEF Born
<1> QED BY <1>4, <1>5, <1>6 DEF Bounded

-----------------------------------------------------------------------------
(* The user moves. *)

\* Coming to an address: what the page and the requests are then.
LEMMA Entering ==
    ASSUME IInv, NEW u \in Urls, page' = Entered(page, u)
    PROVE  /\ page' \in PageType /\ page'.at = u /\ page'.busy = page.busy
           /\ page'.least = IF u.id = 0 THEN 0 ELSE row[u.id].version
           /\ page'.crossed <=> Acts /\ page.busy
<1>1. u \in Urls /\ u.id \in {0} \cup Records /\ \A r \in Records : row[r].version \in Versions
  BY Addresses, Parted, ANatural DEF RowType
<1>2. page \in PageType /\ Blank \in ContentsType /\ 0 \in Versions
  BY Parted, Empty, ANatural
<1> DEFINE least == IF u.id = 0 THEN 0 ELSE row[u.id].version
           crossed == Acts /\ page.busy
           ready == page.ready \/ ~Fetches(u)
           shows == IF Fetches(u) THEN page.shows ELSE Blank
<1>3. least \in Versions /\ crossed \in BOOLEAN /\ ready \in BOOLEAN /\ shows \in ContentsType
  <2>1. page.shows \in ContentsType
    BY <1>2 DEF PageType
  <2> QED BY <1>1, <1>2, <2>1
<1>4. page' = [page EXCEPT !.at = u, !.least = least, !.crossed = crossed, !.ready = ready, !.shows = shows]
  BY DEF Entered
<1> HIDE DEF least, crossed, ready, shows
<1>5. /\ page' \in PageType /\ page'.at = u /\ page'.busy = page.busy
      /\ page'.least = least /\ page'.crossed = crossed
  BY <1>1, <1>2, <1>3, <1>4 DEF PageType
<1> QED BY <1>5 DEF least, crossed

LEMMA Loads ==
    ASSUME IInv, NEW u \in Urls, Fetches(u) => Free # {},
           calls' = IF Fetches(u) THEN Sent(Cancelled, LoadCall("load", u.id)) ELSE Cancelled
    PROVE  /\ calls' \in [Slots -> CallType]
           /\ \A s \in Slots : \/ s = FreeSlot /\ Fetches(u) /\ calls'[s] = LoadCall("load", u.id)
                               \/ calls'[s] = NoCall
                               \/ calls'[s] = calls[s] /\ calls[s].kind # "load"
           /\ Fetches(u) => calls'[FreeSlot] = LoadCall("load", u.id) /\ FreeSlot \in Slots
<1>1. /\ Cancelled \in [Slots -> CallType]
      /\ \A s \in Slots : Cancelled[s] = NoCall \/ (Cancelled[s] = calls[s] /\ calls[s].kind # "load")
  BY Parted, Empty DEF Cancelled
<1>2. LoadCall("load", u.id) \in CallType
  BY Parted, Addresses, LoadCalls
<1>3. CASE Fetches(u)
  <2>1. calls' = Sent(Cancelled, LoadCall("load", u.id)) /\ FreeSlot \in Slots
    BY <1>3, AFreeSlot
  <2>2. /\ Sent(Cancelled, LoadCall("load", u.id)) \in [Slots -> CallType]
        /\ Sent(Cancelled, LoadCall("load", u.id))[FreeSlot] = LoadCall("load", u.id)
        /\ \A s \in Slots \ {FreeSlot} : Sent(Cancelled, LoadCall("load", u.id))[s] = Cancelled[s]
    BY <1>1, <1>2, <1>3, Sending
  <2> QED BY <1>1, <1>3, <2>1, <2>2
<1>4. CASE ~Fetches(u)
  BY <1>1, <1>4
<1> QED BY <1>3, <1>4

LEMMA EnterInv ==
    ASSUME IInv, NEW u \in Urls, Fetches(u) => Free # {}, page' = Entered(page, u),
           calls' = IF Fetches(u) THEN Sent(Cancelled, LoadCall("load", u.id)) ELSE Cancelled,
           UNCHANGED <<screen, row>>
    PROVE  IInv'
<1>1. /\ page' \in PageType /\ page'.at = u /\ page'.busy = page.busy
      /\ page'.least = IF u.id = 0 THEN 0 ELSE row[u.id].version
      /\ page'.crossed <=> Acts /\ page.busy
  BY Entering
<1>2. /\ calls' \in [Slots -> CallType]
      /\ \A s \in Slots : \/ s = FreeSlot /\ Fetches(u) /\ calls'[s] = LoadCall("load", u.id)
                          \/ calls'[s] = NoCall
                          \/ calls'[s] = calls[s] /\ calls[s].kind # "load"
      /\ Fetches(u) => calls'[FreeSlot] = LoadCall("load", u.id) /\ FreeSlot \in Slots
  BY Loads
<1>3. /\ u # Away /\ u.id \in {0} \cup Records /\ (u.id # 0 => Fetches(u))
      /\ screen \in Screens /\ (Acts' <=> Acts)
  BY Addresses, Parted, SameScreen
<1>4. LET c == LoadCall("load", u.id) IN
      /\ c.kind = "load" /\ c.rec = u.id /\ c.mine = FALSE
      /\ c.todo = IF u.id = 0 THEN {} ELSE Parts
  BY <1>3, LoadCalls
<1>5. NoCall.kind = "none" /\ NoCall.rec = 0 /\ NoCall.todo = {}
  BY DEF NoCall
<1>6. /\ "load" \notin Writes /\ "none" \notin Writes /\ "reload" \notin Writes
      /\ "head" \in Parts /\ (screen.gets = 2 => "lines" \in Parts)
  BY <1>3, PartsAre DEF Writes
<1>7. Gone'
  BY <1>1, <1>3 DEF Gone
<1>8. Asking' \subseteq Asking
  BY <1>2, <1>4, <1>5, <1>6 DEF Asking
<1>9. row' \in [Ids -> RowType] /\ Bounded' /\ Born'
  BY <1>8, NothingWritten
<1>10. Requests'
  BY <1>1, <1>2, <1>3, <1>4, <1>5, Parted DEF Requests, Loading
<1>11. \A s \in Slots : Pending(s)' => Pending(s) /\ calls'[s] = calls[s]
  BY <1>2, <1>4, <1>5, <1>6 DEF Pending
<1>12. \A s \in Slots : Loading(s)' => s = FreeSlot /\ calls'[s] = LoadCall("load", u.id)
  BY <1>2, <1>5 DEF Loading
<1>13. OneAtATime'
  BY <1>1, <1>11, <1>12, Parted DEF OneAtATime
<1>14. \A s \in Slots : page.busy = FALSE => ~Pending(s)
  BY Parted DEF OneAtATime
<1>15. Apart'
  BY <1>1, <1>3, <1>11, <1>14 DEF Apart
<1>16. Known'
  <2>1. \A r \in Ids : row[r].version \in Nat
    BY Parted DEF RowType, Versions
  <2>2. row' = row
    OBVIOUS
  <2>3. u.id # 0 => u.id \in Ids /\ page'.least = row[u.id].version
    BY <1>1, <1>3, ANatural
  <2> QED BY <1>1, <2>1, <2>2, <2>3 DEF Known
<1>17. Reading'
  <2> SUFFICES ASSUME NEW s \in Slots, calls'[s].kind \in {"load", "reload"}, calls'[s].rec # 0,
                      Acts => ~page'.crossed
               PROVE  "head" \in calls'[s].todo /\ (screen.gets = 2 => "lines" \in calls'[s].todo)
    BY <1>3 DEF Reading
  <2>1. CASE calls'[s].kind = "load"
    BY <1>4, <1>6, <1>12, <2>1 DEF Loading
  <2>2. CASE calls'[s].kind = "reload"
    <3>1. Pending(s) /\ calls[s].kind = "reload" /\ page.busy
      BY <1>11, <2>2, Parted DEF Pending, OneAtATime
    <3>2. Acts
      BY <3>1, Parted DEF Requests
    <3> QED BY <1>1, <3>1, <3>2
  <2> QED BY <2>1, <2>2
<1>18. Settled'
  <2>1. u.id # 0 => \E s \in Slots : calls'[s].kind = "load"
    BY <1>2, <1>3, <1>4
  <2> QED BY <1>1, <2>1 DEF Settled, Loading
<1> QED BY <1>1, <1>2, <1>3, <1>7, <1>9, <1>10, <1>13, <1>15, <1>16, <1>17, <1>18, Assembled

\* The component is gone, and only the writes it sent go on.
LEMMA ClosedInv ==
    ASSUME IInv, page' = Closed, calls' \in [Slots -> CallType], UNCHANGED <<screen, row>>,
           \A s \in Slots :
              \/ calls'[s] = NoCall
              \/ /\ calls'[s].kind = calls[s].kind /\ calls[s].kind \in Writes /\ calls'[s].mine = FALSE
                 /\ calls'[s].rec = calls[s].rec /\ calls'[s].todo = calls[s].todo
                 /\ calls'[s].at = calls[s].at
    PROVE  IInv'
<1>1. /\ NoCall.kind = "none" /\ NoCall.rec = 0 /\ NoCall.todo = {} /\ NoCall.mine = FALSE
      /\ Closed.at.id = 0 /\ Closed.at = Away
  BY DEF NoCall, Closed, Away, Url
<1>2. "load" \notin Writes /\ "reload" \notin Writes /\ "none" \notin Writes
  BY DEF Writes
<1>3. page' \in PageType
  <2>1. Closed = [at |-> Away, ready |-> FALSE, shows |-> Blank, error |-> FALSE, busy |-> FALSE,
                  failed |-> FALSE, least |-> 0, crossed |-> FALSE]
    BY DEF Closed
  <2> QED BY <2>1, Empty, ANatural DEF PageType
<1>4. Asking' \subseteq Asking
  BY <1>1, <1>2 DEF Asking
<1>5. row' \in [Ids -> RowType] /\ Bounded' /\ Born'
  BY <1>4, NothingWritten
<1>6. \A s \in Slots : ~Pending(s)' /\ ~Loading(s)' /\ calls'[s].kind \in Writes \cup {"none"}
  BY <1>1, <1>2 DEF Pending, Loading
<1>7. Gone'
  BY <1>6 DEF Gone
<1>8. Requests'
  <2>1. Acts' <=> Acts
    BY SameScreen
  <2>2. ASSUME NEW s \in Slots
        PROVE  /\ calls'[s].rec = 0 => calls'[s].todo = {}
               /\ calls'[s].kind \in {"reload", "amend", "post", "apply", "unpost"} => Acts
    BY <1>1, Parted DEF Requests
  <2> QED BY <1>6, <2>1, <2>2 DEF Requests
<1>9. OneAtATime' /\ Apart'
  BY <1>6 DEF OneAtATime, Apart
<1>10. Known' /\ Settled'
  BY <1>1 DEF Known, Settled
<1>11. Reading'
  BY <1>2, <1>6 DEF Reading
<1> QED BY <1>3, <1>5, <1>7, <1>8, <1>9, <1>10, <1>11, Parted, Assembled

LEMMA DisownedIs ==
    ASSUME IInv
    PROVE  /\ Disowned \in [Slots -> CallType]
           /\ \A s \in Slots :
                 \/ Disowned[s] = NoCall
                 \/ /\ Disowned[s].kind = calls[s].kind /\ calls[s].kind \in Writes
                    /\ Disowned[s].mine = FALSE
                    /\ Disowned[s].rec = calls[s].rec /\ Disowned[s].todo = calls[s].todo
                    /\ Disowned[s].at = calls[s].at
<1>1. ASSUME NEW s \in Slots
      PROVE  /\ Disowned[s] \in CallType
             /\ \/ Disowned[s] = NoCall
                \/ /\ Disowned[s].kind = calls[s].kind /\ calls[s].kind \in Writes
                   /\ Disowned[s].mine = FALSE
                   /\ Disowned[s].rec = calls[s].rec /\ Disowned[s].todo = calls[s].todo
                   /\ Disowned[s].at = calls[s].at
  <2>1. calls[s] \in CallType /\ NoCall \in CallType
    BY Parted, Empty
  <2> QED BY <2>1 DEF Disowned, CallType
<1> QED BY <1>1 DEF Disowned

LEMMA LeaveInv == ASSUME IInv, Leave PROVE IInv'
BY DisownedIs, ClosedInv DEF Leave

LEMMA NavigatesInv == ASSUME IInv, NEW s \in Slots, Navigates(s) PROVE IInv'
<1>1. calls' = [Disowned EXCEPT ![s] = NoCall] /\ page' = Closed /\ UNCHANGED <<screen, row>>
  BY DEF Navigates
<1>2. calls' \in [Slots -> CallType] /\ \A t \in Slots : calls'[t] = Disowned[t] \/ calls'[t] = NoCall
  BY <1>1, DisownedIs, Empty
<1> QED BY <1>1, <1>2, DisownedIs, ClosedInv

\* Every route to an address.
LEMMA OpenInv == ASSUME IInv, NEW u \in Urls, Open(u) PROVE IInv'
<1>1. page = Closed /\ \A s \in Slots : calls[s].kind \in Writes \cup {"none"}
  BY Parted DEF Open, Gone
<1>2. \A s \in Slots : calls[s].kind # "load"
  BY <1>1 DEF Writes
<1>3. Cancelled = calls
  BY <1>2, Parted DEF Cancelled
<1> QED BY <1>1, <1>3, EnterInv DEF Open

LEMMA GoInv == ASSUME IInv, NEW u \in Urls, Go(u) PROVE IInv'
BY EnterInv DEF Go

-----------------------------------------------------------------------------
(* Loads. *)

\* A request is over; if it was the page's action, the page may not be busy any more.
LEMMA DropInv ==
    ASSUME IInv, NEW s \in Slots, calls' = [calls EXCEPT ![s] = NoCall], UNCHANGED <<screen, row>>,
           page' \in PageType, page'.at = page.at, page'.least = page.least,
           page'.crossed = page.crossed, page.at = Away => page' = page,
           page'.busy = page.busy \/ (~page'.busy /\ Pending(s)), Settled'
    PROVE  IInv'
<1>1. /\ NoCall.kind = "none" /\ NoCall.rec = 0 /\ NoCall.todo = {} /\ NoCall.mine = FALSE
      /\ "load" \notin Writes /\ "reload" \notin Writes /\ "none" \notin Writes
  BY DEF NoCall, Writes
<1>2. /\ calls' \in [Slots -> CallType] /\ calls'[s] = NoCall
      /\ \A t \in Slots \ {s} : calls'[t] = calls[t]
  BY Parted, Empty
<1>3. Asking' \subseteq Asking
  BY <1>1, <1>2 DEF Asking
<1>4. row' \in [Ids -> RowType] /\ Bounded' /\ Born'
  BY <1>3, NothingWritten
<1>5. \A t \in Slots : /\ Pending(t)' => t # s /\ Pending(t)
                       /\ Loading(t)' => t # s /\ Loading(t)
  BY <1>1, <1>2 DEF Pending, Loading
<1>6. Acts' <=> Acts
  BY SameScreen
<1>7. Gone'
  <2>1. Gone
    BY Parted
  <2> QED BY <1>1, <1>2, <2>1 DEF Gone
<1>8. Requests'
  BY <1>1, <1>2, <1>6, Parted DEF Requests, Loading
<1>9. OneAtATime'
  BY <1>5, Parted DEF OneAtATime
<1>10. Apart'
  <2> SUFFICES ASSUME Acts, ~page.crossed, NEW t \in Slots
               PROVE  /\ Pending(t)' => calls'[t].rec = page.at.id
                      /\ Loading(t)' => ~page'.busy
    BY <1>6 DEF Apart
  <2>1. Pending(t)' => calls'[t].rec = page.at.id
    BY <1>2, <1>5, Parted DEF Apart
  <2>2. Loading(t)' => ~page'.busy
    BY <1>5, Parted DEF Apart
  <2> QED BY <2>1, <2>2
<1>11. Known'
  BY Parted DEF Known
<1>12. Reading'
  <2> SUFFICES ASSUME NEW t \in Slots, calls'[t].kind \in {"load", "reload"}, calls'[t].rec # 0,
                      Acts => ~page.crossed
               PROVE  /\ "head" \notin calls'[t].todo =>
                            /\ calls'[t].got.from = calls'[t].rec /\ calls'[t].got.head >= page.least
                            /\ screen.gets = 1 => calls'[t].got.lines >= page.least
                      /\ screen.gets = 2 /\ "lines" \notin calls'[t].todo => calls'[t].got.lines >= page.least
    BY <1>6 DEF Reading
  <2>1. calls'[t] = calls[t]
    BY <1>1, <1>2
  <2> QED BY <2>1, Parted DEF Reading
<1> QED BY <1>2, <1>4, <1>7, <1>8, <1>9, <1>10, <1>11, <1>12, Parted, Assembled

\* What a load has read in full is fresh, unless action and address have crossed.
LEMMA ReadInFull ==
    ASSUME IInv, NEW s \in Slots, calls[s].kind \in {"load", "reload"}, calls[s].todo = {},
           calls[s].rec # 0, Acts => ~page.crossed
    PROVE  Fresh(calls[s].got, calls[s].rec)
BY Parted, PartsAre DEF Reading, Fresh

\* A page that shows what it has loaded, the status aside.
LEMMA FilledIs ==
    ASSUME IInv, NEW c \in CallType
    PROVE  /\ Filled(page, c) \in PageType /\ Filled(page, c).at = page.at
           /\ Filled(page, c).least = page.least /\ Filled(page, c).crossed = page.crossed
           /\ Filled(page, c).busy = page.busy /\ Filled(page, c).failed = page.failed
           /\ c.rec # 0 => /\ Filled(page, c).shows.from = c.got.from
                           /\ Filled(page, c).shows.head = c.got.head
                           /\ Filled(page, c).shows.lines = c.got.lines
<1> DEFINE shows == IF screen.kind = "draft" /\ c.rec = 0 THEN page.shows
                    ELSE IF Acts THEN c.got ELSE [c.got EXCEPT !.status = "none"]
           error == page.error /\ ~screen.clears
<1>1. page \in PageType /\ c.got \in ContentsType /\ page.shows \in ContentsType
  BY Parted DEF PageType, CallType
<1>2. /\ shows \in ContentsType
      /\ c.rec # 0 => shows.from = c.got.from /\ shows.head = c.got.head /\ shows.lines = c.got.lines
  <2>1. /\ [c.got EXCEPT !.status = "none"] \in ContentsType
        /\ [c.got EXCEPT !.status = "none"].from = c.got.from
        /\ [c.got EXCEPT !.status = "none"].head = c.got.head
        /\ [c.got EXCEPT !.status = "none"].lines = c.got.lines
    BY <1>1 DEF ContentsType, Statuses
  <2> QED BY <1>1, <2>1
<1>3. error \in BOOLEAN
  OBVIOUS
<1>4. Filled(page, c) = [page EXCEPT !.ready = TRUE, !.error = error, !.shows = shows]
  BY <1>1 DEF Filled, PageType
<1> HIDE DEF shows, error
<1>5. /\ Filled(page, c) \in PageType /\ Filled(page, c).at = page.at
      /\ Filled(page, c).least = page.least /\ Filled(page, c).crossed = page.crossed
      /\ Filled(page, c).busy = page.busy /\ Filled(page, c).failed = page.failed
      /\ Filled(page, c).shows = shows
  BY <1>1, <1>2, <1>3, <1>4 DEF PageType
<1> QED BY <1>2, <1>5

LEMMA SomewhereLoading ==
    ASSUME IInv, NEW s \in Slots, calls[s].kind \notin Writes \cup {"none"}
    PROVE  page.at # Away
BY Parted DEF Gone

LEMMA LoadedInv == ASSUME IInv, NEW s \in Slots, Loaded(s) PROVE IInv'
<1>1. calls[s] \in CallType /\ page \in PageType /\ calls[s].kind = "load" /\ calls[s].todo = {}
  BY Parted DEF Loaded, Answered
<1>2. page.at # Away /\ calls[s].rec = page.at.id
  BY <1>1, Parted, SomewhereLoading DEF Writes, Requests, Loading
<1>3. (Acts' <=> Acts) /\ UNCHANGED <<screen, row>> /\ calls' = [calls EXCEPT ![s] = NoCall]
  BY SameScreen DEF Loaded
<1>4. CASE Declined(calls[s])
  <2>1. page' = [page EXCEPT !.error = TRUE]
    BY <1>4 DEF Loaded
  <2>2. /\ page' \in PageType /\ page'.at = page.at /\ page'.least = page.least
        /\ page'.crossed = page.crossed /\ page'.busy = page.busy /\ page'.error
    BY <1>1, <2>1 DEF PageType
  <2>3. Settled'
    BY <2>2 DEF Settled
  <2> QED BY <1>2, <1>3, <2>2, <2>3, DropInv
<1>5. CASE ~Declined(calls[s])
  <2>1. page' = Filled(page, calls[s])
    BY <1>5 DEF Loaded
  <2>2. /\ page' \in PageType /\ page'.at = page.at /\ page'.least = page.least
        /\ page'.crossed = page.crossed /\ page'.busy = page.busy
        /\ calls[s].rec # 0 => /\ page'.shows.from = calls[s].got.from
                               /\ page'.shows.head = calls[s].got.head
                               /\ page'.shows.lines = calls[s].got.lines
    BY <1>1, <2>1, FilledIs
  <2>3. Settled'
    <3> SUFFICES ASSUME page.at.id # 0, Acts => ~page.crossed
                 PROVE  Fresh(page.shows, page.at.id)'
      BY <1>3, <2>2 DEF Settled
    <3>1. Fresh(calls[s].got, calls[s].rec)
      BY <1>1, <1>2, ReadInFull
    <3> QED BY <1>2, <2>2, <3>1 DEF Fresh
  <2> QED BY <1>2, <1>3, <2>2, <2>3, DropInv
<1> QED BY <1>4, <1>5

LEMMA LoadFailsInv == ASSUME IInv, NEW s \in Slots, LoadFails(s) PROVE IInv'
<1>1. page \in PageType /\ page' = [page EXCEPT !.error = TRUE]
  BY Parted DEF LoadFails
<1>2. /\ page' \in PageType /\ page'.at = page.at /\ page'.least = page.least
      /\ page'.crossed = page.crossed /\ page'.busy = page.busy /\ page'.error
  BY <1>1 DEF PageType
<1>3. page.at # Away
  BY SomewhereLoading DEF LoadFails, Writes
<1>4. Settled'
  BY <1>2 DEF Settled
<1> QED BY <1>2, <1>3, <1>4, DropInv DEF LoadFails

LEMMA ReloadedInv == ASSUME IInv, NEW s \in Slots, Reloaded(s) PROVE IInv'
<1>1. calls[s] \in CallType /\ page \in PageType /\ calls[s].kind = "reload" /\ calls[s].todo = {}
  BY Parted DEF Reloaded, Answered
<1>2. page.at # Away /\ Acts /\ Pending(s)
  BY <1>1, Parted, SomewhereLoading DEF Writes, Requests, Pending
<1>3. (Acts' <=> Acts) /\ UNCHANGED <<screen, row>> /\ calls' = [calls EXCEPT ![s] = NoCall]
  BY SameScreen DEF Reloaded
<1>4. page' = [page EXCEPT !.ready = TRUE, !.shows = calls[s].got, !.busy = FALSE]
  BY DEF Reloaded
<1>5. /\ page' \in PageType /\ page'.at = page.at /\ page'.least = page.least
      /\ page'.crossed = page.crossed /\ ~page'.busy /\ page'.shows = calls[s].got
  BY <1>1, <1>4 DEF PageType, CallType
<1>6. Settled'
  <2> SUFFICES ASSUME page.at.id # 0, ~page.crossed
               PROVE  Fresh(page.shows, page.at.id)'
    BY <1>2, <1>3, <1>5 DEF Settled
  <2>1. calls[s].rec = page.at.id
    BY <1>2, Parted DEF Apart
  <2>2. Fresh(calls[s].got, calls[s].rec)
    BY <1>1, <2>1, ReadInFull
  <2> QED BY <1>5, <2>1, <2>2 DEF Fresh
<1> QED BY <1>2, <1>3, <1>5, <1>6, DropInv

LEMMA FailsInv == ASSUME IInv, NEW s \in Slots, Fails(s) PROVE IInv'
<1>1. /\ calls[s].kind \in Writes \cup {"reload"} /\ page \in PageType
      /\ (Acts' <=> Acts) /\ UNCHANGED <<screen, row>> /\ calls' = [calls EXCEPT ![s] = NoCall]
  BY Parted, SameScreen DEF Fails
<1>2. \A t \in Slots : Loading(t)' <=> Loading(t)
  BY <1>1, Parted DEF Loading, NoCall, Writes
<1>3. CASE page' = page
  <2>1. Settled'
    <3>1. Settled
      BY Parted
    <3> QED BY <1>1, <1>2, <1>3, <3>1 DEF Settled, Fresh
  <2> QED BY <1>1, <1>3, <2>1, DropInv
<1>4. CASE page' # page
  <2>1. /\ \/ calls[s].kind = "reload"
           \/ calls[s].kind # "reload" /\ calls[s].mine
        /\ page' = [page EXCEPT !.busy = FALSE, !.failed = Acts]
    BY <1>4 DEF Fails
  <2>2. Pending(s)
    BY <1>1, <2>1 DEF Pending
  <2>3. Acts \in BOOLEAN
    BY DEF Acts
  <2>4. /\ page' \in PageType /\ page'.at = page.at /\ page'.least = page.least
        /\ page'.crossed = page.crossed /\ ~page'.busy /\ page'.failed = Acts
        /\ page'.shows = page.shows /\ page'.ready = page.ready /\ page'.error = page.error
    BY <1>1, <2>1, <2>3 DEF PageType
  <2>5. page.at # Away
    <3>1. page.busy
      BY <2>2, Parted DEF OneAtATime
    <3> QED BY <3>1, Parted DEF Gone, Closed
  <2>6. Settled'
    <3>1. Settled
      BY Parted
    <3> QED BY <1>1, <1>2, <2>4, <3>1 DEF Settled, Fresh
  <2> QED BY <1>1, <2>2, <2>4, <2>5, <2>6, DropInv
<1> QED BY <1>3, <1>4

\* The server answers a part: what is read is as new as the page knows of.
LEMMA ReadInv == ASSUME IInv, NEW s \in Slots, NEW part \in Parts, Read(s, part) PROVE IInv'
<1> DEFINE c == calls[s]
           r == row[calls[s].rec]
<1>1. /\ c \in CallType /\ part \in c.todo /\ calls' = [calls EXCEPT ![s] = Took(c, part)]
      /\ UNCHANGED <<screen, page, row>> /\ part \in {"head", "lines"}
      /\ screen.gets \in {1, 2} /\ (Acts' <=> Acts)
  BY Parted, PartsAre, SameScreen DEF Read
<1>2. c.rec \in Records /\ c.rec \in Ids /\ r \in RowType
  <2>1. c.rec # 0
    BY <1>1, Parted DEF Requests
  <2> QED BY <1>1, <2>1, ANatural, Parted DEF CallType
<1>3. /\ Took(c, part) \in CallType
      /\ Took(c, part).kind = c.kind /\ Took(c, part).rec = c.rec /\ Took(c, part).mine = c.mine
      /\ Took(c, part).at = c.at /\ Took(c, part).todo = c.todo \ {part}
      /\ part = "head" => /\ Took(c, part).got.from = c.rec /\ Took(c, part).got.head = r.version
                          /\ Took(c, part).got.lines = IF screen.gets = 1 THEN r.version ELSE c.got.lines
      /\ part = "lines" => /\ Took(c, part).got.from = c.got.from
                           /\ Took(c, part).got.head = c.got.head
                           /\ Took(c, part).got.lines = r.version
  <2> DEFINE head == [c.got EXCEPT !.from = c.rec, !.about = r.about, !.head = r.version, !.status = r.status]
             got == IF part = "lines" THEN [c.got EXCEPT !.lines = r.version]
                    ELSE IF screen.gets = 1 THEN [head EXCEPT !.lines = r.version] ELSE head
  <2>1. c.got \in ContentsType /\ r.version \in Versions
    BY <1>1, <1>2 DEF CallType, RowType, ContentsType
  <2>2. Took(c, part) = [c EXCEPT !.todo = c.todo \ {part}, !.got = got]
    BY DEF Took, CallType
  <2>3. /\ head \in ContentsType /\ head.from = c.rec /\ head.head = r.version
        /\ head.lines = c.got.lines
    BY <1>2, <2>1 DEF ContentsType, RowType
  <2> HIDE DEF head
  <2>4. /\ got \in ContentsType
        /\ part = "head" => got.from = c.rec /\ got.head = r.version
                            /\ got.lines = IF screen.gets = 1 THEN r.version ELSE c.got.lines
        /\ part = "lines" => got.from = c.got.from /\ got.head = c.got.head /\ got.lines = r.version
    BY <2>1, <2>3 DEF ContentsType
  <2> HIDE DEF got
  <2>5. [c EXCEPT !.todo = c.todo \ {part}, !.got = got] \in CallType
    BY <1>1, <2>4 DEF CallType
  <2> QED BY <1>1, <2>2, <2>4, <2>5 DEF CallType
<1> HIDE DEF c, r
<1>4. calls' \in [Slots -> CallType] /\ calls'[s] = Took(c, part)
      /\ \A t \in Slots \ {s} : calls'[t] = calls[t]
  BY <1>1, <1>3, Parted
<1>5. \A t \in Slots : /\ calls'[t].kind = calls[t].kind /\ calls'[t].rec = calls[t].rec
                       /\ calls'[t].mine = calls[t].mine /\ calls'[t].at = calls[t].at
                       /\ calls'[t].todo \subseteq calls[t].todo
  BY <1>3, <1>4 DEF c
<1>6. Asking' \subseteq Asking
  BY <1>5 DEF Asking
<1>7. row' \in [Ids -> RowType] /\ Bounded' /\ Born'
  BY <1>1, <1>6, NothingWritten
<1>8. \A t \in Slots : (Pending(t)' <=> Pending(t)) /\ (Loading(t)' <=> Loading(t))
  BY <1>5 DEF Pending, Loading
<1>9. page' = page /\ row' = row
  BY <1>1
<1>10. Gone'
  BY <1>5, <1>9, Parted DEF Gone
<1>11. Requests'
  BY <1>1, <1>5, <1>8, <1>9, Parted DEF Requests
<1>12. OneAtATime' /\ Apart'
  BY <1>1, <1>5, <1>8, <1>9, Parted DEF OneAtATime, Apart
<1>13. Known' /\ Settled'
  BY <1>1, <1>8, <1>9, Parted DEF Known, Settled, Fresh
<1>14. Reading'
  <2> SUFFICES ASSUME NEW t \in Slots, calls[t].kind \in {"load", "reload"}, calls[t].rec # 0,
                      Acts => ~page.crossed
               PROVE  /\ "head" \notin calls'[t].todo =>
                            /\ calls'[t].got.from = calls[t].rec /\ calls'[t].got.head >= page.least
                            /\ screen.gets = 1 => calls'[t].got.lines >= page.least
                      /\ screen.gets = 2 /\ "lines" \notin calls'[t].todo => calls'[t].got.lines >= page.least
    BY <1>1, <1>5, <1>9 DEF Reading
  <2>1. /\ "head" \notin calls[t].todo =>
              /\ calls[t].got.from = calls[t].rec /\ calls[t].got.head >= page.least
              /\ screen.gets = 1 => calls[t].got.lines >= page.least
        /\ screen.gets = 2 /\ "lines" \notin calls[t].todo => calls[t].got.lines >= page.least
    BY Parted DEF Reading
  <2>2. CASE t # s
    BY <1>4, <2>1, <2>2
  <2>3. CASE t = s
    <3>1. c.rec = page.at.id
      <4>1. CASE c.kind = "load"
        BY <2>3, <4>1, Parted DEF Requests, Loading, c
      <4>2. CASE c.kind = "reload"
        BY <2>3, <4>2, Parted DEF Requests, Apart, Pending, c
      <4> QED BY <2>3, <4>1, <4>2 DEF c
    <3>2. r.version >= page.least
      <4>1. r.version \in Nat /\ page.least \in Nat
        BY <1>2, Parted DEF RowType, PageType, Versions
      <4>2. page.least <= r.version
        BY <1>2, <2>3, <3>1, Parted DEF Known, r, c
      <4> QED BY <4>1, <4>2
    <3>3. CASE part = "head"
      BY <1>1, <1>3, <1>4, <2>1, <2>3, <3>2, <3>3 DEF c
    <3>4. CASE part = "lines"
      BY <1>1, <1>3, <1>4, <2>1, <2>3, <3>2, <3>4 DEF c
    <3> QED BY <1>1, <3>3, <3>4
  <2> QED BY <2>2, <2>3
<1> QED BY <1>1, <1>4, <1>7, <1>9, <1>10, <1>11, <1>12, <1>13, <1>14, Parted, Assembled

\* After an action its record is read again, or nobody is left to do so.
LEMMA ActedInv == ASSUME IInv, NEW s \in Slots, Acted(s) PROVE IInv'
<1> DEFINE c == calls[s]
<1>1. /\ c \in CallType /\ c.kind \in {"amend", "post", "apply", "unpost"} /\ c.rec \in {0} \cup Records
      /\ UNCHANGED <<screen, page, row>> /\ (Acts' <=> Acts) /\ Acts /\ screen \in Screens
  BY Parted, SameScreen DEF Acted, CallType, Requests
<1>2. CASE ~c.mine
  <2>1. calls' = [calls EXCEPT ![s] = NoCall]
    BY <1>2 DEF Acted
  <2>2. Settled'
    <3>1. \A t \in Slots : Loading(t)' <=> Loading(t)
      BY <1>1, <2>1, Parted DEF Loading, NoCall
    <3> QED BY <1>1, <3>1, Parted DEF Settled, Fresh
  <2>3. page' \in PageType /\ page' = page
    BY <1>1, Parted
  <2> QED BY <1>1, <2>1, <2>2, <2>3, DropInv
<1>3. CASE c.mine
  <2> DEFINE l == LoadCall("reload", c.rec)
  <2>1. /\ l \in CallType /\ l.kind = "reload" /\ l.rec = c.rec /\ l.at = "sent" /\ l.mine = FALSE
        /\ l.todo = IF c.rec = 0 THEN {} ELSE Parts
    BY <1>1, LoadCalls
  <2>2. calls' = [calls EXCEPT ![s] = l]
    BY <1>3 DEF Acted
  <2> HIDE DEF l
  <2>3. calls' \in [Slots -> CallType] /\ calls'[s] = l /\ \A t \in Slots \ {s} : calls'[t] = calls[t]
    BY <2>1, <2>2, Parted
  <2>4. Pending(s) /\ c.kind \in Writes /\ "reload" \notin Writes
    BY <1>1, <1>3 DEF Pending, Writes
  <2>5. page.busy /\ page.at # Away
    <3>1. page.busy
      BY <2>4, Parted DEF OneAtATime
    <3> QED BY <3>1, Parted DEF Gone, Closed
  <2>6. \A t \in Slots : (Pending(t)' => Pending(t)) /\ (Loading(t)' <=> Loading(t))
                         /\ calls'[t].rec = calls[t].rec
    BY <1>1, <2>1, <2>3, <2>4 DEF Pending, Loading
  <2>7. Asking' \subseteq Asking
    BY <2>1, <2>3, <2>4 DEF Asking
  <2>8. row' \in [Ids -> RowType] /\ Bounded' /\ Born'
    BY <1>1, <2>7, NothingWritten
  <2>9. page' = page /\ row' = row
    BY <1>1
  <2>10. Gone'
    BY <2>5, <2>9 DEF Gone
  <2>11. Requests'
    <3> SUFFICES ASSUME NEW t \in Slots
                 PROVE  /\ calls'[t].rec = 0 => calls'[t].todo = {}
                        /\ Loading(t)' => calls'[t].rec = page.at.id
                        /\ calls'[t].kind \in {"reload", "amend", "post", "apply", "unpost"} => Acts
      BY <1>1, <2>9 DEF Requests
    <3>1. calls'[t].rec = 0 => calls'[t].todo = {}
      BY <2>1, <2>3, Parted DEF Requests
    <3>2. Loading(t)' => calls'[t].rec = page.at.id
      BY <2>6, Parted DEF Requests
    <3> QED BY <1>1, <3>1, <3>2
  <2>12. OneAtATime' /\ Apart'
    BY <1>1, <2>6, <2>9, Parted DEF OneAtATime, Apart
  <2>13. Known' /\ Settled'
    BY <1>1, <2>6, <2>9, Parted DEF Known, Settled, Fresh
  <2>14. Reading'
    <3> SUFFICES ASSUME NEW t \in Slots, calls'[t].kind \in {"load", "reload"}, calls'[t].rec # 0,
                        Acts => ~page.crossed
                 PROVE  /\ "head" \notin calls'[t].todo =>
                              /\ calls'[t].got.from = calls'[t].rec /\ calls'[t].got.head >= page.least
                              /\ screen.gets = 1 => calls'[t].got.lines >= page.least
                        /\ screen.gets = 2 /\ "lines" \notin calls'[t].todo => calls'[t].got.lines >= page.least
      BY <1>1, <2>9 DEF Reading
    <3>1. CASE t = s
      BY <1>1, <2>1, <2>3, <3>1, PartsAre
    <3>2. CASE t # s
      BY <2>3, <3>2, Parted DEF Reading
    <3> QED BY <3>1, <3>2
  <2> QED BY <1>1, <2>3, <2>8, <2>9, <2>10, <2>11, <2>12, <2>13, <2>14, Parted, Assembled
<1> QED BY <1>1, <1>2, <1>3 DEF CallType

-----------------------------------------------------------------------------
(* Writes. *)

\* What Start asks for is counted before it is asked for.
LEMMA StartInv ==
    ASSUME IInv, NEW kind \in Writes, NEW about \in {0} \cup Records, Start(kind, about),
           page.at # Away, kind \in {"amend", "post", "apply", "unpost"} => Acts
    PROVE  IInv'
<1> DEFINE w == WriteCall(kind, page.at.id, about)
<1>1. /\ ~page.busy /\ Free # {} /\ page \in PageType /\ calls \in [Slots -> CallType]
      /\ UNCHANGED <<screen, row>> /\ (Acts' <=> Acts) /\ calls' = Sent(calls, w)
  BY Parted, SameScreen DEF Start
<1>2. page.at.id \in {0} \cup Records
  <2>1. page.at \in Urls
    BY <1>1 DEF PageType
  <2> QED BY <2>1, Parted, Addresses
<1>3. /\ w \in CallType /\ w.kind = kind /\ w.rec = page.at.id /\ w.at = "sent" /\ w.mine = TRUE
      /\ w.todo = {}
  <2>1. PICK id \in {0} \cup Records : id = page.at.id
    BY <1>2
  <2>2. /\ WriteCall(kind, id, about) \in CallType
        /\ WriteCall(kind, id, about).kind = kind /\ WriteCall(kind, id, about).rec = id
        /\ WriteCall(kind, id, about).at = "sent" /\ WriteCall(kind, id, about).mine = TRUE
        /\ WriteCall(kind, id, about).todo = {}
    BY WriteCalls, Zenon
  <2> QED BY <2>1, <2>2
<1> HIDE DEF w
<1>4. PICK f \in Slots : /\ calls[f] = NoCall /\ calls'[f] = w
                         /\ \A t \in Slots \ {f} : calls'[t] = calls[t]
  BY <1>1, <1>3, AFreeSlot, Sending
<1>5. calls' \in [Slots -> CallType]
  BY <1>1, <1>3, Sending
<1>6. NoCall.kind = "none" /\ "none" \notin Writes /\ "load" \notin Writes /\ "reload" \notin Writes
  BY DEF NoCall, Writes
<1> DEFINE crossed == page.crossed \/ (Acts /\ \E s \in Slots : calls[s].kind = "load")
<1>7. page' = [page EXCEPT !.busy = TRUE, !.failed = FALSE, !.crossed = crossed]
  BY <1>1 DEF Start, PageType
<1>8. crossed \in BOOLEAN
  BY <1>1 DEF PageType
<1> HIDE DEF crossed
<1>9. /\ page' \in PageType /\ page'.at = page.at /\ page'.least = page.least /\ page'.busy
      /\ page'.crossed = crossed /\ page'.shows = page.shows /\ page'.ready = page.ready
      /\ page'.error = page.error
  BY <1>1, <1>7, <1>8 DEF PageType
<1>10. f \notin Asking /\ Asking' = Asking \cup {f}
  BY <1>3, <1>4, <1>6 DEF Asking
<1>11. Bounded'
  <2>1. Asked' = Asked + 1 /\ Asked \in Nat
    BY <1>10, AskedOneMore, AskedIs
  <2>2. Done' = Done /\ Done \in Nat
    BY <1>1, Parted, DoneIs, DoneBounds
  <2>3. Done + Asked < MaxWrites /\ MaxWrites \in Nat
    BY ScreensAssumption DEF Start, MayWrite
  <2>4. Done + (Asked + 1) <= MaxWrites
    BY <2>1, <2>2, <2>3
  <2>5. Done' + Asked' <= MaxWrites
    BY <2>1, <2>2, <2>4
  <2> QED BY <2>5 DEF Bounded
<1>12. row' \in [Ids -> RowType] /\ Born'
  BY <1>1, Parted DEF Born
<1>13. \A s \in Slots : ~Pending(s) /\ (Pending(s)' => s = f) /\ (Loading(s)' <=> Loading(s))
  <2>1. \A s \in Slots : ~Pending(s)
    BY <1>1, Parted DEF OneAtATime
  <2> QED BY <1>3, <1>4, <1>6, <2>1 DEF Pending, Loading
<1>14. \A s \in Slots : Loading(s) => calls'[s] = calls[s]
  BY <1>4, <1>6 DEF Loading
<1>15. Gone'
  BY <1>9 DEF Gone
<1>16. Requests'
  <2> SUFFICES ASSUME NEW t \in Slots
               PROVE  /\ calls'[t].rec = 0 => calls'[t].todo = {}
                      /\ Loading(t)' => calls'[t].rec = page.at.id
                      /\ calls'[t].kind \in {"reload", "amend", "post", "apply", "unpost"} => Acts
    BY <1>1, <1>9 DEF Requests
  <2>1. CASE t = f
    BY <1>3, <1>4, <1>6, <2>1 DEF Loading
  <2>2. CASE t # f
    BY <1>4, <1>13, <2>2, Parted DEF Requests
  <2> QED BY <2>1, <2>2
<1>17. OneAtATime'
  BY <1>9, <1>13, Parted DEF OneAtATime
<1>18. Apart'
  <2> SUFFICES ASSUME Acts, ~crossed, NEW s \in Slots
               PROVE  (Pending(s)' => calls'[s].rec = page.at.id) /\ ~Loading(s)'
    BY <1>1, <1>9 DEF Apart
  <2>1. ~Loading(s)
    BY DEF crossed, Loading
  <2> QED BY <1>3, <1>4, <1>13, <2>1
<1>19. Known'
  BY <1>1, <1>9, Parted DEF Known
<1>20. Reading'
  <2> SUFFICES ASSUME NEW t \in Slots, calls'[t].kind \in {"load", "reload"}, calls'[t].rec # 0,
                      Acts => ~crossed
               PROVE  /\ "head" \notin calls'[t].todo =>
                            /\ calls'[t].got.from = calls'[t].rec /\ calls'[t].got.head >= page.least
                            /\ screen.gets = 1 => calls'[t].got.lines >= page.least
                      /\ screen.gets = 2 /\ "lines" \notin calls'[t].todo => calls'[t].got.lines >= page.least
    BY <1>1, <1>9 DEF Reading
  <2>1. calls'[t] = calls[t]
    BY <1>3, <1>4, <1>6
  <2>2. Acts => ~page.crossed
    BY DEF crossed
  <2> QED BY <2>1, <2>2, Parted DEF Reading
<1>21. Settled'
  BY <1>1, <1>9, <1>13, Parted DEF Settled, Fresh
<1> QED BY <1>1, <1>5, <1>9, <1>11, <1>12, <1>15, <1>16, <1>17, <1>18, <1>19, <1>20, <1>21,
           Parted, Assembled

LEMMA SubmitInv == ASSUME IInv, Submit PROVE IInv'
<1>1. page.shows.about \in {0} \cup Records
  BY Parted DEF PageType, ContentsType
<1>2. "save" \in Writes
  BY DEF Writes
<1> QED BY <1>1, <1>2, StartInv DEF Submit

LEMMA PressInv == ASSUME IInv, NEW b \in screen.buttons, Press(b) PROVE IInv'
<1>1. screen \in Descriptions /\ (screen.kind # "detail" => screen.buttons \subseteq {"delete"})
  BY Parted, DescriptionsAssumption
<1>2. b \in Writes
  BY <1>1 DEF Descriptions
<1>3. b \in {"amend", "post", "apply", "unpost"} => Acts
  BY <1>1 DEF Acts
<1> QED BY <1>2, <1>3, StartInv DEF Press

\* There is a new id left for each write there may still be.
LEMMA AnUnborn == ASSUME IInv, Done < MaxWrites PROVE Unborn # {}
<1> DEFINE F == [r \in Ids |-> row[r].version]
<1> SUFFICES ASSUME Unborn = {} PROVE FALSE
  OBVIOUS
<1>1. \A r \in Ids : F[r] \in Nat
  BY Parted DEF RowType, Versions
<1>2. \A n \in NewIds : F[n] \in Nat /\ F[n] >= 1
  BY <1>1, ANatural, Parted DEF Unborn, Born
<1>3. Done = SumOver(F, Ids)
  BY DoneIs
<1> HIDE DEF F
<1>4. NewIds \in SUBSET Ids /\ IsFiniteSet(Ids) /\ IsFiniteSet(NewIds)
  BY ANatural, FS_Subset
<1>5. Cardinality(NewIds) <= SumOver(F, NewIds)
  BY <1>2, <1>4, SumCounts
<1>6. SumOver(F, NewIds) <= SumOver(F, Ids)
  BY <1>1, <1>4, SumPart
<1>7. SumOver(F, NewIds) \in Nat /\ SumOver(F, Ids) \in Nat /\ Cardinality(NewIds) \in Nat
  BY <1>1, <1>2, <1>4, SumNat, FS_CardinalityType
<1> QED BY <1>3, <1>5, <1>6, <1>7, ScreensAssumption

\* A row changed, of a record or of a new id.
LEMMA RowChanged ==
    ASSUME IInv, Done < MaxWrites, UNCHANGED screen, NEW r \in Ids, NEW st \in Statuses,
           NEW ab \in {0} \cup Records, Change(r, st, ab)
    PROVE  /\ row' \in [Ids -> RowType] /\ Done' = Done + 1 /\ Born'
           /\ \A q \in Ids : row[q].version <= row'[q].version
<1>1. /\ row' \in [Ids -> RowType] /\ Done' = Done + 1
      /\ row'[r] = [status |-> st, about |-> ab, version |-> row[r].version + 1]
      /\ \A q \in Ids \ {r} : row'[q] = row[q]
      /\ \A q \in Ids : row[q].version <= row'[q].version
  BY Parted, Changed
<1>2. row'[r].version >= 1
  <2>1. row[r].version \in Nat
    BY Parted DEF RowType, Versions
  <2> QED BY <1>1, <2>1
<1>3. \A n \in NewIds : n = r \/ row'[n] = row[n]
  BY <1>1, ANatural
<1> QED BY <1>1, <1>2, <1>3, Parted DEF Born

\* Whatever a write does, it does to one row.
LEMMA Handled ==
    ASSUME IInv, Done < MaxWrites, UNCHANGED screen, NEW c \in CallType, c.kind \in Writes, Handle(c)
    PROVE  /\ row' \in [Ids -> RowType] /\ Done' <= Done + 1 /\ Done' \in Nat /\ Born'
           /\ \A q \in Ids : row[q].version <= row'[q].version
<1>1. /\ row \in [Ids -> RowType] /\ Done \in Nat /\ c.got.about \in {0} \cup Records
      /\ {"draft", "posted", "gone"} \subseteq Statuses
  BY Parted, DoneBounds DEF CallType, ContentsType, Statuses
<1>2. CASE c.kind = "save" /\ c.rec = 0
  <2> DEFINE n == CHOOSE n \in Unborn : \A m \in Unborn : n <= m
  <2>1. n \in Unborn
    <3>1. Unborn \in SUBSET Nat /\ Unborn # {}
      BY AnUnborn, ScreensAssumption DEF Unborn
    <3> QED BY <3>1, Smallest
  <2>2. Change(n, "draft", c.got.about)
    BY <1>2 DEF Handle
  <2> HIDE DEF n
  <2>3. n \in Ids
    BY <2>1, ANatural DEF Unborn
  <2>4. /\ row' \in [Ids -> RowType] /\ Done' = Done + 1 /\ Born'
        /\ \A q \in Ids : row[q].version <= row'[q].version
    BY <1>1, <2>1, <2>2, <2>3, RowChanged
  <2> QED BY <1>1, <2>4
<1>3. CASE ~(c.kind = "save" /\ c.rec = 0)
  <2>1. PICK st \in {"draft", "posted", "gone"}, ab \in {c.got.about, row[c.rec].about} :
           Change(c.rec, st, ab)
    BY <1>3 DEF Handle, Writes
  <2>2. CASE c.rec \in Records
    <3>1. c.rec \in Ids
      BY <2>2, ANatural
    <3>2. st \in Statuses
      BY <1>1
    <3>3. ab \in {0} \cup Records
      BY <1>1, <2>1, <3>1 DEF RowType
    <3>4. Change(c.rec, st, ab)
      BY <2>1
    <3>5. /\ row' \in [Ids -> RowType] /\ Done' = Done + 1 /\ Born'
          /\ \A q \in Ids : row[q].version <= row'[q].version
      BY <2>2, <3>1, <3>2, <3>3, <3>4, RowChanged
    <3> QED BY <1>1, <3>5
  <2>3. CASE c.rec = 0
    <3>1. row' = row
      <4> DEFINE e == [status |-> st, about |-> ab, version |-> row[0].version + 1]
      <4>1. row' = [row EXCEPT ![0] = e]
        BY <2>1, <2>3 DEF Change
      <4> HIDE DEF e
      <4> QED BY <1>1, <4>1, ANatural
    <3>2. Done' = Done
      BY <3>1, DoneIs
    <3>3. \A q \in Ids : row[q].version \in Nat
      BY <1>1 DEF RowType, Versions
    <3>4. Born'
      BY <3>1, Parted DEF Born
    <3> QED BY <1>1, <3>1, <3>2, <3>3, <3>4
  <2> QED BY <2>2, <2>3 DEF CallType
<1> QED BY <1>2, <1>3

\* Rows only grow newer, so nothing the page knows of is undone.
LEMMA KnownStays ==
    ASSUME IInv, page.at.id # 0, page' = page, row' \in [Ids -> RowType],
           \A q \in Ids : row[q].version <= row'[q].version
    PROVE  page.least <= row'[page.at.id].version
<1>1. page.at.id \in Ids /\ page \in PageType
  <2>1. page.at # Away /\ page \in PageType
    BY Parted DEF Away, Url
  <2>2. page.at \in Urls
    BY <2>1 DEF PageType
  <2> QED BY <2>1, <2>2, Parted, Addresses, ANatural
<1>2. page.least <= row[page.at.id].version /\ row[page.at.id].version <= row'[page.at.id].version
  BY <1>1, Parted DEF Known
<1>3. page.least \in Nat /\ row[page.at.id].version \in Nat /\ row'[page.at.id].version \in Nat
  BY <1>1, Parted DEF PageType, RowType, Versions
<1> QED BY <1>2, <1>3

LEMMA ServeInv == ASSUME IInv, NEW s \in Slots, Serve(s) PROVE IInv'
<1> DEFINE c == calls[s]
<1>1. /\ c \in CallType /\ c.kind \in Writes /\ c.at = "sent" /\ Handle(c) /\ UNCHANGED screen
      /\ calls' = [calls EXCEPT ![s].at = "done"] /\ (Acts' <=> Acts) /\ page \in PageType
  BY Parted, SameScreen DEF Serve
<1>2. /\ calls' \in [Slots -> CallType] /\ calls'[s].at = "done"
      /\ \A t \in Slots : /\ calls'[t].kind = calls[t].kind /\ calls'[t].rec = calls[t].rec
                          /\ calls'[t].todo = calls[t].todo /\ calls'[t].mine = calls[t].mine
                          /\ calls'[t].got = calls[t].got
                          /\ t # s => calls'[t].at = calls[t].at
  <2>1. [c EXCEPT !.at = "done"] \in CallType
    BY <1>1 DEF CallType
  <2>2. calls' = [calls EXCEPT ![s] = [c EXCEPT !.at = "done"]]
    BY <1>1
  <2>3. calls'[s] = [c EXCEPT !.at = "done"] /\ \A t \in Slots \ {s} : calls'[t] = calls[t]
    BY <2>1, <2>2, Parted
  <2>4. /\ calls'[s].kind = c.kind /\ calls'[s].rec = c.rec /\ calls'[s].todo = c.todo
        /\ calls'[s].mine = c.mine /\ calls'[s].got = c.got /\ calls'[s].at = "done"
    BY <1>1, <2>3 DEF CallType
  <2>5. calls' \in [Slots -> CallType]
    BY <2>1, <2>2, Parted
  <2> QED BY <2>3, <2>4, <2>5
<1>3. s \in Asking /\ Asking' = Asking \ {s}
  BY <1>1, <1>2 DEF Asking
<1>4. Asked' = Asked - 1 /\ Asked' \in Nat /\ Asked \in Nat
  BY <1>3, AskedOneLess, AskedLess, AskedIs
<1>5. Done + Asked <= MaxWrites /\ Done \in Nat /\ MaxWrites \in Nat
  BY Parted, DoneBounds, ScreensAssumption DEF Bounded
<1>6. Done < MaxWrites
  <2>1. ASSUME NEW d \in Nat, NEW a \in Nat, NEW b \in Nat, NEW m \in Nat, b = a - 1, d + a <= m
        PROVE  d < m
    BY <2>1
  <2> QED BY <1>4, <1>5, <2>1
<1>7. /\ row' \in [Ids -> RowType] /\ Done' <= Done + 1 /\ Done' \in Nat /\ Born'
      /\ \A q \in Ids : row[q].version <= row'[q].version
  BY <1>1, <1>6, Handled
<1>8. Bounded'
  <2>1. ASSUME NEW d \in Nat, NEW e \in Nat, NEW a \in Nat, NEW b \in Nat, NEW m \in Nat,
               b = a - 1, d + a <= m, e <= d + 1
        PROVE  e + b <= m
    BY <2>1
  <2>2. Done' + Asked' <= MaxWrites
    BY <1>4, <1>5, <1>7, <2>1
  <2> QED BY <2>2 DEF Bounded
<1>9. \A t \in Slots : (Pending(t)' <=> Pending(t)) /\ (Loading(t)' <=> Loading(t))
  BY <1>2 DEF Pending, Loading
<1> DEFINE knows == c.mine /\ page.at.id = c.rec /\ Acts
<1>10. CASE ~knows
  <2>1. page' = page
    BY <1>10 DEF Serve
  <2>2. Gone' /\ Requests'
    BY <1>1, <1>2, <1>9, <2>1, Parted DEF Gone, Requests
  <2>3. OneAtATime' /\ Apart'
    BY <1>1, <1>2, <1>9, <2>1, Parted DEF OneAtATime, Apart
  <2>4. Known'
    BY <1>7, <2>1, KnownStays DEF Known
  <2>5. Settled'
    BY <1>1, <1>9, <2>1, Parted DEF Settled, Fresh
  <2>6. Reading'
    <3> SUFFICES ASSUME NEW t \in Slots, calls[t].kind \in {"load", "reload"}, calls[t].rec # 0,
                        Acts => ~page.crossed
                 PROVE  /\ "head" \notin calls[t].todo =>
                              /\ calls[t].got.from = calls[t].rec /\ calls[t].got.head >= page.least
                              /\ screen.gets = 1 => calls[t].got.lines >= page.least
                        /\ screen.gets = 2 /\ "lines" \notin calls[t].todo => calls[t].got.lines >= page.least
      BY <1>1, <1>2, <2>1 DEF Reading
    <3> QED BY Parted DEF Reading
  <2> QED BY <1>1, <1>2, <1>7, <1>8, <2>1, <2>2, <2>3, <2>4, <2>5, <2>6, Parted, Assembled
<1>11. CASE knows
  <2>1. page' = [page EXCEPT !.least = row'[c.rec].version]
    BY <1>11 DEF Serve
  <2>2. Pending(s) /\ page.busy /\ Acts
    BY <1>1, <1>11, Parted DEF Pending, OneAtATime
  <2>3. page.at # Away
    BY <2>2, Parted DEF Gone, Closed
  <2>4. c.rec \in Records /\ c.rec \in Ids
    <3>1. page.at \in Urls
      BY <1>1, <2>3 DEF PageType
    <3> QED BY <1>11, <2>2, <3>1, Parted, Addresses, ANatural
  <2>5. row'[c.rec].version \in Versions /\ row'[c.rec].version \in Nat
    BY <1>7, <2>4 DEF RowType, Versions
  <2>6. /\ page' \in PageType /\ page'.at = page.at /\ page'.busy = page.busy
        /\ page'.crossed = page.crossed /\ page'.least = row'[c.rec].version
    BY <1>1, <2>1, <2>5 DEF PageType
  <2>7. Gone'
    BY <2>3, <2>6 DEF Gone
  <2>8. Requests'
    BY <1>1, <1>2, <1>9, <2>6, Parted DEF Requests
  <2>9. OneAtATime' /\ Apart'
    BY <1>1, <1>2, <1>9, <2>6, Parted DEF OneAtATime, Apart
  <2>10. Known'
    BY <1>11, <2>5, <2>6 DEF Known
  <2>11. Settled'
    BY <1>1, <2>2, <2>6 DEF Settled
  <2>12. Reading'
    <3> SUFFICES ASSUME NEW t \in Slots, calls[t].kind \in {"load", "reload"}, ~page.crossed
                 PROVE  FALSE
      BY <1>1, <1>2, <2>2, <2>6 DEF Reading
    <3>1. calls[t].kind # "load"
      BY <2>2, Parted DEF Apart, Loading
    <3>2. Pending(t)
      BY <3>1 DEF Pending
    <3>3. t = s
      BY <2>2, <3>2, Parted DEF OneAtATime
    <3> QED BY <1>1, <3>1, <3>3 DEF Writes
  <2> QED BY <1>1, <1>2, <1>7, <1>8, <2>6, <2>7, <2>8, <2>9, <2>10, <2>11, <2>12, Parted, Assembled
<1> QED BY <1>10, <1>11

\* Nor does what other users write concern a page before it reads again.
LEMMA OthersInv == ASSUME IInv, NEW r \in Records, Others(r) PROVE IInv'
<1>1. PICK st \in {"draft", "posted", "gone"} : Change(r, st, row[r].about)
  BY DEF Others
<1>2. UNCHANGED <<screen, page, calls>> /\ Done + Asked < MaxWrites
  BY DEF Others, MayWrite
<1>3. r \in Ids /\ row[r].about \in {0} \cup Records /\ st \in Statuses
  BY ANatural, Parted DEF RowType, Statuses
<1>4. Asked \in Nat /\ Done \in Nat /\ MaxWrites \in Nat
  BY AskedIs, Parted, DoneBounds, ScreensAssumption
<1>5. Done < MaxWrites
  BY <1>2, <1>4
<1>6. /\ row' \in [Ids -> RowType] /\ Done' = Done + 1 /\ Born'
      /\ \A q \in Ids : row[q].version <= row'[q].version
  BY <1>1, <1>2, <1>3, <1>5, RowChanged
<1>7. Bounded'
  <2>1. Asked' = Asked
    BY <1>2 DEF Asked
  <2>2. (Done + 1) + Asked <= MaxWrites
    BY <1>2, <1>4
  <2>3. Done' + Asked' <= MaxWrites
    BY <1>6, <2>1, <2>2
  <2> QED BY <2>3 DEF Bounded
<1>8. /\ page' = page /\ calls' = calls /\ screen' = screen /\ (Acts' <=> Acts)
      /\ \A t \in Slots : (Pending(t)' <=> Pending(t)) /\ (Loading(t)' <=> Loading(t))
  BY <1>2, SameScreen DEF Pending, Loading
<1>9. Gone' /\ Requests'
  BY <1>8, Parted DEF Gone, Requests
<1>10. OneAtATime' /\ Apart'
  BY <1>8, Parted DEF OneAtATime, Apart
<1>11. Known'
  BY <1>6, <1>8, KnownStays DEF Known
<1>12. Reading' /\ Settled'
  BY <1>8, Parted DEF Reading, Settled, Fresh
<1> QED BY <1>6, <1>7, <1>8, <1>9, <1>10, <1>11, <1>12, Parted, Assembled

-----------------------------------------------------------------------------
(* The theorems. *)

LEMMA InitInv == ASSUME Init PROVE IInv
<1>1. /\ screen \in Screens /\ page = Closed /\ calls = [s \in Slots |-> NoCall]
      /\ \A r \in Ids : /\ row[r].version = 0
                        /\ r \in NewIds => row[r].status = "none"
  BY ANatural, ScreensAssumption DEF Init
<1>2. /\ NoCall.kind = "none" /\ NoCall.rec = 0 /\ NoCall.todo = {} /\ NoCall.mine = FALSE
      /\ Closed.at.id = 0 /\ Closed.at = Away
      /\ "load" \notin Writes /\ "reload" \notin Writes /\ "none" \notin Writes
  BY DEF NoCall, Closed, Away, Url, Writes
<1>3. page \in PageType
  <2>1. Closed = [at |-> Away, ready |-> FALSE, shows |-> Blank, error |-> FALSE, busy |-> FALSE,
                  failed |-> FALSE, least |-> 0, crossed |-> FALSE]
    BY DEF Closed
  <2> QED BY <1>1, <2>1, Empty, ANatural DEF PageType
<1>4. calls \in [Slots -> CallType]
  BY <1>1, Empty
<1>5. row \in [Ids -> RowType]
  BY ANatural DEF Init, RowType, Statuses
<1>6. \A s \in Slots : calls[s] = NoCall
  BY <1>1
<1>7. \A s \in Slots : ~Pending(s) /\ ~Loading(s) /\ calls[s].kind \in Writes \cup {"none"}
  BY <1>2, <1>6 DEF Pending, Loading
<1>8. Bounded
  <2> DEFINE F == [r \in Ids |-> row[r].version]
  <2>1. \A r \in Ids : F[r] = 0
    BY <1>1
  <2>2. Done = SumOver(F, Ids)
    BY DoneIs
  <2> HIDE DEF F
  <2>3. Done = 0
    BY <2>1, <2>2, ANatural, SumZero
  <2>4. Asking = {}
    BY <1>2, <1>6 DEF Asking
  <2>5. Asked = 0
    BY <2>4, AskedIs, FS_EmptySet
  <2> QED BY <2>3, <2>5, ScreensAssumption DEF Bounded
<1>9. Gone
  BY <1>1, <1>7 DEF Gone
<1>10. TypeOK
  BY <1>3, <1>4, <1>5, <1>9, Types
<1>11. Requests /\ OneAtATime /\ Apart
  BY <1>2, <1>6, <1>7 DEF Requests, OneAtATime, Apart
<1>12. Known /\ Settled
  BY <1>1, <1>2 DEF Known, Settled
<1>13. Reading
  BY <1>2, <1>6 DEF Reading
<1>14. Born
  BY <1>1, ANatural DEF Born
<1> QED BY <1>1, <1>8, <1>10, <1>11, <1>12, <1>13, <1>14 DEF IInv

LEMMA NextInv == ASSUME IInv, [Next]_vars PROVE IInv'
<1>1. CASE User
  <2>1. CASE Leave
    BY <2>1, LeaveInv
  <2>2. CASE Submit
    BY <2>2, SubmitInv
  <2>3. CASE \E u \in Urls : Open(u) \/ Go(u)
    BY <2>3, OpenInv, GoInv
  <2>4. CASE \E b \in screen.buttons : Press(b)
    BY <2>4, PressInv
  <2> QED BY <1>1, <2>1, <2>2, <2>3, <2>4 DEF User
<1>2. ASSUME NEW s \in Slots, Progress(s) PROVE IInv'
  <2>1. CASE \E part \in Parts : Read(s, part)
    BY <2>1, ReadInv
  <2>2. CASE Loaded(s) \/ LoadFails(s)
    BY <2>2, LoadedInv, LoadFailsInv
  <2>3. CASE Serve(s) \/ Navigates(s) \/ Acted(s)
    BY <2>3, ServeInv, NavigatesInv, ActedInv
  <2>4. CASE Reloaded(s) \/ Fails(s)
    BY <2>4, ReloadedInv, FailsInv
  <2> QED BY <1>2, <2>1, <2>2, <2>3, <2>4 DEF Progress
<1>3. CASE \E r \in Records : Others(r)
  BY <1>3, OthersInv
<1>4. CASE UNCHANGED vars
  <2>1. UNCHANGED <<screen, page, calls, row>>
    BY <1>4 DEF vars
  <2>2. Asking' = Asking
    BY <2>1 DEF Asking
  <2>3. row' \in [Ids -> RowType] /\ Bounded' /\ Born'
    BY <2>1, <2>2, NothingWritten
  <2>4. /\ page' = page /\ calls' = calls /\ row' = row /\ (Acts' <=> Acts) /\ screen' = screen
        /\ \A t \in Slots : (Pending(t)' <=> Pending(t)) /\ (Loading(t)' <=> Loading(t))
    BY <2>1, SameScreen DEF Pending, Loading
  <2>5. Gone' /\ Requests'
    BY <2>4, Parted DEF Gone, Requests
  <2>6. OneAtATime' /\ Apart'
    BY <2>4, Parted DEF OneAtATime, Apart
  <2>7. Known' /\ Reading' /\ Settled'
    BY <2>4, Parted DEF Known, Reading, Settled, Fresh
  <2> QED BY <2>1, <2>3, <2>4, <2>5, <2>6, <2>7, Parted, Assembled
<1> QED BY <1>1, <1>2, <1>3, <1>4 DEF Next

\* Every screen keeps its invariant, in whatever order its requests are answered.
THEOREM Invariance == Spec => []IInv
<1> QED BY InitInv, NextInv, PTL DEF Spec

\* Rows, page and requests have their shapes, for any screens and records.
THEOREM TypeCorrect == Spec => []TypeOK
<1>1. IInv => TypeOK
  BY DEF IInv
<1> QED BY <1>1, Invariance, PTL

\* A page that has settled shows the record of its address, no older than the
\* user has reason to expect, whatever cancelled loads and reloads come late
\* (FreshPage); not so a page on which an action and a change of address, or a
\* load, have crossed, as nothing cancels the reload after an action.
THEOREM PageFresh == Spec => []FreshPage
<1>1. IInv => FreshPage
  BY DEF IInv, Settled, FreshPage, Loading, Fresh
<1> QED BY <1>1, Invariance, PTL

\* A screen has one action under way at most and its buttons are disabled until
\* it has ended, wherever its address moves (OneActionAtATime).
THEOREM OneAction == Spec => []OneActionAtATime
<1>1. IInv => OneActionAtATime
  BY DEF IInv, OneAtATime, OneActionAtATime
<1> QED BY <1>1, Invariance, PTL

=============================================================================
