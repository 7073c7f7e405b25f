----------------------------- MODULE SessionProofs -----------------------------
(***************************************************************************)
(* Proofs about Sessions for any number of browsers, users, sessions and   *)
(* overlapping requests: a page acts as the user it shows, and requests    *)
(* that act one after the other leave an administrator and no session of   *)
(* an old password.                                                        *)
(***************************************************************************)
EXTENDS Sessions, SumTheorems, TLAPS

-----------------------------------------------------------------------------
(* The inductive invariant. *)

Row == [user : {"none"} \cup Users, password : 0..MaxPassword, live : BOOLEAN]
Page == [shows : {"nothing", "probing", "login", "app"}, user : {"none"} \cup Users, cookie : {0} \cup Tokens,
         bare : BOOLEAN]
Ops == {"me", "login", "logout"} \cup Admins
Request == [op : {"none"} \cup Ops, by : {"none"} \cup Browsers, token : {0} \cup Tokens,
            on : {"none"} \cup Users, word : 0..MaxPassword, role : {"none"} \cup Roles,
            step : {"none", "sent", "admitted", "half"} \cup Answers,
            answer : {"none", "ok", "401", "refused"}, result : {"none"} \cup Users \cup Tokens]

\* What a request is at each step.  A session's user is for good, so what was
\* found about it when the request was read stays so.
Own(ss, r) ==
    /\ r.step = "admitted" => /\ r.op \in {"login"} \cup Admins /\ r.on \in Users
                              /\ r.op = "updateUser" => r.role \in Roles
                              /\ r.op \in Admins => r.token \in Tokens /\ ss[r.token].user \in Users
    /\ r.step = "half" => r.op = "setPassword" /\ r.on \in Users
    /\ r.step \in Answers => r.by # "none"
    /\ r.step = "body" => r.answer = "401"
    /\ r.step \in Answers /\ r.answer = "ok" =>
          /\ r.op = "me" => r.token \in Tokens /\ r.result \in Users /\ ss[r.token].user = r.result
          /\ r.op = "login" => r.result \in Tokens /\ ss[r.result].user \in Users

Typed ==
    /\ user \in [Users -> [role : Roles, password : 0..MaxPassword]]
    /\ session \in [Tokens -> Row] /\ \A t \in Tokens : Live(t) => session[t].user \in Users
    /\ page \in [Browsers -> Page] /\ clean \in BOOLEAN
    /\ \A s \in Slots : Own(session, requests[s])

Requests == requests \in [Slots -> Request]

\* A page that shows the application has a cookie of the user it shows, or none.
Shows(ss, p) ==
    /\ p.shows = "app" <=> p.user # "none"
    /\ p.shows = "app" /\ p.cookie # 0 => ss[p.cookie].user = p.user

\* What a page is while it waits for a request: one that probes its session
\* waits for nothing else and keeps its cookie until it is told of a 401; one
\* that logs in shows the form, waits for one log-in, and has nobody else's
\* cookie once that one is granted.
WaitsIn(rs, pp, s) ==
    rs[s].by # "none" =>
        /\ rs[s].op = "me" /\ rs[s].step # "body" =>
              /\ pp[rs[s].by].shows = "probing"
              /\ \A u \in Slots \ {s} : rs[u].by # rs[s].by
              /\ (rs[s].step = "received" /\ rs[s].answer = "401") \/ rs[s].token = pp[rs[s].by].cookie
        /\ rs[s].op = "login" =>
              /\ pp[rs[s].by].shows = "login"
              /\ \A u \in Slots \ {s} : rs[u].by = rs[s].by => rs[u].op # "login"
              /\ rs[s].step = "received" /\ rs[s].answer = "ok" => pp[rs[s].by].cookie \in {0, rs[s].result}

\* A page that shows a user and had a cookie is about to hear that it is gone.
DropsIn(rs, pp, b) ==
    pp[b].shows = "app" /\ pp[b].cookie = 0 /\ ~pp[b].bare =>
        \E s \in Slots : rs[s].by = b /\ rs[s].step = "received" /\ Clears(rs[s])

Waiting == \A s \in Slots : WaitsIn(requests, page, s)
Told == \A b \in Browsers : DropsIn(requests, page, b)

Acts(r) == r.step \in {"admitted", "half"}

\* What was found when a request was admitted.
Vouched(r) ==
    r.step = "admitted" =>
        /\ r.op = "updateUser" => user[session[r.token].user].role = "admin" /\ SelfSpared(r)
        /\ r.op = "login" => r.word = user[r.on].password

\* What holds as long as requests act one after the other.
Orderly ==
    /\ \E u \in Users : user[u].role = "admin"
    /\ \A s \in Slots : Acts(requests[s]) =>
          Vouched(requests[s]) /\ \A u \in Slots \ {s} : ~Acts(requests[u])
    /\ \A t \in Tokens : Live(t) =>
          \/ session[t].password = user[session[t].user].password
          \/ \E s \in Slots : requests[s].step = "half" /\ requests[s].on = session[t].user

Core == Typed /\ (\A b \in Browsers : Shows(session, page[b])) /\ Waiting /\ Told /\ (clean => Orderly)
IInv == Core /\ Requests
-----------------------------------------------------------------------------
(* Requests. *)

\* The value the tokens and passwords range over.
LEMMA Bounds == MaxSessions \in Nat /\ MaxPassword \in Nat /\ "none" \notin Users \cup Browsers /\ 0 \notin Tokens
                /\ Tokens \subseteq Nat
BY SessionAssumption DEF Tokens

LEMMA NoRequestIs ==
    /\ NoRequest \in Request /\ NoRequest.by = "none" /\ NoRequest.step = "none" /\ NoRequest.op = "none"
    /\ ~Acts(NoRequest) /\ \A ss : Own(ss, NoRequest)
<1>1. 0 \in 0..MaxPassword
  BY Bounds
<1>2. NoRequest \in Request /\ NoRequest.by = "none" /\ NoRequest.step = "none" /\ NoRequest.op = "none"
  BY <1>1 DEF NoRequest, Request
<1> QED BY <1>2 DEF Acts, Own, Answers

\* The server moves a request on before it is answered; who waits for it, and
\* for what, does not change, or nobody waits.
Kept(q, p) ==
    \/ q = p
    \/ /\ q.by = "none" \/ (q.by = p.by /\ q.op = p.op /\ q.token = p.token)
       /\ p.step \notin {"received", "body"} /\ q.step \notin {"received", "body"}

\* The work of a request goes on as it was, or there is none; or its answer is
\* taken note of.
Alike(q, p) ==
    /\ q.op = p.op /\ q.token = p.token /\ q.on = p.on /\ q.word = p.word /\ q.role = p.role
    /\ q.answer = p.answer /\ q.result = p.result
Same(q, p) == Alike(q, p) /\ q.step = p.step
Noted(q, p) ==
    Alike(q, p) /\ p.step \in Answers /\ q.step \in Answers /\ (q.step = "body" => p.answer = "401")
Goes(q, p) ==
    /\ q \in Request /\ (q.step \in Answers => q.by # "none") /\ (p.step = "half" => Same(q, p))
    /\ q.step \in {"none", "sent"} \/ Same(q, p) \/ Noted(q, p)

\* What was true of a request is, after a step that leaves sessions their users.
LEMMA OwnStays ==
    ASSUME NEW ss, NEW tt, NEW r, Own(ss, r), \A t \in Tokens : ss[t].user \in Users => tt[t].user = ss[t].user
    PROVE  Own(tt, r)
BY DEF Own

LEMMA OwnGoes ==
    ASSUME NEW ss, NEW p, NEW q, Own(ss, p), Goes(q, p)
    PROVE  Own(ss, q)
BY DEF Own, Goes, Same, Alike, Noted, Answers

\* The server moves requests on, and the pages wait as they did.
LEMMA WaitingKept ==
    ASSUME Waiting, Told, page' = page, \A s \in Slots : Kept(requests'[s], requests[s])
    PROVE  Waiting' /\ Told'
<1>1. ASSUME NEW s \in Slots PROVE WaitsIn(requests', page', s)
  <2> SUFFICES ASSUME requests'[s].by # "none" PROVE WaitsIn(requests', page', s)
    BY DEF WaitsIn
  <2>1. WaitsIn(requests, page, s) /\ Kept(requests'[s], requests[s])
    BY DEF Waiting
  <2>2. requests[s].by = requests'[s].by /\ requests[s].op = requests'[s].op /\ requests[s].token = requests'[s].token
    BY <2>1 DEF Kept
  <2>3. \A u \in Slots : requests'[u].by # "none" => requests'[u].by = requests[u].by /\ requests'[u].op = requests[u].op
    BY DEF Kept
  <2> QED BY <2>1, <2>2, <2>3 DEF WaitsIn, Kept
<1>2. ASSUME NEW b \in Browsers PROVE DropsIn(requests', page', b)
  <2>1. DropsIn(requests, page, b)
    BY DEF Told
  <2>2. \A s \in Slots : requests[s].step = "received" => requests'[s] = requests[s]
    BY DEF Kept
  <2> QED BY <2>1, <2>2 DEF DropsIn
<1> QED BY <1>1, <1>2 DEF Waiting, Told

\* One browser's page and requests change: the others wait as they did.
LEMMA OthersWait ==
    ASSUME Waiting, Told, NEW b, b # "none", \A c \in Browsers \ {b} : page'[c] = page[c],
           \A u \in Slots : requests[u].by \in {"none"} \cup Browsers,
           \A u \in Slots : requests'[u].by # b /\ requests'[u].by # "none" => requests'[u] = requests[u],
           \A u \in Slots : requests[u].by # b /\ requests[u].by # "none" => requests'[u] = requests[u],
           \A u \in Slots : requests'[u].by = b => WaitsIn(requests', page', u),
           DropsIn(requests', page', b)
    PROVE  Waiting' /\ Told'
<1>1. ASSUME NEW s \in Slots PROVE WaitsIn(requests', page', s)
  <2> SUFFICES ASSUME requests'[s].by # "none", requests'[s].by # b PROVE WaitsIn(requests', page', s)
    BY DEF WaitsIn
  <2>1. WaitsIn(requests, page, s) /\ requests'[s] = requests[s] /\ page'[requests[s].by] = page[requests[s].by]
    BY DEF Waiting
  <2>2. \A u \in Slots : requests'[u].by = requests[s].by => requests'[u] = requests[u]
    BY <2>1
  <2>3. requests[s].op = "login" => \A u \in Slots \ {s} : requests'[u].by = requests[s].by => requests'[u].op # "login"
    BY <2>1, <2>2 DEF WaitsIn
  <2>4. requests[s].op = "me" /\ requests[s].step # "body" => \A u \in Slots \ {s} : requests'[u].by # requests[s].by
    BY <2>1, <2>2 DEF WaitsIn
  <2> QED BY <2>1, <2>3, <2>4 DEF WaitsIn
<1>2. ASSUME NEW c \in Browsers, c # b, c # "none" PROVE DropsIn(requests', page', c)
  <2>1. DropsIn(requests, page, c) /\ page'[c] = page[c]
    BY <1>2 DEF Told
  <2>2. \A s \in Slots : requests[s].by = c => requests'[s] = requests[s]
    BY <1>2
  <2> QED BY <2>1, <2>2 DEF DropsIn
<1>3. "none" \notin Browsers
  BY Bounds
<1> QED BY <1>1, <1>2, <1>3 DEF Waiting, Told

\* The pages go on showing whom they have a cookie of.
LEMMA ShowsStay ==
    ASSUME NEW ss, NEW tt, NEW p \in Page, Shows(ss, p),
           \A t \in Tokens : ss[t].user \in Users => tt[t].user = ss[t].user
    PROVE  Shows(tt, p)
BY DEF Shows, Page

\* What is asked and answered changes, and the rows do not.
LEMMA QuietKeeps ==
    ASSUME IInv, UNCHANGED <<user, session, clean>>,
           page' \in [Browsers -> Page], \A b \in Browsers : Shows(session, page'[b]),
           requests' = [s \in Slots |-> requests'[s]], \A s \in Slots : Goes(requests'[s], requests[s]),
           Waiting', Told'
    PROVE  IInv'
<1>1. user' = user /\ session' = session /\ clean' = clean
  OBVIOUS
<1>2. requests' \in [Slots -> Request]
  BY DEF Goes
<1>3. \A s \in Slots : Own(session, requests'[s])
  BY OwnGoes DEF IInv, Core, Typed
<1>4. \A t \in Tokens : Live(t)' = Live(t)
  BY <1>1 DEF Live
<1>5. Typed'
  BY <1>1, <1>3, <1>4 DEF IInv, Core, Typed
<1>6. ASSUME clean PROVE Orderly'
  <2>1. Orderly
    BY <1>6 DEF IInv, Core
  <2>2. \A s \in Slots : Acts(requests'[s]) => Acts(requests[s]) /\ Same(requests'[s], requests[s])
    BY DEF Goes, Acts, Same, Noted, Answers
  <2>3. \A s \in Slots : Acts(requests'[s]) => Vouched(requests[s])'
    BY <1>1, <2>1, <2>2 DEF Orderly, Vouched, Same, Alike, SelfSpared
  <2>4. \A s \in Slots : requests[s].step = "half" => requests'[s].step = "half" /\ requests'[s].on = requests[s].on
    BY DEF Goes, Same, Alike
  <2> QED BY <1>1, <1>4, <2>1, <2>2, <2>3, <2>4 DEF Orderly
<1>7. \A b \in Browsers : Shows(session, page[b])'
  BY <1>1
<1>8. (clean => Orderly)'
  BY <1>1, <1>6
<1>9. Requests'
  BY <1>2 DEF Requests
<1> QED BY <1>5, <1>7, <1>8, <1>9 DEF IInv, Core

\* The server moves one request on, or none.
LEMMA ServerKeeps ==
    ASSUME IInv, page' = page, user' \in [Users -> [role : Roles, password : 0..MaxPassword]],
           session' \in [Tokens -> Row], \A t \in Tokens : session'[t].live => session'[t].user \in Users,
           \A t \in Tokens : session[t].user \in Users => session'[t].user = session[t].user,
           requests' = [s \in Slots |-> requests'[s]],
           \A s \in Slots : requests'[s] \in Request /\ Kept(requests'[s], requests[s])
                            /\ Own(session', requests'[s]),
           clean' \in BOOLEAN, clean' => Orderly'
    PROVE  IInv'
<1>1. requests' \in [Slots -> Request]
  OBVIOUS
<1>2. \A t \in Tokens : Live(t)' <=> session'[t].live
  BY Bounds DEF Live
<1>3. Typed'
  BY <1>2 DEF IInv, Core, Typed
<1>4. \A b \in Browsers : page[b] \in Page /\ Shows(session, page[b])
  BY DEF IInv, Core, Typed
<1>5. \A b \in Browsers : Shows(session', page[b])
  BY <1>4, ShowsStay
<1>6. Waiting' /\ Told'
  BY WaitingKept DEF IInv, Core
<1>7. Requests'
  BY <1>1 DEF Requests
<1>8. \A b \in Browsers : Shows(session, page[b])'
  BY <1>5
<1> QED BY <1>3, <1>6, <1>7, <1>8 DEF IInv, Core
-----------------------------------------------------------------------------
(* The page. *)

\* What a browser sends.
LEMMA SentIs ==
    ASSUME IInv, NEW b \in Browsers, NEW op \in Ops, NEW q, q = Sent(b, [NoRequest EXCEPT !.op = op])
    PROVE  q \in Request /\ q.op = op /\ q.by = b /\ q.token = page[b].cookie /\ q.step = "sent"
<1> DEFINE n == NoRequest
<1>1. n \in Request /\ q = [[n EXCEPT !.op = op] EXCEPT !.by = b, !.token = page[b].cookie, !.step = "sent"]
  BY NoRequestIs DEF Sent
<1>2. page[b].cookie \in {0} \cup Tokens
  BY DEF IInv, Core, Typed, Page
<1> HIDE DEF n
<1> QED BY <1>1, <1>2 DEF Request

\* What pages and requests are before a step.
LEMMA PagesAre ==
    ASSUME IInv
    PROVE  /\ requests \in [Slots -> Request] /\ page \in [Browsers -> Page] /\ "none" \notin Browsers
           /\ \A u \in Slots : /\ requests[u] \in Request /\ Own(session, requests[u])
                               /\ requests[u].by \in {"none"} \cup Browsers
                               /\ Goes(requests[u], requests[u]) /\ WaitsIn(requests, page, u)
           /\ \A c \in Browsers : page[c] \in Page /\ Shows(session, page[c]) /\ DropsIn(requests, page, c)
<1>1. requests \in [Slots -> Request] /\ \A u \in Slots : Own(session, requests[u])
  BY DEF IInv, Core, Typed, Requests
<1>2. \A u \in Slots : Goes(requests[u], requests[u])
  BY <1>1 DEF Goes, Same, Alike, Own
<1>3. \A u \in Slots : requests[u].by \in {"none"} \cup Browsers
  BY <1>1 DEF Request
<1> QED BY <1>1, <1>2, <1>3, Bounds DEF IInv, Core, Typed, Waiting, Told

\* A page that is gone.
LEMMA GoneIs ==
    ASSUME NEW r \in Request
    PROVE  Goes(Gone(r), r) /\ Gone(r).by = "none"
<1>1. CASE r.step \in Answers
  BY <1>1, NoRequestIs DEF Gone, Goes, Answers
<1>2. CASE r.step \notin Answers
  <2> DEFINE q == [r EXCEPT !.by = "none"]
  <2>1. q \in Request /\ q.by = "none" /\ Same(q, r)
    BY DEF Request, Same, Alike
  <2>2. Gone(r) = q
    BY <1>2 DEF Gone
  <2> HIDE DEF q
  <2> QED BY <1>2, <2>1, <2>2 DEF Goes, Same
<1> QED BY <1>1, <1>2

\* One request and the page that waits for it change.
LEMMA OneKeeps ==
    ASSUME IInv, NEW s \in Slots, NEW b \in Browsers, UNCHANGED <<user, session, clean>>,
           NEW q, Goes(q, requests[s]), requests' = [requests EXCEPT ![s] = q],
           requests[s].by \in {"none", b}, q.by \in {"none", b},
           NEW p \in Page, Shows(session, p), page' = [page EXCEPT ![b] = p],
           q.by = b => WaitsIn(requests', page', s),
           \A u \in Slots \ {s} : requests[u].by = b => WaitsIn(requests', page', u),
           DropsIn(requests', page', b)
    PROVE  IInv'
<1>1. requests' = [u \in Slots |-> requests'[u]] /\ requests'[s] = q
      /\ \A u \in Slots \ {s} : requests'[u] = requests[u]
  BY PagesAre
<1>2. \A u \in Slots : Goes(requests'[u], requests[u])
  BY <1>1, PagesAre
<1>3. page' \in [Browsers -> Page] /\ (\A c \in Browsers : Shows(session, page'[c]))
      /\ \A c \in Browsers \ {b} : page'[c] = page[c]
  BY PagesAre
<1>4. b # "none" /\ (\A u \in Slots : requests[u].by \in {"none"} \cup Browsers) /\ Waiting /\ Told
  BY PagesAre DEF IInv, Core
<1>5. \A u \in Slots : requests'[u].by # b /\ requests'[u].by # "none" => requests'[u] = requests[u]
  BY <1>1
<1>6. \A u \in Slots : requests[u].by # b /\ requests[u].by # "none" => requests'[u] = requests[u]
  BY <1>1
<1>7. \A u \in Slots : requests'[u].by = b => WaitsIn(requests', page', u)
  BY <1>1
<1>8. Waiting' /\ Told'
  BY <1>3, <1>4, <1>5, <1>6, <1>7, OthersWait
<1> QED BY <1>1, <1>2, <1>3, <1>8, QuietKeeps

\* A page that shows a user is not probing: nothing it asks for is a probe, and
\* the form asks for one log-in.
LEMMA AskKeeps ==
    ASSUME IInv, NEW b \in Browsers, page[b].shows # "probing", NEW op \in Ops \ {"me"},
           op = "login" => page[b].shows = "login" /\ ~Busy(b, "login"),
           Ask(b, [NoRequest EXCEPT !.op = op]), UNCHANGED <<user, session, page, clean>>
    PROVE  IInv'
<1> DEFINE q == Sent(b, [NoRequest EXCEPT !.op = op])
<1>1. q \in Request /\ q.op = op /\ q.by = b /\ q.token = page[b].cookie /\ q.step = "sent"
  BY SentIs
<1>2. PICK s \in Slots : requests[s] = NoRequest /\ requests' = [requests EXCEPT ![s] = q]
  BY DEF Ask, Put, Free
<1> HIDE DEF q
<1>3. requests'[s] = q /\ \A u \in Slots \ {s} : requests'[u] = requests[u]
  BY <1>2, PagesAre
<1>4. Goes(q, requests[s])
  BY <1>1, <1>2, NoRequestIs DEF Goes, Answers
<1>5. page[b] \in Page /\ Shows(session, page[b]) /\ page' = [page EXCEPT ![b] = page[b]] /\ page' = page
  BY PagesAre
<1>6. WaitsIn(requests', page', s)
  BY <1>1, <1>3, <1>5 DEF WaitsIn, Busy
<1>7. ASSUME NEW u \in Slots \ {s}, requests[u].by = b PROVE WaitsIn(requests', page', u)
  <2>1. WaitsIn(requests, page, u) /\ b # "none"
    BY PagesAre
  <2>2. ~(requests[u].op = "me" /\ requests[u].step # "body")
    BY <1>7, <2>1 DEF WaitsIn
  <2>3. requests[u].op = "login" => op # "login"
    BY <1>7 DEF Busy
  <2> QED BY <1>1, <1>3, <1>5, <1>7, <2>1, <2>2, <2>3 DEF WaitsIn
<1>8. DropsIn(requests', page', b)
  <2>1. DropsIn(requests, page, b) /\ requests[s].by # b
    BY <1>2, PagesAre, NoRequestIs
  <2> QED BY <1>3, <1>5, <2>1 DEF DropsIn
<1>9. requests[s].by \in {"none", b}
  BY <1>2, NoRequestIs
<1> QED BY <1>1, <1>2, <1>4, <1>5, <1>6, <1>7, <1>8, <1>9, OneKeeps

\* App is mounted anew, and what it was waiting for goes on without it.
LEMMA VisitKeeps == ASSUME IInv, NEW b \in Browsers, Visit(b) PROVE IInv'
<1> DEFINE q == Sent(b, [NoRequest EXCEPT !.op = "me"])
           p == [page[b] EXCEPT !.shows = "probing", !.user = "none", !.bare = FALSE]
<1>1. q \in Request /\ q.op = "me" /\ q.by = b /\ q.token = page[b].cookie /\ q.step = "sent"
  BY SentIs DEF Ops
<1>2. PICK s \in Free : requests' = [Abandoned(b) EXCEPT ![s] = q]
  BY DEF Visit
<1>3. page' = [page EXCEPT ![b] = p] /\ UNCHANGED <<user, session, clean>>
  BY DEF Visit
<1>4. s \in Slots /\ requests[s] = NoRequest
  BY DEF Free
<1>5. /\ requests' = [u \in Slots |-> requests'[u]] /\ requests'[s] = q
      /\ \A u \in Slots \ {s} : requests'[u] = IF requests[u].by = b THEN Gone(requests[u]) ELSE requests[u]
  BY <1>2, <1>4 DEF Abandoned
<1>6. p \in Page /\ p.shows = "probing" /\ p.user = "none" /\ p.cookie = page[b].cookie
  BY PagesAre DEF Page
<1> HIDE DEF q, p
<1>7. \A u \in Slots \ {s} : Goes(requests'[u], requests[u]) /\ requests'[u].by # b
  BY <1>5, GoneIs, PagesAre
<1>8. \A u \in Slots : Goes(requests'[u], requests[u])
  <2>1. Goes(q, requests[s])
    BY <1>1, <1>4, NoRequestIs DEF Goes, Answers
  <2> QED BY <1>5, <1>7, <2>1
<1>9. page'[b] = p /\ (\A c \in Browsers \ {b} : page'[c] = page[c]) /\ page' \in [Browsers -> Page]
  BY <1>3, <1>6, PagesAre
<1>10. \A c \in Browsers : Shows(session, page'[c])
  <2>1. Shows(session, p)
    BY <1>6 DEF Shows
  <2> QED BY <1>9, <2>1, PagesAre
<1>11. Waiting' /\ Told'
  <2>1. WaitsIn(requests', page', s)
    BY <1>1, <1>5, <1>6, <1>7, <1>9 DEF WaitsIn
  <2>2. \A u \in Slots : requests'[u].by = b => WaitsIn(requests', page', u)
    BY <1>7, <2>1
  <2>3. DropsIn(requests', page', b)
    BY <1>6, <1>9 DEF DropsIn
  <2>4. \A u \in Slots \ {s} : requests[u].by # b => requests'[u] = requests[u]
    BY <1>5
  <2>5. \A u \in Slots \ {s} : requests[u].by = b => requests'[u].by = "none"
    BY <1>5, GoneIs, PagesAre
  <2>6. \A u \in Slots : requests'[u].by # b /\ requests'[u].by # "none" => requests'[u] = requests[u]
    BY <1>1, <1>5, <2>4, <2>5
  <2>7. \A u \in Slots : requests[u].by # b /\ requests[u].by # "none" => requests'[u] = requests[u]
    BY <1>4, <2>4, NoRequestIs
  <2>8. b # "none" /\ (\A u \in Slots : requests[u].by \in {"none"} \cup Browsers) /\ Waiting /\ Told
    BY PagesAre DEF IInv, Core
  <2> QED BY <1>9, <2>2, <2>3, <2>6, <2>7, <2>8, OthersWait
<1> QED BY <1>3, <1>5, <1>8, <1>9, <1>10, <1>11, QuietKeeps

\* The page drops to the login form, and may still wait for the body of a 401.
LEMMA LoginKeeps ==
    ASSUME IInv, NEW s \in Slots, requests[s].by \in Browsers, UNCHANGED <<user, session, clean>>,
           NEW q, Goes(q, requests[s]), requests' = [requests EXCEPT ![s] = q], ToLogin(requests[s].by),
           q.by = "none" \/ (q.by = requests[s].by /\ q.op = requests[s].op /\ q.step = "body")
    PROVE  IInv'
<1> DEFINE b == requests[s].by
           p == [page[b] EXCEPT !.shows = "login", !.user = "none", !.bare = FALSE]
<1>1. page' = [page EXCEPT ![b] = p]
  BY DEF ToLogin
<1>2. page[b] \in Page /\ b # "none"
  BY PagesAre
<1>3. p \in Page /\ p.shows = "login" /\ p.user = "none" /\ p.cookie = page[b].cookie
  BY <1>2 DEF Page
<1> HIDE DEF p
<1>4. page'[b] = p /\ requests'[s] = q /\ \A u \in Slots \ {s} : requests'[u] = requests[u]
  BY <1>1, PagesAre
<1>5. Shows(session, p)
  BY <1>3 DEF Shows
<1>6. DropsIn(requests', page', b)
  BY <1>3, <1>4 DEF DropsIn
<1>7. ASSUME NEW u \in Slots \ {s}, requests[u].by = b PROVE WaitsIn(requests', page', u)
  <2>1. WaitsIn(requests, page, u)
    BY PagesAre
  <2>2. ~(requests[u].op = "me" /\ requests[u].step # "body")
    BY <1>2, <1>7, <2>1 DEF WaitsIn
  <2>3. \A v \in Slots \ {u} : requests'[v].by = b => requests[v].by = b /\ requests'[v].op = requests[v].op
    BY <1>2, <1>4
  <2> QED BY <1>2, <1>3, <1>4, <1>7, <2>1, <2>2, <2>3 DEF WaitsIn
<1>8. q.by = b => WaitsIn(requests', page', s)
  <2>1. WaitsIn(requests, page, s)
    BY PagesAre
  <2> QED BY <1>2, <1>3, <1>4, <2>1 DEF WaitsIn
<1>9. b \in Browsers /\ b \in {"none", b} /\ q.by \in {"none", b}
  OBVIOUS
<1> HIDE DEF b
<1> QED BY <1>1, <1>3, <1>5, <1>6, <1>7, <1>8, <1>9, OneKeeps DEF b

\* A request is over and the page stays, which had nothing to be told by it.
LEMMA OverKeeps ==
    ASSUME IInv, NEW s \in Slots, requests[s].by \in Browsers, UNCHANGED <<user, session, page, clean>>,
           NEW q, Goes(q, requests[s]), requests' = [requests EXCEPT ![s] = q], q.by = "none",
           requests[s].step = "received" => ~Clears(requests[s])
    PROVE  IInv'
<1> DEFINE b == requests[s].by
<1>1. page[b] \in Page /\ Shows(session, page[b]) /\ page' = [page EXCEPT ![b] = page[b]] /\ b # "none"
  BY PagesAre
<1>2. requests'[s] = q /\ \A u \in Slots \ {s} : requests'[u] = requests[u]
  BY PagesAre
<1>3. DropsIn(requests', page', b)
  <2>1. DropsIn(requests, page, b)
    BY PagesAre
  <2> QED BY <1>2, <2>1 DEF DropsIn
<1>4. ASSUME NEW u \in Slots \ {s}, requests[u].by = b PROVE WaitsIn(requests', page', u)
  <2>1. WaitsIn(requests, page, u)
    BY PagesAre
  <2> QED BY <1>1, <1>2, <1>4, <2>1 DEF WaitsIn
<1>5. b \in Browsers /\ b \in {"none", b} /\ q.by \in {"none", b} /\ q.by # b
  BY <1>1
<1> HIDE DEF b
<1> QED BY <1>1, <1>3, <1>4, <1>5, OneKeeps DEF b

LEMMA LostKeeps == ASSUME IInv, NEW s \in Slots, Lost(s) PROVE IInv'
<1> DEFINE r == requests[s]
<1>1. r \in Request /\ r.by \in Browsers /\ UNCHANGED <<user, session, clean>>
  BY PagesAre DEF Lost
<1>2. \E q : requests' = [requests EXCEPT ![s] = q] /\ Goes(q, r) /\ q.by = "none"
  <2>1. Goes(Gone(r), r) /\ Gone(r).by = "none"
    BY <1>1, GoneIs
  <2>2. r.step = "sent" => Goes(NoRequest, r) /\ NoRequest.by = "none"
    BY NoRequestIs DEF Goes, Answers
  <2> QED BY <2>1, <2>2 DEF Lost, Put
<1>3. CASE r.op \in {"me", "logout"}
  <2>1. ToLogin(r.by)
    BY <1>3 DEF Lost
  <2> QED BY <1>1, <1>2, <2>1, LoginKeeps
<1>4. CASE r.op \notin {"me", "logout"}
  <2>1. page' = page /\ (r.step = "received" => ~Clears(r))
    BY <1>4 DEF Lost, Clears
  <2> QED BY <1>1, <1>2, <2>1, OverKeeps
<1> QED BY <1>3, <1>4

\* The headers of an answer: the cookie changes, and the page does not know.
LEMMA ReceivesKeep == ASSUME IInv, NEW s \in Slots, Receives(s) PROVE IInv'
<1> DEFINE r == requests[s]
           b == requests[s].by
           q == [r EXCEPT !.step = "received"]
           p == [page[b] EXCEPT !.cookie = Cookie(r)]
<1>1. /\ r \in Request /\ b \in Browsers /\ r.step = "answered" /\ UNCHANGED <<user, session, clean>>
      /\ requests' = [requests EXCEPT ![s] = q] /\ page' = [page EXCEPT ![b] = p]
  BY PagesAre DEF Receives, Put
<1>2. /\ page[b] \in Page /\ Shows(session, page[b]) /\ b # "none" /\ Own(session, r)
      /\ WaitsIn(requests, page, s) /\ DropsIn(requests, page, b)
  BY <1>1, PagesAre
<1>3. /\ q \in Request /\ q.by = b /\ q.op = r.op /\ q.token = r.token /\ q.answer = r.answer
      /\ q.result = r.result /\ q.step = "received" /\ Alike(q, r)
  BY <1>1 DEF Request, Answers, Alike
<1>4. Cookie(r) \in {0} \cup Tokens
  BY <1>1, <1>2 DEF Cookie, Own, Answers, Page
<1>5. /\ p \in Page /\ p.shows = page[b].shows /\ p.user = page[b].user /\ p.bare = page[b].bare
      /\ p.cookie = Cookie(r)
  BY <1>2, <1>4 DEF Page
<1> HIDE DEF q, p
<1>6. page'[b] = p /\ requests'[s] = q /\ \A u \in Slots \ {s} : requests'[u] = requests[u]
  BY <1>1, PagesAre
<1>7. Goes(q, r)
  BY <1>1, <1>2, <1>3 DEF Goes, Noted, Answers
<1>8. r.op = "login" => page[b].shows = "login"
  BY <1>2 DEF WaitsIn
<1>9. Cookie(r) \in {0, page[b].cookie} \/ (r.op = "login" /\ r.answer = "ok" /\ Cookie(r) = r.result)
  BY DEF Cookie
<1>10. Shows(session, p)
  BY <1>2, <1>5, <1>8, <1>9 DEF Shows
<1>11. WaitsIn(requests', page', s)
  <2>1. r.op = "me" => \/ r.answer = "401"
                       \/ Cookie(r) = page[b].cookie
    BY DEF Cookie, Clears
  <2>2. r.op = "login" /\ r.answer = "ok" => Cookie(r) = r.result
    BY DEF Cookie
  <2> QED BY <1>1, <1>2, <1>3, <1>5, <1>6, <2>1, <2>2 DEF WaitsIn
<1>12. ASSUME NEW u \in Slots \ {s}, requests[u].by = b PROVE WaitsIn(requests', page', u)
  <2>1. WaitsIn(requests, page, u)
    BY PagesAre
  <2>2. ~(requests[u].op = "me" /\ requests[u].step # "body")
    BY <1>2, <1>12, <2>1 DEF WaitsIn
  <2>3. requests[u].op = "login" => r.op # "login"
    BY <1>2, <1>12, <2>1 DEF WaitsIn
  <2>4. requests[u].op = "login" => Cookie(r) \in {0, page[b].cookie}
    BY <1>9, <2>3
  <2>5. \A v \in Slots \ {u} : requests'[v].by = b => requests[v].by = b /\ requests'[v].op = requests[v].op
    BY <1>3, <1>6
  <2> QED BY <1>2, <1>5, <1>6, <1>12, <2>1, <2>2, <2>4, <2>5 DEF WaitsIn
<1>13. DropsIn(requests', page', b)
  <2> SUFFICES ASSUME p.shows = "app", p.cookie = 0, ~p.bare
               PROVE  \E u \in Slots : requests'[u].by = b /\ requests'[u].step = "received" /\ Clears(requests'[u])
    BY <1>6 DEF DropsIn
  <2>1. CASE page[b].cookie = 0
    <3>1. PICK u \in Slots : requests[u].by = b /\ requests[u].step = "received" /\ Clears(requests[u])
      BY <1>2, <1>5, <2>1 DEF DropsIn
    <3>2. requests'[u] = requests[u]
      BY <1>1, <1>6, <3>1
    <3> QED BY <3>1, <3>2
  <2>2. CASE page[b].cookie # 0
    <3>1. Clears(r)
      BY <1>5, <1>8, <2>2 DEF Cookie
    <3>2. Clears(q)
      BY <1>3, <3>1 DEF Clears
    <3> QED BY <1>3, <1>6, <3>2
  <2> QED BY <2>1, <2>2
<1>14. b \in {"none", b} /\ q.by \in {"none", b}
  BY <1>3
<1> HIDE DEF b, r
<1> QED BY <1>1, <1>5, <1>7, <1>10, <1>11, <1>12, <1>13, <1>14, OneKeeps DEF b, r

\* A 401 is noticed.
LEMMA UnauthorizedKeeps == ASSUME IInv, NEW s \in Slots, Unauthorized(s) PROVE IInv'
<1> DEFINE r == requests[s]
           q == [r EXCEPT !.step = "body"]
<1>1. /\ r \in Request /\ r.step = "received" /\ r.answer = "401" /\ ToLogin(r.by)
      /\ UNCHANGED <<user, session, clean>> /\ Own(session, r)
  BY PagesAre DEF Unauthorized
<1>2. r.by \in Browsers
  BY <1>1, PagesAre DEF Own, Answers
<1>3. CASE r.op \in Admins
  <2>1. requests' = [requests EXCEPT ![s] = NoRequest]
    BY <1>3 DEF Unauthorized, Put
  <2>2. Goes(NoRequest, r) /\ NoRequest.by = "none"
    BY <1>1, NoRequestIs DEF Goes, Answers
  <2> QED BY <1>1, <1>2, <2>1, <2>2, LoginKeeps
<1>4. CASE r.op \notin Admins
  <2>1. requests' = [requests EXCEPT ![s] = q]
    BY <1>4 DEF Unauthorized, Put
  <2>2. q \in Request /\ q.by = r.by /\ q.op = r.op /\ q.step = "body" /\ Alike(q, r)
    BY <1>1 DEF Request, Answers, Alike
  <2> HIDE DEF q
  <2>3. Goes(q, r)
    BY <1>1, <1>2, <2>2, PagesAre DEF Goes, Noted, Answers
  <2> QED BY <1>1, <1>2, <2>1, <2>2, <2>3, LoginKeeps
<1> QED BY <1>3, <1>4

\* The page comes to show a user: nothing but the answer was waited for that
\* could change its cookie.
LEMMA AppKeeps ==
    ASSUME IInv, NEW s \in Slots, requests[s].by \in Browsers, UNCHANGED <<user, session, clean>>,
           requests' = [requests EXCEPT ![s] = NoRequest], requests[s].step = "received",
           NEW w \in Users, ToApp(requests[s].by, w),
           requests[s].op \in {"me", "login"}, requests[s].answer = "ok",
           page[requests[s].by].cookie # 0 => session[page[requests[s].by].cookie].user = w
    PROVE  IInv'
<1> DEFINE r == requests[s]
           b == requests[s].by
           p == [page[b] EXCEPT !.shows = "app", !.user = w, !.bare = page[b].cookie = 0]
<1>1. page' = [page EXCEPT ![b] = p]
  BY DEF ToApp
<1>2. page[b] \in Page /\ b # "none" /\ WaitsIn(requests, page, s) /\ w # "none"
  BY PagesAre, Bounds
<1>3. p \in Page /\ p.shows = "app" /\ p.user = w /\ p.cookie = page[b].cookie /\ p.bare = (page[b].cookie = 0)
  BY <1>2 DEF Page
<1> HIDE DEF p
<1>4. page'[b] = p /\ requests'[s] = NoRequest /\ \A u \in Slots \ {s} : requests'[u] = requests[u]
  BY <1>1, PagesAre
<1>5. Shows(session, p)
  BY <1>2, <1>3 DEF Shows
<1>6. DropsIn(requests', page', b)
  BY <1>3, <1>4 DEF DropsIn
<1>7. ASSUME NEW u \in Slots \ {s}, requests[u].by = b PROVE WaitsIn(requests', page', u)
  <2>1. WaitsIn(requests, page, u)
    BY PagesAre
  <2>2. ~(requests[u].op = "me" /\ requests[u].step # "body")
    BY <1>2, <1>7, <2>1 DEF WaitsIn
  <2>3. requests[u].op # "login"
    BY <1>2, <1>7, <2>1 DEF WaitsIn
  <2> QED BY <1>4, <1>7, <2>2, <2>3 DEF WaitsIn
<1>8. Goes(NoRequest, r) /\ NoRequest.by = "none"
  BY NoRequestIs DEF Goes, Answers
<1>9. b \in Browsers /\ b \in {"none", b} /\ NoRequest.by \in {"none", b} /\ NoRequest.by # b
  BY <1>2, <1>8
<1> HIDE DEF b
<1> QED BY <1>1, <1>3, <1>5, <1>6, <1>7, <1>8, <1>9, OneKeeps DEF b

LEMMA SettlesKeep == ASSUME IInv, NEW s \in Slots, Settles(s) PROVE IInv'
<1> DEFINE r == requests[s]
<1>1. /\ r \in Request /\ UNCHANGED <<user, session, clean>> /\ Own(session, r)
      /\ requests' = [requests EXCEPT ![s] = NoRequest] /\ r.step \in {"received", "body"}
      /\ r.step = "received" => r.answer # "401"
  BY PagesAre DEF Settles, Put
<1>2. r.by \in Browsers /\ WaitsIn(requests, page, s) /\ r.by # "none"
  BY <1>1, PagesAre DEF Own, Answers
<1>3. Goes(NoRequest, r) /\ NoRequest.by = "none"
  BY <1>1, NoRequestIs DEF Goes, Answers
<1>4. r.answer = "ok" => r.step = "received"
  BY <1>1 DEF Own
<1>5. CASE r.answer = "ok" /\ r.op = "me"
  <2>1. r.token \in Tokens /\ r.result \in Users /\ session[r.token].user = r.result
    BY <1>1, <1>5 DEF Own, Answers
  <2>2. page[r.by].cookie = r.token
    BY <1>2, <1>4, <1>5 DEF WaitsIn
  <2>3. ToApp(r.by, r.result)
    BY <1>5 DEF Settles
  <2> QED BY <1>1, <1>2, <1>4, <1>5, <2>1, <2>2, <2>3, AppKeeps
<1>6. CASE r.answer = "ok" /\ r.op = "login"
  <2>1. r.result \in Tokens /\ session[r.result].user \in Users
    BY <1>1, <1>6 DEF Own, Answers
  <2>2. page[r.by].cookie \in {0, r.result}
    BY <1>2, <1>4, <1>6 DEF WaitsIn
  <2>3. ToApp(r.by, session[r.result].user)
    BY <1>6 DEF Settles
  <2> QED BY <1>1, <1>2, <1>4, <1>6, <2>1, <2>2, <2>3, AppKeeps
<1>7. CASE (r.answer # "ok" /\ r.op = "me") \/ r.op = "logout"
  <2>1. ToLogin(r.by)
    BY <1>7 DEF Settles
  <2> QED BY <1>1, <1>2, <1>3, <2>1, LoginKeeps
<1>8. CASE r.op \notin {"me", "logout"} /\ ~(r.answer = "ok" /\ r.op = "login")
  <2>1. page' = page /\ (r.step = "received" => ~Clears(r))
    BY <1>1, <1>8 DEF Settles, Clears
  <2> QED BY <1>1, <1>2, <1>3, <2>1, OverKeeps
<1> QED BY <1>5, <1>6, <1>7, <1>8
-----------------------------------------------------------------------------
(* The server. *)

\* What a reply makes of a request.
Replied(r, answer, result) ==
    IF Heard(r, answer) THEN [r EXCEPT !.step = "answered", !.answer = answer, !.result = result] ELSE NoRequest

\* What is known of a request that was replied to.
Reacted(q, r, answer, result) ==
    /\ q \in Request /\ q.step \in {"none", "answered"} /\ ~Acts(q)
    /\ q.by # "none" => q.by = r.by /\ q.op = r.op /\ q.token = r.token
    /\ q.step = "answered" => /\ q.by # "none" /\ q.op = r.op /\ q.token = r.token
                              /\ q.answer = answer /\ q.result = result

LEMMA ReplyIs ==
    ASSUME NEW r \in Request, NEW answer \in {"ok", "401", "refused"},
           NEW result \in {"none"} \cup Users \cup Tokens, NEW q, q = Replied(r, answer, result)
    PROVE  Reacted(q, r, answer, result)
<1>1. CASE Heard(r, answer)
  <2>1. q = [r EXCEPT !.step = "answered", !.answer = answer, !.result = result]
    BY <1>1 DEF Replied
  <2>2. q \in Request
    BY <2>1 DEF Request, Answers
  <2>3. q.by = r.by /\ q.op = r.op /\ q.token = r.token /\ q.step = "answered"
        /\ q.answer = answer /\ q.result = result
    BY <2>1 DEF Request
  <2> QED BY <1>1, <2>2, <2>3 DEF Reacted, Acts, Heard
<1>2. CASE ~Heard(r, answer)
  <2>1. q = NoRequest
    BY <1>2 DEF Replied
  <2> QED BY <2>1, NoRequestIs DEF Reacted
<1> QED BY <1>1, <1>2

LEMMA ReplyKept ==
    ASSUME NEW r \in Request, NEW answer \in {"ok", "401", "refused"},
           NEW result \in {"none"} \cup Users \cup Tokens, NEW q, q = Replied(r, answer, result),
           r.step \notin Answers
    PROVE  q \in Request /\ Kept(q, r) /\ ~Acts(q)
<1>1. Reacted(q, r, answer, result)
  BY ReplyIs
<1> QED BY <1>1 DEF Reacted, Kept, Answers

\* A reply that tells of nothing found is well founded.
LEMMA ReplyOwn ==
    ASSUME NEW ss, NEW r \in Request, NEW answer \in {"ok", "401", "refused"},
           NEW result \in {"none"} \cup Users \cup Tokens,
           answer = "ok" => /\ r.op = "me" => r.token \in Tokens /\ result \in Users /\ ss[r.token].user = result
                            /\ r.op = "login" => result \in Tokens /\ ss[result].user \in Users,
           NEW q, q = Replied(r, answer, result)
    PROVE  Own(ss, q)
<1>1. Reacted(q, r, answer, result)
  BY ReplyIs
<1> QED BY <1>1 DEF Reacted, Own, Answers

\* What the rows are before a step.
LEMMA RowsAre ==
    ASSUME IInv
    PROVE  /\ user \in [Users -> [role : Roles, password : 0..MaxPassword]] /\ session \in [Tokens -> Row]
           /\ \A t \in Tokens : session[t].live => session[t].user \in Users
           /\ \A t \in Tokens : Live(t) <=> session[t].live
           /\ requests \in [Slots -> Request] /\ clean \in BOOLEAN
           /\ \A s \in Slots : requests[s] \in Request /\ Own(session, requests[s])
<1>1. \A t \in Tokens : Live(t) <=> session[t].live
  BY Bounds DEF Live
<1> QED BY <1>1 DEF IInv, Core, Typed, Requests

\* One request moves on.
LEMMA MovesKeep ==
    ASSUME IInv, NEW s \in Slots, NEW q \in Request, Kept(q, requests[s]), requests' = [requests EXCEPT ![s] = q],
           page' = page, user' \in [Users -> [role : Roles, password : 0..MaxPassword]],
           session' \in [Tokens -> Row], \A t \in Tokens : session'[t].live => session'[t].user \in Users,
           \A t \in Tokens : session[t].user \in Users => session'[t].user = session[t].user,
           Own(session', q), clean' \in BOOLEAN, clean' => Orderly'
    PROVE  IInv'
<1>1. \A u \in Slots : requests[u] \in Request /\ Own(session, requests[u])
  BY RowsAre
<1>2. requests' = [u \in Slots |-> requests'[u]] /\ requests'[s] = q
      /\ \A u \in Slots \ {s} : requests'[u] = requests[u]
  BY DEF IInv, Requests
<1>3. \A u \in Slots : Own(session', requests[u])
  BY <1>1, OwnStays
<1>4. \A u \in Slots : requests'[u] \in Request /\ Kept(requests'[u], requests[u]) /\ Own(session', requests'[u])
  BY <1>1, <1>2, <1>3 DEF Kept
<1> QED BY <1>2, <1>4, ServerKeeps

\* What the others find, after a request that acts alone, or does not act, has
\* moved on: if it acts then, it is vouched for.
LEMMA OrderlyMoves ==
    ASSUME IInv, clean, NEW s \in Slots, NEW q \in Request, requests' = [requests EXCEPT ![s] = q],
           Acts(q) => Vouched(requests[s])' /\ \A u \in Slots \ {s} : ~Acts(requests[u]),
           \/ user' = user /\ \A t \in Tokens : session[t].user \in Users => session'[t].user = session[t].user
           \/ \A u \in Slots \ {s} : ~Acts(requests[u]),
           \E u \in Users : user'[u].role = "admin",
           \A t \in Tokens : session'[t].live =>
              \/ session'[t].password = user'[session'[t].user].password
              \/ q.step = "half" /\ q.on = session'[t].user
              \/ \E u \in Slots \ {s} : requests[u].step = "half" /\ requests[u].on = session'[t].user
    PROVE  Orderly'
<1>1. requests'[s] = q /\ \A u \in Slots \ {s} : requests'[u] = requests[u]
  BY DEF IInv, Requests
<1>2. Orderly
  BY DEF IInv, Core
<1>3. \A t \in Tokens : Live(t)' <=> session'[t].live
  BY Bounds DEF Live
<1>4. ASSUME NEW u \in Slots, Acts(requests'[u])
      PROVE  Vouched(requests[u])' /\ \A v \in Slots \ {u} : ~Acts(requests'[v])
  <2>1. CASE u = s
    BY <1>1, <1>4, <2>1
  <2>2. CASE u # s
    <3>1. Acts(requests[u]) /\ Vouched(requests[u]) /\ (\A v \in Slots \ {u} : ~Acts(requests[v])) /\ ~Acts(q)
      BY <1>1, <1>2, <1>4, <2>2 DEF Orderly
    <3>2. user' = user /\ \A t \in Tokens : session[t].user \in Users => session'[t].user = session[t].user
      BY <2>2, <3>1
    <3>3. Own(session, requests[u])
      BY RowsAre
    <3>4. Vouched(requests[u])'
      BY <1>1, <2>2, <3>1, <3>2, <3>3 DEF Vouched, Own, SelfSpared, Admins
    <3> QED BY <1>1, <3>1, <3>4
  <2> QED BY <2>1, <2>2
<1>5. ASSUME NEW t \in Tokens, session'[t].live
      PROVE  \/ session'[t].password = user'[session'[t].user].password
             \/ \E u \in Slots : requests'[u].step = "half" /\ requests'[u].on = session'[t].user
  BY <1>1, <1>5
<1> QED BY <1>3, <1>4, <1>5 DEF Orderly

\* Before a step of a request that acts, among requests that do so one at a time.
LEMMA ActsAlone ==
    ASSUME IInv, clean
    PROVE  /\ \E u \in Users : user[u].role = "admin"
           /\ \A s \in Slots : Acts(requests[s]) =>
                 Vouched(requests[s]) /\ \A u \in Slots \ {s} : ~Acts(requests[u])
           /\ \A t \in Tokens : session[t].live =>
                 \/ session[t].password = user[session[t].user].password
                 \/ \E s \in Slots : requests[s].step = "half" /\ requests[s].on = session[t].user
BY RowsAre DEF IInv, Core, Orderly

\* A request is read: answered at once, or admitted.
LEMMA ReadsKeep ==
    ASSUME IInv, NEW s \in Slots, requests[s].step = "sent", NEW r \in Request, r.step = "sent",
           r.by = requests[s].by, r.op = requests[s].op, r.token = requests[s].token,
           r.op \in {"me", "login"} \cup Admins, r.op # "me" => r.on \in Users,
           r.op = "updateUser" => r.role \in Roles,
           Reads(s, r), UNCHANGED <<user, session, page>>
    PROVE  IInv'
<1> DEFINE p == requests[s]
           let == IF r.op = "login" THEN user[r.on].role # "off" /\ r.word = user[r.on].password ELSE Known(r.token)
           may == r.op \in Admins => user[session[r.token].user].role = "admin" /\ SelfSpared(r)
<1>1. /\ user \in [Users -> [role : Roles, password : 0..MaxPassword]] /\ session \in [Tokens -> Row]
      /\ \A t \in Tokens : session[t].live => session[t].user \in Users
      /\ \A t \in Tokens : Live(t) <=> session[t].live
      /\ clean \in BOOLEAN /\ p \in Request /\ Own(session, p)
  BY RowsAre
<1>2. user' = user /\ session' = session /\ page' = page
      /\ clean' = (clean /\ (let /\ may /\ r.op # "me" => Acting = {}))
  BY DEF Reads
<1>3. clean' \in BOOLEAN /\ (clean' => clean)
  BY <1>1, <1>2
<1>4. Known(r.token) => r.token \in Tokens /\ session[r.token].user \in Users
  BY <1>1 DEF Known, Live, Request
<1>5. ASSUME NEW answer \in {"ok", "401", "refused"}, NEW result \in {"none"} \cup Users \cup Tokens,
             Reply(s, answer, result),
             answer = "ok" => p.op = "me" /\ p.token \in Tokens /\ result \in Users /\ session[p.token].user = result
      PROVE  IInv'
  <2> DEFINE q == Replied(p, answer, result)
  <2>1. requests' = [requests EXCEPT ![s] = q]
    BY <1>5 DEF Reply, Put, Replied
  <2>2. q \in Request /\ Kept(q, p) /\ ~Acts(q)
    <3>1. p \in Request /\ q = Replied(p, answer, result) /\ p.step \notin Answers
      BY <1>1 DEF Answers
    <3> HIDE DEF p, q
    <3> QED BY <1>5, <3>1, ReplyKept
  <2>3. Own(session, q)
    BY <1>1, <1>5, ReplyOwn
  <2> HIDE DEF q
  <2>4. ASSUME clean PROVE Orderly'
    <3>1. \E u \in Users : user'[u].role = "admin"
      BY <1>2, <2>4, ActsAlone
    <3>2. \A t \in Tokens : session'[t].live =>
              \/ session'[t].password = user'[session'[t].user].password
              \/ q.step = "half" /\ q.on = session'[t].user
              \/ \E u \in Slots \ {s} : requests[u].step = "half" /\ requests[u].on = session'[t].user
      BY <1>2, <2>4, ActsAlone
    <3> QED BY <1>2, <2>1, <2>2, <2>4, <3>1, <3>2, OrderlyMoves
  <2> QED BY <1>1, <1>2, <1>3, <2>1, <2>2, <2>3, <2>4, MovesKeep
<1>6. CASE ~let
  BY <1>5, <1>6 DEF Reads
<1>7. CASE let /\ r.op = "me"
  <2>1. Known(r.token)
    BY <1>7
  <2>2. Reply(s, "ok", session[r.token].user)
    BY <1>7 DEF Reads
  <2> QED BY <1>4, <1>5, <1>7, <2>1, <2>2
<1>8. CASE let /\ r.op # "me" /\ ~may
  <2>1. Reply(s, "refused", "none")
    BY <1>8 DEF Reads
  <2> QED BY <1>5, <2>1
<1>9. CASE let /\ r.op # "me" /\ may
  <2> DEFINE q == [r EXCEPT !.step = "admitted"]
  <2>1. requests' = [requests EXCEPT ![s] = q]
    BY <1>9 DEF Reads, Put
  <2>2. /\ q \in Request /\ q.step = "admitted" /\ q.by = r.by /\ q.op = r.op /\ q.token = r.token
        /\ q.on = r.on /\ q.word = r.word /\ q.role = r.role
    BY DEF Request
  <2> HIDE DEF q
  <2>3. Kept(q, p)
    BY <2>2 DEF Kept
  <2>4. r.op \in Admins => Known(r.token)
    BY <1>9 DEF Admins
  <2>5. Own(session, q)
    BY <1>4, <1>9, <2>2, <2>4 DEF Own, Answers
  <2>6. Vouched(q)
    BY <1>9, <2>2 DEF Vouched, SelfSpared, Admins
  <2>7. requests'[s] = q
    BY <2>1, RowsAre
  <2>8. Vouched(requests[s])'
    BY <1>2, <2>6, <2>7 DEF Vouched, SelfSpared
  <2>9. ASSUME clean' PROVE Orderly'
    <3>1. clean /\ \A u \in Slots : ~Acts(requests[u])
      BY <1>2, <1>9, <2>9 DEF Acting, Acts
    <3>2. \E u \in Users : user[u].role = "admin"
      BY <3>1, ActsAlone
    <3>3. \A t \in Tokens : session[t].live => session[t].password = user[session[t].user].password
      BY <3>1, ActsAlone DEF Acts
    <3>4. /\ \E u \in Users : user'[u].role = "admin"
          /\ \A t \in Tokens : session'[t].live => session'[t].password = user'[session'[t].user].password
          /\ \A u \in Slots \ {s} : ~Acts(requests[u])
      BY <1>2, <3>1, <3>2, <3>3
    <3> HIDE DEF let, may
    <3> QED BY <2>1, <2>2, <2>8, <3>1, <3>4, OrderlyMoves
  <2> QED BY <1>1, <1>2, <1>3, <2>1, <2>2, <2>3, <2>5, <2>9, MovesKeep
<1> QED BY <1>6, <1>7, <1>8, <1>9

LEMMA AdmitKeeps == ASSUME IInv, NEW s \in Slots, Admit(s) PROVE IInv'
<1> DEFINE p == requests[s]
<1>1. p \in Request /\ p.step = "sent" /\ UNCHANGED <<user, session, page>>
      /\ user \in [Users -> [role : Roles, password : 0..MaxPassword]]
  BY RowsAre DEF Admit
<1> HIDE DEF p
<1>2. CASE p.op = "me" /\ Reads(s, p)
  BY <1>1, <1>2, ReadsKeep DEF p
<1>3. ASSUME NEW u \in Users, NEW word \in 0..user[u].password, p.op = "login",
             Reads(s, [p EXCEPT !.on = u, !.word = word])
      PROVE  IInv'
  <2> DEFINE r == [p EXCEPT !.on = u, !.word = word]
  <2>1. word \in 0..MaxPassword
    <3>1. user[u].password \in 0..MaxPassword
      BY <1>1
    <3> QED BY <3>1, Bounds
  <2>2. r \in Request /\ r.step = "sent" /\ r.by = p.by /\ r.op = p.op /\ r.token = p.token /\ r.on = u
    BY <1>1, <2>1 DEF Request
  <2>3. Reads(s, r)
    BY <1>3
  <2> HIDE DEF r
  <2> QED BY <1>1, <1>3, <2>2, <2>3, ReadsKeep DEF p
<1>4. ASSUME NEW u \in Users, p.op = "setPassword", Reads(s, [p EXCEPT !.on = u])
      PROVE  IInv'
  <2> DEFINE r == [p EXCEPT !.on = u]
  <2>1. r \in Request /\ r.step = "sent" /\ r.by = p.by /\ r.op = p.op /\ r.token = p.token /\ r.on = u
    BY <1>1 DEF Request
  <2>2. Reads(s, r)
    BY <1>4
  <2> HIDE DEF r
  <2> QED BY <1>1, <1>4, <2>1, <2>2, ReadsKeep DEF p, Admins
<1>5. ASSUME NEW u \in Users, NEW role \in Roles, p.op = "updateUser", Reads(s, [p EXCEPT !.on = u, !.role = role])
      PROVE  IInv'
  <2> DEFINE r == [p EXCEPT !.on = u, !.role = role]
  <2>1. r \in Request /\ r.step = "sent" /\ r.by = p.by /\ r.op = p.op /\ r.token = p.token /\ r.on = u /\ r.role = role
    BY <1>1 DEF Request
  <2>2. Reads(s, r)
    BY <1>5
  <2> HIDE DEF r
  <2> QED BY <1>1, <1>5, <2>1, <2>2, ReadsKeep DEF p, Admins
<1> QED BY <1>2, <1>3, <1>4, <1>5 DEF Admit, p
\* A request that acts is the only one, as long as they come one at a time: no
\* other has changed a password and not yet revoked the sessions.
LEMMA CurrentAlone ==
    ASSUME IInv, clean, NEW s \in Slots, requests[s].step = "admitted"
    PROVE  /\ \A u \in Slots \ {s} : ~Acts(requests[u])
           /\ Vouched(requests[s]) /\ \E u \in Users : user[u].role = "admin"
           /\ \A t \in Tokens : session[t].live => session[t].password = user[session[t].user].password
<1>1. Acts(requests[s])
  BY DEF Acts
<1>2. \A u \in Slots \ {s} : ~Acts(requests[u])
  BY <1>1, ActsAlone
<1>3. \A u \in Slots : requests[u].step # "half"
  BY <1>2 DEF Acts
<1> QED BY <1>1, <1>2, <1>3, ActsAlone

LEMMA CreateKeeps == ASSUME IInv, NEW s \in Slots, CreateSession(s) PROVE IInv'
<1> DEFINE r == requests[s]
           new == {t \in Tokens : session[t] = NoSession}
           n == Min(new)
           row == [user |-> r.on, password |-> r.word, live |-> TRUE]
           q == Replied(r, "ok", n)
<1>1. /\ user \in [Users -> [role : Roles, password : 0..MaxPassword]] /\ session \in [Tokens -> Row]
      /\ \A t \in Tokens : session[t].live => session[t].user \in Users
      /\ clean \in BOOLEAN /\ r \in Request /\ Own(session, r)
  BY RowsAre
<1>2. r.op = "login" /\ r.step = "admitted" /\ new # {} /\ page' = page /\ user' = user /\ clean' = clean
  BY DEF CreateSession
<1>3. r.on \in Users /\ r.word \in 0..MaxPassword
  BY <1>1, <1>2 DEF Own, Request
<1>4. n \in new
  <2>1. new \in SUBSET Nat
    BY Bounds
  <2>2. \E x \in new : \A y \in new : x <= y
    BY <1>2, <2>1, Smallest
  <2> QED BY <2>2 DEF Min
<1>5. n \in Tokens /\ session[n].user = "none"
  BY <1>4 DEF NoSession
<1>6. session' = [session EXCEPT ![n] = row] /\ requests' = [requests EXCEPT ![s] = q]
  BY DEF CreateSession, Reply, Put, Replied
<1>7. row \in Row /\ row.user = r.on /\ row.password = r.word /\ row.live
  BY <1>3 DEF Row
<1> HIDE DEF n, row
<1>8. session' \in [Tokens -> Row] /\ session'[n] = row /\ \A t \in Tokens \ {n} : session'[t] = session[t]
  BY <1>1, <1>5, <1>6, <1>7
<1>9. \A t \in Tokens : session'[t].live => session'[t].user \in Users
  BY <1>1, <1>3, <1>7, <1>8
<1>10. \A t \in Tokens : session[t].user \in Users => session'[t].user = session[t].user
  BY <1>5, <1>8, Bounds
<1>11. q \in Request /\ Kept(q, r) /\ ~Acts(q)
  <2>1. "ok" \in {"ok", "401", "refused"} /\ n \in {"none"} \cup Users \cup Tokens
    BY <1>5
  <2>2. r.step \notin Answers
    BY <1>2 DEF Answers
  <2> HIDE DEF r
  <2> QED BY <1>1, <2>1, <2>2, ReplyKept
<1>12. Own(session', q)
  BY <1>1, <1>2, <1>3, <1>5, <1>7, <1>8, ReplyOwn
<1> HIDE DEF q, new
<1>13. ASSUME clean PROVE Orderly'
  <2>1. /\ \A u \in Slots \ {s} : ~Acts(requests[u])
        /\ Vouched(r) /\ \E u \in Users : user[u].role = "admin"
        /\ \A t \in Tokens : session[t].live => session[t].password = user[session[t].user].password
    BY <1>2, <1>13, CurrentAlone
  <2>2. r.word = user[r.on].password
    BY <1>2, <2>1 DEF Vouched
  <2>3. \A t \in Tokens : session'[t].live => session'[t].password = user'[session'[t].user].password
    BY <1>2, <1>7, <1>8, <2>1, <2>2
  <2>4. \E u \in Users : user'[u].role = "admin"
    BY <1>2, <2>1
  <2> QED BY <1>6, <1>11, <1>13, <2>1, <2>3, <2>4, OrderlyMoves
<1> QED BY <1>1, <1>2, <1>6, <1>8, <1>9, <1>10, <1>11, <1>12, <1>13, MovesKeep

\* Sessions that end.
LEMMA DeadIs ==
    ASSUME IInv, NEW T, session' = Dead(T)
    PROVE  /\ session' \in [Tokens -> Row] /\ \A t \in Tokens : session'[t].user = session[t].user
           /\ \A t \in Tokens : session'[t].live =>
                 session[t].live /\ t \notin T /\ session'[t] = session[t] /\ session'[t].user \in Users
<1>1. session \in [Tokens -> Row] /\ \A t \in Tokens : Live(t) <=> session[t].live
  BY RowsAre
<1>2. ASSUME NEW t \in Tokens
      PROVE  /\ session'[t] \in Row /\ session'[t].user = session[t].user
             /\ session'[t].live => session[t].live /\ t \notin T /\ session'[t] = session[t]
  <2> DEFINE w == session[t]
  <2>1. w \in Row
    BY <1>1
  <2>2. session'[t] = IF t \in T /\ w.live THEN [w EXCEPT !.live = FALSE, !.password = 0] ELSE w
    BY <1>1 DEF Dead
  <2> HIDE DEF w
  <2>3. 0 \in 0..MaxPassword
    BY Bounds
  <2>4. CASE t \in T /\ w.live
    <3> DEFINE d == session'[t]
    <3>1. d = [w EXCEPT !.live = FALSE, !.password = 0]
      BY <2>2, <2>4
    <3> HIDE DEF d
    <3>2. d \in Row /\ d.user = w.user /\ d.live = FALSE
      BY <2>1, <2>3, <3>1 DEF Row
    <3> QED BY <3>2 DEF d, w
  <2>5. CASE ~(t \in T /\ w.live)
    BY <2>1, <2>2, <2>5 DEF w
  <2> QED BY <2>4, <2>5
<1>3. session' = [t \in Tokens |-> session'[t]]
  BY DEF Dead
<1>4. \A t \in Tokens : session[t].live => session[t].user \in Users
  BY RowsAre
<1> QED BY <1>2, <1>3, <1>4

\* A request ends sessions and is answered, or nobody asked.
LEMMA LogoutKeeps == ASSUME IInv, NEW s \in Slots, DeleteSession(s) PROVE IInv'
<1> DEFINE r == requests[s]
           q == Replied(r, "ok", "none")
<1>1. user \in [Users -> [role : Roles, password : 0..MaxPassword]] /\ clean \in BOOLEAN /\ r \in Request
  BY RowsAre
<1>2. r.op = "logout" /\ r.step = "sent" /\ session' = Dead({r.token}) /\ user' = user /\ page' = page /\ clean' = clean
  BY DEF DeleteSession
<1>3. requests' = [requests EXCEPT ![s] = q]
  BY DEF DeleteSession, Reply, Put, Replied
<1>4. q \in Request /\ Kept(q, r) /\ ~Acts(q)
  <2>1. r.step \notin Answers
    BY <1>2 DEF Answers
  <2> QED BY <1>1, <2>1, ReplyKept
<1>5. Own(session', q)
  BY <1>1, <1>2, ReplyOwn
<1> HIDE DEF q
<1>6. /\ session' \in [Tokens -> Row] /\ \A t \in Tokens : session'[t].user = session[t].user
      /\ \A t \in Tokens : session'[t].live =>
            session[t].live /\ session'[t] = session[t] /\ session'[t].user \in Users
  BY <1>2, DeadIs
<1>7. ASSUME clean PROVE Orderly'
  <2>1. \A t \in Tokens : session'[t].live =>
          \/ session'[t].password = user'[session'[t].user].password
          \/ \E u \in Slots \ {s} : requests[u].step = "half" /\ requests[u].on = session'[t].user
    <3> SUFFICES ASSUME NEW t \in Tokens, session'[t].live
                 PROVE  \/ session'[t].password = user'[session'[t].user].password
                        \/ \E u \in Slots \ {s} : requests[u].step = "half" /\ requests[u].on = session'[t].user
      OBVIOUS
    <3>1. session[t].live /\ session'[t] = session[t]
      BY <1>6
    <3>2. \/ session[t].password = user[session[t].user].password
          \/ \E u \in Slots : requests[u].step = "half" /\ requests[u].on = session[t].user
      BY <1>7, <3>1, ActsAlone
    <3>3. requests[s].step # "half" /\ user' = user
      BY <1>2
    <3> HIDE DEF r
    <3> QED BY <3>1, <3>2, <3>3
  <2>2. \E u \in Users : user'[u].role = "admin"
    BY <1>2, <1>7, ActsAlone
  <2>3. user' = user /\ \A t \in Tokens : session'[t].user = session[t].user
    BY <1>2, <1>6
  <2> HIDE DEF r
  <2> QED BY <1>3, <1>4, <1>7, <2>1, <2>2, <2>3, OrderlyMoves
<1> QED BY <1>1, <1>2, <1>3, <1>4, <1>5, <1>6, <1>7, MovesKeep

LEMMA RevokeKeeps == ASSUME IInv, NEW s \in Slots, RevokeSessions(s) PROVE IInv'
<1> DEFINE r == requests[s]
           q == Replied(r, "ok", "none")
<1>1. /\ user \in [Users -> [role : Roles, password : 0..MaxPassword]] /\ clean \in BOOLEAN /\ r \in Request
      /\ Own(session, r)
  BY RowsAre
<1>2. r.step = "half" /\ session' = Dead(Revoked(r)) /\ user' = user /\ page' = page /\ clean' = clean
  BY DEF RevokeSessions
<1>3. requests' = [requests EXCEPT ![s] = q]
  BY DEF RevokeSessions, Reply, Put, Replied
<1>4. q \in Request /\ Kept(q, r) /\ ~Acts(q)
  <2>1. r.step \notin Answers
    BY <1>2 DEF Answers
  <2> QED BY <1>1, <2>1, ReplyKept
<1>5. Own(session', q)
  <2>1. r.op \notin {"me", "login"}
    BY <1>1, <1>2 DEF Own
  <2> QED BY <1>1, <2>1, ReplyOwn
<1> HIDE DEF q
<1>6. /\ session' \in [Tokens -> Row] /\ \A t \in Tokens : session'[t].user = session[t].user
      /\ \A t \in Tokens : session'[t].live =>
            session[t].live /\ t \notin Revoked(r) /\ session'[t] = session[t] /\ session'[t].user \in Users
  BY <1>2, DeadIs
<1>7. ASSUME clean PROVE Orderly'
  <2>1. \A u \in Slots \ {s} : ~Acts(requests[u])
    BY <1>2, <1>7, ActsAlone DEF Acts
  <2>2. \A t \in Tokens : session[t].live /\ session[t].user # r.on =>
          session[t].password = user[session[t].user].password
    BY <1>7, <2>1, ActsAlone DEF Acts
  <2>3. \A t \in Tokens : session'[t].live => session'[t].password = user'[session'[t].user].password
    BY <1>2, <1>6, <2>2 DEF Revoked
  <2>4. \E u \in Users : user'[u].role = "admin"
    BY <1>2, <1>7, ActsAlone
  <2> QED BY <1>2, <1>3, <1>4, <1>6, <1>7, <2>1, <2>3, <2>4, OrderlyMoves
<1> QED BY <1>1, <1>2, <1>3, <1>4, <1>5, <1>6, <1>7, MovesKeep

LEMMA UpdateKeeps == ASSUME IInv, NEW s \in Slots, UpdateUser(s) PROVE IInv'
<1> DEFINE r == requests[s]
           q == Replied(r, "ok", "none")
<1>1. /\ user \in [Users -> [role : Roles, password : 0..MaxPassword]] /\ clean \in BOOLEAN /\ r \in Request
      /\ Own(session, r) /\ session \in [Tokens -> Row]
      /\ \A t \in Tokens : session[t].live => session[t].user \in Users
  BY RowsAre
<1>2. r.op = "updateUser" /\ r.step = "admitted" /\ session' = session /\ page' = page /\ clean' = clean
      /\ user' = [user EXCEPT ![r.on].role = r.role]
  BY DEF UpdateUser
<1>3. r.on \in Users /\ r.role \in Roles /\ r.token \in Tokens /\ session[r.token].user \in Users
  BY <1>1, <1>2 DEF Own, Admins
<1>4. requests' = [requests EXCEPT ![s] = q]
  BY DEF UpdateUser, Reply, Put, Replied
<1>5. q \in Request /\ Kept(q, r) /\ ~Acts(q)
  <2>1. r.step \notin Answers
    BY <1>2 DEF Answers
  <2> QED BY <1>1, <2>1, ReplyKept
<1>6. Own(session', q)
  BY <1>1, <1>2, ReplyOwn
<1> HIDE DEF q
<1>7. /\ user' \in [Users -> [role : Roles, password : 0..MaxPassword]]
      /\ user'[r.on].role = r.role /\ \A u \in Users : user'[u].password = user[u].password
      /\ \A u \in Users \ {r.on} : user'[u] = user[u]
  BY <1>1, <1>2, <1>3
<1>8. ASSUME clean PROVE Orderly'
  <2>1. /\ \A u \in Slots \ {s} : ~Acts(requests[u])
        /\ Vouched(r)
        /\ \A t \in Tokens : session[t].live => session[t].password = user[session[t].user].password
    BY <1>2, <1>8, CurrentAlone
  <2>2. \A t \in Tokens : session'[t].live => session'[t].password = user'[session'[t].user].password
    BY <1>1, <1>2, <1>7, <2>1
  <2>3. \E u \in Users : user'[u].role = "admin"
    <3> DEFINE a == session[r.token].user
    <3>1. user[a].role = "admin" /\ (a = r.on => r.role = "admin")
      BY <1>2, <2>1 DEF Vouched, SelfSpared
    <3>2. user'[a].role = "admin"
      BY <1>3, <1>7, <3>1
    <3> QED BY <1>3, <3>2
  <2> QED BY <1>2, <1>4, <1>5, <1>8, <2>1, <2>2, <2>3, OrderlyMoves
<1> QED BY <1>1, <1>2, <1>4, <1>5, <1>6, <1>7, <1>8, MovesKeep

LEMMA SetPasswordKeeps == ASSUME IInv, NEW s \in Slots, SetPassword(s) PROVE IInv'
<1> DEFINE r == requests[s]
           q == [r EXCEPT !.step = "half"]
<1>1. /\ user \in [Users -> [role : Roles, password : 0..MaxPassword]] /\ clean \in BOOLEAN /\ r \in Request
      /\ Own(session, r) /\ session \in [Tokens -> Row]
      /\ \A t \in Tokens : session[t].live => session[t].user \in Users
  BY RowsAre
<1>2. r.op = "setPassword" /\ r.step = "admitted" /\ session' = session /\ page' = page /\ clean' = clean
      /\ user[r.on].password < MaxPassword /\ user' = [user EXCEPT ![r.on].password = @ + 1]
      /\ requests' = [requests EXCEPT ![s] = q]
  BY DEF SetPassword, Put
<1>3. r.on \in Users
  BY <1>1, <1>2 DEF Own
<1> HIDE DEF r
<1>4. q \in Request /\ q.by = r.by /\ q.op = r.op /\ q.token = r.token /\ q.on = r.on /\ q.step = "half"
  BY <1>1 DEF Request
<1> HIDE DEF q
<1>5. Kept(q, r) /\ Own(session', q)
  BY <1>2, <1>3, <1>4 DEF Kept, Own, Answers, r
<1>6. /\ user' \in [Users -> [role : Roles, password : 0..MaxPassword]]
      /\ \A u \in Users : user'[u].role = user[u].role
      /\ \A u \in Users \ {r.on} : user'[u] = user[u]
  <2>1. user[r.on].password + 1 \in 0..MaxPassword
    <3>1. user[r.on].password \in 0..MaxPassword
      BY <1>1, <1>3
    <3> QED BY <1>2, <3>1, Bounds
  <2> QED BY <1>1, <1>2, <1>3, <2>1
<1>7. ASSUME clean PROVE Orderly'
  <2>1. /\ \A u \in Slots \ {s} : ~Acts(requests[u])
        /\ \E u \in Users : user[u].role = "admin"
        /\ \A t \in Tokens : session[t].live => session[t].password = user[session[t].user].password
    BY <1>2, <1>7, CurrentAlone DEF r
  <2>2. \A t \in Tokens : session'[t].live =>
          \/ session'[t].password = user'[session'[t].user].password
          \/ q.step = "half" /\ q.on = session'[t].user
    BY <1>1, <1>2, <1>4, <1>6, <2>1
  <2>3. \E u \in Users : user'[u].role = "admin"
    BY <1>6, <2>1
  <2>4. Vouched(requests[s])'
    <3>1. requests'[s] = q
      BY <1>2, RowsAre
    <3> QED BY <1>4, <3>1 DEF Vouched
  <2> QED BY <1>2, <1>4, <1>7, <2>1, <2>2, <2>3, <2>4, OrderlyMoves
<1> QED BY <1>1, <1>2, <1>4, <1>5, <1>6, <1>7, MovesKeep DEF r

LEMMA BreaksKeep == ASSUME IInv, NEW s \in Slots, Breaks(s) PROVE IInv'
<1> DEFINE r == requests[s]
           q == Replied(r, "refused", "none")
<1>1. /\ user \in [Users -> [role : Roles, password : 0..MaxPassword]] /\ clean \in BOOLEAN /\ r \in Request
      /\ Own(session, r) /\ session \in [Tokens -> Row]
      /\ \A t \in Tokens : session[t].live => session[t].user \in Users
  BY RowsAre
<1>2. session' = session /\ page' = page /\ user' = user /\ clean' = (clean /\ r.step # "half")
  BY DEF Breaks
<1>3. requests' = [requests EXCEPT ![s] = q]
  BY DEF Breaks, Reply, Put, Replied
<1>4. q \in Request /\ Kept(q, r) /\ ~Acts(q)
  <2>1. r.step \notin Answers
    BY DEF Breaks, Answers
  <2> QED BY <1>1, <2>1, ReplyKept
<1>5. Own(session', q)
  BY <1>1, ReplyOwn
<1> HIDE DEF q
<1>6. ASSUME clean' PROVE Orderly'
  <2>1. clean /\ r.step # "half"
    BY <1>1, <1>2, <1>6
  <2>2. \A t \in Tokens : session'[t].live =>
          \/ session'[t].password = user'[session'[t].user].password
          \/ \E u \in Slots \ {s} : requests[u].step = "half" /\ requests[u].on = session'[t].user
    BY <1>2, <2>1, ActsAlone
  <2>3. \E u \in Users : user'[u].role = "admin"
    BY <1>2, <2>1, ActsAlone
  <2> QED BY <1>2, <1>3, <1>4, <2>1, <2>2, <2>3, OrderlyMoves
<1>7. clean' \in BOOLEAN
  BY <1>1, <1>2
<1> QED BY <1>1, <1>2, <1>3, <1>4, <1>5, <1>6, <1>7, MovesKeep

LEMMA ExpireKeeps == ASSUME IInv, NEW t \in Tokens, Expire(t) PROVE IInv'
<1>1. /\ user \in [Users -> [role : Roles, password : 0..MaxPassword]] /\ clean \in BOOLEAN
      /\ requests \in [Slots -> Request]
      /\ \A s \in Slots : requests[s] \in Request /\ Own(session, requests[s])
  BY RowsAre
<1>2. session' = Dead({t}) /\ user' = user /\ page' = page /\ clean' = clean /\ requests' = requests
  BY DEF Expire
<1>3. /\ session' \in [Tokens -> Row] /\ \A x \in Tokens : session'[x].user = session[x].user
      /\ \A x \in Tokens : session'[x].live =>
            session[x].live /\ session'[x] = session[x] /\ session'[x].user \in Users
  BY <1>2, DeadIs
<1>4. \A s \in Slots : Own(session', requests[s])
  BY <1>1, <1>3, OwnStays
<1>5. ASSUME clean PROVE Orderly'
  <2>1. \A x \in Tokens : Live(x)' <=> session'[x].live
    BY Bounds DEF Live
  <2>2. \A s \in Slots : Acts(requests[s]) => Vouched(requests[s])'
    <3>1. ASSUME NEW s \in Slots, Acts(requests[s]), requests[s].step = "admitted"
          PROVE  /\ requests[s].op = "updateUser" =>
                      user'[session'[requests[s].token].user].role = "admin" /\ SelfSpared(requests[s])'
                 /\ requests[s].op = "login" => requests[s].word = user'[requests[s].on].password
      <4>1. Vouched(requests[s]) /\ (requests[s].op = "updateUser" => requests[s].token \in Tokens)
        BY <1>1, <1>5, <3>1, ActsAlone DEF Own, Admins
      <4>2. requests[s].op = "updateUser" => session'[requests[s].token].user = session[requests[s].token].user
        BY <1>3, <4>1
      <4> QED BY <1>2, <3>1, <4>1, <4>2 DEF Vouched, SelfSpared
    <3> QED BY <1>2, <3>1 DEF Vouched
  <2>3. \A x \in Tokens : session'[x].live =>
          \/ session'[x].password = user'[session'[x].user].password
          \/ \E s \in Slots : requests'[s].step = "half" /\ requests'[s].on = session'[x].user
    <3> SUFFICES ASSUME NEW x \in Tokens, session'[x].live
                 PROVE  \/ session'[x].password = user'[session'[x].user].password
                        \/ \E s \in Slots : requests'[s].step = "half" /\ requests'[s].on = session'[x].user
      OBVIOUS
    <3>1. session[x].live /\ session'[x] = session[x]
      BY <1>3
    <3>2. \/ session[x].password = user[session[x].user].password
          \/ \E s \in Slots : requests[s].step = "half" /\ requests[s].on = session[x].user
      BY <1>5, <3>1, ActsAlone
    <3> QED BY <1>2, <3>1, <3>2
  <2> QED BY <1>2, <1>5, <2>1, <2>2, <2>3, ActsAlone DEF Orderly
<1> QED BY <1>1, <1>2, <1>3, <1>4, <1>5, ServerKeeps DEF Kept
-----------------------------------------------------------------------------
(* The invariant, and what follows from it. *)

LEMMA InitIInv == ASSUME Init PROVE IInv
<1>1. /\ user = [u \in Users |-> [role |-> "admin", password |-> 0]] /\ session = [t \in Tokens |-> NoSession]
      /\ page = [b \in Browsers |-> [shows |-> "nothing", user |-> "none", cookie |-> 0, bare |-> FALSE]]
      /\ requests = [s \in Slots |-> NoRequest] /\ clean = TRUE
  BY DEF Init
<1>2. 0 \in 0..MaxPassword /\ NoSession \in Row /\ ~NoSession.live
  BY Bounds DEF NoSession, Row
<1>3. /\ user \in [Users -> [role : Roles, password : 0..MaxPassword]]
      /\ session \in [Tokens -> Row] /\ \A t \in Tokens : ~session[t].live
  BY <1>1, <1>2 DEF Roles
<1>4. page \in [Browsers -> Page] /\ \A b \in Browsers : Shows(session, page[b])
  BY <1>1 DEF Page, Shows
<1>5. /\ requests \in [Slots -> Request]
      /\ \A s \in Slots : Own(session, requests[s]) /\ ~Acts(requests[s]) /\ requests[s].op # "me"
  BY <1>1, NoRequestIs
<1>6. \A t \in Tokens : ~Live(t)
  BY <1>3 DEF Live
<1>7. \E u \in Users : user[u].role = "admin"
  BY <1>1, SessionAssumption
<1>8. Typed
  BY <1>1, <1>3, <1>4, <1>5, <1>6 DEF Typed
<1>9. Orderly
  BY <1>5, <1>6, <1>7 DEF Orderly
<1>10. Waiting /\ Told
  <2>1. \A s \in Slots : WaitsIn(requests, page, s)
    BY <1>1, NoRequestIs DEF WaitsIn
  <2>2. \A b \in Browsers : DropsIn(requests, page, b)
    BY <1>1 DEF DropsIn
  <2> QED BY <2>1, <2>2 DEF Waiting, Told
<1> QED BY <1>4, <1>5, <1>8, <1>9, <1>10 DEF IInv, Core, Requests

LEMMA NextIInv == ASSUME IInv, [Next]_vars PROVE IInv'
<1>1. ASSUME NEW b \in Browsers, Visit(b) \/ LogIn(b) \/ SignOut(b) \/ EditUser(b) PROVE IInv'
  <2>1. CASE Visit(b)
    BY <2>1, VisitKeeps
  <2>2. CASE LogIn(b)
    BY <2>2, AskKeeps DEF LogIn, Ops
  <2>3. CASE SignOut(b)
    BY <2>3, AskKeeps DEF SignOut, Ops
  <2>4. CASE EditUser(b)
    BY <2>4, AskKeeps DEF EditUser, Ops, Admins
  <2> QED BY <1>1, <2>1, <2>2, <2>3, <2>4
<1>2. ASSUME NEW s \in Slots, Progress(s) PROVE IInv'
  BY <1>2, AdmitKeeps, CreateKeeps, LogoutKeeps, UpdateKeeps, SetPasswordKeeps, RevokeKeeps, BreaksKeep,
     LostKeeps, ReceivesKeep, UnauthorizedKeeps, SettlesKeep DEF Progress
<1>3. ASSUME NEW t \in Tokens, Expire(t) PROVE IInv'
  BY <1>3, ExpireKeeps
<1>4. CASE UNCHANGED vars
  <2>1. user' = user /\ session' = session /\ page' = page /\ requests' = requests /\ clean' = clean
    BY <1>4 DEF vars
  <2>2. requests \in [Slots -> Request] /\ page \in [Browsers -> Page] /\ \A b \in Browsers : Shows(session, page[b])
    BY DEF IInv, Core, Typed, Requests
  <2>3. Waiting' /\ Told'
    BY <2>1 DEF IInv, Core, Waiting, Told
  <2>4. requests' = [s \in Slots |-> requests'[s]] /\ \A s \in Slots : Goes(requests'[s], requests[s])
    BY <2>1, <2>2, PagesAre
  <2> QED BY <2>1, <2>2, <2>3, <2>4, QuietKeeps
<1> QED BY <1>1, <1>2, <1>3, <1>4 DEF Next

\* The inductive invariant: a page has a cookie of the user it shows or none,
\* one that waits for a probe or a log-in shows so, and requests that act one at
\* a time still find what they were admitted for.
THEOREM Invariance == Spec => []IInv
<1>1. Init => IInv
  BY InitIInv
<1>2. IInv /\ [Next]_vars => IInv'
  BY NextIInv
<1> QED BY <1>1, <1>2, PTL DEF Spec

\* Rows, pages and requests have their shapes, and a page knows a user exactly
\* when it shows the application.
THEOREM TypeCorrect == Spec => []TypeOK
<1>1. IInv => TypeOK
  BY DEF IInv, Core, Typed, Requests, Request, TypeOK, Row, Page, Shows
<1> QED BY <1>1, Invariance, PTL

\* A page that shows a user has a cookie of that user, or none: until it has
\* taken notice, or because the cookie of its log-in was cleared before the
\* answer had been read.
THEOREM ActsAsShown == Spec => []SignedInAs
<1>1. ASSUME IInv, NEW b \in Browsers, page[b].shows = "app"
      PROVE  IF page[b].cookie # 0 THEN session[page[b].cookie].user = page[b].user ELSE page[b].bare \/ Dropping(b)
  <2>1. Shows(session, page[b]) /\ DropsIn(requests, page, b)
    BY <1>1, PagesAre
  <2> QED BY <1>1, <2>1 DEF Shows, DropsIn, Dropping
<1>2. IInv => SignedInAs
  BY <1>1 DEF SignedInAs
<1> QED BY <1>2, Invariance, PTL

\* As long as requests do not overlap, there is an active administrator.
THEOREM AdminStays == Spec => []AdminRemains
<1>1. IInv => AdminRemains
  BY DEF IInv, Core, Orderly, AdminRemains
<1> QED BY <1>1, Invariance, PTL

\* As long as requests do not overlap and no change of a password stops
\* half-way, a session that is left was given for the password there is now.
THEOREM OldPasswordsOut == Spec => []PasswordsCurrent
<1>1. IInv => PasswordsCurrent
  BY DEF IInv, Core, Orderly, PasswordsCurrent
<1> QED BY <1>1, Invariance, PTL

=============================================================================
