------------------------------- MODULE Sessions -------------------------------
(***************************************************************************)
(* Logging in and out: browsers, each one page with a cookie, the sessions *)
(* of the server, and administrators who change users meanwhile.           *)
(*                                                                         *)
(* A request is admitted (the session or the password is looked up), then  *)
(* acts, each statement committed by itself; its answer arrives later, in  *)
(* any order with others, or is lost.  The browser sets the cookie when    *)
(* the headers come; the page goes on when its code runs, and again when   *)
(* the body is there, and other answers may come between.  A page that is  *)
(* reloaded drops its answers.  Pages that share a cookie are not looked   *)
(* at.                                                                     *)
(* What a request asks for matters, and is chosen, when the server reads   *)
(* it.                                                                     *)
(*                                                                         *)
(* A password is its version: a user can type an earlier one.  The flags   *)
(* of a user, always written together, are one role; "off" is not active.  *)
(***************************************************************************)
EXTENDS Integers, FiniteSets, FiniteSetsExt

CONSTANTS
    Browsers,
    Users,
    Slots,         \* bound on the requests in flight
    MaxSessions,   \* bound on the sessions ever created
    MaxPassword    \* bound on the changes of passwords

ASSUME SessionAssumption ==
    /\ "none" \notin Users \cup Browsers /\ Users # {} /\ IsFiniteSet(Users)
    /\ MaxSessions \in Nat /\ MaxPassword \in Nat

VARIABLES
    user,          \* role and password of each user
    session,       \* user of each token, the password it was given for, is it live
    page,          \* what each browser shows, and its cookie; history: was
                   \* the cookie gone when it came to show its user
    requests,      \* requests in flight
    clean          \* no two requests acted at once, no change stopped half-way

vars == <<user, session, page, requests, clean>>

Tokens == 1..MaxSessions
Roles == {"admin", "plain", "off"}
NoSession == [user |-> "none", password |-> 0, live |-> FALSE]
Live(t) == t # 0 /\ session[t].live

\* The rows are deleted; whose they were is kept for a property.
Dead(T) == [t \in Tokens |-> IF t \in T /\ Live(t) THEN [session[t] EXCEPT !.live = FALSE, !.password = 0]
                             ELSE session[t]]

Admins == {"setPassword", "updateUser"}
NoRequest == [op |-> "none", by |-> "none", token |-> 0, on |-> "none", word |-> 0, role |-> "none",
              step |-> "none", answer |-> "none", result |-> "none"]
Free == {s \in Slots : requests[s] = NoRequest}
Put(s, r) == requests' = [requests EXCEPT ![s] = r]

-----------------------------------------------------------------------------
(* The page. *)

\* The browser sends the cookie it has now.
Sent(b, r) == [r EXCEPT !.by = b, !.token = page[b].cookie, !.step = "sent"]
Ask(b, r) == \E s \in Free : Put(s, Sent(b, r))

\* The requests of a page that is gone go on without it.
Answers == {"answered", "received", "body"}
Gone(r) == IF r.step \in Answers THEN NoRequest ELSE [r EXCEPT !.by = "none"]
Abandoned(b) == [s \in Slots |-> IF requests[s].by = b THEN Gone(requests[s]) ELSE requests[s]]

\* App: mounted anew, it probes the session.
Visit(b) ==
    /\ page[b].shows # "probing"
    /\ page' = [page EXCEPT ![b].shows = "probing", ![b].user = "none", ![b].bare = FALSE]
    /\ \E s \in Free : requests' = [Abandoned(b) EXCEPT ![s] = Sent(b, [NoRequest EXCEPT !.op = "me"])]
    /\ UNCHANGED <<user, session, clean>>

\* Variant of Busy: the button is never disabled.
NeverBusy(b, op) == FALSE

Busy(b, op) == \E s \in Slots : requests[s].by = b /\ requests[s].op = op

\* LoginForm, its button disabled while it waits.
LogIn(b) ==
    /\ page[b].shows = "login" /\ ~Busy(b, "login")
    /\ Ask(b, [NoRequest EXCEPT !.op = "login"])
    /\ UNCHANGED <<user, session, page, clean>>

\* handleSignOut: the login form comes with the answer, whatever it is.
SignOut(b) ==
    /\ page[b].shows = "app"
    /\ Ask(b, [NoRequest EXCEPT !.op = "logout"])
    /\ UNCHANGED <<user, session, page, clean>>

\* UserForm; any other request of a screen is like one of these refused.
EditUser(b) ==
    /\ page[b].shows = "app"
    /\ \E op \in Admins : Ask(b, [NoRequest EXCEPT !.op = op])
    /\ UNCHANGED <<user, session, page, clean>>

-----------------------------------------------------------------------------
(* The server. *)

Acting == {s \in Slots : requests[s].step \in {"admitted", "half"}}

\* The user form makes nothing of its answers here, except of a 401.
Heard(r, answer) == r.by # "none" /\ (r.op \in Admins => answer = "401")
Reply(s, answer, result) ==
    Put(s, IF Heard(requests[s], answer)
           THEN [requests[s] EXCEPT !.step = "answered", !.answer = answer, !.result = result]
           ELSE NoRequest)

\* SessionUser: the session is live and its user active.
Known(t) == Live(t) /\ user[session[t].user].role # "off"

\* Variant of SelfSpared: nothing is refused.
SelfNotSpared(r) == TRUE

\* An administrator may not deactivate or demote himself.
SelfSpared(r) ==
    r.op = "updateUser" /\ session[r.token].user = r.on => r.role = "admin"

\* requireAuth, admin and the checks before the first write; Credentials and
\* VerifyPassword for a login.
Reads(s, r) ==
    LET let == IF r.op = "login" THEN user[r.on].role # "off" /\ r.word = user[r.on].password
                                 ELSE Known(r.token)
        may == r.op \in Admins => user[session[r.token].user].role = "admin" /\ SelfSpared(r) IN
    /\ IF ~let               THEN Reply(s, "401", "none")
       ELSE IF r.op = "me"   THEN Reply(s, "ok", session[r.token].user)
       ELSE IF ~may          THEN Reply(s, "refused", "none")
       ELSE Put(s, [r EXCEPT !.step = "admitted"])
    /\ clean' = (clean /\ (let /\ may /\ r.op # "me" => Acting = {}))
Admit(s) ==
    LET r == requests[s] IN
    /\ r.step = "sent"
    /\ \/ r.op = "me" /\ Reads(s, r)
       \/ \E u \in Users :
             \/ r.op = "login" /\ \E word \in 0..user[u].password : Reads(s, [r EXCEPT !.on = u, !.word = word])
             \/ r.op = "setPassword" /\ Reads(s, [r EXCEPT !.on = u])
             \/ r.op = "updateUser" /\ \E role \in Roles : Reads(s, [r EXCEPT !.on = u, !.role = role])
    /\ UNCHANGED <<user, session, page>>

\* login, after the password was found right.
CreateSession(s) ==
    LET r == requests[s]
        new == {t \in Tokens : session[t] = NoSession} IN
    /\ r.op = "login" /\ r.step = "admitted" /\ new # {}
    /\ session' = [session EXCEPT ![Min(new)] = [user |-> r.on, password |-> r.word, live |-> TRUE]]
    /\ Reply(s, "ok", Min(new))
    /\ UNCHANGED <<user, page, clean>>

\* logout, of whatever the cookie says; nobody is asked who he is.
DeleteSession(s) ==
    LET r == requests[s] IN
    /\ r.op = "logout" /\ r.step = "sent"
    /\ session' = Dead({r.token})
    /\ Reply(s, "ok", "none")
    /\ UNCHANGED <<user, page, clean>>

UpdateUser(s) ==
    LET r == requests[s] IN
    /\ r.op = "updateUser" /\ r.step = "admitted"
    /\ user' = [user EXCEPT ![r.on].role = r.role]
    /\ Reply(s, "ok", "none")
    /\ UNCHANGED <<session, page, clean>>

\* SetPassword: two statements.
SetPassword(s) ==
    LET r == requests[s] IN
    /\ r.op = "setPassword" /\ r.step = "admitted" /\ user[r.on].password < MaxPassword
    /\ user' = [user EXCEPT ![r.on].password = @ + 1]
    /\ Put(s, [r EXCEPT !.step = "half"])
    /\ UNCHANGED <<session, page, clean>>

\* Variant of Revoked: the session of the request survives.
RevokedButOwn(r) == {t \in Tokens : session[t].user = r.on /\ t # r.token}

Revoked(r) == {t \in Tokens : session[t].user = r.on}
RevokeSessions(s) ==
    LET r == requests[s] IN
    /\ r.step = "half"
    /\ session' = Dead(Revoked(r))
    /\ Reply(s, "ok", "none")
    /\ UNCHANGED <<user, page, clean>>

\* A statement fails; what was done before it stays.
Breaks(s) ==
    /\ \/ requests[s].step \in {"admitted", "half"}
       \/ requests[s].step = "sent" /\ requests[s].op = "logout"
    /\ Reply(s, "refused", "none")
    /\ clean' = (clean /\ requests[s].step # "half")
    /\ UNCHANGED <<user, session, page>>

\* Thirty days later; the row goes with the next login, and nobody can tell.
Expire(t) ==
    /\ Live(t)
    /\ session' = Dead({t})
    /\ UNCHANGED <<user, page, requests, clean>>

-----------------------------------------------------------------------------
(* The answer. *)

\* Variant of ToLogin: the user is not reset.
ToLoginKeeping(b) == page' = [page EXCEPT ![b].shows = "login", ![b].bare = FALSE]

ToLogin(b) == page' = [page EXCEPT ![b].shows = "login", ![b].user = "none", ![b].bare = FALSE]
ToApp(b, u) == page' = [page EXCEPT ![b].shows = "app", ![b].user = u, ![b].bare = page[b].cookie = 0]

\* The network fails: before the request was served, or after, or when the
\* body of a good answer is read.
Lost(s) ==
    LET r == requests[s] IN
    /\ r.by # "none" /\ r.step # "body" /\ (r.step = "received" => r.answer # "401")
    /\ \/ Put(s, Gone(r))
       \/ r.step = "sent" /\ Put(s, NoRequest)
    /\ IF r.op \in {"me", "logout"} THEN ToLogin(r.by) ELSE page' = page
    /\ UNCHANGED <<user, session, clean>>

\* The headers: a log-in sets the cookie; a sign-out, and a 401 about a cookie,
\* clear the one there is by now.
Clears(r) == (r.answer = "ok" /\ r.op = "logout") \/ (r.answer = "401" /\ r.op # "login" /\ r.token # 0)
Cookie(r) ==
    IF r.answer = "ok" /\ r.op = "login" THEN r.result ELSE IF Clears(r) THEN 0 ELSE page[r.by].cookie
Receives(s) ==
    LET r == requests[s] IN
    /\ r.step = "answered" /\ r.by # "none"
    /\ Put(s, [r EXCEPT !.step = "received"])
    /\ page' = [page EXCEPT ![r.by].cookie = Cookie(r)]
    /\ UNCHANGED <<user, session, clean>>

\* failure: the listener of App drops back to the login form, before the body
\* of the 401 is read.
Unauthorized(s) ==
    LET r == requests[s] IN
    /\ r.step = "received" /\ r.answer = "401"
    /\ Put(s, IF r.op \in Admins THEN NoRequest ELSE [r EXCEPT !.step = "body"])
    /\ ToLogin(r.by)
    /\ UNCHANGED <<user, session, clean>>

\* What waited for the request goes on: a probe that failed shows the login
\* form, once more after a 401, and so does a sign-out; a log-in that failed
\* gives its button back.
Settles(s) ==
    LET r == requests[s] IN
    /\ r.step = "body" \/ (r.step = "received" /\ r.answer # "401")
    /\ Put(s, NoRequest)
    /\ CASE r.answer = "ok" /\ r.op = "me"     -> ToApp(r.by, r.result)
         [] r.answer = "ok" /\ r.op = "login"  -> ToApp(r.by, session[r.result].user)
         [] r.answer # "ok" /\ r.op = "me"     -> ToLogin(r.by)
         [] r.op = "logout"                    -> ToLogin(r.by)
         [] OTHER                              -> page' = page
    /\ UNCHANGED <<user, session, clean>>
-----------------------------------------------------------------------------
\* Administrators all, nobody signed in, no page open.
Init ==
    /\ user = [u \in Users |-> [role |-> "admin", password |-> 0]]
    /\ session = [t \in Tokens |-> NoSession]
    /\ page = [b \in Browsers |-> [shows |-> "nothing", user |-> "none", cookie |-> 0, bare |-> FALSE]]
    /\ requests = [s \in Slots |-> NoRequest]
    /\ clean = TRUE

Progress(s) == Admit(s) \/ CreateSession(s) \/ DeleteSession(s) \/ UpdateUser(s) \/ SetPassword(s)
               \/ RevokeSessions(s) \/ Breaks(s) \/ Lost(s) \/ Receives(s)
               \/ Unauthorized(s) \/ Settles(s)

Next ==
    \/ \E b \in Browsers : Visit(b) \/ LogIn(b) \/ SignOut(b) \/ EditUser(b)
    \/ \E s \in Slots : Progress(s)
    \/ \E t \in Tokens : Expire(t)

Spec == Init /\ [][Next]_vars

-----------------------------------------------------------------------------
(* Properties. *)

\* Rows, pages and requests have the shapes of the tables and of the state of
\* the client; a live session is somebody's, and a page knows a user exactly
\* when it shows the application.
TypeOK ==
    /\ user \in [Users -> [role : Roles, password : 0..MaxPassword]]
    /\ session \in [Tokens -> [user : {"none"} \cup Users, password : 0..MaxPassword, live : BOOLEAN]]
    /\ \A t \in Tokens : Live(t) => session[t].user \in Users
    /\ page \in [Browsers -> [shows : {"nothing", "probing", "login", "app"}, user : {"none"} \cup Users,
                              cookie : {0} \cup Tokens, bare : BOOLEAN]]
    /\ \A b \in Browsers : page[b].shows = "app" <=> page[b].user # "none"
    /\ \A s \in Slots : requests[s].token \in {0} \cup Tokens /\ requests[s].by \in {"none"} \cup Browsers

\* "The guardrails against locking every administrator out one click at a
\* time": as long as requests do not overlap, there is an active administrator.
AdminRemains == clean => \E u \in Users : user[u].role = "admin"

\* "Whoever held the old password stops being logged in": as long as requests
\* do not overlap and no change of a password stops half-way, every session
\* that is left was given for the password its user has now.
PasswordsCurrent ==
    clean /\ (\A s \in Slots : requests[s].step # "half") =>
        \A t \in Tokens : Live(t) => session[t].password = user[session[t].user].password

\* The page is about to be told that its cookie is gone.
Dropping(b) == \E s \in Slots : requests[s].by = b /\ requests[s].step = "received" /\ Clears(requests[s])

\* However answers are delayed, lost or outrun each other, a page that shows a
\* user has a cookie of that user, or none: what is done there is done as the
\* one who is shown, or refused.  There is none only until the page has taken
\* notice, or when a 401 or an earlier sign-out cleared the cookie of a log-in
\* whose answer was still being read.
SignedInAs ==
    \A b \in Browsers : page[b].shows = "app" =>
        IF page[b].cookie # 0 THEN session[page[b].cookie].user = page[b].user
                              ELSE page[b].bare \/ Dropping(b)

=============================================================================
