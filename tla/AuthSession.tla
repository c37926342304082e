---------------------------- MODULE AuthSession ----------------------------
(***************************************************************************)
(* The console sessions of one account, and one browser: the session rows, *)
(* the handlers that write them (login, refresh, logout, close_session, a  *)
(* new password, a deactivation, the purge), the refresh cookie the tabs   *)
(* share, and each tab's access token with its silent refresh, its replay  *)
(* after a 401 and its losses.                                             *)
(*                                                                         *)
(* refresh reads its row FOR UPDATE, and logout ends the rows it read      *)
(* whatever became of them: each is one step.  login is two: the password  *)
(* is verified on the account it read, the session is inserted later.      *)
(*                                                                         *)
(* A refresh token is the session it names and its age, how often it has   *)
(* been replaced since it was issued: the row's refresh_token_hash is the  *)
(* hash of the token of age 0, previous_refresh_token_hash of the one of   *)
(* age 1, NULL while there is none.  A rotation ages every copy there is.  *)
(* Nobody but the browser holds one.                                       *)
(*                                                                         *)
(* Not here: lockout and rate limits, reset links (SetPassword stands for  *)
(* the three ways to change a password), permissions.  A tab does one      *)
(* thing at a time.                                                        *)
(***************************************************************************)
EXTENDS Integers, FiniteSets

CONSTANTS
    Session,      \* session ids
    NoSession,    \* none
    Tab,          \* tabs of the browser
    Grace,        \* REFRESH_REUSE_GRACE
    AccessTtl,    \* ACCESS_TOKEN_EXPIRE_MINUTES
    RefreshTtl,   \* REFRESH_TOKEN_EXPIRE_DAYS
    SessionMax,   \* SESSION_MAX_DAYS
    RoundTrip,    \* bound: how long a request, its handling and its answer take
    Requests,     \* bound: requests under way at once
    Changes,      \* bound: password changes and deactivations
    MaxTime       \* bound: last instant of the clock

ASSUME SessionAssumption ==
    /\ NoSession \notin Session
    /\ Requests \in Nat /\ Changes \in Nat /\ MaxTime \in Nat
    /\ Grace \in Nat /\ AccessTtl \in Nat /\ RefreshTtl \in Nat /\ SessionMax \in Nat
    \* "Thirty seconds covers a slow network many times over"
    /\ RoundTrip \in Nat /\ 2 * RoundTrip <= Grace

VARIABLES
    now,          \* the clock
    user,         \* the account: password, is_active, password_changed_at
    sess,         \* the session rows
    reqs,         \* requests under way, to the server and back
    cookie,       \* the refresh cookie
    tabs,         \* what each tab does, and its access token
    left,         \* history: sessions the server was asked to leave
    lost,         \* history: sessions one of whose new tokens was lost
    overtaken,    \* history: sessions refreshed twice while a third request was on its way
    suspected     \* history: sessions ended as stolen

hist == <<left, lost, overtaken, suspected>>
vars == <<now, user, sess, reqs, cookie, tabs, hist>>

Time  == 0 .. MaxTime
SomeSession == Session \cup {NoSession}

\* offs: bound on the deactivations.
User == [pw : 0 .. Changes, active : BOOLEAN, changedAt : Time, offs : 0 .. Changes]

\* pw and overlap are history: the password the session was opened with, and whether
\* the account changed between its check and the opening.
Row == [state : {"none", "open", "ended"}, created : Time, used : Time,
        expires : 0 .. MaxTime + RefreshTtl, pw : 0 .. Changes, overlap : BOOLEAN]
NoRow == [state |-> "none", created |-> 0, used |-> 0, expires |-> 0, pw |-> 0,
          overlap |-> FALSE]

\* The ages that tell refresh tokens apart: current, just replaced, older.
Age == 0 .. 2
Token == [sid : SomeSession, age : Age]
NoToken == [sid |-> NoSession, age |-> 0]
Access == [sid : SomeSession, iat : Time]
NoAccess == [sid |-> NoSession, iat |-> 0]

\* live: its tab still waits.  set: the cookie an answer sets, if any.
Req == [kind : {"login", "refresh", "logout"}, tab : Tab, live : BOOLEAN, at : Time,
        step : {"sent", "verified", "ok", "refused"}, pw : 0 .. Changes,
        overlap : BOOLEAN, token : Token, access : Access, set : Token]

\* Every variable has its type, and no session outlives its ceiling (_expiry).
TypeOK ==
    /\ now \in Time /\ user \in User
    /\ sess \in [Session -> Row]
    /\ \A s \in Session : sess[s].expires <= sess[s].created + SessionMax
    /\ reqs \subseteq Req
    /\ cookie \in Token
    /\ tabs \in [Tab -> [step : {"start", "out", "in", "wait", "replay"}, access : Access]]
    /\ left \subseteq Session /\ lost \subseteq Session /\ overtaken \subseteq Session
    /\ suspected \subseteq Session

Init ==
    /\ now = 0
    /\ user = [pw |-> 0, active |-> TRUE, changedAt |-> 0, offs |-> 0]
    /\ sess = [s \in Session |-> NoRow]
    /\ reqs = {} /\ cookie = NoToken
    /\ tabs = [t \in Tab |-> [step |-> "start", access |-> NoAccess]]
    /\ left = {} /\ lost = {} /\ overtaken = {} /\ suspected = {}

-----------------------------------------------------------------------------
\* is_live
Live(s) == sess[s].state = "open" /\ sess[s].expires > now

\* A revoked row authorizes nothing, whatever else is in it.
Ended == [NoRow EXCEPT !.state = "ended"]
End(ended) == [s \in Session |-> IF s \in ended THEN Ended ELSE sess[s]]

\* Ids are random: a new one is never one that is still written down somewhere.
Mentioned(s) ==
    \/ sess[s].state # "none" \/ cookie.sid = s
    \/ \E m \in reqs : s \in {m.token.sid, m.access.sid, m.set.sid}
    \/ \E t \in Tab : tabs[t].access.sid = s

\* _expiry
Expiry(created, t) ==
    IF t + RefreshTtl <= created + SessionMax THEN t + RefreshTtl ELSE created + SessionMax

\* The signature and the expiry of an access token (decode_access_token).
Genuine(a) == a.sid # NoSession /\ now < a.iat + AccessTtl

\* _authenticate: the session is live, the account active, the token recent enough.
Authorized(a) == Genuine(a) /\ Live(a.sid) /\ user.active /\ a.iat >= user.changedAt

\* The answer m has, once handled.
Answer(m, step, access, set) ==
    [m EXCEPT !.step = step, !.access = access, !.set = set, !.token = NoToken, !.pw = 0,
              !.overlap = FALSE]
Answered(m, answer) == reqs' = (reqs \ {m}) \cup {answer}
Refused(m) == Answered(m, Answer(m, "refused", NoAccess, NoToken))

-----------------------------------------------------------------------------
(* The server.                                                              *)

Tick ==
    /\ now < MaxTime /\ \A m \in reqs : now < m.at + RoundTrip
    /\ now' = now + 1
    /\ UNCHANGED <<user, sess, reqs, cookie, tabs, hist>>

\* login, authenticate: on the account as it is read.
LoginVerify(m) ==
    /\ m.kind = "login" /\ m.step = "sent"
    /\ IF user.active /\ m.pw = user.pw
       THEN Answered(m, [m EXCEPT !.step = "verified"])
       ELSE Refused(m)
    /\ UNCHANGED <<now, user, sess, cookie, tabs, hist>>

\* login, open_session and its commit.
LoginCommit(m) ==
    /\ m.kind = "login" /\ m.step = "verified"
    /\ \E s \in Session :
       /\ ~Mentioned(s)
       /\ sess' = [sess EXCEPT ![s] = [state |-> "open", created |-> now, used |-> now,
                                       expires |-> Expiry(now, now), pw |-> m.pw,
                                       overlap |-> m.overlap]]
       /\ Answered(m, Answer(m, "ok", [sid |-> s, iat |-> now], [sid |-> s, age |-> 0]))
       /\ left' = left \ {s} /\ lost' = lost \ {s} /\ overtaken' = overtaken \ {s}
       /\ suspected' = suspected \ {s}
    /\ UNCHANGED <<now, user, cookie, tabs>>

\* What a refresh token is to the session it names.
Opens(k) == k.sid # NoSession /\ Live(k.sid)
IsCurrent(k) == k.age = 0
\* Faulty variant: the grace counts from the opening of the session.
JustReplacedSinceLogin(k) == k.age = 1 /\ now - sess[k.sid].created <= Grace
JustReplaced(k) == k.age = 1 /\ now - sess[k.sid].used <= Grace

Presents(m) == m.kind = "refresh" /\ m.step = "sent"

Older(k, s) == IF k.sid = s /\ k.age < 2 THEN [k EXCEPT !.age = @ + 1] ELSE k

\* refresh, of the current token: a new one, and the old one kept aside.
Rotate(m) ==
    /\ Presents(m) /\ Opens(m.token) /\ IsCurrent(m.token) /\ user.active
    /\ LET s == m.token.sid
           answer == Answer(m, "ok", [sid |-> s, iat |-> now], [sid |-> s, age |-> 0])
           aged == {[r EXCEPT !.token = Older(r.token, s), !.set = Older(r.set, s)] :
                    r \in reqs \ {m}}
       IN /\ sess' = [sess EXCEPT ![s].used = now, ![s].expires = Expiry(sess[s].created, now)]
          /\ cookie' = Older(cookie, s)
          /\ reqs' = aged \cup {answer}
          /\ overtaken' = IF \E r \in aged : r.token = [sid |-> s, age |-> 2]
                          THEN overtaken \cup {s} ELSE overtaken
    /\ UNCHANGED <<now, user, tabs, left, lost, suspected>>

\* Another tab won the race: an access token, and the cookie left as it is.
Tolerate(m) ==
    /\ Presents(m) /\ Opens(m.token) /\ ~IsCurrent(m.token) /\ JustReplaced(m.token)
    /\ user.active
    /\ Answered(m, Answer(m, "ok", [sid |-> m.token.sid, iat |-> now], NoToken))
    /\ UNCHANGED <<now, user, sess, cookie, tabs, hist>>

\* A stale token of a live session: the session is ended for both its holders.
Suspect(m) ==
    /\ Presents(m) /\ Opens(m.token) /\ ~IsCurrent(m.token) /\ ~JustReplaced(m.token)
    /\ sess' = End({m.token.sid}) /\ suspected' = suspected \cup {m.token.sid}
    /\ Refused(m)
    /\ UNCHANGED <<now, user, cookie, tabs, left, lost, overtaken>>

\* The backstop: the account is not active, the session that escaped is ended.
RefuseInactive(m) ==
    /\ Presents(m) /\ Opens(m.token)
    /\ IsCurrent(m.token) \/ JustReplaced(m.token)
    /\ ~user.active
    /\ sess' = End({m.token.sid}) /\ Refused(m)
    /\ UNCHANGED <<now, user, cookie, tabs, hist>>

\* No cookie, or one that opens nothing.
RefuseUnknown(m) ==
    /\ Presents(m) /\ ~Opens(m.token) /\ Refused(m)
    /\ UNCHANGED <<now, user, sess, cookie, tabs, hist>>

\* Faulty variant: only the current token identifies the session to leave.
FoundCurrent(k) == IF Opens(k) /\ IsCurrent(k) THEN {k.sid} ELSE {}

\* find_by_refresh_token
Found(k) == IF Opens(k) /\ k.age < 2 THEN {k.sid} ELSE {}

\* logout: either credential is proof enough to end its session.
Logout(m) ==
    /\ m.kind = "logout" /\ m.step = "sent"
    /\ LET bearer == IF Genuine(m.access) THEN {m.access.sid} ELSE {}
           named == Found(m.token) \cup {s \in bearer : sess[s].state = "open"}
       IN /\ sess' = End(named)
          /\ left' = left \cup bearer \cup ({m.token.sid} \ {NoSession})
    /\ Answered(m, Answer(m, "ok", NoAccess, NoToken))
    /\ UNCHANGED <<now, user, cookie, tabs, lost, overtaken, suspected>>

\* Faulty variant: the expired sessions, and not the live ones.
OpenPast == {s \in Session : sess[s].state = "open" /\ ~Live(s)}

\* revoke_all: every session it can see; one being inserted is not.
OpenOnes == {s \in Session : sess[s].state = "open"}
Overlapping == {[m EXCEPT !.overlap = m.step = "verified"] : m \in reqs}

\* set_password, by its owner, a reset link or an administrator.
SetPassword ==
    /\ user.pw + user.offs < Changes
    /\ user' = [user EXCEPT !.pw = @ + 1, !.changedAt = now]
    /\ sess' = End(OpenOnes) /\ reqs' = Overlapping
    /\ UNCHANGED <<now, cookie, tabs, hist>>

\* update_user: a deactivation ends the sessions in its transaction.
Deactivate ==
    /\ user.active /\ user.pw + user.offs < Changes
    /\ user' = [user EXCEPT !.active = FALSE, !.offs = @ + 1]
    /\ sess' = End(OpenOnes) /\ reqs' = Overlapping
    /\ UNCHANGED <<now, cookie, tabs, hist>>

Reactivate ==
    /\ ~user.active /\ user' = [user EXCEPT !.active = TRUE]
    /\ UNCHANGED <<now, sess, reqs, cookie, tabs, hist>>

\* close_session, from another workstation.
CloseSession(s) ==
    /\ Live(s) /\ user.active /\ sess' = End({s})
    /\ UNCHANGED <<now, user, reqs, cookie, tabs, hist>>

\* purge_expired_sessions
Purge ==
    /\ \E s \in Session : sess[s].state # "none" /\ ~Live(s)
    /\ sess' = [s \in Session |-> IF Live(s) THEN sess[s] ELSE NoRow]
    /\ UNCHANGED <<now, user, reqs, cookie, tabs, hist>>

-----------------------------------------------------------------------------
(* The browser.                                                             *)

Go(t, step, access) == tabs' = [tabs EXCEPT ![t] = [step |-> step, access |-> access]]

Send(t, kind, pw) ==
    /\ Cardinality(reqs) < Requests
    /\ reqs' = reqs \cup {[kind |-> kind, tab |-> t, live |-> TRUE, at |-> now, step |-> "sent",
                           pw |-> pw, overlap |-> FALSE,
                           token |-> IF kind = "login" THEN NoToken ELSE cookie,
                           access |-> IF kind = "logout" THEN tabs[t].access ELSE NoAccess,
                           set |-> NoToken]}
    /\ Go(t, "wait", tabs[t].access)
    /\ UNCHANGED <<now, user, sess, cookie, hist>>

\* ensureSession, of a page that was just loaded or that a signed-out tab goes to.
SilentRefresh(t) == tabs[t].step \in {"start", "out"} /\ Send(t, "refresh", 0)

\* A call answered 401: one refresh for all of them (singleFlight).
Unauthorized(t) ==
    tabs[t].step = "in" /\ ~Authorized(tabs[t].access) /\ Send(t, "refresh", 0)

\* The call is sent again, once: refused again, the session is lost.
Replay(t) ==
    /\ tabs[t].step = "replay"
    /\ IF Authorized(tabs[t].access) THEN Go(t, "in", tabs[t].access) ELSE Go(t, "out", NoAccess)
    /\ UNCHANGED <<now, user, sess, reqs, cookie, hist>>

SignIn(t)  == tabs[t].step = "out" /\ Send(t, "login", user.pw)
SignOut(t) == tabs[t].step = "in" /\ Send(t, "logout", 0)

\* What the browser does with the cookie of an answer, whoever asked for it.
SetCookie(m) ==
    cookie' = IF m.set # NoToken THEN m.set
              ELSE IF m.kind = "logout" \/ (m.kind = "refresh" /\ m.step = "refused")
              THEN NoToken ELSE cookie

\* What the tab does: signed in, signed in again after a 401, or out.
Resume(m) ==
    IF m.kind # "logout" /\ m.step = "ok"
    THEN Go(m.tab, IF tabs[m.tab].access = NoAccess THEN "in" ELSE "replay", m.access)
    ELSE Go(m.tab, "out", NoAccess)

Receive(m) ==
    /\ m.step \in {"ok", "refused"}
    /\ reqs' = reqs \ {m} /\ SetCookie(m)
    /\ IF m.live THEN Resume(m) ELSE UNCHANGED tabs
    /\ UNCHANGED <<now, user, sess, hist>>

\* A request or an answer is lost, or a page that was left drops the answer: a tab
\* that still waits takes it for the end of its session.
Lost(m) ==
    /\ reqs' = reqs \ {m}
    /\ IF m.live THEN Go(m.tab, "out", NoAccess) ELSE UNCHANGED tabs
    /\ lost' = lost \cup ({m.set.sid} \ {NoSession})
    /\ UNCHANGED <<now, user, sess, cookie, left, overtaken, suspected>>

\* The page is loaded again: memory is lost, requests are left to themselves.
Reload(t) ==
    /\ tabs[t].step # "start" /\ Go(t, "start", NoAccess)
    /\ reqs' = {IF m.tab = t THEN [m EXCEPT !.live = FALSE] ELSE m : m \in reqs}
    /\ UNCHANGED <<now, user, sess, cookie, hist>>

-----------------------------------------------------------------------------
Server ==
    \/ \E m \in reqs :
          \/ LoginVerify(m) \/ LoginCommit(m) \/ Logout(m)
          \/ Rotate(m) \/ Tolerate(m) \/ Suspect(m) \/ RefuseInactive(m) \/ RefuseUnknown(m)
    \/ SetPassword \/ Deactivate \/ Reactivate \/ Purge
    \/ \E s \in Session : CloseSession(s)

Browser ==
    \/ \E t \in Tab :
          \/ SilentRefresh(t) \/ Unauthorized(t) \/ Replay(t)
          \/ SignIn(t) \/ SignOut(t) \/ Reload(t)
    \/ \E m \in reqs : Receive(m) \/ Lost(m)

Next == Tick \/ Server \/ Browser

Spec == Init /\ [][Next]_vars

-----------------------------------------------------------------------------
(* What correct sessions promise.                                           *)

\* A new password, or a deactivation, ends every session of the account (revoke_all):
\* what is live was opened with the present password, on an active account, or was
\* being opened at the very moment, its password checked and its row not yet there.
ShutOut ==
    \A s \in Session :
        Live(s) /\ ~sess[s].overlap => user.active /\ sess[s].pw = user.pw

\* Logging out is final (logout, find_by_refresh_token): no session that was named to
\* the server, by the cookie or by the access token, survives, whatever the other tabs
\* have under way; but a cookie traded twice on its way names nothing any more.
LeftIsOver == \A s \in left \ overtaken : ~Live(s)

\* A session is ended as stolen (refresh, REUSED) only if one of its new tokens never
\* reached the browser, or if it was traded twice while a third request was on its way:
\* two tabs that race for the cookie are never taken for thieves.
SuspectedWasStrained == suspected \subseteq lost \cup overtaken
=============================================================================
