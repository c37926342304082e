------------------------- MODULE AuthSessionProofs -------------------------
(***************************************************************************)
(* For any sessions, tabs, life times and number of requests: the types,   *)
(* and that a new password or a deactivation leaves nothing open but what  *)
(* was being opened meanwhile.  What the second needs beyond itself is     *)
(* that a login whose password was checked, and that no change of the      *)
(* account overlapped, still stands for the account as it is.  Then what   *)
(* depends on where the copies of a token are: that a logout is final, and *)
(* that tabs racing for the cookie are not taken for thieves.              *)
(***************************************************************************)
EXTENDS AuthSession, TLAPS

ServerStep(m) ==
    \/ LoginVerify(m) \/ LoginCommit(m) \/ Logout(m)
    \/ Rotate(m) \/ Tolerate(m) \/ Suspect(m) \/ RefuseInactive(m) \/ RefuseUnknown(m)
TabStep(t) ==
    \/ SilentRefresh(t) \/ Unauthorized(t) \/ Replay(t) \/ SignIn(t) \/ SignOut(t) \/ Reload(t)

-----------------------------------------------------------------------------
(* What the helpers return.                                                 *)

\* The end of a session is after its beginning, and within both its limits.
LEMMA ExpiryBounds ==
    ASSUME NEW created \in Time, NEW t \in Time
    PROVE  /\ Expiry(created, t) \in 0 .. MaxTime + RefreshTtl
           /\ Expiry(created, t) <= created + SessionMax
BY SessionAssumption DEF Expiry, Time

\* A copy of a token stays a token when it ages.
LEMMA OlderType == ASSUME NEW k \in Token, NEW s \in Session PROVE Older(k, s) \in Token
BY DEF Older, Token, Age

\* The empty values have the types of the full ones.
LEMMA EmptyTypes == NoToken \in Token /\ NoAccess \in Access /\ NoRow \in Row /\ Ended \in Row
<1>1. 0 \in Time /\ 0 \in 0 .. MaxTime + RefreshTtl /\ 0 \in 0 .. Changes /\ 0 \in Age
  BY SessionAssumption DEF Time, Age
<1>2. NoSession \in SomeSession
  BY DEF SomeSession
<1>3. NoToken \in Token /\ NoAccess \in Access
  BY <1>1, <1>2 DEF NoToken, Token, NoAccess, Access
<1>4. NoRow \in Row
  BY <1>1 DEF NoRow, Row
<1>5. Ended \in Row
  BY <1>4 DEF Ended, Row
<1> QED BY <1>3, <1>4, <1>5

\* An answer is a request record, of no step that is still to be handled.
LEMMA AnswerType ==
    ASSUME NEW m \in Req, NEW step \in {"ok", "refused"}, NEW access \in Access,
           NEW set \in Token
    PROVE  /\ Answer(m, step, access, set) \in Req
           /\ Answer(m, step, access, set).step = step
<1>1. 0 \in 0 .. Changes /\ NoToken \in Token
  BY EmptyTypes, SessionAssumption
<1> QED BY <1>1 DEF Answer, Req

\* The rows as an end of some sessions leaves them.
LEMMA EndType ==
    ASSUME NEW ended, sess \in [Session -> Row]
    PROVE  /\ End(ended) \in [Session -> Row]
           /\ \A s \in Session : End(ended)[s] = IF s \in ended THEN Ended ELSE sess[s]
BY EmptyTypes DEF End

-----------------------------------------------------------------------------
\* The sessions keep their type and their ceiling.
SessOK ==
    /\ sess \in [Session -> Row]
    /\ \A s \in Session : sess[s].expires <= sess[s].created + SessionMax

\* Ending sessions keeps both.
LEMMA EndOK ==
    ASSUME NEW ended, SessOK, sess' = End(ended)
    PROVE  SessOK'
<1>1. sess' \in [Session -> Row]
  BY EndType DEF SessOK
<1>2. ASSUME NEW s \in Session PROVE sess'[s].expires <= sess'[s].created + SessionMax
  <2>1. Ended.expires <= Ended.created + SessionMax
    BY SessionAssumption DEF Ended, NoRow
  <2> QED BY <2>1, EndType DEF SessOK
<1> QED BY <1>1, <1>2 DEF SessOK

\* Answering a request, or refusing it, keeps the requests typed.
LEMMA AnsweredOK ==
    ASSUME reqs \subseteq Req, NEW m \in reqs, NEW answer \in Req,
           Answered(m, answer)
    PROVE  reqs' \subseteq Req
BY DEF Answered

\* A refusal is an answer too.
LEMMA RefusedOK ==
    ASSUME reqs \subseteq Req, NEW m \in reqs, Refused(m)
    PROVE  reqs' \subseteq Req
<1>1. Answer(m, "refused", NoAccess, NoToken) \in Req
  BY AnswerType, EmptyTypes
<1> QED BY <1>1, AnsweredOK DEF Refused

\* TypeOK, cut into the parts that steps touch together.
TabType == [step : {"start", "out", "in", "wait", "replay"}, access : Access]
HistOK ==
    /\ left \subseteq Session /\ lost \subseteq Session /\ overtaken \subseteq Session
    /\ suspected \subseteq Session

Parts ==
    /\ now \in Time /\ user \in User /\ SessOK /\ reqs \subseteq Req
    /\ cookie \in Token /\ tabs \in [Tab -> TabType] /\ HistOK

\* The parts are the whole, before a step and after it.
LEMMA TypeParts == (TypeOK <=> Parts) /\ (TypeOK' <=> Parts')
BY DEF TypeOK, Parts, SessOK, TabType, HistOK

\* A step of the server on one request keeps every type (login, refresh, logout).
LEMMA ServerTypes ==
    ASSUME TypeOK, NEW m \in reqs, ServerStep(m)
    PROVE  TypeOK'
<1> USE TypeParts DEF Parts
<1> m \in Req /\ now \in Time /\ SessOK /\ reqs \subseteq Req /\ HistOK /\ cookie \in Token
  OBVIOUS
<1>a. /\ m.token \in Token /\ m.access \in Access /\ m.set \in Token
      /\ m.pw \in 0 .. Changes /\ m.overlap \in BOOLEAN
  BY DEF Req
<1>b. ASSUME NEW s \in Session PROVE [sid |-> s, iat |-> now] \in Access
  BY DEF Access, SomeSession
<1>c. ASSUME NEW s \in Session, NEW n \in Age PROVE [sid |-> s, age |-> n] \in Token
  BY DEF Token, SomeSession
<1>d. 0 \in Age /\ 2 \in Age
  BY DEF Age
<1>e. Presents(m) /\ Opens(m.token) => m.token.sid \in Session
  BY <1>a DEF Opens, Token, SomeSession
<1>1. CASE LoginVerify(m)
  <2>1. [m EXCEPT !.step = "verified"] \in Req
    BY DEF Req
  <2>2. reqs' \subseteq Req
    BY <1>1, <2>1, AnsweredOK, RefusedOK DEF LoginVerify
  <2> QED BY <1>1, <2>2 DEF LoginVerify, hist, SessOK, HistOK
<1>2. CASE LoginCommit(m)
  <2> PICK s \in Session :
        /\ sess' = [sess EXCEPT ![s] = [state |-> "open", created |-> now, used |-> now,
                                         expires |-> Expiry(now, now), pw |-> m.pw,
                                         overlap |-> m.overlap]]
        /\ Answered(m, Answer(m, "ok", [sid |-> s, iat |-> now], [sid |-> s, age |-> 0]))
        /\ left' = left \ {s} /\ lost' = lost \ {s} /\ overtaken' = overtaken \ {s}
        /\ suspected' = suspected \ {s}
    BY <1>2 DEF LoginCommit
  <2>1. reqs' \subseteq Req
    BY <1>b, <1>c, <1>d, AnswerType, AnsweredOK
  <2>2. [state |-> "open", created |-> now, used |-> now, expires |-> Expiry(now, now),
         pw |-> m.pw, overlap |-> m.overlap] \in Row
    BY <1>a, ExpiryBounds DEF Row
  <2>3. SessOK'
    BY <2>2, ExpiryBounds DEF SessOK
  <2>4. HistOK'
    BY DEF HistOK
  <2> QED BY <1>2, <2>1, <2>3, <2>4 DEF LoginCommit
<1>3. CASE Logout(m)
  <2>1. reqs' \subseteq Req
    BY <1>3, EmptyTypes, AnswerType, AnsweredOK DEF Logout
  <2>2. SessOK'
    BY <1>3, EndOK DEF Logout
  <2>3. HistOK'
    BY <1>3, <1>a DEF Logout, HistOK, Genuine, Access, Token, SomeSession
  <2> QED BY <1>3, <2>1, <2>2, <2>3 DEF Logout
<1>4. CASE Rotate(m)
  <2> DEFINE s == m.token.sid
             row == [sess[s] EXCEPT !.used = now, !.expires = Expiry(sess[s].created, now)]
             aged == {[r EXCEPT !.token = Older(r.token, s), !.set = Older(r.set, s)] :
                      r \in reqs \ {m}}
  <2>1. s \in Session
    BY <1>4, <1>e DEF Rotate
  <2>2. aged \subseteq Req
    <3>1. ASSUME NEW r \in reqs
          PROVE  [r EXCEPT !.token = Older(r.token, s), !.set = Older(r.set, s)] \in Req
      <4>1. Older(r.token, s) \in Token /\ Older(r.set, s) \in Token
        BY <2>1, OlderType DEF Req
      <4> QED BY <4>1 DEF Req
    <3> QED BY <3>1
  <2>3. reqs' \subseteq Req
    <3>1. Answer(m, "ok", [sid |-> s, iat |-> now], [sid |-> s, age |-> 0]) \in Req
      BY <2>1, <1>b, <1>c, <1>d, AnswerType
    <3> QED BY <1>4, <2>2, <3>1 DEF Rotate
  <2>4. sess' = [sess EXCEPT ![s] = row]
    BY <1>4, <2>1 DEF Rotate, SessOK
  <2>5. sess[s] \in Row /\ sess[s].created \in Time
    BY <2>1 DEF SessOK, Row
  <2>6. row \in Row /\ row.expires <= row.created + SessionMax
    BY <2>5, ExpiryBounds DEF Row
  <2>7. SessOK'
    BY <2>1, <2>4, <2>6 DEF SessOK
  <2>8. cookie' \in Token
    BY <1>4, <2>1, OlderType DEF Rotate
  <2>9. HistOK'
    BY <1>4, <2>1 DEF Rotate, HistOK
  <2> QED BY <1>4, <2>3, <2>7, <2>8, <2>9 DEF Rotate
<1>5. CASE Tolerate(m)
  <2>1. reqs' \subseteq Req
    BY <1>5, <1>b, <1>e, EmptyTypes, AnswerType, AnsweredOK DEF Tolerate
  <2> QED BY <1>5, <2>1 DEF Tolerate, hist, SessOK, HistOK
<1>6. CASE Suspect(m)
  <2>1. reqs' \subseteq Req /\ SessOK'
    BY <1>6, RefusedOK, EndOK DEF Suspect
  <2>2. HistOK'
    BY <1>6, <1>e DEF Suspect, HistOK
  <2> QED BY <1>6, <2>1, <2>2 DEF Suspect
<1>7. CASE RefuseInactive(m)
  <2>1. reqs' \subseteq Req /\ SessOK'
    BY <1>7, RefusedOK, EndOK DEF RefuseInactive
  <2> QED BY <1>7, <2>1 DEF RefuseInactive, hist, HistOK
<1>8. CASE RefuseUnknown(m)
  <2>1. reqs' \subseteq Req
    BY <1>8, RefusedOK DEF RefuseUnknown
  <2> QED BY <1>8, <2>1 DEF RefuseUnknown, hist, SessOK, HistOK
<1> QED BY <1>1, <1>2, <1>3, <1>4, <1>5, <1>6, <1>7, <1>8 DEF ServerStep

\* A step of a tab keeps every type (ensureSession, the 401 handler, the login page).
LEMMA TabTypes ==
    ASSUME TypeOK, NEW t \in Tab, TabStep(t)
    PROVE  TypeOK'
<1> USE TypeParts DEF Parts
<1> /\ now \in Time /\ reqs \subseteq Req /\ cookie \in Token /\ user \in User
    /\ tabs \in [Tab -> TabType]
  OBVIOUS
<1>a. tabs[t].access \in Access
  BY DEF TabType
<1>b. ASSUME NEW step \in {"start", "out", "in", "wait", "replay"}, NEW access \in Access,
             Go(t, step, access)
      PROVE  tabs' \in [Tab -> TabType]
  BY <1>b DEF Go, TabType
<1>c. ASSUME NEW kind \in {"login", "refresh", "logout"}, NEW pw \in 0 .. Changes,
             Send(t, kind, pw)
      PROVE  TypeOK'
  <2>1. [kind |-> kind, tab |-> t, live |-> TRUE, at |-> now, step |-> "sent", pw |-> pw,
         overlap |-> FALSE, token |-> IF kind = "login" THEN NoToken ELSE cookie,
         access |-> IF kind = "logout" THEN tabs[t].access ELSE NoAccess,
         set |-> NoToken] \in Req
    BY <1>a, EmptyTypes DEF Req
  <2>2. reqs' \subseteq Req
    BY <1>c, <2>1 DEF Send
  <2>3. tabs' \in [Tab -> TabType]
    BY <1>a, <1>b, <1>c DEF Send
  <2> QED BY <1>c, <2>2, <2>3 DEF Send, hist, SessOK, HistOK
<1>d. 0 \in 0 .. Changes /\ user.pw \in 0 .. Changes
  BY SessionAssumption DEF User
<1>1. CASE SilentRefresh(t)  BY <1>1, <1>c, <1>d DEF SilentRefresh
<1>2. CASE Unauthorized(t)   BY <1>2, <1>c, <1>d DEF Unauthorized
<1>3. CASE SignIn(t)         BY <1>3, <1>c, <1>d DEF SignIn
<1>4. CASE SignOut(t)        BY <1>4, <1>c, <1>d DEF SignOut
<1>5. CASE Replay(t)
  <2>1. tabs' \in [Tab -> TabType]
    BY <1>a, <1>b, <1>5, EmptyTypes DEF Replay
  <2> QED BY <1>5, <2>1 DEF Replay, hist, SessOK, HistOK
<1>6. CASE Reload(t)
  <2>1. tabs' \in [Tab -> TabType]
    BY <1>b, <1>6, EmptyTypes DEF Reload
  <2>2. ASSUME NEW m \in reqs PROVE [m EXCEPT !.live = FALSE] \in Req
    BY DEF Req
  <2>3. reqs' \subseteq Req
    BY <1>6, <2>2 DEF Reload
  <2> QED BY <1>6, <2>1, <2>3 DEF Reload, hist, SessOK, HistOK
<1> QED BY <1>1, <1>2, <1>3, <1>4, <1>5, <1>6 DEF TabStep

\* So does the arrival or the loss of a message.
LEMMA MessageTypes ==
    ASSUME TypeOK, NEW m \in reqs, Receive(m) \/ Lost(m)
    PROVE  TypeOK'
<1> USE TypeParts DEF Parts
<1> /\ m \in Req /\ reqs \subseteq Req /\ cookie \in Token /\ tabs \in [Tab -> TabType]
  OBVIOUS
<1>a. m.set \in Token /\ m.access \in Access /\ m.tab \in Tab
  BY DEF Req
<1>b. ASSUME NEW step \in {"start", "out", "in", "wait", "replay"}, NEW access \in Access,
             Go(m.tab, step, access)
      PROVE  tabs' \in [Tab -> TabType]
  BY <1>a, <1>b DEF Go, TabType
<1>1. CASE Receive(m)
  <2>1. cookie' \in Token
    BY <1>1, <1>a, EmptyTypes DEF Receive, SetCookie
  <2>2. tabs' \in [Tab -> TabType]
    BY <1>1, <1>a, <1>b, EmptyTypes DEF Receive, Resume
  <2>3. reqs' \subseteq Req
    BY <1>1 DEF Receive
  <2> QED BY <1>1, <2>1, <2>2, <2>3 DEF Receive, hist, SessOK, HistOK
<1>2. CASE Lost(m)
  <2>1. tabs' \in [Tab -> TabType]
    BY <1>2, <1>b, EmptyTypes DEF Lost
  <2>2. HistOK'
    BY <1>2, <1>a DEF Lost, HistOK, Token, SomeSession
  <2>3. reqs' \subseteq Req
    BY <1>2 DEF Lost
  <2> QED BY <1>2, <2>1, <2>2, <2>3 DEF Lost, SessOK
<1> QED BY <1>1, <1>2

\* What befalls the account or a session from elsewhere.
AccountStep ==
    \/ Tick \/ SetPassword \/ Deactivate \/ Reactivate \/ Purge
    \/ \E s \in Session : CloseSession(s)

\* The clock, the account and the purge keep every type.
LEMMA AccountTypes == ASSUME TypeOK, AccountStep PROVE TypeOK'
<1> USE TypeParts DEF Parts
<1> now \in Time /\ user \in User /\ SessOK /\ reqs \subseteq Req
  OBVIOUS
<1>a. /\ user.pw \in 0 .. Changes /\ user.offs \in 0 .. Changes /\ user.active \in BOOLEAN
      /\ user.changedAt \in Time
  BY DEF User
<1>b. reqs' = Overlapping => reqs' \subseteq Req
  <2>1. ASSUME NEW m \in reqs PROVE [m EXCEPT !.overlap = m.step = "verified"] \in Req
    BY DEF Req
  <2> QED BY <2>1 DEF Overlapping
<1>1. CASE Tick
  <2>1. now' \in Time
    BY <1>1, SessionAssumption DEF Tick, Time
  <2> QED BY <1>1, <2>1 DEF Tick, hist, SessOK, HistOK
<1>2. CASE SetPassword
  <2>1. user.pw + 1 \in 0 .. Changes
    BY <1>2, <1>a, SessionAssumption DEF SetPassword
  <2>2. user' \in User
    BY <1>2, <2>1 DEF SetPassword, User
  <2>3. SessOK'
    BY <1>2, EndOK DEF SetPassword
  <2> QED BY <1>2, <1>b, <2>2, <2>3 DEF SetPassword, hist, HistOK
<1>3. CASE Deactivate
  <2>1. user.offs + 1 \in 0 .. Changes
    BY <1>3, <1>a, SessionAssumption DEF Deactivate
  <2>2. user' \in User
    BY <1>3, <2>1 DEF Deactivate, User
  <2>3. SessOK'
    BY <1>3, EndOK DEF Deactivate
  <2> QED BY <1>3, <1>b, <2>2, <2>3 DEF Deactivate, hist, HistOK
<1>4. CASE Reactivate
  <2>1. user' \in User
    BY <1>4 DEF Reactivate, User
  <2> QED BY <1>4, <2>1 DEF Reactivate, hist, SessOK, HistOK
<1>5. CASE Purge
  <2>1. NoRow.expires <= NoRow.created + SessionMax
    BY SessionAssumption DEF NoRow
  <2>2. SessOK'
    BY <1>5, <2>1, EmptyTypes DEF Purge, SessOK
  <2> QED BY <1>5, <2>2 DEF Purge, hist, HistOK
<1>6. ASSUME NEW s \in Session, CloseSession(s) PROVE TypeOK'
  <2>1. SessOK'
    BY <1>6, EndOK DEF CloseSession
  <2> QED BY <1>6, <2>1 DEF CloseSession, hist, HistOK
<1> QED BY <1>1, <1>2, <1>3, <1>4, <1>5, <1>6 DEF AccountStep

\* Every step is of one of the four kinds.
LEMMA StepKinds ==
    ASSUME Next
    PROVE  \/ \E m \in reqs : ServerStep(m) \/ Receive(m) \/ Lost(m)
           \/ \E t \in Tab : TabStep(t)
           \/ AccountStep
BY DEF Next, Server, Browser, ServerStep, TabStep, AccountStep

\* Hence every step does, and the first state has them.
LEMMA TypeStep == TypeOK /\ [Next]_vars => TypeOK'
<1> SUFFICES ASSUME TypeOK, [Next]_vars PROVE TypeOK'
  OBVIOUS
<1>1. CASE Next
  BY <1>1, StepKinds, ServerTypes, MessageTypes, TabTypes, AccountTypes
<1>2. CASE UNCHANGED vars
  BY <1>2 DEF vars, hist, TypeOK
<1> QED BY <1>1, <1>2

\* The first state: no session, no cookie, no tab signed in.
LEMMA TypeInit == Init => TypeOK
<1> SUFFICES ASSUME Init PROVE TypeOK
  OBVIOUS
<1>1. now \in Time /\ user \in User
  BY SessionAssumption DEF Init, Time, User
<1>2. SessOK
  <2>1. NoRow.expires <= NoRow.created + SessionMax
    BY SessionAssumption DEF NoRow
  <2> QED BY <2>1, EmptyTypes DEF Init, SessOK
<1>3. tabs \in [Tab -> TabType]
  BY EmptyTypes DEF Init, TabType
<1>4. cookie \in Token /\ reqs \subseteq Req /\ HistOK
  BY EmptyTypes DEF Init, HistOK
<1> QED BY <1>1, <1>2, <1>3, <1>4, TypeParts DEF Parts

\* Whatever is lost, late, reloaded or ended from elsewhere, every variable of the
\* server and of the browser has its type, and no refresh slides the end of a session
\* past its ceiling (_expiry).
THEOREM SessionTypes == Spec => []TypeOK
<1>1. Spec => []TypeOK
  BY TypeInit, TypeStep, PTL DEF Spec
<1> QED BY <1>1

-----------------------------------------------------------------------------
(* Nothing survives a change of the account.                                *)

\* A login whose password was checked, and that no change overlapped, was checked
\* against the account as it is.
CheckedInv ==
    \A m \in reqs : m.step = "verified" /\ ~m.overlap => user.active /\ m.pw = user.pw

ShutInv == TypeOK /\ CheckedInv /\ ShutOut

\* What holds of the account as it is goes on holding where the account is the same and
\* no session is opened, by rows that are kept or ended.
LEMMA KeptOpen ==
    ASSUME ShutOut, user' = user,
           \A s \in Session : Live(s)' => /\ Live(s) /\ sess'[s].pw = sess[s].pw
                                          /\ sess'[s].overlap = sess[s].overlap
    PROVE  ShutOut'
BY DEF ShutOut

\* A login under way stands as it did, while the account and the login are the same.
LEMMA KeptChecked ==
    ASSUME CheckedInv, user' = user,
           \A m \in reqs' : m.step = "verified" =>
               \E r \in reqs : r.step = m.step /\ r.overlap = m.overlap /\ r.pw = m.pw
    PROVE  CheckedInv'
BY DEF CheckedInv

\* An end opens nothing.
LEMMA EndShut ==
    ASSUME TypeOK, NEW ended, sess' = End(ended), now' = now
    PROVE  \A s \in Session : Live(s)' => /\ s \notin ended /\ Live(s)
                                          /\ sess'[s].pw = sess[s].pw
                                          /\ sess'[s].overlap = sess[s].overlap
<1>1. \A s \in Session : sess'[s] = IF s \in ended THEN Ended ELSE sess[s]
  BY EndType DEF TypeOK
<1>2. Ended.state = "ended"
  BY DEF Ended, NoRow
<1> QED BY <1>1, <1>2 DEF Live

\* A step of the server opens nothing but what a login checked.
LEMMA ServerShut ==
    ASSUME ShutInv, NEW m \in reqs, ServerStep(m)
    PROVE  CheckedInv' /\ ShutOut'
<1> TypeOK /\ CheckedInv /\ ShutOut /\ m \in Req /\ reqs \subseteq Req
  BY DEF ShutInv, TypeOK
<1>a. ASSUME NEW step \in {"ok", "refused"}, NEW access, NEW set, user' = user,
             Answered(m, Answer(m, step, access, set))
      PROVE  CheckedInv'
  <2>1. Answer(m, step, access, set).step = step
    BY DEF Answer, Req
  <2> QED BY <1>a, <2>1, KeptChecked DEF Answered
<1>b. user' = user /\ Refused(m) => CheckedInv'
  BY <1>a DEF Refused
<1>c. sess' = sess /\ now' = now /\ user' = user => ShutOut'
  BY KeptOpen DEF Live
<1>1. CASE LoginVerify(m)
  <2>1. user' = user /\ ShutOut'
    BY <1>1, <1>c DEF LoginVerify
  <2>2. CASE user.active /\ m.pw = user.pw
    <3>1. reqs' = (reqs \ {m}) \cup {[m EXCEPT !.step = "verified"]}
      BY <1>1, <2>2 DEF LoginVerify, Answered
    <3>2. [m EXCEPT !.step = "verified"].pw = m.pw
      BY DEF Req
    <3> QED BY <2>1, <2>2, <3>1, <3>2 DEF CheckedInv
  <2>3. CASE ~(user.active /\ m.pw = user.pw)
    BY <1>1, <1>b, <2>1, <2>3 DEF LoginVerify
  <2> QED BY <2>1, <2>2, <2>3
<1>2. CASE LoginCommit(m)
  <2> PICK s \in Session :
        /\ sess' = [sess EXCEPT ![s] = [state |-> "open", created |-> now, used |-> now,
                                         expires |-> Expiry(now, now), pw |-> m.pw,
                                         overlap |-> m.overlap]]
        /\ Answered(m, Answer(m, "ok", [sid |-> s, iat |-> now], [sid |-> s, age |-> 0]))
    BY <1>2 DEF LoginCommit
  <2>1. user' = user /\ now' = now /\ m.step = "verified"
    BY <1>2 DEF LoginCommit
  <2>2. CheckedInv'
    BY <1>a, <2>1
  <2>3. sess'[s].pw = m.pw /\ sess'[s].overlap = m.overlap
    BY DEF TypeOK
  <2>4. \A r \in Session \ {s} : sess'[r] = sess[r]
    BY DEF TypeOK
  <2>5. ShutOut'
    BY <2>1, <2>3, <2>4 DEF ShutOut, CheckedInv, Live
  <2> QED BY <2>2, <2>5
<1>3. CASE Logout(m)
  <2>1. CheckedInv'
    BY <1>3, <1>a DEF Logout
  <2>2. ShutOut'
    BY <1>3, EndShut, KeptOpen DEF Logout
  <2> QED BY <2>1, <2>2
<1>4. CASE Rotate(m)
  <2> DEFINE s == m.token.sid
             answer == Answer(m, "ok", [sid |-> s, iat |-> now], [sid |-> s, age |-> 0])
  <2>1. user' = user /\ now' = now /\ Live(s)
    BY <1>4 DEF Rotate, Opens
  <2>2. ASSUME NEW r \in reqs' , r.step = "verified"
        PROVE  \E q \in reqs : q.step = r.step /\ q.overlap = r.overlap /\ q.pw = r.pw
    <3>1. answer.step = "ok"
      BY DEF Answer, Req
    <3>2. PICK q \in reqs :
            r = [q EXCEPT !.token = Older(q.token, s), !.set = Older(q.set, s)]
      BY <1>4, <2>2, <3>1 DEF Rotate
    <3>3. r.step = q.step /\ r.overlap = q.overlap /\ r.pw = q.pw
      BY <3>2 DEF Req
    <3> QED BY <3>3
  <2>3. CheckedInv'
    BY <2>1, <2>2, KeptChecked
  <2>4. s \in Session
    BY <1>4 DEF Rotate, Opens, Req, Token, SomeSession
  <2>5. sess' = [sess EXCEPT ![s] = [sess[s] EXCEPT !.used = now,
                                     !.expires = Expiry(sess[s].created, now)]]
    BY <1>4, <2>4 DEF Rotate, TypeOK
  <2>6. /\ sess'[s].pw = sess[s].pw /\ sess'[s].overlap = sess[s].overlap
        /\ \A r \in Session \ {s} : sess'[r] = sess[r]
    BY <2>4, <2>5 DEF TypeOK, Row
  <2>7. ShutOut'
    BY <2>1, <2>6, KeptOpen DEF Live
  <2> QED BY <2>3, <2>7
<1>5. CASE Tolerate(m)
  BY <1>5, <1>a, <1>c DEF Tolerate
<1>6. CASE Suspect(m)
  BY <1>6, <1>b, EndShut, KeptOpen DEF Suspect
<1>7. CASE RefuseInactive(m)
  BY <1>7, <1>b, EndShut, KeptOpen DEF RefuseInactive
<1>8. CASE RefuseUnknown(m)
  BY <1>8, <1>b, <1>c DEF RefuseUnknown
<1> QED BY <1>1, <1>2, <1>3, <1>4, <1>5, <1>6, <1>7, <1>8 DEF ServerStep

\* The browser opens no session and checks no password.
LEMMA BrowserShut ==
    ASSUME ShutInv,
           \/ \E t \in Tab : TabStep(t)
           \/ \E m \in reqs : Receive(m) \/ Lost(m)
    PROVE  CheckedInv' /\ ShutOut'
<1> TypeOK /\ CheckedInv /\ ShutOut /\ reqs \subseteq Req
  BY DEF ShutInv, TypeOK
<1>1. user' = user /\ sess' = sess /\ now' = now
  BY DEF TabStep, SilentRefresh, Unauthorized, Replay, SignIn, SignOut, Reload, Send,
         Receive, Lost
<1>2. ShutOut'
  BY <1>1, KeptOpen DEF Live
<1>3. ASSUME NEW t \in Tab, NEW kind, NEW pw, Send(t, kind, pw) PROVE CheckedInv'
  BY <1>1, <1>3, KeptChecked DEF Send
<1>4. ASSUME NEW t \in Tab, Replay(t) PROVE CheckedInv'
  BY <1>1, <1>4, KeptChecked DEF Replay
<1>5. ASSUME NEW t \in Tab, Reload(t) PROVE CheckedInv'
  <2>1. ASSUME NEW m \in reqs'
        PROVE  \E r \in reqs : r.step = m.step /\ r.overlap = m.overlap /\ r.pw = m.pw
    <3>1. PICK r \in reqs : m = r \/ m = [r EXCEPT !.live = FALSE]
      BY <1>5 DEF Reload
    <3> QED BY <3>1 DEF Req
  <2> QED BY <1>1, <2>1, KeptChecked
<1>6. ASSUME NEW m \in reqs, Receive(m) \/ Lost(m) PROVE CheckedInv'
  BY <1>1, <1>6, KeptChecked DEF Receive, Lost
<1> QED BY <1>2, <1>3, <1>4, <1>5, <1>6
        DEF TabStep, SilentRefresh, Unauthorized, SignIn, SignOut

\* A change of the account ends what is open and marks what is being opened.
LEMMA AccountShut == ASSUME ShutInv, AccountStep PROVE CheckedInv' /\ ShutOut'
<1> TypeOK /\ CheckedInv /\ ShutOut /\ reqs \subseteq Req
  BY DEF ShutInv, TypeOK
<1>a. ASSUME reqs' = Overlapping PROVE CheckedInv'
  <2>1. ASSUME NEW m \in reqs
        PROVE  LET r == [m EXCEPT !.overlap = m.step = "verified"]
               IN r.step = m.step /\ (m.step = "verified" => r.overlap)
    BY DEF Req
  <2> QED BY <1>a, <2>1 DEF Overlapping, CheckedInv
<1>b. ASSUME sess' = End(OpenOnes), now' = now PROVE ShutOut'
  <2>1. \A s \in Session : ~Live(s)'
    BY <1>b, EndShut DEF OpenOnes, Live
  <2> QED BY <2>1 DEF ShutOut
<1>c. user' = user /\ reqs' = reqs => CheckedInv'
  BY DEF CheckedInv
<1>1. CASE Tick
  <2>1. \A s \in Session : Live(s)' => Live(s) /\ sess'[s] = sess[s]
    BY <1>1 DEF Tick, Live, TypeOK, Row, Time
  <2> QED BY <1>1, <1>c, <2>1, KeptOpen DEF Tick
<1>2. CASE SetPassword  BY <1>2, <1>a, <1>b DEF SetPassword
<1>3. CASE Deactivate   BY <1>3, <1>a, <1>b DEF Deactivate
<1>4. CASE Reactivate
  <2>1. user'.pw = user.pw /\ ~user.active /\ sess' = sess /\ now' = now /\ reqs' = reqs
    BY <1>4 DEF Reactivate, TypeOK, User
  <2> QED BY <2>1 DEF CheckedInv, ShutOut, Live
<1>5. CASE Purge
  <2>1. NoRow.state = "none"
    BY DEF NoRow
  <2>2. \A s \in Session : sess'[s] = IF Live(s) THEN sess[s] ELSE NoRow
    BY <1>5 DEF Purge
  <2>3. now' = now /\ user' = user /\ reqs' = reqs
    BY <1>5 DEF Purge
  <2> QED BY <1>c, <2>1, <2>2, <2>3, KeptOpen DEF Live
<1>6. ASSUME NEW s \in Session, CloseSession(s) PROVE CheckedInv' /\ ShutOut'
  BY <1>6, <1>c, EndShut, KeptOpen DEF CloseSession
<1> QED BY <1>1, <1>2, <1>3, <1>4, <1>5, <1>6 DEF AccountStep

\* A password change, a reset and a deactivation leave no session open that was opened
\* before (set_password, update_user, revoke_all), except one whose password had been
\* checked and whose row was not there yet.
THEOREM NothingSurvives == Spec => []ShutOut
<1>1. Init => ShutInv
  <2> SUFFICES ASSUME Init PROVE ShutInv
    OBVIOUS
  <2>1. NoRow.state = "none"
    BY DEF NoRow
  <2> QED BY <2>1, TypeInit DEF Init, ShutInv, CheckedInv, ShutOut, Live
<1>2. ShutInv /\ [Next]_vars => ShutInv'
  <2> SUFFICES ASSUME ShutInv, [Next]_vars PROVE ShutInv'
    OBVIOUS
  <2>1. TypeOK'
    BY TypeStep DEF ShutInv
  <2>2. CASE Next
    BY <2>1, <2>2, StepKinds, ServerShut, BrowserShut, AccountShut DEF ShutInv
  <2>3. CASE UNCHANGED vars
    BY <2>1, <2>3 DEF vars, hist, ShutInv, CheckedInv, ShutOut, Live
  <2> QED BY <2>2, <2>3
<1>3. ShutInv => ShutOut
  BY DEF ShutInv
<1> QED BY <1>1, <1>2, <1>3, PTL DEF Spec

-----------------------------------------------------------------------------
(* Logging out is final.                                                    *)

\* At most one new token of a session is on its way to the browser, and it is current.
SetInv ==
    \A r \in reqs : r.set # NoToken =>
        /\ r.set.sid \in Session /\ r.set.age = 0
        /\ \A q \in reqs : q.set.sid = r.set.sid => q = r

\* While a request holds the current token of a session, nothing newer is on its way, and
\* the cookie is not behind.
FreshInv ==
    \A m \in reqs : m.token.sid \in Session /\ m.token.age = 0 =>
        /\ cookie.sid = m.token.sid => cookie.age = 0
        /\ \A r \in reqs : r.set.sid # m.token.sid

\* The cookie is never more than one rotation behind, and not behind if none is coming.
CookieInv ==
    /\ cookie.age < 2
    /\ cookie.sid \in Session /\ cookie.age = 0 => \A r \in reqs : r.set.sid # cookie.sid

\* A request two rotations behind was overtaken.
AgeInv ==
    \A m \in reqs : m.token.sid \in Session /\ m.token.age = 2 => m.token.sid \in overtaken

Copies == SetInv /\ FreshInv /\ CookieInv /\ AgeInv
LeftInv == TypeOK /\ Copies /\ LeftIsOver

\* The empty token names no session.
LEMMA NoTokenEmpty == NoToken.sid \notin Session /\ NoToken.age = 0
BY SessionAssumption DEF NoToken

\* What an answer carries.
LEMMA AnswerCarries ==
    ASSUME NEW m \in Req, NEW step, NEW access, NEW set
    PROVE  /\ Answer(m, step, access, set).token = NoToken
           /\ Answer(m, step, access, set).set = set
BY DEF Answer, Req

\* Handling a request without issuing a token disturbs no copy.
LEMMA CopiesAnswered ==
    ASSUME Copies, NEW m \in reqs, NEW answer, Answered(m, answer),
           answer.token \in {m.token, NoToken}, answer.set \in {m.set, NoToken},
           cookie' = cookie, overtaken' = overtaken
    PROVE  Copies'
<1>1. ASSUME NEW r \in reqs' PROVE r = answer \/ (r \in reqs /\ r # m)
  BY DEF Answered
<1>2. SetInv'
  BY <1>1, NoTokenEmpty DEF Copies, SetInv
<1>3. FreshInv'
  BY <1>1, NoTokenEmpty DEF Copies, FreshInv
<1>4. CookieInv'
  BY <1>1, NoTokenEmpty DEF Copies, CookieInv
<1>5. AgeInv'
  BY <1>1, NoTokenEmpty DEF Copies, AgeInv
<1> QED BY <1>2, <1>3, <1>4, <1>5 DEF Copies

\* Neither does a message that goes away, with or without the cookie.
LEMMA CopiesFewer ==
    ASSUME Copies, reqs' \subseteq reqs, cookie' \in {cookie, NoToken},
           overtaken' = overtaken
    PROVE  Copies'
<1>1. SetInv' /\ AgeInv'
  BY DEF Copies, SetInv, AgeInv
<1>2. FreshInv'
  BY NoTokenEmpty DEF Copies, FreshInv
<1>3. CookieInv'
  BY NoTokenEmpty DEF Copies, CookieInv
<1> QED BY <1>1, <1>2, <1>3 DEF Copies

\* Nor does anything that leaves the tokens of each request as they are.
LEMMA CopiesSame ==
    ASSUME Copies, cookie' = cookie, overtaken' = overtaken,
           \A r \in reqs' : \E q \in reqs : r.token = q.token /\ r.set = q.set,
           \A r, q \in reqs' : r.set.sid \in Session /\ r.set.sid = q.set.sid => r = q
    PROVE  Copies'
<1>1. SetInv'
  BY DEF Copies, SetInv
<1>2. FreshInv'
  BY DEF Copies, FreshInv
<1>3. CookieInv'
  BY DEF Copies, CookieInv
<1>4. AgeInv'
  BY DEF Copies, AgeInv
<1> QED BY <1>1, <1>2, <1>3, <1>4 DEF Copies

\* A new session starts with one copy of its token (open_session).
LEMMA CopiesOpened ==
    ASSUME TypeOK, Copies, NEW m \in reqs, LoginCommit(m)
    PROVE  Copies'
<1> PICK s \in Session :
      /\ ~Mentioned(s)
      /\ Answered(m, Answer(m, "ok", [sid |-> s, iat |-> now], [sid |-> s, age |-> 0]))
      /\ overtaken' = overtaken \ {s}
  BY DEF LoginCommit
<1> DEFINE answer == Answer(m, "ok", [sid |-> s, iat |-> now], [sid |-> s, age |-> 0])
<1> cookie' = cookie
  BY DEF LoginCommit
<1>1. answer.token = NoToken /\ answer.set.sid = s /\ answer.set.age = 0
  BY AnswerCarries DEF TypeOK
<1>2. ASSUME NEW r \in reqs' PROVE r = answer \/ (r \in reqs /\ r # m)
  BY DEF Answered
<1>3. cookie.sid # s /\ \A r \in reqs : r.token.sid # s /\ r.set.sid # s
  BY DEF Mentioned
<1> HIDE DEF answer
<1>4. SetInv'
  BY <1>1, <1>2, <1>3 DEF Copies, SetInv
<1>5. FreshInv'
  BY <1>1, <1>2, <1>3, NoTokenEmpty DEF Copies, FreshInv
<1>6. CookieInv'
  BY <1>1, <1>2, <1>3 DEF Copies, CookieInv
<1>7. AgeInv'
  BY <1>1, <1>2, <1>3, NoTokenEmpty DEF Copies, AgeInv
<1> QED BY <1>4, <1>5, <1>6, <1>7 DEF Copies

\* A rotation ages every copy of its session's token, and issues one (refresh).
LEMMA CopiesRotated ==
    ASSUME TypeOK, Copies, NEW m \in reqs, Rotate(m)
    PROVE  Copies'
<1> DEFINE s == m.token.sid
           answer == Answer(m, "ok", [sid |-> s, iat |-> now], [sid |-> s, age |-> 0])
           old(r) == [r EXCEPT !.token = Older(r.token, s), !.set = Older(r.set, s)]
           aged == {old(r) : r \in reqs \ {m}}
<1>0. m \in Req /\ reqs \subseteq Req /\ cookie \in Token
  BY DEF TypeOK
<1>1. s \in Session /\ m.token.age = 0
  BY <1>0 DEF Rotate, Opens, IsCurrent, Req, Token, SomeSession
<1>2. /\ reqs' = aged \cup {answer} /\ cookie' = Older(cookie, s)
      /\ overtaken' = IF \E r \in aged : r.token = [sid |-> s, age |-> 2]
                      THEN overtaken \cup {s} ELSE overtaken
  BY DEF Rotate
<1>3. /\ answer.token = NoToken /\ answer.set = [sid |-> s, age |-> 0]
  BY <1>0, AnswerCarries
<1>4. (cookie.sid = s => cookie.age = 0) /\ \A r \in reqs : r.set.sid # s
  BY <1>1 DEF Copies, FreshInv
<1>5. ASSUME NEW r \in reqs
      PROVE  /\ old(r).token = Older(r.token, s) /\ old(r).set = r.set
             /\ r.token \in Token /\ r.set \in Token
  <2>1. r.token \in Token /\ r.set \in Token /\ r \in Req
    BY <1>0 DEF Req
  <2>2. Older(r.set, s) = r.set
    BY <1>4 DEF Older
  <2> QED BY <2>1, <2>2 DEF Req
<1>6. ASSUME NEW k \in Token
      PROVE  /\ Older(k, s).sid = k.sid
             /\ k.sid # s => Older(k, s) = k
             /\ k.sid = s => Older(k, s).age = (IF k.age < 2 THEN k.age + 1 ELSE 2)
  BY DEF Older, Token, Age
<1>7. ASSUME NEW r \in reqs' PROVE r = answer \/ \E q \in reqs \ {m} : r = old(q)
  BY <1>2
<1> HIDE DEF answer, old, aged, s
<1>8. SetInv'
  BY <1>1, <1>3, <1>4, <1>5, <1>7 DEF Copies, SetInv
<1>9. ASSUME NEW r \in reqs', r.token.sid = s PROVE r.token.age \in {1, 2}
  BY <1>1, <1>3, <1>5, <1>6, <1>7, <1>9, NoTokenEmpty DEF Token, Age
<1>10. ASSUME NEW r \in reqs', r.token.sid \in Session, r.token.sid # s
       PROVE  \E q \in reqs : q.token = r.token
  BY <1>1, <1>3, <1>5, <1>6, <1>7, <1>10, NoTokenEmpty
<1>11. ASSUME NEW r \in reqs' PROVE r.set.sid = s \/ \E q \in reqs : q.set = r.set
  BY <1>3, <1>5, <1>7
<1>12. cookie'.sid = cookie.sid /\ (cookie.sid # s => cookie' = cookie)
       /\ (cookie.sid = s => cookie'.age = 1)
  BY <1>0, <1>2, <1>4, <1>6
<1>13. FreshInv'
  BY <1>9, <1>10, <1>11, <1>12 DEF Copies, FreshInv
<1>14. CookieInv'
  BY <1>0, <1>11, <1>12 DEF Copies, CookieInv
<1>15. AgeInv'
  <2> SUFFICES ASSUME NEW r \in reqs', r.token.sid \in Session, r.token.age = 2
               PROVE  r.token.sid \in overtaken'
    BY DEF AgeInv
  <2>1. CASE r.token.sid # s
    BY <1>2, <1>10, <2>1 DEF Copies, AgeInv
  <2>2. CASE r.token.sid = s
    <3>1. r \in aged /\ r.token \in Token
      BY <1>2, <1>3, <1>5, <1>7, <2>2, NoTokenEmpty, <1>1, OlderType
    <3>2. r.token = [sid |-> s, age |-> 2]
      BY <2>2, <3>1 DEF Token
    <3> QED BY <1>2, <2>2, <3>1, <3>2
  <2> QED BY <2>1, <2>2
<1> QED BY <1>8, <1>13, <1>14, <1>15 DEF Copies

\* Every other step of the server, of a tab and of the account keeps the copies in order.
LEMMA CopiesServer ==
    ASSUME TypeOK, Copies, NEW m \in reqs, ServerStep(m)
    PROVE  Copies'
<1>0. m \in Req
  BY DEF TypeOK
<1>a. ASSUME NEW step, NEW access, Answered(m, Answer(m, step, access, NoToken)),
             cookie' = cookie, overtaken' = overtaken
      PROVE  Copies'
  BY <1>0, <1>a, AnswerCarries, CopiesAnswered
<1>b. Refused(m) /\ cookie' = cookie /\ overtaken' = overtaken => Copies'
  BY <1>a DEF Refused
<1>1. CASE LoginVerify(m)
  <2>1. cookie' = cookie /\ overtaken' = overtaken
    BY <1>1 DEF LoginVerify, hist
  <2>2. CASE Answered(m, [m EXCEPT !.step = "verified"])
    <3>1. /\ [m EXCEPT !.step = "verified"].token = m.token
          /\ [m EXCEPT !.step = "verified"].set = m.set
      BY <1>0 DEF Req
    <3> QED BY <2>1, <2>2, <3>1, CopiesAnswered
  <2> QED BY <1>1, <1>b, <2>1, <2>2 DEF LoginVerify
<1>2. CASE LoginCommit(m)     BY <1>2, CopiesOpened
<1>3. CASE Logout(m)          BY <1>3, <1>a DEF Logout
<1>4. CASE Rotate(m)          BY <1>4, CopiesRotated
<1>5. CASE Tolerate(m)        BY <1>5, <1>a DEF Tolerate, hist
<1>6. CASE Suspect(m)         BY <1>6, <1>b DEF Suspect
<1>7. CASE RefuseInactive(m)  BY <1>7, <1>b DEF RefuseInactive, hist
<1>8. CASE RefuseUnknown(m)   BY <1>8, <1>b DEF RefuseUnknown, hist
<1> QED BY <1>1, <1>2, <1>3, <1>4, <1>5, <1>6, <1>7, <1>8 DEF ServerStep

\* A request that is sent holds the cookie's token, or none (singleFlight, login).
LEMMA CopiesTab ==
    ASSUME TypeOK, Copies, NEW t \in Tab, TabStep(t)
    PROVE  Copies'
<1>0. reqs \subseteq Req /\ cookie \in Token
  BY DEF TypeOK
<1>1. ASSUME NEW kind, NEW pw, Send(t, kind, pw) PROVE Copies'
  <2>1. cookie' = cookie /\ overtaken' = overtaken
    BY <1>1 DEF Send, hist
  <2> DEFINE new == [kind |-> kind, tab |-> t, live |-> TRUE, at |-> now, step |-> "sent",
                     pw |-> pw, overlap |-> FALSE,
                     token |-> IF kind = "login" THEN NoToken ELSE cookie,
                     access |-> IF kind = "logout" THEN tabs[t].access ELSE NoAccess,
                     set |-> NoToken]
  <2>a. reqs' = reqs \cup {new}
    BY <1>1 DEF Send
  <2>b. new.token \in {NoToken, cookie} /\ new.set = NoToken
    OBVIOUS
  <2> HIDE DEF new
  <2>2. SetInv'
    BY <2>a, <2>b, NoTokenEmpty DEF Copies, SetInv
  <2>3. FreshInv'
    BY <2>1, <2>a, <2>b, NoTokenEmpty DEF Copies, FreshInv, CookieInv
  <2>4. CookieInv'
    BY <2>1, <2>a, <2>b, NoTokenEmpty DEF Copies, CookieInv
  <2>5. AgeInv'
    BY <2>1, <2>a, <2>b, NoTokenEmpty DEF Copies, AgeInv, CookieInv
  <2> QED BY <2>2, <2>3, <2>4, <2>5 DEF Copies
<1>2. CASE Replay(t)
  BY <1>2, CopiesFewer DEF Replay, hist
<1>3. CASE Reload(t)
  <2> DEFINE dead(m) == IF m.tab = t THEN [m EXCEPT !.live = FALSE] ELSE m
  <2>1. ASSUME NEW m \in reqs PROVE dead(m).token = m.token /\ dead(m).set = m.set
    BY <1>0 DEF Req
  <2>2. reqs' = {dead(m) : m \in reqs} /\ cookie' = cookie /\ overtaken' = overtaken
    BY <1>3 DEF Reload, hist
  <2> HIDE DEF dead
  <2>3. \A r \in reqs' : \E q \in reqs : r.token = q.token /\ r.set = q.set
    BY <2>1, <2>2
  <2>4. ASSUME NEW r \in reqs', NEW q \in reqs', r.set.sid \in Session,
               r.set.sid = q.set.sid
        PROVE  r = q
    BY <2>1, <2>2, <2>4, NoTokenEmpty DEF Copies, SetInv
  <2> QED BY <2>2, <2>3, <2>4, CopiesSame
<1> QED BY <1>1, <1>2, <1>3 DEF TabStep, SilentRefresh, Unauthorized, SignIn, SignOut

\* The one new token of a session becomes the cookie, or nothing does.
LEMMA CopiesMessage ==
    ASSUME TypeOK, Copies, NEW m \in reqs, Receive(m) \/ Lost(m)
    PROVE  Copies'
<1>1. CASE Lost(m)
  BY <1>1, CopiesFewer DEF Lost
<1>2. CASE Receive(m)
  <2>1. reqs' = reqs \ {m} /\ overtaken' = overtaken
    BY <1>2 DEF Receive, hist
  <2>2. CASE m.set = NoToken
    BY <1>2, <2>1, <2>2, CopiesFewer DEF Receive, SetCookie
  <2>3. CASE m.set # NoToken
    <3>1. cookie' = m.set
      BY <1>2, <2>3 DEF Receive, SetCookie
    <3> QED BY <2>1, <2>3, <3>1 DEF Copies, SetInv, FreshInv, CookieInv, AgeInv
  <2> QED BY <2>2, <2>3
<1> QED BY <1>1, <1>2

\* What befalls the account touches no copy of a token.
LEMMA CopiesAccount == ASSUME TypeOK, Copies, AccountStep PROVE Copies'
<1>1. cookie' = cookie /\ overtaken' = overtaken
  BY DEF AccountStep, Tick, SetPassword, Deactivate, Reactivate, Purge, CloseSession, hist
<1>2. CASE reqs' = reqs
  BY <1>1, <1>2, CopiesFewer
<1>3. CASE reqs' = Overlapping
  <2> DEFINE marked(m) == [m EXCEPT !.overlap = m.step = "verified"]
  <2>1. ASSUME NEW m \in reqs PROVE marked(m).token = m.token /\ marked(m).set = m.set
    BY DEF TypeOK, Req
  <2>2. reqs' = {marked(m) : m \in reqs}
    BY <1>3 DEF Overlapping
  <2> HIDE DEF marked
  <2>3. \A r \in reqs' : \E q \in reqs : r.token = q.token /\ r.set = q.set
    BY <2>1, <2>2
  <2>4. ASSUME NEW r \in reqs', NEW q \in reqs', r.set.sid \in Session,
               r.set.sid = q.set.sid
        PROVE  r = q
    BY <2>1, <2>2, <2>4, NoTokenEmpty DEF Copies, SetInv
  <2> QED BY <1>1, <2>3, <2>4, CopiesSame
<1> QED BY <1>2, <1>3
        DEF AccountStep, Tick, SetPassword, Deactivate, Reactivate, Purge, CloseSession

-----------------------------------------------------------------------------
\* A step that opens no session, and asks for none to be left, leaves none behind.
LEMMA LeftKept ==
    ASSUME LeftIsOver, left \subseteq Session, left' = left, overtaken \subseteq overtaken',
           \A s \in Session : Live(s)' => Live(s)
    PROVE  LeftIsOver'
BY DEF LeftIsOver

\* Who was left stays so when the server handles a request.
LEMMA LeftServer ==
    ASSUME LeftInv, NEW m \in reqs, ServerStep(m)
    PROVE  LeftIsOver'
<1> TypeOK /\ Copies /\ LeftIsOver /\ m \in Req /\ left \subseteq Session
  BY DEF LeftInv, TypeOK
<1>a. ASSUME NEW ended, sess' = End(ended), now' = now, left' = left,
             overtaken' = overtaken
      PROVE  LeftIsOver'
  BY <1>a, EndShut, LeftKept
<1>b. sess' = sess /\ now' = now /\ left' = left /\ overtaken' = overtaken => LeftIsOver'
  BY LeftKept DEF Live
<1>1. CASE LoginVerify(m)     BY <1>1, <1>b DEF LoginVerify, hist
<1>2. CASE LoginCommit(m)
  <2> PICK s \in Session :
        /\ sess' = [sess EXCEPT ![s] = [state |-> "open", created |-> now, used |-> now,
                                         expires |-> Expiry(now, now), pw |-> m.pw,
                                         overlap |-> m.overlap]]
        /\ left' = left \ {s} /\ overtaken' = overtaken \ {s} /\ now' = now
    BY <1>2 DEF LoginCommit
  <2>1. \A r \in Session \ {s} : sess'[r] = sess[r]
    BY DEF TypeOK
  <2> QED BY <2>1 DEF LeftIsOver, Live
<1>3. CASE Logout(m)
  <2> DEFINE bearer == IF Genuine(m.access) THEN {m.access.sid} ELSE {}
             named == Found(m.token) \cup {s \in bearer : sess[s].state = "open"}
  <2>1. /\ sess' = End(named) /\ now' = now /\ overtaken' = overtaken
        /\ left' = left \cup bearer \cup ({m.token.sid} \ {NoSession})
    BY <1>3 DEF Logout
  <2>2. \A s \in Session : Live(s)' => s \notin named /\ Live(s)
    BY <2>1, EndShut
  <2>3. bearer \subseteq Session
    BY DEF Genuine, Req, Access, SomeSession
  <2>4. ASSUME NEW s \in bearer PROVE ~Live(s)'
    BY <2>2, <2>3 DEF Live
  <2>5. ASSUME m.token.sid \in Session, m.token.sid \notin overtaken
        PROVE  ~Live(m.token.sid)'
    <3>1. m.token.age < 2
      BY <2>5 DEF Copies, AgeInv, Req, Token, Age
    <3>2. Live(m.token.sid) => m.token.sid \in named
      BY <2>5, <3>1, SessionAssumption DEF Found, Opens
    <3> QED BY <2>2, <2>5, <3>2
  <2>6. m.token.sid \in SomeSession
    BY DEF Req, Token
  <2> HIDE DEF bearer, named
  <2> QED BY <2>1, <2>2, <2>3, <2>4, <2>5, <2>6 DEF LeftIsOver, SomeSession
<1>4. CASE Rotate(m)
  <2>1. m.token.sid \in Session /\ Live(m.token.sid)
    BY <1>4 DEF Rotate, Opens, Req, Token, SomeSession
  <2>2. \A s \in Session : Live(s)' => Live(s)
    BY <1>4, <2>1 DEF Rotate, Live, TypeOK
  <2>3. left' = left /\ overtaken \subseteq overtaken'
    BY <1>4 DEF Rotate
  <2> QED BY <2>2, <2>3, LeftKept
<1>5. CASE Tolerate(m)        BY <1>5, <1>b DEF Tolerate, hist
<1>6. CASE Suspect(m)         BY <1>6, <1>a DEF Suspect
<1>7. CASE RefuseInactive(m)  BY <1>7, <1>a DEF RefuseInactive, hist
<1>8. CASE RefuseUnknown(m)   BY <1>8, <1>b DEF RefuseUnknown, hist
<1> QED BY <1>1, <1>2, <1>3, <1>4, <1>5, <1>6, <1>7, <1>8 DEF ServerStep

\* And at every other step.
LEMMA LeftElsewhere ==
    ASSUME LeftInv,
           \/ \E t \in Tab : TabStep(t)
           \/ \E m \in reqs : Receive(m) \/ Lost(m)
           \/ AccountStep
    PROVE  LeftIsOver'
<1> TypeOK /\ LeftIsOver /\ left \subseteq Session
  BY DEF LeftInv, TypeOK
<1>1. left' = left /\ overtaken' = overtaken
  BY DEF TabStep, SilentRefresh, Unauthorized, Replay, SignIn, SignOut, Reload, Send,
         Receive, Lost, AccountStep, Tick, SetPassword, Deactivate, Reactivate, Purge,
         CloseSession, hist
<1>2. \A s \in Session : Live(s)' => Live(s)
  <2>1. CASE sess' = sess /\ now' = now
    BY <2>1 DEF Live
  <2>2. CASE Tick
    BY <2>2 DEF Tick, Live, TypeOK, Row, Time
  <2>3. ASSUME NEW ended, sess' = End(ended), now' = now
        PROVE  \A s \in Session : Live(s)' => Live(s)
    BY <2>3, EndShut
  <2>4. CASE Purge
    <3>1. NoRow.state = "none"
      BY DEF NoRow
    <3> QED BY <2>4, <3>1 DEF Purge, Live
  <2> QED BY <2>1, <2>2, <2>3, <2>4
          DEF TabStep, SilentRefresh, Unauthorized, Replay, SignIn, SignOut, Reload, Send,
              Receive, Lost, AccountStep, SetPassword, Deactivate, Reactivate, CloseSession
<1> QED BY <1>1, <1>2, LeftKept

\* Logging out is final: whatever the other tabs have under way, no session that a logout
\* named survives it (logout, find_by_refresh_token, revoke), unless the cookie it came
\* with was traded twice before it was read.
THEOREM LeavingIsFinal == Spec => []LeftIsOver
<1>1. Init => LeftInv
  <2> SUFFICES ASSUME Init PROVE LeftInv
    OBVIOUS
  <2>1. Copies
    BY NoTokenEmpty DEF Init, Copies, SetInv, FreshInv, CookieInv, AgeInv
  <2> QED BY <2>1, TypeInit DEF Init, LeftInv, LeftIsOver
<1>2. LeftInv /\ [Next]_vars => LeftInv'
  <2> SUFFICES ASSUME LeftInv, [Next]_vars PROVE LeftInv'
    OBVIOUS
  <2>1. TypeOK'
    BY TypeStep DEF LeftInv
  <2>2. CASE Next
    <3>1. Copies'
      BY <2>2, StepKinds, CopiesServer, CopiesTab, CopiesMessage, CopiesAccount DEF LeftInv
    <3>2. LeftIsOver'
      BY <2>2, StepKinds, LeftServer, LeftElsewhere
    <3> QED BY <2>1, <3>1, <3>2 DEF LeftInv
  <2>3. CASE UNCHANGED vars
    BY <2>1, <2>3 DEF vars, hist, LeftInv, Copies, SetInv, FreshInv, CookieInv, AgeInv,
                      LeftIsOver, Live
  <2> QED BY <2>2, <2>3
<1>3. LeftInv => LeftIsOver
  BY DEF LeftInv
<1> QED BY <1>1, <1>2, <1>3, PTL DEF Spec

-----------------------------------------------------------------------------
(* Racing for the cookie is not theft.                                      *)

\* No request outlives its round trip, and no session was used in the future.
TimeInv ==
    /\ \A m \in reqs : m.at <= now /\ now <= m.at + RoundTrip
    /\ \A s \in Session : sess[s].used <= now

\* If the cookie is one rotation behind, the new token is lost or still coming, in the
\* answer to a request that was sent before the rotation.
BehindInv ==
    /\ cookie.sid \in Session /\ cookie.age = 1 /\ cookie.sid \notin lost
    /\ sess[cookie.sid].state = "open"
    => \E r \in reqs : r.set.sid = cookie.sid /\ r.at <= sess[cookie.sid].used

\* A request one rotation behind was sent before the new token arrived.
HeldInv ==
    \A m \in reqs :
        /\ m.token.sid \in Session /\ m.token.age = 1 /\ m.token.sid \notin lost
        /\ sess[m.token.sid].state = "open"
        => m.at <= sess[m.token.sid].used + RoundTrip

\* A request sets no cookie before it is answered.
SentInv == \A m \in reqs : m.step \in {"sent", "verified"} => m.set = NoToken

Race == TimeInv /\ BehindInv /\ HeldInv /\ SentInv
RaceInv == TypeOK /\ Copies /\ Race /\ SuspectedWasStrained

\* The rows that stay open are used no later than they were, and none is opened.
RowsKept ==
    \A s \in Session :
        /\ sess'[s].state = "open" => sess[s].state = "open" /\ sess'[s].used = sess[s].used
        /\ sess'[s].used <= now

\* An end, and a purge, keep the rows in this sense; so does no change.
LEMMA EndKeepsRows ==
    ASSUME TypeOK, TimeInv, NEW ended, sess' = End(ended) \/ sess' = sess
    PROVE  RowsKept
<1>1. Ended.state = "ended" /\ Ended.used = 0 /\ now \in Nat
  BY SessionAssumption DEF Ended, NoRow, TypeOK, Time
<1>2. CASE sess' = sess
  BY <1>2 DEF RowsKept, TimeInv
<1>3. CASE sess' = End(ended)
  <2>1. \A s \in Session : sess'[s] = IF s \in ended THEN Ended ELSE sess[s]
    BY <1>3, EndType DEF TypeOK
  <2> QED BY <1>1, <2>1 DEF RowsKept, TimeInv
<1> QED BY <1>2, <1>3

\* A step that issues no token, sets no cookie and loses none but those it counts as
\* lost leaves the race as it was.
LEMMA RaceKept ==
    ASSUME TypeOK, Race, RowsKept, now' = now, cookie' \in {cookie, NoToken},
           lost \subseteq lost',
           \A r \in reqs' : \E q \in reqs : r.at = q.at /\ r.token \in {q.token, NoToken},
           \A q \in reqs : q.set.sid \in Session \ lost' =>
               \E r \in reqs' : r.set = q.set /\ r.at = q.at,
           \A r \in reqs' : r.step \in {"sent", "verified"} => r.set = NoToken
    PROVE  Race'
<1>1. TimeInv'
  BY DEF Race, TimeInv, RowsKept
<1>2. BehindInv'
  BY NoTokenEmpty DEF Race, BehindInv, RowsKept
<1>3. HeldInv'
  BY NoTokenEmpty DEF Race, HeldInv, RowsKept
<1>4. SentInv'
  BY DEF SentInv
<1> QED BY <1>1, <1>2, <1>3, <1>4 DEF Race

\* In particular the handling of a request that issues none.
LEMMA RaceAnswered ==
    ASSUME TypeOK, Race, RowsKept, now' = now, cookie' = cookie, lost' = lost,
           NEW m \in reqs, m.step \in {"sent", "verified"}, NEW answer,
           Answered(m, answer), answer.at = m.at, answer.token \in {m.token, NoToken},
           answer.set = NoToken
    PROVE  Race'
<1>1. m.set = NoToken
  BY DEF Race, SentInv
<1>2. \A q \in reqs : q.set.sid \in Session \ lost' =>
          \E r \in reqs' : r.set = q.set /\ r.at = q.at
  BY <1>1, NoTokenEmpty DEF Answered
<1>3. \A r \in reqs' : \E q \in reqs : r.at = q.at /\ r.token \in {q.token, NoToken}
  BY DEF Answered
<1>4. \A r \in reqs' : r.step \in {"sent", "verified"} => r.set = NoToken
  BY DEF Answered, Race, SentInv
<1> QED BY <1>2, <1>3, <1>4, RaceKept

\* An answer keeps the time of its request.
LEMMA AnswerAt ==
    ASSUME NEW m \in Req, NEW step, NEW access, NEW set
    PROVE  /\ Answer(m, step, access, set).at = m.at
           /\ Answer(m, step, access, set).step = step
BY DEF Answer, Req

\* A new session is in nobody's hands yet (open_session).
LEMMA RaceOpened ==
    ASSUME TypeOK, Race, NEW m \in reqs, LoginCommit(m)
    PROVE  Race'
<1> PICK s \in Session :
      /\ ~Mentioned(s)
      /\ sess' = [sess EXCEPT ![s] = [state |-> "open", created |-> now, used |-> now,
                                       expires |-> Expiry(now, now), pw |-> m.pw,
                                       overlap |-> m.overlap]]
      /\ Answered(m, Answer(m, "ok", [sid |-> s, iat |-> now], [sid |-> s, age |-> 0]))
      /\ lost' = lost \ {s}
  BY DEF LoginCommit
<1> DEFINE answer == Answer(m, "ok", [sid |-> s, iat |-> now], [sid |-> s, age |-> 0])
<1>1. now' = now /\ cookie' = cookie /\ m.step = "verified"
  BY DEF LoginCommit
<1>2. answer.token = NoToken /\ answer.at = m.at /\ answer.step = "ok"
  BY AnswerCarries, AnswerAt DEF TypeOK
<1>3. ASSUME NEW r \in reqs' PROVE r = answer \/ (r \in reqs /\ r # m)
  BY DEF Answered
<1>4. cookie.sid # s /\ \A r \in reqs : r.token.sid # s /\ r.set.sid # s
  BY DEF Mentioned
<1>5. sess'[s].used = now /\ \A r \in Session \ {s} : sess'[r] = sess[r]
  BY DEF TypeOK
<1>6. m.set = NoToken /\ now \in Nat
  BY <1>1, SessionAssumption DEF Race, SentInv, TypeOK, Time
<1>7. reqs \ {m} \subseteq reqs'
  BY DEF Answered
<1> HIDE DEF answer
<1>8. TimeInv'
  BY <1>1, <1>2, <1>3, <1>5, <1>6 DEF Race, TimeInv
<1>9. BehindInv'
  BY <1>1, <1>4, <1>5, <1>6, <1>7, NoTokenEmpty DEF Race, BehindInv
<1>10. HeldInv'
  BY <1>2, <1>3, <1>4, <1>5, NoTokenEmpty DEF Race, HeldInv
<1>11. SentInv'
  BY <1>2, <1>3 DEF Race, SentInv
<1> QED BY <1>8, <1>9, <1>10, <1>11 DEF Race

\* A rotation leaves every copy behind at the very instant of the last use (refresh).
LEMMA RaceRotated ==
    ASSUME TypeOK, Copies, Race, NEW m \in reqs, Rotate(m)
    PROVE  Race'
<1> DEFINE s == m.token.sid
           answer == Answer(m, "ok", [sid |-> s, iat |-> now], [sid |-> s, age |-> 0])
           old(r) == [r EXCEPT !.token = Older(r.token, s), !.set = Older(r.set, s)]
           aged == {old(r) : r \in reqs \ {m}}
<1>0. m \in Req /\ reqs \subseteq Req /\ now \in Nat /\ RoundTrip \in Nat
  BY SessionAssumption DEF TypeOK, Time
<1>1. s \in Session /\ m.token.age = 0 /\ m.step = "sent" /\ m.set = NoToken
  BY <1>0 DEF Rotate, Opens, IsCurrent, Presents, Req, Token, SomeSession, Race, SentInv
<1>2. reqs' = aged \cup {answer} /\ cookie' = Older(cookie, s) /\ now' = now /\ lost' = lost
  BY DEF Rotate
<1>3. answer.token = NoToken /\ answer.set.sid = s /\ answer.at = m.at /\ answer.step = "ok"
  BY <1>0, AnswerCarries, AnswerAt
<1>4. \A r \in reqs : r.set.sid # s
  BY <1>1 DEF Copies, FreshInv
<1>5. ASSUME NEW r \in reqs
      PROVE  /\ old(r).token = Older(r.token, s) /\ old(r).set = r.set
             /\ old(r).at = r.at /\ old(r).step = r.step
  <2>1. Older(r.set, s) = r.set
    BY <1>4 DEF Older
  <2> QED BY <1>0, <2>1 DEF Req
<1>6. ASSUME NEW k \in Token PROVE Older(k, s).sid = k.sid /\ (k.sid # s => Older(k, s) = k)
  BY DEF Older, Token
<1>7. ASSUME NEW r \in reqs' PROVE r = answer \/ \E q \in reqs \ {m} : r = old(q)
  BY <1>2
<1>8. /\ sess'[s].used = now /\ sess'[s].state = sess[s].state
      /\ \A r \in Session \ {s} : sess'[r] = sess[r]
  <2>1. sess' = [sess EXCEPT ![s] = [sess[s] EXCEPT !.used = now,
                                     !.expires = Expiry(sess[s].created, now)]]
    BY <1>1 DEF Rotate, TypeOK
  <2> QED BY <1>1, <2>1 DEF TypeOK, Row
<1>9. \A q \in reqs \ {m} : old(q) \in reqs'
  BY <1>2
<1>10. answer \in reqs' /\ m.at <= now
  BY <1>2 DEF Race, TimeInv
<1>11. cookie \in Token /\ \A r \in reqs : r.token \in Token
  BY DEF TypeOK, Req
<1> HIDE DEF answer, old, aged, s
<1>12. TimeInv'
  BY <1>1, <1>2, <1>3, <1>5, <1>7, <1>8, <1>0 DEF Race, TimeInv
<1>13. BehindInv'
  <2>1. CASE cookie.sid = s
    BY <1>2, <1>3, <1>6, <1>8, <1>10, <1>11, <2>1 DEF BehindInv
  <2>2. CASE cookie.sid # s
    <3>1. cookie' = cookie
      BY <1>2, <1>6, <1>11, <2>2
    <3>2. cookie.sid \in Session => sess'[cookie.sid] = sess[cookie.sid]
      BY <1>8, <2>2
    <3>3. ASSUME NEW r \in reqs, r.set.sid = cookie.sid, cookie.sid \in Session
          PROVE  old(r) \in reqs' /\ old(r).set.sid = r.set.sid /\ old(r).at = r.at
      BY <1>1, <1>5, <1>9, <3>3, NoTokenEmpty
    <3> QED BY <1>2, <3>1, <3>2, <3>3 DEF Race, BehindInv
  <2> QED BY <2>1, <2>2
<1>14. HeldInv'
  <2> SUFFICES ASSUME NEW r \in reqs', r.token.sid \in Session, r.token.age = 1,
                      r.token.sid \notin lost, sess'[r.token.sid].state = "open"
               PROVE  r.at <= sess'[r.token.sid].used + RoundTrip
    BY <1>2 DEF HeldInv
  <2>1. PICK q \in reqs \ {m} : r = old(q)
    BY <1>3, <1>7, NoTokenEmpty
  <2>2. r.at = q.at /\ r.token = Older(q.token, s) /\ q.at <= now /\ q.at \in Nat
    BY <1>0, <1>5, <2>1, SessionAssumption DEF Race, TimeInv, Req, Time
  <2>3. CASE r.token.sid = s
    BY <1>0, <1>8, <2>2, <2>3
  <2>4. CASE r.token.sid # s
    BY <1>6, <1>8, <1>11, <2>2, <2>4 DEF Race, HeldInv
  <2> QED BY <2>3, <2>4
<1>15. SentInv'
  BY <1>3, <1>5, <1>7 DEF Race, SentInv
<1> QED BY <1>12, <1>13, <1>14, <1>15 DEF Race

\* No step of the server lets a race last longer than it may.
LEMMA RaceServer ==
    ASSUME TypeOK, Copies, Race, NEW m \in reqs, ServerStep(m)
    PROVE  Race'
<1>0. m \in Req /\ TimeInv
  BY DEF TypeOK, Race
<1>a. ASSUME NEW step, NEW access, Answered(m, Answer(m, step, access, NoToken)),
             m.step \in {"sent", "verified"}, RowsKept,
             now' = now, cookie' = cookie, lost' = lost
      PROVE  Race'
  BY <1>0, <1>a, AnswerCarries, AnswerAt, RaceAnswered
<1>b. Refused(m) /\ m.step = "sent" /\ RowsKept /\ now' = now /\ cookie' = cookie
         /\ lost' = lost => Race'
  BY <1>a DEF Refused
<1>c. ASSUME NEW ended, sess' = End(ended) \/ sess' = sess PROVE RowsKept
  BY <1>0, <1>c, EndKeepsRows
<1>d. sess' = sess => RowsKept
  BY <1>0, EndKeepsRows
<1>1. CASE LoginVerify(m)
  <2>1. /\ cookie' = cookie /\ lost' = lost /\ now' = now /\ RowsKept /\ m.step = "sent"
    BY <1>1, <1>d DEF LoginVerify, hist
  <2>2. CASE Answered(m, [m EXCEPT !.step = "verified"])
    <3>1. /\ [m EXCEPT !.step = "verified"].token = m.token
          /\ [m EXCEPT !.step = "verified"].set = m.set
          /\ [m EXCEPT !.step = "verified"].at = m.at
      BY <1>0 DEF Req
    <3>2. m.set = NoToken
      BY <2>1 DEF Race, SentInv
    <3> QED BY <2>1, <2>2, <3>1, <3>2, RaceAnswered
  <2> QED BY <1>1, <1>b, <2>1, <2>2 DEF LoginVerify
<1>2. CASE LoginCommit(m)     BY <1>2, RaceOpened
<1>3. CASE Logout(m)          BY <1>3, <1>a, <1>c DEF Logout
<1>4. CASE Rotate(m)          BY <1>4, RaceRotated
<1>5. CASE Tolerate(m)        BY <1>5, <1>a, <1>d DEF Tolerate, Presents, hist
<1>6. CASE Suspect(m)         BY <1>6, <1>b, <1>c DEF Suspect, Presents
<1>7. CASE RefuseInactive(m)  BY <1>7, <1>b, <1>c DEF RefuseInactive, Presents, hist
<1>8. CASE RefuseUnknown(m)   BY <1>8, <1>b, <1>d DEF RefuseUnknown, Presents, hist
<1> QED BY <1>1, <1>2, <1>3, <1>4, <1>5, <1>6, <1>7, <1>8 DEF ServerStep

\* A tab that sends a cookie left behind does so while the answer is still on its way.
LEMMA RaceTab ==
    ASSUME TypeOK, Race, NEW t \in Tab, TabStep(t)
    PROVE  Race'
<1>0. reqs \subseteq Req /\ cookie \in Token /\ now \in Nat /\ RoundTrip \in Nat
  BY SessionAssumption DEF TypeOK, Time
<1>1. ASSUME NEW kind, NEW pw, Send(t, kind, pw) PROVE Race'
  <2>1. cookie' = cookie /\ lost' = lost /\ now' = now /\ sess' = sess
    BY <1>1 DEF Send, hist
  <2> DEFINE new == [kind |-> kind, tab |-> t, live |-> TRUE, at |-> now, step |-> "sent",
                     pw |-> pw, overlap |-> FALSE,
                     token |-> IF kind = "login" THEN NoToken ELSE cookie,
                     access |-> IF kind = "logout" THEN tabs[t].access ELSE NoAccess,
                     set |-> NoToken]
  <2>a. reqs' = reqs \cup {new}
    BY <1>1 DEF Send
  <2>b. new.token \in {NoToken, cookie} /\ new.set = NoToken /\ new.at = now
    OBVIOUS
  <2> HIDE DEF new
  <2>2. TimeInv'
    BY <1>0, <2>1, <2>a, <2>b DEF Race, TimeInv
  <2>3. BehindInv'
    BY <2>1, <2>a DEF Race, BehindInv
  <2>4. HeldInv'
    <3>1. ASSUME cookie.sid \in Session, cookie.age = 1, cookie.sid \notin lost,
                 sess[cookie.sid].state = "open"
          PROVE  now <= sess[cookie.sid].used + RoundTrip
      <4>1. PICK r \in reqs : r.set.sid = cookie.sid /\ r.at <= sess[cookie.sid].used
        BY <3>1 DEF Race, BehindInv
      <4>2. now <= r.at + RoundTrip /\ r.at \in Nat /\ sess[cookie.sid].used \in Nat
        BY <1>0, <3>1, SessionAssumption DEF Race, TimeInv, Req, Time, TypeOK, Row
      <4> QED BY <1>0, <4>1, <4>2
    <3> QED BY <2>1, <2>a, <2>b, <3>1, NoTokenEmpty DEF Race, HeldInv
  <2>5. SentInv'
    BY <2>a, <2>b DEF Race, SentInv
  <2> QED BY <2>2, <2>3, <2>4, <2>5 DEF Race
<1>2. RowsKept \/ sess' # sess
  BY EndKeepsRows DEF Race
<1>3. CASE Replay(t)
  BY <1>2, <1>3, RaceKept DEF Replay, hist, Race, SentInv
<1>4. CASE Reload(t)
  <2> DEFINE dead(m) == IF m.tab = t THEN [m EXCEPT !.live = FALSE] ELSE m
  <2>1. ASSUME NEW m \in reqs
        PROVE  /\ dead(m).token = m.token /\ dead(m).set = m.set
               /\ dead(m).at = m.at /\ dead(m).step = m.step
    BY <1>0 DEF Req
  <2>2. reqs' = {dead(m) : m \in reqs} /\ cookie' = cookie /\ lost' = lost /\ now' = now
    BY <1>4 DEF Reload, hist
  <2>3. RowsKept
    BY <1>2, <1>4 DEF Reload
  <2> HIDE DEF dead
  <2>4. \A r \in reqs' : \E q \in reqs : r.at = q.at /\ r.token \in {q.token, NoToken}
    BY <2>1, <2>2
  <2>5. \A q \in reqs : q.set.sid \in Session \ lost' =>
            \E r \in reqs' : r.set = q.set /\ r.at = q.at
    BY <2>1, <2>2
  <2>6. \A r \in reqs' : r.step \in {"sent", "verified"} => r.set = NoToken
    BY <2>1, <2>2 DEF Race, SentInv
  <2> QED BY <2>2, <2>3, <2>4, <2>5, <2>6, RaceKept
<1> QED BY <1>1, <1>3, <1>4 DEF TabStep, SilentRefresh, Unauthorized, SignIn, SignOut

\* A new token that arrives puts the cookie ahead; one that does not is lost.
LEMMA RaceMessage ==
    ASSUME TypeOK, Copies, Race, NEW m \in reqs, Receive(m) \/ Lost(m)
    PROVE  Race'
<1>1. /\ reqs' = reqs \ {m} /\ now' = now /\ sess' = sess /\ lost \subseteq lost'
  BY DEF Receive, Lost, hist
<1>2. RowsKept
  BY <1>1, EndKeepsRows DEF Race
<1>3. /\ \A r \in reqs' : \E q \in reqs : r.at = q.at /\ r.token \in {q.token, NoToken}
      /\ \A r \in reqs' : r.step \in {"sent", "verified"} => r.set = NoToken
  BY <1>1 DEF Race, SentInv
<1>4. CASE Lost(m)
  <2>1. \A q \in reqs : q.set.sid \in Session \ lost' =>
            \E r \in reqs' : r.set = q.set /\ r.at = q.at
    BY <1>1, <1>4, SessionAssumption DEF Lost
  <2> QED BY <1>1, <1>2, <1>3, <1>4, <2>1, RaceKept DEF Lost
<1>5. CASE Receive(m) /\ m.set = NoToken
  <2>1. \A q \in reqs : q.set.sid \in Session \ lost' =>
            \E r \in reqs' : r.set = q.set /\ r.at = q.at
    BY <1>1, <1>5, NoTokenEmpty
  <2>2. cookie' \in {cookie, NoToken}
    BY <1>5 DEF Receive, SetCookie
  <2> QED BY <1>1, <1>2, <1>3, <2>1, <2>2, RaceKept
<1>6. CASE Receive(m) /\ m.set # NoToken
  <2>1. cookie' = m.set /\ lost' = lost
    BY <1>6 DEF Receive, SetCookie, hist
  <2>2. cookie'.age = 0
    BY <1>6, <2>1 DEF Copies, SetInv
  <2> QED BY <1>1, <2>1, <2>2 DEF Race, TimeInv, BehindInv, HeldInv, SentInv
<1> QED BY <1>4, <1>5, <1>6

\* Time waits for the requests, and a change of the account only ends sessions.
LEMMA RaceAccount == ASSUME TypeOK, Race, AccountStep PROVE Race'
<1>0. reqs \subseteq Req /\ now \in Nat /\ RoundTrip \in Nat
  BY SessionAssumption DEF TypeOK, Time
<1>1. CASE Tick
  <2>1. /\ reqs' = reqs /\ cookie' = cookie /\ sess' = sess /\ lost' = lost /\ now' = now + 1
        /\ \A m \in reqs : now < m.at + RoundTrip
    BY <1>1 DEF Tick, hist
  <2>2. TimeInv'
    <3>1. \A m \in reqs : m.at \in Nat
      BY <1>0, SessionAssumption DEF Req, Time
    <3>2. \A s \in Session : sess[s].used \in Nat
      BY SessionAssumption DEF TypeOK, Row, Time
    <3> QED BY <1>0, <2>1, <3>1, <3>2 DEF Race, TimeInv
  <2> QED BY <2>1, <2>2 DEF Race, BehindInv, HeldInv, SentInv
<1>2. CASE ~Tick
  <2>1. cookie' = cookie /\ lost' = lost /\ now' = now
    BY <1>2 DEF AccountStep, SetPassword, Deactivate, Reactivate, Purge, CloseSession, hist
  <2>2. RowsKept
    <3>1. CASE sess' = sess \/ \E ended \in SUBSET Session : sess' = End(ended)
      BY <3>1, EndKeepsRows DEF Race
    <3>2. CASE Purge
      <4>1. NoRow.state = "none" /\ NoRow.used = 0
        BY DEF NoRow
      <4> QED BY <1>0, <3>2, <4>1 DEF Purge, RowsKept, Race, TimeInv
    <3>3. OpenOnes \in SUBSET Session /\ \A s \in Session : {s} \in SUBSET Session
      BY DEF OpenOnes
    <3> QED BY <1>2, <3>1, <3>2, <3>3
            DEF AccountStep, SetPassword, Deactivate, Reactivate, CloseSession
  <2>3. /\ \A r \in reqs' : \E q \in reqs :
               r.at = q.at /\ r.token = q.token /\ r.set = q.set /\ r.step = q.step
        /\ \A q \in reqs : \E r \in reqs' : r.at = q.at /\ r.set = q.set
    <3>1. CASE reqs' = reqs
      BY <3>1
    <3>2. CASE reqs' = Overlapping
      <4> DEFINE marked(m) == [m EXCEPT !.overlap = m.step = "verified"]
      <4>1. ASSUME NEW m \in reqs PROVE marked(m).token = m.token /\ marked(m).set = m.set
        BY DEF TypeOK, Req
      <4>2. ASSUME NEW m \in reqs PROVE marked(m).at = m.at /\ marked(m).step = m.step
        BY DEF TypeOK, Req
      <4>3. reqs' = {marked(m) : m \in reqs}
        BY <3>2 DEF Overlapping
      <4> HIDE DEF marked
      <4> QED BY <4>1, <4>2, <4>3
    <3> QED BY <1>2, <3>1, <3>2
            DEF AccountStep, SetPassword, Deactivate, Reactivate, Purge, CloseSession
  <2>4. \A r \in reqs' : r.step \in {"sent", "verified"} => r.set = NoToken
    BY <2>3 DEF Race, SentInv
  <2> QED BY <2>1, <2>2, <2>3, <2>4, RaceKept
<1> QED BY <1>1, <1>2

\* A token one rotation behind that was not lost is presented within two round trips of
\* the rotation, hence within the grace; one further behind was overtaken.
LEMMA SuspicionStep ==
    ASSUME RaceInv, NEW m \in reqs, Suspect(m)
    PROVE  SuspectedWasStrained'
<1> TypeOK /\ Copies /\ Race /\ SuspectedWasStrained /\ m \in Req /\ m.token \in Token
  BY DEF RaceInv, TypeOK, Req
<1>1. /\ suspected' = suspected \cup {m.token.sid} /\ lost' = lost /\ overtaken' = overtaken
      /\ m.token.age # 0 /\ ~JustReplaced(m.token) /\ sess[m.token.sid].state = "open"
      /\ m.token.sid \in Session
  BY DEF Suspect, IsCurrent, Opens, Live, Token, SomeSession
<1>2. CASE m.token.age = 2
  BY <1>1, <1>2 DEF Copies, AgeInv, SuspectedWasStrained
<1>3. CASE m.token.age = 1
  <2>1. SUFFICES ASSUME m.token.sid \notin lost PROVE FALSE
    BY <1>1 DEF SuspectedWasStrained
  <2>2. m.at <= sess[m.token.sid].used + RoundTrip /\ now <= m.at + RoundTrip
    BY <1>1, <1>3, <2>1 DEF Race, HeldInv, TimeInv
  <2>3. now - sess[m.token.sid].used > Grace
    BY <1>1, <1>3, SessionAssumption DEF JustReplaced, TypeOK, Time, Row
  <2>4. now \in Nat /\ m.at \in Nat /\ sess[m.token.sid].used \in Nat
    BY <1>1, SessionAssumption DEF TypeOK, Time, Row, Req
  <2> QED BY <2>2, <2>3, <2>4, SessionAssumption
<1> QED BY <1>1, <1>2, <1>3 DEF Token, Age

\* Every other step accuses nobody, and a new session starts with a clean record.
LEMMA SuspicionKept ==
    ASSUME RaceInv,
           \/ \E m \in reqs : (ServerStep(m) /\ ~Suspect(m)) \/ Receive(m) \/ Lost(m)
           \/ \E t \in Tab : TabStep(t)
           \/ AccountStep
    PROVE  SuspectedWasStrained'
<1>0. SuspectedWasStrained
  BY DEF RaceInv
<1>1. ASSUME suspected' = suspected, lost \subseteq lost', overtaken \subseteq overtaken'
      PROVE  SuspectedWasStrained'
  BY <1>0, <1>1 DEF SuspectedWasStrained
<1>2. ASSUME NEW m \in reqs, LoginCommit(m) PROVE SuspectedWasStrained'
  BY <1>0, <1>2 DEF LoginCommit, SuspectedWasStrained
<1>3. ASSUME NEW m \in reqs, ServerStep(m), ~Suspect(m) PROVE SuspectedWasStrained'
  BY <1>1, <1>2, <1>3 DEF ServerStep, LoginVerify, Logout, Rotate, Tolerate, RefuseInactive,
                          RefuseUnknown, hist
<1>4. ASSUME NEW m \in reqs, Receive(m) \/ Lost(m) PROVE SuspectedWasStrained'
  BY <1>1, <1>4 DEF Receive, Lost, hist
<1>5. ASSUME NEW t \in Tab, TabStep(t) PROVE SuspectedWasStrained'
  BY <1>1, <1>5 DEF TabStep, SilentRefresh, Unauthorized, Replay, SignIn, SignOut, Reload,
                    Send, hist
<1>6. CASE AccountStep
  BY <1>1, <1>6 DEF AccountStep, Tick, SetPassword, Deactivate, Reactivate, Purge,
                    CloseSession, hist
<1> QED BY <1>3, <1>4, <1>5, <1>6

\* For any number of tabs, and a grace of two round trips or more, a session is ended as
\* stolen (refresh, REUSED) only if one of its new tokens was lost, or if it was traded
\* twice while an older request was on its way: two tabs that race for the cookie, which
\* is what REFRESH_REUSE_GRACE is there for, are never taken for thieves.
THEOREM SuspicionHasCause == Spec => []SuspectedWasStrained
<1>1. Init => RaceInv
  <2> SUFFICES ASSUME Init PROVE RaceInv
    OBVIOUS
  <2>1. Copies
    BY NoTokenEmpty DEF Init, Copies, SetInv, FreshInv, CookieInv, AgeInv
  <2>2. TimeInv
    <3>1. NoRow.used = 0
      BY DEF NoRow
    <3> QED BY <3>1 DEF Init, TimeInv
  <2>3. BehindInv /\ HeldInv /\ SentInv
    BY NoTokenEmpty DEF Init, BehindInv, HeldInv, SentInv
  <2> QED BY <2>1, <2>2, <2>3, TypeInit DEF Init, RaceInv, Race, SuspectedWasStrained
<1>2. RaceInv /\ [Next]_vars => RaceInv'
  <2> SUFFICES ASSUME RaceInv, [Next]_vars PROVE RaceInv'
    OBVIOUS
  <2>1. TypeOK' /\ TypeOK /\ Copies /\ Race
    BY TypeStep DEF RaceInv
  <2>2. CASE Next
    <3>1. Copies'
      BY <2>1, <2>2, StepKinds, CopiesServer, CopiesTab, CopiesMessage, CopiesAccount
    <3>2. Race'
      BY <2>1, <2>2, StepKinds, RaceServer, RaceTab, RaceMessage, RaceAccount
    <3>3. SuspectedWasStrained'
      BY <2>2, StepKinds, SuspicionStep, SuspicionKept
    <3> QED BY <2>1, <3>1, <3>2, <3>3 DEF RaceInv
  <2>3. CASE UNCHANGED vars
    BY <2>1, <2>3 DEF vars, hist, RaceInv, Copies, SetInv, FreshInv, CookieInv, AgeInv, Race,
                      TimeInv, BehindInv, HeldInv, SentInv, SuspectedWasStrained
  <2> QED BY <2>2, <2>3
<1>3. RaceInv => SuspectedWasStrained
  BY DEF RaceInv
<1> QED BY <1>1, <1>2, <1>3, PTL DEF Spec
=============================================================================
