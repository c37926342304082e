-------------------------- MODULE AgentTokenProofs --------------------------
(***************************************************************************)
(* Proofs about AgentToken, for any tokens and any number of results in    *)
(* flight: its variables keep their types, a proved token is the current   *)
(* one, and, when no request outlives the next poll (Late = 0), the token  *)
(* the agent holds is honoured.                                            *)
(*                                                                         *)
(* Why HeldTokenHonoured is not inductive: it says nothing of the requests *)
(* under way, and two kinds of them retire a token when they commit.  A    *)
(* promotion retires the current token: HonourInv says the agent is past   *)
(* it.  An offer retires the pending one: HonourInv says the agent never   *)
(* stored it.  Neither may undo the other: QuietInv says that an offer and *)
(* a promotion are never both under way.  All rest on PollInv: the server  *)
(* has one heartbeat or enrollment at most, and results of the same token. *)
(*                                                                         *)
(* The last part is about WolRelay, the wakes that heartbeats claim and    *)
(* close, for any postes, profiles and delays: none that could have        *)
(* carried an expired wake was heard in its time.  WolInv also says that   *)
(* a heartbeat that has read, and could relay a wake, claims it.           *)
(***************************************************************************)
EXTENDS AgentToken, WolRelay, FiniteSetTheorems, TLAPS

\* Whatever the agent holds is t, or was ended.
Held == {mem, disk, got} \ {NoToken}
OnlyHolds(t) == Held \subseteq struck \cup {t}

RowInv ==
    /\ row.current # NoToken => row.current # row.pending
    /\ ~row.known => row.current = NoToken
    /\ adm.op # "none" => row.known /\ adm.seen.known
    /\ row.pending \notin used

ReqInv ==
    /\ IsFiniteSet(reqs)
    /\ \A m \in reqs :
         /\ m.token = NoToken <=> m.kind = "enroll"
         /\ m.step = "promote" => /\ m.kind # "enroll"
                                  /\ m.seen.pending = m.token
                                  /\ m.seen.current # m.token
         /\ m.kind # "enroll" /\ m.step # "sent" =>
              row.known /\ (m.step # "refresh" => m.seen.known)
         /\ m.live /\ m.kind # "result" => loop = m.kind
    /\ \A m, n \in reqs :
         m.live /\ n.live /\ m.kind # "result" /\ n.kind # "result" => m = n
    /\ loop = "enrolled" => mem # NoToken

\* Holds however many requests are late.
BaseInv == TypeOK /\ RowInv /\ ReqInv

\* With Late = 0, one poll at a time, and results sent with the same token.
PollInv ==
    /\ \A m \in reqs : m.recent => m.kind = "result" /\ loop = "sleep" /\ m.token = mem
    /\ \A k \in reqs : k.kind # "result" =>
         /\ \A m \in reqs : m.token = k.token /\ (m.kind = "result" \/ m = k)
         /\ loop = "start" \/ (loop \in {"sleep", k.kind} /\ mem = k.token)
    /\ loop = "enrolled" => \A m \in reqs : m.token = mem

CopyInv ==
    /\ loop \notin {"renew", "switch"} => got = NoToken
    /\ loop # "switch" /\ mem # NoToken => disk \in {mem, NoToken} \cup struck
    /\ loop = "switch" => disk = got
    /\ loop \in {"renew", "switch"} /\ mem # NoToken => mem # row.pending

HonourInv ==
    /\ Held \subseteq struck \cup Honoured
    /\ \A m \in reqs :
         /\ m.token = row.pending /\ m.token # NoToken => OnlyHolds(m.token)
         /\ m.step = "promote" \/ m.kind = "heartbeat" => OnlyHolds(m.token)
         /\ m.kind = "heartbeat" /\ m.step \in {"refresh", "loaded"} =>
              OnlyHolds(row.current) /\ m.token # row.pending

QuietInv ==
    \A m \in reqs :
      /\ m.kind = "heartbeat" /\ m.step = "refresh" =>
           row.pending = NoToken /\ ~row.aged
      /\ m.step = "promote" =>
           /\ m.seen.aged \/ ~row.aged
           /\ m.token = row.current => row.pending = NoToken /\ ~row.aged
           /\ \A h \in reqs : h.kind = "heartbeat" /\ h.step = "loaded" =>
                                  ~RotationDue(h.seen)

\* An enrollment that found no live token still finds none at its commit.
EnrollInv ==
    \A m \in reqs :
      m.kind = "enroll" /\ m.step = "loaded" =>
        /\ row.pending \in {NoToken, m.seen.pending}
        /\ m.seen.current = NoToken => row.current = NoToken

IInv == BaseInv /\ PollInv /\ CopyInv /\ HonourInv /\ QuietInv /\ EnrollInv

-----------------------------------------------------------------------------
\* A fresh token is not written, held or travelling anywhere.
LEMMA FreshToken ==
    ASSUME NEW new \in Fresh
    PROVE  /\ new \in Token /\ new # NoToken
           /\ new \notin {row.current, row.pending, mem, disk, got,
                          adm.seen.current, adm.seen.pending}
           /\ \A m \in reqs : /\ new # m.token /\ new # m.seen.current
                              /\ new # m.seen.pending
<1>1. new \in Token /\ new \notin InUse
  BY DEF Fresh
<1>2. ASSUME NEW m \in reqs
      PROVE  new \notin {m.token, m.seen.current, m.seen.pending}
  <2>1. {m.token, m.seen.current, m.seen.pending}
          \in {{n.token, n.seen.current, n.seen.pending} : n \in reqs}
    OBVIOUS
  <2> QED
    BY <1>1, <2>1 DEF InUse
<1>3. new \notin {row.current, row.pending, mem, disk, got,
                  adm.seen.current, adm.seen.pending}
  <2> DEFINE travelling == UNION {{n.token, n.seen.current, n.seen.pending} : n \in reqs}
  <2>1. InUse = {row.current, row.pending, mem, disk, got} \cup travelling
                \cup {adm.seen.current, adm.seen.pending}
    BY DEF InUse
  <2> HIDE DEF travelling
  <2> QED
    BY <1>1, <2>1
<1> QED
  BY <1>1, <1>2, <1>3, TokenAssumption

\* What each handler leaves on the row, over what was committed since it loaded it.
LEMMA PromoteRow ==
    ASSUME TypeOK, NEW m \in reqs, m.token # NoToken,
           m.seen.pending = m.token, m.seen.current # m.token
    PROVE  LET new == Flush(m.seen, Promoted(m)) IN
           /\ new \in Row /\ new.current = m.token /\ new.pending = NoToken
           /\ new.known = m.seen.known /\ new.revoked = row.revoked
           /\ new.aged = (row.aged /\ ~m.seen.aged)
<1> m.seen \in Row
  BY DEF TypeOK, Req
<1> QED
  BY DEF TypeOK, Row, Maybe, Flush, Column, Promoted

\* An offer writes the pending token and nothing else.
LEMMA OfferRow ==
    ASSUME TypeOK, NEW m \in reqs, NEW t \in Fresh
    PROVE  LET new == Flush(m.seen, Offered(m.seen, t)) IN
           /\ new \in Row /\ new.current = row.current /\ new.pending = t
           /\ new.known = m.seen.known /\ new.revoked = row.revoked
           /\ new.aged = row.aged
<1> m.seen \in Row /\ t # m.seen.pending /\ t \in Token
  BY FreshToken DEF TypeOK, Req
<1> QED
  BY DEF TypeOK, Row, Maybe, Flush, Column, Offered

\* An enrollment writes the current token, and clears the pending one it saw.
LEMMA MintRow ==
    ASSUME TypeOK, NEW m \in reqs, NEW t \in Fresh
    PROVE  LET new == Flush(m.seen, Enrolled(m.seen, t)) IN
           /\ new \in Row /\ new.current = t /\ new.known
           /\ new.pending = IF m.seen.pending = NoToken THEN row.pending ELSE NoToken
<1> m.seen \in Row /\ t # m.seen.current /\ t \in Token
  BY FreshToken DEF TypeOK, Req
<1> QED
  BY DEF TypeOK, Row, Maybe, Flush, Column, Enrolled

\* The administrator only clears tokens; revoking leaves the current one.
LEMMA AdminRow ==
    ASSUME TypeOK, NEW new \in {Flush(adm.seen, Revoked(adm.seen)),
                                Flush(adm.seen, Allowed(adm.seen))}
    PROVE  /\ new \in Row
           /\ new.pending \in {row.pending, NoToken}
           /\ new.current \in {row.current, NoToken}
           /\ new = Flush(adm.seen, Revoked(adm.seen)) => new.current = row.current
           /\ new.known = adm.seen.known /\ new.aged = row.aged
<1> adm.seen \in Row
  BY DEF TypeOK, Adm
<1>1. CASE new = Flush(adm.seen, Revoked(adm.seen))
  BY <1>1 DEF TypeOK, Row, Maybe, Flush, Column, Revoked
<1>2. CASE new = Flush(adm.seen, Allowed(adm.seen))
  <2>1. /\ new.known = adm.seen.known
        /\ new.current = Column(adm.seen.current, NoToken, row.current)
        /\ new.pending = Column(adm.seen.pending, NoToken, row.pending)
        /\ new.revoked = Column(adm.seen.revoked, FALSE, row.revoked)
        /\ new.held = Column(adm.seen.held, FALSE, row.held)
        /\ new.aged = Column(adm.seen.aged, adm.seen.aged, row.aged)
    BY <1>2 DEF Flush, Allowed, Row
  <2>2. new \in Row
    BY <1>2, <2>1 DEF TypeOK, Row, Maybe, Flush, Column
  <2> QED
    BY <1>2, <2>1, <2>2 DEF Column, Flush, Allowed, Revoked, Row
<1> QED
  BY <1>1, <1>2

\* A request keeps who sent it, and with what, when a handler moves it, when its
\* sender leaves and when a poll starts.
LEMMA MovedReq ==
    ASSUME TypeOK, NEW m \in reqs,
           NEW step \in {"promote", "refresh", "loaded"}, NEW read \in Row
    PROVE  \E n \in Req : /\ Moved(m, step, read) = (reqs \ {m}) \cup {n}
                          /\ n.kind = m.kind /\ n.token = m.token /\ n.live = m.live
                          /\ n.recent = m.recent /\ n.step = step /\ n.seen = read
<1> DEFINE n == [m EXCEPT !.step = step, !.seen = read]
<1>1. /\ n \in Req /\ n.kind = m.kind /\ n.token = m.token /\ n.live = m.live
      /\ n.recent = m.recent /\ n.step = step /\ n.seen = read
  BY DEF TypeOK, Req
<1> QED
  BY <1>1 DEF Moved

\* Its sender leaves: the rest of the request is as it was.
LEMMA LeftReq ==
    ASSUME TypeOK, NEW m \in reqs
    PROVE  \E n \in Req : /\ n = [m EXCEPT !.live = FALSE]
                          /\ n.kind = m.kind /\ n.token = m.token /\ ~n.live
                          /\ n.recent = m.recent /\ n.step = m.step /\ n.seen = m.seen
<1> DEFINE n == [m EXCEPT !.live = FALSE]
<1>1. /\ n \in Req /\ n.kind = m.kind /\ n.token = m.token /\ ~n.live
      /\ n.recent = m.recent /\ n.step = m.step /\ n.seen = m.seen
  BY DEF TypeOK, Req
<1> QED
  BY <1>1

\* A poll starts: no request is recent any more, the rest is as it was.
LEMMA OlderReq ==
    ASSUME NEW S \in SUBSET Req
    PROVE  \A r \in {[m EXCEPT !.recent = FALSE] : m \in S} :
             /\ r \in Req
             /\ \E m \in S : /\ r = [m EXCEPT !.recent = FALSE]
                             /\ r.kind = m.kind /\ r.token = m.token /\ r.live = m.live
                             /\ ~r.recent /\ r.step = m.step /\ r.seen = m.seen
  BY DEF Req

\* The service restarts: every request has lost its sender.
LEMMA OrphanReq ==
    ASSUME NEW S \in SUBSET Req
    PROVE  \A r \in {[m EXCEPT !.live = FALSE, !.recent = FALSE] : m \in S} :
             /\ r \in Req
             /\ \E m \in S : /\ r = [m EXCEPT !.live = FALSE, !.recent = FALSE]
                             /\ r.kind = m.kind /\ r.token = m.token /\ ~r.live
                             /\ ~r.recent /\ r.step = m.step /\ r.seen = m.seen
  BY DEF Req

\* What the agent sends carries its token, if it has one.
LEMMA RequestType ==
    ASSUME TypeOK, NEW kind \in {"enroll", "heartbeat", "result"}
    PROVE  /\ Request(kind) \in Req
           /\ Request(kind).kind = kind /\ Request(kind).live
           /\ Request(kind).step = "sent"
           /\ Request(kind).recent = (loop = "sleep")
           /\ Request(kind).token = IF kind = "enroll" THEN NoToken ELSE mem
  BY DEF TypeOK, Request, Req, Row, NewRow, Maybe

-----------------------------------------------------------------------------
\* Every action keeps every variable in its type.
LEMMA TypeStep ==
    ASSUME BaseInv, [Next]_vars
    PROVE  TypeOK'
<1> TypeOK /\ ReqInv
  BY DEF BaseInv
<1>1. ASSUME NEW m \in reqs, Fails(m)
      PROVE  /\ loop' \in {"start", "sleep", "enroll", "enrolled", "heartbeat", "renew", "switch"}
             /\ mem' \in Maybe /\ disk' \in Maybe /\ got' \in Maybe
  BY <1>1 DEF Fails, TypeOK
<1>2. CASE UNCHANGED vars
  BY <1>2 DEF vars, agent, hist, TypeOK
<1>3. ASSUME NEW m \in reqs, Authenticate(m) PROVE TypeOK'
  <2>1. row \in Row /\ m \in Req
    BY DEF TypeOK
  <2>2. reqs' \subseteq Req
    <3>1. reqs' \in {reqs \ {m}, Moved(m, "promote", row), Moved(m, "loaded", row)}
      BY <1>3 DEF Authenticate, Handled
    <3>2. Moved(m, "promote", row) \subseteq Req
      BY <2>1, MovedReq DEF TypeOK
    <3>3. Moved(m, "loaded", row) \subseteq Req
      BY <2>1, MovedReq DEF TypeOK
    <3> QED
      BY <3>1, <3>2, <3>3 DEF TypeOK
  <2>3. used' \subseteq Token
    BY <1>3, <2>1 DEF Authenticate, Matches, Honoured, Row, Maybe, TypeOK
  <2>4. agent' = agent \/ Unauthorized(m)
    BY <1>3 DEF Authenticate
  <2> QED
    BY <1>3, <2>2, <2>3, <2>4 DEF Authenticate, Unauthorized, agent, Maybe, TypeOK
<1>4. ASSUME NEW m \in reqs, Promote(m) PROVE TypeOK'
  <2>1. /\ m \in Req /\ m.token # NoToken
        /\ m.seen.pending = m.token /\ m.seen.current # m.token
    BY <1>4 DEF Promote, ReqInv, TypeOK
  <2>2. row' \in Row
    BY <1>4, <2>1, PromoteRow DEF Promote
  <2>3. NewRow \in Row
    BY DEF Row, NewRow, Maybe
  <2>4. reqs' \subseteq Req
    <3>1. reqs' \in {reqs \ {m}, Moved(m, "refresh", NewRow)}
      BY <1>4 DEF Promote, Handled
    <3>2. Moved(m, "refresh", NewRow) \subseteq Req
      BY <2>3, MovedReq DEF TypeOK
    <3> QED
      BY <3>1, <3>2 DEF TypeOK
  <2> QED
    BY <1>4, <2>1, <2>2, <2>4 DEF Promote, agent, TypeOK, Req, Maybe
<1>5. ASSUME NEW m \in reqs, Refresh(m) PROVE TypeOK'
  <2>1. row \in Row
    BY DEF TypeOK
  <2>2. reqs' \subseteq Req
    BY <1>5, <2>1, MovedReq DEF Refresh, TypeOK
  <2> QED
    BY <1>5, <2>2 DEF Refresh, agent, hist, TypeOK
<1>6. ASSUME NEW m \in reqs, HeartbeatCommit(m) PROVE TypeOK'
  <2>1. CASE ~RotationDue(m.seen)
    BY <1>6, <2>1, <1>1 DEF HeartbeatCommit, hist, TypeOK
  <2>2. CASE RotationDue(m.seen)
    <3>1. PICK new \in Fresh :
            /\ row' = Flush(m.seen, Offered(m.seen, new))
            /\ struck' = struck \ {new} /\ used' = used \ {new}
            /\ IF m.live THEN loop' = "renew" /\ got' = new /\ UNCHANGED <<mem, disk>>
                         ELSE UNCHANGED agent
      BY <1>6, <2>2 DEF HeartbeatCommit
    <3>2. row' \in Row /\ new \in Token
      BY <3>1, OfferRow, FreshToken
    <3> QED
      BY <1>6, <3>1, <3>2 DEF HeartbeatCommit, agent, TypeOK, Maybe
  <2> QED
    BY <2>1, <2>2
<1>7. ASSUME NEW m \in reqs, EnrollLoad(m) PROVE TypeOK'
  <2>1. row \in Row
    BY DEF TypeOK
  <2>2. reqs' \subseteq Req
    <3>1. Moved(m, "loaded", row) \subseteq Req
      BY <2>1, MovedReq DEF TypeOK
    <3> QED
      BY <1>7, <3>1 DEF EnrollLoad, TypeOK
  <2> QED
    BY <1>7, <1>1, <2>2 DEF EnrollLoad, agent, hist, TypeOK
<1>8. ASSUME NEW m \in reqs, EnrollHeld(m) PROVE TypeOK'
  BY <1>8, <1>1 DEF EnrollHeld, hist, TypeOK, Row
<1>9. ASSUME NEW m \in reqs, EnrollMint(m) PROVE TypeOK'
  <2>1. PICK new \in Fresh :
          /\ row' = Flush(m.seen, Enrolled(m.seen, new))
          /\ struck' = (struck \cup Honoured) \ {new} /\ used' = used \ {new}
          /\ IF m.live THEN loop' = "enrolled" /\ mem' = new /\ UNCHANGED <<disk, got>>
                       ELSE UNCHANGED agent
    BY <1>9 DEF EnrollMint
  <2>2. row' \in Row /\ new \in Token
    BY <2>1, MintRow, FreshToken
  <2>3. Honoured \subseteq Token
    BY DEF Honoured, TypeOK, Row, Maybe
  <2> QED
    BY <1>9, <2>1, <2>2, <2>3 DEF EnrollMint, agent, TypeOK, Maybe
<1>10. ASSUME NEW m \in reqs, Lost(m) \/ Timeout(m) PROVE TypeOK'
  <2>1. reqs' \subseteq Req
    BY <1>10, LeftReq DEF Lost, Timeout, TypeOK
  <2> QED
    BY <1>10, <1>1, <2>1 DEF Lost, Timeout, hist, TypeOK
<1>11. ASSUME NEW op \in {"revoke", "allow"}, AdminLoad(op) PROVE TypeOK'
  BY <1>11 DEF AdminLoad, agent, hist, TypeOK, Adm
<1>12. CASE RevokeCommit \/ AllowCommit
  <2>1. adm' \in Adm
    <3>1. Idle \in Adm
      BY DEF Adm, Idle, NewRow, Row, Maybe
    <3> QED
      BY <1>12, <3>1 DEF RevokeCommit, AllowCommit
  <2>2. row' \in Row
    BY <1>12, AdminRow DEF RevokeCommit, AllowCommit
  <2>3. struck' \subseteq Token
    BY <1>12 DEF RevokeCommit, AllowCommit, Honoured, TypeOK, Row, Maybe
  <2> QED
    BY <1>12, <2>1, <2>2, <2>3 DEF RevokeCommit, AllowCommit, agent, TypeOK
<1>13. CASE Age
  BY <1>13 DEF Age, agent, hist, TypeOK, Row
<1>14. CASE PollStart
  <2>1. PICK kind \in {"enroll", "heartbeat"} :
          reqs' = {[m EXCEPT !.recent = FALSE] : m \in reqs \cup {Request(kind)}}
    BY <1>14 DEF PollStart
  <2>2. reqs \cup {Request(kind)} \in SUBSET Req
    BY RequestType DEF TypeOK
  <2>3. reqs' \subseteq Req
    BY <2>1, <2>2, OlderReq
  <2> QED
    BY <1>14, <2>3 DEF PollStart, hist, TypeOK
<1>15. CASE SendResult
  BY <1>15, RequestType DEF SendResult, agent, hist, TypeOK
<1>16. CASE StoreEnrolled
  BY <1>16, RequestType DEF StoreEnrolled, hist, TypeOK
<1>17. CASE StoreRenewed \/ Switch
  BY <1>17 DEF StoreRenewed, Switch, hist, TypeOK, Maybe
<1>18. CASE Restart
  <2>1. reqs' \subseteq Req
    BY <1>18, OrphanReq DEF Restart, TypeOK
  <2> QED
    BY <1>18, <2>1 DEF Restart, hist, TypeOK, Maybe
<1> QED
  BY <1>2, <1>3, <1>4, <1>5, <1>6, <1>7, <1>8, <1>9, <1>10, <1>11, <1>12, <1>13,
     <1>14, <1>15, <1>16, <1>17, <1>18 DEF Next, Server, Agent

-----------------------------------------------------------------------------
\* The requests under way are always finitely many.
LEMMA FiniteStep ==
    ASSUME IsFiniteSet(reqs), [Next]_vars
    PROVE  IsFiniteSet(reqs')
<1>1. ASSUME NEW m, NEW n PROVE IsFiniteSet(reqs \ {m}) /\ IsFiniteSet((reqs \ {m}) \cup {n})
  <2>1. IsFiniteSet(reqs \ {m})
    BY FS_RemoveElement
  <2> QED
    BY <2>1, FS_AddElement
<1>2. ASSUME NEW n PROVE IsFiniteSet(reqs \cup {n})
  BY FS_AddElement
<1>3. ASSUME NEW S, IsFiniteSet(S)
      PROVE  /\ IsFiniteSet({[m EXCEPT !.recent = FALSE] : m \in S})
             /\ IsFiniteSet({[m EXCEPT !.live = FALSE, !.recent = FALSE] : m \in S})
  <2>1. [m \in S |-> [m EXCEPT !.recent = FALSE]]
          \in Surjection(S, {[m EXCEPT !.recent = FALSE] : m \in S})
    BY DEF Surjection
  <2>2. [m \in S |-> [m EXCEPT !.live = FALSE, !.recent = FALSE]]
          \in Surjection(S, {[m EXCEPT !.live = FALSE, !.recent = FALSE] : m \in S})
    BY DEF Surjection
  <2> QED
    BY <1>3, <2>1, <2>2, FS_Surjection
<1>4. CASE UNCHANGED vars
  BY <1>4 DEF vars
<1>5. ASSUME NEW m \in reqs,
             \/ Authenticate(m) \/ Promote(m) \/ Refresh(m) \/ HeartbeatCommit(m)
             \/ EnrollLoad(m) \/ EnrollHeld(m) \/ EnrollMint(m) \/ Lost(m) \/ Timeout(m)
      PROVE  IsFiniteSet(reqs')
  <2>1. CASE reqs' = reqs \ {m}
    BY <1>1, <2>1
  <2>2. CASE \E step, read : reqs' = (reqs \ {m}) \cup {[m EXCEPT !.step = step, !.seen = read]}
    <3>1. PICK step, read : reqs' = (reqs \ {m}) \cup {[m EXCEPT !.step = step, !.seen = read]}
      BY <2>2
    <3> QED
      BY <1>1, <3>1
  <2>3. CASE reqs' = (reqs \ {m}) \cup {[m EXCEPT !.live = FALSE]}
    BY <1>1, <2>3
  <2>4. CASE Authenticate(m)
    BY <2>1, <2>2, <2>4 DEF Authenticate, Handled, Moved
  <2> QED
    BY <1>5, <2>1, <2>2, <2>3, <2>4 DEF Promote, Refresh, HeartbeatCommit, EnrollLoad,
           EnrollHeld, EnrollMint, Lost, Timeout, Handled, Moved
<1>6. CASE SendResult \/ StoreEnrolled
  BY <1>2, <1>6 DEF SendResult, StoreEnrolled
<1>7. CASE PollStart
  BY <1>2, <1>3, <1>7 DEF PollStart
<1>8. CASE Restart
  BY <1>3, <1>8 DEF Restart
<1>9. CASE \/ \E op \in {"revoke", "allow"} : AdminLoad(op)
           \/ RevokeCommit \/ AllowCommit \/ Age \/ StoreRenewed \/ Switch
  BY <1>9 DEF AdminLoad, RevokeCommit, AllowCommit, Age, StoreRenewed, Switch
<1> QED
  BY <1>4, <1>5, <1>6, <1>7, <1>8, <1>9 DEF Next, Server, Agent

\* At most one request is the one the polling loop waits for, a promotion follows a
\* proof of the pending token, and a proved token is no longer pending.
LEMMA BaseStep ==
    ASSUME BaseInv, [Next]_vars
    PROVE  BaseInv'
<1> TypeOK /\ RowInv /\ ReqInv
  BY DEF BaseInv
<1>1. TypeOK' /\ IsFiniteSet(reqs')
  BY TypeStep, FiniteStep DEF ReqInv
<1> SUFFICES RowInv' /\ ReqInv'
  BY <1>1 DEF BaseInv
<1> NoToken \notin used /\ row \in Row /\ NewRow \in Row
  BY TokenAssumption DEF TypeOK, Row, NewRow, Maybe
<1> USE <1>1
<1>2. CASE UNCHANGED vars
  BY <1>2 DEF vars, agent, hist, RowInv, ReqInv
<1>3. ASSUME NEW m \in reqs, Authenticate(m) PROVE RowInv' /\ ReqInv'
  <2>1. RowInv'
    BY <1>3 DEF Authenticate, Matches, RowInv, ReqInv
  <2>2. CASE ~Matches(m.token) \/ row.revoked
    <3>1. reqs' = reqs \ {m} /\ UNCHANGED row /\ Unauthorized(m)
      BY <1>3, <2>2 DEF Authenticate
    <3>2. CASE m.live /\ m.kind = "heartbeat"
      BY <2>1, <3>1, <3>2 DEF Unauthorized, ReqInv
    <3>3. CASE ~(m.live /\ m.kind = "heartbeat")
      BY <2>1, <3>1, <3>3 DEF Unauthorized, agent, ReqInv
    <3> QED
      BY <3>2, <3>3
  <2>3. CASE ~(~Matches(m.token) \/ row.revoked)
    <3>1. m.token \in {row.current, row.pending} /\ m.token # NoToken /\ row.known
      BY <2>3 DEF Matches, Honoured
    <3>2. UNCHANGED <<row, agent>>
      BY <1>3, <2>3 DEF Authenticate
    <3>3. CASE m.token # row.current
      <4>1. reqs' = Moved(m, "promote", row)
        BY <1>3, <2>3, <3>3 DEF Authenticate
      <4>2. PICK n \in Req :
              /\ Moved(m, "promote", row) = (reqs \ {m}) \cup {n}
              /\ n.kind = m.kind /\ n.token = m.token /\ n.live = m.live
              /\ n.step = "promote" /\ n.seen = row
        BY MovedReq
      <4> QED
        BY <2>1, <3>1, <3>2, <3>3, <4>1, <4>2, <1>3 DEF Authenticate, agent, ReqInv
    <3>4. CASE m.token = row.current
      <4>1. reqs' \in {reqs \ {m}, Moved(m, "loaded", row)}
        BY <1>3, <2>3, <3>4 DEF Authenticate, Handled
      <4>2. PICK n \in Req :
              /\ Moved(m, "loaded", row) = (reqs \ {m}) \cup {n}
              /\ n.kind = m.kind /\ n.token = m.token /\ n.live = m.live
              /\ n.step = "loaded" /\ n.seen = row
        BY MovedReq
      <4> QED
        BY <2>1, <3>1, <3>2, <4>1, <4>2, <1>3 DEF Authenticate, agent, ReqInv
    <3> QED
      BY <3>3, <3>4
  <2> QED
    BY <2>1, <2>2, <2>3
<1>4. ASSUME NEW m \in reqs, Promote(m) PROVE RowInv' /\ ReqInv'
  <2>1. /\ m.token # NoToken /\ m.seen.pending = m.token
        /\ m.seen.current # m.token /\ m.seen.known
    BY <1>4 DEF Promote, ReqInv
  <2>2. row'.current = m.token /\ row'.pending = NoToken /\ row'.known
    BY <1>4, <2>1, PromoteRow DEF Promote
  <2>3. reqs' \in {reqs \ {m}, Moved(m, "refresh", NewRow)}
    BY <1>4 DEF Promote, Handled
  <2>4. PICK n \in Req :
              /\ Moved(m, "refresh", NewRow) = (reqs \ {m}) \cup {n}
              /\ n.kind = m.kind /\ n.token = m.token /\ n.live = m.live
              /\ n.step = "refresh" /\ n.seen = NewRow
    BY MovedReq
  <2> QED
    BY <1>4, <2>1, <2>2, <2>3, <2>4 DEF Promote, agent, RowInv, ReqInv
<1>5. ASSUME NEW m \in reqs, Refresh(m) PROVE RowInv' /\ ReqInv'
  <2>1. reqs' = Moved(m, "loaded", row)
    BY <1>5 DEF Refresh
  <2>2. PICK n \in Req :
              /\ Moved(m, "loaded", row) = (reqs \ {m}) \cup {n}
              /\ n.kind = m.kind /\ n.token = m.token /\ n.live = m.live
              /\ n.step = "loaded" /\ n.seen = row
    BY MovedReq
  <2> QED
    BY <1>5, <2>1, <2>2 DEF Refresh, agent, hist, RowInv, ReqInv
<1>6. ASSUME NEW m \in reqs, HeartbeatCommit(m) PROVE RowInv' /\ ReqInv'
  <2>1. CASE ~RotationDue(m.seen)
    BY <1>6, <2>1 DEF HeartbeatCommit, Fails, LoopOnly, hist, RowInv, ReqInv
  <2>2. CASE RotationDue(m.seen)
    <3>1. PICK new \in Fresh :
            /\ row' = Flush(m.seen, Offered(m.seen, new))
            /\ struck' = struck \ {new} /\ used' = used \ {new}
            /\ IF m.live THEN loop' = "renew" /\ got' = new /\ UNCHANGED <<mem, disk>>
                         ELSE UNCHANGED agent
      BY <1>6, <2>2 DEF HeartbeatCommit
    <3>2. m.seen.known
      BY <1>6 DEF HeartbeatCommit, ReqInv
    <3>3. row'.pending = new /\ row'.current = row.current /\ row'.known
      BY <3>1, <3>2, OfferRow
    <3> QED
      BY <1>6, <3>1, <3>3, FreshToken DEF HeartbeatCommit, agent, RowInv, ReqInv
  <2> QED
    BY <2>1, <2>2
<1>7. ASSUME NEW m \in reqs, EnrollLoad(m) PROVE RowInv' /\ ReqInv'
  <2>1. reqs' \in {reqs \ {m}, Moved(m, "loaded", row)}
    BY <1>7 DEF EnrollLoad
  <2>2. PICK n \in Req :
              /\ Moved(m, "loaded", row) = (reqs \ {m}) \cup {n}
              /\ n.kind = m.kind /\ n.token = m.token /\ n.live = m.live
              /\ n.step = "loaded" /\ n.seen = row
    BY MovedReq
  <2>3. RowInv' /\ (loop' = loop \/ (m.live /\ loop' = "sleep")) /\ mem' = mem
    BY <1>7 DEF EnrollLoad, Fails, LoopOnly, agent, hist, RowInv
  <2>4. m.kind = "enroll" /\ row' = row
    BY <1>7 DEF EnrollLoad
  <2>5. CASE row.known /\ row.revoked
    BY <1>7, <2>3, <2>4, <2>5 DEF EnrollLoad, ReqInv
  <2>6. CASE ~(row.known /\ row.revoked)
    BY <1>7, <2>2, <2>3, <2>4, <2>6 DEF EnrollLoad, agent, ReqInv
  <2> QED
    BY <2>5, <2>6
<1>8. ASSUME NEW m \in reqs, EnrollHeld(m) PROVE RowInv' /\ ReqInv'
  BY <1>8 DEF EnrollHeld, Fails, LoopOnly, hist, RowInv, ReqInv, Row
<1>9. ASSUME NEW m \in reqs, EnrollMint(m) PROVE RowInv' /\ ReqInv'
  <2>1. PICK new \in Fresh :
          /\ row' = Flush(m.seen, Enrolled(m.seen, new))
          /\ struck' = (struck \cup Honoured) \ {new} /\ used' = used \ {new}
          /\ IF m.live THEN loop' = "enrolled" /\ mem' = new /\ UNCHANGED <<disk, got>>
                       ELSE UNCHANGED agent
    BY <1>9 DEF EnrollMint
  <2>2. row'.pending \in {row.pending, NoToken} /\ row'.current = new /\ row'.known
    BY <2>1, MintRow
  <2> QED
    BY <1>9, <2>1, <2>2, FreshToken DEF EnrollMint, agent, RowInv, ReqInv
<1>10. ASSUME NEW m \in reqs, Lost(m) \/ Timeout(m) PROVE RowInv' /\ ReqInv'
  <2>1. RowInv'
    BY <1>10 DEF Lost, Timeout, hist, RowInv
  <2>2. /\ loop' = (IF m.live /\ m.kind # "result" THEN "sleep" ELSE loop)
        /\ mem' = mem /\ row' = row
    BY <1>10 DEF Lost, Timeout, Fails, LoopOnly
  <2>3. CASE Lost(m)
    <3>1. reqs' = reqs \ {m}
      BY <2>3 DEF Lost
    <3> QED
      BY <2>1, <2>2, <3>1 DEF ReqInv
  <2>4. CASE Timeout(m)
    <3>1. PICK n : /\ reqs' = (reqs \ {m}) \cup {n} /\ n.kind = m.kind
                   /\ n.token = m.token /\ ~n.live /\ n.step = m.step /\ n.seen = m.seen
      BY <2>4, LeftReq DEF Timeout
    <3> QED
      BY <2>1, <2>2, <3>1 DEF ReqInv
  <2> QED
    BY <1>10, <2>3, <2>4
<1>11. ASSUME NEW op \in {"revoke", "allow"}, AdminLoad(op) PROVE RowInv' /\ ReqInv'
  BY <1>11 DEF AdminLoad, agent, hist, RowInv, ReqInv
<1>12. CASE RevokeCommit \/ AllowCommit
  <2>1. adm.seen.known
    BY <1>12 DEF RevokeCommit, AllowCommit, RowInv
  <2>2. /\ row'.pending \in {row.pending, NoToken}
        /\ row'.current \in {row.current, NoToken} /\ row'.known
    BY <1>12, <2>1, AdminRow DEF RevokeCommit, AllowCommit
  <2> QED
    BY <1>12, <2>2 DEF RevokeCommit, AllowCommit, Idle, agent, RowInv, ReqInv
<1>13. CASE Age
  BY <1>13 DEF Age, agent, hist, RowInv, ReqInv, Row
<1>14. CASE PollStart
  <2>1. PICK kind \in {"enroll", "heartbeat"} :
          /\ kind = IF mem = NoToken THEN "enroll" ELSE "heartbeat"
          /\ loop' = kind
          /\ reqs' = {[m EXCEPT !.recent = FALSE] : m \in reqs \cup {Request(kind)}}
    BY <1>14 DEF PollStart
  <2> DEFINE k == Request(kind)
  <2>2. /\ k \in Req /\ k.kind = kind /\ k.live /\ k.step = "sent"
        /\ k.token = IF kind = "enroll" THEN NoToken ELSE mem
    BY RequestType
  <2> HIDE DEF k
  <2>3. ASSUME NEW r \in reqs'
        PROVE  \E m \in reqs \cup {k} :
                 /\ r = [m EXCEPT !.recent = FALSE] /\ r.kind = m.kind
                 /\ r.token = m.token /\ r.step = m.step /\ r.seen = m.seen
                 /\ r.live = m.live
    <3> DEFINE S == reqs \cup {k}
    <3>1. S \in SUBSET Req /\ r \in {[m EXCEPT !.recent = FALSE] : m \in S}
      BY <2>1, <2>2 DEF TypeOK, k
    <3> HIDE DEF S
    <3>2. \E m \in S : /\ r = [m EXCEPT !.recent = FALSE]
                       /\ r.kind = m.kind /\ r.token = m.token /\ r.live = m.live
                       /\ ~r.recent /\ r.step = m.step /\ r.seen = m.seen
      BY <3>1, OlderReq
    <3> QED
      BY <3>2 DEF S
  <2>4. \A m \in reqs : m.live => m.kind = "result"
    BY <1>14 DEF PollStart, ReqInv, TypeOK, Req
  <2>5. RowInv' /\ loop' # "enrolled"
    BY <1>14, <2>1 DEF PollStart, hist, RowInv
  <2>6. \A r \in reqs' :
          /\ r.token = NoToken <=> r.kind = "enroll"
          /\ r.step = "promote" => /\ r.kind # "enroll"
                                   /\ r.seen.pending = r.token
                                   /\ r.seen.current # r.token
          /\ r.kind # "enroll" /\ r.step # "sent" =>
               row.known /\ (r.step # "refresh" => r.seen.known)
          /\ r.live /\ r.kind # "result" => r = [k EXCEPT !.recent = FALSE] /\ kind = r.kind
    BY <2>1, <2>2, <2>3, <2>4 DEF ReqInv
  <2> QED
    BY <1>14, <2>1, <2>5, <2>6 DEF PollStart, ReqInv
<1>15. CASE SendResult
  BY <1>15, RequestType DEF SendResult, agent, hist, RowInv, ReqInv
<1>16. CASE StoreEnrolled
  <2>1. \A m \in reqs : m.live => m.kind = "result"
    BY <1>16 DEF StoreEnrolled, ReqInv, TypeOK, Req
  <2> QED
    BY <1>16, <2>1, RequestType DEF StoreEnrolled, hist, RowInv, ReqInv
<1>17. CASE StoreRenewed \/ Switch
  <2>1. \A m \in reqs : m.live => m.kind = "result"
    BY <1>17 DEF StoreRenewed, Switch, ReqInv, TypeOK, Req
  <2> QED
    BY <1>17, <2>1 DEF StoreRenewed, Switch, hist, RowInv, ReqInv
<1>18. CASE Restart
  <2>1. \A r \in reqs' : \E m \in reqs :
          /\ r = [m EXCEPT !.live = FALSE, !.recent = FALSE]
          /\ r.kind = m.kind /\ r.token = m.token /\ ~r.live
          /\ ~r.recent /\ r.step = m.step /\ r.seen = m.seen
    <3>1. /\ reqs' = {[m EXCEPT !.live = FALSE, !.recent = FALSE] : m \in reqs}
          /\ reqs \in SUBSET Req
      BY <1>18 DEF Restart, TypeOK
    <3> QED
      BY <3>1, OrphanReq
  <2>2. RowInv' /\ row' = row /\ loop' = "start"
    BY <1>18 DEF Restart, hist, RowInv
  <2>3. \A r \in reqs' : ~r.live /\
          \E m \in reqs : /\ r.kind = m.kind /\ r.token = m.token
                          /\ r.step = m.step /\ r.seen = m.seen
    BY <2>1
  <2> QED
    BY <1>1, <2>2, <2>3 DEF ReqInv
<1> QED
  BY <1>2, <1>3, <1>4, <1>5, <1>6, <1>7, <1>8, <1>9, <1>10, <1>11, <1>12, <1>13,
     <1>14, <1>15, <1>16, <1>17, <1>18 DEF Next, Server, Agent

-----------------------------------------------------------------------------
\* What holds of the requests under way still holds of requests with the same token,
\* at the same step, when the row and the ended tokens have not changed.
LEMMA SameRequests ==
    ASSUME IInv, UNCHANGED <<row, struck>>, Held' \subseteq Held,
           \A r \in reqs' : \E m \in reqs : /\ r.kind = m.kind /\ r.token = m.token
                                            /\ r.step = m.step /\ r.seen = m.seen
    PROVE  HonourInv' /\ QuietInv' /\ EnrollInv'
<1>1. HonourInv'
  <2>1. ASSUME NEW r \in reqs'
        PROVE  /\ r.token = row.pending /\ r.token # NoToken
                    => Held' \subseteq struck' \cup {r.token}
               /\ r.step = "promote" \/ r.kind = "heartbeat"
                    => Held' \subseteq struck' \cup {r.token}
               /\ r.kind = "heartbeat" /\ r.step \in {"refresh", "loaded"}
                    => /\ Held' \subseteq struck' \cup {row.current}
                       /\ r.token # row.pending
    <3>1. PICK m \in reqs : r.kind = m.kind /\ r.token = m.token /\ r.step = m.step
      OBVIOUS
    <3> QED
      BY <3>1 DEF IInv, HonourInv, OnlyHolds
  <2>2. Held' \subseteq struck' \cup Honoured'
    BY DEF IInv, HonourInv, Honoured
  <2> QED
    BY <2>1, <2>2 DEF HonourInv, OnlyHolds
<1>2. QuietInv'
  BY DEF IInv, QuietInv
<1>3. EnrollInv'
  <2>1. \A r \in reqs' : \E m \in reqs : /\ r.kind = m.kind
                                         /\ r.step = m.step /\ r.seen = m.seen
    OBVIOUS
  <2> QED
    BY <2>1 DEF IInv, EnrollInv
<1> QED
  BY <1>1, <1>2, <1>3

\* A request the server is done with leaves the loop asleep, if the loop waited for it.
LEMMA FailsStep ==
    ASSUME IInv, NEW m \in reqs, Fails(m),
           UNCHANGED <<row, struck>>, reqs' \in SUBSET reqs, m \notin reqs'
    PROVE  PollInv' /\ CopyInv' /\ HonourInv' /\ QuietInv' /\ EnrollInv'
<1> USE DEF IInv, BaseInv, ReqInv
<1>1. /\ mem' = mem /\ disk' = disk /\ got' = got
      /\ loop' = IF m.live /\ m.kind # "result" THEN "sleep" ELSE loop
  BY DEF Fails, LoopOnly
<1>2. PollInv'
  <2>1. CASE m.live /\ m.kind # "result"
    <3>1. loop = m.kind /\ loop' = "sleep"
      BY <1>1, <2>1
    <3>2. \A r \in reqs' : r.kind = "result" /\ ~r.recent
      BY <2>1, <3>1 DEF PollInv, TypeOK, Req
    <3> QED
      BY <3>1, <3>2 DEF PollInv
  <2>2. CASE ~(m.live /\ m.kind # "result")
    BY <1>1, <2>2 DEF PollInv
  <2> QED
    BY <2>1, <2>2
<1>3. CopyInv'
  BY <1>1 DEF CopyInv, TypeOK, Req
<1>4. HonourInv' /\ QuietInv' /\ EnrollInv'
  BY <1>1 DEF HonourInv, QuietInv, EnrollInv, OnlyHolds, Held, Honoured
<1> QED
  BY <1>2, <1>3, <1>4

\* The server: the requests of the poste.
LEMMA AuthenticateStep ==
    ASSUME IInv, NEW m \in reqs, Authenticate(m)
    PROVE  PollInv' /\ CopyInv' /\ HonourInv' /\ QuietInv' /\ EnrollInv'
<1> TypeOK /\ RowInv /\ ReqInv /\ row \in Row
  BY DEF IInv, BaseInv, TypeOK
<1>1. UNCHANGED <<row, struck>> /\ m.kind # "enroll" /\ m.token # NoToken
  BY DEF Authenticate, ReqInv
<1>2. CASE ~Matches(m.token) \/ row.revoked
  <2>1. reqs' = reqs \ {m} /\ Unauthorized(m)
    BY <1>2 DEF Authenticate
  <2>2. CASE m.live /\ m.kind = "heartbeat"
    <3>1. /\ loop = "heartbeat" /\ loop' = "sleep" /\ mem' = NoToken
          /\ disk' \in {disk, NoToken} /\ got' = got
      BY <2>1, <2>2 DEF Unauthorized, ReqInv
    <3>2. \A r \in reqs' : r.kind = "result" /\ ~r.recent
      BY <2>1, <2>2, <3>1 DEF IInv, PollInv, TypeOK, Req
    <3>3. PollInv' /\ CopyInv'
      BY <3>1, <3>2 DEF IInv, PollInv, CopyInv
    <3>4. HonourInv' /\ QuietInv' /\ EnrollInv'
      BY <1>1, <2>1, <3>1 DEF IInv, HonourInv, QuietInv, EnrollInv, OnlyHolds, Held, Honoured
    <3> QED
      BY <3>3, <3>4
  <2>3. CASE ~(m.live /\ m.kind = "heartbeat")
    BY <1>1, <2>1, <2>3 DEF Unauthorized, agent, IInv, PollInv, CopyInv, HonourInv,
                            QuietInv, EnrollInv, OnlyHolds, Held, Honoured
  <2> QED
    BY <2>2, <2>3
<1>3. CASE ~(~Matches(m.token) \/ row.revoked)
  <2>1. UNCHANGED agent /\ m.token \in {row.current, row.pending}
    BY <1>3 DEF Authenticate, Matches, Honoured
  <2>2. CopyInv'
    BY <1>1, <2>1 DEF agent, IInv, CopyInv
  <2>3. CASE m.token # row.current
    <3>1. reqs' = Moved(m, "promote", row) /\ m.token = row.pending
      BY <1>3, <2>1, <2>3 DEF Authenticate
    <3>2. PICK n \in Req :
              /\ Moved(m, "promote", row) = (reqs \ {m}) \cup {n}
              /\ n.kind = m.kind /\ n.token = m.token /\ n.live = m.live
              /\ n.recent = m.recent /\ n.step = "promote" /\ n.seen = row
      BY MovedReq
    <3>3. PollInv'
      BY <1>1, <2>1, <3>1, <3>2 DEF agent, IInv, PollInv
    <3>4. HonourInv'
      BY <1>1, <2>1, <3>1, <3>2 DEF agent, IInv, HonourInv, OnlyHolds, Held, Honoured
    <3>5. ASSUME NEW h \in reqs, h.kind = "heartbeat", h.step = "loaded" PROVE FALSE
      BY <3>1, <3>5 DEF IInv, PollInv, HonourInv
    <3>6. QuietInv' /\ EnrollInv'
      BY <1>1, <2>3, <3>1, <3>2, <3>5 DEF IInv, QuietInv, EnrollInv
    <3> QED
      BY <2>2, <3>3, <3>4, <3>6
  <2>4. CASE m.token = row.current
    <3>1. reqs' \in {reqs \ {m}, Moved(m, "loaded", row)}
      BY <1>3, <2>4 DEF Authenticate, Handled
    <3>2. PICK n \in Req :
              /\ Moved(m, "loaded", row) = (reqs \ {m}) \cup {n}
              /\ n.kind = m.kind /\ n.token = m.token /\ n.live = m.live
              /\ n.recent = m.recent /\ n.step = "loaded" /\ n.seen = row
      BY MovedReq
    <3>3. PollInv'
      BY <1>1, <2>1, <3>1, <3>2 DEF agent, IInv, PollInv
    <3>4. HonourInv'
      BY <1>1, <2>1, <2>4, <3>1, <3>2
         DEF agent, IInv, RowInv, HonourInv, OnlyHolds, Held, Honoured
    <3>5. ASSUME m.kind = "heartbeat", NEW r \in reqs, r.step = "promote"
          PROVE  ~RotationDue(row)
      <4>1. r.token = row.current
        BY <2>4, <3>5 DEF IInv, PollInv
      <4> QED
        BY <3>5, <4>1 DEF IInv, QuietInv, RotationDue
    <3>6. QuietInv' /\ EnrollInv'
      BY <1>1, <3>1, <3>2, <3>5 DEF IInv, QuietInv, EnrollInv
    <3> QED
      BY <2>2, <3>3, <3>4, <3>6
  <2> QED
    BY <2>3, <2>4
<1> QED
  BY <1>2, <1>3

\* A promotion retires the former token: the agent is past it.
LEMMA PromoteStep ==
    ASSUME IInv, NEW m \in reqs, Promote(m)
    PROVE  PollInv' /\ CopyInv' /\ HonourInv' /\ QuietInv' /\ EnrollInv'
<1> TypeOK /\ ReqInv /\ NewRow \in Row
  BY DEF IInv, BaseInv, Row, NewRow, Maybe
<1>1. /\ m.token # NoToken /\ m.seen.pending = m.token /\ m.kind # "enroll"
      /\ m.seen.current # m.token /\ m.step = "promote"
      /\ OnlyHolds(m.token) /\ (m.seen.aged \/ ~row.aged)
  BY DEF Promote, IInv, ReqInv, HonourInv, QuietInv
<1>2. row'.current = m.token /\ row'.pending = NoToken /\ ~row'.aged
  BY <1>1, PromoteRow DEF Promote
<1>3. UNCHANGED <<agent, struck>> /\ reqs' \in {reqs \ {m}, Moved(m, "refresh", NewRow)}
  BY DEF Promote, Handled
<1>4. PICK n \in Req :
          /\ Moved(m, "refresh", NewRow) = (reqs \ {m}) \cup {n}
          /\ n.kind = m.kind /\ n.token = m.token /\ n.live = m.live
          /\ n.recent = m.recent /\ n.step = "refresh" /\ n.seen = NewRow
  BY MovedReq
<1>5. PollInv' /\ CopyInv'
  BY <1>2, <1>3, <1>4 DEF agent, IInv, PollInv, CopyInv
<1>6. HonourInv'
  BY <1>1, <1>2, <1>3, <1>4 DEF agent, IInv, ReqInv, HonourInv, OnlyHolds, Held, Honoured
<1>7. QuietInv'
  BY <1>2, <1>3, <1>4 DEF IInv, QuietInv
<1>8. ASSUME NEW e \in reqs, e.kind = "enroll" PROVE FALSE
  BY <1>1, <1>8 DEF IInv, PollInv, ReqInv
<1> QED
  BY <1>1, <1>3, <1>4, <1>5, <1>6, <1>7, <1>8 DEF EnrollInv

\* A heartbeat promoted its token: it goes on with the row as it is by now.
LEMMA RefreshStep ==
    ASSUME IInv, NEW m \in reqs, Refresh(m)
    PROVE  PollInv' /\ CopyInv' /\ HonourInv' /\ QuietInv' /\ EnrollInv'
<1> TypeOK /\ ReqInv /\ row \in Row
  BY DEF IInv, BaseInv, TypeOK
<1>1. UNCHANGED <<row, agent, struck>> /\ reqs' = Moved(m, "loaded", row)
  BY DEF Refresh, hist
<1>2. PICK n \in Req :
          /\ Moved(m, "loaded", row) = (reqs \ {m}) \cup {n}
          /\ n.kind = m.kind /\ n.token = m.token /\ n.live = m.live
          /\ n.recent = m.recent /\ n.step = "loaded" /\ n.seen = row
  BY MovedReq
<1>3. PollInv' /\ CopyInv'
  BY <1>1, <1>2 DEF agent, IInv, PollInv, CopyInv
<1>4. HonourInv'
  BY <1>1, <1>2 DEF Refresh, agent, IInv, HonourInv, OnlyHolds, Held, Honoured
<1>5. m.kind = "heartbeat" => ~RotationDue(row)
  BY DEF Refresh, IInv, QuietInv, RotationDue
<1>6. QuietInv'
  BY <1>1, <1>2, <1>5 DEF IInv, QuietInv
<1> QED
  BY <1>1, <1>2, <1>3, <1>4, <1>6 DEF IInv, EnrollInv

\* A heartbeat ends: the token on offer, if there was one, is replaced by another,
\* and the agent never stored the former.
LEMMA HeartbeatStep ==
    ASSUME IInv, NEW m \in reqs, HeartbeatCommit(m)
    PROVE  PollInv' /\ CopyInv' /\ HonourInv' /\ QuietInv' /\ EnrollInv'
<1> TypeOK /\ RowInv /\ ReqInv
  BY DEF IInv, BaseInv
<1>1. reqs' = reqs \ {m} /\ m.kind = "heartbeat" /\ m.step = "loaded"
  BY DEF HeartbeatCommit
<1>2. CASE ~RotationDue(m.seen)
  BY <1>1, <1>2, FailsStep DEF HeartbeatCommit, hist
<1>3. CASE RotationDue(m.seen)
  <2>1. PICK new \in Fresh :
          /\ row' = Flush(m.seen, Offered(m.seen, new))
          /\ struck' = struck \ {new} /\ used' = used \ {new}
          /\ IF m.live THEN loop' = "renew" /\ got' = new /\ UNCHANGED <<mem, disk>>
                       ELSE UNCHANGED agent
    BY <1>3 DEF HeartbeatCommit
  <2>2. row'.pending = new /\ row'.current = row.current /\ row'.aged = row.aged
    BY <2>1, OfferRow
  <2>3. /\ new # NoToken /\ new \notin {row.current, row.pending, mem, disk, got}
        /\ \A r \in reqs : r.token # new
    BY <2>1, FreshToken
  <2>4. /\ \A r \in reqs' : r.kind = "result" /\ r.token = m.token
        /\ loop = "start" \/ (loop \in {"sleep", "heartbeat"} /\ mem = m.token)
        /\ OnlyHolds(m.token) /\ OnlyHolds(row.current) /\ m.token # row.pending
        /\ m.token # NoToken
    BY <1>1 DEF IInv, PollInv, HonourInv, ReqInv
  <2>5. ASSUME NEW r \in reqs', r.step = "promote" PROVE FALSE
    BY <1>1, <1>3, <2>5 DEF IInv, QuietInv
  <2>6. m.live => loop = "heartbeat"
    BY <1>1 DEF ReqInv
  <2>7. got = NoToken
    BY <2>4 DEF IInv, CopyInv
  <2>8. PollInv'
    <3>1. \A r \in reqs' : r.recent => loop = "sleep" /\ r.token = mem
      BY <1>1 DEF IInv, PollInv
    <3> QED
      BY <2>1, <2>4, <2>6, <3>1 DEF agent, PollInv
  <2>9. CopyInv'
    BY <2>1, <2>2, <2>3, <2>4, <2>6, <2>7 DEF agent, IInv, CopyInv
  <2>10. Held' \subseteq struck' \cup {row.current, new}
    BY <2>1, <2>3, <2>4, <2>7 DEF agent, OnlyHolds, Held
  <2>11. HonourInv'
    BY <2>2, <2>3, <2>4, <2>5, <2>10, <1>1 DEF HonourInv, Honoured, Held
  <2>12. QuietInv' /\ EnrollInv'
    BY <1>1, <2>4, <2>5 DEF QuietInv, EnrollInv
  <2> QED
    BY <2>8, <2>9, <2>11, <2>12
<1> QED
  BY <1>2, <1>3

\* An enrollment is refused, loads the row, or is held for an administrator.
LEMMA EnrollStep ==
    ASSUME IInv, NEW m \in reqs, EnrollLoad(m) \/ EnrollHeld(m)
    PROVE  PollInv' /\ CopyInv' /\ HonourInv' /\ QuietInv' /\ EnrollInv'
<1> TypeOK /\ RowInv /\ ReqInv /\ row \in Row
  BY DEF IInv, BaseInv, TypeOK
<1>1. UNCHANGED struck /\ m.kind = "enroll"
  BY DEF EnrollLoad, EnrollHeld, hist
<1>2. CASE EnrollHeld(m)
  <2>1. reqs' = reqs \ {m} /\ Fails(m)
    BY <1>2 DEF EnrollHeld
  <2>2. /\ row'.pending = row.pending /\ row'.current = row.current
        /\ row'.aged = row.aged
    BY <1>2 DEF EnrollHeld, Row
  <2>3. /\ mem' = mem /\ disk' = disk /\ got' = got
        /\ loop' = IF m.live THEN "sleep" ELSE loop
    BY <1>1, <2>1 DEF Fails, LoopOnly
  <2>4. \A r \in reqs' : r.kind = "result"
    BY <1>1, <2>1 DEF IInv, PollInv
  <2>5. m.live => loop = "enroll"
    BY <1>1 DEF ReqInv
  <2>6. PollInv'
    BY <2>1, <2>3, <2>4, <2>5 DEF IInv, PollInv
  <2>7. CopyInv'
    BY <1>1, <2>2, <2>3, <2>5 DEF IInv, CopyInv
  <2>8. HonourInv' /\ QuietInv' /\ EnrollInv'
    BY <1>1, <2>1, <2>2, <2>3, <2>4
       DEF IInv, HonourInv, QuietInv, EnrollInv, OnlyHolds, Held, Honoured
  <2> QED
    BY <2>6, <2>7, <2>8
<1>3. CASE EnrollLoad(m) /\ row.known /\ row.revoked
  <2>1. reqs' = reqs \ {m} /\ Fails(m) /\ UNCHANGED row
    BY <1>3 DEF EnrollLoad
  <2> QED
    BY <1>1, <2>1, FailsStep
<1>4. CASE EnrollLoad(m) /\ ~(row.known /\ row.revoked)
  <2>1. reqs' = Moved(m, "loaded", row) /\ UNCHANGED <<row, agent>>
    BY <1>4 DEF EnrollLoad
  <2>2. PICK n \in Req :
          /\ Moved(m, "loaded", row) = (reqs \ {m}) \cup {n}
          /\ n.kind = m.kind /\ n.token = m.token /\ n.live = m.live
          /\ n.recent = m.recent /\ n.step = "loaded" /\ n.seen = row
    BY MovedReq
  <2>3. PollInv' /\ CopyInv'
    BY <1>1, <2>1, <2>2 DEF agent, IInv, PollInv, CopyInv
  <2>4. HonourInv' /\ QuietInv' /\ EnrollInv'
    BY <1>1, <2>1, <2>2
       DEF agent, IInv, HonourInv, QuietInv, EnrollInv, OnlyHolds, Held, Honoured
  <2> QED
    BY <2>3, <2>4
<1> QED
  BY <1>2, <1>3, <1>4

\* An enrollment ends what was honoured: whatever the agent holds is ended too.
LEMMA MintStep ==
    ASSUME IInv, NEW m \in reqs, EnrollMint(m)
    PROVE  PollInv' /\ CopyInv' /\ HonourInv' /\ QuietInv' /\ EnrollInv'
<1> TypeOK /\ RowInv /\ ReqInv
  BY DEF IInv, BaseInv
<1>1. PICK new \in Fresh :
        /\ row' = Flush(m.seen, Enrolled(m.seen, new))
        /\ struck' = (struck \cup Honoured) \ {new} /\ used' = used \ {new}
        /\ IF m.live THEN loop' = "enrolled" /\ mem' = new /\ UNCHANGED <<disk, got>>
                     ELSE UNCHANGED agent
  BY DEF EnrollMint
<1>2. reqs' = reqs \ {m} /\ m.kind = "enroll" /\ m.token = NoToken
  BY DEF EnrollMint, ReqInv
<1>3. reqs' = {}
  BY <1>2 DEF IInv, PollInv, ReqInv
<1>4. /\ new # NoToken /\ new \notin {row.current, row.pending, mem, disk, got}
  BY <1>1, FreshToken
<1>5. row'.current = new
  BY <1>1, MintRow
<1>6. /\ loop \notin {"renew", "switch"} /\ got = NoToken
      /\ mem # NoToken => disk \in {mem, NoToken} \cup struck
      /\ m.live => loop = "enroll"
      /\ loop = "start" \/ mem = NoToken
  BY <1>2 DEF IInv, PollInv, CopyInv, ReqInv
<1>7. Held' \subseteq struck' \cup {new}
  BY <1>1, <1>4, <1>6 DEF agent, IInv, HonourInv, Held
<1>8. m.live => loop' = "enrolled" /\ mem' = new /\ disk' = disk /\ got' = got
  BY <1>1
<1>9. ~m.live => UNCHANGED agent
  BY <1>1
<1>10. CopyInv'
  <2>1. CASE m.live
    <3>1. disk = NoToken \/ disk \in struck'
      BY <1>1, <1>4 DEF IInv, HonourInv, Held
    <3> QED
      BY <1>6, <1>8, <2>1, <3>1 DEF CopyInv
  <2>2. CASE ~m.live
    BY <1>1, <1>4, <1>6, <1>9, <2>2 DEF agent, CopyInv
  <2> QED
    BY <2>1, <2>2
<1>11. PollInv' /\ QuietInv' /\ EnrollInv'
  BY <1>3 DEF PollInv, QuietInv, EnrollInv
<1>12. HonourInv'
  BY <1>3, <1>4, <1>5, <1>7 DEF HonourInv, Honoured
<1> QED
  BY <1>10, <1>11, <1>12

\* A request is lost, or its sender gives up on it.
LEMMA LeaveStep ==
    ASSUME IInv, NEW m \in reqs, Lost(m) \/ Timeout(m)
    PROVE  PollInv' /\ CopyInv' /\ HonourInv' /\ QuietInv' /\ EnrollInv'
<1> TypeOK /\ RowInv /\ ReqInv
  BY DEF IInv, BaseInv
<1>1. UNCHANGED <<row, struck>> /\ Fails(m)
  BY DEF Lost, Timeout, hist
<1>2. CASE Lost(m)
  BY <1>1, <1>2, FailsStep DEF Lost
<1>3. CASE Timeout(m)
  <2>1. PICK n \in Req :
          /\ n = [m EXCEPT !.live = FALSE]
          /\ n.kind = m.kind /\ n.token = m.token /\ ~n.live
          /\ n.recent = m.recent /\ n.step = m.step /\ n.seen = m.seen
    BY LeftReq
  <2>2. reqs' = (reqs \ {m}) \cup {n}
    BY <1>3, <2>1 DEF Timeout
  <2>3. /\ mem' = mem /\ disk' = disk /\ got' = got
        /\ loop' = IF m.kind # "result" THEN "sleep" ELSE loop
    BY <1>1, <1>3 DEF Fails, LoopOnly, Timeout
  <2>4. m.kind # "result" => loop = m.kind
    BY <1>3 DEF Timeout, ReqInv
  <2>5. PollInv'
    <3>1. CASE m.kind # "result"
      <4>1. loop \notin {"sleep", "enrolled", "start"} /\ loop' = "sleep"
        BY <2>3, <2>4, <3>1 DEF TypeOK, Req
      <4>2. mem = m.token
        BY <3>1, <4>1 DEF IInv, PollInv
      <4>3. \A r \in reqs' : r = n \/ r.kind = "result"
        BY <2>2, <3>1 DEF IInv, PollInv
      <4>4. \A r \in reqs' : r.token = m.token /\ ~r.recent
        BY <2>1, <2>2, <3>1, <4>1 DEF IInv, PollInv
      <4> QED
        BY <2>1, <2>3, <4>1, <4>2, <4>3, <4>4 DEF PollInv
    <3>2. CASE m.kind = "result"
      <4>1. mem' = mem /\ loop' = loop
        BY <2>3, <3>2
      <4>2. \A r \in reqs' : r \in reqs \/ r = n
        BY <2>2
      <4>3. \A k \in reqs' : k.kind # "result" => k \in reqs
        BY <2>1, <3>2, <4>2
      <4>4. ASSUME NEW r \in reqs'
            PROVE  \E q \in reqs : /\ r.kind = q.kind /\ r.token = q.token
                                   /\ r.recent = q.recent /\ (r = q \/ r.kind = "result")
        BY <2>1, <3>2, <4>2
      <4> QED
        BY <4>1, <4>3, <4>4 DEF IInv, PollInv
    <3> QED
      BY <3>1, <3>2
  <2>6. CopyInv'
    BY <1>1, <2>3, <2>4 DEF IInv, CopyInv, TypeOK, Req
  <2>7. Held' \subseteq Held
    BY <2>3 DEF Held
  <2>8. \A r \in reqs' : \E q \in reqs : /\ r.kind = q.kind /\ r.token = q.token
                                         /\ r.step = q.step /\ r.seen = q.seen
    BY <2>1, <2>2
  <2>9. HonourInv' /\ QuietInv' /\ EnrollInv'
    BY <1>1, <2>7, <2>8, SameRequests
  <2> QED
    BY <2>5, <2>6, <2>9
<1> QED
  BY <1>2, <1>3

-----------------------------------------------------------------------------
\* The administrator clears tokens and gives none; ageing changes no token.
LEMMA AdminStep ==
    ASSUME IInv, (\E op \in {"revoke", "allow"} : AdminLoad(op))
                 \/ RevokeCommit \/ AllowCommit \/ Age
    PROVE  PollInv' /\ CopyInv' /\ HonourInv' /\ QuietInv' /\ EnrollInv'
<1> TypeOK /\ RowInv /\ ReqInv
  BY DEF IInv, BaseInv
<1>1. CASE \E op \in {"revoke", "allow"} : AdminLoad(op)
  <2>1. UNCHANGED <<row, reqs, agent, struck>>
    BY <1>1 DEF AdminLoad, hist
  <2> QED
    BY <2>1 DEF agent, IInv, PollInv, CopyInv, HonourInv, QuietInv, EnrollInv,
                OnlyHolds, Held, Honoured
<1>2. CASE Age
  <2>1. /\ UNCHANGED <<agent, struck>> /\ reqs' = {} /\ reqs = {}
        /\ row'.pending = row.pending /\ row'.current = row.current
    BY <1>2 DEF Age, hist, TypeOK, Row
  <2>2. PollInv' /\ QuietInv' /\ EnrollInv'
    BY <2>1 DEF PollInv, QuietInv, EnrollInv
  <2> QED
    BY <2>1, <2>2 DEF agent, IInv, CopyInv, HonourInv, Held, Honoured
<1>3. CASE RevokeCommit \/ AllowCommit
  <2>1. /\ UNCHANGED <<reqs, agent>> /\ struck \subseteq struck'
        /\ row'.aged = row.aged
        /\ row'.pending \in {row.pending, NoToken}
        /\ row'.current \in {row.current, NoToken}
    BY <1>3, AdminRow DEF RevokeCommit, AllowCommit
  <2>2. /\ row.pending \in struck' \cup {NoToken}
        /\ row'.current = row.current \/ row.current \in struck' \cup {NoToken}
    <3>1. CASE RevokeCommit
      BY <3>1, AdminRow DEF RevokeCommit
    <3>2. CASE AllowCommit
      BY <3>2 DEF AllowCommit, Honoured
    <3> QED
      BY <1>3, <3>1, <3>2
  <2>3. PollInv' /\ CopyInv'
    BY <2>1 DEF agent, IInv, PollInv, CopyInv
  <2>4. \A t : OnlyHolds(t) => OnlyHolds(t)'
    BY <2>1 DEF agent, OnlyHolds, Held
  <2>5. Held' \subseteq struck' \cup Honoured'
    BY <2>1, <2>2 DEF agent, IInv, HonourInv, Held, Honoured
  <2>6. ASSUME NEW m \in reqs,
               m.kind = "heartbeat" /\ m.step \in {"refresh", "loaded"}
        PROVE  OnlyHolds(row.current)' /\ m.token # row'.pending
    <3>1. OnlyHolds(row.current) /\ m.token # row.pending /\ m.token # NoToken
      BY <2>6 DEF IInv, HonourInv, ReqInv
    <3>2. Held' \subseteq struck' \cup {row'.current}
      BY <2>1, <2>2, <3>1 DEF agent, OnlyHolds, Held
    <3> QED
      BY <2>1, <3>1, <3>2 DEF OnlyHolds, Held
  <2>7. HonourInv'
    BY <2>1, <2>4, <2>5, <2>6 DEF IInv, HonourInv
  <2>8. QuietInv'
    BY <2>1 DEF IInv, QuietInv, ReqInv
  <2>9. EnrollInv'
    BY <2>1 DEF IInv, EnrollInv
  <2> QED
    BY <2>3, <2>7, <2>8, <2>9
<1> QED
  BY <1>1, <1>2, <1>3

\* The agent sends a result: with its token, and not while it changes it for the
\* token on offer.
LEMMA ResultStep ==
    ASSUME IInv, SendResult
    PROVE  PollInv' /\ CopyInv' /\ HonourInv' /\ QuietInv' /\ EnrollInv'
<1> TypeOK /\ ReqInv
  BY DEF IInv, BaseInv
<1> DEFINE k == Request("result")
<1>1. /\ UNCHANGED <<row, agent, struck>> /\ reqs' = reqs \cup {k}
      /\ loop # "start" /\ mem # NoToken
  BY DEF SendResult, hist
<1>2. /\ k.kind = "result" /\ k.step = "sent" /\ k.token = mem
      /\ k.recent = (loop = "sleep")
  BY RequestType
<1> HIDE DEF k
<1>3. CopyInv' /\ QuietInv' /\ EnrollInv'
  BY <1>1, <1>2 DEF agent, IInv, CopyInv, QuietInv, EnrollInv
<1>4. PollInv'
  BY <1>1, <1>2 DEF agent, IInv, PollInv
<1>5. mem = row.pending => OnlyHolds(mem)
  BY <1>1 DEF IInv, CopyInv, OnlyHolds, Held
<1>6. HonourInv'
  BY <1>1, <1>2, <1>5 DEF agent, IInv, HonourInv, OnlyHolds, Held, Honoured
<1> QED
  BY <1>3, <1>4, <1>6

\* The agent stores a token, uses it, or loses its memory: it holds no new one.
LEMMA StoreStep ==
    ASSUME IInv, StoreEnrolled \/ StoreRenewed \/ Switch \/ Restart
    PROVE  PollInv' /\ CopyInv' /\ HonourInv' /\ QuietInv' /\ EnrollInv'
<1> TypeOK /\ ReqInv
  BY DEF IInv, BaseInv
<1>1. UNCHANGED <<row, struck>> /\ Held' \subseteq Held
  <2>1. UNCHANGED <<row, struck>>
    BY DEF StoreEnrolled, StoreRenewed, Switch, Restart, hist
  <2>2. {mem, disk, got}' \subseteq {mem, disk, got} \cup {NoToken}
    BY DEF StoreEnrolled, StoreRenewed, Switch, Restart
  <2> QED
    BY <2>1, <2>2 DEF Held
<1>2. CopyInv'
  BY <1>1 DEF StoreEnrolled, StoreRenewed, Switch, Restart, IInv, CopyInv, ReqInv
<1>3. \A t : OnlyHolds(t) => Held' \subseteq struck' \cup {t}
  BY <1>1 DEF OnlyHolds
<1>4. Held' \subseteq struck' \cup Honoured'
  BY <1>1 DEF IInv, HonourInv, Honoured
<1>5. CASE StoreEnrolled \/ StoreRenewed \/ Switch
  <2>1. \A m \in reqs : m.kind = "result" /\ ~m.recent
    BY <1>5 DEF StoreEnrolled, StoreRenewed, Switch, IInv, PollInv, TypeOK, Req
  <2>2. CASE reqs' = reqs
    <3>1. loop' # "enrolled"
      BY <1>5, <2>2 DEF StoreEnrolled, StoreRenewed, Switch
    <3>2. PollInv'
      BY <2>1, <2>2, <3>1 DEF PollInv
    <3>3. HonourInv'
      BY <1>1, <1>3, <1>4, <2>1, <2>2 DEF IInv, HonourInv, OnlyHolds
    <3>4. QuietInv' /\ EnrollInv'
      BY <1>1, <2>2 DEF IInv, QuietInv, EnrollInv
    <3> QED
      BY <1>2, <3>2, <3>3, <3>4
  <2>3. CASE reqs' # reqs
    <3> DEFINE k == Request("heartbeat")
    <3>1. /\ StoreEnrolled /\ reqs' = reqs \cup {k} /\ mem' = mem
          /\ loop = "enrolled" /\ loop' = "heartbeat" /\ disk' = mem /\ got' = got
      BY <1>5, <2>3 DEF StoreEnrolled, StoreRenewed, Switch
    <3>2. k.kind = "heartbeat" /\ k.step = "sent" /\ k.token = mem /\ ~k.recent
      BY <3>1, RequestType
    <3> HIDE DEF k
    <3>3. Held' \subseteq {mem} /\ \A m \in reqs : m.token = mem
      BY <3>1 DEF IInv, PollInv, CopyInv, Held
    <3>4. PollInv'
      BY <2>1, <3>1, <3>2, <3>3 DEF PollInv
    <3>5. HonourInv'
      BY <1>1, <1>4, <2>1, <3>1, <3>2, <3>3 DEF HonourInv, OnlyHolds
    <3>6. QuietInv' /\ EnrollInv'
      BY <1>1, <3>1, <3>2 DEF IInv, QuietInv, EnrollInv
    <3> QED
      BY <1>2, <3>4, <3>5, <3>6
  <2> QED
    BY <2>2, <2>3
<1>6. CASE Restart
  <2>1. \A r \in reqs' : \E m \in reqs :
          /\ r = [m EXCEPT !.live = FALSE, !.recent = FALSE]
          /\ r.kind = m.kind /\ r.token = m.token /\ ~r.live
          /\ ~r.recent /\ r.step = m.step /\ r.seen = m.seen
    <3>1. /\ reqs' = {[m EXCEPT !.live = FALSE, !.recent = FALSE] : m \in reqs}
          /\ reqs \in SUBSET Req
      BY <1>6 DEF Restart, TypeOK
    <3> QED
      BY <3>1, OrphanReq
  <2>2. loop' = "start" /\ row' = row
    BY <1>1, <1>6 DEF Restart
  <2>3. PollInv'
    <3>1. ASSUME NEW k \in reqs', k.kind # "result", NEW r \in reqs'
          PROVE  r.token = k.token /\ (r.kind = "result" \/ r = k)
      <4>1. PICK q \in reqs : /\ k = [q EXCEPT !.live = FALSE, !.recent = FALSE]
                              /\ k.kind = q.kind /\ k.token = q.token
        BY <2>1
      <4>2. PICK p \in reqs : /\ r = [p EXCEPT !.live = FALSE, !.recent = FALSE]
                              /\ r.kind = p.kind /\ r.token = p.token
        BY <2>1
      <4>3. p.token = q.token /\ (p.kind = "result" \/ p = q)
        BY <3>1, <4>1 DEF IInv, PollInv
      <4> QED
        BY <4>1, <4>2, <4>3
    <3> QED
      BY <2>1, <2>2, <3>1 DEF PollInv
  <2>4. HonourInv' /\ QuietInv' /\ EnrollInv'
    <3>1. \A r \in reqs' : \E q \in reqs : /\ r.kind = q.kind /\ r.token = q.token
                                           /\ r.step = q.step /\ r.seen = q.seen
      BY <2>1
    <3> QED
      BY <1>1, <3>1, SameRequests
  <2> QED
    BY <1>2, <2>3, <2>4
<1> QED
  BY <1>5, <1>6

\* With Late = 0, a poll starts alone: nothing is at the server but the results sent
\* since the loop went to sleep, with the token it will use.
LEMMA PollStep ==
    ASSUME IInv, PollStart, Late = 0
    PROVE  PollInv' /\ CopyInv' /\ HonourInv' /\ QuietInv' /\ EnrollInv'
<1> TypeOK /\ RowInv /\ ReqInv
  BY DEF IInv, BaseInv
<1>1. PICK kind \in {"enroll", "heartbeat"} :
        /\ kind = IF mem = NoToken THEN "enroll" ELSE "heartbeat"
        /\ loop' = kind
        /\ reqs' = {[m EXCEPT !.recent = FALSE] : m \in reqs \cup {Request(kind)}}
  BY DEF PollStart
<1>2. /\ loop \in {"start", "sleep"}
      /\ UNCHANGED <<row, mem, disk, got, struck>>
  BY DEF PollStart, hist
<1>3. \A m \in reqs : m.recent
  <2> DEFINE old == {m \in reqs : ~m.recent}
  <2>1. IsFiniteSet(old)
    <3>1. IsFiniteSet(reqs) /\ old \subseteq reqs
      BY DEF ReqInv
    <3> QED
      BY <3>1, FS_Subset
  <2>2. Cardinality(old) <= 0 /\ Cardinality(old) \in Nat
    BY <2>1, FS_CardinalityType DEF PollStart
  <2>3. old = {}
    BY <2>1, <2>2, FS_EmptySet
  <2> QED
    BY <2>3
<1>4. \A m \in reqs : m.kind = "result" /\ m.token = mem
  BY <1>3 DEF IInv, PollInv
<1> DEFINE k == Request(kind)
<1>5. /\ k \in Req /\ k.kind = kind /\ k.live /\ k.step = "sent"
      /\ k.token = IF kind = "enroll" THEN NoToken ELSE mem
  BY RequestType
<1> HIDE DEF k
<1>6. \A r \in reqs' : \E m \in reqs \cup {k} :
        /\ r = [m EXCEPT !.recent = FALSE]
        /\ r.kind = m.kind /\ r.token = m.token /\ r.live = m.live
        /\ ~r.recent /\ r.step = m.step /\ r.seen = m.seen
  <2> DEFINE S == reqs \cup {k}
  <2>1. S \in SUBSET Req /\ reqs' = {[m EXCEPT !.recent = FALSE] : m \in S}
    BY <1>1, <1>5 DEF TypeOK, k
  <2> HIDE DEF S
  <2>2. \A r \in {[m EXCEPT !.recent = FALSE] : m \in S} :
             /\ r \in Req
             /\ \E m \in S : /\ r = [m EXCEPT !.recent = FALSE]
                             /\ r.kind = m.kind /\ r.token = m.token /\ r.live = m.live
                             /\ ~r.recent /\ r.step = m.step /\ r.seen = m.seen
    BY <2>1, OlderReq
  <2> QED
    BY <2>1, <2>2 DEF S
<1>7. ASSUME NEW r \in reqs'
      PROVE  /\ r.token = mem /\ ~r.recent
             /\ r.kind # "result" => r.step = "sent" /\ r.kind = kind
                                     /\ r = [k EXCEPT !.recent = FALSE]
             /\ \E m \in reqs \cup {k} :
                  /\ r.kind = m.kind /\ r.token = m.token
                  /\ r.step = m.step /\ r.seen = m.seen
  BY <1>1, <1>4, <1>5, <1>6
<1>8. PollInv'
  <2>1. \A r \in reqs' : ~r.recent /\ r.token = mem'
    BY <1>2, <1>7
  <2>2. ASSUME NEW r \in reqs', r.kind # "result", NEW n \in reqs', n.kind # "result"
        PROVE  n = r /\ loop' = r.kind
    BY <1>1, <1>7, <2>2
  <2>3. loop' # "enrolled"
    BY <1>1
  <2> QED
    BY <2>1, <2>2, <2>3 DEF PollInv
<1>9. CopyInv'
  BY <1>1, <1>2 DEF IInv, CopyInv
<1>10. mem # NoToken => OnlyHolds(mem)
  BY <1>2 DEF IInv, CopyInv, OnlyHolds, Held
<1>11. ASSUME NEW r \in reqs', r.token # NoToken PROVE OnlyHolds(r.token)'
  BY <1>2, <1>7, <1>10, <1>11 DEF OnlyHolds, Held
<1>12. HonourInv'
  <2>1. Held' \subseteq struck' \cup Honoured'
    BY <1>2 DEF IInv, HonourInv, Held, Honoured
  <2>2. ASSUME NEW r \in reqs', r.step = "promote" \/ r.kind = "heartbeat"
        PROVE  r.token # NoToken
    BY <1>1, <1>4, <1>5, <1>7, <2>2 DEF ReqInv
  <2>3. ASSUME NEW r \in reqs', r.kind = "heartbeat"
        PROVE  r.step = "sent"
    BY <1>7, <2>3
  <2> QED
    BY <1>11, <2>1, <2>2, <2>3 DEF HonourInv
<1>13. QuietInv'
  <2>1. ASSUME NEW r \in reqs', r.step = "promote"
        PROVE  \E m \in reqs : m.step = "promote" /\ m.token = r.token /\ m.seen = r.seen
    BY <1>5, <1>7, <2>1
  <2>2. ASSUME NEW r \in reqs', r.kind = "heartbeat"
        PROVE  r.step = "sent"
    BY <1>7, <2>2
  <2> QED
    BY <1>2, <2>1, <2>2 DEF IInv, QuietInv
<1>14. EnrollInv'
  BY <1>7 DEF EnrollInv
<1> QED
  BY <1>8, <1>9, <1>12, <1>13, <1>14

-----------------------------------------------------------------------------
\* Initially the poste is unknown, and the agent has neither token nor request.
LEMMA BaseInit == Init => BaseInv
<1> SUFFICES ASSUME Init PROVE BaseInv
  OBVIOUS
<1>1. TypeOK
  BY DEF Init, TypeOK, Row, NewRow, Maybe, Adm, Idle
<1>2. RowInv
  BY DEF Init, RowInv, NewRow, Idle
<1>3. ReqInv
  BY FS_EmptySet DEF Init, ReqInv
<1> QED
  BY <1>1, <1>2, <1>3 DEF BaseInv

\* What holds in every behaviour, however many requests are late.
LEMMA BaseInvariant == Spec => []BaseInv
<1>1. BaseInv /\ [Next]_vars => BaseInv'
  BY TypeStep, BaseStep DEF BaseInv
<1> QED
  BY BaseInit, <1>1, PTL DEF Spec

\* What holds in every behaviour in which no request outlives the next poll.
LEMMA Invariant ==
    ASSUME Late = 0
    PROVE  Spec => []IInv
<1>1. Init => IInv
  <2> SUFFICES ASSUME Init PROVE PollInv /\ CopyInv /\ HonourInv /\ QuietInv /\ EnrollInv
    BY BaseInit DEF IInv
  <2> QED
    BY DEF Init, PollInv, CopyInv, HonourInv, QuietInv, EnrollInv, Held
<1>2. IInv /\ [Next]_vars => IInv'
  <2> SUFFICES ASSUME IInv, [Next]_vars PROVE IInv'
    OBVIOUS
  <2>1. BaseInv'
    BY TypeStep, BaseStep DEF IInv, BaseInv
  <2>2. PollInv' /\ CopyInv' /\ HonourInv' /\ QuietInv' /\ EnrollInv'
    <3>1. CASE UNCHANGED vars
      BY <3>1 DEF vars, agent, hist, IInv, PollInv, CopyInv, HonourInv, QuietInv,
                  EnrollInv, OnlyHolds, Held, Honoured
    <3>2. CASE Server
      BY <3>2, AuthenticateStep, PromoteStep, RefreshStep, HeartbeatStep, EnrollStep,
         MintStep, LeaveStep, AdminStep DEF Server
    <3>3. CASE Agent
      BY <3>3, PollStep, ResultStep, StoreStep DEF Agent
    <3> QED
      BY <3>1, <3>2, <3>3 DEF Next
  <2> QED
    BY <2>1, <2>2 DEF IInv
<1> QED
  BY <1>1, <1>2, PTL DEF Spec

\* Every variable keeps its type, whatever the tokens, and the number of results in
\* flight and of late requests.
THEOREM TokenTypes == Spec => []TypeOK
<1> QED
  BY BaseInvariant, PTL DEF BaseInv

\* A token the agent has proved is never left waiting to be promoted, however many
\* requests are late: the rotation always retires the token before it.
THEOREM ProvedIsCurrent == Spec => []ProvedTokenIsCurrent
<1>1. BaseInv => ProvedTokenIsCurrent
  BY DEF BaseInv, RowInv, ProvedTokenIsCurrent
<1> QED
  BY <1>1, BaseInvariant, PTL

\* "The server must never stop honouring a token the agent may still be holding":
\* every token in memory, on disk or just received is honoured, unless revoked or
\* ended, if no request is still at the server when the agent polls again.
THEOREM HeldIsHonoured ==
    ASSUME Late = 0
    PROVE  Spec => []HeldTokenHonoured
<1>1. IInv => HeldTokenHonoured
  BY DEF IInv, HonourInv, Held, HeldTokenHonoured
<1> QED
  BY <1>1, Invariant, PTL

\* Where re-enrollment needs approval, no enrollment replaces a live token: the
\* current token changes only to one the agent has proved, or is cleared.
THEOREM NoLiveTokenTaken ==
    ASSUME Late = 0, Approval = TRUE
    PROVE  Spec => NoTakeover
<1>1. IInv /\ [Next]_vars =>
        [row.current # NoToken /\ row'.current # row.current
           => row'.current \in used' \cup {NoToken}]_vars
  <2> SUFFICES ASSUME IInv, Next, row.current # NoToken, row'.current # row.current
               PROVE  row'.current \in used' \cup {NoToken}
    OBVIOUS
  <2> TypeOK /\ RowInv /\ ReqInv
    BY DEF IInv, BaseInv
  <2>1. ASSUME NEW m \in reqs, Promote(m) PROVE row'.current \in used'
    <3>1. m.token # NoToken /\ m.seen.pending = m.token /\ m.seen.current # m.token
      BY <2>1 DEF Promote, ReqInv
    <3> QED
      BY <2>1, <3>1, PromoteRow DEF Promote
  <2>2. ASSUME NEW m \in reqs, HeartbeatCommit(m) PROVE FALSE
    BY <2>2, OfferRow DEF HeartbeatCommit
  <2>3. ASSUME NEW m \in reqs, EnrollMint(m) PROVE FALSE
    <3>1. m.seen.known = row.known /\ row.known
      BY <2>3 DEF EnrollMint, RowInv
    <3>2. m.seen.current = NoToken /\ m.kind = "enroll" /\ m.step = "loaded"
      BY <2>3, <3>1 DEF EnrollMint, NeedsApproval
    <3> QED
      BY <3>2 DEF IInv, EnrollInv
  <2>4. RevokeCommit \/ AllowCommit => row'.current = NoToken
    BY AdminRow DEF RevokeCommit, AllowCommit
  <2>5. UNCHANGED row \/ row'.current = row.current \/
        (\E m \in reqs : Promote(m) \/ HeartbeatCommit(m) \/ EnrollMint(m))
        \/ RevokeCommit \/ AllowCommit
    <3>1. ASSUME NEW m \in reqs, EnrollHeld(m) PROVE row'.current = row.current
      BY <3>1 DEF EnrollHeld, TypeOK, Row
    <3>2. Age => row'.current = row.current
      BY DEF Age, TypeOK, Row
    <3> QED
      BY <3>1, <3>2 DEF Next, Server, Agent, Authenticate, Refresh, EnrollLoad, Lost,
         Timeout, AdminLoad, PollStart, SendResult, StoreEnrolled, StoreRenewed,
         Switch, Restart
  <2> QED
    BY <2>1, <2>2, <2>3, <2>4, <2>5
<1> QED
  BY <1>1, Invariant, PTL DEF Spec, NoTakeover

-----------------------------------------------------------------------------
(* Wakes, which other postes of the site relay (WolRelay).                  *)

Verdicts == {"succeeded", "failed"}

WakeRow == [status : {"none"} \cup OpenStatuses \cup Terminal, target : Postes \cup {None},
            created : 0 .. MaxTime, relay : Postes \cup {None},
            decision : {"none", "already", "pending", "succeeded", "failed"}]

WakeRequest == [step : {"free", "read"}, expire : SUBSET Wakes, close : SUBSET Wakes,
                claims : SUBSET Wakes, at : 0 .. MaxTime]

WakeShape ==
  /\ now \in 1 .. MaxTime /\ relaying \in BOOLEAN /\ relaying \in RelayEnabled
  /\ on \in [Postes -> BOOLEAN]
  /\ seen \in [Postes -> 0 .. MaxTime]
  /\ wake \in [Wakes -> WakeRow]
  /\ hb \in [Postes -> WakeRequest]
  /\ todo \in [Postes -> SUBSET Wakes]
  /\ owed \in [Postes -> SUBSET (Wakes \X Verdicts)]
  /\ res \in [Postes -> SUBSET (Wakes \X Verdicts)]
  /\ \A p \in Postes : res[p] \subseteq owed[p]
  /\ switched \in 0 .. MaxPower

\* A row at time t, from the click that decided it to what closed it.
RowOK(m, t, relays) ==
  /\ m.decision = "none" => m = NoRow
  /\ m.decision # "none" => m.target \in Postes /\ m.created \in 1 .. t
  /\ m.status = "none" /\ m.decision \notin {"none", "already"} => m.created = t
  /\ m.decision = "pending" => relays /\ Known(m.target)
  /\ m.status \in {"pending", "expired"} => m.decision = "pending"
  /\ m.status \in {"none", "pending"} => m.relay = None
  /\ m.status = "expired" => m.created + Ttl <= t
  /\ m.relay # None => SharesWire(m.relay, m.target)

\* What a heartbeat, an agent and a result hold are wakes that were queued.
HeldOK(p, h, todos, verdicts, rows) ==
  /\ h.step = "free" => h = NoRequest
  /\ \A w \in h.expire : /\ rows[w].status # "none" /\ rows[w].target = p
                         /\ rows[w].created + Ttl <= h.at
  /\ \A w \in h.close : rows[w].status # "none" /\ rows[w].target = p
  /\ h.close \cap h.expire = {}
  /\ \A w \in h.claims : rows[w].status # "none" /\ SharesWire(p, rows[w].target)
  /\ \A w \in todos : rows[w].status # "none"
  /\ \A v \in verdicts : rows[v[1]].status # "none"

\* A poste heard at t could have relayed a wake.
Could(p, m, t) ==
  /\ SharesWire(p, m.target) /\ t > m.created
  /\ SameSubnet(p, m.target) \/ t >= m.created + Grace
  /\ t < m.created + Ttl

\* A poste that could have relayed a wake nobody took was not heard, nor is.
Unheard(p, w, m, t, h) ==
  m.status \in {"pending", "expired"} =>
    /\ ~Could(p, m, t)
    /\ h.step = "read" /\ Could(p, m, h.at) => w \in h.claims

\* ExpiredUnheard as a step may use it: what requests read, and what nobody heard.
WolInv ==
  /\ WakeShape
  /\ \A w \in Wakes : RowOK(wake[w], now, relaying)
  /\ \A p \in Postes : /\ HeldOK(p, hb[p], todo[p], owed[p], wake)
                       /\ seen[p] <= now /\ hb[p].at <= now
  /\ \A w \in Wakes, p \in Postes : Unheard(p, w, wake[w], seen[p], hb[p])

LEMMA WolParameters ==
  /\ None \notin Postes /\ Targets \subseteq Postes /\ RelayEnabled \subseteq BOOLEAN
  /\ Ttl \in Nat /\ Grace \in Nat /\ MaxTime \in Nat \ {0} /\ MaxPower \in Nat
BY ParcAssumption

\* What stands of a row stands of what it becomes, if it keeps its click.
LEMMA HeldStill ==
  ASSUME NEW p, NEW h \in WakeRequest, NEW todos \in SUBSET Wakes,
         NEW verdicts \in SUBSET (Wakes \X Verdicts), NEW rows, NEW others,
         HeldOK(p, h, todos, verdicts, rows),
         \A w \in Wakes : rows[w].status # "none" =>
           /\ others[w].status # "none" /\ others[w].target = rows[w].target
           /\ others[w].created = rows[w].created
  PROVE  HeldOK(p, h, todos, verdicts, others)
<1>1. \A v \in verdicts : v[1] \in Wakes
  OBVIOUS
<1>2. h.expire \subseteq Wakes /\ h.close \subseteq Wakes /\ h.claims \subseteq Wakes
  BY DEF WakeRequest
<1> QED  BY <1>1, <1>2 DEF HeldOK

LEMMA UnheardStill ==
  ASSUME NEW p, NEW w, NEW m, NEW n, NEW t, NEW h, Unheard(p, w, m, t, h),
         n.status \in {"pending", "expired"} =>
           m.status \in {"pending", "expired"} /\ n.target = m.target /\ n.created = m.created
  PROVE  Unheard(p, w, n, t, h)
BY DEF Unheard, Could

\* A step that moves rows alone, none of them from nobody's.
LEMMA RowsMove ==
  ASSUME WolInv, wake' \in [Wakes -> WakeRow],
         UNCHANGED <<now, relaying, on, seen, hb, todo, owed, res, switched>>,
         \A w \in Wakes : /\ RowOK(wake'[w], now, relaying)
                          /\ wake[w].status # "none" =>
                               /\ wake'[w].status # "none" /\ wake'[w].target = wake[w].target
                               /\ wake'[w].created = wake[w].created
                          /\ wake'[w].status \in {"pending", "expired"} =>
                               \/ wake[w].status \in {"pending", "expired"}
                               \/ wake'[w].created = now
  PROVE  WolInv'
<1>1. WakeShape'
  BY DEF WolInv, WakeShape
<1>2. ASSUME NEW p \in Postes
      PROVE  /\ HeldOK(p, hb'[p], todo'[p], owed'[p], wake')
             /\ seen'[p] <= now' /\ hb'[p].at <= now'
  <2>1. /\ HeldOK(p, hb[p], todo[p], owed[p], wake) /\ seen[p] <= now /\ hb[p].at <= now
        /\ hb[p] \in WakeRequest /\ todo[p] \in SUBSET Wakes
        /\ owed[p] \in SUBSET (Wakes \X Verdicts)
    BY DEF WolInv, WakeShape
  <2>2. HeldOK(p, hb[p], todo[p], owed[p], wake')
    BY <2>1, HeldStill
  <2> QED  BY <2>1, <2>2
<1>3. ASSUME NEW w \in Wakes, NEW p \in Postes
      PROVE  Unheard(p, w, wake'[w], seen'[p], hb'[p])
  <2>1. /\ Unheard(p, w, wake[w], seen[p], hb[p]) /\ seen[p] <= now /\ hb[p].at <= now
        /\ seen[p] \in Nat /\ hb[p].at \in Nat /\ now \in Nat
    BY WolParameters DEF WolInv, WakeShape, WakeRequest
  <2>2. CASE wake[w].status \in {"pending", "expired"}
    <3>1. wake[w].status # "none"
      BY <2>2
    <3>2. Unheard(p, w, wake'[w], seen[p], hb[p])
      BY <2>1, <2>2, <3>1, UnheardStill
    <3> QED  BY <3>2
  <2>3. CASE wake'[w].status \in {"pending", "expired"} /\ wake'[w].created = now
    <3>1. ~Could(p, wake'[w], seen[p]) /\ ~Could(p, wake'[w], hb[p].at)
      BY <2>1, <2>3 DEF Could
    <3> QED  BY <3>1 DEF Unheard
  <2>4. CASE wake'[w].status \notin {"pending", "expired"}
    BY <2>4 DEF Unheard
  <2> QED  BY <2>2, <2>3, <2>4
<1> QED  BY <1>1, <1>2, <1>3 DEF WolInv

LEMMA InitWolInv == WolInit => WolInv
<1> SUFFICES ASSUME WolInit
             PROVE  WolInv
  OBVIOUS
<1>1. /\ now = 1 /\ relaying \in RelayEnabled /\ on \in [Postes -> BOOLEAN]
      /\ wake = [w \in Wakes |-> NoRow] /\ hb = [p \in Postes |-> NoRequest]
      /\ todo = [p \in Postes |-> {}] /\ owed = [p \in Postes |-> {}]
      /\ res = [p \in Postes |-> {}] /\ switched = 0
      /\ \A p \in Postes : seen[p] \in {0, 1}
  BY DEF WolInit, None
<1>2. seen \in [Postes -> {0, 1}]
  BY DEF WolInit, None
<1>3. NoRow \in WakeRow /\ NoRequest \in WakeRequest
  BY WolParameters DEF NoRow, NoRequest, WakeRow, WakeRequest, None, OpenStatuses, Terminal
<1>4. 1 \in 1 .. MaxTime /\ {0, 1} \subseteq 0 .. MaxTime
  BY WolParameters
<1>5. WakeShape
  BY <1>1, <1>2, <1>3, <1>4, WolParameters DEF WakeShape
<1>6. \A w \in Wakes : RowOK(wake[w], now, relaying)
  <2>1. \A w \in Wakes : wake[w] = NoRow
    BY <1>1
  <2>2. /\ NoRow.decision = "none" /\ NoRow.status = "none" /\ NoRow.relay = None
    BY DEF NoRow
  <2> QED  BY <2>1, <2>2 DEF RowOK
<1>7. \A p \in Postes : /\ HeldOK(p, hb[p], todo[p], owed[p], wake)
                        /\ seen[p] <= now /\ hb[p].at <= now
  <2>1. \A p \in Postes : hb[p] = NoRequest /\ todo[p] = {} /\ owed[p] = {}
    BY <1>1
  <2>2. /\ NoRequest.expire = {} /\ NoRequest.close = {} /\ NoRequest.claims = {}
        /\ NoRequest.at = 0
    BY DEF NoRequest
  <2>3. \A p \in Postes : HeldOK(p, hb[p], todo[p], owed[p], wake)
    BY <2>1, <2>2 DEF HeldOK
  <2> QED  BY <1>1, <2>1, <2>2, <2>3
<1>8. \A w \in Wakes, p \in Postes : Unheard(p, w, wake[w], seen[p], hb[p])
  <2>1. \A w \in Wakes : wake[w].status = "none"
    BY <1>1 DEF NoRow
  <2> QED  BY <2>1 DEF Unheard
<1> QED  BY <1>5, <1>6, <1>7, <1>8 DEF WolInv

LEMMA WakeMachinesWol ==
  ASSUME WolInv, NEW w \in Wakes, NEW t \in Targets, WakeMachines(w, t)
  PROVE  WolInv'
<1>1. PICK d \in IF relaying THEN Queueing(t) ELSE Emission(t) :
        wake' = [wake EXCEPT ![w].decision = d, ![w].target = t, ![w].created = now]
  BY DEF WakeMachines
<1>2. /\ d \in {"already", "pending", "succeeded", "failed"}
      /\ d = "pending" => relaying /\ Known(t)
  BY <1>1 DEF Queueing, Emission
<1>3. /\ wake \in [Wakes -> WakeRow] /\ now \in 1 .. MaxTime /\ t \in Postes /\ MaxTime \in Nat
      /\ wake[w].decision = "none" /\ RowOK(wake[w], now, relaying)
  BY WolParameters DEF WolInv, WakeShape, WakeMachines
<1>4. wake[w].status = "none" /\ wake[w].relay = None
  BY <1>3 DEF RowOK, NoRow
<1>5. /\ wake'[w] \in WakeRow /\ wake'[w].status = "none" /\ wake'[w].relay = None
      /\ wake'[w].decision = d /\ wake'[w].target = t /\ wake'[w].created = now
  <2> DEFINE m == wake[w]
             n == [m EXCEPT !.decision = d, !.target = t, !.created = now]
  <2>1. m \in WakeRow /\ m.status = "none" /\ m.relay = None
    BY <1>3, <1>4
  <2>2. wake'[w] = n
    BY <1>1, <1>3
  <2>3. now \in 0 .. MaxTime
    BY <1>3
  <2> HIDE DEF m
  <2>4. /\ n \in WakeRow /\ n.status = m.status /\ n.relay = m.relay
        /\ n.decision = d /\ n.target = t /\ n.created = now
    BY <1>2, <1>3, <2>1, <2>3 DEF WakeRow
  <2> QED  BY <2>1, <2>2, <2>4
<1>6. \A x \in Wakes \ {w} : wake'[x] = wake[x]
  BY <1>1, <1>3
<1>7. wake' \in [Wakes -> WakeRow]
  BY <1>1, <1>3, <1>5, <1>6
<1>8. RowOK(wake'[w], now, relaying)
  BY <1>2, <1>3, <1>5 DEF RowOK
<1>9. UNCHANGED <<now, relaying, on, seen, hb, todo, owed, res, switched>>
  BY DEF WakeMachines
<1>10. \A x \in Wakes : RowOK(wake[x], now, relaying)
  BY DEF WolInv
<1>11. \A x \in Wakes : RowOK(wake'[x], now', relaying')
  BY <1>6, <1>8, <1>9, <1>10
<1> QED  BY <1>4, <1>5, <1>6, <1>7, <1>9, <1>11, RowsMove

LEMMA WakeCommitWol ==
  ASSUME WolInv, NEW w \in Wakes, WakeCommit(w)
  PROVE  WolInv'
<1> DEFINE m == wake[w]
           n == [m EXCEPT !.status = m.decision]
<1>1. /\ m.decision \notin {"none", "already"} /\ m.status = "none"
      /\ wake' = [wake EXCEPT ![w] = n]
      /\ UNCHANGED <<now, relaying, on, seen, hb, todo, owed, res, switched>>
  BY DEF WakeCommit
<1>2. /\ wake \in [Wakes -> WakeRow] /\ m \in WakeRow /\ RowOK(m, now, relaying)
  BY DEF WolInv, WakeShape
<1>3. /\ n \in WakeRow /\ n.status = m.decision /\ n.decision = m.decision /\ n.relay = m.relay
      /\ n.target = m.target /\ n.created = m.created
  BY <1>1, <1>2 DEF WakeRow, OpenStatuses, Terminal
<1>4. m.relay = None
  BY <1>1, <1>2 DEF RowOK
<1> HIDE DEF n
<1>5. wake'[w] = n /\ \A x \in Wakes \ {w} : wake'[x] = wake[x]
  BY <1>1, <1>2
<1>6. wake' \in [Wakes -> WakeRow]
  BY <1>1, <1>2, <1>3
<1>7. n.created = now
  BY <1>1, <1>2, <1>3 DEF RowOK
<1>8. RowOK(n, now, relaying)
  <2>1. m.decision \in {"pending", "succeeded", "failed"}
    BY <1>1, <1>2 DEF WakeRow
  <2> HIDE DEF m
  <2> QED  BY <1>2, <1>3, <1>4, <1>7, <2>1 DEF RowOK
<1>9. \A x \in Wakes : RowOK(wake[x], now, relaying)
  BY DEF WolInv
<1>10. \A x \in Wakes : RowOK(wake'[x], now', relaying')
  BY <1>1, <1>5, <1>8, <1>9
<1> QED  BY <1>1, <1>5, <1>6, <1>7, <1>10, RowsMove

LEMMA SweepWol ==
  ASSUME WolInv, Sweep
  PROVE  WolInv'
<1>1. /\ wake' = [w \in Wakes |-> IF Stale(w) THEN [wake[w] EXCEPT !.status = "expired"]
                                                 ELSE wake[w]]
      /\ UNCHANGED <<now, relaying, on, seen, hb, todo, owed, res, switched>>
  BY DEF Sweep
<1>2. ASSUME NEW w \in Wakes
      PROVE  /\ wake'[w] \in WakeRow /\ RowOK(wake'[w], now, relaying)
             /\ wake[w].status # "none" =>
                  /\ wake'[w].status # "none" /\ wake'[w].target = wake[w].target
                  /\ wake'[w].created = wake[w].created
             /\ wake'[w].status \in {"pending", "expired"}
                  => wake[w].status \in {"pending", "expired"}
  <2> DEFINE m == wake[w]
             n == [m EXCEPT !.status = "expired"]
  <2>1. m \in WakeRow /\ RowOK(m, now, relaying)
    BY DEF WolInv, WakeShape
  <2>2. wake'[w] = IF Stale(w) THEN n ELSE m
    BY <1>1
  <2>3. Stale(w) => m.status = "pending" /\ m.created + Ttl <= now
    BY DEF Stale, ExpiresAt
  <2>4. /\ n \in WakeRow /\ n.status = "expired" /\ n.decision = m.decision /\ n.relay = m.relay
        /\ n.target = m.target /\ n.created = m.created
    BY <2>1 DEF WakeRow, Terminal
  <2> HIDE DEF n, m
  <2>5. Stale(w) => RowOK(n, now, relaying)
    BY <2>1, <2>3, <2>4 DEF RowOK
  <2>6. /\ wake'[w] \in WakeRow /\ RowOK(wake'[w], now, relaying)
        /\ m.status # "none" =>
                  /\ wake'[w].status # "none" /\ wake'[w].target = m.target
                  /\ wake'[w].created = m.created
        /\ wake'[w].status \in {"pending", "expired"} => m.status \in {"pending", "expired"}
    BY <2>1, <2>2, <2>3, <2>4, <2>5
  <2> QED  BY <2>6 DEF m
<1>3. wake' \in [Wakes -> WakeRow]
  BY <1>1, <1>2
<1>4. \A x \in Wakes : RowOK(wake'[x], now', relaying')
  BY <1>1, <1>2
<1> QED  BY <1>1, <1>2, <1>3, <1>4, RowsMove

\* A step that moves what agents hold, of wakes that were queued.
LEMMA AgentMoves ==
  ASSUME WolInv, UNCHANGED <<now, relaying, seen, wake, hb>>, WakeShape',
         \A p \in Postes : /\ \A w \in todo'[p] : wake[w].status # "none"
                           /\ \A v \in owed'[p] : wake[v[1]].status # "none"
  PROVE  WolInv'
<1>1. \A w \in Wakes : RowOK(wake'[w], now', relaying')
  BY DEF WolInv
<1>2. \A p \in Postes : /\ HeldOK(p, hb'[p], todo'[p], owed'[p], wake')
                        /\ seen'[p] <= now' /\ hb'[p].at <= now'
  BY DEF WolInv, HeldOK
<1>3. \A w \in Wakes, p \in Postes : Unheard(p, w, wake'[w], seen'[p], hb'[p])
  BY DEF WolInv
<1> QED  BY <1>1, <1>2, <1>3 DEF WolInv

LEMMA EmitWol ==
  ASSUME WolInv, NEW p \in Postes, NEW w \in Wakes, NEW v \in Verdicts, Emit(p, w, v)
  PROVE  WolInv'
<1>1. /\ w \in todo[p] /\ todo' = [todo EXCEPT ![p] = todo[p] \ {w}]
      /\ owed' = [owed EXCEPT ![p] = owed[p] \cup {<<w, v>>}]
      /\ UNCHANGED <<now, relaying, on, seen, wake, hb, res, switched>>
  BY DEF Emit
<1>2. /\ WakeShape /\ todo \in [Postes -> SUBSET Wakes]
      /\ owed \in [Postes -> SUBSET (Wakes \X Verdicts)]
      /\ \A q \in Postes : res[q] \subseteq owed[q]
  BY DEF WolInv, WakeShape
<1>3. /\ todo' \in [Postes -> SUBSET Wakes] /\ owed' \in [Postes -> SUBSET (Wakes \X Verdicts)]
      /\ \A q \in Postes : /\ todo'[q] \subseteq todo[q] /\ owed[q] \subseteq owed'[q]
                           /\ owed'[q] \subseteq owed[q] \cup {<<w, v>>}
  BY <1>1, <1>2
<1>4. WakeShape'
  BY <1>1, <1>2, <1>3 DEF WakeShape
<1>5. \A q \in Postes : /\ \A x \in todo[q] : wake[x].status # "none"
                        /\ \A x \in owed[q] : wake[x[1]].status # "none"
  BY DEF WolInv, HeldOK
<1>6. <<w, v>>[1] = w /\ wake[w].status # "none"
  BY <1>1, <1>5
<1>7. \A q \in Postes : /\ \A x \in todo'[q] : wake[x].status # "none"
                        /\ \A x \in owed'[q] : wake[x[1]].status # "none"
  BY <1>3, <1>5, <1>6
<1> QED  BY <1>1, <1>4, <1>7, AgentMoves

LEMMA ResultReadWol ==
  ASSUME WolInv, NEW p \in Postes, NEW v \in Wakes \X Verdicts, ResultRead(p, v)
  PROVE  WolInv'
<1>1. /\ v \in owed[p] \ res[p]
      /\ \/ owed' = [owed EXCEPT ![p] = owed[p] \ {v}] /\ res' = res
         \/ res' = [res EXCEPT ![p] = res[p] \cup {v}] /\ owed' = owed
      /\ UNCHANGED <<now, relaying, on, seen, wake, hb, todo, switched>>
  BY DEF ResultRead
<1>2. /\ WakeShape /\ res \in [Postes -> SUBSET (Wakes \X Verdicts)]
      /\ owed \in [Postes -> SUBSET (Wakes \X Verdicts)]
      /\ \A q \in Postes : res[q] \subseteq owed[q]
  BY DEF WolInv, WakeShape
<1>3. /\ owed' \in [Postes -> SUBSET (Wakes \X Verdicts)]
      /\ res' \in [Postes -> SUBSET (Wakes \X Verdicts)]
      /\ \A q \in Postes : owed'[q] \subseteq owed[q] /\ res'[q] \subseteq owed'[q]
  BY <1>1, <1>2
<1>4. WakeShape'
  BY <1>1, <1>2, <1>3 DEF WakeShape
<1>5. \A q \in Postes : /\ \A x \in todo[q] : wake[x].status # "none"
                        /\ \A x \in owed[q] : wake[x[1]].status # "none"
  BY DEF WolInv, HeldOK
<1> QED  BY <1>1, <1>3, <1>4, <1>5, AgentMoves

LEMMA PowerWol ==
  ASSUME WolInv, NEW p \in Postes, PowerOn(p) \/ PowerOff(p)
  PROVE  WolInv'
<1>1. /\ switched < MaxPower /\ switched' = switched + 1
      /\ on' = [on EXCEPT ![p] = TRUE] \/ on' = [on EXCEPT ![p] = FALSE]
      /\ todo' = todo \/ todo' = [todo EXCEPT ![p] = {}]
      /\ UNCHANGED <<now, relaying, seen, wake, hb, owed, res>>
  BY DEF PowerOn, PowerOff
<1>2. /\ WakeShape /\ todo \in [Postes -> SUBSET Wakes] /\ on \in [Postes -> BOOLEAN]
      /\ switched \in 0 .. MaxPower /\ MaxPower \in Nat
  BY WolParameters DEF WolInv, WakeShape
<1>3. /\ todo' \in [Postes -> SUBSET Wakes] /\ \A q \in Postes : todo'[q] \subseteq todo[q]
      /\ on' \in [Postes -> BOOLEAN] /\ switched' \in 0 .. MaxPower
  <2>1. todo' \in [Postes -> SUBSET Wakes] /\ \A q \in Postes : todo'[q] \subseteq todo[q]
    BY <1>1, <1>2
  <2>2. on' \in [Postes -> BOOLEAN]
    BY <1>1, <1>2
  <2>3. switched' \in 0 .. MaxPower
    BY <1>1, <1>2
  <2> QED  BY <2>1, <2>2, <2>3
<1>4. WakeShape'
  BY <1>1, <1>2, <1>3 DEF WakeShape
<1>5. \A q \in Postes : /\ \A x \in todo[q] : wake[x].status # "none"
                        /\ \A x \in owed[q] : wake[x[1]].status # "none"
  BY DEF WolInv, HeldOK
<1> QED  BY <1>1, <1>3, <1>4, <1>5, AgentMoves

\* A verdict closes a row that is no longer anybody's to claim.
LEMMA ResultCommitWol ==
  ASSUME WolInv, NEW p \in Postes, NEW v \in Wakes \X Verdicts, ResultCommit(p, v)
  PROVE  WolInv'
<1> DEFINE w == v[1]
           m == wake[w]
           n == [m EXCEPT !.status = v[2]]
<1>1. /\ v \in res[p] /\ wake' = [wake EXCEPT ![w] = n]
      /\ res' = [res EXCEPT ![p] = res[p] \ {v}] /\ owed' = [owed EXCEPT ![p] = owed[p] \ {v}]
      /\ UNCHANGED <<now, relaying, on, seen, hb, todo, switched>>
  BY DEF ResultCommit
<1>2. /\ WakeShape /\ res \in [Postes -> SUBSET (Wakes \X Verdicts)]
      /\ owed \in [Postes -> SUBSET (Wakes \X Verdicts)]
      /\ \A q \in Postes : res[q] \subseteq owed[q]
      /\ wake \in [Wakes -> WakeRow] /\ w \in Wakes /\ v[2] \in Verdicts
  BY DEF WolInv, WakeShape
<1>3. m \in WakeRow /\ RowOK(m, now, relaying) /\ m.status # "none"
  BY <1>1, <1>2 DEF WolInv, HeldOK
<1>4. /\ n \in WakeRow /\ n.status \in Verdicts /\ n.decision = m.decision /\ n.relay = m.relay
      /\ n.target = m.target /\ n.created = m.created
  <2> DEFINE s == v[2]
  <2>1. s \in Verdicts
    BY <1>2
  <2> HIDE DEF s, m
  <2> QED  BY <1>3, <2>1 DEF WakeRow, Terminal, Verdicts, s
<1>5. m.decision # "none"
  BY <1>3 DEF RowOK, NoRow
<1> HIDE DEF n, w
<1>6. wake'[w] = n /\ \A x \in Wakes \ {w} : wake'[x] = wake[x]
  BY <1>1, <1>2
<1>7. wake' \in [Wakes -> WakeRow]
  BY <1>1, <1>2, <1>4
<1>8. RowOK(n, now, relaying)
  BY <1>3, <1>4, <1>5 DEF RowOK, Verdicts
<1>9. /\ owed' \in [Postes -> SUBSET (Wakes \X Verdicts)]
      /\ res' \in [Postes -> SUBSET (Wakes \X Verdicts)]
      /\ \A q \in Postes : owed'[q] \subseteq owed[q] /\ res'[q] \subseteq owed'[q]
  BY <1>1, <1>2
<1>10. WakeShape'
  BY <1>1, <1>2, <1>7, <1>9 DEF WakeShape
<1>11. \A x \in Wakes : RowOK(wake'[x], now', relaying')
  BY <1>1, <1>6, <1>8 DEF WolInv
<1>12. ASSUME NEW q \in Postes
       PROVE  /\ HeldOK(q, hb'[q], todo'[q], owed'[q], wake')
              /\ seen'[q] <= now' /\ hb'[q].at <= now'
  <2>1. /\ HeldOK(q, hb[q], todo[q], owed[q], wake) /\ seen[q] <= now /\ hb[q].at <= now
        /\ hb[q] \in WakeRequest /\ todo[q] \in SUBSET Wakes
        /\ owed'[q] \in SUBSET (Wakes \X Verdicts)
    BY <1>9 DEF WolInv, WakeShape
  <2>2. HeldOK(q, hb[q], todo[q], owed'[q], wake)
    BY <1>9, <2>1 DEF HeldOK
  <2>3. \A x \in Wakes : wake[x].status # "none" =>
           /\ wake'[x].status # "none" /\ wake'[x].target = wake[x].target
           /\ wake'[x].created = wake[x].created
    BY <1>4, <1>6 DEF Verdicts
  <2>4. HeldOK(q, hb[q], todo[q], owed'[q], wake')
    BY <2>1, <2>2, <2>3, HeldStill
  <2> QED  BY <1>1, <2>1, <2>4
<1>13. ASSUME NEW x \in Wakes, NEW q \in Postes
       PROVE  Unheard(q, x, wake'[x], seen'[q], hb'[q])
  <2>1. Unheard(q, x, wake[x], seen[q], hb[q])
    BY DEF WolInv
  <2>2. wake'[x].status \in {"pending", "expired"} => wake'[x] = wake[x]
    BY <1>4, <1>6 DEF Verdicts
  <2>3. Unheard(q, x, wake'[x], seen[q], hb[q])
    BY <2>1, <2>2, UnheardStill
  <2> QED  BY <1>1, <2>3
<1> QED  BY <1>10, <1>11, <1>12, <1>13 DEF WolInv

\* Time passes once what was decided is written.
LEMMA TickWol ==
  ASSUME WolInv, Tick
  PROVE  WolInv'
<1>1. /\ now < MaxTime /\ now' = now + 1
      /\ \A w \in Wakes : wake[w].decision \in {"none", "already"} \/ wake[w].status # "none"
      /\ UNCHANGED <<relaying, on, seen, wake, hb, todo, owed, res, switched>>
  BY DEF Tick
<1>2. now \in 1 .. MaxTime /\ MaxTime \in Nat /\ WakeShape /\ Ttl \in Nat
      /\ wake \in [Wakes -> WakeRow]
  BY WolParameters DEF WolInv, WakeShape
<1>3. WakeShape'
  BY <1>1, <1>2 DEF WakeShape
<1>4. ASSUME NEW w \in Wakes
      PROVE  RowOK(wake'[w], now', relaying')
  <2>1. RowOK(wake[w], now, relaying) /\ wake[w].created \in Nat
    BY <1>2, WolParameters DEF WolInv, WakeRow
  <2>2. RowOK(wake[w], now + 1, relaying)
    BY <1>1, <1>2, <2>1 DEF RowOK
  <2> QED  BY <1>1, <2>2
<1>5. ASSUME NEW p \in Postes
      PROVE  /\ HeldOK(p, hb'[p], todo'[p], owed'[p], wake')
             /\ seen'[p] <= now' /\ hb'[p].at <= now'
  <2>1. /\ HeldOK(p, hb[p], todo[p], owed[p], wake) /\ seen[p] <= now /\ hb[p].at <= now
        /\ seen[p] \in Nat /\ hb[p].at \in Nat
    BY WolParameters DEF WolInv, WakeShape, WakeRequest
  <2> QED  BY <1>1, <1>2, <2>1
<1>6. \A w \in Wakes, p \in Postes : Unheard(p, w, wake'[w], seen'[p], hb'[p])
  BY <1>1 DEF WolInv
<1> QED  BY <1>3, <1>4, <1>5, <1>6 DEF WolInv

\* A heartbeat that is answered, or fails, leaves the poste's request free.
LEMMA FreeHeld ==
  ASSUME NEW p, NEW todos, NEW verdicts, NEW rows,
         \A w \in todos : rows[w].status # "none",
         \A v \in verdicts : rows[v[1]].status # "none"
  PROVE  HeldOK(p, NoRequest, todos, verdicts, rows)
BY DEF HeldOK, NoRequest

LEMMA NoRequestIs ==
  NoRequest \in WakeRequest /\ NoRequest.step = "free" /\ NoRequest.at = 0
BY WolParameters DEF NoRequest, WakeRequest

LEMMA BeatAbortWol ==
  ASSUME WolInv, NEW p \in Postes, BeatAbort(p)
  PROVE  WolInv'
<1>1. /\ hb' = [hb EXCEPT ![p] = NoRequest]
      /\ UNCHANGED <<now, relaying, on, seen, wake, todo, owed, res, switched>>
  BY DEF BeatAbort
<1>2. /\ WakeShape /\ hb \in [Postes -> WakeRequest] /\ now \in Nat
  BY WolParameters DEF WolInv, WakeShape
<1>3. /\ hb' \in [Postes -> WakeRequest] /\ hb'[p] = NoRequest
      /\ \A q \in Postes \ {p} : hb'[q] = hb[q]
  BY <1>1, <1>2, NoRequestIs
<1>4. WakeShape'
  BY <1>1, <1>2, <1>3 DEF WakeShape
<1>5. \A w \in Wakes : RowOK(wake'[w], now', relaying')
  BY <1>1 DEF WolInv
<1>6. ASSUME NEW q \in Postes
      PROVE  /\ HeldOK(q, hb'[q], todo'[q], owed'[q], wake')
             /\ seen'[q] <= now' /\ hb'[q].at <= now'
  <2>1. HeldOK(q, hb[q], todo[q], owed[q], wake) /\ seen[q] <= now /\ hb[q].at <= now
    BY DEF WolInv
  <2>2. HeldOK(q, NoRequest, todo[q], owed[q], wake)
    <3>1. /\ \A w \in todo[q] : wake[w].status # "none"
          /\ \A v \in owed[q] : wake[v[1]].status # "none"
      BY <2>1 DEF HeldOK
    <3> QED  BY <3>1, FreeHeld
  <2>3. NoRequest.at <= now
    BY <1>2, NoRequestIs
  <2> QED  BY <1>1, <1>3, <2>1, <2>2, <2>3
<1>7. ASSUME NEW w \in Wakes, NEW q \in Postes
      PROVE  Unheard(q, w, wake'[w], seen'[q], hb'[q])
  <2>1. Unheard(q, w, wake[w], seen[q], hb[q])
    BY DEF WolInv
  <2>2. Unheard(q, w, wake[w], seen[q], NoRequest)
    BY <1>2, <2>1, NoRequestIs DEF Unheard
  <2> QED  BY <1>1, <1>3, <2>1, <2>2
<1> QED  BY <1>4, <1>5, <1>6, <1>7 DEF WolInv

\* A heartbeat takes every wake its poste could relay.
LEMMA BeatReadWol ==
  ASSUME WolInv, NEW p \in Postes, BeatRead(p)
  PROVE  WolInv'
<1> DEFINE ex == {w \in WakesOf(p) : Stale(w)}
           cl == IF relaying THEN Acknowledged(p) \ ex ELSE {}
           cm == IF relaying THEN Claimable(p) ELSE {}
           h == [step |-> "read", expire |-> ex, close |-> cl, claims |-> cm, at |-> now]
<1>1. /\ hb' = [hb EXCEPT ![p] = h]
      /\ UNCHANGED <<now, relaying, on, seen, wake, todo, owed, res, switched>>
  BY DEF BeatRead
<1>2. /\ WakeShape /\ hb \in [Postes -> WakeRequest] /\ now \in 1 .. MaxTime
      /\ wake \in [Wakes -> WakeRow] /\ MaxTime \in Nat /\ Ttl \in Nat /\ Grace \in Nat
  BY WolParameters DEF WolInv, WakeShape
<1>3. ex \in SUBSET Wakes /\ cl \in SUBSET Wakes /\ cm \in SUBSET Wakes
  BY DEF WakesOf, Acknowledged, Claimable
<1>4. /\ \A w \in ex : wake[w].status # "none" /\ wake[w].target = p /\ wake[w].created + Ttl <= now
      /\ \A w \in cl : wake[w].status # "none" /\ wake[w].target = p
      /\ cl \cap ex = {}
      /\ \A w \in cm : wake[w].status # "none" /\ SharesWire(p, wake[w].target)
  BY DEF WakesOf, Stale, ExpiresAt, Acknowledged, OpenStatuses, Claimable, MayClaim
<1>5. ASSUME NEW w \in Wakes, wake[w].status \in {"pending", "expired"}, Could(p, wake[w], now)
      PROVE  w \in cm
  <2>1. RowOK(wake[w], now, relaying) /\ wake[w].created \in Nat
    BY <1>2 DEF WolInv, WakeRow
  <2>2. /\ SharesWire(p, wake[w].target) /\ now < wake[w].created + Ttl
        /\ SameSubnet(p, wake[w].target) \/ now >= wake[w].created + Grace
    BY <1>5 DEF Could
  <2>3. wake[w].status = "pending"
    BY <1>2, <1>5, <2>1, <2>2 DEF RowOK
  <2>4. relaying /\ Known(wake[w].target) /\ wake[w].relay = None
    BY <2>1, <2>3 DEF RowOK
  <2>5. now - wake[w].created >= Grace <=> now >= wake[w].created + Grace
    BY <1>2, <2>1
  <2>6. MayClaim(p, wake[w].target, wake[w].created, now)
    BY <2>2, <2>5 DEF MayClaim
  <2>7. ExpiresAt(w) > now
    BY <1>2, <2>1, <2>2 DEF ExpiresAt
  <2> QED  BY <2>3, <2>4, <2>6, <2>7 DEF Claimable
<1> HIDE DEF ex, cl, cm
<1>6. /\ h \in WakeRequest /\ h.step = "read" /\ h.at = now /\ h.expire = ex /\ h.close = cl
      /\ h.claims = cm
  BY <1>2, <1>3 DEF WakeRequest
<1> HIDE DEF h
<1>7. /\ hb' \in [Postes -> WakeRequest] /\ hb'[p] = h
      /\ \A q \in Postes \ {p} : hb'[q] = hb[q]
  BY <1>1, <1>2, <1>6
<1>8. WakeShape'
  BY <1>1, <1>2, <1>7 DEF WakeShape
<1>9. \A w \in Wakes : RowOK(wake'[w], now', relaying')
  BY <1>1 DEF WolInv
<1>10. ASSUME NEW q \in Postes
       PROVE  /\ HeldOK(q, hb'[q], todo'[q], owed'[q], wake')
              /\ seen'[q] <= now' /\ hb'[q].at <= now'
  <2>1. HeldOK(q, hb[q], todo[q], owed[q], wake) /\ seen[q] <= now /\ hb[q].at <= now
    BY DEF WolInv
  <2>2. q = p => HeldOK(q, h, todo[q], owed[q], wake)
    BY <1>4, <1>6, <2>1 DEF HeldOK
  <2> QED  BY <1>1, <1>2, <1>6, <1>7, <2>1, <2>2
<1>11. ASSUME NEW w \in Wakes, NEW q \in Postes
       PROVE  Unheard(q, w, wake'[w], seen'[q], hb'[q])
  <2>1. Unheard(q, w, wake[w], seen[q], hb[q])
    BY DEF WolInv
  <2>2. q = p => Unheard(q, w, wake[w], seen[q], h)
    BY <1>5, <1>6, <2>1 DEF Unheard
  <2> QED  BY <1>1, <1>7, <2>1, <2>2
<1> QED  BY <1>8, <1>9, <1>10, <1>11 DEF WolInv

\* What a heartbeat writes of a row, whatever became of it.
LEMMA WrittenIs ==
  ASSUME WolInv, NEW p \in Postes, hb[p].step = "read", NEW w \in Wakes
  PROVE  LET n == Written(w, p)
         IN  /\ n \in WakeRow /\ RowOK(n, now, relaying)
             /\ wake[w].status # "none" =>
                  n.status # "none" /\ n.target = wake[w].target /\ n.created = wake[w].created
             /\ n.status \in {"pending", "expired"} =>
                  wake[w].status \in {"pending", "expired"} /\ w \notin hb[p].claims
<1> DEFINE m == wake[w]
           n == Written(w, p)
           taken == [m EXCEPT !.status = "delivered", !.relay = p]
           closed == [m EXCEPT !.status = "succeeded"]
           gone == [m EXCEPT !.status = "expired"]
<1>1. /\ m \in WakeRow /\ RowOK(m, now, relaying) /\ hb[p] \in WakeRequest /\ hb[p].at <= now
      /\ HeldOK(p, hb[p], todo[p], owed[p], wake) /\ now \in Nat /\ Ttl \in Nat
      /\ m.created \in Nat
  BY WolParameters DEF WolInv, WakeShape, WakeRow
<1>2. /\ w \in hb[p].claims => m.status # "none" /\ SharesWire(p, m.target)
      /\ w \in hb[p].close => m.status # "none" /\ m.target = p /\ w \notin hb[p].expire
      /\ w \in hb[p].expire => m.status # "none" /\ m.target = p /\ m.created + Ttl <= hb[p].at
  BY <1>1 DEF HeldOK
<1>3. ~SharesWire(p, p)
  BY DEF SharesWire
<1>4. /\ w \in hb[p].claims => n = taken /\ w \notin hb[p].close /\ w \notin hb[p].expire
      /\ w \in hb[p].close => n = closed
      /\ w \in hb[p].expire /\ m.status = "pending" => n = gone
      /\ w \notin hb[p].claims /\ w \notin hb[p].close
            /\ ~(w \in hb[p].expire /\ m.status = "pending") => n = m
  BY <1>2, <1>3 DEF Written
<1>5. m.status # "none" => m.decision # "none"
  BY <1>1 DEF RowOK, NoRow
<1> HIDE DEF m, n
<1>6. /\ taken \in WakeRow /\ taken.status = "delivered" /\ taken.relay = p
      /\ taken.decision = m.decision /\ taken.target = m.target /\ taken.created = m.created
  BY <1>1 DEF WakeRow, OpenStatuses
<1>7. /\ closed \in WakeRow /\ closed.status = "succeeded" /\ closed.relay = m.relay
      /\ closed.decision = m.decision /\ closed.target = m.target /\ closed.created = m.created
  BY <1>1 DEF WakeRow, Terminal
<1>8. /\ gone \in WakeRow /\ gone.status = "expired" /\ gone.relay = m.relay
      /\ gone.decision = m.decision /\ gone.target = m.target /\ gone.created = m.created
  BY <1>1 DEF WakeRow, Terminal
<1> HIDE DEF taken, closed, gone
<1>9. CASE w \in hb[p].claims
  <2>1. RowOK(taken, now, relaying)
    BY <1>1, <1>2, <1>5, <1>6, <1>9 DEF RowOK
  <2> QED  BY <1>2, <1>4, <1>6, <1>9, <2>1 DEF m, n
<1>10. CASE w \in hb[p].close
  <2>1. RowOK(closed, now, relaying)
    BY <1>1, <1>2, <1>5, <1>7, <1>10 DEF RowOK
  <2> QED  BY <1>2, <1>4, <1>7, <1>10, <2>1 DEF m, n
<1>11. CASE w \in hb[p].expire /\ m.status = "pending"
  <2>1. m.created + Ttl <= now
    BY <1>1, <1>2, <1>11 DEF WakeRequest
  <2>2. RowOK(gone, now, relaying)
    BY <1>1, <1>2, <1>5, <1>8, <1>11, <2>1 DEF RowOK
  <2> QED  BY <1>2, <1>4, <1>8, <1>11, <2>2 DEF m, n
<1>12. CASE /\ w \notin hb[p].claims /\ w \notin hb[p].close
            /\ ~(w \in hb[p].expire /\ m.status = "pending")
  BY <1>1, <1>4, <1>12 DEF m, n
<1> QED  BY <1>9, <1>10, <1>11, <1>12

LEMMA BeatCommitWol ==
  ASSUME WolInv, NEW p \in Postes, BeatCommit(p)
  PROVE  WolInv'
<1>1. /\ hb[p].step = "read" /\ wake' = [w \in Wakes |-> Written(w, p)]
      /\ seen' = [seen EXCEPT ![p] = hb[p].at]
      /\ todo' = [todo EXCEPT ![p] = todo[p] \cup hb[p].claims] \/ todo' = todo
      /\ hb' = [hb EXCEPT ![p] = NoRequest]
      /\ UNCHANGED <<now, relaying, on, owed, res, switched>>
  <2>1. PICK received \in {TRUE, FALSE} :
          todo' = [todo EXCEPT ![p] = IF received THEN todo[p] \cup hb[p].claims ELSE todo[p]]
    BY DEF BeatCommit
  <2>2. todo \in [Postes -> SUBSET Wakes]
    BY DEF WolInv, WakeShape
  <2>3. todo' = [todo EXCEPT ![p] = todo[p] \cup hb[p].claims] \/ todo' = todo
    <3>1. CASE received = TRUE
      BY <2>1, <3>1
    <3>2. CASE received = FALSE
      BY <2>1, <2>2, <3>2
    <3> QED  BY <3>1, <3>2
  <2> QED  BY <2>3 DEF BeatCommit
<1>2. /\ WakeShape /\ hb \in [Postes -> WakeRequest] /\ now \in Nat
      /\ seen \in [Postes -> 0 .. MaxTime] /\ todo \in [Postes -> SUBSET Wakes]
      /\ owed \in [Postes -> SUBSET (Wakes \X Verdicts)]
      /\ hb[p].at \in 0 .. MaxTime /\ hb[p].at <= now /\ hb[p].claims \in SUBSET Wakes
  BY WolParameters DEF WolInv, WakeShape, WakeRequest
<1>3. ASSUME NEW w \in Wakes
      PROVE  /\ wake'[w] \in WakeRow /\ RowOK(wake'[w], now, relaying)
             /\ wake[w].status # "none" =>
                  /\ wake'[w].status # "none" /\ wake'[w].target = wake[w].target
                  /\ wake'[w].created = wake[w].created
             /\ wake'[w].status \in {"pending", "expired"} =>
                  wake[w].status \in {"pending", "expired"} /\ w \notin hb[p].claims
  <2>1. wake'[w] = Written(w, p)
    BY <1>1
  <2> QED  BY <1>1, <2>1, WrittenIs
<1>4. wake' \in [Wakes -> WakeRow]
  BY <1>1, <1>3
<1>5. /\ hb' \in [Postes -> WakeRequest] /\ hb'[p] = NoRequest
      /\ \A q \in Postes \ {p} : hb'[q] = hb[q]
  BY <1>1, <1>2, NoRequestIs
<1>6. /\ seen' \in [Postes -> 0 .. MaxTime] /\ seen'[p] = hb[p].at
      /\ \A q \in Postes \ {p} : seen'[q] = seen[q]
  BY <1>1, <1>2
<1>7. /\ todo' \in [Postes -> SUBSET Wakes] /\ todo'[p] \subseteq todo[p] \cup hb[p].claims
      /\ \A q \in Postes \ {p} : todo'[q] = todo[q]
  BY <1>1, <1>2
<1>8. WakeShape'
  BY <1>1, <1>2, <1>4, <1>5, <1>6, <1>7 DEF WakeShape
<1>9. \A w \in Wakes : RowOK(wake'[w], now', relaying')
  BY <1>1, <1>3
<1>10. ASSUME NEW q \in Postes
       PROVE  /\ HeldOK(q, hb'[q], todo'[q], owed'[q], wake')
              /\ seen'[q] <= now' /\ hb'[q].at <= now'
  <2>1. /\ HeldOK(q, hb[q], todo[q], owed[q], wake) /\ seen[q] <= now /\ hb[q].at <= now
        /\ hb[q] \in WakeRequest /\ todo[q] \in SUBSET Wakes
        /\ owed[q] \in SUBSET (Wakes \X Verdicts)
    BY <1>2 DEF WolInv
  <2>2. HeldOK(q, hb[q], todo[q], owed[q], wake')
    BY <1>3, <2>1, HeldStill
  <2>3. q = p => HeldOK(q, NoRequest, todo'[q], owed[q], wake')
    <3>1. /\ \A w \in todo[q] : wake[w].status # "none"
          /\ \A v \in owed[q] : wake[v[1]].status # "none"
          /\ q = p => \A w \in hb[p].claims : wake[w].status # "none"
      BY <2>1 DEF HeldOK
    <3>2. \A v \in owed[q] : v[1] \in Wakes
      BY <2>1
    <3>3. q = p => /\ \A w \in todo'[q] : wake'[w].status # "none"
                   /\ \A v \in owed[q] : wake'[v[1]].status # "none"
      BY <1>2, <1>3, <1>7, <2>1, <3>1, <3>2
    <3> QED  BY <3>3, FreeHeld
  <2>4. NoRequest.at <= now
    BY <1>2, NoRequestIs
  <2> QED  BY <1>1, <1>2, <1>5, <1>6, <1>7, <2>1, <2>2, <2>3, <2>4
<1>11. ASSUME NEW w \in Wakes, NEW q \in Postes
       PROVE  Unheard(q, w, wake'[w], seen'[q], hb'[q])
  <2>1. Unheard(q, w, wake[w], seen[q], hb[q])
    BY DEF WolInv
  <2>2. Unheard(q, w, wake'[w], seen[q], hb[q])
    <3>1. wake'[w].status \in {"pending", "expired"} =>
            /\ wake[w].status \in {"pending", "expired"} /\ wake'[w].target = wake[w].target
            /\ wake'[w].created = wake[w].created
      BY <1>3
    <3> QED  BY <2>1, <3>1, UnheardStill
  <2>3. q = p => Unheard(q, w, wake'[w], hb[p].at, NoRequest)
    BY <1>1, <1>2, <1>3, <2>2, NoRequestIs DEF Unheard
  <2> QED  BY <1>5, <1>6, <2>2, <2>3
<1> QED  BY <1>8, <1>9, <1>10, <1>11 DEF WolInv

LEMMA NextWolInv == WolInv /\ [WolNext]_wolVars => WolInv'
<1> SUFFICES ASSUME WolInv, [WolNext]_wolVars
             PROVE  WolInv'
  OBVIOUS
<1>1. ASSUME NEW w \in Wakes, WakeCommit(w) \/ \E t \in Targets : WakeMachines(w, t)
      PROVE  WolInv'
  BY <1>1, WakeCommitWol, WakeMachinesWol
<1>2. CASE Sweep
  BY <1>2, SweepWol
<1>3. CASE Tick
  BY <1>3, TickWol
<1>4. ASSUME NEW p \in Postes, BeatRead(p) \/ BeatCommit(p) \/ BeatAbort(p)
      PROVE  WolInv'
  BY <1>4, BeatReadWol, BeatCommitWol, BeatAbortWol
<1>5. ASSUME NEW p \in Postes, PowerOn(p) \/ PowerOff(p)
      PROVE  WolInv'
  BY <1>5, PowerWol
<1>6. ASSUME NEW p \in Postes, NEW w \in Wakes, NEW v \in Verdicts,
             Emit(p, w, v) \/ ResultRead(p, <<w, v>>) \/ ResultCommit(p, <<w, v>>)
      PROVE  WolInv'
  <2>1. <<w, v>> \in Wakes \X Verdicts
    OBVIOUS
  <2> QED  BY <1>6, <2>1, EmitWol, ResultReadWol, ResultCommitWol
<1>7. CASE UNCHANGED wolVars
  <2>1. UNCHANGED <<now, relaying, on, seen, wake, hb, todo, owed, res, switched>>
    BY <1>7 DEF wolVars
  <2>2. WakeShape' /\ \A p \in Postes : /\ \A w \in todo'[p] : wake[w].status # "none"
                                        /\ \A v \in owed'[p] : wake[v[1]].status # "none"
    BY <2>1 DEF WolInv, WakeShape, HeldOK
  <2> QED  BY <2>1, <2>2, AgentMoves
<1> QED  BY <1>1, <1>2, <1>3, <1>4, <1>5, <1>6, <1>7 DEF WolNext, Verdicts

LEMMA WolInvHolds == WolInv => ExpiredUnheard
<1> SUFFICES ASSUME WolInv
             PROVE  ExpiredUnheard
  OBVIOUS
<1>1. /\ WakeShape /\ now \in 1 .. MaxTime /\ wake \in [Wakes -> WakeRow] /\ MaxTime \in Nat
      /\ seen \in [Postes -> 0 .. MaxTime] /\ hb \in [Postes -> WakeRequest] /\ Ttl \in Nat
      /\ Grace \in Nat
  BY WolParameters DEF WolInv, WakeShape
<1>2. ASSUME NEW w \in Wakes
      PROVE  /\ wake[w].status \in {"none"} \cup OpenStatuses \cup Terminal
             /\ wake[w].decision \in {"none", "already", "pending", "succeeded", "failed"}
             /\ wake[w].status # "none" => wake[w].target \in Postes /\ wake[w].created \in 1 .. now
             /\ wake[w].relay \in Postes \cup {None}
             /\ wake[w].relay # None => SharesWire(wake[w].relay, wake[w].target)
  <2>1. wake[w] \in WakeRow /\ RowOK(wake[w], now, relaying)
    BY <1>1 DEF WolInv
  <2>2. wake[w].status # "none" => wake[w].decision # "none"
    BY <2>1 DEF RowOK, NoRow
  <2> QED  BY <2>1, <2>2 DEF WakeRow, RowOK
<1>3. ASSUME NEW p \in Postes
      PROVE  /\ hb[p].step = "free" => hb[p] = NoRequest
             /\ hb[p].expire \cup hb[p].close \cup hb[p].claims \subseteq Wakes
             /\ todo[p] \subseteq Wakes
             /\ owed[p] \subseteq Wakes \X {"succeeded", "failed"}
             /\ res[p] \subseteq owed[p]
  BY <1>1 DEF WolInv, HeldOK, WakeShape, WakeRequest, Verdicts
<1>4. WolTypes
  BY <1>1, <1>2, <1>3 DEF WolTypes, WakeShape
<1>5. ASSUME NEW w \in Wakes, wake[w].status = "expired", NEW p \in Postes,
             SharesWire(p, wake[w].target)
      PROVE  ~ /\ seen[p] > wake[w].created
               /\ SameSubnet(p, wake[w].target) \/ seen[p] >= wake[w].created + Grace
               /\ seen[p] < ExpiresAt(w)
  <2>1. ~Could(p, wake[w], seen[p])
    BY <1>5 DEF WolInv, Unheard
  <2> QED  BY <1>5, <2>1 DEF Could, ExpiresAt
<1> QED  BY <1>4, <1>5 DEF ExpiredUnheard

\* A wake that expired was one nobody could carry: no poste that shares its wire was
\* last heard from while it could claim it, from its click, or from the end of the
\* grace off its subnet, to its expiry (may_claim, relay.py:97), however heartbeats
\* overlap.
THEOREM NobodyHeard == WolSpec => []ExpiredUnheard
<1>1. WolInit => WolInv
  BY InitWolInv
<1>2. WolInv /\ [WolNext]_wolVars => WolInv'
  BY NextWolInv
<1>3. WolInv => ExpiredUnheard
  BY WolInvHolds
<1> QED  BY <1>1, <1>2, <1>3, PTL DEF WolSpec
=============================================================================
