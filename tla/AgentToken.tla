----------------------------- MODULE AgentToken -----------------------------
(***************************************************************************)
(* The credential of one poste: the machine row (current and pending token *)
(* hashes, revocation, held re-enrollment), the requests that read and     *)
(* write it (enroll, machine_for_token in front of every agent endpoint,   *)
(* the heartbeat's offer, revoke-token, allow-reenroll), and the agent's   *)
(* two copies of the token, in memory and in token.dat.                    *)
(*                                                                         *)
(* A token stands for its hash.  A handler loads the row, then commits:    *)
(* other transactions may commit in between, and an UPDATE writes only the *)
(* columns whose value differs from the one loaded (Flush).  Tokens no     *)
(* longer held by anything are minted again, so behaviours are not bounded *)
(* by the number of tokens.                                                *)
(*                                                                         *)
(* Not here: fingerprints and needs_verification, merges, agents too old   *)
(* to announce supports_token_rotation (they are never offered a token).   *)
(***************************************************************************)
EXTENDS Naturals, FiniteSets

CONSTANTS
    Token,        \* tokens
    NoToken,      \* no token: NULL on the row, "" in the agent
    Approval,     \* ENROLLMENT_REENROLL_REQUIRES_APPROVAL
    Rotates,      \* AGENT_TOKEN_ROTATE_DAYS > 0
    Results,      \* bound: command results in flight
    Late          \* bound: requests their sender gave up on, still at the
                  \* server when the agent polls again

ASSUME TokenAssumption ==
    /\ NoToken \notin Token
    /\ Approval \in BOOLEAN /\ Rotates \in BOOLEAN
    /\ Results \in Nat /\ Late \in Nat

VARIABLES
    row,          \* the machine row
    reqs,         \* the agent's requests under way
    adm,          \* the administrator's request under way
    loop,         \* where the agent's polling loop is
    mem, disk,    \* the agent's token: cfg.AuthToken, token.dat
    got,          \* a renewed token received, not used yet
    struck,       \* history: tokens an administrator or an enrollment ended
    used          \* history: tokens a request was authenticated by

agent == <<loop, mem, disk, got>>
hist  == <<struck, used>>
vars  == <<row, reqs, adm, agent, hist>>

Maybe == Token \cup {NoToken}
Row == [known : BOOLEAN, current : Maybe, pending : Maybe, revoked : BOOLEAN,
        held : BOOLEAN, aged : BOOLEAN]
NewRow == [known |-> FALSE, current |-> NoToken, pending |-> NoToken,
           revoked |-> FALSE, held |-> FALSE, aged |-> FALSE]

Req == [kind : {"enroll", "heartbeat", "result"}, token : Maybe,
        live : BOOLEAN, recent : BOOLEAN, step : {"sent", "promote", "refresh", "loaded"},
        seen : Row]
Adm == [op : {"none", "revoke", "allow"}, seen : Row]
Idle == [op |-> "none", seen |-> NewRow]

TypeOK ==
    /\ row \in Row /\ reqs \subseteq Req /\ adm \in Adm
    /\ loop \in {"start", "sleep", "enroll", "enrolled", "heartbeat", "renew", "switch"}
    /\ mem \in Maybe /\ disk \in Maybe /\ got \in Maybe
    /\ struck \subseteq Token /\ used \subseteq Token

Init ==
    /\ row = NewRow /\ reqs = {} /\ adm = Idle
    /\ loop = "start" /\ mem = NoToken /\ disk = NoToken /\ got = NoToken
    /\ struck = {} /\ used = {}

-----------------------------------------------------------------------------
Honoured == {row.current, row.pending} \ {NoToken}

\* generate_token: never one that is still written, held or travelling somewhere.
InUse == {row.current, row.pending, mem, disk, got}
         \cup (UNION {{m.token, m.seen.current, m.seen.pending} : m \in reqs})
         \cup {adm.seen.current, adm.seen.pending}
Fresh == Token \ InUse

\* The columns an UPDATE writes: those that differ from what was loaded.
Column(loaded, value, stored) == IF value = loaded THEN stored ELSE value
Flush(seen, new) ==
    [known   |-> new.known,
     current |-> Column(seen.current, new.current, row.current),
     pending |-> Column(seen.pending, new.pending, row.pending),
     revoked |-> Column(seen.revoked, new.revoked, row.revoked),
     held    |-> Column(seen.held, new.held, row.held),
     aged    |-> Column(seen.aged, new.aged, row.aged)]

Moved(m, step, seen) == (reqs \ {m}) \cup {[m EXCEPT !.step = step, !.seen = seen]}

\* What the polling loop does with the answer to its own request.
LoopOnly(m) == m.live /\ m.kind # "result"
Fails(m) ==
    /\ loop' = IF LoopOnly(m) THEN "sleep" ELSE loop
    /\ UNCHANGED <<mem, disk, got>>

\* 401 on a heartbeat: dropToken; removing token.dat may fail.
Unauthorized(m) ==
    IF m.live /\ m.kind = "heartbeat"
    THEN /\ loop' = "sleep" /\ mem' = NoToken
         /\ disk' \in {disk, NoToken}
         /\ UNCHANGED got
    ELSE UNCHANGED agent

-----------------------------------------------------------------------------
(* The server: machine_for_token, in front of heartbeats and results.       *)

Matches(t) == row.known /\ t \in Honoured

\* A result, or a download, changes nothing more here: it is done.
Handled(m, step, seen) == IF m.kind = "result" THEN reqs \ {m} ELSE Moved(m, step, seen)

\* Load: refused, authenticated by the current token, or by the pending one.
Authenticate(m) ==
    /\ m.kind # "enroll" /\ m.step = "sent"
    /\ IF ~Matches(m.token) \/ row.revoked
       THEN reqs' = reqs \ {m} /\ Unauthorized(m) /\ UNCHANGED used
       ELSE /\ UNCHANGED agent
            /\ IF m.token # row.current
               THEN reqs' = Moved(m, "promote", row) /\ UNCHANGED used
               ELSE /\ used' = used \cup {m.token}
                    /\ reqs' = Handled(m, "loaded", row)
    /\ UNCHANGED <<row, adm, struck>>

\* Faulty variant: the proved token stays pending.
PromotedKept(m) == [m.seen EXCEPT !.current = m.seen.pending, !.aged = FALSE]

\* promote_pending and its own commit.
Promoted(m) == [m.seen EXCEPT !.current = m.seen.pending, !.pending = NoToken,
                              !.aged = FALSE]
Promote(m) ==
    /\ m.step = "promote"
    /\ row' = Flush(m.seen, Promoted(m))
    /\ used' = used \cup {m.token}
    /\ reqs' = Handled(m, "refresh", NewRow)
    /\ UNCHANGED <<adm, agent, struck>>

\* session.refresh: the handler goes on with the row as it is now.
Refresh(m) ==
    /\ m.step = "refresh"
    /\ reqs' = Moved(m, "loaded", row)
    /\ UNCHANGED <<row, adm, agent, hist>>

\* rotation_due
RotationDue(seen) == Rotates /\ (seen.pending # NoToken \/ seen.aged)

\* offer_new_token
Offered(seen, new) == [seen EXCEPT !.pending = new]

\* The end of heartbeat: a token is offered when due, and committed with the rest.
HeartbeatCommit(m) ==
    /\ m.kind = "heartbeat" /\ m.step = "loaded"
    /\ reqs' = reqs \ {m}
    /\ IF RotationDue(m.seen)
       THEN \E new \in Fresh :
            /\ row' = Flush(m.seen, Offered(m.seen, new))
            /\ struck' = struck \ {new} /\ used' = used \ {new}
            /\ IF m.live THEN loop' = "renew" /\ got' = new /\ UNCHANGED <<mem, disk>>
                         ELSE UNCHANGED agent
       ELSE Fails(m) /\ UNCHANGED <<row, hist>>
    /\ UNCHANGED adm

-----------------------------------------------------------------------------
(* POST /agent/enroll.                                                      *)

EnrollLoad(m) ==
    /\ m.kind = "enroll" /\ m.step = "sent"
    /\ IF row.known /\ row.revoked
       THEN reqs' = reqs \ {m} /\ Fails(m)
       ELSE reqs' = Moved(m, "loaded", row) /\ UNCHANGED agent
    /\ UNCHANGED <<row, adm, hist>>

\* Faulty variant: held only if an earlier request already is.
NeedsApprovalTwice(seen) == Approval /\ seen.known /\ seen.held

\* A poste that still holds a live token is not given another.
NeedsApproval(seen) == Approval /\ seen.known /\ seen.current # NoToken

\* The request is recorded for an administrator, and refused.
EnrollHeld(m) ==
    /\ m.kind = "enroll" /\ m.step = "loaded" /\ NeedsApproval(m.seen)
    /\ row' = [row EXCEPT !.held = TRUE]
    /\ reqs' = reqs \ {m} /\ Fails(m)
    /\ UNCHANGED <<adm, hist>>

Enrolled(seen, new) ==
    [seen EXCEPT !.known = TRUE, !.current = new, !.pending = NoToken,
                 !.held = FALSE, !.aged = FALSE]
EnrollMint(m) ==
    /\ m.kind = "enroll" /\ m.step = "loaded" /\ ~NeedsApproval(m.seen)
    /\ m.seen.known = row.known     \* else the insert breaks the unique key
    /\ reqs' = reqs \ {m}
    /\ \E new \in Fresh :
       /\ row' = Flush(m.seen, Enrolled(m.seen, new))
       /\ struck' = (struck \cup Honoured) \ {new} /\ used' = used \ {new}
       /\ IF m.live THEN loop' = "enrolled" /\ mem' = new /\ UNCHANGED <<disk, got>>
                    ELSE UNCHANGED agent
    /\ UNCHANGED adm

-----------------------------------------------------------------------------
(* The network, and a handler that fails and rolls back.                    *)

Lost(m) ==
    /\ reqs' = reqs \ {m} /\ Fails(m)
    /\ UNCHANGED <<row, adm, hist>>

\* The client gives up after its time-out: the server still handles the request.
Timeout(m) ==
    /\ m.live
    /\ reqs' = (reqs \ {m}) \cup {[m EXCEPT !.live = FALSE]} /\ Fails(m)
    /\ UNCHANGED <<row, adm, hist>>

-----------------------------------------------------------------------------
(* The administrator: revoke-token and allow-reenroll.                      *)

AdminLoad(op) ==
    /\ adm.op = "none" /\ row.known
    /\ adm' = [op |-> op, seen |-> row]
    /\ UNCHANGED <<row, reqs, agent, hist>>

Revoked(seen) == [seen EXCEPT !.revoked = TRUE, !.pending = NoToken]
RevokeCommit ==
    /\ adm.op = "revoke"
    /\ row' = Flush(adm.seen, Revoked(adm.seen))
    /\ struck' = struck \cup ({row.pending} \ {NoToken})
    /\ adm' = Idle
    /\ UNCHANGED <<reqs, agent, used>>

Allowed(seen) == [seen EXCEPT !.revoked = FALSE, !.current = NoToken,
                              !.pending = NoToken, !.held = FALSE]
AllowCommit ==
    /\ adm.op = "allow"
    /\ row' = Flush(adm.seen, Allowed(adm.seen))
    /\ struck' = struck \cup Honoured
    /\ adm' = Idle
    /\ UNCHANGED <<reqs, agent, used>>

\* AGENT_TOKEN_ROTATE_DAYS go by; no request lasts that long.
Age ==
    /\ reqs = {} /\ adm.op = "none" /\ row.current # NoToken
    /\ row' = [row EXCEPT !.aged = TRUE]
    /\ UNCHANGED <<reqs, adm, agent, hist>>

-----------------------------------------------------------------------------
(* The agent.                                                               *)

\* live: its sender still waits; recent: sent since the loop went to sleep.
Request(kind) == [kind |-> kind, token |-> IF kind = "enroll" THEN NoToken ELSE mem,
                  live |-> TRUE, recent |-> loop = "sleep", step |-> "sent",
                  seen |-> NewRow]

\* A poll starts: enrollment if there is no token, else a heartbeat.  The interval
\* is longer than a request's time-out: what was sent before it is over, or late.
PollStart ==
    /\ loop \in {"start", "sleep"}
    /\ Cardinality({m \in reqs : ~m.recent}) <= Late
    /\ LET kind == IF mem = NoToken THEN "enroll" ELSE "heartbeat"
       IN /\ loop' = kind
          /\ reqs' = {[m EXCEPT !.recent = FALSE] : m \in reqs \cup {Request(kind)}}
    /\ UNCHANGED <<row, adm, mem, disk, got, hist>>

\* The worker, or the flush of its queue, posts a result: never before a first poll.
SendResult ==
    /\ loop # "start" /\ mem # NoToken
    /\ Cardinality({m \in reqs : m.kind = "result"}) < Results
    /\ reqs' = reqs \cup {Request("result")}
    /\ UNCHANGED <<row, adm, agent, hist>>

\* After enrollment: in memory first, then on disk; a failed write ends the tick.
StoreEnrolled ==
    /\ loop = "enrolled"
    /\ \/ /\ disk' = mem /\ loop' = "heartbeat"
          /\ reqs' = reqs \cup {Request("heartbeat")}
       \/ loop' = "sleep" /\ UNCHANGED <<disk, reqs>>
    /\ UNCHANGED <<row, adm, mem, got, hist>>

\* Faulty variant: the renewed token is used before it is stored.
StoreRenewedLast ==
    /\ loop = "renew"
    /\ \/ mem' = got /\ loop' = "switch" /\ UNCHANGED got
       \/ loop' = "sleep" /\ mem' = got /\ got' = NoToken
    /\ UNCHANGED <<disk, row, reqs, adm, hist>>

\* adoptRotatedToken: stored before it is used; a failed write keeps the old one.
StoreRenewed ==
    /\ loop = "renew"
    /\ \/ disk' = got /\ loop' = "switch" /\ UNCHANGED got
       \/ loop' = "sleep" /\ got' = NoToken /\ UNCHANGED disk
    /\ UNCHANGED <<mem, row, reqs, adm, hist>>

Switch ==
    /\ loop = "switch"
    /\ mem' = got /\ got' = NoToken /\ loop' = "sleep"
    /\ UNCHANGED <<disk, row, reqs, adm, hist>>

\* The service restarts on what token.dat holds; a file it cannot read is no token.
Restart ==
    /\ mem' \in {disk, NoToken}
    /\ loop' = "start" /\ got' = NoToken
    /\ reqs' = {[m EXCEPT !.live = FALSE, !.recent = FALSE] : m \in reqs}
    /\ UNCHANGED <<disk, row, adm, hist>>

-----------------------------------------------------------------------------
Server ==
    \/ \E m \in reqs :
          \/ Authenticate(m) \/ Promote(m) \/ Refresh(m)
          \/ HeartbeatCommit(m) \/ EnrollLoad(m) \/ EnrollHeld(m) \/ EnrollMint(m)
          \/ Lost(m) \/ Timeout(m)
    \/ \E op \in {"revoke", "allow"} : AdminLoad(op)
    \/ RevokeCommit \/ AllowCommit \/ Age

Agent ==
    \/ PollStart \/ SendResult \/ StoreEnrolled \/ StoreRenewed \/ Switch \/ Restart

Next == Server \/ Agent

Spec == Init /\ [][Next]_vars

-----------------------------------------------------------------------------
(* What a correct credential protocol promises.                             *)

\* "The server must never stop honouring a token the agent may still be holding":
\* in memory, on disk or just received, unless an administrator or a new
\* enrollment ended it.  True as long as no request outlives the next poll.
HeldTokenHonoured ==
    \A t \in {mem, disk, got} \ {NoToken} :
        t \notin struck /\ ~row.revoked => t \in Honoured

\* Two tokens are honoured only until the new one is used: the first request that
\* proves it retires the old one.
ProvedTokenIsCurrent == row.pending \notin used

\* An enrollment gives a token to a poste that holds none: a live token is only
\* ever replaced by one its holder has proved, or cleared by an administrator.
NoTakeover ==
    [][row.current # NoToken /\ row'.current # row.current
       => row'.current \in used' \cup {NoToken}]_vars

=============================================================================
