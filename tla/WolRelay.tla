------------------------------- MODULE WolRelay -------------------------------
(***************************************************************************)
(* Waking a poste that is off (backend/app/features/wol): the magic packet *)
(* the server emits itself or, when it is not on the postes' network, the  *)
(* row it queues for a poste of the target's site to claim on a heartbeat, *)
(* emit, and report; and the target's own heartbeat, the one               *)
(* acknowledgement a wake can have.                                        *)
(*                                                                         *)
(* A request of the console or of an agent reads the database in one step  *)
(* and writes it in another; what it writes is decided by what it read.    *)
(***************************************************************************)
EXTENDS Integers, Sequences, FiniteSets

CONSTANTS
  Postes,
  AtFirst,          \* the postes that are on at first, one of these sets
  Targets,          \* the postes the console may ask to wake
  Profile,          \* what each poste last reported of itself
  Wakes,            \* clicks on "wake" (bound), each leaves at most one row
  RelayEnabled,     \* WOL_RELAY_ENABLED may be either of these
  Ttl, Grace, OfflineAfter,
  AddressBits, DefaultPrefix, Configured,  \* addressing of the server's own packets
  ZeroMac, BroadcastMac, MacLength,
  MaxTime, MaxPower \* bounds: the clock, the postes switched on or off

None == 0           \* a column that is NULL: no site, address, mask, relay

ASSUME ParcAssumption ==
  /\ None \notin Postes
  /\ Targets \subseteq Postes /\ AtFirst \subseteq SUBSET Postes
  /\ RelayEnabled \subseteq BOOLEAN
  /\ \A n \in {Ttl, Grace, OfflineAfter, AddressBits, DefaultPrefix, MaxPower} : n \in Nat
  /\ MaxTime \in Nat \ {0}

VARIABLES
  now,      \* the clock of the server
  relaying, \* whether WOL_RELAY_ENABLED is set
  on,       \* the postes that are powered and run their agent
  seen,     \* last_seen of each machine
  wake,      \* the wake_on_lan row of each click
  hb,       \* the heartbeat request of each poste
  todo,     \* wakes each agent has been handed and not emitted
  owed,     \* verdicts each agent has not had answered
  res,      \* the results the server is handling
  switched  \* postes switched on or off so far (bound)

wolVars == <<now, relaying, on, seen, wake, hb, todo, owed, res, switched>>

-----------------------------------------------------------------------------
(* Addresses.  A reported address is a sequence of bytes and whether it is *)
(* written in hexadecimal; the separators are dropped when it is parsed.   *)

ParseMac(a) ==
  IF a.hex /\ Len(a.bytes) = MacLength /\ a.bytes \notin {ZeroMac, BroadcastMac}
  THEN a.bytes ELSE <<>>

Known(p) == ParseMac(Profile[p].mac) # <<>>

Network(ip, prefix) == ip \div 2 ^ (AddressBits - prefix)

\* The broadcast address of an IPv4 subnet; an address is None when it is IPv6.
BroadcastFor(ip, prefix) ==
  IF ip = None \/ prefix > AddressBits THEN {}
  ELSE {(Network(ip, prefix) + 1) * 2 ^ (AddressBits - prefix) - 1}

DestinationsFor(p) ==
  LET ip       == Profile[p].ip
      reported == IF Profile[p].prefix = None THEN {} ELSE BroadcastFor(ip, Profile[p].prefix)
  IN  CASE Configured # {} -> Configured
        [] Configured = {} /\ reported # {} -> reported
        [] OTHER -> BroadcastFor(ip, DefaultPrefix)

-----------------------------------------------------------------------------
(* Who may relay for whom. *)

HasPeers(t) == Profile[t].location # None \/ Profile[t].domain # None

SharesWire(p, t) ==
  /\ p # t
  /\ IF Profile[t].location # None THEN Profile[p].location = Profile[t].location
     ELSE Profile[t].domain # None /\ Profile[p].domain = Profile[t].domain

HasNetwork(p) == Profile[p].ip # None /\ Profile[p].prefix \in 1 .. AddressBits

SameSubnet(p, t) ==
  /\ HasNetwork(p) /\ HasNetwork(t)
  /\ Profile[p].prefix = Profile[t].prefix
  /\ Network(Profile[p].ip, Profile[p].prefix) = Network(Profile[t].ip, Profile[t].prefix)

\* Faulty variant: the postes of another subnet are never given the wake.
MayClaimSameSubnet(p, t, queuedAt, at) == SharesWire(p, t) /\ SameSubnet(p, t)

MayClaim(p, t, queuedAt, at) ==
  /\ SharesWire(p, t)
  /\ SameSubnet(p, t) \/ at - queuedAt >= Grace

-----------------------------------------------------------------------------
(* The rows.                                                               *)

Terminal == {"succeeded", "failed", "expired"}
OpenStatuses == {"pending", "delivered"}

NoRow == [status |-> "none", target |-> None, created |-> 0, relay |-> None,
          decision |-> "none"]

NoRequest == [step |-> "free", expire |-> {}, close |-> {}, claims |-> {}, at |-> 0]

WakesOf(t) == {w \in Wakes : wake[w].target = t /\ wake[w].status # "none"}

ExpiresAt(w) == wake[w].created + Ttl

Open(t) == {w \in WakesOf(t) : wake[w].status \in OpenStatuses}

\* Faulty variant: a wake expires when its time to live is long past.
StaleLate(w) == wake[w].status = "pending" /\ ExpiresAt(w) + MaxTime <= now

Stale(w) == wake[w].status = "pending" /\ ExpiresAt(w) <= now

OpenWakeFor(t) == {w \in Open(t) : ExpiresAt(w) > now}

OnlinePeers(t) ==
  {p \in Postes : SharesWire(p, t) /\ seen[p] # None /\ now - seen[p] <= OfflineAfter}

-----------------------------------------------------------------------------
WolTypes ==
  /\ now \in 1 .. MaxTime
  /\ relaying \in RelayEnabled
  /\ on \in [Postes -> BOOLEAN]
  /\ seen \in [Postes -> 0 .. MaxTime]
  /\ \A w \in Wakes :
       /\ wake[w].status \in {"none"} \cup OpenStatuses \cup Terminal
       /\ wake[w].decision \in {"none", "already", "pending", "succeeded", "failed"}
       /\ wake[w].status # "none" => wake[w].target \in Postes /\ wake[w].created \in 1 .. now
       /\ wake[w].relay \in Postes \cup {None}
       /\ wake[w].relay # None => SharesWire(wake[w].relay, wake[w].target)
  /\ \A p \in Postes :
       /\ hb[p].step = "free" => hb[p] = NoRequest
       /\ hb[p].expire \cup hb[p].close \cup hb[p].claims \subseteq Wakes
       /\ todo[p] \subseteq Wakes
       /\ owed[p] \subseteq Wakes \X {"succeeded", "failed"}
       /\ res[p] \subseteq owed[p]
  /\ switched \in 0 .. MaxPower

WolInit ==
  /\ now = 1
  /\ relaying \in RelayEnabled
  /\ \E S \in AtFirst : on = [p \in Postes |-> p \in S]
  /\ seen = [p \in Postes |-> IF on[p] THEN 1 ELSE None]
  /\ wake = [w \in Wakes |-> NoRow]
  /\ hb = [p \in Postes |-> NoRequest]
  /\ todo = [p \in Postes |-> {}]
  /\ owed = [p \in Postes |-> {}]
  /\ res = [p \in Postes |-> {}]
  /\ switched = 0

-----------------------------------------------------------------------------
(* The console. *)

\* What queue_relayed_wake decides of a target, in the order of its refusals.
Queueing(t) ==
  CASE ~Known(t) \/ ~HasPeers(t)                   -> {"failed"}
    [] Known(t) /\ HasPeers(t) /\ OpenWakeFor(t) # {} -> {"already"}
    [] OTHER -> IF OnlinePeers(t) = {} THEN {"failed"} ELSE {"pending"}

\* The server's own packet: refused, or emitted unless the socket fails.
Emission(t) ==
  IF ~Known(t) \/ DestinationsFor(t) = {} THEN {"failed"} ELSE {"succeeded", "failed"}

WakeMachines(w, t) ==
  /\ wake[w].decision = "none"
  /\ \E d \in IF relaying THEN Queueing(t) ELSE Emission(t) :
       wake' = [wake EXCEPT ![w].decision = d, ![w].target = t, ![w].created = now]
  /\ UNCHANGED <<now, relaying, on, seen, hb, todo, owed, res, switched>>

WakeCommit(w) ==
  /\ wake[w].decision \notin {"none", "already"}
  /\ wake[w].status = "none"
  /\ wake' = [wake EXCEPT ![w].status = wake[w].decision]
  /\ UNCHANGED <<now, relaying, on, seen, hb, todo, owed, res, switched>>

\* mark_expired, by the worker or by the list of commands.
Sweep ==
  /\ \E w \in Wakes : Stale(w)
  /\ wake' = [w \in Wakes |-> IF Stale(w) THEN [wake[w] EXCEPT !.status = "expired"] ELSE wake[w]]
  /\ UNCHANGED <<now, relaying, on, seen, hb, todo, owed, res, switched>>

-----------------------------------------------------------------------------
(* A heartbeat: the wakes of the machine that sends it, then those it may  *)
(* relay.                                                                  *)

\* Faulty variant: a wake some poste claimed is left to it.
AcknowledgedUnclaimed(p) == {w \in WakesOf(p) : wake[w].status = "pending"}

\* The wakes of a poste that its own heartbeat closes, and those it takes.
Acknowledged(p) == {w \in WakesOf(p) : wake[w].status \in OpenStatuses}

Claimable(p) ==
  {w \in Wakes : /\ wake[w].status = "pending" /\ wake[w].relay = None
                 /\ ExpiresAt(w) > now
                 /\ MayClaim(p, wake[w].target, wake[w].created, now)
                 /\ Known(wake[w].target)}

BeatRead(p) ==
  /\ on[p] /\ hb[p].step = "free"
  /\ LET expire == {w \in WakesOf(p) : Stale(w)}
     IN  hb' = [hb EXCEPT ![p] =
                 [step   |-> "read",
                  expire |-> expire,
                  close  |-> IF relaying THEN Acknowledged(p) \ expire ELSE {},
                  claims |-> IF relaying THEN Claimable(p) ELSE {},
                  at     |-> now]]
  /\ UNCHANGED <<now, relaying, on, seen, wake, todo, owed, res, switched>>

\* The rows are written whatever became of them since they were read, the
\* expiry alone under its condition.
Written(w, p) ==
  CASE w \in hb[p].claims -> [wake[w] EXCEPT !.status = "delivered", !.relay = p]
    [] w \in hb[p].close  -> [wake[w] EXCEPT !.status = "succeeded"]
    [] w \in hb[p].expire /\ wake[w].status = "pending" -> [wake[w] EXCEPT !.status = "expired"]
    [] OTHER -> wake[w]

BeatCommit(p) ==
  /\ hb[p].step = "read"
  /\ wake' = [w \in Wakes |-> Written(w, p)]
  /\ seen' = [seen EXCEPT ![p] = hb[p].at]
  /\ \E received \in {TRUE, FALSE} :
       /\ received => on[p]
       /\ todo' = [todo EXCEPT ![p] = IF received THEN todo[p] \cup hb[p].claims ELSE todo[p]]
  /\ hb' = [hb EXCEPT ![p] = NoRequest]
  /\ UNCHANGED <<now, relaying, on, owed, res, switched>>

\* The request fails before its commit.
BeatAbort(p) ==
  /\ hb[p].step = "read"
  /\ hb' = [hb EXCEPT ![p] = NoRequest]
  /\ UNCHANGED <<now, relaying, on, seen, wake, todo, owed, res, switched>>

-----------------------------------------------------------------------------
(* A relay. *)

\* The agent sends the packet, or says why it could not.
Emit(p, w, verdict) ==
  /\ on[p] /\ w \in todo[p]
  /\ todo' = [todo EXCEPT ![p] = @ \ {w}]
  /\ owed' = [owed EXCEPT ![p] = @ \cup {<<w, verdict>>}]
  /\ UNCHANGED <<now, relaying, on, seen, wake, hb, res, switched>>

\* A verdict on a row of its own poste, or of one this poste relays for, is
\* taken unless a relay's row is closed already; the others are ignored.
ResultRead(p, v) ==
  /\ on[p] /\ v \in owed[p] \ res[p]
  /\ LET r       == wake[v[1]]
         ignored == r.relay # p \/ r.status \in Terminal
     IN  IF ignored
         THEN owed' = [owed EXCEPT ![p] = @ \ {v}] /\ UNCHANGED res
         ELSE res' = [res EXCEPT ![p] = @ \cup {v}] /\ UNCHANGED owed
  /\ UNCHANGED <<now, relaying, on, seen, wake, hb, todo, switched>>

ResultCommit(p, v) ==
  /\ v \in res[p]
  /\ wake' = [wake EXCEPT ![v[1]].status = v[2]]
  /\ res' = [res EXCEPT ![p] = @ \ {v}]
  /\ owed' = [owed EXCEPT ![p] = @ \ {v}]
  /\ UNCHANGED <<now, relaying, on, seen, hb, todo, switched>>

-----------------------------------------------------------------------------
(* The parc. *)

\* The packet, or somebody, starts the poste.
PowerOn(p) ==
  /\ ~on[p] /\ switched < MaxPower
  /\ on' = [on EXCEPT ![p] = TRUE]
  /\ switched' = switched + 1
  /\ UNCHANGED <<now, relaying, seen, wake, hb, todo, owed, res>>

\* The backlog of the agent is lost, its verdicts are on disk.
PowerOff(p) ==
  /\ on[p] /\ switched < MaxPower
  /\ on' = [on EXCEPT ![p] = FALSE]
  /\ todo' = [todo EXCEPT ![p] = {}]
  /\ switched' = switched + 1
  /\ UNCHANGED <<now, relaying, seen, wake, hb, owed, res>>

\* A click is answered within a unit of time, a heartbeat may take longer.
Tick ==
  /\ now < MaxTime
  /\ \A w \in Wakes : wake[w].decision \in {"none", "already"} \/ wake[w].status # "none"
  /\ now' = now + 1
  /\ UNCHANGED <<relaying, on, seen, wake, hb, todo, owed, res, switched>>

WolNext ==
  \/ \E w \in Wakes : WakeCommit(w) \/ \E t \in Targets : WakeMachines(w, t)
  \/ Sweep \/ Tick
  \/ \E p \in Postes :
       \/ BeatRead(p) \/ BeatCommit(p) \/ BeatAbort(p)
       \/ PowerOn(p) \/ PowerOff(p)
       \/ \E w \in Wakes, v \in {"succeeded", "failed"} :
            Emit(p, w, v) \/ ResultRead(p, <<w, v>>) \/ ResultCommit(p, <<w, v>>)

\* Requests are answered, a poste that is on polls and now and then succeeds,
\* the worker sweeps, the clock advances.  Nobody has to click or switch.
WolFairness ==
  /\ WF_wolVars(Tick) /\ WF_wolVars(Sweep)
  /\ \A w \in Wakes : WF_wolVars(WakeCommit(w))
  /\ \A p \in Postes : WF_wolVars(BeatRead(p)) /\ SF_wolVars(BeatCommit(p))

WolSpec == WolInit /\ [][WolNext]_wolVars /\ WolFairness

-----------------------------------------------------------------------------
(* A wake expires only when no poste that could have relayed it was heard  *)
(* from in its time: the grace given to the postes of the target's subnet  *)
(* delays the others and deprives the site of none of them (relay.py:97).  *)
ExpiredUnheard ==
  WolTypes /\ \A w \in Wakes : wake[w].status = "expired" =>
    \A p \in Postes : SharesWire(p, wake[w].target) =>
      ~ /\ seen[p] > wake[w].created
        /\ SameSubnet(p, wake[w].target) \/ seen[p] >= wake[w].created + Grace
        /\ seen[p] < ExpiresAt(w)

(* A queued wake does not wait for ever: it is claimed, or closed by its   *)
(* target, or expires, whatever the postes do (command/crud.py:113).       *)
WakeEnds ==
  \A w \in Wakes : (wake[w].status = "pending" /\ ExpiresAt(w) <= MaxTime)
                     ~> (wake[w].status # "pending")

(* A poste that is back and stays on has no open wake left in the end, even *)
(* one whose relay died with it or which a late claim reopened             *)
(* (relay.py:360).                                                         *)
AwakeCloses ==
  \A t \in Targets : relaying => (<>[] on[t] => <>[] (Open(t) = {}))

=============================================================================
