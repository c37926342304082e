---------------------------------- MODULE Parc ----------------------------------
(***************************************************************************)
(* What people do about the postes of Rooms: verifications asked and       *)
(* closed, the journal, maintenance visits and what is due, duplicates     *)
(* merged, the parc filed again from the directory (features/check,        *)
(* intervention, maintenance, machine/crud.py and their routes).           *)
(*                                                                         *)
(* A request that reads rows before it writes them is two steps, between   *)
(* which other requests and heartbeats commit.                             *)
(***************************************************************************)
EXTENDS Rooms

CONSTANTS
  Checks,       \* verification requests (bound)
  Cycles,       \* days between two visits: 0 excludes
  CycleDays,    \* MAINTENANCE_CYCLE_DAYS
  DueSoon,      \* days before it is due a visit is announced
  Slots,        \* requests that read, then write, handled at once
  MaxTime, MaxLoad, Load   \* bounds: time, and the operations by what each weighs

ASSUME ParcAssumption ==
  /\ Cycles \subseteq Nat /\ CycleDays \in Cycles /\ DueSoon \in Nat /\ MaxTime \in Nat \ {0}
  /\ {"visit", "other"} \cap Checks = {}
  /\ IsFiniteSet(Checks) /\ IsFiniteSet(Slots) /\ IsFiniteSet(Postes)
  /\ Load \in [{"place", "task", "visit", "sync", "report", "plan"} -> Nat] /\ MaxLoad \in Nat

VARIABLES
  now,
  policy,    \* the parc's own cycle
  check,     \* the rows of machine_checks
  journal,   \* of each poste: entries a closing wrote, by check, and the others
  request,   \* the requests being handled
  visited,   \* history: the last visit, of those no other request overlapped
  astray,    \* history: postes the directory's rule says nothing of just now
  struck,    \* history: checks whose entry was deleted by hand
  load

parc == <<now, policy, check, journal, request, visited, astray, struck, load>>
vars == <<source, building, room, poste, agent, parc>>

Idle    == [kind |-> "idle", on |-> {}, alone |-> TRUE]
NoCheck == [status |-> "none", poste |-> None]
Kinds   == Checks \cup {"visit", "other"}
Later(a, b) == IF a > b THEN a ELSE b

Init ==
  /\ source \in {"manual", "ad_ou"}
  /\ building = [b \in BuildingIds |-> NoBuilding]
  /\ room = [r \in RoomIds |-> NoRoom]
  /\ poste \in [Postes -> {[NoPoste EXCEPT !.exists = TRUE, !.site = x, !.first = 1] : x \in Sites}]
  /\ agent \in [Postes -> Keys]
  /\ now = 1 /\ policy = CycleDays
  /\ check = [c \in Checks |-> NoCheck]
  /\ journal = [p \in Postes |-> [k \in Kinds |-> 0]]
  /\ request = [s \in Slots |-> Idle]
  /\ visited = [p \in Postes |-> 0]
  /\ astray = {} /\ struck = {} /\ load = 0

Spend(class) == load' = load + Load[class] /\ load' <= MaxLoad

\* Other requests that read postes this step is about are not alone on them.
Touch(ps) ==
  [s \in Slots |-> [request[s] EXCEPT !.alone = request[s].alone /\ request[s].on \cap ps = {}]]

Begin(s, class, r) ==
  /\ request[s] = Idle /\ Spend(class)
  /\ request' = [Touch(r.on) EXCEPT ![s] =
       [r EXCEPT !.alone = \A x \in Slots : request[x].on \cap r.on = {}]]
  /\ UNCHANGED <<source, building, room, poste, agent>>
  /\ UNCHANGED <<now, policy, check, journal, visited, astray, struck>>

Is(s, kind) == request[s].kind = kind

End(s) == request' = [request EXCEPT ![s] = Idle] /\ UNCHANGED load

-----------------------------------------------------------------------------
(* Verifications and the journal. *)

OpenOn(p) == {c \in Checks : check[c] = [status |-> "open", poste |-> p]}

\* Each poste of ps is asked a verification.
Ask(ps) ==
  /\ ps # {} /\ Spend("task")
  /\ \E ids \in SUBSET {c \in Checks : check[c] = NoCheck} : \E of \in [ids -> ps] :
       /\ \A p \in ps : Cardinality({c \in ids : of[c] = p}) = 1
       /\ check' = [c \in Checks |-> IF c \in ids THEN [status |-> "open", poste |-> of[c]]
                                     ELSE check[c]]
  /\ UNCHANGED <<source, building, room, poste, agent>>
  /\ UNCHANGED <<now, policy, journal, request, visited, astray, struck>>

CreateCheck(scope, p) ==
  /\ poste[p].exists /\ PosteIn(scope, p) /\ OpenOn(p) = {}
  /\ Ask({p})

\* Those of a selection already asked are left alone.
CreateChecksBulk(scope, ps) ==
  /\ \A p \in ps : poste[p].exists /\ PosteIn(scope, p)
  /\ Ask({p \in ps : OpenOn(p) = {}})

CloseCheck(s, scope, c) ==
  /\ check[c].status = "open" /\ PosteIn(scope, check[c].poste)
  /\ Begin(s, "task", [kind |-> "close", on |-> {check[c].poste}, alone |-> TRUE, check |-> c])

\* The request is closed and the journal of the poste it was read with written.
CloseCommit(s) ==
  /\ Is(s, "close")
  /\ LET c == request[s].check
     IN  \E p \in request[s].on :
           /\ poste[p].exists
           /\ check' = [check EXCEPT ![c] = [check[c] EXCEPT !.status = "closed"]]
           /\ journal' = [journal EXCEPT ![p] = [journal[p] EXCEPT ![c] = journal[p][c] + 1]]
  /\ End(s)
  /\ UNCHANGED <<source, building, room, poste, agent>>
  /\ UNCHANGED <<now, policy, visited, astray, struck>>

CreateIntervention(scope, p) ==
  /\ poste[p].exists /\ PosteIn(scope, p) /\ Spend("task")
  /\ journal' = [journal EXCEPT ![p] = [journal[p] EXCEPT !["other"] = journal[p]["other"] + 1]]
  /\ UNCHANGED <<source, building, room, poste, agent>>
  /\ UNCHANGED <<now, policy, check, request, visited, astray, struck>>

DeleteIntervention(scope, p, k) ==
  /\ poste[p].exists /\ PosteIn(scope, p) /\ journal[p][k] > 0 /\ Spend("task")
  /\ journal' = [journal EXCEPT ![p] = [journal[p] EXCEPT ![k] = journal[p][k] - 1]]
  /\ struck' = struck \cup {k}
  /\ UNCHANGED <<source, building, room, poste, agent>>
  /\ UNCHANGED <<now, policy, check, request, visited, astray>>

-----------------------------------------------------------------------------
(* Maintenance. *)

RecordSession(s, scope, ps, at) ==
  /\ ps # {} /\ \A p \in ps : poste[p].exists /\ PosteIn(scope, p)
  /\ Begin(s, "visit", [kind |-> "visit", on |-> ps, alone |-> TRUE, at |-> at,
                        last |-> [p \in ps |-> poste[p].last]])

\* Faulty variant: a visit recorded late is the last one.
ForwardAny(was, at) == TRUE

\* Forward only: an older visit is history, not a step back on the cycle.
Forward(was, at) == was = 0 \/ at > was

RecordCommit(s) ==
  /\ Is(s, "visit")
  /\ LET r == request[s]
     IN  /\ \A p \in r.on : poste[p].exists
         /\ poste' = [p \in Postes |->
              IF p \in r.on /\ Forward(r.last[p], r.at) THEN [poste[p] EXCEPT !.last = r.at]
              ELSE poste[p]]
         /\ journal' = [p \in Postes |->
              IF p \in r.on THEN [journal[p] EXCEPT !["visit"] = journal[p]["visit"] + 1]
              ELSE journal[p]]
         /\ visited' = [p \in Postes |->
              CASE p \in r.on /\ r.alone  -> Later(visited[p], r.at)
                [] p \in r.on /\ ~r.alone -> 0
                [] OTHER                  -> visited[p]]
  /\ End(s)
  /\ UNCHANGED <<source, building, room, agent>>
  /\ UNCHANGED <<now, policy, check, astray, struck>>

\* A cycle of its own given to a poste, to a room, to the parc, or taken back.
PlanPoste(scope, p, n) ==
  /\ poste[p].exists /\ PosteIn(scope, p)
  /\ poste' = [poste EXCEPT ![p] = [poste[p] EXCEPT !.cycle = n]]
  /\ UNCHANGED <<room, policy>>

PlanRoom(scope, r, n) ==
  /\ room[r].exists /\ RoomIn(scope, r)
  /\ room' = [room EXCEPT ![r] = [room[r] EXCEPT !.cycle = n]]
  /\ UNCHANGED <<poste, policy>>

PlanParc(n) ==
  /\ policy' = IF n = Unset THEN CycleDays ELSE n
  /\ UNCHANGED <<poste, room>>

Plan(scope) ==
  /\ Spend("plan")
  /\ \E n \in Cycles \cup {Unset} :
       \/ \E p \in Postes : PlanPoste(scope, p, n)
       \/ \E r \in RoomIds : PlanRoom(scope, r, n)
       \/ PlanParc(n)
  /\ UNCHANGED <<source, building, agent>>
  /\ UNCHANGED <<now, check, journal, request, visited, astray, struck>>

\* The cycle of a poste: its own, its room's or the parc's.
Cycle(p) ==
  CASE poste[p].cycle # Unset -> poste[p].cycle
    [] poste[p].cycle = Unset /\ poste[p].room # None /\ room[poste[p].room].cycle # Unset ->
         room[poste[p].room].cycle
    [] OTHER -> policy

Due(p) == (IF poste[p].last # 0 THEN poste[p].last ELSE poste[p].first) + Cycle(p)

\* What a payload says of a poste.
Resolve(p) ==
  CASE Cycle(p) <= 0                                          -> "excluded"
    [] Cycle(p) > 0 /\ Due(p) < now                           -> "overdue"
    [] Cycle(p) > 0 /\ Due(p) >= now /\ Due(p) - DueSoon <= now -> "due_soon"
    [] OTHER                                                  -> "ok"

\* Faulty variant: the day it is due is not announced.
StateClauseStrict(state, p) ==
  CASE state = "excluded" -> Cycle(p) <= 0
    [] state = "overdue"  -> Cycle(p) > 0 /\ Due(p) < now
    [] state = "due_soon" -> Cycle(p) > 0 /\ Due(p) > now /\ Due(p) <= now + DueSoon
    [] state = "ok"       -> Cycle(p) > 0 /\ Due(p) > now + DueSoon

\* The filter of a list on a state.
StateClause(state, p) ==
  CASE state = "excluded" -> Cycle(p) <= 0
    [] state = "overdue"  -> Cycle(p) > 0 /\ Due(p) < now
    [] state = "due_soon" -> Cycle(p) > 0 /\ Due(p) >= now /\ Due(p) <= now + DueSoon
    [] state = "ok"       -> Cycle(p) > 0 /\ Due(p) > now + DueSoon

\* The postes list of an account, filtered on a state.
Listed(scope, state) == {p \in Enrolled : PosteIn(scope, p) /\ StateClause(state, p)}

\* The postes of an account, as they are grouped by room, or in none.
Fleet(scope) == {p \in Enrolled : PosteIn(scope, p)}
Grouped(ps, r) == {p \in ps : poste[p].room = r}

\* The due page of an account.
DueIn(scope, r, state) == {p \in Grouped(Fleet(scope), r) : Resolve(p) = state}

\* The rooms page counts over the whole parc.
Counted(r, state) == {p \in Enrolled : poste[p].room = r /\ Resolve(p) = state}

-----------------------------------------------------------------------------
(* Duplicates, and the directory. *)

MergeMachine(s, scope, target, dup) ==
  /\ target # dup /\ \A p \in {target, dup} : poste[p].exists /\ PosteIn(scope, p)
  /\ Begin(s, "sync", [kind |-> "merge", on |-> {target, dup}, alone |-> TRUE,
                       target |-> target, dup |-> dup,
                       was |-> [p \in {target, dup} |-> poste[p]]])

\* Faulty variant: of two open requests the duplicate's follows too.
SupersededNever(c, target, dup) == FALSE

\* Whether a request of the duplicate is closed as superseded.
Superseded(c, target, dup) == c \in OpenOn(dup) /\ OpenOn(target) # {}

Joined(to, from) == [k \in Kinds |-> to[k] + from[k]]

MergeCommit(s) ==
  /\ Is(s, "merge")
  /\ LET t   == request[s].target
         d   == request[s].dup
         was == request[s].was
     IN  /\ poste[t].exists /\ poste[d].exists
         /\ was[t].room = None /\ was[d].room # None => room[was[d].room].exists
         /\ check' = [c \in Checks |->
              CASE Superseded(c, t, d) -> [status |-> "superseded", poste |-> t]
                [] ~Superseded(c, t, d) /\ check[c].poste = d -> [check[c] EXCEPT !.poste = t]
                [] OTHER -> check[c]]
         /\ journal' = [journal EXCEPT ![t] = Joined(journal[t], journal[d]),
                                       ![d] = [k \in Kinds |-> 0]]
         /\ poste' = [poste EXCEPT
              ![t] = [poste[t] EXCEPT
                !.room = IF was[t].room = None /\ was[d].room # None THEN was[d].room ELSE @,
                !.last = IF was[d].last > was[t].last THEN was[d].last ELSE @],
              ![d] = NoPoste]
         /\ visited' = [visited EXCEPT
              ![t] = IF request[s].alone THEN Later(visited[t], visited[d]) ELSE 0,
              ![d] = 0]
         /\ astray' = astray \cup {t}
  /\ End(s)
  /\ UNCHANGED <<source, building, room, agent>>
  /\ UNCHANGED <<now, policy, struck>>

SyncDirectory(s) ==
  /\ source = "ad_ou"
  /\ Begin(s, "sync", [kind |-> "sync", on |-> Postes, alone |-> TRUE, was |-> poste])

\* Every poste as it was read, filed where its OU says; only what moves is written.
SyncCommit(s) ==
  /\ Is(s, "sync")
  /\ LET was  == request[s].was
         ous  == {was[p].ou : p \in Postes} \ {None}
     IN  \E order \in [1 .. Cardinality(ous) -> ous] :
           LET rows == RoomsForKeys(room, order)
               to(p) == Filed(rows, was[p].ou, was[p].room)
           IN  /\ ToSet(order) = ous
               /\ \A k \in ous : Keyed(rows, k) # {}
               /\ room' = rows
               /\ poste' = [p \in Postes |->
                    IF poste[p].exists /\ was[p].exists /\ to(p) # was[p].room
                    THEN [poste[p] EXCEPT !.room = to(p)] ELSE poste[p]]
  /\ astray' = IF request[s].alone THEN {} ELSE Postes
  /\ End(s)
  /\ UNCHANGED <<source, building, agent>>
  /\ UNCHANGED <<now, policy, check, journal, visited, struck>>

\* A request fails before its commit.
Abort(s) ==
  /\ request[s] # Idle /\ End(s)
  /\ UNCHANGED <<source, building, room, poste, agent>>
  /\ UNCHANGED <<now, policy, check, journal, visited, astray, struck>>

-----------------------------------------------------------------------------
(* The actions of Rooms. *)

Place(scope) ==
  /\ Spend("place")
  /\ \/ \E b \in BuildingIds, x \in Sites \cup {None} :
          CreateBuilding(scope, b, x) \/ UpdateBuilding(scope, b, x)
     \/ \E b \in BuildingIds : DeleteBuilding(scope, b)
     \/ \E r \in RoomIds, n \in DOMAIN Names, b \in BuildingIds \cup {None},
           x \in Sites \cup {None} :
          CreateRoom(scope, r, Names[n], b, x) \/ UpdateRoom(scope, r, Names[n], b, x)
     \/ \E r \in RoomIds : DeleteRoom(scope, r)
     \/ \E ps \in SUBSET Postes \ {{}}, r \in RoomIds \cup {None} : PlaceMachines(scope, ps, r)
  /\ astray' = astray \cup {p \in Postes : poste'[p].room # poste[p].room}
  /\ request' = Touch(Postes)
  /\ UNCHANGED <<now, policy, check, journal, visited, struck>>

Heartbeat(p) ==
  /\ Spend("report") /\ Report(p)
  /\ astray' = astray \ {p}
  /\ request' = Touch({p})
  /\ UNCHANGED <<now, policy, check, journal, visited, struck>>

Moves(p) ==
  /\ \E k \in Keys \cup {None} : MoveOu(p, k)
  /\ Spend("report")
  /\ UNCHANGED <<now, policy, check, journal, request, visited, astray, struck>>

Restart ==
  /\ \E x \in {"manual", "ad_ou"} : Switch(x)
  /\ Spend("report")
  /\ request' = [s \in Slots |-> Idle]
  /\ astray' = Postes
  /\ UNCHANGED <<now, policy, check, journal, visited, struck>>

Tick ==
  /\ now < MaxTime /\ \A s \in Slots : request[s] = Idle
  /\ now' = now + 1
  /\ UNCHANGED <<source, building, room, poste, agent>>
  /\ UNCHANGED <<policy, check, journal, request, visited, astray, struck, load>>

\* What an account confined to scope may start.
Console(scope) ==
  \/ Place(scope) \/ Plan(scope)
  \/ CreateChecksBulk(scope, Postes)
  \/ \E p \in Postes : CreateCheck(scope, p) \/ CreateIntervention(scope, p) \/ \E k \in Kinds : DeleteIntervention(scope, p, k)
  \/ \E s \in Slots :
       \/ \E c \in Checks : CloseCheck(s, scope, c)
       \/ \E ps \in SUBSET Postes, at \in 1 .. MaxTime : RecordSession(s, scope, ps, at)
       \/ \E target, dup \in Postes : MergeMachine(s, scope, target, dup)
       \/ scope.all /\ SyncDirectory(s)

Next ==
  \/ \E scope \in Scopes : Console(scope)
  \/ \E p \in Postes : Heartbeat(p) \/ Moves(p)
  \/ \E s \in Slots : \/ CloseCommit(s) \/ RecordCommit(s) \/ MergeCommit(s) \/ SyncCommit(s)
                      \/ Abort(s)
  \/ Restart \/ Tick

Spec == Init /\ [][Next]_vars
-----------------------------------------------------------------------------
TypeOK ==
  /\ now \in 1 .. MaxTime /\ load \in 0 .. MaxLoad /\ policy \in Cycles
  /\ \A p \in Enrolled : poste[p].room # None => poste[p].room \in There(room)
  /\ \A r \in There(room) :
       /\ room[r].building # None => building[room[r].building].exists
       /\ room[r].name \in ToSet(Names) /\ room[r].key \in Keys \cup {None}
  /\ \A r \in RoomIds \ There(room) : room[r] = NoRoom
  /\ \A c \in Checks : check[c].status # "none" => poste[check[c].poste].exists
  /\ \A p \in Postes \ Enrolled : \A k \in Kinds : journal[p][k] = 0

(* A poste is where the directory last said, whatever was renamed, moved   *)
(* to a building, adopted or made since; and no two rooms answer for one   *)
(* OU (room/crud.py:250, rooms.py:465).                                    *)
FiledRight ==
  TypeOK /\ (source = "ad_ou" =>
    /\ \A r, q \in There(room) : (room[r].key = room[q].key /\ room[r].key # None) => r = q
    /\ \A p \in Enrolled \ astray :
         IF poste[p].ou = None THEN poste[p].room = None
         ELSE Keyed(room, poste[p].ou) = {poste[p].room})

(* The cycle of a poste never runs from before a visit recorded alone on   *)
(* it, whatever is recorded late, merged or under way at once              *)
(* (maintenance/crud.py:171, machine/crud.py:89).                          *)
LastKept == \A p \in Enrolled : poste[p].last >= visited[p]

(* A request closed wrote the journal of its poste and follows it through  *)
(* merges; people who close it at once write it as often as they are many; *)
(* a poste has one open (check/crud.py:66, checks.py:478).                 *)
JournalFollows ==
  /\ \A p \in Postes : Cardinality(OpenOn(p)) <= 1
  /\ \A c \in Checks \ struck :
       /\ \A p \in Postes : journal[p][c] > 0 => p = check[c].poste
       /\ check[c].status = "closed" => journal[check[c].poste][c] \in 1 .. Cardinality(Slots)

(* Where a room is: the lists and the scopes read it in SQL, the pages in  *)
(* Python; "the two can never be read as disagreeing" (rooms.py:528).      *)
SitesAgree == \A r \in There(room) : SiteInQueries(r) = EffectiveSite(r)

(* Two forms of one rule, that "read the same inputs so they cannot        *)
(* disagree" (maintenance/policy.py:12): the filter of the lists, and what a *)
(* payload says; and the list, the due page and the rooms page of one       *)
(* account show the same postes; and so for where a room is.                *)
OneRule ==
  SitesAgree /\ \A scope \in Scopes, state \in {"excluded", "overdue", "due_soon", "ok"} :
    /\ Listed(scope, state) = UNION {DueIn(scope, r, state) : r \in There(room) \cup {None}}
    /\ \A r \in There(room) : RoomIn(scope, r) => DueIn(scope, r, state) = Counted(r, state)

(* What a confined account does changes no place and no poste out of its   *)
(* reach, and makes none there (rooms.py:131).                             *)
Confined(scope) ==
  /\ \A r \in RoomIds : room'[r] # room[r] =>
       IF room[r].exists THEN RoomIn(scope, r) ELSE RoomIn(scope, r)'
  /\ \A b \in BuildingIds : building'[b] # building[b] =>
       b \in scope.buildings
         \/ (IF building[b].exists THEN building[b].site ELSE building'[b].site) \in scope.sites
  /\ \A p \in Postes : poste'[p] # poste[p] => PosteIn(scope, p)

ScopeHolds == [][\A scope \in {x \in Scopes : ~x.all} : ~Confined(scope) => ~Console(scope)]_vars
=============================================================================
