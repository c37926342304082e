--------------------------------- MODULE Rooms ---------------------------------
(***************************************************************************)
(* Where the postes are: buildings and rooms, the postes filed in them by  *)
(* hand or by what their agents read in the directory, and what an account *)
(* confined to places may change (features/room, api/routes/rooms.py,      *)
(* features/user/scope.py).                                                *)
(***************************************************************************)
EXTENDS Integers, Sequences, FiniteSets, SequencesExt

CONSTANTS
  Postes, RoomIds, BuildingIds, Sites,
  Keys,         \* the OUs postes can be in
  Names,        \* room names; a name taken gives way to the next one
  NameOf,       \* the name an OU gives its room: an index of Names
  Scopes        \* what accounts are confined to: the whole parc or places

None == "none"
Unset == -1           \* no cycle of its own

ASSUME RoomsAssumption ==
  /\ None \notin Keys \cup RoomIds \cup BuildingIds \cup Sites \cup Postes
  /\ Names \in Seq(STRING) /\ NameOf \in [Keys -> DOMAIN Names]
  /\ Scopes \subseteq [all : BOOLEAN, sites : SUBSET Sites,
                        buildings : SUBSET BuildingIds, rooms : SUBSET RoomIds]

VARIABLES
  source,    \* ROOM_SOURCE: "manual" or "ad_ou"
  building,  \* the rows of buildings
  room,      \* the rows of rooms
  poste,     \* of each row of machines: site, directory reading, room, last maintenance
  agent      \* the OU each poste is in

NoBuilding == [exists |-> FALSE, site |-> None]
NoRoom     == [exists |-> FALSE, name |-> None, building |-> None, site |-> None, key |-> None,
               cycle |-> Unset]
NoPoste    == [exists |-> FALSE, site |-> None, ou |-> None, room |-> None, cycle |-> Unset,
               first |-> 0, last |-> 0]

There(rows) == {r \in RoomIds : rows[r].exists}
Enrolled   == {p \in Postes : poste[p].exists}

-----------------------------------------------------------------------------
(* Places. *)

\* Where a room is: its building's site, else its own.
EffectiveSite(r) ==
  IF room[r].building # None THEN building[room[r].building].site ELSE room[r].site

\* The same in queries: the first of the two sites that is not null.
SiteInQueries(r) ==
  LET site == IF room[r].building # None THEN building[room[r].building].site ELSE None
  IN  IF site # None THEN site ELSE room[r].site

RoomIn(scope, r) ==
  \/ scope.all
  \/ SiteInQueries(r) \in scope.sites
  \/ room[r].building \in scope.buildings
  \/ r \in scope.rooms

PosteIn(scope, p) ==
  \/ scope.all
  \/ poste[p].site \in scope.sites
  \/ poste[p].room # None /\ RoomIn(scope, poste[p].room)

\* A building is seen through an allowed room, but not changed for that.
BuildingSeen(scope, b) ==
  \/ scope.all
  \/ building[b].site \in scope.sites
  \/ b \in scope.buildings
  \/ \E r \in There(room) \cap scope.rooms : room[r].building = b

\* Faulty variant: whoever sees a building may change it.
BuildingWritableSeen(scope, b, site) ==
  \/ scope.all \/ site \in scope.sites
  \/ b # None /\ BuildingSeen(scope, b)

BuildingWritable(scope, b, site) ==
  \/ scope.all
  \/ b \in scope.buildings
  \/ site \in scope.sites

NameFree(rows, b, name, but) ==
  \A r \in There(rows) \ {but} : ~(rows[r].building = b /\ rows[r].name = name)

-----------------------------------------------------------------------------
(* The directory.  A room it names is the keyed one, else a room of its    *)
(* name made by hand in no building, else a new one.                       *)

Keyed(rows, k) == {r \in There(rows) : rows[r].key = k}

\* Faulty variant: a room of the name is taken, whichever OU it was made for.
LooseKeyed(rows, k) ==
  {r \in There(rows) : rows[r].building = None /\ rows[r].name = Names[NameOf[k]]}

Loose(rows, k) ==
  {r \in There(rows) : /\ rows[r].building = None /\ rows[r].name = Names[NameOf[k]]
                       /\ rows[r].key = None}

Fresh(rows) == RoomIds \ There(rows)

FreeNames(rows, k) == {i \in NameOf[k] .. Len(Names) : NameFree(rows, None, Names[i], None)}

\* Bounds: rooms and names enough to make another.
CanMake(rows, k) == Keyed(rows, k) \cup Loose(rows, k) # {}
                      \/ (Fresh(rows) # {} /\ FreeNames(rows, k) # {})

RoomForKey(rows, k) ==
  CASE Keyed(rows, k) # {} \/ ~CanMake(rows, k) -> rows
    [] Keyed(rows, k) = {} /\ Loose(rows, k) # {} ->
         [rows EXCEPT ![CHOOSE r \in Loose(rows, k) : TRUE].key = k]
    [] OTHER ->
         [rows EXCEPT ![CHOOSE r \in Fresh(rows) : TRUE] =
            [NoRoom EXCEPT !.exists = TRUE, !.key = k,
               !.name = Names[CHOOSE i \in FreeNames(rows, k) :
                                \A j \in FreeNames(rows, k) : i <= j]]]

\* Where the directory files a poste of OU k, which was in a room.
Filed(rows, k, was) == IF k = None THEN None ELSE CHOOSE r \in Keyed(rows, k) : TRUE

\* A heartbeat that carries the inventory: the OU changed, or the agent restarted.
Report(p) ==
  /\ poste[p].exists
  /\ LET k == agent[p]
         m == poste[p]
     IN  IF source = "manual" \/ k = None
         THEN /\ poste' = [poste EXCEPT ![p] = [m EXCEPT !.ou = k,
                   !.room = IF source = "manual" THEN m.room ELSE Filed(room, k, m.room)]]
              /\ UNCHANGED room
         ELSE /\ CanMake(room, k)
              /\ room' = RoomForKey(room, k)
              /\ poste' = [poste EXCEPT ![p] = [m EXCEPT !.ou = k,
                                                         !.room = Filed(room', k, m.room)]]
  /\ UNCHANGED <<source, building, agent>>

\* The poste's OU moves.
MoveOu(p, k) ==
  /\ agent[p] # k
  /\ agent' = [agent EXCEPT ![p] = k]
  /\ UNCHANGED <<source, building, room, poste>>

\* The rooms once each OU of order, one after the other, has had its own.
RoomsForKeys(rows, order) ==
  LET after[n \in 0 .. Len(order)] ==
        IF n = 0 THEN rows ELSE RoomForKey(after[n - 1], order[n])
  IN  after[Len(order)]

\* The server restarts with another ROOM_SOURCE.
Switch(s) ==
  /\ source # s /\ source' = s
  /\ UNCHANGED <<building, room, poste, agent>>

-----------------------------------------------------------------------------
(* Requests of the console, by an account confined to scope. *)

CreateBuilding(scope, b, site) ==
  /\ ~building[b].exists
  /\ BuildingWritable(scope, None, site)
  /\ building' = [building EXCEPT ![b] = [exists |-> TRUE, site |-> site]]
  /\ UNCHANGED <<source, room, poste, agent>>

UpdateBuilding(scope, b, site) ==
  /\ building[b].exists /\ BuildingSeen(scope, b)
  /\ BuildingWritable(scope, b, building[b].site) /\ BuildingWritable(scope, b, site)
  /\ building' = [building EXCEPT ![b].site = site]
  /\ UNCHANGED <<source, room, poste, agent>>

\* The rooms stay and keep the site; refused by the database when a room
\* outside of buildings has the name of one of them.
DeleteBuilding(scope, b) ==
  /\ building[b].exists /\ BuildingSeen(scope, b) /\ BuildingWritable(scope, b, building[b].site)
  /\ \A r \in There(room) : room[r].building = b => NameFree(room, None, room[r].name, None)
  /\ room' = [r \in RoomIds |->
       IF room[r].exists /\ room[r].building = b
       THEN [room[r] EXCEPT !.building = None,
                            !.site = IF room[r].site = None THEN building[b].site
                                     ELSE room[r].site]
       ELSE room[r]]
  /\ building' = [building EXCEPT ![b] = NoBuilding]
  /\ UNCHANGED <<source, poste, agent>>

Stored(row) == IF row.building = None THEN row ELSE [row EXCEPT !.site = None]

\* What a created or changed room may be: the check is on the flushed row.
RoomWritten(scope, r, row) ==
  /\ row.building # None => building[row.building].exists /\ BuildingSeen(scope, row.building)
  /\ NameFree(room, row.building, row.name, r)
  /\ room' = [room EXCEPT ![r] = Stored(row)]
  /\ UNCHANGED <<source, building, poste, agent>>
  /\ \/ scope.all
     \/ SiteInQueries(r)' \in scope.sites
     \/ row.building \in scope.buildings
     \/ r \in scope.rooms

CreateRoom(scope, r, name, b, site) ==
  /\ ~room[r].exists
  /\ ~scope.all => r \notin scope.rooms
  /\ RoomWritten(scope, r, [NoRoom EXCEPT !.exists = TRUE, !.name = name, !.building = b,
                                          !.site = site])

UpdateRoom(scope, r, name, b, site) ==
  /\ room[r].exists /\ RoomIn(scope, r)
  /\ RoomWritten(scope, r, [room[r] EXCEPT !.name = name, !.building = b, !.site = site])

\* Its postes stay, room-less.
DeleteRoom(scope, r) ==
  /\ room[r].exists /\ RoomIn(scope, r)
  /\ room' = [room EXCEPT ![r] = NoRoom]
  /\ poste' = [p \in Postes |-> IF poste[p].room = r THEN [poste[p] EXCEPT !.room = None]
                                ELSE poste[p]]
  /\ UNCHANGED <<source, building, agent>>

PlaceMachines(scope, ps, r) ==
  /\ source = "manual"
  /\ r # None => room[r].exists /\ RoomIn(scope, r)
  /\ \A p \in ps : poste[p].exists /\ PosteIn(scope, p)
  /\ poste' = [p \in Postes |-> IF p \in ps THEN [poste[p] EXCEPT !.room = r] ELSE poste[p]]
  /\ UNCHANGED <<source, building, room, agent>>
=============================================================================
