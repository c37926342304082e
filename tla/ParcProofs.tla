------------------------------- MODULE ParcProofs -------------------------------
(***************************************************************************)
(* The theorems of Parc, for any postes, places, OUs, accounts and         *)
(* requests that overlap.                                                  *)
(*                                                                         *)
(* Their inductive invariant has four parts.  Rooms: the rows are whole,   *)
(* no two rooms answer for one OU, a poste the directory's rule speaks of  *)
(* is in the room of its OU.  Requests: what one that nothing overlapped   *)
(* has read of its postes still stands, and two on one poste are both      *)
(* overlapped.  Visits: what those of a lone request left.  Journal: a     *)
(* request closed was written with its poste, and the closers still at     *)
(* work leave room for what they will write.                               *)
(***************************************************************************)
EXTENDS Parc, FiniteSetTheorems, WellFoundedInduction, TLAPS

(***************************************************************************)
(* The invariants.                                                         *)
(***************************************************************************)
PosteRow == [exists : BOOLEAN, site : Sites \cup {None}, ou : Keys \cup {None},
             room : RoomIds \cup {None}, cycle : Cycles \cup {Unset}, first : Nat, last : Nat]
RoomRow == [exists : BOOLEAN, name : ToSet(Names) \cup {None}, building : BuildingIds \cup {None},
            site : Sites \cup {None}, key : Keys \cup {None}, cycle : Cycles \cup {Unset}]
BuildingRow == [exists : BOOLEAN, site : Sites \cup {None}]
CheckRow == [status : {"none", "open", "closed", "superseded"}, poste : Postes \cup {None}]

Shape ==
  /\ source \in {"manual", "ad_ou"}
  /\ building \in [BuildingIds -> BuildingRow]
  /\ room \in [RoomIds -> RoomRow]
  /\ poste \in [Postes -> PosteRow]
  /\ agent \in [Postes -> Keys \cup {None}]
  /\ now \in 1 .. MaxTime /\ load \in 0 .. MaxLoad /\ policy \in Cycles
  /\ visited \in [Postes -> Nat]
  /\ astray \subseteq Postes /\ struck \subseteq Kinds

\* The rooms: whole rows, one room for an OU.
WholeRooms(rows) ==
  /\ \A r \in RoomIds : ~rows[r].exists => rows[r] = NoRoom
  /\ \A r \in RoomIds : rows[r].exists => rows[r].name \in ToSet(Names)
  /\ \A r \in RoomIds : rows[r].building # None => rows[r].site = None
  /\ \A r, q \in RoomIds : rows[r].key = rows[q].key /\ rows[r].key # None => r = q

Housed == \A r \in RoomIds : room[r].building # None => building[room[r].building].exists

\* A poste is in the room of its OU, in none without one.
FiledIn(rows, row) ==
  IF row.ou = None THEN row.room = None
  ELSE row.room # None /\ rows[row.room].key = row.ou

Lodged == \A p \in Postes : poste[p].exists /\ poste[p].room # None => room[poste[p].room].exists

RoomsInv ==
  /\ WholeRooms(room) /\ Housed /\ Lodged
  /\ source = "ad_ou" => \A p \in Postes \ astray : poste[p].exists => FiledIn(room, poste[p])

\* The requests.
CloseForm == [kind : {"close"}, on : SUBSET Postes, alone : BOOLEAN, check : Checks]
VisitForm == [kind : {"visit"}, on : SUBSET Postes, alone : BOOLEAN, at : Nat,
              last : UNION {[ps -> Nat] : ps \in SUBSET Postes}]
MergeForm == [kind : {"merge"}, on : SUBSET Postes, alone : BOOLEAN, target : Postes, dup : Postes,
              was : UNION {[ps -> PosteRow] : ps \in SUBSET Postes}]
SyncForm  == [kind : {"sync"}, on : {Postes}, alone : BOOLEAN, was : [Postes -> PosteRow]]
Form == {Idle} \cup CloseForm \cup VisitForm \cup MergeForm \cup SyncForm

\* What a visit, a merge and a sync read of a poste.
Same(a, b) == a.exists = b.exists /\ a.ou = b.ou /\ a.room = b.room /\ a.last = b.last

\* What a request read, against the rows.
CloseReads(r, posts, checks) ==
  r.kind = "close" => \A p \in r.on : posts[p].exists =>
    checks[r.check].poste = p /\ checks[r.check].status \in {"open", "closed"}
VisitReads(r, posts) ==
  r.kind = "visit" => /\ r.last \in [r.on -> Nat]
                      /\ r.alone => \A p \in r.on : r.last[p] = posts[p].last
MergeReads(r, posts) ==
  r.kind = "merge" => /\ r.target # r.dup /\ r.on = {r.target, r.dup} /\ r.was \in [r.on -> PosteRow]
                      /\ r.alone => \A p \in r.on : Same(r.was[p], posts[p])
SyncReads(r, posts) ==
  r.kind = "sync" => (r.alone => \A p \in r.on : Same(r.was[p], posts[p]))

Reads(r, posts, checks) ==
  /\ CloseReads(r, posts, checks) /\ VisitReads(r, posts)
  /\ MergeReads(r, posts) /\ SyncReads(r, posts)

Apart(req) == \A s, x \in Slots :
  s # x /\ req[s].on \cap req[x].on # {} => ~req[s].alone /\ ~req[x].alone

RequestsInv ==
  /\ request \in [Slots -> Form]
  /\ \A s \in Slots : Reads(request[s], poste, check)
  /\ Apart(request)

\* The verifications and the journal.
Closers(req, c) == {s \in Slots : req[s].kind = "close" /\ req[s].check = c}

ChecksInv ==
  /\ check \in [Checks -> CheckRow]
  /\ \A c \in Checks : IF check[c].status = "none" THEN check[c] = NoCheck
                       ELSE check[c].poste \in Postes /\ poste[check[c].poste].exists
  /\ \A c, e \in Checks :
       (/\ check[c].status = "open" /\ check[e].status = "open"
        /\ check[c].poste = check[e].poste) => c = e

Written(c, row, jour, req) ==
  /\ \A p \in Postes : jour[p][c] > 0 => row.poste = p
  /\ row.status # "closed" => \A p \in Postes : jour[p][c] = 0
  /\ row.status = "closed" =>
       /\ jour[row.poste][c] >= 1
       /\ jour[row.poste][c] + Cardinality(Closers(req, c)) <= Cardinality(Slots)

JournalInv ==
  /\ journal \in [Postes -> [Kinds -> Nat]]
  /\ \A p \in Postes : ~poste[p].exists => \A k \in Kinds : journal[p][k] = 0
  /\ \A c \in Checks \ struck : Written(c, check[c], journal, request)

IInv == Shape /\ RoomsInv /\ RequestsInv /\ ChecksInv /\ JournalInv /\ LastKept

(***************************************************************************)
(* Numbers, and the rooms one OU after the other.                          *)
(***************************************************************************)

(* A set of numbers that is not empty has a least one: what is said below  *)
(* of the rooms after n OUs, for every n, is by a least counterexample.    *)
LEMMA LeastNumber ==
  ASSUME NEW T \in SUBSET Nat, T # {}
  PROVE  \E n \in T : \A i \in T : n <= i
<1> DEFINE R == OpToRel(<, Nat)
<1>1. IsWellFoundedOn(R, Nat)
  BY NatLessThanWellFounded
<1>2. \A i, n \in Nat : i < n => <<i, n>> \in R
  BY DEF OpToRel
<1>3. \E n \in T : \A i \in T : ~(<<i, n>> \in R)
  <2> HIDE DEF R
  <2> QED  BY <1>1, WFMin
<1>4. \A i \in T, n \in T : n <= i \/ i < n
  OBVIOUS
<1> HIDE DEF R
<1> QED  BY <1>2, <1>3, <1>4

\* b is rows after some OUs had their rooms in a.
Grows(a, b) ==
  /\ b \in [RoomIds -> RoomRow] /\ WholeRooms(b)
  /\ \A r \in RoomIds : a[r].exists => b[r].exists
  /\ \A r \in RoomIds : a[r].key # None => b[r].key = a[r].key
  /\ \A r \in RoomIds : b[r].building # None => b[r].building = a[r].building

LEMMA GrowsTransitive ==
  ASSUME NEW a, NEW b, NEW c, Grows(a, b), Grows(b, c)
  PROVE  Grows(a, c)
BY DEF Grows

LEMMA NoRoomRow == NoRoom \in RoomRow /\ ~NoRoom.exists /\ NoRoom.key = None /\ NoRoom.building = None
                   /\ NoRoom.site = None
BY DEF NoRoom, RoomRow

(* The least free name of an OU, when there is one.                        *)
LEMMA FreeName ==
  ASSUME NEW rows, NEW k \in Keys, FreeNames(rows, k) # {}
  PROVE  Names[CHOOSE i \in FreeNames(rows, k) : \A j \in FreeNames(rows, k) : i <= j] \in ToSet(Names)
<1> DEFINE F == FreeNames(rows, k)
<1>1. NameOf[k] \in DOMAIN Names /\ DOMAIN Names = 1 .. Len(Names) /\ Len(Names) \in Nat
  BY RoomsAssumption
<1>2. F \in SUBSET Nat /\ F \subseteq DOMAIN Names
  BY <1>1 DEF FreeNames
<1>3. \E i \in F : \A j \in F : i <= j
  <2> HIDE DEF F
  <2> QED  BY <1>2, LeastNumber DEF F
<1>4. (CHOOSE i \in F : \A j \in F : i <= j) \in F
  <2> HIDE DEF F
  <2> QED  BY <1>3
<1> QED  BY <1>2, <1>4 DEF ToSet

LEMMA RoomForKeyGrows ==
  ASSUME NEW rows \in [RoomIds -> RoomRow], WholeRooms(rows), NEW k \in Keys
  PROVE  /\ Grows(rows, RoomForKey(rows, k))
         /\ CanMake(rows, k) => Keyed(RoomForKey(rows, k), k) # {}
<1>0. k # None
  BY RoomsAssumption
<1>1. CASE Keyed(rows, k) # {} \/ ~CanMake(rows, k)
  <2>0. ~CanMake(rows, k) => Loose(rows, k) = {}
    BY DEF CanMake
  <2>1. RoomForKey(rows, k) = rows
    BY <1>1, <2>0 DEF RoomForKey
  <2> QED  BY <1>1, <2>1 DEF Grows, CanMake
<1>2. CASE Keyed(rows, k) = {} /\ CanMake(rows, k) /\ Loose(rows, k) # {}
  <2> DEFINE r0 == CHOOSE r \in Loose(rows, k) : TRUE
             row == [rows[r0] EXCEPT !.key = k]
             new == [rows EXCEPT ![r0] = row]
  <2>1. r0 \in Loose(rows, k)
    BY <1>2
  <2>2. r0 \in RoomIds /\ rows[r0].exists /\ rows[r0].key = None /\ rows[r0].building = None
    BY <2>1 DEF Loose, There
  <2>3. rows[r0] \in RoomRow
    BY <2>2
  <2>4. /\ row \in RoomRow /\ row.exists /\ row.key = k /\ row.building = rows[r0].building
        /\ row.name = rows[r0].name /\ row.site = rows[r0].site
    BY <2>2, <2>3 DEF RoomRow
  <2>5. RoomForKey(rows, k) = new
    BY <1>2, <1>0 DEF RoomForKey
  <2> HIDE DEF r0, row
  <2>6. new \in [RoomIds -> RoomRow]
    BY <2>2, <2>4
  <2>7. new[r0] = row /\ \A r \in RoomIds \ {r0} : new[r] = rows[r]
    BY <2>2
  <2>8. \A r \in RoomIds : rows[r].exists => rows[r].key # k
    BY <1>2 DEF Keyed, There
  <2>9. \A r \in RoomIds : rows[r].key # k
    BY <2>8, <1>0, NoRoomRow DEF WholeRooms
  <2> HIDE DEF new
  <2>10. WholeRooms(new)
    BY <2>2, <2>4, <2>7, <2>9 DEF WholeRooms
  <2>11. Grows(rows, new)
    BY <2>2, <2>4, <2>6, <2>7, <2>10 DEF Grows
  <2>12. r0 \in Keyed(new, k)
    BY <2>2, <2>4, <2>7 DEF Keyed, There
  <2> QED  BY <2>5, <2>11, <2>12
<1>3. CASE Keyed(rows, k) = {} /\ CanMake(rows, k) /\ Loose(rows, k) = {}
  <2> DEFINE r0 == CHOOSE r \in Fresh(rows) : TRUE
             nm == Names[CHOOSE i \in FreeNames(rows, k) : \A j \in FreeNames(rows, k) : i <= j]
             row == [NoRoom EXCEPT !.exists = TRUE, !.key = k, !.name = nm]
             new == [rows EXCEPT ![r0] = row]
  <2>0. Fresh(rows) # {} /\ FreeNames(rows, k) # {}
    BY <1>3 DEF CanMake
  <2>1. r0 \in Fresh(rows)
    BY <2>0
  <2>2. r0 \in RoomIds /\ ~rows[r0].exists
    BY <2>1 DEF Fresh, There
  <2>3. rows[r0] = NoRoom
    BY <2>2 DEF WholeRooms
  <2>4. nm \in ToSet(Names)
    BY <2>0, FreeName
  <2>5. RoomForKey(rows, k) = new
    BY <1>3, <1>0 DEF RoomForKey
  <2> HIDE DEF r0, nm
  <2>6. /\ row \in RoomRow /\ row.exists /\ row.key = k /\ row.building = None
        /\ row.name = nm /\ row.site = None
    BY <2>4, NoRoomRow DEF RoomRow, NoRoom
  <2> HIDE DEF row
  <2>7. new \in [RoomIds -> RoomRow]
    BY <2>2, <2>6
  <2>8. new[r0] = row /\ \A r \in RoomIds \ {r0} : new[r] = rows[r]
    BY <2>2
  <2>9. \A r \in RoomIds : rows[r].exists => rows[r].key # k
    BY <1>3 DEF Keyed, There
  <2>10. \A r \in RoomIds : rows[r].key # k
    BY <2>9, <1>0, NoRoomRow DEF WholeRooms
  <2> HIDE DEF new
  <2>11. WholeRooms(new)
    BY <2>2, <2>4, <2>6, <2>8, <2>10 DEF WholeRooms
  <2>12. Grows(rows, new)
    BY <2>2, <2>3, <2>6, <2>7, <2>8, <2>11, NoRoomRow DEF Grows
  <2>13. r0 \in Keyed(new, k)
    BY <2>2, <2>6, <2>8 DEF Keyed, There
  <2> QED  BY <2>5, <2>12, <2>13
<1> QED  BY <1>1, <1>2, <1>3

\* f holds the rooms after each of the first n OUs of order.
Walks(f, rows, order, n) ==
  f = [i \in 0 .. n |-> IF i = 0 THEN rows ELSE RoomForKey(f[i - 1], order[i])]

LEMMA WalkExists ==
  ASSUME NEW rows, NEW order
  PROVE  \A n \in Nat : \E f : Walks(f, rows, order, n)
<1> DEFINE T == {n \in Nat : ~\E f : Walks(f, rows, order, n)}
<1> SUFFICES ASSUME T # {} PROVE FALSE
  OBVIOUS
<1>1. T \in SUBSET Nat
  OBVIOUS
<1>2. PICK n \in T : \A i \in T : n <= i
  <2> HIDE DEF T
  <2> QED  BY <1>1, LeastNumber
<1>3. n # 0
  <2>1. Walks([i \in 0 .. 0 |-> rows], rows, order, 0)
    BY DEF Walks
  <2> QED  BY <2>1
<1>4. n - 1 \in Nat /\ n - 1 \notin T /\ n \in Nat
  <2> n \in Nat  OBVIOUS
  <2> HIDE DEF T
  <2> QED  BY <1>2, <1>3
<1>5. PICK f : Walks(f, rows, order, n - 1)
  BY <1>4
<1> DEFINE g == [i \in 0 .. n |-> IF i = n THEN RoomForKey(f[n - 1], order[n]) ELSE f[i]]
<1>6. ASSUME NEW i \in 0 .. n
      PROVE  g[i] = IF i = 0 THEN rows ELSE RoomForKey(g[i - 1], order[i])
  <2>1. \A j \in 0 .. n - 1 : f[j] = IF j = 0 THEN rows ELSE RoomForKey(f[j - 1], order[j])
    BY <1>5 DEF Walks
  <2> HIDE DEF T
  <2>2. CASE i = n
    <3>1. g[i] = RoomForKey(f[n - 1], order[n])
      BY <2>2
    <3>2. g[i - 1] = f[n - 1]
      BY <2>2, <1>3, <1>4
    <3> QED  BY <3>1, <3>2, <2>2, <1>3
  <2>3. CASE i # n
    <3>1. i \in 0 .. n - 1
      BY <2>3, <1>4
    <3>2. g[i] = f[i]
      BY <2>3
    <3>3. CASE i = 0
      BY <3>3, <3>2, <3>1, <2>1
    <3>4. CASE i # 0
      <4>1. i - 1 \in 0 .. n /\ i - 1 # n
        BY <3>1, <3>4, <1>4
      <4>2. g[i - 1] = f[i - 1]
        BY <4>1
      <4> QED  BY <3>4, <4>2, <3>2, <3>1, <2>1
    <3> QED  BY <3>3, <3>4
  <2> QED  BY <2>2, <2>3
<1>7. Walks(g, rows, order, n)
  <2>1. g = [i \in 0 .. n |-> g[i]]
    OBVIOUS
  <2>2. [i \in 0 .. n |-> g[i]]
          = [i \in 0 .. n |-> IF i = 0 THEN rows ELSE RoomForKey(g[i - 1], order[i])]
    <3> HIDE DEF g
    <3> QED  BY <1>6, Zenon
  <2> HIDE DEF g
  <2> QED  BY <2>1, <2>2 DEF Walks
<1> HIDE DEF g
<1> QED  BY <1>7, <1>2

LEMMA RoomsForKeysWalks ==
  ASSUME NEW rows, NEW order, Len(order) \in Nat
  PROVE  \E f : Walks(f, rows, order, Len(order)) /\ RoomsForKeys(rows, order) = f[Len(order)]
<1>1. \E f : Walks(f, rows, order, Len(order))
  BY WalkExists
<1>2. \E f : f = [n \in 0 .. Len(order) |->
                    IF n = 0 THEN rows ELSE RoomForKey(f[n - 1], order[n])]
  BY <1>1 DEF Walks
<1> QED  BY <1>2 DEF RoomsForKeys, Walks

(* What a sync makes of the rooms: none is lost, none changes its OU.      *)
LEMMA RoomsForKeysGrows ==
  ASSUME NEW rows \in [RoomIds -> RoomRow], WholeRooms(rows),
         NEW order, Len(order) \in Nat, \A i \in 1 .. Len(order) : order[i] \in Keys
  PROVE  Grows(rows, RoomsForKeys(rows, order))
<1> DEFINE N == Len(order)
<1>1. PICK f : Walks(f, rows, order, N) /\ RoomsForKeys(rows, order) = f[N]
  BY RoomsForKeysWalks
<1>2. \A i \in 0 .. N : f[i] = IF i = 0 THEN rows ELSE RoomForKey(f[i - 1], order[i])
  BY <1>1 DEF Walks
<1>3. N \in Nat /\ \A i \in 1 .. N : order[i] \in Keys
  OBVIOUS
<1> HIDE DEF N
<1> DEFINE T == {n \in 0 .. N : ~Grows(rows, f[n])}
<1>4. T = {}
  <2> SUFFICES ASSUME T # {} PROVE FALSE
    OBVIOUS
  <2>1. T \in SUBSET Nat
    BY <1>3
  <2>2. PICK n \in T : \A i \in T : n <= i
    <3> HIDE DEF T
    <3> QED  BY <2>1, LeastNumber
  <2>3. n \in 0 .. N /\ ~Grows(rows, f[n])
    OBVIOUS
  <2>4. Grows(rows, rows)
    BY DEF Grows
  <2>5. n # 0
    BY <2>3, <2>4, <1>2, <1>3
  <2>6. n - 1 \in 0 .. N /\ n \in 1 .. N /\ n - 1 \notin T
    <3>1. n - 1 \in 0 .. N /\ n \in 1 .. N /\ ~(n <= n - 1)
      BY <2>3, <2>5, <1>3
    <3> HIDE DEF T
    <3> QED  BY <3>1, <2>2
  <2>7. Grows(rows, f[n - 1])
    BY <2>6
  <2>8. f[n] = RoomForKey(f[n - 1], order[n])
    BY <2>3, <2>5, <1>2
  <2>9. Grows(f[n - 1], f[n])
    <3>1. f[n - 1] \in [RoomIds -> RoomRow] /\ WholeRooms(f[n - 1])
      BY <2>7 DEF Grows
    <3>2. order[n] \in Keys
      BY <2>6, <1>3
    <3> QED  BY <3>1, <3>2, <2>8, RoomForKeyGrows
  <2> QED  BY <2>3, <2>7, <2>9, GrowsTransitive
<1> QED  BY <1>1, <1>3, <1>4

(***************************************************************************)
(* Requests.                                                               *)
(***************************************************************************)
LEMMA NoneIsNobody ==
  /\ None \notin Postes /\ None \notin RoomIds /\ None \notin BuildingIds
  /\ None \notin Sites /\ None \notin Keys
BY RoomsAssumption

LEMMA IdleForm == Idle \in Form /\ Idle.kind = "idle" /\ Idle.on = {} /\ Idle.alone = TRUE
BY DEF Idle, Form

LEMMA FormFacts ==
  ASSUME NEW r \in Form
  PROVE  /\ r.on \in SUBSET Postes /\ r.alone \in BOOLEAN
         /\ r.kind \in {"idle", "close", "visit", "merge", "sync"}
         /\ r.kind = "idle" => r = Idle
         /\ r.kind = "close" => r \in CloseForm /\ r.check \in Checks
         /\ r.kind = "visit" => r \in VisitForm /\ r.at \in Nat
         /\ r.kind = "merge" => r \in MergeForm /\ r.target \in Postes /\ r.dup \in Postes
         /\ r.kind = "sync" => r \in SyncForm /\ r.on = Postes /\ r.was \in [Postes -> PosteRow]
<1>1. CASE r = Idle
  BY <1>1, IdleForm
<1>2. CASE r \in CloseForm
  BY <1>2 DEF CloseForm
<1>3. CASE r \in VisitForm
  BY <1>3 DEF VisitForm
<1>4. CASE r \in MergeForm
  BY <1>4 DEF MergeForm
<1>5. CASE r \in SyncForm
  BY <1>5 DEF SyncForm
<1> QED  BY <1>1, <1>2, <1>3, <1>4, <1>5 DEF Form

(* A request that is no longer alone, or still is, is the same otherwise.  *)
LEMMA Marked ==
  ASSUME NEW r \in Form, NEW a \in BOOLEAN
  PROVE  LET q == [r EXCEPT !.alone = a]
         IN  /\ r # Idle => q \in Form
             /\ a = r.alone => q = r
             /\ q.on = r.on /\ q.kind = r.kind /\ q.alone = a
             /\ r.kind = "close" => q.check = r.check
             /\ r.kind = "visit" => q.last = r.last /\ q.at = r.at
             /\ r.kind = "merge" => q.target = r.target /\ q.dup = r.dup /\ q.was = r.was
             /\ r.kind = "sync" => q.was = r.was
<1> DEFINE q == [r EXCEPT !.alone = a]
<1>1. CASE r = Idle
  <2>1. q = [kind |-> "idle", on |-> {}, alone |-> a]
    BY <1>1 DEF Idle
  <2> QED  BY <1>1, <2>1 DEF Idle
<1>2. CASE r \in CloseForm
  <2>1. q \in CloseForm
    BY <1>2 DEF CloseForm
  <2> QED  BY <1>2, <2>1 DEF CloseForm, Form
<1>3. CASE r \in VisitForm
  <2>1. q \in VisitForm
    BY <1>3 DEF VisitForm
  <2> QED  BY <1>3, <2>1 DEF VisitForm, Form
<1>4. CASE r \in MergeForm
  <2>1. q \in MergeForm
    BY <1>4 DEF MergeForm
  <2> QED  BY <1>4, <2>1 DEF MergeForm, Form
<1>5. CASE r \in SyncForm
  <2>1. q \in SyncForm
    BY <1>5 DEF SyncForm
  <2> QED  BY <1>5, <2>1 DEF SyncForm, Form
<1> QED  BY <1>1, <1>2, <1>3, <1>4, <1>5 DEF Form

\* What a step may do to the rows under the requests at work: new postes and
\* verifications are posts and checks.
Upholds(posts, checks) ==
  \A p \in Postes : posts[p].exists =>
    /\ poste[p].exists
    /\ \A c \in Checks : (check[c].poste = p /\ check[c].status \in {"open", "closed"}) =>
         (checks[c].poste = p /\ checks[c].status \in {"open", "closed"})

(* What a request read still stands when it keeps to itself only if its    *)
(* postes are as they were.                                                *)
LEMMA ReadsKept ==
  ASSUME NEW r \in Form, Reads(r, poste, check), NEW posts, NEW checks, Upholds(posts, checks),
         NEW a \in BOOLEAN, a => r.alone /\ \A p \in r.on : Same(posts[p], poste[p])
  PROVE  Reads([r EXCEPT !.alone = a], posts, checks)
<1> DEFINE q == [r EXCEPT !.alone = a]
<1>1. /\ q.on = r.on /\ q.kind = r.kind /\ q.alone = a
      /\ r.kind = "close" => q.check = r.check
      /\ r.kind = "visit" => q.last = r.last /\ q.at = r.at
      /\ r.kind = "merge" => q.target = r.target /\ q.dup = r.dup /\ q.was = r.was
      /\ r.kind = "sync" => q.was = r.was
  BY Marked
<1> HIDE DEF q
<1>2. r.on \in SUBSET Postes /\ (r.kind = "close" => r.check \in Checks)
  BY FormFacts
<1>3. CloseReads(q, posts, checks)
  BY <1>1, <1>2 DEF CloseReads, Reads, Upholds
<1>4. VisitReads(q, posts)
  BY <1>1 DEF VisitReads, Reads, Same
<1>5. MergeReads(q, posts)
  BY <1>1 DEF MergeReads, Reads, Same
<1>6. SyncReads(q, posts)
  BY <1>1 DEF SyncReads, Reads, Same
<1> QED  BY <1>3, <1>4, <1>5, <1>6 DEF Reads, q

LEMMA IdleReads ==
  ASSUME NEW posts, NEW checks
  PROVE  Reads(Idle, posts, checks)
BY IdleForm DEF Reads, CloseReads, VisitReads, MergeReads, SyncReads

\* The requests at work, of which those on postes of ps are overlapped.
RequestsOK(req, posts, checks) ==
  /\ req \in [Slots -> Form]
  /\ \A s \in Slots : Reads(req[s], posts, checks)
  /\ Apart(req)

LEMMA Touching ==
  ASSUME RequestsInv, NEW ps \in SUBSET Postes, NEW s \in Slots
  PROVE  LET q == Touch(ps)[s]
             a == request[s].alone /\ request[s].on \cap ps = {}
         IN  /\ q = [request[s] EXCEPT !.alone = a] /\ q \in Form
             /\ q.on = request[s].on /\ q.kind = request[s].kind /\ q.alone = a
             /\ q.kind = "close" => q.check = request[s].check
<1>1. request[s] \in Form
  BY DEF RequestsInv
<1> DEFINE a == request[s].alone /\ request[s].on \cap ps = {}
<1>2. a \in BOOLEAN /\ request[s].alone \in BOOLEAN
  BY <1>1, FormFacts
<1>3. Touch(ps)[s] = [request[s] EXCEPT !.alone = a]
  BY DEF Touch
<1>4. request[s] = Idle => a = request[s].alone
  BY IdleForm
<1> HIDE DEF a
<1>5. [request[s] EXCEPT !.alone = a] \in Form
  BY <1>1, <1>2, <1>4, Marked
<1>6. LET q == [request[s] EXCEPT !.alone = a]
      IN  /\ q.on = request[s].on /\ q.kind = request[s].kind /\ q.alone = a
          /\ request[s].kind = "close" => q.check = request[s].check
  BY <1>1, <1>2, Marked
<1> QED  BY <1>3, <1>5, <1>6 DEF a

(* Requests on postes a step is about are overlapped by it.                *)
LEMMA RequestsTouched ==
  ASSUME RequestsInv, NEW ps \in SUBSET Postes, NEW posts, NEW checks, Upholds(posts, checks),
         \A p \in Postes \ ps : Same(posts[p], poste[p])
  PROVE  RequestsOK(Touch(ps), posts, checks)
<1>1. ASSUME NEW s \in Slots PROVE Touch(ps)[s] \in Form /\ Reads(Touch(ps)[s], posts, checks)
  <2> DEFINE a == request[s].alone /\ request[s].on \cap ps = {}
  <2>1. request[s] \in Form /\ Reads(request[s], poste, check)
    BY DEF RequestsInv
  <2>2. Touch(ps)[s] = [request[s] EXCEPT !.alone = a] /\ Touch(ps)[s] \in Form
    BY Touching
  <2>3. a \in BOOLEAN
    BY <2>1, FormFacts
  <2>4. a => request[s].alone /\ \A p \in request[s].on : Same(posts[p], poste[p])
    BY <2>1, FormFacts
  <2> HIDE DEF a
  <2>5. Reads([request[s] EXCEPT !.alone = a], posts, checks)
    BY <2>1, <2>3, <2>4, ReadsKept
  <2> QED  BY <2>2, <2>5
<1>2. Touch(ps) \in [Slots -> Form]
  <2>1. Touch(ps) = [s \in Slots |-> Touch(ps)[s]]
    BY DEF Touch
  <2> QED  BY <1>1, <2>1
<1>3. Apart(Touch(ps))
  <2> SUFFICES ASSUME NEW s \in Slots, NEW x \in Slots, s # x,
                      Touch(ps)[s].on \cap Touch(ps)[x].on # {}
               PROVE  ~Touch(ps)[s].alone /\ ~Touch(ps)[x].alone
    BY DEF Apart
  <2>1. Touch(ps)[s].on = request[s].on /\ (Touch(ps)[s].alone => request[s].alone)
    BY Touching
  <2>2. Touch(ps)[x].on = request[x].on /\ (Touch(ps)[x].alone => request[x].alone)
    BY Touching
  <2>3. ~request[s].alone /\ ~request[x].alone
    BY <2>1, <2>2 DEF RequestsInv, Apart
  <2> QED  BY <2>1, <2>2, <2>3
<1> QED  BY <1>1, <1>2, <1>3 DEF RequestsOK

(* A request that ends changed its own postes only.                        *)
LEMMA RequestsEnded ==
  ASSUME RequestsInv, NEW s \in Slots, NEW posts, NEW checks, Upholds(posts, checks),
         \A p \in Postes \ request[s].on : Same(posts[p], poste[p])
  PROVE  RequestsOK([request EXCEPT ![s] = Idle], posts, checks)
<1> DEFINE req == [request EXCEPT ![s] = Idle]
<1>1. req \in [Slots -> Form] /\ req[s] = Idle /\ \A x \in Slots \ {s} : req[x] = request[x]
  BY IdleForm DEF RequestsInv
<1> HIDE DEF req
<1>2. ASSUME NEW x \in Slots PROVE Reads(req[x], posts, checks)
  <2>1. CASE x = s
    BY <2>1, <1>1, IdleReads
  <2>2. CASE x # s
    <3>1. request[x] \in Form /\ Reads(request[x], poste, check) /\ request[x].alone \in BOOLEAN
          /\ request[x].on \in SUBSET Postes
      BY FormFacts DEF RequestsInv
    <3>2. request[x].alone => request[x].on \cap request[s].on = {}
      BY <2>2 DEF RequestsInv, Apart
    <3>3. request[x].alone =>
            request[x].alone /\ \A p \in request[x].on : Same(posts[p], poste[p])
      BY <3>1, <3>2
    <3>4. Reads([request[x] EXCEPT !.alone = request[x].alone], posts, checks)
      BY <3>1, <3>3, ReadsKept
    <3>5. [request[x] EXCEPT !.alone = request[x].alone] = request[x]
      BY <3>1, Marked
    <3> QED  BY <3>4, <3>5, <2>2, <1>1
  <2> QED  BY <2>1, <2>2
<1>3. Apart(req)
  BY <1>1, IdleForm DEF Apart, RequestsInv
<1> QED  BY <1>1, <1>2, <1>3 DEF RequestsOK, req

(* No request hears of a step that leaves every poste as it was read.      *)
LEMMA RequestsHold ==
  ASSUME RequestsInv, NEW posts, NEW checks, Upholds(posts, checks),
         \A p \in Postes : Same(posts[p], poste[p])
  PROVE  RequestsOK(request, posts, checks)
<1>1. ASSUME NEW x \in Slots PROVE Reads(request[x], posts, checks)
  <2>1. request[x] \in Form /\ Reads(request[x], poste, check) /\ request[x].alone \in BOOLEAN
        /\ request[x].on \in SUBSET Postes
    BY FormFacts DEF RequestsInv
  <2>2. request[x].alone => request[x].alone /\ \A p \in request[x].on : Same(posts[p], poste[p])
    BY <2>1
  <2>3. Reads([request[x] EXCEPT !.alone = request[x].alone], posts, checks)
    BY <2>1, <2>2, ReadsKept
  <2>4. [request[x] EXCEPT !.alone = request[x].alone] = request[x]
    BY <2>1, Marked
  <2> QED  BY <2>3, <2>4
<1> QED  BY <1>1 DEF RequestsOK, RequestsInv

LEMMA Untouched == Upholds(poste, check) /\ \A p \in Postes : Same(poste[p], poste[p])
BY DEF Upholds, Same

(* A request begins with what the rows say, alone if no other is on its    *)
(* postes; those that are, are alone no more.                              *)
LEMMA RequestsBegun ==
  ASSUME RequestsInv, NEW s \in Slots, NEW class, NEW r \in Form, Begin(s, class, r),
         r # Idle, r.alone = TRUE, Reads(r, poste, check)
  PROVE  /\ RequestsInv'
         /\ \A x \in Slots : request'[x].kind = "close" =>
              \/ x = s /\ r.kind = "close" /\ request'[x].check = r.check
              \/ request[x].kind = "close" /\ request'[x].check = request[x].check
<1> DEFINE a == \A x \in Slots : request[x].on \cap r.on = {}
           q == [r EXCEPT !.alone = a]
           old == Touch(r.on)
<1>1. request' = [old EXCEPT ![s] = q] /\ poste' = poste /\ check' = check
  BY DEF Begin
<1>2. r.on \in SUBSET Postes
  BY FormFacts
<1>3. RequestsOK(old, poste, check)
  BY <1>2, Untouched, RequestsTouched
<1>4. \A x \in Slots : /\ old[x].on = request[x].on
                       /\ old[x].alone = (request[x].alone /\ request[x].on \cap r.on = {})
                       /\ old[x].kind = request[x].kind
                       /\ old[x].kind = "close" => old[x].check = request[x].check
  BY <1>2, Touching
<1>5. q \in Form /\ q.on = r.on /\ q.kind = r.kind /\ q.alone = a
      /\ (r.kind = "close" => q.check = r.check)
  <2>1. a \in BOOLEAN
    OBVIOUS
  <2> HIDE DEF a
  <2> QED  BY <2>1, Marked
<1>6. Reads(q, poste, check)
  <2>1. a \in BOOLEAN /\ (a => r.alone /\ \A p \in r.on : Same(poste[p], poste[p]))
    BY DEF Same
  <2> HIDE DEF a
  <2> QED  BY <2>1, Untouched, ReadsKept
<1>7. a <=> \A x \in Slots : request[x].on \cap r.on = {}
  OBVIOUS
<1> HIDE DEF a, q, old
<1>8. request' \in [Slots -> Form] /\ request'[s] = q /\ \A x \in Slots \ {s} : request'[x] = old[x]
  BY <1>1, <1>3, <1>5 DEF RequestsOK
<1>9. \A x \in Slots : Reads(request'[x], poste', check')
  BY <1>1, <1>3, <1>6, <1>8 DEF RequestsOK
<1>10. Apart(request')
  <2> SUFFICES ASSUME NEW x \in Slots, NEW y \in Slots, x # y,
                      request'[x].on \cap request'[y].on # {}
               PROVE  ~request'[x].alone /\ ~request'[y].alone
    BY DEF Apart
  <2>1. CASE x # s /\ y # s
    BY <2>1, <1>3, <1>8 DEF RequestsOK, Apart
  <2>2. CASE x = s
    BY <2>2, <1>4, <1>5, <1>7, <1>8
  <2>3. CASE y = s
    BY <2>3, <1>4, <1>5, <1>7, <1>8
  <2> QED  BY <2>1, <2>2, <2>3
<1> QED  BY <1>4, <1>5, <1>8, <1>9, <1>10 DEF RequestsInv

(***************************************************************************)
(* What does not concern the rooms, the visits or the journal.             *)
(***************************************************************************)

\* A step about no check leaves the closers a subset of those at work.
ClosersFew == \A x \in Slots : request'[x].kind = "close" =>
                request[x].kind = "close" /\ request'[x].check = request[x].check

LEMMA ClosersFewer ==
  ASSUME NEW c \in Checks,
         \A x \in Slots : request'[x].kind = "close" /\ request'[x].check = c =>
           request[x].kind = "close" /\ request[x].check = c
  PROVE  Cardinality(Closers(request', c)) <= Cardinality(Closers(request, c))
<1>1. IsFiniteSet(Closers(request, c))
  BY ParcAssumption, FS_Subset DEF Closers
<1>2. Closers(request', c) \subseteq Closers(request, c)
  BY DEF Closers
<1> QED  BY <1>1, <1>2, FS_Subset

LEMMA ClosersFinite ==
  ASSUME NEW req, NEW c \in Checks
  PROVE  IsFiniteSet(Closers(req, c)) /\ Cardinality(Closers(req, c)) \in Nat
         /\ Cardinality(Slots) \in Nat /\ Cardinality(Closers(req, c)) <= Cardinality(Slots)
<1>1. IsFiniteSet(Closers(req, c)) /\ Closers(req, c) \subseteq Slots /\ IsFiniteSet(Slots)
  BY ParcAssumption, FS_Subset DEF Closers
<1> QED  BY <1>1, FS_Subset, FS_CardinalityType

(* What is written of a verification stays right when no closer joins.     *)
LEMMA WrittenKept ==
  ASSUME NEW c \in Checks, journal \in [Postes -> [Kinds -> Nat]],
         check[c].status # "none" => check[c].poste \in Postes,
         Written(c, check[c], journal, request),
         \A p \in Postes : journal'[p][c] = journal[p][c], check'[c] = check[c],
         \/ check[c].status # "closed"
         \/ \A x \in Slots : request'[x].kind = "close" /\ request'[x].check = c =>
              request[x].kind = "close" /\ request[x].check = c
  PROVE  Written(c, check'[c], journal', request')
<1>1. CASE check[c].status # "closed"
  BY <1>1 DEF Written
<1>2. CASE check[c].status = "closed"
  <2>1. Cardinality(Closers(request', c)) <= Cardinality(Closers(request, c))
    BY <1>2, ClosersFewer
  <2>2. Cardinality(Closers(request, c)) \in Nat /\ Cardinality(Closers(request', c)) \in Nat
        /\ Cardinality(Slots) \in Nat
    BY ClosersFinite
  <2>3. check[c].poste \in Postes /\ journal[check[c].poste][c] \in Nat
    BY <1>2 DEF Kinds
  <2> QED  BY <1>2, <2>1, <2>2, <2>3 DEF Written
<1> QED  BY <1>1, <1>2

(* The journal and the verifications unchanged, on postes that stay.       *)
LEMMA JournalHolds ==
  ASSUME ChecksInv, JournalInv, UNCHANGED <<check, journal>>, struck \subseteq struck',
         \A p \in Postes : poste'[p].exists <=> poste[p].exists,
         \A c \in Checks, x \in Slots :
           request'[x].kind = "close" /\ request'[x].check = c /\ check[c].status = "closed" =>
             request[x].kind = "close" /\ request[x].check = c
  PROVE  ChecksInv' /\ JournalInv'
<1>1. ChecksInv'
  BY DEF ChecksInv
<1>2. ASSUME NEW c \in Checks \ struck' PROVE Written(c, check'[c], journal', request')
  <2>1. Written(c, check[c], journal, request) /\ journal \in [Postes -> [Kinds -> Nat]]
        /\ (check[c].status # "none" => check[c].poste \in Postes)
    BY DEF JournalInv, ChecksInv
  <2> QED  BY <2>1, WrittenKept
<1> QED  BY <1>1, <1>2 DEF JournalInv

(***************************************************************************)
(* Steps that make rooms for OUs, or none, and file postes.                *)
(***************************************************************************)
LEMMA GrowsNone == Shape /\ RoomsInv => Grows(room, room)
BY DEF Grows, Shape, RoomsInv

LEMMA PlacesKept ==
  ASSUME Shape, RoomsInv, UNCHANGED <<source, building>>, Grows(room, room'),
         \A p \in Postes : poste'[p].exists =>
           /\ poste[p].exists
           /\ \/ poste'[p].room = poste[p].room
              \/ poste'[p].room = None
              \/ room'[poste'[p].room].exists
           /\ \/ source # "ad_ou" \/ p \in astray'
              \/ FiledIn(room', poste'[p])
              \/ p \notin astray /\ poste'[p].room = poste[p].room /\ poste'[p].ou = poste[p].ou
  PROVE  RoomsInv'
<1>1. WholeRooms(room')
  BY DEF Grows
<1>2. Housed'
  <2> SUFFICES ASSUME NEW r \in RoomIds, room'[r].building # None
               PROVE  building'[room'[r].building].exists
    BY DEF Housed
  <2> QED  BY DEF Grows, RoomsInv, Housed
<1>3. Lodged'
  <2> SUFFICES ASSUME NEW p \in Postes, poste'[p].exists, poste'[p].room # None
               PROVE  room'[poste'[p].room].exists
    BY DEF Lodged
  <2>1. poste[p].room \in RoomIds \cup {None}
    BY DEF Shape, PosteRow
  <2>2. poste[p].exists /\ poste[p].room # None => room[poste[p].room].exists
    BY DEF RoomsInv, Lodged
  <2> QED  BY <2>1, <2>2 DEF Grows
<1>4. ASSUME source' = "ad_ou", NEW p \in Postes \ astray', poste'[p].exists
      PROVE  FiledIn(room', poste'[p])
  <2>1. SUFFICES ASSUME p \notin astray, poste'[p].room = poste[p].room, poste'[p].ou = poste[p].ou
                 PROVE  FiledIn(room', poste'[p])
    BY <1>4
  <2>2. FiledIn(room, poste[p])
    BY <1>4, <2>1 DEF RoomsInv
  <2>3. poste[p].room \in RoomIds \cup {None} /\ poste[p].ou \in Keys \cup {None}
    BY DEF Shape, PosteRow
  <2> QED  BY <2>1, <2>2, <2>3 DEF FiledIn, Grows
<1> QED  BY <1>1, <1>2, <1>3, <1>4 DEF RoomsInv

LEMMA PlacesHold ==
  ASSUME Shape, RoomsInv, UNCHANGED <<source, building, room, astray>>,
         \A p \in Postes : poste'[p].exists =>
           poste[p].exists /\ poste'[p].room = poste[p].room /\ poste'[p].ou = poste[p].ou
  PROVE  RoomsInv'
<1>1. Grows(room, room')
  BY GrowsNone
<1>2. \A p \in Postes : poste'[p].exists =>
        /\ poste[p].exists
        /\ poste'[p].room = poste[p].room
        /\ \/ p \in astray'
           \/ p \notin astray /\ poste'[p].room = poste[p].room /\ poste'[p].ou = poste[p].ou
  OBVIOUS
<1> QED  BY <1>1, <1>2, PlacesKept

LEMMA VisitsHold ==
  ASSUME LastKept, visited' = visited,
         \A p \in Postes : poste'[p].exists => poste[p].exists /\ poste'[p].last = poste[p].last
  PROVE  LastKept'
BY DEF LastKept, Enrolled

LEMMA SpendOK ==
  ASSUME Shape, NEW class \in {"place", "task", "visit", "sync", "report", "plan"}, Spend(class)
  PROVE  load' \in 0 .. MaxLoad
<1>1. Load[class] \in Nat /\ MaxLoad \in Nat
  BY ParcAssumption
<1> QED  BY <1>1 DEF Spend, Shape

LEMMA EndOK ==
  ASSUME NEW s \in Slots, End(s)
  PROVE  request' = [request EXCEPT ![s] = Idle] /\ load' = load
BY DEF End

(***************************************************************************)
(* Requests begin.                                                         *)
(***************************************************************************)
LEMMA Begun ==
  ASSUME IInv, NEW s \in Slots,
         NEW class \in {"place", "task", "visit", "sync", "report", "plan"},
         NEW r \in Form, Begin(s, class, r),
         r # Idle, r.alone = TRUE, Reads(r, poste, check),
         r.kind = "close" => check[r.check].status = "open"
  PROVE  IInv'
<1>1. UNCHANGED <<source, building, room, poste, agent>>
      /\ UNCHANGED <<now, policy, check, journal, visited, astray, struck>> /\ Spend(class)
  BY DEF Begin
<1>2. Shape'
  BY <1>1, SpendOK DEF Shape, IInv
<1>3. RoomsInv'
  BY <1>1, PlacesHold DEF IInv
<1>4. RequestsInv' /\ \A x \in Slots : request'[x].kind = "close" =>
              \/ x = s /\ r.kind = "close" /\ request'[x].check = r.check
              \/ request[x].kind = "close" /\ request'[x].check = request[x].check
  BY RequestsBegun DEF IInv
<1>5. ChecksInv' /\ JournalInv'
  <2>1. \A c \in Checks, x \in Slots :
           request'[x].kind = "close" /\ request'[x].check = c /\ check[c].status = "closed" =>
             request[x].kind = "close" /\ request[x].check = c
    BY <1>4
  <2>2. UNCHANGED <<check, journal>> /\ struck \subseteq struck'
        /\ \A p \in Postes : poste'[p].exists <=> poste[p].exists
    BY <1>1
  <2> QED  BY <2>1, <2>2, JournalHolds DEF IInv
<1>6. LastKept'
  BY <1>1, VisitsHold DEF IInv
<1> QED  BY <1>2, <1>3, <1>4, <1>5, <1>6 DEF IInv

LEMMA CloseCheckKept ==
  ASSUME IInv, NEW s \in Slots, NEW scope, NEW c \in Checks, CloseCheck(s, scope, c)
  PROVE  IInv'
<1> DEFINE r == [kind |-> "close", on |-> {check[c].poste}, alone |-> TRUE, check |-> c]
<1>1. check[c].status = "open" /\ Begin(s, "task", r)
  BY DEF CloseCheck
<1>2. check[c].poste \in Postes
  BY <1>1 DEF IInv, ChecksInv
<1>3. r \in Form /\ r # Idle
  BY <1>2 DEF Form, CloseForm, Idle
<1>4. Reads(r, poste, check)
  BY <1>1 DEF Reads, CloseReads, VisitReads, MergeReads, SyncReads
<1>5. r.alone = TRUE /\ r.check = c
  OBVIOUS
<1> HIDE DEF r
<1> QED  BY <1>1, <1>3, <1>4, <1>5, Begun

LEMMA RecordSessionKept ==
  ASSUME IInv, NEW s \in Slots, NEW scope, NEW ps \in SUBSET Postes, NEW at \in 1 .. MaxTime,
         RecordSession(s, scope, ps, at)
  PROVE  IInv'
<1> DEFINE r == [kind |-> "visit", on |-> ps, alone |-> TRUE, at |-> at,
                 last |-> [p \in ps |-> poste[p].last]]
<1>1. Begin(s, "visit", r)
  BY DEF RecordSession
<1>2. r.last \in [ps -> Nat]
  BY DEF IInv, Shape, PosteRow
<1>3. r \in Form /\ r # Idle
  BY <1>2 DEF Form, VisitForm, Idle
<1>4. Reads(r, poste, check)
  BY <1>2 DEF Reads, CloseReads, VisitReads, MergeReads, SyncReads
<1>5. r.alone = TRUE /\ r.kind = "visit"
  OBVIOUS
<1> HIDE DEF r
<1> QED  BY <1>1, <1>3, <1>4, <1>5, Begun

LEMMA MergeMachineKept ==
  ASSUME IInv, NEW s \in Slots, NEW scope, NEW target \in Postes, NEW dup \in Postes,
         MergeMachine(s, scope, target, dup)
  PROVE  IInv'
<1> DEFINE r == [kind |-> "merge", on |-> {target, dup}, alone |-> TRUE,
                 target |-> target, dup |-> dup, was |-> [p \in {target, dup} |-> poste[p]]]
<1>1. Begin(s, "sync", r) /\ target # dup
  BY DEF MergeMachine
<1>2. r.was \in [{target, dup} -> PosteRow] /\ {target, dup} \in SUBSET Postes
  BY DEF IInv, Shape
<1>3. r \in Form /\ r # Idle
  BY <1>2 DEF Form, MergeForm, Idle
<1>4. Reads(r, poste, check)
  BY <1>1, <1>2 DEF Reads, CloseReads, VisitReads, MergeReads, SyncReads, Same
<1>5. r.alone = TRUE /\ r.kind = "merge"
  OBVIOUS
<1> HIDE DEF r
<1> QED  BY <1>1, <1>3, <1>4, <1>5, Begun

LEMMA SyncDirectoryKept ==
  ASSUME IInv, NEW s \in Slots, SyncDirectory(s)
  PROVE  IInv'
<1> DEFINE r == [kind |-> "sync", on |-> Postes, alone |-> TRUE, was |-> poste]
<1>1. Begin(s, "sync", r)
  BY DEF SyncDirectory
<1>2. r \in Form /\ r # Idle
  BY DEF Form, SyncForm, Idle, IInv, Shape
<1>3. Reads(r, poste, check)
  BY DEF Reads, CloseReads, VisitReads, MergeReads, SyncReads, Same
<1>4. r.alone = TRUE /\ r.kind = "sync"
  OBVIOUS
<1> HIDE DEF r
<1> QED  BY <1>1, <1>2, <1>3, <1>4, Begun

(***************************************************************************)
(* Requests end.                                                           *)
(***************************************************************************)

(* The invariant of the requests and of the closers, once one has ended.   *)
LEMMA Ended ==
  ASSUME RequestsInv, NEW s \in Slots, End(s), Upholds(poste', check'),
         \A p \in Postes \ request[s].on : Same(poste'[p], poste[p])
  PROVE  /\ RequestsInv' /\ load' = load
         /\ \A x \in Slots : request'[x].kind = "close" =>
              x # s /\ request'[x] = request[x]
<1>1. request' = [request EXCEPT ![s] = Idle] /\ load' = load
  BY EndOK
<1>2. RequestsOK(request', poste', check')
  BY <1>1, RequestsEnded
<1>3. \A x \in Slots : request'[x] = IF x = s THEN Idle ELSE request[x]
  BY <1>1 DEF RequestsInv
<1> QED  BY <1>1, <1>2, <1>3, IdleForm DEF RequestsInv, RequestsOK

LEMMA AbortKept ==
  ASSUME IInv, NEW s \in Slots, Abort(s)
  PROVE  IInv'
<1>1. UNCHANGED <<source, building, room, poste, agent>>
      /\ UNCHANGED <<now, policy, check, journal, visited, astray, struck>> /\ End(s)
  BY DEF Abort
<1>2. Upholds(poste', check') /\ \A p \in Postes : Same(poste'[p], poste[p])
  BY <1>1, Untouched
<1>3. /\ RequestsInv' /\ load' = load
      /\ \A x \in Slots : request'[x].kind = "close" => x # s /\ request'[x] = request[x]
  BY <1>1, <1>2, Ended DEF IInv
<1>4. Shape'
  BY <1>1, <1>3 DEF IInv, Shape
<1>5. RoomsInv'
  BY <1>1, PlacesHold DEF IInv
<1>6. ChecksInv' /\ JournalInv'
  <2>1. \A c \in Checks, x \in Slots :
           request'[x].kind = "close" /\ request'[x].check = c /\ check[c].status = "closed" =>
             request[x].kind = "close" /\ request[x].check = c
    BY <1>3
  <2>2. UNCHANGED <<check, journal>> /\ struck \subseteq struck'
        /\ \A p \in Postes : poste'[p].exists <=> poste[p].exists
    BY <1>1
  <2> QED  BY <2>1, <2>2, JournalHolds DEF IInv
<1>7. LastKept'
  BY <1>1, VisitsHold DEF IInv
<1> QED  BY <1>3, <1>4, <1>5, <1>6, <1>7 DEF IInv

LEMMA CloseCommitKept ==
  ASSUME IInv, NEW s \in Slots, CloseCommit(s)
  PROVE  IInv'
<1> DEFINE c == request[s].check
<1>1. PICK p \in request[s].on :
        /\ poste[p].exists
        /\ check' = [check EXCEPT ![c] = [check[c] EXCEPT !.status = "closed"]]
        /\ journal' = [journal EXCEPT ![p] = [journal[p] EXCEPT ![c] = journal[p][c] + 1]]
  BY DEF CloseCommit
<1>2. /\ request[s].kind = "close" /\ End(s)
      /\ UNCHANGED <<source, building, room, poste, agent>>
      /\ UNCHANGED <<now, policy, visited, astray, struck>>
  BY DEF CloseCommit, Is
<1>3. /\ request[s] \in Form /\ Reads(request[s], poste, check)
  BY DEF IInv, RequestsInv
<1>4. c \in Checks /\ p \in Postes
  BY <1>2, <1>3, FormFacts
<1>5. check[c].poste = p /\ check[c].status \in {"open", "closed"}
  BY <1>1, <1>2, <1>3 DEF Reads, CloseReads
<1>6. check[c] \in CheckRow /\ check \in [Checks -> CheckRow]
  BY <1>4 DEF IInv, ChecksInv
<1> DEFINE row == [check[c] EXCEPT !.status = "closed"]
           line == [journal[p] EXCEPT ![c] = journal[p][c] + 1]
<1>7. row \in CheckRow /\ row.status = "closed" /\ row.poste = p
  BY <1>5, <1>6 DEF CheckRow
<1>8. journal \in [Postes -> [Kinds -> Nat]]
  BY DEF IInv, JournalInv
<1>9. c \in Kinds /\ journal[p] \in [Kinds -> Nat]
  BY <1>4, <1>8 DEF Kinds
<1>10. /\ line \in [Kinds -> Nat] /\ line[c] = journal[p][c] + 1
       /\ \A k \in Kinds \ {c} : line[k] = journal[p][k]
  BY <1>9
<1> HIDE DEF row, line
<1>11. /\ check' \in [Checks -> CheckRow] /\ check'[c] = row
       /\ \A e \in Checks \ {c} : check'[e] = check[e]
  BY <1>1, <1>4, <1>6, <1>7 DEF row
<1>12. /\ journal' \in [Postes -> [Kinds -> Nat]] /\ journal'[p] = line
       /\ \A q \in Postes \ {p} : journal'[q] = journal[q]
  BY <1>1, <1>4, <1>8, <1>10 DEF line
<1>13. request[s].check = c
  OBVIOUS
<1> HIDE DEF c
<1>14. Upholds(poste', check') /\ \A q \in Postes : Same(poste'[q], poste[q])
  BY <1>2, <1>4, <1>5, <1>7, <1>11, Untouched DEF Upholds
<1>15. /\ RequestsInv' /\ load' = load
       /\ \A x \in Slots : request'[x].kind = "close" => x # s /\ request'[x] = request[x]
  BY <1>2, <1>14, Ended DEF IInv
<1>16. Shape'
  BY <1>2, <1>15 DEF IInv, Shape
<1>17. RoomsInv'
  BY <1>2, PlacesHold DEF IInv
<1>18. LastKept'
  BY <1>2, VisitsHold DEF IInv
<1>19. ChecksInv'
  <2>1. \A e \in Checks : IF check'[e].status = "none" THEN check'[e] = NoCheck
                       ELSE check'[e].poste \in Postes /\ poste'[check'[e].poste].exists
    BY <1>1, <1>2, <1>4, <1>7, <1>11 DEF IInv, ChecksInv
  <2>2. \A e, d \in Checks :
       (/\ check'[e].status = "open" /\ check'[d].status = "open"
        /\ check'[e].poste = check'[d].poste) => e = d
    BY <1>7, <1>11 DEF IInv, ChecksInv
  <2> QED  BY <2>1, <2>2, <1>11 DEF ChecksInv
<1>20. ASSUME NEW e \in Checks \ struck', e # c PROVE Written(e, check'[e], journal', request')
  <2>1. /\ Written(e, check[e], journal, request) /\ check'[e] = check[e]
        /\ check[e].status # "none" => check[e].poste \in Postes
    BY <1>2, <1>20, <1>11 DEF IInv, JournalInv, ChecksInv
  <2>2. \A q \in Postes : journal'[q][e] = journal[q][e]
    <3>1. e \in Kinds \ {c}
      BY <1>20 DEF Kinds
    <3> QED  BY <3>1, <1>10, <1>12
  <2>3. \A x \in Slots : request'[x].kind = "close" /\ request'[x].check = e =>
              request[x].kind = "close" /\ request[x].check = e
    BY <1>15
  <2> QED  BY <2>1, <2>2, <2>3, <1>8, WrittenKept
<1>21. ASSUME c \in Checks \ struck' PROVE Written(c, check'[c], journal', request')
  <2>1. Written(c, check[c], journal, request)
    BY <1>2, <1>21 DEF IInv, JournalInv
  <2>2. journal'[p][c] = journal[p][c] + 1 /\ journal[p][c] \in Nat
    BY <1>9, <1>10, <1>12
  <2>3. \A q \in Postes \ {p} : journal'[q][c] = journal[q][c] /\ ~(journal[q][c] > 0)
    BY <2>1, <1>5, <1>12 DEF Written
  <2>4. s \in Closers(request, c) /\ Closers(request', c) \subseteq Closers(request, c) \ {s}
    BY <1>2, <1>13, <1>15 DEF Closers
  <2>5. /\ Cardinality(Closers(request', c)) <= Cardinality(Closers(request, c)) - 1
        /\ Cardinality(Closers(request', c)) \in Nat /\ Cardinality(Closers(request, c)) \in Nat
        /\ Cardinality(Slots) \in Nat /\ Cardinality(Closers(request, c)) <= Cardinality(Slots)
    <3>1. IsFiniteSet(Closers(request, c))
      BY <1>4, ClosersFinite
    <3>2. IsFiniteSet(Closers(request, c) \ {s})
          /\ Cardinality(Closers(request, c) \ {s}) = Cardinality(Closers(request, c)) - 1
      BY <3>1, <2>4, FS_RemoveElement
    <3>3. Cardinality(Closers(request', c)) <= Cardinality(Closers(request, c) \ {s})
      BY <3>2, <2>4, FS_Subset
    <3> QED  BY <3>2, <3>3, <1>4, ClosersFinite
  <2>6. check[c].status = "open" => journal[p][c] = 0
    BY <2>1, <1>4 DEF Written
  <2>7. check[c].status = "closed" =>
          journal[p][c] + Cardinality(Closers(request, c)) <= Cardinality(Slots)
    BY <2>1, <1>5 DEF Written
  <2>8. journal'[p][c] >= 1
        /\ journal'[p][c] + Cardinality(Closers(request', c)) <= Cardinality(Slots)
    BY <2>2, <2>5, <2>6, <2>7, <1>5
  <2> QED  BY <2>2, <2>3, <2>8, <1>7, <1>11 DEF Written
<1>22. JournalInv'
  <2>1. \A q \in Postes : ~poste'[q].exists => \A k \in Kinds : journal'[q][k] = 0
    BY <1>1, <1>2, <1>12 DEF IInv, JournalInv
  <2> QED  BY <2>1, <1>12, <1>20, <1>21 DEF JournalInv
<1> QED  BY <1>15, <1>16, <1>17, <1>18, <1>19, <1>22 DEF IInv

LEMMA RecordCommitKept ==
  ASSUME IInv, NEW s \in Slots, RecordCommit(s)
  PROVE  IInv'
<1> DEFINE r == request[s]
<1>1. /\ r.kind = "visit" /\ End(s)
      /\ UNCHANGED <<source, building, room, agent>>
      /\ UNCHANGED <<now, policy, check, astray, struck>>
      /\ \A p \in r.on : poste[p].exists
  BY DEF RecordCommit, Is
<1>2. poste' = [p \in Postes |->
              IF p \in r.on /\ Forward(r.last[p], r.at) THEN [poste[p] EXCEPT !.last = r.at]
              ELSE poste[p]]
  BY DEF RecordCommit
<1>3. journal' = [p \in Postes |->
              IF p \in r.on THEN [journal[p] EXCEPT !["visit"] = journal[p]["visit"] + 1]
              ELSE journal[p]]
  BY DEF RecordCommit
<1>4. visited' = [p \in Postes |->
              CASE p \in r.on /\ r.alone  -> Later(visited[p], r.at)
                [] p \in r.on /\ ~r.alone -> 0
                [] OTHER                  -> visited[p]]
  BY DEF RecordCommit
<1>5. r \in Form /\ Reads(r, poste, check)
  BY DEF IInv, RequestsInv
<1>6. r.on \in SUBSET Postes /\ r.at \in Nat /\ r.alone \in BOOLEAN
  BY <1>1, <1>5, FormFacts
<1>7. r.last \in [r.on -> Nat] /\ (r.alone => \A p \in r.on : r.last[p] = poste[p].last)
  BY <1>1, <1>5 DEF Reads, VisitReads
<1>8. request[s].on = r.on
  OBVIOUS
<1> HIDE DEF r
<1>9. ASSUME NEW p \in Postes
      PROVE  /\ poste'[p] \in PosteRow /\ poste'[p].exists = poste[p].exists
             /\ poste'[p].ou = poste[p].ou /\ poste'[p].room = poste[p].room
             /\ poste'[p].last = IF p \in r.on /\ Forward(r.last[p], r.at) THEN r.at
                                 ELSE poste[p].last
  <2>1. poste[p] \in PosteRow
    BY DEF IInv, Shape
  <2>2. CASE p \in r.on /\ Forward(r.last[p], r.at)
    <3>1. poste'[p] = [poste[p] EXCEPT !.last = r.at]
      BY <2>2, <1>2
    <3> QED  BY <2>1, <2>2, <3>1, <1>6 DEF PosteRow
  <2>3. CASE ~(p \in r.on /\ Forward(r.last[p], r.at))
    BY <2>1, <2>3, <1>2
  <2> QED  BY <2>2, <2>3
<1>10. ASSUME NEW p \in Postes
       PROVE  /\ journal'[p] \in [Kinds -> Nat]
              /\ \A c \in Checks : journal'[p][c] = journal[p][c]
              /\ p \notin r.on => journal'[p] = journal[p]
  <2>1. journal[p] \in [Kinds -> Nat] /\ "visit" \in Kinds /\ "visit" \notin Checks
        /\ Checks \subseteq Kinds
    BY ParcAssumption DEF IInv, JournalInv, Kinds
  <2>2. CASE p \in r.on
    <3>1. journal'[p] = [journal[p] EXCEPT !["visit"] = journal[p]["visit"] + 1]
      BY <2>2, <1>3
    <3> QED  BY <2>1, <2>2, <3>1
  <2>3. CASE p \notin r.on
    BY <2>1, <2>3, <1>3
  <2> QED  BY <2>2, <2>3
<1>11. ASSUME NEW p \in Postes
       PROVE  /\ visited'[p] \in Nat
              /\ poste'[p].exists => poste'[p].last >= visited'[p]
  <2>1. /\ visited[p] \in Nat /\ poste[p].last \in Nat
        /\ poste[p].exists => poste[p].last >= visited[p]
    BY DEF IInv, Shape, PosteRow, LastKept, Enrolled
  <2>2. CASE p \in r.on /\ r.alone
    <3>1. visited'[p] = Later(visited[p], r.at)
      BY <2>2, <1>4
    <3>2. poste[p].exists /\ r.last[p] = poste[p].last
      BY <2>2, <1>1, <1>7
    <3> QED  BY <2>1, <2>2, <3>1, <3>2, <1>6, <1>9 DEF Later, Forward
  <2>3. CASE p \in r.on /\ ~r.alone
    <3>1. visited'[p] = 0
      BY <2>3, <1>4
    <3> QED  BY <2>1, <3>1, <1>6, <1>9
  <2>4. CASE p \notin r.on
    <3>1. visited'[p] = visited[p]
      BY <2>4, <1>4
    <3> QED  BY <2>1, <2>4, <3>1, <1>9
  <2> QED  BY <2>2, <2>3, <2>4, <1>6
<1>12. Upholds(poste', check')
  BY <1>1, <1>9 DEF Upholds
<1>13. \A p \in Postes \ request[s].on : Same(poste'[p], poste[p])
  BY <1>8, <1>9 DEF Same
<1>14. /\ RequestsInv' /\ load' = load
       /\ \A x \in Slots : request'[x].kind = "close" => x # s /\ request'[x] = request[x]
  BY <1>1, <1>12, <1>13, Ended DEF IInv
<1>15. poste' \in [Postes -> PosteRow] /\ journal' \in [Postes -> [Kinds -> Nat]]
       /\ visited' \in [Postes -> Nat]
  BY <1>2, <1>3, <1>4, <1>9, <1>10, <1>11
<1>16. Shape'
  BY <1>1, <1>14, <1>15 DEF IInv, Shape
<1>17. RoomsInv'
  <2>1. \A p \in Postes : poste'[p].exists =>
          poste[p].exists /\ poste'[p].room = poste[p].room /\ poste'[p].ou = poste[p].ou
    BY <1>9
  <2> QED  BY <1>1, <2>1, PlacesHold DEF IInv
<1>18. LastKept'
  BY <1>11 DEF LastKept, Enrolled
<1>19. ChecksInv'
  BY <1>1, <1>9 DEF IInv, ChecksInv
<1>20. JournalInv'
  <2>1. ASSUME NEW c \in Checks \ struck' PROVE Written(c, check'[c], journal', request')
    <3>1. /\ Written(c, check[c], journal, request) /\ check'[c] = check[c]
          /\ check[c].status # "none" => check[c].poste \in Postes
          /\ journal \in [Postes -> [Kinds -> Nat]]
      BY <1>1 DEF IInv, JournalInv, ChecksInv
    <3>2. \A q \in Postes : journal'[q][c] = journal[q][c]
      BY <1>10
    <3>3. \A x \in Slots : request'[x].kind = "close" /\ request'[x].check = c =>
                request[x].kind = "close" /\ request[x].check = c
      BY <1>14
    <3> QED  BY <3>1, <3>2, <3>3, WrittenKept
  <2>2. \A q \in Postes : ~poste'[q].exists => \A k \in Kinds : journal'[q][k] = 0
    BY <1>1, <1>9, <1>10 DEF IInv, JournalInv
  <2> QED  BY <2>1, <2>2, <1>15 DEF JournalInv
<1> QED  BY <1>14, <1>16, <1>17, <1>18, <1>19, <1>20 DEF IInv

LEMMA MergeCommitKept ==
  ASSUME IInv, NEW s \in Slots, MergeCommit(s)
  PROVE  IInv'
<1> DEFINE r == request[s]
           t == r.target
           d == r.dup
           tRoom == IF r.was[t].room = None /\ r.was[d].room # None THEN r.was[d].room
                    ELSE poste[t].room
           tLast == IF r.was[d].last > r.was[t].last THEN r.was[d].last ELSE poste[t].last
           row == [poste[t] EXCEPT
                !.room = IF r.was[t].room = None /\ r.was[d].room # None THEN r.was[d].room ELSE @,
                !.last = IF r.was[d].last > r.was[t].last THEN r.was[d].last ELSE @]
           line == Joined(journal[t], journal[d])
           blank == [k \in Kinds |-> 0]
<1>1. /\ r.kind = "merge" /\ End(s)
      /\ UNCHANGED <<source, building, room, agent>> /\ UNCHANGED <<now, policy, struck>>
      /\ poste[t].exists /\ poste[d].exists
      /\ r.was[t].room = None /\ r.was[d].room # None => room[r.was[d].room].exists
      /\ astray' = astray \cup {t}
  BY DEF MergeCommit, Is
<1>2. check' = [c \in Checks |->
              CASE Superseded(c, t, d) -> [status |-> "superseded", poste |-> t]
                [] ~Superseded(c, t, d) /\ check[c].poste = d -> [check[c] EXCEPT !.poste = t]
                [] OTHER -> check[c]]
  BY DEF MergeCommit
<1>3. journal' = [journal EXCEPT ![t] = line, ![d] = blank]
  BY DEF MergeCommit
<1>4. poste' = [poste EXCEPT ![t] = row, ![d] = NoPoste]
  BY DEF MergeCommit
<1>5. visited' = [visited EXCEPT
              ![t] = IF r.alone THEN Later(visited[t], visited[d]) ELSE 0, ![d] = 0]
  BY DEF MergeCommit
<1>6. r \in Form /\ Reads(r, poste, check)
  BY DEF IInv, RequestsInv
<1>7. t \in Postes /\ d \in Postes /\ r.alone \in BOOLEAN
  BY <1>1, <1>6, FormFacts
<1>8. /\ t # d /\ r.on = {t, d} /\ r.was \in [r.on -> PosteRow]
      /\ r.alone => Same(r.was[t], poste[t]) /\ Same(r.was[d], poste[d])
  BY <1>1, <1>6 DEF Reads, MergeReads
<1>9. r.was[t] \in PosteRow /\ r.was[d] \in PosteRow
  BY <1>8
<1>10. poste[t] \in PosteRow /\ poste[d] \in PosteRow /\ poste \in [Postes -> PosteRow]
  BY <1>7 DEF IInv, Shape
<1>11. /\ row \in PosteRow /\ row.exists = poste[t].exists /\ row.room = tRoom /\ row.last = tLast
  <2>1. tRoom \in RoomIds \cup {None} /\ tLast \in Nat
    BY <1>9, <1>10 DEF PosteRow
  <2>2. row = [poste[t] EXCEPT !.room = tRoom, !.last = tLast]
    OBVIOUS
  <2> HIDE DEF tRoom, tLast, row
  <2>3. poste[t] \in PosteRow
    BY <1>10
  <2> QED  BY <2>1, <2>2, <2>3 DEF PosteRow
<1>12. /\ poste' \in [Postes -> PosteRow] /\ poste'[t] = row /\ poste'[d] = NoPoste
       /\ \A p \in Postes \ {t, d} : poste'[p] = poste[p]
  <2>1. NoPoste \in PosteRow
    BY DEF NoPoste, PosteRow
  <2> HIDE DEF row
  <2> QED  BY <1>4, <1>7, <1>8, <1>10, <1>11, <2>1
<1>13. ~poste'[d].exists
  BY <1>12 DEF NoPoste
<1>14. /\ tRoom = poste[t].room \/ (tRoom # None /\ room[tRoom].exists)
  BY <1>1
<1>15. r.alone => tLast >= poste[t].last /\ tLast >= poste[d].last /\ tLast \in Nat
  <2>1. r.alone => r.was[t].last = poste[t].last /\ r.was[d].last = poste[d].last
    BY <1>8 DEF Same
  <2>2. poste[t].last \in Nat /\ poste[d].last \in Nat
    BY <1>10 DEF PosteRow
  <2> QED  BY <2>1, <2>2
<1>16. tLast \in Nat
  BY <1>9, <1>10 DEF PosteRow
<1>17. journal \in [Postes -> [Kinds -> Nat]] /\ journal[t] \in [Kinds -> Nat]
       /\ journal[d] \in [Kinds -> Nat]
  BY <1>7 DEF IInv, JournalInv
<1>18. /\ line \in [Kinds -> Nat] /\ \A k \in Kinds : line[k] = journal[t][k] + journal[d][k]
  BY <1>17 DEF Joined
<1>19. request[s].on = r.on
  OBVIOUS
<1> HIDE DEF row, line, tRoom, tLast
<1>20. /\ journal' \in [Postes -> [Kinds -> Nat]] /\ journal'[t] = line /\ journal'[d] = blank
       /\ \A p \in Postes \ {t, d} : journal'[p] = journal[p]
  BY <1>3, <1>7, <1>8, <1>17, <1>18
<1>21. \A k \in Kinds : journal'[d][k] = 0
  BY <1>20
<1> HIDE DEF blank, r, t, d
<1>22. /\ visited' \in [Postes -> Nat] /\ visited'[d] = 0
       /\ visited'[t] = IF r.alone THEN Later(visited[t], visited[d]) ELSE 0
       /\ \A p \in Postes \ {t, d} : visited'[p] = visited[p]
  <2>1. visited \in [Postes -> Nat] /\ visited[t] \in Nat /\ visited[d] \in Nat
    BY <1>7 DEF IInv, Shape
  <2>2. Later(visited[t], visited[d]) \in Nat
    BY <2>1 DEF Later
  <2> QED  BY <1>5, <1>7, <1>8, <2>1, <2>2
<1>23. check \in [Checks -> CheckRow]
       /\ \A c \in Checks : check[c].status # "none" => check[c].poste \in Postes
  BY DEF IInv, ChecksInv
<1>24. ASSUME NEW c \in Checks
       PROVE  /\ check'[c] \in CheckRow
              /\ Superseded(c, t, d) => check'[c].status = "superseded" /\ check'[c].poste = t
              /\ ~Superseded(c, t, d) => check'[c].status = check[c].status
              /\ ~Superseded(c, t, d) /\ check[c].poste = d => check'[c].poste = t
              /\ check[c].poste # d => check'[c] = check[c]
  <2>1. Superseded(c, t, d) => check[c].poste = d
    BY DEF Superseded, OpenOn
  <2>2. CASE Superseded(c, t, d)
    <3>1. check'[c] = [status |-> "superseded", poste |-> t]
      BY <1>2, <2>2
    <3> QED  BY <3>1, <2>1, <2>2, <1>7 DEF CheckRow
  <2>3. CASE ~Superseded(c, t, d) /\ check[c].poste = d
    <3>1. check'[c] = [check[c] EXCEPT !.poste = t]
      BY <1>2, <2>3
    <3> QED  BY <3>1, <2>3, <1>7, <1>23 DEF CheckRow
  <2>4. CASE ~Superseded(c, t, d) /\ check[c].poste # d
    <3>1. check'[c] = check[c]
      BY <1>2, <2>4
    <3> QED  BY <3>1, <2>4, <1>23
  <2> QED  BY <2>1, <2>2, <2>3, <2>4
<1>25. check' \in [Checks -> CheckRow]
  BY <1>2, <1>24
<1>26. Upholds(poste', check')
  <2> SUFFICES ASSUME NEW p \in Postes, poste'[p].exists
               PROVE  /\ poste[p].exists
                      /\ \A c \in Checks :
                           (check[c].poste = p /\ check[c].status \in {"open", "closed"}) =>
                             (check'[c].poste = p /\ check'[c].status \in {"open", "closed"})
    BY DEF Upholds
  <2>1. p # d
    BY <1>13
  <2> QED  BY <2>1, <1>1, <1>11, <1>12, <1>24
<1>27. \A p \in Postes \ request[s].on : Same(poste'[p], poste[p])
  BY <1>8, <1>12, <1>19 DEF Same
<1>28. /\ RequestsInv' /\ load' = load
       /\ \A x \in Slots : request'[x].kind = "close" => x # s /\ request'[x] = request[x]
  BY <1>1, <1>26, <1>27, Ended DEF IInv
<1>29. Shape'
  BY <1>1, <1>7, <1>12, <1>22, <1>28 DEF IInv, Shape
<1>30. RoomsInv'
  <2>1. Grows(room, room')
    BY <1>1, GrowsNone DEF IInv
  <2>2. ASSUME NEW p \in Postes, poste'[p].exists
        PROVE /\ poste[p].exists
              /\ \/ poste'[p].room = poste[p].room
                 \/ poste'[p].room = None
                 \/ room'[poste'[p].room].exists
              /\ \/ source # "ad_ou" \/ p \in astray'
                 \/ FiledIn(room', poste'[p])
                 \/ p \notin astray /\ poste'[p].room = poste[p].room /\ poste'[p].ou = poste[p].ou
    <3>1. CASE p = t
      BY <3>1, <1>1, <1>11, <1>12, <1>14
    <3>2. CASE p = d
      BY <3>2, <2>2, <1>13
    <3>3. CASE p \notin {t, d}
      BY <3>3, <2>2, <1>1, <1>12
    <3> QED  BY <3>1, <3>2, <3>3
  <2> QED  BY <1>1, <2>1, <2>2, PlacesKept DEF IInv
<1>31. LastKept'
  <2> SUFFICES ASSUME NEW p \in Postes, poste'[p].exists PROVE poste'[p].last >= visited'[p]
    BY DEF LastKept, Enrolled
  <2>1. /\ visited[t] \in Nat /\ visited[d] \in Nat /\ poste[t].last \in Nat /\ poste[d].last \in Nat
        /\ poste[t].last >= visited[t] /\ poste[d].last >= visited[d]
    BY <1>1, <1>7, <1>10 DEF IInv, Shape, PosteRow, LastKept, Enrolled
  <2>2. CASE p = t
    <3>1. poste'[p].last = tLast
      BY <2>2, <1>11, <1>12
    <3> QED  BY <2>1, <2>2, <3>1, <1>7, <1>15, <1>16, <1>22 DEF Later
  <2>3. CASE p = d
    BY <2>3, <1>13
  <2>4. CASE p \notin {t, d}
    BY <2>4, <1>12, <1>22 DEF IInv, LastKept, Enrolled
  <2> QED  BY <2>2, <2>3, <2>4
<1>32. ChecksInv'
  <2>1. ASSUME NEW c \in Checks
        PROVE  IF check'[c].status = "none" THEN check'[c] = NoCheck
               ELSE check'[c].poste \in Postes /\ poste'[check'[c].poste].exists
    <3>1. IF check[c].status = "none" THEN check[c] = NoCheck
          ELSE check[c].poste \in Postes /\ poste[check[c].poste].exists
      BY DEF IInv, ChecksInv
    <3>2. CASE check[c].poste = d
      <4>1. check[c].status # "none"
        BY <3>1, <3>2, <1>7, NoneIsNobody DEF NoCheck
      <4>2. check'[c].poste = t /\ check'[c].status # "none"
        BY <3>2, <4>1, <1>24
      <4> QED  BY <4>2, <1>1, <1>7, <1>11, <1>12
    <3>3. CASE check[c].poste # d
      <4>1. check'[c] = check[c]
        BY <3>3, <1>24
      <4> QED  BY <3>1, <3>3, <4>1, <1>1, <1>11, <1>12
    <3> QED  BY <3>2, <3>3
  <2>2. ASSUME NEW c \in Checks, NEW e \in Checks,
               check'[c].status = "open", check'[e].status = "open",
               check'[c].poste = check'[e].poste
        PROVE  c = e
    <3>1. /\ ~Superseded(c, t, d) /\ ~Superseded(e, t, d)
          /\ check[c].status = "open" /\ check[e].status = "open"
      BY <2>2, <1>24
    <3>2. \A x, y \in Checks :
            (/\ check[x].status = "open" /\ check[y].status = "open"
             /\ check[x].poste = check[y].poste) => x = y
      BY DEF IInv, ChecksInv
    <3>3. check[c].poste = check[e].poste => c = e
      BY <3>1, <3>2
    <3>4. ASSUME NEW x \in Checks, NEW y \in Checks, ~Superseded(x, t, d),
                 check[x].status = "open", check[y].status = "open",
                 check[x].poste = d, check[y].poste = t
          PROVE  FALSE
      <4>1. check[x] = [status |-> "open", poste |-> d] /\ check[y] = [status |-> "open", poste |-> t]
        BY <3>4, <1>23 DEF CheckRow
      <4>2. x \in OpenOn(d) /\ y \in OpenOn(t)
        BY <4>1 DEF OpenOn
      <4> QED  BY <3>4, <4>2 DEF Superseded
    <3>5. check[c].poste # d => check'[c].poste = check[c].poste
      BY <1>24
    <3>6. check[e].poste # d => check'[e].poste = check[e].poste
      BY <1>24
    <3>7. check[c].poste = d => check'[c].poste = t
      BY <1>24, <3>1
    <3>8. check[e].poste = d => check'[e].poste = t
      BY <1>24, <3>1
    <3> QED  BY <2>2, <3>1, <3>3, <3>4, <3>5, <3>6, <3>7, <3>8
  <2> QED  BY <2>1, <2>2, <1>25 DEF ChecksInv
<1>33. JournalInv'
  <2>1. ASSUME NEW c \in Checks \ struck' PROVE Written(c, check'[c], journal', request')
    <3>1. /\ Written(c, check[c], journal, request)
          /\ check[c].status # "none" => check[c].poste \in Postes
      BY <1>1 DEF IInv, JournalInv, ChecksInv
    <3>2. c \in Kinds
      BY DEF Kinds
    <3>3. \A x \in Slots : request'[x].kind = "close" /\ request'[x].check = c =>
                request[x].kind = "close" /\ request[x].check = c
      BY <1>28
    <3>4. \A p \in Postes : journal[p][c] \in Nat /\ journal'[p][c] \in Nat
      BY <3>2, <1>17, <1>20
    <3>5. journal'[t][c] = journal[t][c] + journal[d][c] /\ journal'[d][c] = 0
          /\ \A p \in Postes \ {t, d} : journal'[p][c] = journal[p][c]
      BY <3>2, <1>18, <1>20, <1>21
    <3>6. CASE check[c].poste # d
      <4>1. check'[c] = check[c]
        BY <3>6, <1>24
      <4>2. journal[d][c] = 0
        BY <3>1, <3>4, <3>6, <1>7 DEF Written
      <4>3. \A p \in Postes : journal'[p][c] = journal[p][c]
        BY <3>4, <3>5, <4>2, <1>7
      <4> QED  BY <3>1, <3>3, <4>1, <4>3, <1>17, WrittenKept
    <3>7. CASE check[c].poste = d
      <4>1. check'[c].poste = t
        BY <3>7, <1>24
      <4>2. \A p \in Postes \ {d} : journal[p][c] = 0
        BY <3>1, <3>4, <3>7 DEF Written
      <4>3. journal'[t][c] = journal[d][c] /\ \A p \in Postes \ {t} : journal'[p][c] = 0
        BY <3>4, <3>5, <4>2, <1>7, <1>8
      <4>4. check'[c].status = "closed" => check[c].status = "closed"
        BY <1>24
      <4>5. check[c].status = "closed" => check'[c].status = "closed"
        <5>1. Superseded(c, t, d) => check[c].status = "open"
          BY DEF Superseded, OpenOn
        <5> QED  BY <5>1, <1>24
      <4>6. CASE check[c].status = "closed"
        <5>1. Cardinality(Closers(request', c)) <= Cardinality(Closers(request, c))
          BY <3>3, ClosersFewer
        <5>2. Cardinality(Closers(request, c)) \in Nat /\ Cardinality(Closers(request', c)) \in Nat
              /\ Cardinality(Slots) \in Nat
          BY ClosersFinite
        <5>3. /\ journal[d][c] >= 1
              /\ journal[d][c] + Cardinality(Closers(request, c)) <= Cardinality(Slots)
          BY <3>1, <3>7, <4>6 DEF Written
        <5> QED  BY <3>4, <4>1, <4>3, <4>5, <4>6, <5>1, <5>2, <5>3, <1>7 DEF Written
      <4>7. CASE check[c].status # "closed"
        <5>1. journal[d][c] = 0
          BY <3>1, <4>7, <1>7 DEF Written
        <5> QED  BY <4>1, <4>3, <4>4, <4>7, <5>1, <1>7 DEF Written
      <4> QED  BY <4>6, <4>7
    <3> QED  BY <3>6, <3>7
  <2>2. ASSUME NEW p \in Postes, ~poste'[p].exists, NEW k \in Kinds PROVE journal'[p][k] = 0
    <3>1. p # t
      BY <2>2, <1>1, <1>11, <1>12
    <3>2. CASE p = d
      BY <3>2, <1>21
    <3>3. CASE p \notin {t, d}
      <4>1. poste'[p] = poste[p] /\ journal'[p] = journal[p]
        BY <3>3, <1>12, <1>20
      <4> QED  BY <2>2, <4>1 DEF IInv, JournalInv
    <3> QED  BY <3>1, <3>2, <3>3
  <2> QED  BY <2>1, <2>2, <1>20 DEF JournalInv
<1> QED  BY <1>28, <1>29, <1>30, <1>31, <1>32, <1>33 DEF IInv

LEMMA SyncCommitKept ==
  ASSUME IInv, NEW s \in Slots, SyncCommit(s)
  PROVE  IInv'
<1> DEFINE r == request[s]
           was == r.was
           ous == {was[p].ou : p \in Postes} \ {None}
<1>1. PICK order \in [1 .. Cardinality(ous) -> ous] :
        LET rows == RoomsForKeys(room, order)
            to(p) == Filed(rows, was[p].ou, was[p].room)
        IN  /\ ToSet(order) = ous
            /\ \A k \in ous : Keyed(rows, k) # {}
            /\ room' = rows
            /\ poste' = [p \in Postes |->
                 IF poste[p].exists /\ was[p].exists /\ to(p) # was[p].room
                 THEN [poste[p] EXCEPT !.room = to(p)] ELSE poste[p]]
  BY DEF SyncCommit
<1> DEFINE rows == RoomsForKeys(room, order)
           to(p) == Filed(rows, was[p].ou, was[p].room)
<1>2. /\ r.kind = "sync" /\ End(s)
      /\ UNCHANGED <<source, building, agent>>
      /\ UNCHANGED <<now, policy, check, journal, visited, struck>>
      /\ astray' = IF r.alone THEN {} ELSE Postes
  BY DEF SyncCommit, Is
<1>3. r \in Form /\ Reads(r, poste, check)
  BY DEF IInv, RequestsInv
<1>4. /\ r.on = Postes /\ was \in [Postes -> PosteRow] /\ r.alone \in BOOLEAN
      /\ r.alone => \A p \in Postes : Same(was[p], poste[p])
  BY <1>2, <1>3, FormFacts DEF Reads, SyncReads
<1>5. /\ room' = rows /\ \A k \in ous : Keyed(rows, k) # {}
      /\ poste' = [p \in Postes |->
                 IF poste[p].exists /\ was[p].exists /\ to(p) # was[p].room
                 THEN [poste[p] EXCEPT !.room = to(p)] ELSE poste[p]]
  BY <1>1
<1>6. \A p \in Postes : was[p].ou # None => was[p].ou \in ous
  OBVIOUS
<1>7. ous \subseteq Keys
  BY <1>4 DEF PosteRow
<1>8. request[s].on = r.on
  OBVIOUS
<1> HIDE DEF r, was, ous
<1>9. Grows(room, rows)
  <2>1. Cardinality(ous) \in Nat
    <3> DEFINE f == [p \in Postes |-> was[p].ou]
    <3>0. f \in Surjection(Postes, {was[p].ou : p \in Postes})
      BY DEF Surjection
    <3>1. IsFiniteSet({was[p].ou : p \in Postes})
      <4> HIDE DEF f
      <4> QED  BY <3>0, ParcAssumption, FS_Surjection
    <3>2. IsFiniteSet(ous)
      BY <3>1, FS_Subset DEF ous
    <3> QED  BY <3>2, FS_CardinalityType
  <2>2. Len(order) = Cardinality(ous) /\ \A i \in 1 .. Len(order) : order[i] \in Keys
    BY <2>1, <1>7
  <2>3. room \in [RoomIds -> RoomRow] /\ WholeRooms(room)
    BY DEF IInv, Shape, RoomsInv
  <2> QED  BY <2>1, <2>2, <2>3, RoomsForKeysGrows
<1>10. ASSUME NEW p \in Postes
       PROVE  \/ to(p) = None /\ was[p].ou = None
              \/ /\ was[p].ou # None /\ to(p) \in RoomIds /\ rows[to(p)].exists
                 /\ rows[to(p)].key = was[p].ou
  <2>1. CASE was[p].ou = None
    BY <2>1 DEF Filed
  <2>2. CASE was[p].ou # None
    <3>1. Keyed(rows, was[p].ou) # {}
      BY <2>2, <1>5, <1>6
    <3>2. to(p) = CHOOSE x \in Keyed(rows, was[p].ou) : TRUE
      BY <2>2 DEF Filed
    <3>3. to(p) \in Keyed(rows, was[p].ou)
      BY <3>1, <3>2
    <3> QED  BY <2>2, <3>3 DEF Keyed, There
  <2> QED  BY <2>1, <2>2
<1> HIDE DEF to, rows
<1>11. ASSUME NEW p \in Postes
       PROVE  /\ poste'[p] \in PosteRow /\ poste'[p].exists = poste[p].exists
              /\ poste'[p].ou = poste[p].ou /\ poste'[p].last = poste[p].last
              /\ poste'[p].room = IF poste[p].exists /\ was[p].exists /\ to(p) # was[p].room
                                  THEN to(p) ELSE poste[p].room
  <2>1. poste[p] \in PosteRow /\ to(p) \in RoomIds \cup {None}
    BY <1>10 DEF IInv, Shape
  <2>2. CASE poste[p].exists /\ was[p].exists /\ to(p) # was[p].room
    <3>1. poste'[p] = [poste[p] EXCEPT !.room = to(p)]
      BY <2>2, <1>5
    <3> QED  BY <2>1, <2>2, <3>1 DEF PosteRow
  <2>3. CASE ~(poste[p].exists /\ was[p].exists /\ to(p) # was[p].room)
    BY <2>1, <2>3, <1>5
  <2> QED  BY <2>2, <2>3
<1>12. poste' \in [Postes -> PosteRow]
  BY <1>5, <1>11
<1>13. Upholds(poste', check')
  BY <1>2, <1>11 DEF Upholds
<1>14. \A p \in Postes \ request[s].on : Same(poste'[p], poste[p])
  BY <1>4, <1>8
<1>15. /\ RequestsInv' /\ load' = load
       /\ \A x \in Slots : request'[x].kind = "close" => x # s /\ request'[x] = request[x]
  BY <1>2, <1>13, <1>14, Ended DEF IInv
<1>16. Grows(room, room')
  BY <1>5, <1>9
<1>17. Shape'
  BY <1>2, <1>12, <1>15, <1>16 DEF IInv, Shape, Grows
<1>18. RoomsInv'
  <2>1. ASSUME NEW p \in Postes, poste'[p].exists
        PROVE /\ poste[p].exists
              /\ \/ poste'[p].room = poste[p].room
                 \/ poste'[p].room = None
                 \/ room'[poste'[p].room].exists
              /\ \/ source # "ad_ou" \/ p \in astray'
                 \/ FiledIn(room', poste'[p])
                 \/ p \notin astray /\ poste'[p].room = poste[p].room /\ poste'[p].ou = poste[p].ou
    <3>1. poste[p].exists
      BY <2>1, <1>11
    <3>2. \/ poste'[p].room = poste[p].room
          \/ poste'[p].room = None
          \/ room'[poste'[p].room].exists
      BY <1>5, <1>10, <1>11
    <3>3. CASE ~r.alone
      BY <3>1, <3>2, <3>3, <1>2
    <3>4. CASE r.alone
      <4>1. was[p].exists /\ was[p].ou = poste[p].ou /\ was[p].room = poste[p].room
        BY <3>1, <3>4, <1>4 DEF Same
      <4>2. poste'[p].room = to(p) /\ poste'[p].ou = was[p].ou
        BY <3>1, <4>1, <1>11
      <4>3. FiledIn(room', poste'[p])
        BY <4>2, <1>5, <1>10, NoneIsNobody DEF FiledIn
      <4> QED  BY <3>1, <3>2, <4>3
    <3> QED  BY <3>3, <3>4, <1>4
  <2> QED  BY <1>2, <1>16, <2>1, PlacesKept DEF IInv
<1>19. ChecksInv' /\ JournalInv'
  <2>1. \A c \in Checks, x \in Slots :
           request'[x].kind = "close" /\ request'[x].check = c /\ check[c].status = "closed" =>
             request[x].kind = "close" /\ request[x].check = c
    BY <1>15
  <2>2. UNCHANGED <<check, journal>> /\ struck \subseteq struck'
        /\ \A p \in Postes : poste'[p].exists <=> poste[p].exists
    BY <1>2, <1>11
  <2> QED  BY <2>1, <2>2, JournalHolds DEF IInv
<1>20. LastKept'
  <2>1. \A p \in Postes : poste'[p].exists => poste[p].exists /\ poste'[p].last = poste[p].last
    BY <1>11
  <2> QED  BY <2>1, <1>2, VisitsHold DEF IInv
<1> QED  BY <1>15, <1>17, <1>18, <1>19, <1>20 DEF IInv

(***************************************************************************)
(* Steps of one moment: tasks, plans, the directory and the clock.         *)
(***************************************************************************)
LEMMA AskKept ==
  ASSUME IInv, NEW ps \in SUBSET Postes, Ask(ps),
         \A p \in ps : poste[p].exists /\ OpenOn(p) = {}
  PROVE  IInv'
<1>1. /\ Spend("task") /\ UNCHANGED <<source, building, room, poste, agent>>
      /\ UNCHANGED <<now, policy, journal, request, visited, astray, struck>>
  BY DEF Ask
<1>2. PICK ids \in SUBSET {c \in Checks : check[c] = NoCheck} : \E of \in [ids -> ps] :
       /\ \A p \in ps : Cardinality({c \in ids : of[c] = p}) = 1
       /\ check' = [c \in Checks |-> IF c \in ids THEN [status |-> "open", poste |-> of[c]]
                                     ELSE check[c]]
  BY DEF Ask
<1>3. PICK of \in [ids -> ps] :
       /\ \A p \in ps : Cardinality({c \in ids : of[c] = p}) = 1
       /\ check' = [c \in Checks |-> IF c \in ids THEN [status |-> "open", poste |-> of[c]]
                                     ELSE check[c]]
  BY <1>2
<1>4. ASSUME NEW c \in ids
      PROVE  /\ c \in Checks /\ check[c].status = "none" /\ check[c].poste = None
             /\ check'[c].status = "open" /\ check'[c].poste = of[c] /\ of[c] \in ps
             /\ check'[c] \in CheckRow
  BY <1>3 DEF NoCheck, CheckRow
<1>5. ASSUME NEW c \in Checks \ ids PROVE check'[c] = check[c]
  BY <1>3
<1>6. \A c, e \in ids : of[c] = of[e] => c = e
  <2> SUFFICES ASSUME NEW c \in ids, NEW e \in ids, of[c] = of[e] PROVE c = e
    OBVIOUS
  <2> DEFINE mine == {x \in ids : of[x] = of[c]}
  <2>1. Cardinality(mine) = 1 /\ c \in mine /\ e \in mine
    BY <1>3, <1>4
  <2>2. IsFiniteSet(mine)
    <3>1. mine \subseteq Checks
      BY <1>4
    <3> HIDE DEF mine
    <3> QED  BY <3>1, ParcAssumption, FS_Subset
  <2> HIDE DEF mine
  <2>3. \E x : mine = {x}
    BY <2>1, <2>2, FS_Singleton
  <2> QED  BY <2>1, <2>3
<1>7. check' \in [Checks -> CheckRow]
  <2>1. \A c \in Checks : check'[c] \in CheckRow
    BY <1>4, <1>5 DEF IInv, ChecksInv
  <2> QED  BY <2>1, <1>3
<1>8. Upholds(poste', check') /\ \A p \in Postes : Same(poste'[p], poste[p])
  <2>1. \A c \in Checks : check[c].status \in {"open", "closed"} => check'[c] = check[c]
    BY <1>4, <1>5
  <2> QED  BY <1>1, <2>1 DEF Upholds, Same
<1>9. RequestsInv'
  BY <1>1, <1>8, RequestsHold DEF IInv, RequestsOK, RequestsInv
<1>10. Shape'
  BY <1>1, SpendOK DEF IInv, Shape
<1>11. RoomsInv'
  BY <1>1, PlacesHold DEF IInv
<1>12. LastKept'
  BY <1>1, VisitsHold DEF IInv
<1>13. ChecksInv'
  <2>1. ASSUME NEW c \in Checks
        PROVE  IF check'[c].status = "none" THEN check'[c] = NoCheck
               ELSE check'[c].poste \in Postes /\ poste'[check'[c].poste].exists
    <3>1. CASE c \in ids
      BY <3>1, <1>1, <1>4
    <3>2. CASE c \notin ids
      BY <3>2, <1>1, <1>5 DEF IInv, ChecksInv
    <3> QED  BY <3>1, <3>2
  <2>2. ASSUME NEW c \in ids, NEW e \in Checks \ ids, check[e].status = "open",
               check[e].poste = of[c]
        PROVE  FALSE
    <3>1. check[e] = [status |-> "open", poste |-> of[c]]
      BY <2>2 DEF IInv, ChecksInv, CheckRow
    <3>2. e \in OpenOn(of[c])
      BY <3>1 DEF OpenOn
    <3> QED  BY <3>2, <1>4
  <2>3. ASSUME NEW c \in Checks, NEW e \in Checks,
               check'[c].status = "open", check'[e].status = "open",
               check'[c].poste = check'[e].poste
        PROVE  c = e
    <3>1. CASE c \in ids /\ e \in ids
      BY <3>1, <2>3, <1>4, <1>6
    <3>2. CASE c \notin ids /\ e \notin ids
      BY <3>2, <2>3, <1>5 DEF IInv, ChecksInv
    <3>3. CASE c \in ids /\ e \notin ids
      BY <3>3, <2>2, <2>3, <1>4, <1>5
    <3>4. CASE c \notin ids /\ e \in ids
      BY <3>4, <2>2, <2>3, <1>4, <1>5
    <3> QED  BY <3>1, <3>2, <3>3, <3>4
  <2> QED  BY <2>1, <2>3, <1>7 DEF ChecksInv
<1>14. JournalInv'
  <2>1. ASSUME NEW c \in Checks \ struck' PROVE Written(c, check'[c], journal', request')
    <3>1. /\ Written(c, check[c], journal, request) /\ journal \in [Postes -> [Kinds -> Nat]]
          /\ check[c].status # "none" => check[c].poste \in Postes
      BY <1>1 DEF IInv, JournalInv, ChecksInv
    <3>2. CASE c \notin ids
      BY <3>1, <3>2, <1>1, <1>5, WrittenKept
    <3>3. CASE c \in ids
      BY <3>1, <3>3, <1>1, <1>4 DEF Written
    <3> QED  BY <3>2, <3>3
  <2> QED  BY <2>1, <1>1 DEF IInv, JournalInv
<1> QED  BY <1>9, <1>10, <1>11, <1>12, <1>13, <1>14 DEF IInv

(* A journal changed for a kind that is no check, or one struck since.     *)
LEMMA JournalChanged ==
  ASSUME IInv, NEW p \in Postes, NEW k \in Kinds, NEW n \in Nat, poste[p].exists,
         UNCHANGED <<source, building, room, poste, agent>>,
         UNCHANGED <<now, policy, check, request, visited, astray>>, Spend("task"),
         struck \subseteq struck', struck' \subseteq Kinds, k \in Checks => k \in struck',
         journal' = [journal EXCEPT ![p] = [journal[p] EXCEPT ![k] = n]]
  PROVE  IInv'
<1>1. journal \in [Postes -> [Kinds -> Nat]] /\ journal[p] \in [Kinds -> Nat]
  BY DEF IInv, JournalInv
<1> DEFINE line == [journal[p] EXCEPT ![k] = n]
<1>2. line \in [Kinds -> Nat] /\ \A e \in Kinds \ {k} : line[e] = journal[p][e]
  BY <1>1
<1> HIDE DEF line
<1>3. /\ journal' \in [Postes -> [Kinds -> Nat]] /\ journal'[p] = line
      /\ \A q \in Postes \ {p} : journal'[q] = journal[q]
  BY <1>1, <1>2 DEF line
<1>4. RequestsInv'
  BY Untouched, RequestsHold DEF IInv, RequestsOK, RequestsInv
<1>5. Shape'
  BY SpendOK DEF IInv, Shape
<1>6. RoomsInv' /\ LastKept'
  BY PlacesHold, VisitsHold DEF IInv
<1>7. ChecksInv'
  BY DEF IInv, ChecksInv
<1>8. ASSUME NEW c \in Checks \ struck' PROVE Written(c, check'[c], journal', request')
  <2>1. /\ Written(c, check[c], journal, request)
        /\ check[c].status # "none" => check[c].poste \in Postes
    BY DEF IInv, JournalInv, ChecksInv
  <2>2. \A q \in Postes : journal'[q][c] = journal[q][c]
    <3>1. c \in Kinds \ {k}
      BY DEF Kinds
    <3> QED  BY <3>1, <1>2, <1>3
  <2> QED  BY <2>1, <2>2, <1>1, WrittenKept
<1>9. JournalInv'
  BY <1>3, <1>8 DEF IInv, JournalInv
<1> QED  BY <1>4, <1>5, <1>6, <1>7, <1>9 DEF IInv

LEMMA InterventionsKept ==
  ASSUME IInv, NEW scope, NEW p \in Postes,
         \/ CreateIntervention(scope, p)
         \/ \E k \in Kinds : DeleteIntervention(scope, p, k)
  PROVE  IInv'
<1>1. CASE CreateIntervention(scope, p)
  <2> DEFINE n == journal[p]["other"] + 1
  <2>1. "other" \in Kinds /\ "other" \notin Checks
    BY ParcAssumption DEF Kinds
  <2>2. n \in Nat
    BY <2>1 DEF IInv, JournalInv
  <2>3. /\ journal' = [journal EXCEPT ![p] = [journal[p] EXCEPT !["other"] = n]]
        /\ poste[p].exists /\ Spend("task")
        /\ UNCHANGED <<source, building, room, poste, agent>>
        /\ UNCHANGED <<now, policy, check, request, visited, astray, struck>>
    BY <1>1 DEF CreateIntervention
  <2>4. struck \subseteq struck' /\ struck' \subseteq Kinds
    BY <2>3 DEF IInv, Shape
  <2> HIDE DEF n
  <2> QED  BY <2>1, <2>2, <2>3, <2>4, JournalChanged
<1>2. ASSUME NEW k \in Kinds, DeleteIntervention(scope, p, k) PROVE IInv'
  <2> DEFINE n == journal[p][k] - 1
  <2>1. /\ journal' = [journal EXCEPT ![p] = [journal[p] EXCEPT ![k] = n]]
        /\ poste[p].exists /\ Spend("task") /\ journal[p][k] > 0 /\ struck' = struck \cup {k}
        /\ UNCHANGED <<source, building, room, poste, agent>>
        /\ UNCHANGED <<now, policy, check, request, visited, astray>>
    BY <1>2 DEF DeleteIntervention
  <2>2. n \in Nat
    BY <2>1 DEF IInv, JournalInv
  <2>3. struck \subseteq struck' /\ struck' \subseteq Kinds /\ k \in struck'
    BY <2>1 DEF IInv, Shape
  <2> HIDE DEF n
  <2> QED  BY <2>1, <2>2, <2>3, JournalChanged
<1> QED  BY <1>1, <1>2

(* Steps that leave verifications, journal, visits and what requests read. *)
LEMMA QuietKept ==
  ASSUME IInv, Shape', RoomsInv', RequestsInv', UNCHANGED <<check, journal, visited>>,
         struck' = struck,
         \A p \in Postes : poste'[p].exists = poste[p].exists /\ poste'[p].last = poste[p].last,
         \A x \in Slots : request'[x].kind = "close" =>
           request[x].kind = "close" /\ request'[x].check = request[x].check
  PROVE  IInv'
<1>1. LastKept'
  BY VisitsHold DEF IInv
<1>2. ChecksInv' /\ JournalInv'
  BY JournalHolds DEF IInv
<1> QED  BY <1>1, <1>2 DEF IInv

LEMMA PlanKept ==
  ASSUME IInv, NEW scope, Plan(scope)
  PROVE  IInv'
<1>1. /\ Spend("plan") /\ UNCHANGED <<source, building, agent>>
      /\ UNCHANGED <<now, check, journal, request, visited, astray, struck>>
  BY DEF Plan
<1>2. PICK n \in Cycles \cup {Unset} :
       \/ \E p \in Postes : PlanPoste(scope, p, n)
       \/ \E r \in RoomIds : PlanRoom(scope, r, n)
       \/ PlanParc(n)
  BY DEF Plan
<1>3. /\ poste \in [Postes -> PosteRow] /\ room \in [RoomIds -> RoomRow] /\ policy \in Cycles
      /\ WholeRooms(room)
  BY DEF IInv, Shape, RoomsInv
<1>4. /\ poste' \in [Postes -> PosteRow] /\ Grows(room, room') /\ policy' \in Cycles
      /\ \A q \in Postes : /\ Same(poste'[q], poste[q])
  <2>1. CASE \E p \in Postes : PlanPoste(scope, p, n)
    <3>1. PICK p \in Postes : PlanPoste(scope, p, n)
      BY <2>1
    <3> DEFINE row == [poste[p] EXCEPT !.cycle = n]
    <3>2. poste' = [poste EXCEPT ![p] = row] /\ room' = room /\ policy' = policy
      BY <3>1 DEF PlanPoste
    <3>3. row \in PosteRow /\ Same(row, poste[p])
      BY <1>3 DEF PosteRow, Same
    <3> HIDE DEF row
    <3>4. poste' \in [Postes -> PosteRow] /\ \A q \in Postes : Same(poste'[q], poste[q])
      BY <1>3, <3>2, <3>3 DEF Same
    <3> QED  BY <1>3, <3>2, <3>4, GrowsNone DEF IInv
  <2>2. CASE \E r \in RoomIds : PlanRoom(scope, r, n)
    <3>1. PICK r \in RoomIds : PlanRoom(scope, r, n)
      BY <2>2
    <3> DEFINE row == [room[r] EXCEPT !.cycle = n]
    <3>2. room' = [room EXCEPT ![r] = row] /\ poste' = poste /\ policy' = policy /\ room[r].exists
      BY <3>1 DEF PlanRoom
    <3>3. /\ row \in RoomRow /\ row.exists = room[r].exists /\ row.key = room[r].key
          /\ row.building = room[r].building /\ row.site = room[r].site /\ row.name = room[r].name
      BY <1>3 DEF RoomRow
    <3> HIDE DEF row
    <3>4. /\ room' \in [RoomIds -> RoomRow] /\ room'[r] = row
          /\ \A q \in RoomIds \ {r} : room'[q] = room[q]
      BY <1>3, <3>2, <3>3
    <3>5. WholeRooms(room')
      <4>1. \A q \in RoomIds : /\ room'[q].exists = room[q].exists /\ room'[q].key = room[q].key
                               /\ room'[q].building = room[q].building
                               /\ room'[q].site = room[q].site /\ room'[q].name = room[q].name
                               /\ ~room[q].exists => room'[q] = room[q]
        BY <3>2, <3>3, <3>4
      <4> QED  BY <1>3, <4>1 DEF WholeRooms
    <3>6. Grows(room, room')
      BY <3>3, <3>4, <3>5 DEF Grows
    <3> QED  BY <1>3, <3>2, <3>6, Untouched
  <2>3. CASE PlanParc(n)
    <3>1. poste' = poste /\ room' = room /\ policy' = IF n = Unset THEN CycleDays ELSE n
      BY <2>3 DEF PlanParc
    <3>2. policy' \in Cycles
      BY <3>1, ParcAssumption
    <3> QED  BY <1>3, <3>1, <3>2, Untouched, GrowsNone DEF IInv
  <2> QED  BY <1>2, <2>1, <2>2, <2>3
<1>5. Upholds(poste', check')
  BY <1>1, <1>4 DEF Upholds, Same
<1>6. RequestsInv'
  BY <1>1, <1>4, <1>5, RequestsHold DEF IInv, RequestsOK, RequestsInv
<1>7. Shape'
  BY <1>1, <1>4, SpendOK DEF IInv, Shape, Grows
<1>8. RoomsInv'
  <2>1. ASSUME NEW p \in Postes, poste'[p].exists
        PROVE /\ poste[p].exists
              /\ poste'[p].room = poste[p].room
              /\ \/ p \in astray'
                 \/ p \notin astray /\ poste'[p].room = poste[p].room /\ poste'[p].ou = poste[p].ou
    BY <2>1, <1>1, <1>4 DEF Same
  <2> QED  BY <1>1, <1>4, <2>1, PlacesKept DEF IInv
<1> QED  BY <1>1, <1>4, <1>6, <1>7, <1>8, QuietKept DEF Same

LEMMA MovesKept ==
  ASSUME IInv, NEW p \in Postes, Moves(p)
  PROVE  IInv'
<1>1. PICK k \in Keys \cup {None} : MoveOu(p, k)
  BY DEF Moves
<1>2. /\ agent' = [agent EXCEPT ![p] = k] /\ UNCHANGED <<source, building, room, poste>>
      /\ Spend("report")
      /\ UNCHANGED <<now, policy, check, journal, request, visited, astray, struck>>
  BY <1>1 DEF Moves, MoveOu
<1>3. Shape'
  BY <1>2, SpendOK DEF IInv, Shape
<1>4. RequestsInv'
  BY <1>2, Untouched, RequestsHold DEF IInv, RequestsOK, RequestsInv
<1>5. RoomsInv'
  BY <1>2, PlacesHold DEF IInv
<1> QED  BY <1>2, <1>3, <1>4, <1>5, QuietKept

LEMMA TickKept ==
  ASSUME IInv, Tick
  PROVE  IInv'
<1>1. /\ now < MaxTime /\ now' = now + 1
      /\ UNCHANGED <<source, building, room, poste, agent>>
      /\ UNCHANGED <<policy, check, journal, request, visited, astray, struck, load>>
  BY DEF Tick
<1>2. Shape'
  BY <1>1, ParcAssumption DEF IInv, Shape
<1>3. RequestsInv'
  BY <1>1, Untouched, RequestsHold DEF IInv, RequestsOK, RequestsInv
<1>4. RoomsInv'
  BY <1>1, PlacesHold DEF IInv
<1> QED  BY <1>1, <1>2, <1>3, <1>4, QuietKept

LEMMA RestartKept ==
  ASSUME IInv, Restart
  PROVE  IInv'
<1>1. PICK x \in {"manual", "ad_ou"} : Switch(x)
  BY DEF Restart
<1>2. /\ source' = x /\ UNCHANGED <<building, room, poste, agent>> /\ Spend("report")
      /\ request' = [s \in Slots |-> Idle] /\ astray' = Postes
      /\ UNCHANGED <<now, policy, check, journal, visited, struck>>
  BY <1>1 DEF Restart, Switch
<1>3. Shape'
  BY <1>2, SpendOK DEF IInv, Shape
<1>4. RequestsInv'
  BY <1>2, IdleForm, IdleReads DEF RequestsInv, Apart
<1>5. RoomsInv'
  BY <1>2 DEF IInv, RoomsInv, Housed, Lodged
<1>6. \A s \in Slots : request'[s].kind # "close"
  BY <1>2, IdleForm
<1> QED  BY <1>2, <1>3, <1>4, <1>5, <1>6, QuietKept

(***************************************************************************)
(* Heartbeats, and the places.                                             *)
(***************************************************************************)
LEMMA HeartbeatKept ==
  ASSUME IInv, NEW p \in Postes, Heartbeat(p)
  PROVE  IInv'
<1> DEFINE k == agent[p]
           m == poste[p]
<1>1. /\ Spend("report") /\ Report(p) /\ astray' = astray \ {p} /\ request' = Touch({p})
      /\ UNCHANGED <<now, policy, check, journal, visited, struck>>
  BY DEF Heartbeat
<1>2. poste[p].exists /\ UNCHANGED <<source, building, agent>>
  BY <1>1 DEF Report
<1>3. /\ poste \in [Postes -> PosteRow] /\ m \in PosteRow /\ k \in Keys \cup {None}
      /\ room \in [RoomIds -> RoomRow] /\ WholeRooms(room)
  BY DEF IInv, Shape, RoomsInv
<1>4. \E where \in RoomIds \cup {None} :
        /\ poste' = [poste EXCEPT ![p] = [m EXCEPT !.ou = k, !.room = where]]
        /\ Grows(room, room')
        /\ \/ source # "ad_ou" /\ where = m.room
           \/ k = None /\ where = None
           \/ k # None /\ where # None /\ room'[where].exists /\ room'[where].key = k
  <2>1. CASE source = "manual"
    <3>1. /\ poste' = [poste EXCEPT ![p] = [m EXCEPT !.ou = k, !.room = m.room]]
          /\ room' = room
      BY <1>1, <2>1 DEF Report
    <3>2. m.room \in RoomIds \cup {None}
      BY <1>3 DEF PosteRow
    <3>3. Grows(room, room')
      BY <3>1, GrowsNone DEF IInv
    <3> HIDE DEF m, k
    <3> QED  BY <2>1, <3>1, <3>2, <3>3
  <2>2. CASE source # "manual" /\ k = None
    <3>1. Filed(room, k, m.room) = None
      BY <2>2 DEF Filed
    <3>2. /\ poste' = [poste EXCEPT ![p] = [m EXCEPT !.ou = k, !.room = Filed(room, k, m.room)]]
          /\ room' = room
      BY <1>1, <2>2 DEF Report
    <3>3. Grows(room, room')
      BY <3>2, GrowsNone DEF IInv
    <3> HIDE DEF m, k
    <3> QED  BY <2>2, <3>1, <3>2, <3>3
  <2>3. CASE source # "manual" /\ k # None
    <3>1. /\ CanMake(room, k) /\ room' = RoomForKey(room, k)
          /\ poste' = [poste EXCEPT ![p] = [m EXCEPT !.ou = k, !.room = Filed(room', k, m.room)]]
      BY <1>1, <2>3 DEF Report
    <3>2. k \in Keys
      BY <2>3, <1>3
    <3> HIDE DEF m, k
    <3>3. Grows(room, room') /\ Keyed(room', k) # {}
      BY <1>3, <3>1, <3>2, RoomForKeyGrows
    <3>4. Filed(room', k, m.room) \in Keyed(room', k)
      BY <2>3, <3>3 DEF Filed
    <3>5. /\ Filed(room', k, m.room) \in RoomIds /\ room'[Filed(room', k, m.room)].exists
          /\ room'[Filed(room', k, m.room)].key = k
      BY <3>4 DEF Keyed, There
    <3>6. Filed(room', k, m.room) # None
      BY <3>5, NoneIsNobody
    <3> QED  BY <2>3, <3>1, <3>3, <3>5, <3>6
  <2> QED  BY <2>1, <2>2, <2>3
<1>5. PICK where \in RoomIds \cup {None} :
        /\ poste' = [poste EXCEPT ![p] = [m EXCEPT !.ou = k, !.room = where]]
        /\ Grows(room, room')
        /\ \/ source # "ad_ou" /\ where = m.room
           \/ k = None /\ where = None
           \/ k # None /\ where # None /\ room'[where].exists /\ room'[where].key = k
  BY <1>4
<1> DEFINE row == [m EXCEPT !.ou = k, !.room = where]
<1>6. /\ row \in PosteRow /\ row.exists = m.exists /\ row.last = m.last /\ row.ou = k
      /\ row.room = where
  BY <1>3 DEF PosteRow
<1> HIDE DEF row
<1>7. /\ poste' \in [Postes -> PosteRow] /\ poste'[p] = row
      /\ \A q \in Postes \ {p} : poste'[q] = poste[q]
  BY <1>3, <1>5, <1>6 DEF row
<1>8. Upholds(poste', check') /\ \A q \in Postes \ {p} : Same(poste'[q], poste[q])
  BY <1>1, <1>2, <1>6, <1>7 DEF Upholds, Same
<1>9. RequestsInv'
  <2>1. RequestsOK(Touch({p}), poste', check')
    BY <1>8, RequestsTouched DEF IInv
  <2> QED  BY <2>1, <1>1 DEF RequestsOK, RequestsInv
<1>10. Shape'
  BY <1>1, <1>2, <1>5, <1>7, SpendOK DEF IInv, Shape, Grows
<1>11. RoomsInv'
  <2>1. ASSUME NEW q \in Postes, poste'[q].exists
        PROVE /\ poste[q].exists
              /\ \/ poste'[q].room = poste[q].room
                 \/ poste'[q].room = None
                 \/ room'[poste'[q].room].exists
              /\ \/ source # "ad_ou" \/ q \in astray'
                 \/ FiledIn(room', poste'[q])
                 \/ q \notin astray /\ poste'[q].room = poste[q].room /\ poste'[q].ou = poste[q].ou
    <3>1. CASE q = p
      BY <3>1, <1>2, <1>5, <1>6, <1>7 DEF FiledIn
    <3>2. CASE q # p
      BY <3>2, <2>1, <1>1, <1>7
    <3> QED  BY <3>1, <3>2
  <2> QED  BY <1>2, <1>5, <2>1, PlacesKept DEF IInv
<1>12. \A q \in Postes : poste'[q].exists = poste[q].exists /\ poste'[q].last = poste[q].last
  BY <1>6, <1>7
<1>13. \A x \in Slots : request'[x].kind = "close" =>
           request[x].kind = "close" /\ request'[x].check = request[x].check
  <2> SUFFICES ASSUME NEW x \in Slots
               PROVE  request'[x].kind = "close" =>
                        request[x].kind = "close" /\ request'[x].check = request[x].check
    OBVIOUS
  <2>1. RequestsInv /\ {p} \in SUBSET Postes
    BY DEF IInv
  <2>2. /\ Touch({p})[x].kind = request[x].kind
        /\ Touch({p})[x].kind = "close" => Touch({p})[x].check = request[x].check
    BY <2>1, Touching
  <2> QED  BY <1>1, <2>2
<1> QED  BY <1>1, <1>9, <1>10, <1>11, <1>12, <1>13, QuietKept

\* Rows of the places a request of the console leaves.
PlacesWritten ==
  /\ building' \in [BuildingIds -> BuildingRow]
  /\ room' \in [RoomIds -> RoomRow] /\ WholeRooms(room') /\ Housed'
  /\ poste' \in [Postes -> PosteRow]
  /\ UNCHANGED <<source, agent>>
  /\ \A p \in Postes :
       /\ poste'[p].exists = poste[p].exists /\ poste'[p].last = poste[p].last
       /\ poste'[p].ou = poste[p].ou
       /\ \/ poste'[p].room = None
          \/ poste'[p].room # poste[p].room /\ room'[poste'[p].room].exists
          \/ /\ poste'[p].room = poste[p].room
             /\ room[poste[p].room].exists =>
                  room'[poste[p].room].exists /\ room'[poste[p].room].key = room[poste[p].room].key

LEMMA BuildingsWritten ==
  ASSUME IInv, NEW scope, NEW b \in BuildingIds, NEW x \in Sites \cup {None},
         CreateBuilding(scope, b, x) \/ UpdateBuilding(scope, b, x)
  PROVE  PlacesWritten
<1>1. /\ building \in [BuildingIds -> BuildingRow] /\ room \in [RoomIds -> RoomRow]
      /\ poste \in [Postes -> PosteRow] /\ WholeRooms(room) /\ Housed
  BY DEF IInv, Shape, RoomsInv
<1>2. UNCHANGED <<source, room, poste, agent>>
  BY DEF CreateBuilding, UpdateBuilding
<1>3. PICK row \in BuildingRow : building' = [building EXCEPT ![b] = row] /\ row.exists
  <2>1. CASE CreateBuilding(scope, b, x)
    <3> DEFINE row == [exists |-> TRUE, site |-> x]
    <3>1. building' = [building EXCEPT ![b] = row]
      BY <2>1 DEF CreateBuilding
    <3>2. row \in BuildingRow /\ row.exists
      BY DEF BuildingRow
    <3> QED  BY <3>1, <3>2
  <2>2. CASE UpdateBuilding(scope, b, x)
    <3> DEFINE row == [building[b] EXCEPT !.site = x]
    <3>1. building' = [building EXCEPT ![b] = row] /\ building[b].exists
      BY <2>2 DEF UpdateBuilding
    <3>2. row \in BuildingRow /\ row.exists
      BY <1>1, <3>1 DEF BuildingRow
    <3> QED  BY <3>1, <3>2
  <2> QED  BY <2>1, <2>2
<1>4. /\ building' \in [BuildingIds -> BuildingRow]
      /\ \A c \in BuildingIds : building[c].exists => building'[c].exists
  BY <1>1, <1>3
<1>5. Housed'
  <2>1. \A r \in RoomIds : room[r].building \in BuildingIds \cup {None}
    BY <1>1 DEF RoomRow
  <2> QED  BY <1>1, <1>2, <1>4, <2>1 DEF Housed
<1> QED  BY <1>1, <1>2, <1>4, <1>5 DEF PlacesWritten

LEMMA BuildingDeleted ==
  ASSUME IInv, NEW scope, NEW b \in BuildingIds, DeleteBuilding(scope, b)
  PROVE  PlacesWritten
<1>1. /\ building \in [BuildingIds -> BuildingRow] /\ room \in [RoomIds -> RoomRow]
      /\ poste \in [Postes -> PosteRow] /\ WholeRooms(room) /\ Housed
  BY DEF IInv, Shape, RoomsInv
<1>2. /\ room' = [r \in RoomIds |->
           IF room[r].exists /\ room[r].building = b
           THEN [room[r] EXCEPT !.building = None,
                                !.site = IF @ = None THEN building[b].site ELSE @]
           ELSE room[r]]
      /\ building' = [building EXCEPT ![b] = NoBuilding]
      /\ UNCHANGED <<source, poste, agent>>
  BY DEF DeleteBuilding
<1>3. NoBuilding \in BuildingRow /\ building[b].site \in Sites \cup {None}
  BY <1>1 DEF NoBuilding, BuildingRow
<1>4. ASSUME NEW r \in RoomIds
      PROVE  /\ room'[r] \in RoomRow
             /\ room'[r].exists = room[r].exists /\ room'[r].key = room[r].key
             /\ room'[r].name = room[r].name
             /\ room'[r].building \in {None, room[r].building} /\ room'[r].building # b
             /\ room'[r].building # None => room'[r] = room[r]
             /\ ~room[r].exists => room'[r] = room[r]
  <2>1. room[r] \in RoomRow
    BY <1>1
  <2>2. CASE room[r].exists /\ room[r].building = b
    <3> DEFINE x == IF room[r].site = None THEN building[b].site ELSE room[r].site
    <3>1. room'[r] = [room[r] EXCEPT !.building = None, !.site = x]
      BY <1>2, <2>2
    <3>2. x \in Sites \cup {None}
      BY <1>3, <2>1 DEF RoomRow
    <3> HIDE DEF x
    <3> QED  BY <2>1, <2>2, <3>1, <3>2, NoneIsNobody DEF RoomRow
  <2>3. CASE ~(room[r].exists /\ room[r].building = b)
    <3>1. room'[r] = room[r]
      BY <1>2, <2>3
    <3>2. room[r].building # b
      BY <1>1, <2>3, NoneIsNobody, NoRoomRow DEF WholeRooms
    <3> QED  BY <2>1, <3>1, <3>2
  <2> QED  BY <2>2, <2>3
<1>5. room' \in [RoomIds -> RoomRow]
  BY <1>2, <1>4
<1>6. WholeRooms(room')
  BY <1>1, <1>4 DEF WholeRooms
<1>7. building' \in [BuildingIds -> BuildingRow]
      /\ \A c \in BuildingIds \ {b} : building'[c] = building[c]
  BY <1>1, <1>2, <1>3
<1>8. Housed'
  <2> SUFFICES ASSUME NEW r \in RoomIds, room'[r].building # None
               PROVE  building'[room'[r].building].exists
    BY DEF Housed
  <2>1. room'[r] = room[r] /\ room[r].building \in BuildingIds \ {b}
    BY <1>4, <1>5 DEF RoomRow
  <2> QED  BY <2>1, <1>1, <1>7 DEF Housed
<1>9. \A p \in Postes : \/ poste'[p].room = None
                          \/ /\ poste'[p].room = poste[p].room
                             /\ room'[poste[p].room].exists = room[poste[p].room].exists
                             /\ room'[poste[p].room].key = room[poste[p].room].key
  <2>1. \A p \in Postes : poste[p].room \in RoomIds \cup {None} /\ poste'[p] = poste[p]
    BY <1>1, <1>2 DEF PosteRow
  <2>2. \A r \in RoomIds : room'[r].exists = room[r].exists /\ room'[r].key = room[r].key
    BY <1>4
  <2> QED  BY <2>1, <2>2
<1> QED  BY <1>1, <1>2, <1>5, <1>6, <1>7, <1>8, <1>9 DEF PlacesWritten

(* A room written over one that was not there, or kept its OU.             *)
LEMMA RoomRowWritten ==
  ASSUME IInv, NEW scope, NEW r \in RoomIds, NEW row \in RoomRow, RoomWritten(scope, r, row),
         row.exists, row.key = room[r].key, row.name \in ToSet(Names)
  PROVE  PlacesWritten
<1>1. /\ building \in [BuildingIds -> BuildingRow] /\ room \in [RoomIds -> RoomRow]
      /\ poste \in [Postes -> PosteRow] /\ WholeRooms(room) /\ Housed
  BY DEF IInv, Shape, RoomsInv
<1>2. /\ room' = [room EXCEPT ![r] = Stored(row)] /\ UNCHANGED <<source, building, poste, agent>>
      /\ row.building # None => building[row.building].exists
  BY DEF RoomWritten
<1> DEFINE new == Stored(row)
<1>3. /\ new \in RoomRow /\ new.exists /\ new.key = room[r].key /\ new.name = row.name
      /\ new.building = row.building /\ (new.building # None => new.site = None)
  BY DEF Stored, RoomRow
<1> HIDE DEF new
<1>4. /\ room' \in [RoomIds -> RoomRow] /\ room'[r] = new
      /\ \A q \in RoomIds \ {r} : room'[q] = room[q]
  BY <1>1, <1>2, <1>3 DEF new
<1>5. WholeRooms(room')
  BY <1>1, <1>3, <1>4 DEF WholeRooms
<1>6. Housed'
  BY <1>1, <1>2, <1>3, <1>4 DEF Housed
<1>7. \A p \in Postes : poste[p].room \in RoomIds \cup {None}
  BY <1>1 DEF PosteRow
<1> QED  BY <1>1, <1>2, <1>3, <1>4, <1>5, <1>6, <1>7 DEF PlacesWritten

LEMMA RoomsWritten ==
  ASSUME IInv, NEW scope, NEW r \in RoomIds, NEW n \in DOMAIN Names,
         NEW b \in BuildingIds \cup {None}, NEW x \in Sites \cup {None},
         CreateRoom(scope, r, Names[n], b, x) \/ UpdateRoom(scope, r, Names[n], b, x)
  PROVE  PlacesWritten
<1>1. room \in [RoomIds -> RoomRow] /\ WholeRooms(room)
  BY DEF IInv, Shape, RoomsInv
<1>2. Names[n] \in ToSet(Names)
  BY DEF ToSet
<1>3. CASE CreateRoom(scope, r, Names[n], b, x)
  <2> DEFINE row == [NoRoom EXCEPT !.exists = TRUE, !.name = Names[n], !.building = b, !.site = x]
  <2>1. ~room[r].exists /\ RoomWritten(scope, r, row)
    BY <1>3 DEF CreateRoom
  <2>2. row \in RoomRow /\ row.exists /\ row.key = None /\ row.name = Names[n]
    BY <1>2 DEF NoRoom, RoomRow
  <2>3. room[r].key = None
    BY <1>1, <2>1, NoRoomRow DEF WholeRooms
  <2> HIDE DEF row
  <2> QED  BY <1>2, <2>1, <2>2, <2>3, RoomRowWritten
<1>4. CASE UpdateRoom(scope, r, Names[n], b, x)
  <2> DEFINE row == [room[r] EXCEPT !.name = Names[n], !.building = b, !.site = x]
  <2>1. room[r].exists /\ RoomWritten(scope, r, row)
    BY <1>4 DEF UpdateRoom
  <2>2. row \in RoomRow /\ row.exists /\ row.key = room[r].key /\ row.name = Names[n]
    BY <1>1, <1>2, <2>1 DEF RoomRow
  <2> HIDE DEF row
  <2> QED  BY <1>2, <2>1, <2>2, RoomRowWritten
<1> QED  BY <1>3, <1>4

LEMMA RoomDeleted ==
  ASSUME IInv, NEW scope, NEW r \in RoomIds, DeleteRoom(scope, r)
  PROVE  PlacesWritten
<1>1. /\ building \in [BuildingIds -> BuildingRow] /\ room \in [RoomIds -> RoomRow]
      /\ poste \in [Postes -> PosteRow] /\ WholeRooms(room) /\ Housed
  BY DEF IInv, Shape, RoomsInv
<1>2. /\ room' = [room EXCEPT ![r] = NoRoom] /\ UNCHANGED <<source, building, agent>>
      /\ poste' = [p \in Postes |-> IF poste[p].room = r THEN [poste[p] EXCEPT !.room = None]
                                    ELSE poste[p]]
  BY DEF DeleteRoom
<1>3. /\ room' \in [RoomIds -> RoomRow] /\ room'[r] = NoRoom
      /\ \A q \in RoomIds \ {r} : room'[q] = room[q]
  BY <1>1, <1>2, NoRoomRow
<1>4. WholeRooms(room')
  BY <1>1, <1>3, NoRoomRow DEF WholeRooms
<1>5. Housed'
  BY <1>1, <1>2, <1>3, NoRoomRow DEF Housed
<1>6. ASSUME NEW p \in Postes
      PROVE  /\ poste'[p] \in PosteRow
             /\ poste'[p].exists = poste[p].exists /\ poste'[p].last = poste[p].last
             /\ poste'[p].ou = poste[p].ou
             /\ poste'[p].room = IF poste[p].room = r THEN None ELSE poste[p].room
             /\ poste[p].room \in RoomIds \cup {None}
  <2>1. poste[p] \in PosteRow
    BY <1>1
  <2>2. CASE poste[p].room = r
    <3>1. poste'[p] = [poste[p] EXCEPT !.room = None]
      BY <1>2, <2>2
    <3> QED  BY <2>1, <2>2, <3>1 DEF PosteRow
  <2>3. CASE poste[p].room # r
    <3>1. poste'[p] = poste[p]
      BY <1>2, <2>3
    <3> QED  BY <2>1, <2>3, <3>1 DEF PosteRow
  <2> QED  BY <2>2, <2>3
<1>7. poste' \in [Postes -> PosteRow]
  BY <1>2, <1>6
<1> QED  BY <1>1, <1>2, <1>3, <1>4, <1>5, <1>6, <1>7 DEF PlacesWritten

LEMMA MachinesPlaced ==
  ASSUME IInv, NEW scope, NEW ps \in SUBSET Postes, NEW r \in RoomIds \cup {None},
         PlaceMachines(scope, ps, r)
  PROVE  PlacesWritten
<1>1. /\ building \in [BuildingIds -> BuildingRow] /\ room \in [RoomIds -> RoomRow]
      /\ poste \in [Postes -> PosteRow] /\ WholeRooms(room) /\ Housed
  BY DEF IInv, Shape, RoomsInv
<1>2. /\ UNCHANGED <<source, building, room, agent>>
      /\ r # None => room[r].exists
      /\ poste' = [p \in Postes |-> IF p \in ps THEN [poste[p] EXCEPT !.room = r] ELSE poste[p]]
  BY DEF PlaceMachines
<1>3. ASSUME NEW p \in Postes
      PROVE  /\ poste'[p] \in PosteRow
             /\ poste'[p].exists = poste[p].exists /\ poste'[p].last = poste[p].last
             /\ poste'[p].ou = poste[p].ou
             /\ poste'[p].room = IF p \in ps THEN r ELSE poste[p].room
             /\ poste[p].room \in RoomIds \cup {None}
  <2>1. poste[p] \in PosteRow
    BY <1>1
  <2>2. CASE p \in ps
    <3>1. poste'[p] = [poste[p] EXCEPT !.room = r]
      BY <1>2, <2>2
    <3> QED  BY <2>1, <2>2, <3>1 DEF PosteRow
  <2>3. CASE p \notin ps
    <3>1. poste'[p] = poste[p]
      BY <1>2, <2>3
    <3> QED  BY <2>1, <2>3, <3>1 DEF PosteRow
  <2> QED  BY <2>2, <2>3
<1>4. poste' \in [Postes -> PosteRow]
  BY <1>2, <1>3
<1>5. Housed'
  BY <1>1, <1>2 DEF Housed
<1> QED  BY <1>1, <1>2, <1>3, <1>4, <1>5 DEF PlacesWritten

LEMMA PlaceKept ==
  ASSUME IInv, NEW scope, Place(scope)
  PROVE  IInv'
<1>1. /\ Spend("place")
      /\ astray' = astray \cup {p \in Postes : poste'[p].room # poste[p].room}
      /\ request' = Touch(Postes)
      /\ UNCHANGED <<now, policy, check, journal, visited, struck>>
  BY DEF Place
<1>2. PlacesWritten
  BY BuildingsWritten, BuildingDeleted, RoomsWritten, RoomDeleted, MachinesPlaced DEF Place
<1>3. Shape'
  BY <1>1, <1>2, SpendOK DEF IInv, Shape, PlacesWritten
<1>4. RequestsInv'
  <2>1. Upholds(poste', check')
    BY <1>1, <1>2 DEF Upholds, PlacesWritten
  <2>2. RequestsOK(Touch(Postes), poste', check')
    BY <2>1, RequestsTouched DEF IInv
  <2> QED  BY <2>2, <1>1 DEF RequestsOK, RequestsInv
<1>5. Lodged'
  <2> SUFFICES ASSUME NEW p \in Postes, poste'[p].exists, poste'[p].room # None
               PROVE  room'[poste'[p].room].exists
    BY DEF Lodged
  <2>1. poste[p].exists /\ (poste[p].room # None => room[poste[p].room].exists)
    BY <1>2 DEF PlacesWritten, IInv, RoomsInv, Lodged
  <2> QED  BY <2>1, <1>2 DEF PlacesWritten
<1>6. ASSUME source' = "ad_ou", NEW p \in Postes \ astray', poste'[p].exists
      PROVE  FiledIn(room', poste'[p])
  <2>1. /\ p \notin astray /\ poste'[p].room = poste[p].room /\ poste'[p].ou = poste[p].ou
        /\ poste[p].exists /\ source = "ad_ou"
    BY <1>1, <1>2, <1>6 DEF PlacesWritten
  <2>2. FiledIn(room, poste[p])
    BY <2>1 DEF IInv, RoomsInv
  <2>3. poste[p].room # None => room[poste[p].room].exists
    BY <2>1 DEF IInv, RoomsInv, Lodged
  <2> QED  BY <2>1, <2>2, <2>3, <1>2 DEF FiledIn, PlacesWritten
<1>7. RoomsInv'
  BY <1>2, <1>5, <1>6 DEF RoomsInv, PlacesWritten
<1>8. \A x \in Slots : request'[x].kind = "close" =>
           request[x].kind = "close" /\ request'[x].check = request[x].check
  <2> SUFFICES ASSUME NEW x \in Slots
               PROVE  request'[x].kind = "close" =>
                        request[x].kind = "close" /\ request'[x].check = request[x].check
    OBVIOUS
  <2>1. RequestsInv /\ Postes \in SUBSET Postes
    BY DEF IInv
  <2>2. /\ Touch(Postes)[x].kind = request[x].kind
        /\ Touch(Postes)[x].kind = "close" => Touch(Postes)[x].check = request[x].check
    BY <2>1, Touching
  <2> QED  BY <1>1, <2>2
<1>9. \A p \in Postes : poste'[p].exists = poste[p].exists /\ poste'[p].last = poste[p].last
  BY <1>2 DEF PlacesWritten
<1> QED  BY <1>1, <1>3, <1>4, <1>7, <1>8, <1>9, QuietKept

(***************************************************************************)
(* The invariant holds at first and is kept by every step.                 *)
(***************************************************************************)
LEMMA InitIInv == Init => IInv
<1> SUFFICES ASSUME Init
             PROVE  IInv
  OBVIOUS
<1> DEFINE row(x) == [NoPoste EXCEPT !.exists = TRUE, !.site = x, !.first = 1]
<1>1. ASSUME NEW x \in Sites
      PROVE  /\ row(x) \in PosteRow /\ row(x).last = 0 /\ row(x).ou = None /\ row(x).room = None
             /\ row(x).exists = TRUE
  BY DEF NoPoste, PosteRow
<1>2. poste \in [Postes -> {row(x) : x \in Sites}]
  BY DEF Init
<1> HIDE DEF row
<1>3. \A p \in Postes : /\ poste[p] \in PosteRow /\ poste[p].last = 0 /\ poste[p].exists = TRUE
                        /\ poste[p].ou = None /\ poste[p].room = None
  <2> SUFFICES ASSUME NEW p \in Postes
               PROVE  /\ poste[p] \in PosteRow /\ poste[p].last = 0 /\ poste[p].exists = TRUE
                      /\ poste[p].ou = None /\ poste[p].room = None
    OBVIOUS
  <2>1. PICK x \in Sites : poste[p] = row(x)
    BY <1>2
  <2> QED  BY <1>1, <2>1
<1>4. /\ source \in {"manual", "ad_ou"} /\ building = [b \in BuildingIds |-> NoBuilding]
      /\ room = [r \in RoomIds |-> NoRoom] /\ agent \in [Postes -> Keys] /\ now = 1
      /\ policy = CycleDays /\ check = [c \in Checks |-> NoCheck]
      /\ journal = [p \in Postes |-> [k \in Kinds |-> 0]] /\ request = [s \in Slots |-> Idle]
      /\ visited = [p \in Postes |-> 0] /\ astray = {} /\ struck = {} /\ load = 0
  BY DEF Init
<1>5. Shape
  <2>1. NoBuilding \in BuildingRow /\ poste \in [Postes -> PosteRow]
    BY <1>2, <1>3 DEF NoBuilding, BuildingRow
  <2>2. /\ now \in 1 .. MaxTime /\ load \in 0 .. MaxLoad /\ policy \in Cycles
        /\ astray \subseteq Postes /\ struck \subseteq Kinds
    BY <1>4, ParcAssumption
  <2>3. /\ building \in [BuildingIds -> BuildingRow] /\ room \in [RoomIds -> RoomRow]
        /\ visited \in [Postes -> Nat] /\ agent \in [Postes -> Keys \cup {None}]
    BY <1>4, <2>1, NoRoomRow
  <2> QED  BY <1>4, <2>1, <2>2, <2>3 DEF Shape
<1>6. RoomsInv
  BY <1>3, <1>4, NoRoomRow DEF RoomsInv, WholeRooms, Housed, Lodged, FiledIn
<1>7. RequestsInv
  BY <1>4, IdleForm, IdleReads DEF RequestsInv, Apart
<1>8. ChecksInv
  <2>1. NoCheck \in CheckRow /\ NoCheck.status = "none"
    BY DEF NoCheck, CheckRow
  <2> QED  BY <1>4, <2>1 DEF ChecksInv
<1>9. JournalInv
  <2>1. \A p \in Postes, k \in Kinds : journal[p][k] = 0
    BY <1>4
  <2>2. \A c \in Checks : c \in Kinds /\ check[c].status = "none"
    BY <1>4 DEF Kinds, NoCheck
  <2> QED  BY <1>4, <2>1, <2>2 DEF JournalInv, Written
<1>10. LastKept
  BY <1>3, <1>4 DEF LastKept, Enrolled
<1> QED  BY <1>5, <1>6, <1>7, <1>8, <1>9, <1>10 DEF IInv

LEMMA ConsoleKept ==
  ASSUME IInv, NEW scope, Console(scope)
  PROVE  IInv'
<1>1. CASE Place(scope) \/ Plan(scope)
  BY <1>1, PlaceKept, PlanKept
<1>2. CASE CreateChecksBulk(scope, Postes)
  <2>1. /\ Ask({p \in Postes : OpenOn(p) = {}}) /\ \A p \in Postes : poste[p].exists
    BY <1>2 DEF CreateChecksBulk
  <2>2. {p \in Postes : OpenOn(p) = {}} \in SUBSET Postes
    OBVIOUS
  <2> QED  BY <2>1, <2>2, AskKept
<1>3. ASSUME NEW p \in Postes, CreateCheck(scope, p)
      PROVE  IInv'
  <2>1. Ask({p}) /\ {p} \in SUBSET Postes /\ \A q \in {p} : poste[q].exists /\ OpenOn(q) = {}
    BY <1>3 DEF CreateCheck
  <2> QED  BY <2>1, AskKept
<1>4. ASSUME NEW p \in Postes, CreateIntervention(scope, p)
                                 \/ \E k \in Kinds : DeleteIntervention(scope, p, k)
      PROVE  IInv'
  BY <1>4, InterventionsKept
<1>5. ASSUME NEW s \in Slots,
             \/ \E c \in Checks : CloseCheck(s, scope, c)
             \/ \E ps \in SUBSET Postes, at \in 1 .. MaxTime : RecordSession(s, scope, ps, at)
             \/ \E target, dup \in Postes : MergeMachine(s, scope, target, dup)
             \/ SyncDirectory(s)
      PROVE  IInv'
  BY <1>5, CloseCheckKept, RecordSessionKept, MergeMachineKept, SyncDirectoryKept
<1> QED  BY <1>1, <1>2, <1>3, <1>4, <1>5 DEF Console

LEMMA StutterKept == IInv /\ UNCHANGED vars => IInv'
<1> SUFFICES ASSUME IInv, UNCHANGED vars
             PROVE  IInv'
  OBVIOUS
<1>1. UNCHANGED <<source, building, room, poste, agent, now, policy, check, journal, request,
                  visited, astray, struck, load>>
  BY DEF vars, parc
<1>2. Shape' /\ RoomsInv' /\ RequestsInv'
  BY <1>1 DEF IInv, Shape, RoomsInv, Housed, Lodged, RequestsInv, Apart
<1> QED  BY <1>1, <1>2, QuietKept

LEMMA NextIInv == IInv /\ [Next]_vars => IInv'
<1> SUFFICES ASSUME IInv, [Next]_vars
             PROVE  IInv'
  OBVIOUS
<1>1. ASSUME NEW scope \in Scopes, Console(scope)
      PROVE  IInv'
  BY <1>1, ConsoleKept
<1>2. ASSUME NEW p \in Postes, Heartbeat(p) \/ Moves(p)
      PROVE  IInv'
  BY <1>2, HeartbeatKept, MovesKept
<1>3. ASSUME NEW s \in Slots,
             CloseCommit(s) \/ RecordCommit(s) \/ MergeCommit(s) \/ SyncCommit(s) \/ Abort(s)
      PROVE  IInv'
  BY <1>3, CloseCommitKept, RecordCommitKept, MergeCommitKept, SyncCommitKept, AbortKept
<1>4. CASE Restart \/ Tick
  BY <1>4, RestartKept, TickKept
<1>5. CASE UNCHANGED vars
  BY <1>5, StutterKept
<1> QED  BY <1>1, <1>2, <1>3, <1>4, <1>5 DEF Next

LEMMA Inductive == Spec => []IInv
<1>1. Init => IInv
  BY InitIInv
<1>2. IInv /\ [Next]_vars => IInv'
  BY NextIInv
<1> QED  BY <1>1, <1>2, PTL DEF Spec

(***************************************************************************)
(* What the invariant says of the code.                                    *)
(***************************************************************************)

(* The rows are what their readers take them for; with ROOM_SOURCE=ad_ou   *)
(* no two rooms answer for one OU, and a poste the directory last spoke of *)
(* is in the one room of its OU (room/crud.py:250, rooms.py:465).          *)
LEMMA FiledRightHolds == IInv => FiledRight
<1> SUFFICES ASSUME IInv
             PROVE  FiledRight
  OBVIOUS
<1>1. /\ room \in [RoomIds -> RoomRow] /\ poste \in [Postes -> PosteRow]
      /\ WholeRooms(room) /\ Housed /\ Lodged
      /\ \A p \in Postes : poste[p].room \in RoomIds \cup {None}
      /\ \A r \in RoomIds : room[r].key \in Keys \cup {None}
  BY DEF IInv, Shape, RoomsInv, PosteRow, RoomRow
<1>2. TypeOK
  <2>1. /\ now \in 1 .. MaxTime /\ load \in 0 .. MaxLoad /\ policy \in Cycles
    BY DEF IInv, Shape
  <2>2. \A p \in Enrolled : poste[p].room # None => poste[p].room \in There(room)
    BY <1>1 DEF Lodged, Enrolled, There
  <2>3. /\ \A r \in There(room) :
             /\ room[r].building # None => building[room[r].building].exists
             /\ room[r].name \in ToSet(Names) /\ room[r].key \in Keys \cup {None}
        /\ \A r \in RoomIds \ There(room) : room[r] = NoRoom
    BY <1>1 DEF WholeRooms, Housed, There
  <2>4. \A c \in Checks : check[c].status # "none" => poste[check[c].poste].exists
    BY DEF IInv, ChecksInv
  <2>5. \A p \in Postes \ Enrolled : \A k \in Kinds : journal[p][k] = 0
    BY DEF IInv, JournalInv, Enrolled
  <2> QED  BY <2>1, <2>2, <2>3, <2>4, <2>5 DEF TypeOK
<1>3. \A r, q \in There(room) : (room[r].key = room[q].key /\ room[r].key # None) => r = q
  BY <1>1 DEF WholeRooms, There
<1>4. ASSUME source = "ad_ou", NEW p \in Enrolled \ astray
      PROVE  IF poste[p].ou = None THEN poste[p].room = None
             ELSE Keyed(room, poste[p].ou) = {poste[p].room}
  <2>1. p \in Postes /\ poste[p].exists /\ FiledIn(room, poste[p])
    BY <1>4 DEF IInv, RoomsInv, Enrolled
  <2>2. CASE poste[p].ou # None
    <3>1. /\ poste[p].room \in There(room) /\ room[poste[p].room].key = poste[p].ou
      BY <1>1, <2>1, <2>2 DEF FiledIn, Lodged, There
    <3> QED  BY <1>3, <2>2, <3>1 DEF Keyed
  <2> QED  BY <2>1, <2>2 DEF FiledIn
<1> QED  BY <1>2, <1>3, <1>4 DEF FiledRight

THEOREM FilesRight == Spec => []FiledRight
BY Inductive, FiledRightHolds, PTL

(* A poste's cycle never runs from before a visit that was recorded alone  *)
(* on it (maintenance/crud.py:171, machine/crud.py:89).                    *)
THEOREM KeepsLast == Spec => []LastKept
<1>1. IInv => LastKept
  BY DEF IInv
<1> QED  BY <1>1, Inductive, PTL

(* One open request at most on a poste; a closed one wrote its poste's     *)
(* journal, once for each of those who closed it at once, and follows it   *)
(* through merges (check/crud.py:66, checks.py:478).                       *)
LEMMA JournalFollowsHolds == IInv => JournalFollows
<1> SUFFICES ASSUME IInv
             PROVE  JournalFollows
  OBVIOUS
<1>1. ASSUME NEW p \in Postes
      PROVE  Cardinality(OpenOn(p)) <= 1
  <2>1. \A c, e \in OpenOn(p) : c = e
    BY DEF OpenOn, IInv, ChecksInv
  <2>2. CASE OpenOn(p) = {}
    BY <2>2, FS_EmptySet
  <2>3. CASE OpenOn(p) # {}
    <3>1. PICK c \in OpenOn(p) : TRUE
      BY <2>3
    <3>2. OpenOn(p) = {c}
      BY <2>1, <3>1
    <3>3. Cardinality({c}) = 1
      BY FS_Singleton
    <3> QED  BY <3>2, <3>3
  <2> QED  BY <2>2, <2>3
<1>2. ASSUME NEW c \in Checks \ struck
      PROVE  /\ \A p \in Postes : journal[p][c] > 0 => p = check[c].poste
             /\ check[c].status = "closed" => journal[check[c].poste][c] \in 1 .. Cardinality(Slots)
  <2>1. Written(c, check[c], journal, request) /\ journal \in [Postes -> [Kinds -> Nat]]
    BY DEF IInv, JournalInv
  <2>2. ASSUME check[c].status = "closed"
        PROVE  journal[check[c].poste][c] \in 1 .. Cardinality(Slots)
    <3>1. check[c].poste \in Postes /\ c \in Kinds
      BY <2>2 DEF IInv, ChecksInv, Kinds
    <3>2. journal[check[c].poste][c] \in Nat
      BY <2>1, <3>1
    <3>3. /\ Closers(request, c) \subseteq Slots /\ IsFiniteSet(Closers(request, c))
          /\ Cardinality(Closers(request, c)) \in Nat /\ Cardinality(Slots) \in Nat
      BY ParcAssumption, FS_Subset, FS_CardinalityType DEF Closers
    <3>4. /\ journal[check[c].poste][c] >= 1
          /\ journal[check[c].poste][c] + Cardinality(Closers(request, c)) <= Cardinality(Slots)
      BY <2>1, <2>2 DEF Written
    <3> QED  BY <3>2, <3>3, <3>4
  <2> QED  BY <2>1, <2>2 DEF Written
<1> QED  BY <1>1, <1>2 DEF JournalFollows

THEOREM FollowsJournal == Spec => []JournalFollows
BY Inductive, JournalFollowsHolds, PTL

(* The two readings of where a room is are one: a room in a building keeps *)
(* no site of its own (rooms.py:528).                                      *)
LEMMA SitesAgreeHolds == IInv => SitesAgree
BY DEF IInv, RoomsInv, WholeRooms, SitesAgree, SiteInQueries, EffectiveSite, There

LEMMA CycleNat ==
  ASSUME IInv, NEW p \in Postes
  PROVE  Cycle(p) \in Nat /\ Due(p) \in Nat /\ now \in Nat /\ DueSoon \in Nat
<1>1. /\ poste[p].cycle \in Cycles \cup {Unset} /\ poste[p].room \in RoomIds \cup {None}
      /\ poste[p].first \in Nat /\ poste[p].last \in Nat /\ policy \in Cycles
      /\ \A r \in RoomIds : room[r].cycle \in Cycles \cup {Unset}
  BY DEF IInv, Shape, PosteRow, RoomRow
<1>2. Cycle(p) \in Cycles
  <2>1. CASE poste[p].cycle # Unset
    BY <1>1, <2>1 DEF Cycle
  <2>2. CASE /\ poste[p].cycle = Unset /\ poste[p].room # None
             /\ room[poste[p].room].cycle # Unset
    BY <1>1, <2>2 DEF Cycle
  <2>3. CASE /\ poste[p].cycle = Unset
             /\ ~(poste[p].room # None /\ room[poste[p].room].cycle # Unset)
    BY <1>1, <2>3 DEF Cycle
  <2> QED  BY <2>1, <2>2, <2>3
<1>3. Cycle(p) \in Nat /\ now \in Nat /\ DueSoon \in Nat
  <2>1. now \in 1 .. MaxTime /\ MaxTime \in Nat
    BY ParcAssumption DEF IInv, Shape
  <2>2. Cycles \subseteq Nat /\ DueSoon \in Nat
    BY ParcAssumption
  <2>3. now \in Nat
    BY <2>1
  <2> QED  BY <1>2, <2>2, <2>3
<1>4. (IF poste[p].last # 0 THEN poste[p].last ELSE poste[p].first) \in Nat
  BY <1>1
<1>5. Due(p) \in Nat
  BY <1>3, <1>4 DEF Due
<1> QED  BY <1>3, <1>5

LEMMA OneClause ==
  ASSUME IInv, NEW p \in Postes, NEW state \in {"excluded", "overdue", "due_soon", "ok"}
  PROVE  StateClause(state, p) <=> Resolve(p) = state
<1>1. Cycle(p) \in Nat /\ Due(p) \in Nat /\ now \in Nat /\ DueSoon \in Nat
  BY CycleNat
<1>2. /\ Cycle(p) <= 0 => Resolve(p) = "excluded"
      /\ (Cycle(p) > 0 /\ Due(p) < now) => Resolve(p) = "overdue"
      /\ (Cycle(p) > 0 /\ Due(p) >= now /\ Due(p) - DueSoon <= now) => Resolve(p) = "due_soon"
      /\ (Cycle(p) > 0 /\ Due(p) >= now /\ Due(p) - DueSoon > now) => Resolve(p) = "ok"
  <2> DEFINE n == Cycle(p)
             d == Due(p)
  <2>1. Resolve(p) = CASE n <= 0                                  -> "excluded"
                       [] n > 0 /\ d < now                        -> "overdue"
                       [] n > 0 /\ d >= now /\ d - DueSoon <= now -> "due_soon"
                       [] OTHER                                   -> "ok"
    BY DEF Resolve
  <2>2. n \in Nat /\ d \in Nat
    BY <1>1
  <2> HIDE DEF n, d
  <2>3. n <= 0 => Resolve(p) = "excluded"
    BY <1>1, <2>1, <2>2
  <2>4. (n > 0 /\ d < now) => Resolve(p) = "overdue"
    BY <1>1, <2>1, <2>2
  <2>5. (n > 0 /\ d >= now /\ d - DueSoon <= now) => Resolve(p) = "due_soon"
    BY <1>1, <2>1, <2>2
  <2>6. (n > 0 /\ d >= now /\ d - DueSoon > now) => Resolve(p) = "ok"
    BY <1>1, <2>1, <2>2
  <2> QED  BY <2>3, <2>4, <2>5, <2>6 DEF n, d
<1>4. /\ Due(p) - DueSoon <= now <=> Due(p) <= now + DueSoon
      /\ Due(p) - DueSoon > now <=> Due(p) > now + DueSoon
      /\ Due(p) < now <=> ~(Due(p) >= now)
      /\ Due(p) > now + DueSoon => Due(p) >= now
      /\ Cycle(p) <= 0 <=> ~(Cycle(p) > 0)
  BY <1>1
<1>5. CASE state = "excluded"
  <2>1. Resolve(p) = "excluded" <=> Cycle(p) <= 0
    BY <1>1, <1>2, <1>4
  <2>2. StateClause("excluded", p) <=> Cycle(p) <= 0
    BY DEF StateClause
  <2> QED  BY <2>1, <2>2, <1>5
<1>6. CASE state = "overdue"
  <2>1. Resolve(p) = "overdue" <=> Cycle(p) > 0 /\ Due(p) < now
    BY <1>1, <1>2, <1>4
  <2>2. StateClause("overdue", p) <=> Cycle(p) > 0 /\ Due(p) < now
    BY DEF StateClause
  <2> QED  BY <2>1, <2>2, <1>6
<1>7. CASE state = "due_soon"
  <2>1. Resolve(p) = "due_soon" <=> Cycle(p) > 0 /\ Due(p) >= now /\ Due(p) <= now + DueSoon
    BY <1>1, <1>2, <1>4
  <2>2. StateClause("due_soon", p) <=> Cycle(p) > 0 /\ Due(p) >= now /\ Due(p) <= now + DueSoon
    BY DEF StateClause
  <2> QED  BY <2>1, <2>2, <1>7
<1>8. CASE state = "ok"
  <2>1. Resolve(p) = "ok" <=> Cycle(p) > 0 /\ Due(p) > now + DueSoon
    BY <1>1, <1>2, <1>4
  <2>2. StateClause("ok", p) <=> Cycle(p) > 0 /\ Due(p) > now + DueSoon
    BY DEF StateClause
  <2> QED  BY <2>1, <2>2, <1>8
<1> QED  BY <1>5, <1>6, <1>7, <1>8

(* The filter of the lists and what a payload says are one rule, and the   *)
(* list, the due page and the rooms page of an account show the same       *)
(* postes (maintenance/policy.py:12).                                      *)
LEMMA OneRuleHolds == IInv => OneRule
<1> SUFFICES ASSUME IInv
             PROVE  OneRule
  OBVIOUS
<1> SUFFICES ASSUME NEW scope \in Scopes,
                    NEW state \in {"excluded", "overdue", "due_soon", "ok"}
             PROVE  /\ Listed(scope, state) = UNION {DueIn(scope, r, state) : r \in There(room) \cup {None}}
                    /\ \A r \in There(room) : RoomIn(scope, r) => DueIn(scope, r, state) = Counted(r, state)
  BY SitesAgreeHolds DEF OneRule
<1>1. \A p \in Enrolled : p \in Postes /\ poste[p].room \in There(room) \cup {None}
  <2>1. \A p \in Postes : poste[p].room \in RoomIds \cup {None}
    BY DEF IInv, Shape, PosteRow
  <2> QED  BY <2>1 DEF IInv, RoomsInv, Lodged, Enrolled, There
<1>2. \A p \in Enrolled : StateClause(state, p) <=> Resolve(p) = state
  BY <1>1, OneClause
<1>3. Listed(scope, state) = {p \in Fleet(scope) : Resolve(p) = state}
  BY <1>2 DEF Listed, Fleet
<1>4. Listed(scope, state) = UNION {DueIn(scope, r, state) : r \in There(room) \cup {None}}
  BY <1>1, <1>3 DEF DueIn, Grouped, Fleet
<1>5. ASSUME NEW r \in There(room), RoomIn(scope, r)
      PROVE  DueIn(scope, r, state) = Counted(r, state)
  <2>1. r # None
    BY NoneIsNobody DEF There
  <2> QED  BY <1>5, <2>1 DEF DueIn, Counted, Grouped, Fleet, PosteIn
<1> QED  BY <1>4, <1>5

THEOREM ReadsOneRule == Spec => []OneRule
BY Inductive, OneRuleHolds, PTL

(***************************************************************************)
(* Accounts confined to places.                                            *)
(***************************************************************************)
LEMMA ScopeType ==
  ASSUME NEW scope \in Scopes
  PROVE  /\ scope.sites \subseteq Sites /\ scope.buildings \subseteq BuildingIds
         /\ scope.rooms \subseteq RoomIds
         /\ None \notin scope.sites /\ None \notin scope.buildings /\ None \notin scope.rooms
BY RoomsAssumption

LEMMA StillConfined ==
  ASSUME NEW scope, UNCHANGED <<building, room, poste>>
  PROVE  Confined(scope)
BY DEF Confined

LEMMA PlaceConfined ==
  ASSUME IInv, NEW scope \in Scopes, ~scope.all, Place(scope)
  PROVE  Confined(scope)
<1>1. /\ building \in [BuildingIds -> BuildingRow] /\ room \in [RoomIds -> RoomRow]
      /\ poste \in [Postes -> PosteRow]
  BY DEF IInv, Shape
<1>2. ASSUME NEW b \in BuildingIds, NEW x \in Sites \cup {None}, CreateBuilding(scope, b, x)
      PROVE  Confined(scope)
  <2>1. /\ ~building[b].exists /\ building' = [building EXCEPT ![b] = [exists |-> TRUE, site |-> x]]
        /\ UNCHANGED <<room, poste>>
    BY <1>2 DEF CreateBuilding
  <2>2. x \in scope.sites
    BY <1>2, ScopeType DEF CreateBuilding, BuildingWritable
  <2>3. building'[b].site = x /\ \A c \in BuildingIds \ {b} : building'[c] = building[c]
    BY <1>1, <2>1
  <2> QED  BY <2>1, <2>2, <2>3 DEF Confined
<1>3. ASSUME NEW b \in BuildingIds, NEW x \in Sites \cup {None}, UpdateBuilding(scope, b, x)
      PROVE  Confined(scope)
  <2>1. /\ building[b].exists /\ building' = [building EXCEPT ![b].site = x]
        /\ UNCHANGED <<room, poste>> /\ BuildingWritable(scope, b, building[b].site)
    BY <1>3 DEF UpdateBuilding
  <2>2. b \in scope.buildings \/ building[b].site \in scope.sites
    BY <2>1 DEF BuildingWritable
  <2>3. \A c \in BuildingIds \ {b} : building'[c] = building[c]
    BY <1>1, <2>1
  <2> QED  BY <2>1, <2>2, <2>3 DEF Confined
<1>4. ASSUME NEW b \in BuildingIds, DeleteBuilding(scope, b)
      PROVE  Confined(scope)
  <2>1. /\ building[b].exists /\ building' = [building EXCEPT ![b] = NoBuilding]
        /\ UNCHANGED poste /\ BuildingWritable(scope, b, building[b].site)
        /\ \A r \in RoomIds : ~(room[r].exists /\ room[r].building = b) => room'[r] = room[r]
    BY <1>4 DEF DeleteBuilding
  <2>2. b \in scope.buildings \/ building[b].site \in scope.sites
    BY <2>1 DEF BuildingWritable
  <2>3. \A c \in BuildingIds \ {b} : building'[c] = building[c]
    BY <1>1, <2>1
  <2>4. ASSUME NEW r \in RoomIds, room'[r] # room[r]
        PROVE  room[r].exists /\ RoomIn(scope, r)
    <3>1. room[r].exists /\ room[r].building = b /\ b # None
      BY <2>1, <2>4, NoneIsNobody
    <3>2. building[b].site \in scope.sites => SiteInQueries(r) = building[b].site
      BY <3>1, ScopeType DEF SiteInQueries
    <3> QED  BY <2>2, <3>1, <3>2 DEF RoomIn
  <2> QED  BY <2>1, <2>2, <2>3, <2>4 DEF Confined
<1>5. ASSUME NEW r \in RoomIds, NEW row \in RoomRow, RoomWritten(scope, r, row),
             room[r].exists => RoomIn(scope, r)
      PROVE  Confined(scope)
  <2> DEFINE new == Stored(row)
  <2>1. /\ room' = [room EXCEPT ![r] = new] /\ UNCHANGED <<building, poste>>
        /\ \/ SiteInQueries(r)' \in scope.sites
           \/ row.building \in scope.buildings
           \/ r \in scope.rooms
    BY <1>5 DEF RoomWritten
  <2>2. new.building = row.building
    BY DEF Stored, RoomRow
  <2> HIDE DEF new
  <2>3. room'[r] = new /\ \A q \in RoomIds \ {r} : room'[q] = room[q]
    BY <1>1, <2>1
  <2>4. RoomIn(scope, r)'
    BY <2>1, <2>2, <2>3 DEF RoomIn
  <2> QED  BY <1>5, <2>1, <2>3, <2>4 DEF Confined
<1>6. ASSUME NEW r \in RoomIds, NEW n \in DOMAIN Names, NEW b \in BuildingIds \cup {None},
             NEW x \in Sites \cup {None},
             CreateRoom(scope, r, Names[n], b, x) \/ UpdateRoom(scope, r, Names[n], b, x)
      PROVE  Confined(scope)
  <2>1. Names[n] \in ToSet(Names)
    BY DEF ToSet
  <2>2. CASE CreateRoom(scope, r, Names[n], b, x)
    <3> DEFINE row == [NoRoom EXCEPT !.exists = TRUE, !.name = Names[n], !.building = b,
                                     !.site = x]
    <3>1. ~room[r].exists /\ RoomWritten(scope, r, row)
      BY <2>2 DEF CreateRoom
    <3>2. row \in RoomRow
      BY <2>1 DEF NoRoom, RoomRow
    <3> HIDE DEF row
    <3> QED  BY <1>5, <3>1, <3>2
  <2>3. CASE UpdateRoom(scope, r, Names[n], b, x)
    <3> DEFINE row == [room[r] EXCEPT !.name = Names[n], !.building = b, !.site = x]
    <3>1. RoomIn(scope, r) /\ RoomWritten(scope, r, row)
      BY <2>3 DEF UpdateRoom
    <3>2. row \in RoomRow
      BY <1>1, <2>1 DEF RoomRow
    <3> HIDE DEF row
    <3> QED  BY <1>5, <3>1, <3>2
  <2> QED  BY <1>6, <2>2, <2>3
<1>7. ASSUME NEW r \in RoomIds, DeleteRoom(scope, r)
      PROVE  Confined(scope)
  <2>1. /\ room[r].exists /\ RoomIn(scope, r) /\ room' = [room EXCEPT ![r] = NoRoom]
        /\ UNCHANGED building
        /\ \A p \in Postes : poste[p].room # r => poste'[p] = poste[p]
    BY <1>7 DEF DeleteRoom
  <2>2. \A q \in RoomIds \ {r} : room'[q] = room[q]
    BY <1>1, <2>1
  <2>3. r # None
    BY NoneIsNobody
  <2> QED  BY <2>1, <2>2, <2>3 DEF Confined, PosteIn
<1>8. ASSUME NEW ps \in SUBSET Postes, NEW r \in RoomIds \cup {None}, PlaceMachines(scope, ps, r)
      PROVE  Confined(scope)
  <2>1. /\ UNCHANGED <<building, room>> /\ \A p \in ps : PosteIn(scope, p)
        /\ \A p \in Postes : p \notin ps => poste'[p] = poste[p]
    BY <1>8 DEF PlaceMachines
  <2> QED  BY <2>1 DEF Confined
<1> QED  BY <1>2, <1>3, <1>4, <1>6, <1>7, <1>8 DEF Place

(* A request of a confined account changes no place or poste out of its    *)
(* reach, and makes none there (rooms.py:131).                             *)
LEMMA ConsoleConfined ==
  ASSUME IInv, NEW scope \in Scopes, ~scope.all, Console(scope)
  PROVE  Confined(scope)
<1>1. CASE Place(scope)
  BY <1>1, PlaceConfined
<1>2. CASE Plan(scope)
  <2>1. UNCHANGED building
    BY <1>2 DEF Plan
  <2>2. PICK n \in Cycles \cup {Unset} :
          \/ \E p \in Postes : PlanPoste(scope, p, n)
          \/ \E r \in RoomIds : PlanRoom(scope, r, n)
          \/ PlanParc(n)
    BY <1>2 DEF Plan
  <2>3. ASSUME NEW p \in Postes, PlanPoste(scope, p, n)
        PROVE  Confined(scope)
    <3>1. PosteIn(scope, p) /\ UNCHANGED room /\ \A q \in Postes \ {p} : poste'[q] = poste[q]
      BY <2>3 DEF PlanPoste, IInv, Shape
    <3> QED  BY <2>1, <3>1 DEF Confined
  <2>4. ASSUME NEW r \in RoomIds, PlanRoom(scope, r, n)
        PROVE  Confined(scope)
    <3>1. /\ room[r].exists /\ RoomIn(scope, r) /\ UNCHANGED poste
          /\ \A q \in RoomIds \ {r} : room'[q] = room[q]
      BY <2>4 DEF PlanRoom, IInv, Shape
    <3> QED  BY <2>1, <3>1 DEF Confined
  <2>5. CASE PlanParc(n)
    BY <2>1, <2>5, StillConfined DEF PlanParc
  <2> QED  BY <2>2, <2>3, <2>4, <2>5
<1>3. ASSUME NEW ps, Ask(ps)
      PROVE  Confined(scope)
  BY <1>3, StillConfined DEF Ask
<1>4. ASSUME NEW p \in Postes, CreateIntervention(scope, p)
                                 \/ \E k \in Kinds : DeleteIntervention(scope, p, k)
      PROVE  Confined(scope)
  BY <1>4, StillConfined DEF CreateIntervention, DeleteIntervention
<1>5. ASSUME NEW s \in Slots, NEW class, NEW r, Begin(s, class, r)
      PROVE  Confined(scope)
  BY <1>5, StillConfined DEF Begin
<1> QED  BY <1>1, <1>2, <1>3, <1>4, <1>5
         DEF Console, CreateCheck, CreateChecksBulk, CloseCheck, RecordSession, MergeMachine

THEOREM HoldsScope == Spec => ScopeHolds
<1>1. IInv /\ [Next]_vars =>
        [\A scope \in {x \in Scopes : ~x.all} : ~Confined(scope) => ~Console(scope)]_vars
  BY ConsoleConfined
<1> QED  BY <1>1, Inductive, PTL DEF Spec, ScopeHolds
=============================================================================
