------------------------------- MODULE Accounts -------------------------------
(***************************************************************************)
(* The console's accounts: logins and their lock, reset links, the groups  *)
(* an account belongs to and what they grant and where, and the guards on  *)
(* the requests that change them (backend/app/features/user,               *)
(* api/routes/users.py, groups.py, auth.py, core/ratelimit.py).            *)
(*                                                                         *)
(* A request reads the database, and is refused or writes what it decided  *)
(* from what it read; other requests commit in between.                    *)
(***************************************************************************)
EXTENDS Integers, Sequences, FiniteSets, TLC

CONSTANTS
  Users, Groups, Admins,        \* Admins is the administrators' group
  Catalogue, UserWrite,         \* the permissions, and user:write
  Places, Elsewhere,            \* what scopes name, and the rest of the parc
  Member, Composed,             \* at first: groups of each account, of the console
  Grants, Confined,             \* what the latter grant, and where
  Addresses, MaxHits, Window, MaxKeys,   \* the rate limiters
  MaxFailed, LockTime, LinkTtl, LinkGrace,
  Links,                        \* reset links (bound)
  Slots,                        \* requests handled at once
  AdminSlots,                   \* of which on accounts and groups
  MaxTime, MaxLoad, Load        \* bounds: time, and the requests, by what each weighs

Surfaces == {"login", "reset"}
None     == 0
Parc     == Places \cup {Elsewhere}  \* the scope of whoever is not confined

ASSUME AccountsAssumption ==
  /\ Admins \in Groups /\ Admins \notin Composed /\ Composed \subseteq Groups
  /\ UserWrite \in Catalogue
  /\ Elsewhere \notin Places
  /\ Member \in [Users -> SUBSET (Composed \cup {Admins})]
  /\ Grants \in [Composed -> SUBSET Catalogue]
  /\ Confined \in [Composed -> SUBSET Places]
  /\ MaxHits \in [Surfaces -> Nat \ {0}]
  /\ AdminSlots \subseteq Slots
  /\ \A n \in {Window, MaxKeys, LockTime, LinkTtl, LinkGrace, MaxLoad} : n \in Nat
  /\ MaxFailed \in Nat \ {0} /\ MaxTime \in Nat \ {0}
  /\ IsFiniteSet(Slots) /\ IsFiniteSet(Links)
  /\ Load \in [{"login", "link", "write"} -> Nat \ {0}]

VARIABLES
  now,
  account,  \* the rows of users, with their memberships
  group,    \* the rows of groups, with their permissions and scope
  link,     \* the rows of password_reset_tokens
  hits,     \* attempts the rate limiters remember, by surface and address
  request,  \* the requests the server is handling
  allowed,  \* history: attempts each limiter let through
  guesses,  \* history: wrong passwords in a row, none overlapping another login
  overtaken,  \* history: the slots of requests that read rights written since
  load      \* of the requests so far (bound)

vars == <<now, account, group, link, hits, request, allowed, guesses, overtaken, load>>

-----------------------------------------------------------------------------
(* Who holds what. *)

NoAccount == [exists |-> FALSE, active |-> FALSE, groups |-> {}, password |-> 0,
              attempts |-> 0, locked |-> None]

Exists(u) == account[u].exists

\* No row means the whole parc, and an administrator is never confined.
GroupScope(row, g) == IF g = Admins \/ row.scope = {} THEN Parc ELSE row.scope

GroupPermissions(row, g) == IF g = Admins THEN Catalogue ELSE row.grants

\* What groups grant together: an unrestricted one lifts the restriction.
GroupsAuthority(rows, gs) ==
  [admin       |-> Admins \in gs,
   permissions |-> UNION {GroupPermissions(rows[g], g) : g \in gs},
   scope       |-> UNION {GroupScope(rows[g], g) : g \in gs}]

Authority(u) == GroupsAuthority(group, account[u].groups)

\* Faulty variant: what the actor lacks is looked for among permissions only.
EscalatesHere(actor, target) ==
  /\ ~actor.admin
  /\ ~(target.permissions \subseteq actor.permissions) \/ target.admin

\* Whether target grants, or reaches, more than the actor holds.
Escalates(actor, target) ==
  /\ ~actor.admin
  /\ \/ ~(target.permissions \subseteq actor.permissions)
     \/ target.admin
     \/ ~(target.scope \subseteq actor.scope)

Holding(accounts, rows) ==
  {u \in Users : accounts[u].active
                   /\ UserWrite \in GroupsAuthority(rows, accounts[u].groups).permissions}

LocksOut(accounts, rows) == Holding(accounts, rows) = {}

\* The guard of every route that writes accounts or groups.
MayWrite(by) == Exists(by) /\ account[by].active /\ UserWrite \in Authority(by).permissions

-----------------------------------------------------------------------------
(* The rate limiters: the attempts of the last window, by address; the    *)
(* oldest are dropped as far as the first that is recent.                  *)

Recent(s) ==
  LET old == CHOOSE n \in 0 .. Len(s) :
               /\ \A i \in 1 .. n : s[i] <= now - Window
               /\ n < Len(s) => s[n + 1] > now - Window
  IN  SubSeq(s, old + 1, Len(s))

Allows(surface, a) == Len(Recent(hits[surface][a])) < MaxHits[surface]

\* Faulty variant: past the bound on addresses every one is forgotten.
SweptAll(surface, h) ==
  IF Cardinality({a \in Addresses : h[a] # <<>>}) > MaxKeys THEN [a \in Addresses |-> <<>>] ELSE h

Swept(surface, h) ==
  IF Cardinality({a \in Addresses : h[a] # <<>>}) > MaxKeys
  THEN [a \in Addresses |-> Recent(h[a])] ELSE h

Hit(surface, a) ==
  /\ LET h   == hits[surface]
         log == allowed[surface]
     IN  /\ hits' = [hits EXCEPT ![surface] =
                        Swept(surface, [h EXCEPT ![a] = Append(Recent(h[a]), now)])]
         /\ allowed' = [allowed EXCEPT ![surface] = [log EXCEPT ![a] = Append(log[a], now)]]

-----------------------------------------------------------------------------
Free == [kind |-> "free"]

NoLink == [status |-> "none", user |-> None, expires |-> 0, used |-> 0, uses |-> 0]

LiveLinks(u) == {l \in Links : link[l].user = u /\ link[l].status \in {"live", "used"}}

Init ==
  /\ now = 1
  /\ account = [u \in Users |-> IF Member[u] = {} THEN NoAccount
                  ELSE [NoAccount EXCEPT !.exists = TRUE, !.active = TRUE, !.groups = Member[u]]]
  /\ group = [g \in Groups |->
                [exists |-> g = Admins \/ g \in Composed,
                 grants |-> IF g \in Composed THEN Grants[g] ELSE {},
                 scope  |-> IF g \in Composed THEN Confined[g] ELSE {}]]
  /\ link = [l \in Links |-> NoLink]
  /\ hits = [s \in Surfaces |-> [a \in Addresses |-> <<>>]]
  /\ request = [s \in Slots |-> Free]
  /\ allowed = hits
  /\ guesses = [u \in Users |-> 0]
  /\ overtaken = {} /\ load = 0

Begin(s, class, r) ==
  /\ request[s] = Free
  /\ load' = load + Load[class] /\ load' <= MaxLoad
  /\ request' = [request EXCEPT ![s] = r]

End(s) == request' = [request EXCEPT ![s] = Free] /\ UNCHANGED load

Is(s, kind) == request[s].kind = kind

-----------------------------------------------------------------------------
(* Logging in. *)

Verdict(u, right) ==
  CASE ~account[u].active -> "refused"
    [] account[u].active /\ account[u].locked > now -> "locked"
    [] account[u].active /\ account[u].locked <= now /\ right -> "right"
    [] OTHER -> IF account[u].attempts + 1 >= MaxFailed THEN "locks" ELSE "wrong"

\* The attempt is counted, then the account read and the password checked.
Login(s, a, u, right) ==
  /\ Allows("login", a) /\ Hit("login", a)
  /\ Begin(s, "login", [kind |-> "login", user |-> u, verdict |-> Verdict(u, right),
                         attempts |-> account[u].attempts, locked |-> account[u].locked,
                         at |-> now])
  /\ guesses' = [guesses EXCEPT ![u] =
       CASE \E x \in Slots : Is(x, "login") /\ request[x].user = u -> 0
         [] OTHER -> IF Verdict(u, right) \in {"wrong", "locks"} THEN guesses[u] + 1
                     ELSE guesses[u]]
  /\ UNCHANGED <<now, account, group, link, overtaken>>

\* Faulty variant: a failure that does not lock is rolled back with its answer.
FailedRolledBack(row, r) == row

Failed(row, r) == [row EXCEPT !.attempts = r.attempts + 1]

\* Only the columns that changed since they were read are written.
LoggedIn(row, r) ==
  CASE r.verdict = "locks"  -> [row EXCEPT !.attempts = IF r.attempts = 0 THEN row.attempts ELSE 0,
                                           !.locked = r.at + LockTime]
    [] r.verdict = "wrong"  -> Failed(row, r)
    [] r.verdict = "right"  -> [row EXCEPT !.attempts = IF r.attempts = 0 THEN row.attempts ELSE 0,
                                           !.locked = IF r.locked = None THEN row.locked ELSE None]
    [] r.verdict \in {"refused", "locked"} -> row

LoginCommit(s) ==
  /\ Is(s, "login")
  /\ LET r == request[s]
     IN  /\ account' = IF Exists(r.user)
                       THEN [account EXCEPT ![r.user] = LoggedIn(account[r.user], r)] ELSE account
         /\ guesses' = IF r.verdict \in {"right", "locks"} THEN [guesses EXCEPT ![r.user] = 0]
                       ELSE guesses
  /\ End(s)
  /\ UNCHANGED <<now, group, link, hits, allowed, overtaken>>

-----------------------------------------------------------------------------
(* Reset links and passwords. *)

\* Faulty variant: a new link leaves the earlier ones alone.
ReplacedNone(u) == {}

\* The links a new one replaces.
Replaced(u) == LiveLinks(u)

RequestLink(s, a, u) ==
  /\ Allows("reset", a) /\ Hit("reset", a)
  /\ Begin(s, "link", IF account[u].active
                         THEN [kind |-> "link", user |-> u, drop |-> Replaced(u), at |-> now]
                         ELSE [kind |-> "refused"])
  /\ UNCHANGED <<now, account, group, link, guesses, overtaken>>

RequestLinkCommit(s) ==
  /\ Is(s, "link") /\ Exists(request[s].user)
  /\ \E l \in Links :
       /\ link[l].status = "none"
       /\ link' = [k \in Links |->
            CASE k = l -> [NoLink EXCEPT !.status = "live", !.user = request[s].user,
                                         !.expires = request[s].at + LinkTtl]
              [] k \in request[s].drop \ {l} -> [link[k] EXCEPT !.status = "gone"]
              [] OTHER -> link[k]]
  /\ End(s)
  /\ UNCHANGED <<now, account, group, hits, allowed, guesses, overtaken>>

\* Faulty variant: a link is good until it expires.
RedeemableAgain(l) ==
  /\ link[l].status \in {"live", "used"} /\ link[l].expires >= now
  /\ Exists(link[l].user) /\ account[link[l].user].active

Redeemable(l) ==
  /\ link[l].status = "live" /\ link[l].expires >= now
  /\ Exists(link[l].user) /\ account[link[l].user].active

ConfirmReset(s, l) ==
  /\ Redeemable(l)
  /\ Begin(s, "link", [kind |-> "confirm", link |-> l, user |-> link[l].user, by |-> None,
                         at |-> now])
  /\ UNCHANGED <<now, account, group, link, hits, allowed, guesses, overtaken>>

\* By its owner, who gives the current one.
ChangePassword(s, u) ==
  /\ Exists(u) /\ account[u].active
  /\ Begin(s, "link", [kind |-> "password", user |-> u, by |-> None, at |-> now])
  /\ UNCHANGED <<now, account, group, link, hits, allowed, guesses, overtaken>>

\* By an account that may, of one that holds no more than it does.
ResetPassword(s, by, u) ==
  /\ Exists(u) /\ ~Escalates(Authority(by), Authority(u))
  /\ Begin(s, "link", [kind |-> "password", user |-> u, by |-> by, at |-> now])
  /\ UNCHANGED <<now, account, group, link, hits, allowed, guesses, overtaken>>

\* A new password lifts the lock, and drops the links unless it came by one.
PasswordCommit(s) ==
  /\ request[s].kind \in {"confirm", "password"}
  /\ LET r == request[s]
     IN  /\ Exists(r.user)
         /\ Is(s, "confirm") => link[r.link].status # "gone"
         /\ account' = [account EXCEPT ![r.user] =
              [account[r.user] EXCEPT !.password = account[r.user].password + 1,
                                      !.attempts = 0, !.locked = None]]
         /\ guesses' = [guesses EXCEPT ![r.user] = 0]
         /\ link' = IF Is(s, "confirm")
                    THEN [link EXCEPT ![r.link] =
                           [link[r.link] EXCEPT !.status = "used", !.used = r.at,
                                                !.uses = link[r.link].uses + 1]]
                    ELSE [l \in Links |-> IF l \in LiveLinks(r.user)
                                          THEN [link[l] EXCEPT !.status = "gone"] ELSE link[l]]
  /\ End(s) /\ overtaken' = overtaken \ {s}
  /\ UNCHANGED <<now, group, hits, allowed>>

\* The worker's purge of the links that ended more than a grace ago.
PurgeLinks ==
  /\ LET spent == {l \in Links : /\ link[l].status \in {"live", "used"}
                                 /\ \/ link[l].expires < now - LinkGrace
                                    \/ link[l].status = "used" /\ link[l].used < now - LinkGrace}
     IN  /\ spent # {}
         /\ link' = [l \in Links |-> IF l \in spent THEN [link[l] EXCEPT !.status = "gone"]
                                     ELSE link[l]]
  /\ UNCHANGED <<now, account, group, hits, request, allowed, guesses, overtaken, load>>

-----------------------------------------------------------------------------
(* Accounts and groups.  A request keeps the rows it is to write; the last *)
(* guard, that somebody keeps user:write, is on the database as the        *)
(* request sees it once its own change is made.                            *)

\* A row, its columns among fields changed.
Over(fields, row) == [k \in DOMAIN row |-> IF k \in DOMAIN fields THEN fields[k] ELSE row[k]]

Guarded(s, accounts, rows, r) ==
  /\ ~LocksOut(accounts, rows)
  /\ Begin(s, "write", r)
  /\ UNCHANGED <<now, account, group, link, hits, allowed, guesses, overtaken>>

OnUser(by, u, fields)  == [kind |-> "write", by |-> by, user |-> u, fields |-> fields]
OnGroup(by, g, fields) == [kind |-> "write", by |-> by, group |-> g, fields |-> fields]

CreateUser(s, by, u, gs) ==
  /\ ~Exists(u) /\ \A g \in gs : group[g].exists
  /\ ~Escalates(Authority(by), GroupsAuthority(group, gs))
  /\ Guarded(s, account, group,
       OnUser(by, u, [exists |-> TRUE, active |-> TRUE, groups |-> gs]))

\* A change of groups, or of activity, of an account that is not one's own.
UpdateUser(s, by, u, fields) ==
  /\ Exists(u) /\ u # by
  /\ ~Escalates(Authority(by), Authority(u))
  /\ "groups" \in DOMAIN fields =>
       /\ \A g \in fields.groups : group[g].exists
       /\ ~Escalates(Authority(by), GroupsAuthority(group, fields.groups))
  /\ Guarded(s, [account EXCEPT ![u] = Over(fields, account[u])], group, OnUser(by, u, fields))

DeleteUser(s, by, u) ==
  /\ Exists(u) /\ u # by
  /\ ~Escalates(Authority(by), Authority(u))
  /\ Guarded(s, [account EXCEPT ![u] = NoAccount], group, OnUser(by, u, NoAccount))

CreateGroup(s, by, g, fields) ==
  /\ ~group[g].exists
  /\ ~Escalates(Authority(by), GroupsAuthority([group EXCEPT ![g] = Over(fields, group[g])], {g}))
  /\ Guarded(s, account, group,
       OnGroup(by, g, [exists |-> TRUE, grants |-> fields.grants, scope |-> fields.scope]))

UpdateGroup(s, by, g, fields) ==
  /\ group[g].exists /\ g # Admins
  /\ ~Escalates(Authority(by), GroupsAuthority(group, {g}))
  /\ LET rows == [group EXCEPT ![g] = Over(fields, group[g])]
     IN  /\ ~Escalates(Authority(by), GroupsAuthority(rows, {g}))
         /\ Guarded(s, account, rows, OnGroup(by, g, fields))

DeleteGroup(s, by, g) ==
  /\ group[g].exists /\ g # Admins
  /\ ~Escalates(Authority(by), GroupsAuthority(group, {g}))
  /\ Guarded(s, [u \in Users |-> [account[u] EXCEPT !.groups = account[u].groups \ {g}]], group,
       OnGroup(by, g, [exists |-> FALSE]))

Kept(gs, rows) == {g \in gs : rows[g].exists}

\* Memberships of a group, or links of an account, that goes go with it.
WriteCommit(s) ==
  /\ Is(s, "write")
  /\ LET r == request[s]
     IN  IF "user" \in DOMAIN r
         THEN /\ "exists" \in DOMAIN r.fields \/ Exists(r.user)
              /\ "groups" \in DOMAIN r.fields => \A g \in r.fields.groups : group[g].exists
              /\ account' = [account EXCEPT ![r.user] = Over(r.fields, account[r.user])]
              /\ link' = [l \in Links |->
                   IF l \in LiveLinks(r.user) /\ ~account'[r.user].exists
                   THEN [link[l] EXCEPT !.status = "gone"] ELSE link[l]]
              /\ guesses' = [u \in Users |-> IF account'[u].exists THEN guesses[u] ELSE 0]
              /\ UNCHANGED group
         ELSE /\ "exists" \in DOMAIN r.fields \/ group[r.group].exists
              /\ group' = [group EXCEPT ![r.group] = Over(r.fields, group[r.group])]
              /\ account' = [u \in Users |->
                   [account[u] EXCEPT !.groups = Kept(account[u].groups, group')]]
              /\ UNCHANGED <<link, guesses>>
  /\ End(s)
  /\ overtaken' = {x \in Slots \ {s} : request[x].kind \in {"write", "password"}}
  /\ UNCHANGED <<now, hits, allowed>>

\* A request fails before its commit.
Abort(s) ==
  /\ request[s] # Free
  /\ guesses' = IF Is(s, "login") THEN [guesses EXCEPT ![request[s].user] = 0] ELSE guesses
  /\ End(s) /\ overtaken' = overtaken \ {s}
  /\ UNCHANGED <<now, account, group, link, hits, allowed>>

\* A request is answered within a unit of time.
Tick ==
  /\ now < MaxTime
  /\ \A s \in Slots : request[s] = Free
  /\ now' = now + 1
  /\ UNCHANGED <<account, group, link, hits, request, allowed, guesses, overtaken, load>>

GroupFields == [grants : SUBSET Catalogue, scope : SUBSET Places]
UserFields  == [groups : SUBSET Groups] \cup [active : BOOLEAN]

Administer(s) ==
  \E by \in {u \in Users : MayWrite(u)} :
    \/ \E u \in Users : \/ \E gs \in SUBSET Groups : CreateUser(s, by, u, gs)
                        \/ \E fields \in UserFields : UpdateUser(s, by, u, fields)
                        \/ DeleteUser(s, by, u)
    \/ \E g \in Groups :
         \/ \E fields \in GroupFields : CreateGroup(s, by, g, fields) \/ UpdateGroup(s, by, g, fields)
         \/ DeleteGroup(s, by, g)

Next ==
  \/ Tick \/ PurgeLinks
  \/ \E s \in Slots :
       \/ \E a \in Addresses, u \in Users :
            RequestLink(s, a, u) \/ \E right \in BOOLEAN : Login(s, a, u, right)
       \/ \E l \in Links : ConfirmReset(s, l)
       \/ \E u \in Users : \/ ChangePassword(s, u)
                           \/ \E by \in {x \in Users : MayWrite(x)} : ResetPassword(s, by, u)
       \/ s \in AdminSlots /\ Administer(s)
       \/ LoginCommit(s) \/ RequestLinkCommit(s) \/ PasswordCommit(s) \/ WriteCommit(s)
       \/ Abort(s)

Spec == Init /\ [][Next]_vars
-----------------------------------------------------------------------------
TypeOK ==
  /\ now \in 1 .. MaxTime /\ load \in 0 .. MaxLoad
  /\ account \in [Users -> [exists : BOOLEAN, active : BOOLEAN, groups : SUBSET Groups,
                            password : Nat, attempts : 0 .. MaxFailed,
                            locked : 0 .. MaxTime + LockTime]]
  /\ group \in [Groups -> [exists : BOOLEAN, grants : SUBSET Catalogue, scope : SUBSET Places]]
  /\ group[Admins].exists
  /\ \A u \in Users : /\ account[u].active => account[u].exists
                      /\ \A g \in account[u].groups : group[g].exists
  /\ \A l \in Links : /\ link[l].status \in {"none", "live", "used", "gone"}
                      /\ link[l].status \in {"live", "used"} => Exists(link[l].user)
  /\ \A s \in Slots : request[s].kind \in {"free", "login", "link", "confirm", "password",
                                            "write", "refused"}

(* In no window does a limiter let more attempts of one address through    *)
(* than its budget, wherever the window falls and whatever the sweep       *)
(* forgets (core/ratelimit.py:35).                                         *)
RateBounded ==
  \A f \in Surfaces, a \in Addresses : \A t \in 1 .. now :
    Cardinality({i \in DOMAIN allowed[f][a] : allowed[f][a][i] \in t - Window + 1 .. t})
      <= MaxHits[f]

(* Failures that overlap count for one; but those that follow one another, *)
(* each alone on its account, lock it at the last allowed, whatever other  *)
(* changes to the account they meet (user/crud.py:108).                    *)
SerialGuessesLock == \A u \in Users : guesses[u] <= MaxFailed

(* A link serves once, and an account has one; requests that overlap can   *)
(* make it serve, or exist, as often as they are many (user/crud.py:178).  *)
LinksHold ==
  /\ TypeOK
  /\ \A l \in Links : link[l].uses <= Cardinality(Slots)
  /\ \A u \in Users : Cardinality({l \in LiveLinks(u) : link[l].status = "live"})
                        <= Cardinality(Slots)

(* "No change may leave the console without an active account able to      *)
(* manage accounts", by way of an account or of a group (users.py:6).      *)
Managed == Holding(account, group) # {}

(* What an account that is not an administrator's changes: it gives nobody *)
(* what it does not hold, nor takes that from anybody, and leaves alone    *)
(* the activity and the password of whoever holds more (users.py:13),      *)
(* unless accounts or groups were written between its reading and its own  *)
(* commit, which is on the authorities as it read them.                    *)
Reaches(me, u) ==
  LET was == Authority(u)
      is  == GroupsAuthority(group', account'[u].groups)
  IN  /\ is.permissions \subseteq was.permissions \cup me.permissions
      /\ is.scope \subseteq was.scope \cup me.scope
      /\ is.admin = was.admin
      /\ was.permissions \ is.permissions \subseteq me.permissions
      /\ Escalates(me, was) => /\ account'[u].password = account[u].password
                               /\ account'[u].active = account[u].active

NoEscalation ==
  [][\A s \in Slots :
       (/\ request[s].kind \in {"write", "password"} /\ s \notin overtaken
        /\ request[s].by # None /\ request'[s] = Free)
         => (Authority(request[s].by).admin
               \/ \A u \in Users : Reaches(Authority(request[s].by), u))]_vars
=============================================================================
