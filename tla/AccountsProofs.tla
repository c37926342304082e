----------------------------- MODULE AccountsProofs -----------------------------
(***************************************************************************)
(* The theorems of Accounts, for any accounts, groups, addresses, budgets  *)
(* and requests that overlap.                                              *)
(*                                                                         *)
(* Their inductive invariant has four parts.  Rows: their columns, and     *)
(* what each request keeps from when it read them.  Guesses: wrong         *)
(* passwords in a row are in the account's counter, or in the one login    *)
(* that is to write it.  Links: the requests at work leave room for the    *)
(* links they will make and the uses they will count.  Rates: what a       *)
(* limiter remembers is the end of what it let through, and what it forgot *)
(* is out of the window.  Another invariant, of rights, is kept beside it: *)
(* what the guards of a request found stands until rights are written.     *)
(***************************************************************************)
EXTENDS Accounts, FiniteSetTheorems, WellFoundedInduction, TLAPS

(***************************************************************************)
(* The invariants.                                                         *)
(***************************************************************************)
Failures == 0 .. MaxFailed - 1
Locks    == 0 .. MaxTime + LockTime

AccountRow == [exists : BOOLEAN, active : BOOLEAN, groups : SUBSET Groups, password : Nat,
               attempts : Failures, locked : Locks]
GroupRow   == [exists : BOOLEAN, grants : SUBSET Catalogue, scope : SUBSET Places]
LinkRow    == [status : {"none", "live", "used", "gone"}, user : Users \cup {None},
               expires : Nat, used : Nat, uses : Nat]

\* The requests, by what they keep of what they read.
LoginForm    == [kind : {"login"}, user : Users,
                 verdict : {"refused", "locked", "right", "locks", "wrong"},
                 attempts : Failures, locked : Locks, at : 1 .. MaxTime]
LinkForm     == [kind : {"link"}, user : Users, drop : SUBSET Links, at : 1 .. MaxTime]
ConfirmForm  == [kind : {"confirm"}, link : Links, user : Users, by : {None}, at : 1 .. MaxTime]
PasswordForm == [kind : {"password"}, user : Users, by : Users \cup {None}, at : 1 .. MaxTime]

UserChange  == [exists : {TRUE}, active : {TRUE}, groups : SUBSET Groups]
                 \cup [groups : SUBSET Groups] \cup [active : BOOLEAN] \cup {NoAccount}
GroupChange == [exists : {TRUE}, grants : SUBSET Catalogue, scope : SUBSET Places]
                 \cup [grants : SUBSET Catalogue, scope : SUBSET Places] \cup [exists : {FALSE}]

UserForm  == [kind : {"write"}, by : Users, user : Users, fields : UserChange]
GroupForm == [kind : {"write"}, by : Users, group : Groups \ {Admins}, fields : GroupChange]

Form == {Free, [kind |-> "refused"]} \cup LoginForm \cup LinkForm \cup ConfirmForm
          \cup PasswordForm \cup UserForm \cup GroupForm

Shape ==
  /\ now \in 1 .. MaxTime /\ load \in 0 .. MaxLoad
  /\ account \in [Users -> AccountRow] /\ group \in [Groups -> GroupRow]
  /\ link \in [Links -> LinkRow] /\ guesses \in [Users -> Nat]
  /\ request \in [Slots -> Form]

Whole ==
  /\ group[Admins].exists
  /\ \A u \in Users : /\ account[u].active => account[u].exists
                      /\ \A g \in account[u].groups : group[g].exists
  /\ \A l \in Links : link[l].status \in {"live", "used"} =>
       link[l].user \in Users /\ account[link[l].user].exists

\* The logins of an account that are under way, and those that will count a failure.
Logins(u)   == {s \in Slots : request[s].kind = "login" /\ request[s].user = u}
Failing(u)  == {s \in Logins(u) : request[s].verdict \in {"wrong", "locks"}}

GuessesInv ==
  /\ \A s \in Slots : (request[s].kind = "login" /\ request[s].verdict = "wrong") =>
       request[s].attempts + 1 < MaxFailed
  /\ \A u \in Users :
       /\ \A s \in Failing(u) : guesses[u] <= request[s].attempts + 1
       /\ Failing(u) = {} => guesses[u] <= account[u].attempts
       /\ \A s, x \in Logins(u) : s # x => guesses[u] = 0
       /\ ~account[u].exists => guesses[u] = 0

\* The requests that confirm by a link, and the live links of an account.
Confirms(req, l) == {s \in Slots : req[s].kind = "confirm" /\ req[s].link = l}
Live(rows, u)    == {l \in Links : rows[l].user = u /\ rows[l].status = "live"}

\* The requests for a link of u that read none of ls.
Behind(req, u, ls) ==
  {s \in Slots : req[s].kind = "link" /\ req[s].user = u /\ req[s].drop \cap ls = {}}

UsesInv ==
  \A l \in Links :
    /\ link[l].status \in {"none", "live"} => link[l].uses = 0
    /\ link[l].uses + Cardinality(Confirms(request, l)) <= Cardinality(Slots)
    /\ \A s \in Confirms(request, l) :
         link[l].status # "none" /\ link[l].user = request[s].user

Room(rows, req) ==
  \A u \in Users : \A ls \in SUBSET Live(rows, u) :
    ls # {} => Cardinality(ls) + Cardinality(Behind(req, u, ls)) <= Cardinality(Slots)

LinksInv == UsesInv /\ Room(link, request)

\* What a limiter remembers of an address is the end of what it let through.
EndOf(log, h) ==
  /\ Len(h) <= Len(log)
  /\ \A i \in 1 .. Len(h) : h[i] = log[Len(log) - Len(h) + i]
  /\ \A i \in 1 .. Len(log) - Len(h) : log[i] <= now - Window

Spaced(log, most) ==
  \A i \in 1 .. Len(log) : i + most <= Len(log) => log[i] + Window <= log[i + most]

Ordered(log) ==
  /\ \A i \in 1 .. Len(log) : log[i] <= now
  /\ \A i, j \in 1 .. Len(log) : i <= j => log[i] <= log[j]

RatesInv ==
  /\ hits \in [Surfaces -> [Addresses -> Seq(Nat)]]
  /\ allowed \in [Surfaces -> [Addresses -> Seq(Nat)]]
  /\ \A f \in Surfaces, a \in Addresses :
       /\ EndOf(allowed[f][a], hits[f][a])
       /\ Ordered(allowed[f][a]) /\ Spaced(allowed[f][a], MaxHits[f])

IInv == Shape /\ Whole /\ GuessesInv /\ LinksInv /\ RatesInv

(***************************************************************************)
(* Numbers.                                                                *)
(***************************************************************************)
LEMMA Parameters ==
  /\ Window \in Nat /\ MaxKeys \in Nat /\ LockTime \in Nat /\ LinkTtl \in Nat /\ LinkGrace \in Nat
  /\ MaxLoad \in Nat /\ MaxFailed \in Nat \ {0} /\ MaxTime \in Nat \ {0}
  /\ MaxHits \in [Surfaces -> Nat \ {0}]
  /\ Load \in [{"login", "link", "write"} -> Nat \ {0}]
  /\ Cardinality(Slots) \in Nat
BY AccountsAssumption, FS_CardinalityType

LEMMA LeastNumber ==
  ASSUME NEW T \in SUBSET Nat, T # {}
  PROVE  \E n \in T : \A i \in T : n <= i
<1> DEFINE R == OpToRel(<, Nat)
<1>1. IsWellFoundedOn(R, Nat)
  BY NatLessThanWellFounded
<1>2. \A i, n \in Nat : i < n => <<i, n>> \in R
  BY DEF OpToRel
<1>3. \E n \in T : \A i \in T : ~(<<i, n>> \in R)
  <2> HIDE DEF R
  <2> QED  BY <1>1, WFMin
<1>4. \A i \in T, n \in T : n <= i \/ i < n
  OBVIOUS
<1> HIDE DEF R
<1> QED  BY <1>2, <1>3, <1>4

(***************************************************************************)
(* The rate limiters.                                                      *)
(***************************************************************************)

(* What popping the old attempts leaves: the end of the deque from the     *)
(* first that is recent.                                                   *)
LEMMA RecentIs ==
  ASSUME NEW s \in Seq(Nat), now \in Nat
  PROVE  /\ Recent(s) \in Seq(Nat)
         /\ \E n \in 0 .. Len(s) :
              /\ Len(Recent(s)) = Len(s) - n
              /\ \A i \in 1 .. Len(s) - n : Recent(s)[i] = s[n + i]
              /\ \A i \in 1 .. n : s[i] <= now - Window
<1> DEFINE Ends(n) == /\ \A i \in 1 .. n : s[i] <= now - Window
                      /\ n < Len(s) => s[n + 1] > now - Window
           T == {n \in 0 .. Len(s) : n < Len(s) => s[n + 1] > now - Window}
           old == CHOOSE n \in 0 .. Len(s) : Ends(n)
<1>1. Len(s) \in Nat /\ Window \in Nat /\ \A i \in 1 .. Len(s) : s[i] \in Nat
  BY Parameters
<1>2. \E n \in 0 .. Len(s) : Ends(n)
  <2>1. T \in SUBSET Nat /\ Len(s) \in T
    BY <1>1
  <2> HIDE DEF T
  <2>2. PICK n \in T : \A i \in T : n <= i
    BY <2>1, LeastNumber
  <2>3. n \in 0 .. Len(s) /\ (n < Len(s) => s[n + 1] > now - Window)
    BY <2>2 DEF T
  <2>4. ASSUME NEW i \in 1 .. n
        PROVE  s[i] <= now - Window
    <3>1. i - 1 \in 0 .. Len(s) /\ i - 1 < n /\ i - 1 < Len(s) /\ (i - 1) + 1 = i
      BY <1>1, <2>3
    <3>2. i - 1 \notin T
      BY <2>2, <2>3, <3>1
    <3>3. ~(s[i] > now - Window)
      BY <3>1, <3>2 DEF T
    <3>4. s[i] \in Nat
      BY <1>1, <2>3
    <3> QED  BY <1>1, <3>3, <3>4
  <2> QED  BY <2>3, <2>4
<1>3. old \in 0 .. Len(s) /\ Ends(old)
  BY <1>2
<1>4. Recent(s) = SubSeq(s, old + 1, Len(s))
  BY DEF Recent
<1>5. \A i \in 1 .. old : s[i] <= now - Window
  BY <1>3
<1> HIDE DEF old
<1>6. /\ Recent(s) \in Seq(Nat) /\ Len(Recent(s)) = Len(s) - old
      /\ \A i \in 1 .. Len(s) - old : Recent(s)[i] = s[old + i]
  BY <1>1, <1>3, <1>4
<1> QED  BY <1>3, <1>5, <1>6

LEMMA RecentEnds ==
  ASSUME NEW log \in Seq(Nat), NEW h \in Seq(Nat), now \in Nat, EndOf(log, h)
  PROVE  Recent(h) \in Seq(Nat) /\ EndOf(log, Recent(h))
<1> DEFINE r == Recent(h)
<1>1. r \in Seq(Nat)
  BY RecentIs
<1>2. PICK n \in 0 .. Len(h) : /\ Len(r) = Len(h) - n
                               /\ \A i \in 1 .. Len(h) - n : r[i] = h[n + i]
                               /\ \A i \in 1 .. n : h[i] <= now - Window
  BY RecentIs
<1>3. /\ Len(log) \in Nat /\ Len(h) \in Nat /\ Len(h) <= Len(log)
      /\ \A i \in 1 .. Len(h) : h[i] = log[Len(log) - Len(h) + i]
      /\ \A i \in 1 .. Len(log) - Len(h) : log[i] <= now - Window
  BY DEF EndOf
<1> HIDE DEF r
<1>4. Len(r) <= Len(log)
  BY <1>2, <1>3
<1>5. ASSUME NEW i \in 1 .. Len(r)
      PROVE  r[i] = log[Len(log) - Len(r) + i]
  <2>1. n + i \in 1 .. Len(h) /\ r[i] = h[n + i]
    BY <1>2, <1>3
  <2>2. Len(log) - Len(h) + (n + i) = Len(log) - Len(r) + i
    BY <1>2, <1>3, <2>1
  <2> QED  BY <1>3, <2>1, <2>2
<1>6. ASSUME NEW i \in 1 .. Len(log) - Len(r)
      PROVE  log[i] <= now - Window
  <2>1. CASE i <= Len(log) - Len(h)
    BY <1>3, <2>1
  <2>2. CASE ~(i <= Len(log) - Len(h))
    <3> DEFINE j == i - (Len(log) - Len(h))
    <3>1. j \in 1 .. n /\ j \in 1 .. Len(h) /\ Len(log) - Len(h) + j = i
      BY <1>2, <1>3, <2>2
    <3> HIDE DEF j
    <3>2. h[j] <= now - Window /\ h[j] = log[Len(log) - Len(h) + j]
      BY <1>2, <1>3, <3>1
    <3> QED  BY <3>1, <3>2
  <2> QED  BY <2>1, <2>2
<1>7. EndOf(log, r)
  BY <1>4, <1>5, <1>6 DEF EndOf
<1> QED  BY <1>1, <1>7 DEF r

LEMMA AppendEnds ==
  ASSUME NEW log \in Seq(Nat), NEW h \in Seq(Nat), now \in Nat, EndOf(log, h)
  PROVE  EndOf(Append(log, now), Append(h, now))
<1> DEFINE L == Append(log, now)
           H == Append(h, now)
<1>1. /\ Len(log) \in Nat /\ Len(h) \in Nat /\ Len(h) <= Len(log)
      /\ \A i \in 1 .. Len(h) : h[i] = log[Len(log) - Len(h) + i]
      /\ \A i \in 1 .. Len(log) - Len(h) : log[i] <= now - Window
  BY DEF EndOf
<1>2. /\ Len(L) = Len(log) + 1 /\ L[Len(log) + 1] = now
      /\ \A i \in 1 .. Len(log) : L[i] = log[i]
  BY <1>1
<1>3. /\ Len(H) = Len(h) + 1 /\ H[Len(h) + 1] = now
      /\ \A i \in 1 .. Len(h) : H[i] = h[i]
  BY <1>1
<1> HIDE DEF L, H
<1>4. ASSUME NEW i \in 1 .. Len(H)
      PROVE  H[i] = L[Len(L) - Len(H) + i]
  <2>1. CASE i \in 1 .. Len(h)
    <3>1. Len(L) - Len(H) + i = Len(log) - Len(h) + i /\ Len(log) - Len(h) + i \in 1 .. Len(log)
      BY <1>1, <1>2, <1>3, <2>1
    <3> QED  BY <1>1, <1>2, <1>3, <2>1, <3>1
  <2>2. CASE i = Len(h) + 1
    <3>1. Len(L) - Len(H) + i = Len(log) + 1
      BY <1>1, <1>2, <1>3, <2>2
    <3> QED  BY <1>2, <1>3, <2>2, <3>1
  <2> QED  BY <1>1, <1>3, <2>1, <2>2
<1>5. ASSUME NEW i \in 1 .. Len(L) - Len(H)
      PROVE  L[i] <= now - Window
  <2>1. i \in 1 .. Len(log) - Len(h) /\ i \in 1 .. Len(log)
    BY <1>1, <1>2, <1>3
  <2> QED  BY <1>1, <1>2, <2>1
<1>6. Len(H) <= Len(L)
  BY <1>1, <1>2, <1>3
<1>7. EndOf(L, H)
  BY <1>4, <1>5, <1>6 DEF EndOf
<1> QED  BY <1>7 DEF L, H

(* Letting one more through where the last window has room keeps any       *)
(* attempt a window away from the one a budget before it.                  *)
LEMMA SpacedStill ==
  ASSUME NEW log \in Seq(Nat), NEW h \in Seq(Nat), now \in Nat, NEW most \in Nat \ {0},
         EndOf(log, h), Len(h) < most, Ordered(log), Spaced(log, most)
  PROVE  Ordered(Append(log, now)) /\ Spaced(Append(log, now), most)
<1> DEFINE L == Append(log, now)
<1>1. /\ Len(log) \in Nat /\ Len(h) \in Nat /\ Len(h) <= Len(log) /\ Window \in Nat
      /\ \A i \in 1 .. Len(log) - Len(h) : log[i] <= now - Window
      /\ \A i \in 1 .. Len(log) : log[i] \in Nat
  BY Parameters DEF EndOf
<1>2. /\ Len(L) = Len(log) + 1 /\ L[Len(log) + 1] = now
      /\ \A i \in 1 .. Len(log) : L[i] = log[i]
  BY <1>1
<1>3. /\ \A i \in 1 .. Len(log) : log[i] <= now
      /\ \A i, j \in 1 .. Len(log) : i <= j => log[i] <= log[j]
      /\ \A i \in 1 .. Len(log) : i + most <= Len(log) => log[i] + Window <= log[i + most]
  BY DEF Ordered, Spaced
<1> HIDE DEF L
<1>4. \A i \in 1 .. Len(L) : i = Len(log) + 1 \/ i \in 1 .. Len(log)
  BY <1>1, <1>2
<1>5. Ordered(L)
  <2>1. \A i \in 1 .. Len(L) : L[i] <= now
    BY <1>2, <1>3, <1>4
  <2>2. ASSUME NEW i \in 1 .. Len(L), NEW j \in 1 .. Len(L), i <= j
        PROVE  L[i] <= L[j]
    <3>1. CASE j = Len(log) + 1
      BY <1>2, <2>1, <3>1
    <3>2. CASE j \in 1 .. Len(log)
      BY <1>1, <1>2, <1>3, <2>2, <3>2
    <3> QED  BY <1>4, <3>1, <3>2
  <2> QED  BY <2>1, <2>2 DEF Ordered
<1>6. ASSUME NEW i \in 1 .. Len(L), i + most <= Len(L)
      PROVE  L[i] + Window <= L[i + most]
  <2>1. i \in 1 .. Len(log) /\ i + most \in 1 .. Len(L)
    BY <1>1, <1>2, <1>6
  <2>2. CASE i + most = Len(log) + 1
    <3>1. i \in 1 .. Len(log) - Len(h)
      BY <1>1, <2>1, <2>2
    <3>2. log[i] <= now - Window /\ L[i] = log[i] /\ L[i + most] = now /\ log[i] \in Nat
      BY <1>1, <1>2, <2>1, <2>2, <3>1
    <3> QED  BY <1>1, <3>2
  <2>3. CASE i + most \in 1 .. Len(log)
    BY <1>2, <1>3, <2>1, <2>3
  <2> QED  BY <1>4, <2>1, <2>2, <2>3
<1>7. Spaced(L, most)
  BY <1>6 DEF Spaced
<1> QED  BY <1>5, <1>7 DEF L

(* Attempts so spaced are in no window more than the budget.               *)
LEMMA Windowed ==
  ASSUME NEW log \in Seq(Nat), Ordered(log), NEW most \in Nat \ {0}, Spaced(log, most),
         NEW t \in Nat
  PROVE  Cardinality({i \in DOMAIN log : log[i] \in t - Window + 1 .. t}) <= most
<1> DEFINE I == {i \in DOMAIN log : log[i] \in t - Window + 1 .. t}
<1>1. /\ DOMAIN log = 1 .. Len(log) /\ Len(log) \in Nat /\ Window \in Nat
      /\ \A i \in 1 .. Len(log) : log[i] \in Nat
  BY Parameters
<1>2. CASE I = {}
  <2>1. Cardinality({}) = 0
    BY FS_EmptySet
  <2> HIDE DEF I
  <2>2. Cardinality(I) <= most
    BY <1>2, <2>1
  <2> QED  BY <2>2 DEF I
<1>3. CASE I # {}
  <2>1. I \in SUBSET Nat /\ \A i \in I : i \in 1 .. Len(log) /\ log[i] \in t - Window + 1 .. t
    BY <1>1
  <2> HIDE DEF I
  <2>2. PICK m \in I : \A i \in I : m <= i
    BY <1>3, <2>1, LeastNumber
  <2>3. m \in Nat /\ m \in 1 .. Len(log) /\ log[m] >= t - Window + 1 /\ log[m] \in Nat
    BY <1>1, <2>1, <2>2
  <2>4. ASSUME NEW i \in I
        PROVE  i \in m .. m + most - 1
    <3>1. i \in 1 .. Len(log) /\ log[i] <= t /\ m <= i /\ log[i] \in Nat
      BY <1>1, <2>1, <2>2
    <3>2. ASSUME i >= m + most
          PROVE  FALSE
      <4>1. m + most \in 1 .. Len(log)
        BY <2>3, <3>1, <3>2, <1>1
      <4>2. log[m] + Window <= log[m + most]
        BY <2>3, <4>1 DEF Spaced
      <4>3. log[m + most] <= log[i]
        BY <3>1, <3>2, <4>1 DEF Ordered
      <4>4. log[m + most] \in Nat
        BY <1>1, <4>1
      <4> QED  BY <1>1, <2>3, <3>1, <4>2, <4>3, <4>4
    <3> QED  BY <2>3, <3>1, <3>2
  <2>5. m \in Int /\ m + most - 1 \in Int /\ m <= m + most - 1
    BY <2>3
  <2>6. /\ IsFiniteSet(m .. m + most - 1)
        /\ Cardinality(m .. m + most - 1) = most
    BY <2>5, FS_Interval
  <2>7. I \subseteq m .. m + most - 1
    BY <2>4
  <2>8. Cardinality(I) <= Cardinality(m .. m + most - 1)
    BY <2>6, <2>7, FS_Subset
  <2> QED  BY <2>6, <2>8 DEF I
<1> QED  BY <1>2, <1>3

\* The invariant, with what the limiters remember and let through given.
RatesOK(h, logs) ==
  /\ h \in [Surfaces -> [Addresses -> Seq(Nat)]]
  /\ logs \in [Surfaces -> [Addresses -> Seq(Nat)]]
  /\ \A f \in Surfaces, a \in Addresses :
       /\ EndOf(logs[f][a], h[f][a])
       /\ Ordered(logs[f][a]) /\ Spaced(logs[f][a], MaxHits[f])

LEMMA RatesNext ==
  ASSUME now' = now, RatesOK(hits', allowed')
  PROVE  RatesInv'
BY DEF RatesOK, RatesInv, EndOf, Ordered, Spaced

LEMMA HitKept ==
  ASSUME RatesInv, now \in Nat, NEW f \in Surfaces, NEW a \in Addresses, Allows(f, a), Hit(f, a),
         now' = now
  PROVE  RatesInv'
<1> DEFINE h == hits[f]
           log == allowed[f]
           H == [h EXCEPT ![a] = Append(Recent(h[a]), now)]
           G == [log EXCEPT ![a] = Append(log[a], now)]
           W == Swept(f, H)
<1>1. /\ hits \in [Surfaces -> [Addresses -> Seq(Nat)]]
      /\ allowed \in [Surfaces -> [Addresses -> Seq(Nat)]]
      /\ h \in [Addresses -> Seq(Nat)] /\ log \in [Addresses -> Seq(Nat)]
      /\ \A x \in Addresses : /\ EndOf(log[x], h[x])
                              /\ Ordered(log[x]) /\ Spaced(log[x], MaxHits[f])
      /\ MaxHits[f] \in Nat \ {0}
  BY Parameters DEF RatesInv
<1>2. hits' = [hits EXCEPT ![f] = W] /\ allowed' = [allowed EXCEPT ![f] = G]
  BY DEF Hit
<1>3. Len(Recent(h[a])) < MaxHits[f]
  BY DEF Allows
<1>4. Recent(h[a]) \in Seq(Nat) /\ EndOf(log[a], Recent(h[a]))
  BY <1>1, RecentEnds
<1>5. /\ Append(Recent(h[a]), now) \in Seq(Nat) /\ Append(log[a], now) \in Seq(Nat)
      /\ EndOf(Append(log[a], now), Append(Recent(h[a]), now))
      /\ Ordered(Append(log[a], now)) /\ Spaced(Append(log[a], now), MaxHits[f])
  <2> DEFINE r == Recent(h[a])
             l == log[a]
  <2>1. r \in Seq(Nat) /\ l \in Seq(Nat) /\ EndOf(l, r) /\ Len(r) < MaxHits[f]
        /\ Ordered(l) /\ Spaced(l, MaxHits[f])
    BY <1>1, <1>3, <1>4
  <2> HIDE DEF r, l
  <2>2. EndOf(Append(l, now), Append(r, now))
    BY <2>1, AppendEnds
  <2>3. Ordered(Append(l, now)) /\ Spaced(Append(l, now), MaxHits[f])
    BY <1>1, <2>1, SpacedStill
  <2>4. Append(r, now) \in Seq(Nat) /\ Append(l, now) \in Seq(Nat)
    BY <2>1
  <2> QED  BY <2>2, <2>3, <2>4 DEF r, l
<1>6. /\ G \in [Addresses -> Seq(Nat)] /\ H \in [Addresses -> Seq(Nat)]
      /\ \A x \in Addresses : EndOf(G[x], H[x]) /\ Ordered(G[x]) /\ Spaced(G[x], MaxHits[f])
  <2>1. /\ G[a] = Append(log[a], now) /\ H[a] = Append(Recent(h[a]), now)
        /\ \A x \in Addresses \ {a} : G[x] = log[x] /\ H[x] = h[x]
        /\ G \in [Addresses -> Seq(Nat)] /\ H \in [Addresses -> Seq(Nat)]
    BY <1>1, <1>5
  <2> HIDE DEF G, H, h, log
  <2> QED  BY <1>1, <1>5, <2>1
<1> HIDE DEF G, H
<1>7. W \in [Addresses -> Seq(Nat)] /\ \A x \in Addresses : EndOf(G[x], W[x])
  <2>1. \A x \in Addresses : Recent(H[x]) \in Seq(Nat) /\ EndOf(G[x], Recent(H[x]))
    BY <1>6, RecentEnds
  <2>2. W = H \/ W = [x \in Addresses |-> Recent(H[x])]
    BY DEF Swept
  <2> HIDE DEF W
  <2> QED  BY <1>6, <2>1, <2>2
<1> HIDE DEF W
<1>8. RatesOK(hits', allowed')
  <2>1. /\ hits' \in [Surfaces -> [Addresses -> Seq(Nat)]]
        /\ allowed' \in [Surfaces -> [Addresses -> Seq(Nat)]]
        /\ hits'[f] = W /\ allowed'[f] = G
        /\ \A e \in Surfaces \ {f} : hits'[e] = hits[e] /\ allowed'[e] = allowed[e]
    BY <1>1, <1>2, <1>6, <1>7
  <2>2. ASSUME NEW e \in Surfaces, NEW x \in Addresses
        PROVE  /\ EndOf(allowed'[e][x], hits'[e][x])
               /\ Ordered(allowed'[e][x]) /\ Spaced(allowed'[e][x], MaxHits[e])
    <3>1. CASE e = f
      BY <1>6, <1>7, <2>1, <3>1
    <3>2. CASE e # f
      BY <2>1, <3>2 DEF RatesInv
    <3> QED  BY <3>1, <3>2
  <2> QED  BY <2>1, <2>2 DEF RatesOK
<1> QED  BY <1>8, RatesNext

LEMMA RatesTick ==
  ASSUME RatesInv, now \in Nat, now' = now + 1, UNCHANGED <<hits, allowed>>
  PROVE  RatesInv'
<1>1. Window \in Nat
  BY Parameters
<1>2. ASSUME NEW f \in Surfaces, NEW a \in Addresses
      PROVE  /\ EndOf(allowed[f][a], hits[f][a])'
             /\ Ordered(allowed[f][a])' /\ Spaced(allowed[f][a], MaxHits[f])'
  <2> DEFINE l == allowed[f][a]
             h == hits[f][a]
  <2>1. l \in Seq(Nat) /\ h \in Seq(Nat) /\ l' = l /\ h' = h
    BY DEF RatesInv
  <2>2. EndOf(l, h) /\ Ordered(l) /\ Spaced(l, MaxHits[f])
    BY DEF RatesInv
  <2>3. Len(l) \in Nat /\ Len(h) \in Nat /\ \A i \in 1 .. Len(l) : l[i] \in Nat
    BY <2>1
  <2> HIDE DEF l, h
  <2>4. EndOf(l, h)'
    <3>1. \A i \in 1 .. Len(l) - Len(h) : l[i] <= now' - Window
      BY <1>1, <2>2, <2>3 DEF EndOf
    <3> QED  BY <2>1, <2>2, <3>1 DEF EndOf
  <2>5. Ordered(l)'
    BY <2>1, <2>2, <2>3 DEF Ordered
  <2>6. Spaced(l, MaxHits[f])'
    BY <2>1, <2>2 DEF Spaced
  <2> QED  BY <2>4, <2>5, <2>6 DEF l, h
<1> QED  BY <1>2 DEF RatesInv

(* What the limiters let through of one address is in no window more than  *)
(* their budget (core/ratelimit.py:35).                                    *)
LEMMA RateBoundedHolds == IInv => RateBounded
<1> SUFFICES ASSUME IInv, NEW f \in Surfaces, NEW a \in Addresses, NEW t \in 1 .. now
             PROVE  Cardinality({i \in DOMAIN allowed[f][a] :
                                   allowed[f][a][i] \in t - Window + 1 .. t}) <= MaxHits[f]
  BY DEF RateBounded
<1>1. /\ allowed[f][a] \in Seq(Nat) /\ Ordered(allowed[f][a])
      /\ Spaced(allowed[f][a], MaxHits[f]) /\ MaxHits[f] \in Nat \ {0}
  BY Parameters DEF IInv, RatesInv
<1>2. t \in Nat
  OBVIOUS
<1> QED  BY <1>1, <1>2, Windowed

(***************************************************************************)
(* The requests.                                                           *)
(***************************************************************************)
LEMMA FormFacts ==
  ASSUME NEW r \in Form
  PROVE  /\ r.kind \in {"free", "refused", "login", "link", "confirm", "password", "write"}
         /\ r.kind = "free" => r = Free
         /\ r.kind = "login" => r \in LoginForm
         /\ r.kind = "link" => r \in LinkForm
         /\ r.kind = "confirm" => r \in ConfirmForm
         /\ r.kind = "password" => r \in PasswordForm
         /\ r.kind = "write" => r \in UserForm \/ r \in GroupForm
<1>1. CASE r \in {Free, [kind |-> "refused"]}
  BY <1>1 DEF Free
<1>2. CASE r \in LoginForm
  BY <1>2 DEF LoginForm
<1>3. CASE r \in LinkForm
  BY <1>3 DEF LinkForm
<1>4. CASE r \in ConfirmForm
  BY <1>4 DEF ConfirmForm
<1>5. CASE r \in PasswordForm
  BY <1>5 DEF PasswordForm
<1>6. CASE r \in UserForm
  BY <1>6 DEF UserForm
<1>7. CASE r \in GroupForm
  BY <1>7 DEF GroupForm
<1> QED  BY <1>1, <1>2, <1>3, <1>4, <1>5, <1>6, <1>7 DEF Form

LEMMA FreeForm == Free \in Form /\ Free.kind = "free"
BY DEF Form, Free

LEMMA WriteFacts ==
  /\ \A r \in UserForm : /\ "user" \in DOMAIN r /\ r.kind = "write" /\ r.user \in Users
                         /\ r.fields \in UserChange
  /\ \A r \in GroupForm : /\ "user" \notin DOMAIN r /\ r.kind = "write"
                          /\ r.group \in Groups \ {Admins} /\ r.fields \in GroupChange
BY DEF UserForm, GroupForm

LEMMA Begun ==
  ASSUME Shape, NEW s \in Slots, NEW class \in {"login", "link", "write"}, NEW r \in Form,
         Begin(s, class, r)
  PROVE  /\ request[s] = Free /\ request' \in [Slots -> Form] /\ request'[s] = r
         /\ \A x \in Slots \ {s} : request'[x] = request[x]
         /\ load' \in 0 .. MaxLoad
<1>1. request[s] = Free /\ load' = load + Load[class] /\ load' <= MaxLoad
      /\ request' = [request EXCEPT ![s] = r]
  BY DEF Begin
<1>2. load \in 0 .. MaxLoad /\ request \in [Slots -> Form]
  BY DEF Shape
<1>3. Load[class] \in Nat /\ MaxLoad \in Nat
  BY Parameters
<1>4. load' \in 0 .. MaxLoad
  BY <1>1, <1>2, <1>3
<1> QED  BY <1>1, <1>2, <1>4

LEMMA Ended ==
  ASSUME Shape, NEW s \in Slots, End(s)
  PROVE  /\ request' \in [Slots -> Form] /\ request'[s] = Free
         /\ \A x \in Slots \ {s} : request'[x] = request[x]
         /\ load' \in 0 .. MaxLoad
BY FreeForm DEF Shape, End

(***************************************************************************)
(* What keeps each part.                                                   *)
(***************************************************************************)

(* Wrong passwords in a row: an account's start again, or are where they   *)
(* were, in its counter or in the logins that are to write it.             *)
LEMMA GuessesKept ==
  ASSUME Shape, GuessesInv, request' \in [Slots -> Form],
         \A x \in Slots : request'[x].kind = "login" => request'[x] = request[x],
         account' \in [Users -> AccountRow],
         \A u \in Users :
           \/ guesses'[u] = 0
           \/ /\ guesses'[u] = guesses[u] /\ (account[u].exists => account'[u].exists)
              /\ \/ guesses[u] <= account'[u].attempts
                 \/ /\ account'[u].attempts = account[u].attempts
                    /\ \A x \in Failing(u) : request'[x] = request[x]
  PROVE  GuessesInv'
<1>1. /\ guesses \in [Users -> Nat] /\ account \in [Users -> AccountRow]
      /\ request \in [Slots -> Form]
  BY DEF Shape
<1>2. ASSUME NEW x \in Slots, request'[x].kind = "login"
      PROVE  /\ request'[x] = request[x] /\ request[x].kind = "login"
             /\ request[x].attempts \in Nat
  <2>1. request'[x] = request[x]
    BY <1>2
  <2>2. request[x] \in LoginForm
    BY <1>1, <1>2, <2>1, FormFacts
  <2>3. MaxFailed \in Nat
    BY Parameters
  <2> QED  BY <1>2, <2>1, <2>2, <2>3 DEF LoginForm, Failures
<1>3. \A u \in Users : Logins(u)' \subseteq Logins(u) /\ Failing(u)' \subseteq Failing(u)
  BY <1>2 DEF Logins, Failing
<1>4. ASSUME NEW s \in Slots, request'[s].kind = "login" /\ request'[s].verdict = "wrong"
      PROVE  request'[s].attempts + 1 < MaxFailed
  <2>1. request'[s] = request[s]
    BY <1>2, <1>4
  <2> QED  BY <1>4, <2>1 DEF GuessesInv
<1>5. ASSUME NEW u \in Users, guesses'[u] = 0
      PROVE  /\ \A s \in Failing(u)' : guesses'[u] <= request'[s].attempts + 1
             /\ Failing(u)' = {} => guesses'[u] <= account'[u].attempts
             /\ \A s, x \in Logins(u)' : s # x => guesses'[u] = 0
             /\ ~account'[u].exists => guesses'[u] = 0
  <2>1. account'[u].attempts \in Nat
    BY Parameters DEF AccountRow, Failures
  <2>2. \A s \in Failing(u)' : request'[s].attempts \in Nat
    BY <1>2 DEF Logins, Failing
  <2> QED  BY <1>5, <2>1, <2>2
<1>6. ASSUME NEW u \in Users, guesses'[u] # 0
      PROVE  /\ \A s \in Failing(u)' : guesses'[u] <= request'[s].attempts + 1
             /\ Failing(u)' = {} => guesses'[u] <= account'[u].attempts
             /\ \A s, x \in Logins(u)' : s # x => guesses'[u] = 0
             /\ ~account'[u].exists => guesses'[u] = 0
  <2>1. /\ guesses'[u] = guesses[u] /\ (account[u].exists => account'[u].exists)
        /\ \/ guesses[u] <= account'[u].attempts
           \/ /\ account'[u].attempts = account[u].attempts
              /\ \A x \in Failing(u) : request'[x] = request[x]
    BY <1>6
  <2>2. /\ \A s \in Failing(u) : guesses[u] <= request[s].attempts + 1
        /\ Failing(u) = {} => guesses[u] <= account[u].attempts
        /\ \A s, x \in Logins(u) : s # x => guesses[u] = 0
        /\ ~account[u].exists => guesses[u] = 0
    BY DEF GuessesInv
  <2>3. \A s \in Failing(u)' : s \in Failing(u) /\ request'[s] = request[s]
    BY <1>2, <1>3 DEF Logins, Failing
  <2>4. ASSUME Failing(u)' = {}
        PROVE  guesses'[u] <= account'[u].attempts
    <3>1. CASE guesses[u] <= account'[u].attempts
      BY <2>1, <3>1
    <3>2. CASE /\ account'[u].attempts = account[u].attempts
               /\ \A x \in Failing(u) : request'[x] = request[x]
      <4>1. Failing(u) \subseteq Failing(u)'
        BY <3>2 DEF Failing, Logins
      <4> QED  BY <2>1, <2>2, <2>4, <3>2, <4>1
    <3> QED  BY <2>1, <3>1, <3>2
  <2> QED  BY <1>3, <2>1, <2>2, <2>3, <2>4
<1> QED  BY <1>4, <1>5, <1>6 DEF GuessesInv

LEMMA SlotsFinite ==
  ASSUME NEW A \in SUBSET Slots
  PROVE  /\ IsFiniteSet(A) /\ Cardinality(A) \in Nat /\ Cardinality(A) <= Cardinality(Slots)
         /\ \A B \in SUBSET A : Cardinality(B) \in Nat /\ Cardinality(B) <= Cardinality(A)
<1>1. IsFiniteSet(Slots)
  BY AccountsAssumption
<1>2. IsFiniteSet(A) /\ Cardinality(A) <= Cardinality(Slots)
  BY <1>1, FS_Subset
<1>3. \A B \in SUBSET A : IsFiniteSet(B) /\ Cardinality(B) <= Cardinality(A)
  BY <1>2, FS_Subset
<1> QED  BY <1>2, <1>3, FS_CardinalityType

LEMMA LinksFinite ==
  ASSUME NEW A \in SUBSET Links
  PROVE  IsFiniteSet(A) /\ Cardinality(A) \in Nat
<1>1. IsFiniteSet(Links)
  BY AccountsAssumption
<1> QED  BY <1>1, FS_Subset, FS_CardinalityType

(* The uses of a link: nothing is counted, and none comes to life again.   *)
LEMMA UsesKept ==
  ASSUME UsesInv, link \in [Links -> LinkRow],
         \A x \in Slots : request'[x].kind = "confirm" => request'[x] = request[x],
         \A l \in Links :
           /\ link'[l].uses = link[l].uses
           /\ link'[l].status \in {"none", "live"} => link[l].status \in {"none", "live"}
           /\ link[l].status # "none" =>
                link'[l].status # "none" /\ link'[l].user = link[l].user
  PROVE  UsesInv'
<1> SUFFICES ASSUME NEW l \in Links
             PROVE  /\ link'[l].status \in {"none", "live"} => link'[l].uses = 0
                    /\ link'[l].uses + Cardinality(Confirms(request', l)) <= Cardinality(Slots)
                    /\ \A s \in Confirms(request', l) :
                         link'[l].status # "none" /\ link'[l].user = request'[s].user
  BY DEF UsesInv
<1>1. /\ link[l].status \in {"none", "live"} => link[l].uses = 0
      /\ link[l].uses + Cardinality(Confirms(request, l)) <= Cardinality(Slots)
      /\ \A s \in Confirms(request, l) :
           link[l].status # "none" /\ link[l].user = request[s].user
      /\ link[l].uses \in Nat
  BY DEF UsesInv, LinkRow
<1>2. /\ Confirms(request', l) \in SUBSET Confirms(request, l)
      /\ \A s \in Confirms(request', l) : request'[s] = request[s]
  BY DEF Confirms
<1>3. Confirms(request, l) \in SUBSET Slots
  BY DEF Confirms
<1>4. /\ Cardinality(Confirms(request', l)) \in Nat /\ Cardinality(Confirms(request, l)) \in Nat
      /\ Cardinality(Confirms(request', l)) <= Cardinality(Confirms(request, l))
  BY <1>2, <1>3, SlotsFinite
<1>5. link'[l].uses + Cardinality(Confirms(request', l)) <= Cardinality(Slots)
  BY <1>1, <1>4, Parameters
<1> QED  BY <1>1, <1>2, <1>5

(* The links of an account: none more, and none asked for that was not.    *)
LEMMA RoomKept ==
  ASSUME Room(link, request),
         \A x \in Slots : request'[x].kind = "link" => request'[x] = request[x],
         \A l \in Links : link'[l].status = "live" =>
           link[l].status = "live" /\ link'[l].user = link[l].user
  PROVE  Room(link', request')
<1> SUFFICES ASSUME NEW u \in Users, NEW ls \in SUBSET Live(link', u), ls # {}
             PROVE  Cardinality(ls) + Cardinality(Behind(request', u, ls)) <= Cardinality(Slots)
  BY DEF Room
<1>1. ls \in SUBSET Live(link, u) /\ ls \in SUBSET Links
  BY DEF Live
<1>2. Cardinality(ls) + Cardinality(Behind(request, u, ls)) <= Cardinality(Slots)
  BY <1>1 DEF Room
<1>3. /\ Behind(request', u, ls) \in SUBSET Behind(request, u, ls)
      /\ Behind(request, u, ls) \in SUBSET Slots
  BY DEF Behind
<1>4. /\ Cardinality(Behind(request', u, ls)) \in Nat /\ Cardinality(Behind(request, u, ls)) \in Nat
      /\ Cardinality(Behind(request', u, ls)) <= Cardinality(Behind(request, u, ls))
  BY <1>3, SlotsFinite
<1>5. Cardinality(ls) \in Nat
  BY <1>1, LinksFinite
<1> QED  BY <1>2, <1>4, <1>5, Parameters

(***************************************************************************)
(* Requests that begin.                                                    *)
(***************************************************************************)
LEMMA RatesSame ==
  ASSUME RatesInv, UNCHANGED <<now, hits, allowed>>
  PROVE  RatesInv'
BY DEF RatesInv, EndOf, Ordered, Spaced

(* Only the rows of requests change, and no login begins.                  *)
LEMMA BegunElse ==
  ASSUME IInv, NEW s \in Slots, NEW class \in {"login", "link", "write"}, NEW r \in Form,
         r.kind \in {"refused", "link", "confirm", "password", "write"},
         Begin(s, class, r), UNCHANGED <<now, account, group, link, guesses>>
  PROVE  /\ Shape' /\ Whole' /\ GuessesInv'
         /\ r.kind # "confirm" => UsesInv'
         /\ r.kind # "link" => Room(link', request')
<1>1. /\ request[s] = Free /\ request' \in [Slots -> Form] /\ request'[s] = r
      /\ \A x \in Slots \ {s} : request'[x] = request[x]
      /\ load' \in 0 .. MaxLoad
  BY Begun DEF IInv
<1>2. Shape' /\ Whole'
  BY <1>1 DEF IInv, Shape, Whole
<1>3. GuessesInv'
  <2>1. \A x \in Slots : request'[x].kind = "login" => request'[x] = request[x]
    BY <1>1
  <2>2. \A u \in Users : \A x \in Failing(u) : request'[x] = request[x]
    BY <1>1, FreeForm DEF Failing, Logins
  <2>3. account' \in [Users -> AccountRow]
    BY DEF IInv, Shape
  <2>4. \A u \in Users :
           \/ guesses'[u] = 0
           \/ /\ guesses'[u] = guesses[u] /\ (account[u].exists => account'[u].exists)
              /\ \/ guesses[u] <= account'[u].attempts
                 \/ /\ account'[u].attempts = account[u].attempts
                    /\ \A x \in Failing(u) : request'[x] = request[x]
    BY <2>2
  <2>5. Shape /\ GuessesInv
    BY DEF IInv
  <2> QED  BY <1>1, <2>1, <2>3, <2>4, <2>5, GuessesKept
<1>4. ASSUME r.kind # "confirm"
      PROVE  UsesInv'
  <2>1. \A x \in Slots : request'[x].kind = "confirm" => request'[x] = request[x]
    BY <1>1, <1>4
  <2>2. UsesInv /\ link \in [Links -> LinkRow]
    BY DEF IInv, LinksInv, Shape
  <2>3. \A l \in Links :
           /\ link'[l].uses = link[l].uses
           /\ link'[l].status \in {"none", "live"} => link[l].status \in {"none", "live"}
           /\ link[l].status # "none" =>
                link'[l].status # "none" /\ link'[l].user = link[l].user
    OBVIOUS
  <2> QED  BY <2>1, <2>2, <2>3, UsesKept
<1>5. ASSUME r.kind # "link"
      PROVE  Room(link', request')
  <2>1. \A x \in Slots : request'[x].kind = "link" => request'[x] = request[x]
    BY <1>1, <1>5
  <2>2. Room(link, request)
    BY DEF IInv, LinksInv
  <2>3. \A l \in Links : link'[l].status = "live" =>
           link[l].status = "live" /\ link'[l].user = link[l].user
    OBVIOUS
  <2> QED  BY <2>1, <2>2, <2>3, RoomKept
<1> QED  BY <1>2, <1>3, <1>4, <1>5

LEMMA VerdictFacts ==
  ASSUME NEW u \in Users, NEW right \in BOOLEAN, account[u].attempts \in Nat, MaxFailed \in Nat
  PROVE  /\ Verdict(u, right) \in {"refused", "locked", "right", "locks", "wrong"}
         /\ Verdict(u, right) = "wrong" => account[u].attempts + 1 < MaxFailed
         /\ Verdict(u, right) \in {"wrong", "locks"} => account[u].active
BY DEF Verdict

(* A failure is one more than the counter it read, if no other login of    *)
(* the account is at work; with another, there is no row of failures.      *)
LEMMA LoginKept ==
  ASSUME IInv, NEW s \in Slots, NEW a \in Addresses, NEW u \in Users, NEW right \in BOOLEAN,
         Login(s, a, u, right)
  PROVE  IInv'
<1> DEFINE v == Verdict(u, right)
           r == [kind |-> "login", user |-> u, verdict |-> v,
                 attempts |-> account[u].attempts, locked |-> account[u].locked, at |-> now]
           other == \E x \in Slots : Is(x, "login") /\ request[x].user = u
<1>1. /\ Allows("login", a) /\ Hit("login", a) /\ Begin(s, "login", r)
      /\ guesses' = [guesses EXCEPT ![u] =
           CASE other -> 0
             [] OTHER -> IF v \in {"wrong", "locks"} THEN guesses[u] + 1 ELSE guesses[u]]
      /\ UNCHANGED <<now, account, group, link>>
  BY DEF Login
<1>2. /\ account \in [Users -> AccountRow] /\ guesses \in [Users -> Nat] /\ now \in 1 .. MaxTime
      /\ Shape /\ Whole /\ GuessesInv /\ UsesInv /\ Room(link, request) /\ RatesInv
      /\ link \in [Links -> LinkRow] /\ MaxFailed \in Nat /\ MaxTime \in Nat
  BY Parameters DEF IInv, Shape, LinksInv
<1>3. account[u].attempts \in Failures /\ account[u].locked \in Locks /\ account[u].attempts \in Nat
  BY <1>2 DEF AccountRow, Failures
<1>4. /\ v \in {"refused", "locked", "right", "locks", "wrong"}
      /\ v = "wrong" => account[u].attempts + 1 < MaxFailed
      /\ v \in {"wrong", "locks"} => account[u].active
  BY <1>2, <1>3, VerdictFacts
<1> HIDE DEF v
<1>5. /\ r \in LoginForm /\ r.kind = "login" /\ r.user = u /\ r.verdict = v
      /\ r.attempts = account[u].attempts
  BY <1>2, <1>3, <1>4 DEF LoginForm
<1>6. r \in Form
  BY <1>5 DEF Form
<1> HIDE DEF r
<1>7. /\ request[s] = Free /\ request' \in [Slots -> Form] /\ request'[s] = r
      /\ \A x \in Slots \ {s} : request'[x] = request[x]
      /\ load' \in 0 .. MaxLoad
  BY <1>1, <1>2, <1>6, Begun
<1>8. request[s].kind = "free"
  BY <1>7, FreeForm
<1>9. /\ guesses' \in [Users -> Nat] /\ \A w \in Users \ {u} : guesses'[w] = guesses[w]
      /\ other => guesses'[u] = 0
      /\ (~other /\ v \in {"wrong", "locks"}) => guesses'[u] = guesses[u] + 1
      /\ (~other /\ v \notin {"wrong", "locks"}) => guesses'[u] = guesses[u]
  <2> HIDE DEF other
  <2> QED  BY <1>1, <1>2
<1>10. Shape' /\ Whole'
  BY <1>1, <1>2, <1>7, <1>9 DEF Shape, Whole
<1>11. GuessesInv'
  <2>1. ASSUME NEW x \in Slots, request'[x].kind = "login" /\ request'[x].verdict = "wrong"
        PROVE  request'[x].attempts + 1 < MaxFailed
    <3>1. CASE x = s
      BY <1>4, <1>5, <1>7, <2>1, <3>1
    <3>2. CASE x # s
      BY <1>2, <1>7, <2>1, <3>2 DEF GuessesInv
    <3> QED  BY <3>1, <3>2
  <2>2. ASSUME NEW w \in Users \ {u}
        PROVE  /\ \A x \in Failing(w)' : guesses'[w] <= request'[x].attempts + 1
               /\ Failing(w)' = {} => guesses'[w] <= account'[w].attempts
               /\ \A x, y \in Logins(w)' : x # y => guesses'[w] = 0
               /\ ~account'[w].exists => guesses'[w] = 0
    <3>1. Logins(w)' = Logins(w) /\ \A x \in Logins(w) : request'[x] = request[x]
      BY <1>5, <1>7, <1>8 DEF Logins
    <3>2. Failing(w)' = Failing(w) /\ \A x \in Failing(w) : request'[x] = request[x]
      BY <3>1 DEF Failing
    <3>3. guesses'[w] = guesses[w] /\ account' = account
      BY <1>1, <1>9
    <3> QED  BY <1>2, <3>1, <3>2, <3>3 DEF GuessesInv
  <2>3. /\ \A x \in Failing(u)' : guesses'[u] <= request'[x].attempts + 1
        /\ Failing(u)' = {} => guesses'[u] <= account'[u].attempts
        /\ \A x, y \in Logins(u)' : x # y => guesses'[u] = 0
        /\ ~account'[u].exists => guesses'[u] = 0
    <3>1. CASE other
      <4>1. guesses'[u] = 0
        BY <1>9, <3>1
      <4>2. account'[u].attempts \in Nat
        BY <1>1, <1>3
      <4>3. \A x \in Failing(u)' : request'[x].attempts \in Nat
        <5>1. \A x \in Failing(u)' : request'[x] \in LoginForm
          BY <1>7, FormFacts DEF Failing, Logins
        <5> QED  BY <1>2, <5>1 DEF LoginForm, Failures
      <4> QED  BY <4>1, <4>2, <4>3
    <3>2. CASE ~other
      <4>1. Logins(u) = {} /\ Failing(u) = {}
        BY <3>2 DEF Logins, Failing, Is
      <4>2. Logins(u)' = {s}
        BY <1>5, <1>7, <4>1 DEF Logins
      <4>3. Failing(u)' = IF v \in {"wrong", "locks"} THEN {s} ELSE {}
        BY <1>5, <1>7, <4>2 DEF Failing
      <4>4. guesses[u] <= account[u].attempts /\ (~account[u].exists => guesses[u] = 0)
        BY <1>2, <4>1 DEF GuessesInv
      <4>5. guesses[u] \in Nat /\ account' = account
        BY <1>1, <1>2
      <4>6. CASE v \in {"wrong", "locks"}
        <5>1. guesses'[u] = guesses[u] + 1 /\ Failing(u)' = {s} /\ account[u].exists
          BY <1>2, <1>4, <1>9, <3>2, <4>3, <4>6 DEF Whole
        <5> QED  BY <1>3, <1>5, <1>7, <4>2, <4>4, <4>5, <5>1
      <4>7. CASE v \notin {"wrong", "locks"}
        <5>1. guesses'[u] = guesses[u] /\ Failing(u)' = {}
          BY <1>9, <3>2, <4>3, <4>7
        <5> QED  BY <4>2, <4>4, <4>5, <5>1
      <4> QED  BY <4>6, <4>7
    <3> QED  BY <3>1, <3>2
  <2> QED  BY <2>1, <2>2, <2>3 DEF GuessesInv
<1>12. UsesInv'
  <2>1. \A x \in Slots : request'[x].kind = "confirm" => request'[x] = request[x]
    BY <1>5, <1>7
  <2>2. \A l \in Links :
           /\ link'[l].uses = link[l].uses
           /\ link'[l].status \in {"none", "live"} => link[l].status \in {"none", "live"}
           /\ link[l].status # "none" =>
                link'[l].status # "none" /\ link'[l].user = link[l].user
    BY <1>1
  <2> QED  BY <1>2, <2>1, <2>2, UsesKept
<1>13. Room(link', request')
  <2>1. \A x \in Slots : request'[x].kind = "link" => request'[x] = request[x]
    BY <1>5, <1>7
  <2>2. \A l \in Links : link'[l].status = "live" =>
           link[l].status = "live" /\ link'[l].user = link[l].user
    BY <1>1
  <2> QED  BY <1>2, <2>1, <2>2, RoomKept
<1>14. RatesInv'
  <2>1. "login" \in Surfaces /\ now \in Nat /\ now' = now
    BY <1>1, <1>2 DEF Surfaces
  <2> QED  BY <1>1, <1>2, <2>1, HitKept
<1> QED  BY <1>10, <1>11, <1>12, <1>13, <1>14 DEF IInv, LinksInv

(* A new request for a link read those the account has.                    *)
LEMMA RequestLinkKept ==
  ASSUME IInv, NEW s \in Slots, NEW a \in Addresses, NEW u \in Users, RequestLink(s, a, u)
  PROVE  IInv'
<1> DEFINE r == IF account[u].active
                THEN [kind |-> "link", user |-> u, drop |-> Replaced(u), at |-> now]
                ELSE [kind |-> "refused"]
<1>1. /\ Allows("reset", a) /\ Hit("reset", a) /\ Begin(s, "link", r)
      /\ UNCHANGED <<now, account, group, link, guesses>>
  BY DEF RequestLink
<1>2. now \in 1 .. MaxTime /\ RatesInv /\ Room(link, request) /\ MaxTime \in Nat /\ Shape
  BY Parameters DEF IInv, Shape, LinksInv
<1>3. CASE account[u].active
  <2>1. Replaced(u) \in SUBSET Links
    BY DEF Replaced, LiveLinks
  <2>2. /\ r \in LinkForm /\ r.kind = "link" /\ r.user = u /\ r.drop = Replaced(u)
    BY <1>2, <1>3, <2>1 DEF LinkForm
  <2>3. r \in Form
    BY <2>2 DEF Form
  <2> HIDE DEF r
  <2>4. Shape' /\ Whole' /\ GuessesInv' /\ UsesInv'
    BY <1>1, <2>2, <2>3, BegunElse
  <2>5. /\ request' \in [Slots -> Form] /\ request'[s] = r
        /\ \A x \in Slots \ {s} : request'[x] = request[x]
    BY <1>1, <1>2, <2>3, Begun
  <2>6. ASSUME NEW w \in Users, NEW ls \in SUBSET Live(link, w), ls # {}
        PROVE  Cardinality(ls) + Cardinality(Behind(request', w, ls)) <= Cardinality(Slots)
    <3>1. Cardinality(ls) + Cardinality(Behind(request, w, ls)) <= Cardinality(Slots)
      BY <1>2, <2>6 DEF Room
    <3>2. w = u => ls \subseteq r.drop
      BY <2>2 DEF Live, Replaced, LiveLinks
    <3>3. s \notin Behind(request', w, ls)
      BY <2>2, <2>5, <2>6, <3>2 DEF Behind
    <3>4. /\ Behind(request', w, ls) \in SUBSET Behind(request, w, ls)
          /\ Behind(request, w, ls) \in SUBSET Slots
      BY <2>5, <3>3 DEF Behind
    <3>5. /\ Cardinality(Behind(request', w, ls)) \in Nat
          /\ Cardinality(Behind(request, w, ls)) \in Nat
          /\ Cardinality(Behind(request', w, ls)) <= Cardinality(Behind(request, w, ls))
      BY <3>4, SlotsFinite
    <3>6. ls \in SUBSET Links
      BY DEF Live
    <3>7. Cardinality(ls) \in Nat
      BY <3>6, LinksFinite
    <3> QED  BY <3>1, <3>5, <3>7, Parameters
  <2>7. Room(link', request')
    BY <1>1, <2>6 DEF Room
  <2>8. "reset" \in Surfaces /\ now \in Nat /\ now' = now
    BY <1>1, <1>2 DEF Surfaces
  <2>9. RatesInv'
    BY <1>1, <1>2, <2>8, HitKept
  <2> QED  BY <2>4, <2>7, <2>9 DEF IInv, LinksInv
<1>4. CASE ~account[u].active
  <2>1. r \in Form /\ r.kind = "refused"
    BY <1>4 DEF Form
  <2> HIDE DEF r
  <2>2. Shape' /\ Whole' /\ GuessesInv' /\ UsesInv' /\ Room(link', request')
    BY <1>1, <2>1, BegunElse
  <2>3. "reset" \in Surfaces /\ now \in Nat /\ now' = now
    BY <1>1, <1>2 DEF Surfaces
  <2>4. RatesInv'
    BY <1>1, <1>2, <2>3, HitKept
  <2> QED  BY <2>2, <2>4 DEF IInv, LinksInv
<1> QED  BY <1>3, <1>4

(* A link that is confirmed by has not served: every request may use it.   *)
LEMMA ConfirmResetKept ==
  ASSUME IInv, NEW s \in Slots, NEW l \in Links, ConfirmReset(s, l)
  PROVE  IInv'
<1> DEFINE r == [kind |-> "confirm", link |-> l, user |-> link[l].user, by |-> None, at |-> now]
<1>1. /\ link[l].status = "live" /\ Begin(s, "link", r)
      /\ UNCHANGED <<now, account, group, link, hits, allowed, guesses>>
  BY DEF ConfirmReset, Redeemable
<1>2. /\ now \in 1 .. MaxTime /\ RatesInv /\ UsesInv /\ Shape /\ Whole /\ MaxTime \in Nat
      /\ link \in [Links -> LinkRow]
  BY Parameters DEF IInv, Shape, LinksInv
<1>3. link[l].user \in Users
  BY <1>1, <1>2 DEF Whole
<1>4. r \in ConfirmForm /\ r.kind = "confirm" /\ r.link = l /\ r.user = link[l].user
  BY <1>2, <1>3 DEF ConfirmForm
<1>5. r \in Form
  BY <1>4 DEF Form
<1> HIDE DEF r
<1>6. Shape' /\ Whole' /\ GuessesInv' /\ Room(link', request')
  BY <1>1, <1>4, <1>5, BegunElse
<1>7. /\ request[s] = Free /\ request' \in [Slots -> Form] /\ request'[s] = r
      /\ \A x \in Slots \ {s} : request'[x] = request[x]
  BY <1>1, <1>2, <1>5, Begun
<1>8. request[s].kind = "free"
  BY <1>7, FreeForm
<1>9. ASSUME NEW k \in Links
      PROVE  /\ link[k].status \in {"none", "live"} => link[k].uses = 0
             /\ link[k].uses + Cardinality(Confirms(request', k)) <= Cardinality(Slots)
             /\ \A x \in Confirms(request', k) :
                  link[k].status # "none" /\ link[k].user = request'[x].user
  <2>1. /\ link[k].status \in {"none", "live"} => link[k].uses = 0
        /\ link[k].uses + Cardinality(Confirms(request, k)) <= Cardinality(Slots)
        /\ \A x \in Confirms(request, k) :
             link[k].status # "none" /\ link[k].user = request[x].user
    BY <1>2 DEF UsesInv
  <2>2. CASE k = l
    <3>1. link[k].uses = 0
      BY <1>1, <2>1, <2>2
    <3>2. Confirms(request', k) \in SUBSET Slots
      BY DEF Confirms
    <3>3. /\ Cardinality(Confirms(request', k)) <= Cardinality(Slots)
          /\ Cardinality(Confirms(request', k)) \in Nat
      BY <3>2, SlotsFinite
    <3>4. \A x \in Confirms(request', k) : x = s \/ x \in Confirms(request, k)
      BY <1>7 DEF Confirms
    <3>5. \A x \in Confirms(request', k) : x \in Slots
      BY DEF Confirms
    <3>6. \A x \in Confirms(request', k) : link[k].user = request'[x].user
      BY <1>4, <1>7, <2>1, <2>2, <3>4, <3>5
    <3> QED  BY <1>1, <2>2, <3>1, <3>3, <3>6, Parameters
  <2>3. CASE k # l
    <3>1. /\ Confirms(request', k) = Confirms(request, k)
          /\ \A x \in Confirms(request, k) : request'[x] = request[x]
      BY <1>4, <1>7, <1>8, <2>3 DEF Confirms
    <3> QED  BY <2>1, <3>1
  <2> QED  BY <2>2, <2>3
<1>10. UsesInv'
  BY <1>1, <1>9 DEF UsesInv
<1>11. RatesInv'
  BY <1>1, <1>2, RatesSame
<1> QED  BY <1>6, <1>10, <1>11 DEF IInv, LinksInv

(* The other requests begin without anything they would weigh on.          *)
LEMMA OtherKept ==
  ASSUME IInv, NEW s \in Slots, NEW class \in {"login", "link", "write"}, NEW r \in Form,
         r.kind \in {"password", "write"}, Begin(s, class, r),
         UNCHANGED <<now, account, group, link, hits, allowed, guesses>>
  PROVE  IInv'
<1>1. Shape' /\ Whole' /\ GuessesInv' /\ UsesInv' /\ Room(link', request')
  BY BegunElse
<1>2. RatesInv'
  BY RatesSame DEF IInv
<1> QED  BY <1>1, <1>2 DEF IInv, LinksInv

LEMMA PasswordKept ==
  ASSUME IInv, NEW s \in Slots, NEW u \in Users,
         ChangePassword(s, u) \/ \E by \in Users : ResetPassword(s, by, u)
  PROVE  IInv'
<1>1. PICK by \in Users \cup {None} :
        LET r == [kind |-> "password", user |-> u, by |-> by, at |-> now]
        IN  /\ Begin(s, "link", r)
            /\ UNCHANGED <<now, account, group, link, hits, allowed, guesses>>
  <2>1. CASE ChangePassword(s, u)
    BY <2>1 DEF ChangePassword
  <2>2. CASE \E by \in Users : ResetPassword(s, by, u)
    BY <2>2 DEF ResetPassword
  <2> QED  BY <2>1, <2>2
<1> DEFINE r == [kind |-> "password", user |-> u, by |-> by, at |-> now]
<1>2. r \in Form /\ r.kind = "password"
  <2>1. r \in PasswordForm /\ r.kind = "password"
    BY DEF PasswordForm, IInv, Shape
  <2> HIDE DEF r
  <2> QED  BY <2>1 DEF Form
<1>3. Begin(s, "link", r) /\ UNCHANGED <<now, account, group, link, hits, allowed, guesses>>
  BY <1>1
<1> HIDE DEF r
<1> QED  BY <1>2, <1>3, OtherKept

LEMMA GuardedKept ==
  ASSUME IInv, NEW s \in Slots, NEW r \in UserForm \cup GroupForm, NEW accounts, NEW rows,
         Guarded(s, accounts, rows, r)
  PROVE  IInv'
<1>1. r \in Form /\ r.kind = "write"
  BY DEF Form, UserForm, GroupForm
<1>2. Begin(s, "write", r) /\ UNCHANGED <<now, account, group, link, hits, allowed, guesses>>
  BY DEF Guarded
<1> QED  BY <1>1, <1>2, OtherKept

LEMMA AdministerKept ==
  ASSUME IInv, NEW s \in Slots, Administer(s)
  PROVE  IInv'
<1>1. PICK by \in Users :
    \/ \E u \in Users : \/ \E gs \in SUBSET Groups : CreateUser(s, by, u, gs)
                        \/ \E fields \in UserFields : UpdateUser(s, by, u, fields)
                        \/ DeleteUser(s, by, u)
    \/ \E g \in Groups :
         \/ \E fields \in GroupFields : CreateGroup(s, by, g, fields) \/ UpdateGroup(s, by, g, fields)
         \/ DeleteGroup(s, by, g)
  BY DEF Administer
<1>2. \A u \in Users, fields \in UserChange : OnUser(by, u, fields) \in UserForm \cup GroupForm
  BY DEF OnUser, UserForm
<1>3. \A g \in Groups \ {Admins}, fields \in GroupChange :
        OnGroup(by, g, fields) \in UserForm \cup GroupForm
  BY DEF OnGroup, GroupForm
<1>4. ASSUME NEW u \in Users, NEW gs \in SUBSET Groups, CreateUser(s, by, u, gs)
      PROVE  IInv'
  <2> DEFINE fields == [exists |-> TRUE, active |-> TRUE, groups |-> gs]
  <2>1. fields \in UserChange
    BY DEF UserChange
  <2>2. Guarded(s, account, group, OnUser(by, u, fields))
    BY <1>4 DEF CreateUser
  <2> HIDE DEF fields
  <2> QED  BY <1>2, <2>1, <2>2, GuardedKept
<1>5. ASSUME NEW u \in Users, NEW fields \in UserFields, UpdateUser(s, by, u, fields)
      PROVE  IInv'
  <2>1. fields \in UserChange
    BY DEF UserChange, UserFields
  <2>2. \E accounts : Guarded(s, accounts, group, OnUser(by, u, fields))
    BY <1>5 DEF UpdateUser
  <2> QED  BY <1>2, <2>1, <2>2, GuardedKept
<1>6. ASSUME NEW u \in Users, DeleteUser(s, by, u)
      PROVE  IInv'
  <2>1. NoAccount \in UserChange
    BY DEF UserChange
  <2>2. \E accounts : Guarded(s, accounts, group, OnUser(by, u, NoAccount))
    BY <1>6 DEF DeleteUser
  <2> QED  BY <1>2, <2>1, <2>2, GuardedKept
<1>7. ASSUME NEW g \in Groups, NEW fields \in GroupFields, CreateGroup(s, by, g, fields)
      PROVE  IInv'
  <2> DEFINE new == [exists |-> TRUE, grants |-> fields.grants, scope |-> fields.scope]
  <2>1. new \in GroupChange
    BY DEF GroupChange, GroupFields
  <2>2. g \in Groups \ {Admins}
    BY <1>7 DEF CreateGroup, IInv, Whole
  <2>3. Guarded(s, account, group, OnGroup(by, g, new))
    BY <1>7 DEF CreateGroup
  <2> HIDE DEF new
  <2> QED  BY <1>3, <2>1, <2>2, <2>3, GuardedKept
<1>8. ASSUME NEW g \in Groups, NEW fields \in GroupFields, UpdateGroup(s, by, g, fields)
      PROVE  IInv'
  <2>1. fields \in GroupChange
    BY DEF GroupChange, GroupFields
  <2>2. g \in Groups \ {Admins} /\ \E rows : Guarded(s, account, rows, OnGroup(by, g, fields))
    BY <1>8 DEF UpdateGroup
  <2> QED  BY <1>3, <2>1, <2>2, GuardedKept
<1>9. ASSUME NEW g \in Groups, DeleteGroup(s, by, g)
      PROVE  IInv'
  <2> DEFINE gone == [exists |-> FALSE]
  <2>1. gone \in GroupChange
    BY DEF GroupChange
  <2>2. g \in Groups \ {Admins} /\ \E accounts : Guarded(s, accounts, group, OnGroup(by, g, gone))
    BY <1>9 DEF DeleteGroup
  <2> HIDE DEF gone
  <2> QED  BY <1>3, <2>1, <2>2, GuardedKept
<1> QED  BY <1>1, <1>4, <1>5, <1>6, <1>7, <1>8, <1>9

(***************************************************************************)
(* Requests that end.                                                      *)
(***************************************************************************)

(* A request that ends leaves the others as they are.                      *)
LEMMA EndedElse ==
  ASSUME Shape, NEW s \in Slots, End(s)
  PROVE  /\ request' \in [Slots -> Form] /\ load' \in 0 .. MaxLoad
         /\ \A x \in Slots : request'[x].kind \in {"login", "link", "confirm"} =>
              x # s /\ request'[x] = request[x]
         /\ \A u \in Users : \A x \in Failing(u) : x # s => request'[x] = request[x]
<1>1. /\ request' \in [Slots -> Form] /\ request'[s] = Free
      /\ \A x \in Slots \ {s} : request'[x] = request[x]
      /\ load' \in 0 .. MaxLoad
  BY Ended
<1>2. request'[s].kind = "free"
  BY <1>1, FreeForm
<1> QED  BY <1>1, <1>2 DEF Failing, Logins

LEMMA LoggedInFacts ==
  ASSUME NEW m \in AccountRow, NEW r \in LoginForm, r.verdict = "wrong" => r.attempts + 1 < MaxFailed
  PROVE  /\ LoggedIn(m, r) \in AccountRow
         /\ LoggedIn(m, r).exists = m.exists /\ LoggedIn(m, r).active = m.active
         /\ LoggedIn(m, r).groups = m.groups
         /\ r.verdict = "wrong" => LoggedIn(m, r).attempts = r.attempts + 1
         /\ r.verdict \in {"refused", "locked"} => LoggedIn(m, r).attempts = m.attempts
<1> DEFINE row == LoggedIn(m, r)
<1>1. /\ MaxFailed \in Nat \ {0} /\ MaxTime \in Nat /\ LockTime \in Nat
      /\ r.verdict \in {"refused", "locked", "right", "locks", "wrong"}
      /\ r.attempts \in Failures /\ r.at \in 1 .. MaxTime
  BY Parameters DEF LoginForm
<1>2. r.at + LockTime \in Locks /\ 0 \in Failures /\ None \in Locks
  BY <1>1 DEF Locks, Failures, None
<1>3. m.attempts \in Failures /\ m.locked \in Locks
  BY DEF AccountRow
<1> DEFINE reset == IF r.attempts = 0 THEN m.attempts ELSE 0
           lifted == IF r.locked = None THEN m.locked ELSE None
<1>4. reset \in Failures /\ lifted \in Locks
  BY <1>2, <1>3
<1>5. r.verdict = "locks" => row = [m EXCEPT !.attempts = reset, !.locked = r.at + LockTime]
  BY DEF LoggedIn
<1>6. r.verdict = "wrong" => row = [m EXCEPT !.attempts = r.attempts + 1]
  BY DEF LoggedIn, Failed
<1>7. r.verdict = "right" => row = [m EXCEPT !.attempts = reset, !.locked = lifted]
  BY DEF LoggedIn
<1>8. r.verdict \in {"refused", "locked"} => row = m
  BY DEF LoggedIn
<1>9. r.verdict = "wrong" => r.attempts + 1 \in Failures
  BY <1>1 DEF Failures
<1> HIDE DEF row, reset, lifted
<1>10. CASE r.verdict = "locks"
  BY <1>2, <1>4, <1>5, <1>10 DEF AccountRow, row
<1>11. CASE r.verdict = "wrong"
  BY <1>6, <1>9, <1>11 DEF AccountRow, row
<1>12. CASE r.verdict = "right"
  BY <1>4, <1>7, <1>12 DEF AccountRow, row
<1>13. CASE r.verdict \in {"refused", "locked"}
  BY <1>8, <1>13 DEF AccountRow, row
<1> QED  BY <1>1, <1>10, <1>11, <1>12, <1>13

(* A failure is written with the login that counted it; a success, and a   *)
(* lock, end the row of failures.                                          *)
LEMMA LoginCommitKept ==
  ASSUME IInv, NEW s \in Slots, LoginCommit(s)
  PROVE  IInv'
<1> DEFINE r == request[s]
           u == r.user
           row == LoggedIn(account[u], r)
<1>1. /\ r.kind = "login" /\ End(s)
      /\ account' = IF account[u].exists THEN [account EXCEPT ![u] = row] ELSE account
      /\ guesses' = IF r.verdict \in {"right", "locks"} THEN [guesses EXCEPT ![u] = 0] ELSE guesses
      /\ UNCHANGED <<now, group, link, hits, allowed>>
  BY DEF LoginCommit, Is, Exists
<1>2. /\ account \in [Users -> AccountRow] /\ guesses \in [Users -> Nat] /\ now \in 1 .. MaxTime
      /\ Shape /\ Whole /\ GuessesInv /\ UsesInv /\ Room(link, request) /\ RatesInv
      /\ link \in [Links -> LinkRow] /\ MaxFailed \in Nat \ {0} /\ MaxTime \in Nat
      /\ LockTime \in Nat /\ request \in [Slots -> Form]
  BY Parameters DEF IInv, Shape, LinksInv
<1>3. r \in LoginForm
  BY <1>1, <1>2, FormFacts
<1>4. /\ u \in Users /\ r.verdict \in {"refused", "locked", "right", "locks", "wrong"}
      /\ r.attempts \in Failures /\ r.attempts \in Nat /\ r.at \in 1 .. MaxTime
      /\ r.verdict = "wrong" => r.attempts + 1 < MaxFailed
  BY <1>1, <1>2, <1>3 DEF LoginForm, Failures, GuessesInv
<1>5. /\ row \in AccountRow /\ row.exists = account[u].exists /\ row.active = account[u].active
      /\ row.groups = account[u].groups
      /\ r.verdict = "wrong" => row.attempts = r.attempts + 1
      /\ r.verdict \in {"refused", "locked"} => row.attempts = account[u].attempts
  <2>1. account[u] \in AccountRow
    BY <1>2, <1>4
  <2> QED  BY <1>3, <1>4, <2>1, LoggedInFacts
<1> HIDE DEF row
<1>6. /\ account' \in [Users -> AccountRow]
      /\ \A w \in Users : /\ account'[w].exists = account[w].exists
                          /\ account'[w].active = account[w].active
                          /\ account'[w].groups = account[w].groups
      /\ account[u].exists => account'[u] = row
      /\ ~account[u].exists => account'[u] = account[u]
      /\ \A w \in Users \ {u} : account'[w] = account[w]
  <2> HIDE DEF r
  <2>1. CASE account[u].exists
    <3>1. account' = [account EXCEPT ![u] = row]
      BY <1>1, <2>1
    <3> QED  BY <1>2, <1>4, <1>5, <2>1, <3>1
  <2>2. CASE ~account[u].exists
    BY <1>1, <1>2, <2>2
  <2> QED  BY <2>1, <2>2
<1>7. /\ request' \in [Slots -> Form] /\ load' \in 0 .. MaxLoad
      /\ \A x \in Slots : request'[x].kind \in {"login", "link", "confirm"} =>
           x # s /\ request'[x] = request[x]
      /\ \A w \in Users : \A x \in Failing(w) : x # s => request'[x] = request[x]
  BY <1>1, <1>2, EndedElse
<1>8. Shape'
  <2>1. guesses' \in [Users -> Nat]
    BY <1>1, <1>2, <1>4
  <2> QED  BY <1>1, <1>2, <1>6, <1>7, <2>1 DEF Shape
<1>9. Whole'
  BY <1>1, <1>2, <1>6 DEF Whole
<1>10. GuessesInv'
  <2>1. ASSUME NEW w \in Users
        PROVE  \/ guesses'[w] = 0
               \/ /\ guesses'[w] = guesses[w] /\ (account[w].exists => account'[w].exists)
                  /\ \/ guesses[w] <= account'[w].attempts
                     \/ /\ account'[w].attempts = account[w].attempts
                        /\ \A x \in Failing(w) : request'[x] = request[x]
    <3>1. CASE w # u
      <4>1. guesses'[w] = guesses[w]
        BY <1>1, <1>2, <3>1
      <4>2. s \notin Failing(w)
        BY <3>1 DEF Failing, Logins
      <4> QED  BY <1>6, <1>7, <3>1, <4>1, <4>2
    <3>2. CASE w = u /\ r.verdict \in {"right", "locks"}
      BY <1>1, <1>2, <1>4, <3>2
    <3>3. CASE w = u /\ r.verdict \in {"refused", "locked"}
      <4>1. guesses'[w] = guesses[w]
        BY <1>1, <3>3
      <4>2. s \notin Failing(w)
        BY <3>3 DEF Failing
      <4>3. account'[u].attempts = account[u].attempts
        BY <1>5, <1>6, <3>3
      <4> QED  BY <1>6, <1>7, <3>3, <4>1, <4>2, <4>3
    <3>4. CASE w = u /\ r.verdict = "wrong"
      <4>1. guesses'[w] = guesses[w]
        BY <1>1, <3>4
      <4>2. CASE ~account[u].exists
        BY <1>2, <3>4, <4>1, <4>2 DEF GuessesInv
      <4>3. CASE account[u].exists
        <5>1. s \in Failing(u)
          BY <1>1, <3>4 DEF Failing, Logins
        <5>2. guesses[u] <= r.attempts + 1
          BY <1>2, <1>4, <5>1 DEF GuessesInv
        <5>3. account'[u].attempts = r.attempts + 1
          BY <1>5, <1>6, <3>4, <4>3
        <5> QED  BY <1>6, <3>4, <4>1, <5>2, <5>3
      <4> QED  BY <4>2, <4>3
    <3> QED  BY <1>4, <3>1, <3>2, <3>3, <3>4
  <2>2. \A x \in Slots : request'[x].kind = "login" => request'[x] = request[x]
    BY <1>7
  <2> QED  BY <1>2, <1>6, <1>7, <2>1, <2>2, GuessesKept
<1>11. UsesInv' /\ Room(link', request')
  <2>1. /\ \A x \in Slots : request'[x].kind = "confirm" => request'[x] = request[x]
        /\ \A x \in Slots : request'[x].kind = "link" => request'[x] = request[x]
    BY <1>7
  <2>2. /\ \A l \in Links :
             /\ link'[l].uses = link[l].uses
             /\ link'[l].status \in {"none", "live"} => link[l].status \in {"none", "live"}
             /\ link[l].status # "none" =>
                  link'[l].status # "none" /\ link'[l].user = link[l].user
        /\ \A l \in Links : link'[l].status = "live" =>
             link[l].status = "live" /\ link'[l].user = link[l].user
    BY <1>1
  <2>3. UsesInv'
    BY <1>2, <2>1, <2>2, UsesKept
  <2>4. Room(link', request')
    BY <1>2, <2>1, <2>2, RoomKept
  <2> QED  BY <2>3, <2>4
<1>12. RatesInv'
  BY <1>1, <1>2, RatesSame
<1> QED  BY <1>8, <1>9, <1>10, <1>11, <1>12 DEF IInv, LinksInv

(* The new link takes the room its request kept.                           *)
LEMMA RequestLinkCommitKept ==
  ASSUME IInv, NEW s \in Slots, RequestLinkCommit(s)
  PROVE  IInv'
<1> DEFINE r == request[s]
           u == r.user
<1>1. /\ r.kind = "link" /\ account[u].exists /\ End(s)
      /\ UNCHANGED <<now, account, group, hits, allowed, guesses>>
  BY DEF RequestLinkCommit, Is, Exists
<1>2. /\ guesses \in [Users -> Nat] /\ account \in [Users -> AccountRow]
      /\ Shape /\ Whole /\ GuessesInv /\ UsesInv /\ Room(link, request) /\ RatesInv
      /\ link \in [Links -> LinkRow] /\ LinkTtl \in Nat /\ MaxTime \in Nat
      /\ request \in [Slots -> Form]
  BY Parameters DEF IInv, Shape, LinksInv
<1>3. r \in LinkForm
  BY <1>1, <1>2, FormFacts
<1>4. u \in Users /\ r.drop \in SUBSET Links /\ r.at + LinkTtl \in Nat
  BY <1>2, <1>3 DEF LinkForm
<1> DEFINE new == [NoLink EXCEPT !.status = "live", !.user = u, !.expires = r.at + LinkTtl]
<1>5. PICK l \in Links :
        /\ link[l].status = "none"
        /\ link' = [k \in Links |-> CASE k = l -> new
                                      [] k \in r.drop \ {l} -> [link[k] EXCEPT !.status = "gone"]
                                      [] OTHER -> link[k]]
  BY DEF RequestLinkCommit
<1>6. new \in LinkRow /\ new.status = "live" /\ new.user = u /\ new.uses = 0
  BY <1>4 DEF NoLink, LinkRow
<1> HIDE DEF new
<1>7. /\ link'[l] = new
      /\ \A k \in Links \ {l} :
           /\ k \in r.drop => link'[k] = [link[k] EXCEPT !.status = "gone"]
           /\ k \notin r.drop => link'[k] = link[k]
      /\ DOMAIN link' = Links
  <2>1. /\ DOMAIN link' = Links
        /\ \A k \in Links : link'[k] = CASE k = l -> new
                                          [] k \in r.drop \ {l} -> [link[k] EXCEPT !.status = "gone"]
                                          [] OTHER -> link[k]
    BY <1>5
  <2>2. link'[l] = new
    BY <2>1
  <2>3. ASSUME NEW k \in Links \ {l}, k \in r.drop
        PROVE  link'[k] = [link[k] EXCEPT !.status = "gone"]
    <3> HIDE DEF r
    <3>1. k # l /\ k \in Links
      OBVIOUS
    <3> QED  BY <2>1, <2>3, <3>1
  <2>4. ASSUME NEW k \in Links \ {l}, k \notin r.drop
        PROVE  link'[k] = link[k]
    <3> HIDE DEF r
    <3>1. k # l /\ k \in Links
      OBVIOUS
    <3> QED  BY <2>1, <2>4, <3>1
  <2> QED  BY <2>1, <2>2, <2>3, <2>4
<1>8. \A k \in Links : [link[k] EXCEPT !.status = "gone"] \in LinkRow
  BY <1>2 DEF LinkRow
<1>9. link' \in [Links -> LinkRow]
  <2>1. \A k \in Links : link'[k] \in LinkRow
    BY <1>2, <1>6, <1>7, <1>8
  <2>2. link' = [k \in Links |-> link'[k]]
    BY <1>5
  <2> QED  BY <2>1, <2>2
<1>10. \A k \in Links \ {l} :
         /\ link'[k].uses = link[k].uses /\ link'[k].user = link[k].user
         /\ k \in r.drop => link'[k].status = "gone"
         /\ k \notin r.drop => link'[k].status = link[k].status
  BY <1>2, <1>7 DEF LinkRow
<1>11. /\ request' \in [Slots -> Form] /\ load' \in 0 .. MaxLoad
       /\ \A x \in Slots : request'[x].kind \in {"login", "link", "confirm"} =>
            x # s /\ request'[x] = request[x]
       /\ \A w \in Users : \A x \in Failing(w) : x # s => request'[x] = request[x]
  BY <1>1, <1>2, EndedElse
<1> HIDE DEF r
<1>12. Shape'
  BY <1>1, <1>2, <1>9, <1>11 DEF Shape
<1>13. Whole'
  <2>1. ASSUME NEW k \in Links, link'[k].status \in {"live", "used"}
        PROVE  link'[k].user \in Users /\ account'[link'[k].user].exists
    <3>1. CASE k = l
      BY <1>1, <1>4, <1>6, <1>7, <3>1
    <3>2. CASE k # l
      BY <1>1, <1>2, <1>10, <2>1, <3>2 DEF Whole
    <3> QED  BY <3>1, <3>2
  <2> QED  BY <1>1, <1>2, <2>1 DEF Whole
<1>14. GuessesInv'
  <2>1. \A w \in Users : s \notin Failing(w)
    BY <1>1 DEF Failing, Logins, r
  <2>2. \A w \in Users :
           \/ guesses'[w] = 0
           \/ /\ guesses'[w] = guesses[w] /\ (account[w].exists => account'[w].exists)
              /\ \/ guesses[w] <= account'[w].attempts
                 \/ /\ account'[w].attempts = account[w].attempts
                    /\ \A x \in Failing(w) : request'[x] = request[x]
    BY <1>1, <1>11, <2>1
  <2>3. \A x \in Slots : request'[x].kind = "login" => request'[x] = request[x]
    BY <1>11
  <2>4. account' \in [Users -> AccountRow]
    BY <1>1, <1>2
  <2> QED  BY <1>2, <1>11, <2>2, <2>3, <2>4, GuessesKept
<1>15. UsesInv'
  <2>1. \A x \in Slots : request'[x].kind = "confirm" => request'[x] = request[x]
    BY <1>11
  <2>2. ASSUME NEW k \in Links
        PROVE  /\ link'[k].uses = link[k].uses
               /\ link'[k].status \in {"none", "live"} => link[k].status \in {"none", "live"}
               /\ link[k].status # "none" =>
                    link'[k].status # "none" /\ link'[k].user = link[k].user
    <3>1. CASE k = l
      <4>1. link[k].status = "none" /\ link[k].uses = 0
        BY <1>2, <1>5, <3>1 DEF UsesInv
      <4> QED  BY <1>6, <1>7, <3>1, <4>1
    <3>2. CASE k # l
      BY <1>10, <3>2
    <3> QED  BY <3>1, <3>2
  <2> QED  BY <1>2, <2>1, <2>2, UsesKept
<1>16. ASSUME NEW w \in Users, NEW ls \in SUBSET Live(link', w), ls # {}
       PROVE  Cardinality(ls) + Cardinality(Behind(request', w, ls)) <= Cardinality(Slots)
  <2> DEFINE rest == ls \ {l}
  <2>1. ls \in SUBSET Links /\ rest \in SUBSET Links
    BY DEF Live
  <2>2. rest \in SUBSET Live(link, w) /\ rest \cap r.drop = {}
    BY <1>10 DEF Live
  <2>3. Cardinality(ls) \in Nat /\ Cardinality(rest) \in Nat /\ IsFiniteSet(rest)
    BY <2>1, LinksFinite
  <2>4. Behind(request', w, ls) \in SUBSET Slots
    BY DEF Behind
  <2>5. s \notin Behind(request', w, ls)
    BY <1>11 DEF Behind
  <2>6. CASE l \notin ls
    <3>1. rest = ls
      BY <2>6
    <3>2. Cardinality(ls) + Cardinality(Behind(request, w, ls)) <= Cardinality(Slots)
      BY <1>2, <1>16, <2>2, <3>1 DEF Room
    <3>3. /\ Behind(request', w, ls) \in SUBSET Behind(request, w, ls)
          /\ Behind(request, w, ls) \in SUBSET Slots
      BY <1>11 DEF Behind
    <3>4. /\ Cardinality(Behind(request', w, ls)) \in Nat
          /\ Cardinality(Behind(request, w, ls)) \in Nat
          /\ Cardinality(Behind(request', w, ls)) <= Cardinality(Behind(request, w, ls))
      BY <3>3, SlotsFinite
    <3> QED  BY <2>3, <3>2, <3>4, Parameters
  <2>7. CASE l \in ls
    <3>1. w = u
      BY <1>6, <1>7, <2>7 DEF Live
    <3>2. Cardinality(ls) = Cardinality(rest) + 1
      <4> HIDE DEF rest
      <4>1. ls = rest \cup {l} /\ l \notin rest
        BY <2>7 DEF rest
      <4> QED  BY <2>3, <4>1, FS_AddElement
    <3>3. CASE rest = {}
      <4> DEFINE B == Behind(request', w, ls)
      <4>1. Cardinality(rest) = 0
        BY <3>3, FS_EmptySet
      <4>2. B \cup {s} \in SUBSET Slots /\ B \in SUBSET Slots /\ s \notin B
        BY <2>4, <2>5
      <4> HIDE DEF B
      <4>3. /\ Cardinality(B \cup {s}) <= Cardinality(Slots) /\ IsFiniteSet(B)
            /\ Cardinality(B) \in Nat
        BY <4>2, SlotsFinite
      <4>4. Cardinality(B \cup {s}) = Cardinality(B) + 1
        BY <4>2, <4>3, FS_AddElement
      <4>5. Cardinality(ls) + Cardinality(B) <= Cardinality(Slots)
        BY <2>3, <3>2, <4>1, <4>3, <4>4, Parameters
      <4> QED  BY <4>5 DEF B
    <3>4. CASE rest # {}
      <4> DEFINE B == Behind(request', w, ls)
                 C == Behind(request, w, rest)
      <4>1. Cardinality(rest) + Cardinality(C) <= Cardinality(Slots)
        <5> HIDE DEF rest
        <5> QED  BY <1>2, <2>2, <3>4 DEF Room
      <4>2. s \in C
        BY <1>1, <2>2, <3>1 DEF Behind, r
      <4>3. B \cup {s} \in SUBSET C /\ C \in SUBSET Slots /\ s \notin B /\ B \in SUBSET Slots
        BY <1>11, <2>4, <2>5, <4>2 DEF Behind
      <4> HIDE DEF B, C, rest
      <4>4. /\ Cardinality(B \cup {s}) <= Cardinality(C) /\ Cardinality(C) \in Nat
            /\ IsFiniteSet(B) /\ Cardinality(B) \in Nat
        BY <4>3, SlotsFinite
      <4>5. Cardinality(B \cup {s}) = Cardinality(B) + 1
        BY <4>3, <4>4, FS_AddElement
      <4>6. Cardinality(ls) + Cardinality(B) <= Cardinality(Slots)
        BY <2>3, <3>2, <4>1, <4>4, <4>5, Parameters
      <4> QED  BY <4>6 DEF B
    <3> QED  BY <3>3, <3>4
  <2> QED  BY <2>6, <2>7
<1>17. Room(link', request')
  BY <1>16 DEF Room
<1>18. RatesInv'
  BY <1>1, <1>2, RatesSame
<1> QED  BY <1>12, <1>13, <1>14, <1>15, <1>17, <1>18 DEF IInv, LinksInv

(* Links that go make room, and never come back.                           *)
LEMMA LinksGo ==
  ASSUME IInv, NEW gone \in SUBSET Links,
         link' = [l \in Links |-> IF l \in gone THEN [link[l] EXCEPT !.status = "gone"] ELSE link[l]],
         \A x \in Slots : request'[x].kind \in {"link", "confirm"} => request'[x] = request[x]
  PROVE  /\ link' \in [Links -> LinkRow] /\ UsesInv' /\ Room(link', request')
         /\ \A l \in Links : link'[l].status \in {"live", "used"} =>
              l \notin gone /\ link'[l] = link[l]
<1>1. link \in [Links -> LinkRow] /\ UsesInv /\ Room(link, request)
  BY DEF IInv, Shape, LinksInv
<1>2. \A l \in Links : /\ l \in gone => link'[l] = [link[l] EXCEPT !.status = "gone"]
                       /\ l \notin gone => link'[l] = link[l]
  OBVIOUS
<1>3. \A l \in Links : [link[l] EXCEPT !.status = "gone"] \in LinkRow
  BY <1>1 DEF LinkRow
<1>4. link' \in [Links -> LinkRow]
  BY <1>1, <1>3
<1>5. \A l \in Links : /\ link'[l].uses = link[l].uses /\ link'[l].user = link[l].user
                       /\ l \in gone => link'[l].status = "gone"
                       /\ l \notin gone => link'[l].status = link[l].status
  BY <1>1, <1>2 DEF LinkRow
<1>6. UsesInv'
  <2>1. \A l \in Links :
           /\ link'[l].uses = link[l].uses
           /\ link'[l].status \in {"none", "live"} => link[l].status \in {"none", "live"}
           /\ link[l].status # "none" =>
                link'[l].status # "none" /\ link'[l].user = link[l].user
    BY <1>5
  <2>2. \A x \in Slots : request'[x].kind = "confirm" => request'[x] = request[x]
    OBVIOUS
  <2> QED  BY <1>1, <2>1, <2>2, UsesKept
<1>7. Room(link', request')
  <2>1. \A l \in Links : link'[l].status = "live" =>
           link[l].status = "live" /\ link'[l].user = link[l].user
    BY <1>5
  <2>2. \A x \in Slots : request'[x].kind = "link" => request'[x] = request[x]
    OBVIOUS
  <2> QED  BY <1>1, <2>1, <2>2, RoomKept
<1> QED  BY <1>2, <1>4, <1>5, <1>6, <1>7

LEMMA ServedRow ==
  ASSUME NEW m \in LinkRow, NEW t \in Nat
  PROVE  LET n == [m EXCEPT !.status = "used", !.used = t, !.uses = m.uses + 1]
         IN  n \in LinkRow /\ n.status = "used" /\ n.user = m.user /\ n.uses = m.uses + 1
<1> DEFINE more == m.uses + 1
           n == [m EXCEPT !.status = "used", !.used = t, !.uses = more]
<1>1. more \in Nat
  BY DEF LinkRow
<1> HIDE DEF more
<1>2. n \in LinkRow /\ n.status = "used" /\ n.user = m.user /\ n.uses = more
  BY <1>1 DEF LinkRow
<1> QED  BY <1>2 DEF more

LEMMA PasswordRow ==
  ASSUME NEW m \in AccountRow
  PROVE  LET n == [m EXCEPT !.password = m.password + 1, !.attempts = 0, !.locked = None]
         IN  n \in AccountRow /\ n.exists = m.exists /\ n.active = m.active /\ n.groups = m.groups
<1>1. 0 \in Failures /\ None \in Locks
  BY Parameters DEF Failures, Locks, None
<1>2. m.password + 1 \in Nat
  BY DEF AccountRow
<1> QED  BY <1>1, <1>2 DEF AccountRow

(* A link that serves passes from the confirmation at work to its uses.    *)
LEMMA LinkServes ==
  ASSUME IInv, NEW s \in Slots, End(s), request[s].kind = "confirm",
         link[request[s].link].status # "gone",
         NEW n \in LinkRow, link' = [link EXCEPT ![request[s].link] = n],
         n.status = "used", n.user = link[request[s].link].user,
         n.uses = link[request[s].link].uses + 1
  PROVE  /\ link' \in [Links -> LinkRow] /\ UsesInv' /\ Room(link', request')
         /\ \A k \in Links : link'[k].status \in {"live", "used"} =>
              link[k].status \in {"live", "used"} /\ link'[k].user = link[k].user
<1> DEFINE r == request[s]
           l == r.link
           m == link[l]
<1>1. /\ Shape /\ link \in [Links -> LinkRow] /\ UsesInv /\ Room(link, request)
      /\ request \in [Slots -> Form] /\ MaxTime \in Nat
  BY Parameters DEF IInv, Shape, LinksInv
<1>2. r \in ConfirmForm
  BY <1>1, FormFacts
<1>3. l \in Links /\ r.at \in Nat
  BY <1>1, <1>2 DEF ConfirmForm
<1>4. s \in Confirms(request, l)
  BY DEF Confirms
<1>5. m \in LinkRow /\ m.status \in {"live", "used"} /\ m.uses \in Nat
  <2>1. m \in LinkRow
    BY <1>1, <1>3
  <2>2. m.status # "none" /\ m.status # "gone"
    BY <1>1, <1>3, <1>4 DEF UsesInv
  <2> HIDE DEF m
  <2> QED  BY <2>1, <2>2 DEF LinkRow
<1>6. link' = [link EXCEPT ![l] = n]
  OBVIOUS
<1> HIDE DEF m
<1>7. n \in LinkRow /\ n.status = "used" /\ n.user = m.user /\ n.uses = m.uses + 1
  BY DEF m
<1>8. /\ link' \in [Links -> LinkRow] /\ link'[l] = n
      /\ \A k \in Links \ {l} : link'[k] = link[k]
  <2> HIDE DEF l
  <2> QED  BY <1>1, <1>3, <1>6, <1>7
<1>9. /\ request' \in [Slots -> Form]
      /\ \A x \in Slots : request'[x].kind \in {"login", "link", "confirm"} =>
           x # s /\ request'[x] = request[x]
  BY <1>1, EndedElse
<1>10. m = link[l]
  BY DEF m
<1> HIDE DEF r, l
<1>11. ASSUME NEW k \in Links
       PROVE  /\ link'[k].status \in {"none", "live"} => link'[k].uses = 0
              /\ link'[k].uses + Cardinality(Confirms(request', k)) <= Cardinality(Slots)
              /\ \A x \in Confirms(request', k) :
                   link'[k].status # "none" /\ link'[k].user = request'[x].user
  <2>1. /\ link[k].status \in {"none", "live"} => link[k].uses = 0
        /\ link[k].uses + Cardinality(Confirms(request, k)) <= Cardinality(Slots)
        /\ \A x \in Confirms(request, k) :
             link[k].status # "none" /\ link[k].user = request[x].user
        /\ link[k].uses \in Nat
    BY <1>1 DEF UsesInv, LinkRow
  <2> DEFINE B == Confirms(request', k)
             C == Confirms(request, k)
  <2>2. /\ B \in SUBSET C /\ C \in SUBSET Slots /\ B \in SUBSET Slots /\ s \notin B
        /\ \A x \in B : request'[x] = request[x]
    BY <1>9 DEF Confirms
  <2>3. /\ k = l => s \in C
        /\ link[k].uses + Cardinality(C) <= Cardinality(Slots)
    BY <1>4, <2>1
  <2> HIDE DEF B, C
  <2>4. /\ Cardinality(B) \in Nat /\ Cardinality(C) \in Nat /\ Cardinality(B) <= Cardinality(C)
        /\ IsFiniteSet(B)
    BY <2>2, SlotsFinite
  <2>5. CASE k = l
    <3>1. B \cup {s} \in SUBSET C
      BY <2>2, <2>3, <2>5
    <3>2. Cardinality(B \cup {s}) <= Cardinality(C)
      BY <2>2, <3>1, SlotsFinite
    <3>3. Cardinality(B \cup {s}) = Cardinality(B) + 1
      BY <2>2, <2>4, FS_AddElement
    <3>4. m.uses + Cardinality(C) <= Cardinality(Slots) /\ \A x \in C : m.user = request[x].user
      BY <1>10, <2>1, <2>3, <2>5 DEF C
    <3>5. link'[k].uses + Cardinality(B) <= Cardinality(Slots)
      <4>1. link'[k].uses = m.uses + 1
        BY <1>7, <1>8, <2>5
      <4>2. m.uses + Cardinality(C) <= Cardinality(Slots)
        BY <3>4
      <4>3. Cardinality(B) + 1 <= Cardinality(C)
        BY <3>2, <3>3
      <4>4. Cardinality(Slots) \in Nat
        BY Parameters
      <4> QED  BY <1>5, <2>4, <4>1, <4>2, <4>3, <4>4
    <3>6. \A x \in B : link'[k].status # "none" /\ link'[k].user = request'[x].user
      BY <1>7, <1>8, <2>2, <2>5, <3>4
    <3> QED  BY <1>7, <1>8, <2>5, <3>5, <3>6 DEF B
  <2>6. CASE k # l
    <3>1. link'[k] = link[k]
      BY <1>8, <2>6
    <3>2. link'[k].uses + Cardinality(B) <= Cardinality(Slots)
      <4>1. link[k].uses + Cardinality(C) <= Cardinality(Slots) /\ link[k].uses \in Nat
        BY <2>1, <2>3
      <4>2. Cardinality(Slots) \in Nat
        BY Parameters
      <4> QED  BY <2>4, <3>1, <4>1, <4>2
    <3> QED  BY <2>1, <2>2, <3>1, <3>2 DEF B, C
  <2> QED  BY <2>5, <2>6
<1>12. UsesInv'
  BY <1>11 DEF UsesInv
<1>13. Room(link', request')
  <2>1. \A k \in Links : link'[k].status = "live" =>
           link[k].status = "live" /\ link'[k].user = link[k].user
    BY <1>7, <1>8
  <2>2. \A x \in Slots : request'[x].kind = "link" => request'[x] = request[x]
    BY <1>9
  <2> QED  BY <1>1, <2>1, <2>2, RoomKept
<1>14. \A k \in Links : link'[k].status \in {"live", "used"} =>
         link[k].status \in {"live", "used"} /\ link'[k].user = link[k].user
  BY <1>5, <1>7, <1>8, <1>10
<1> QED  BY <1>8, <1>12, <1>13, <1>14

LEMMA PasswordCommitKept ==
  ASSUME IInv, NEW s \in Slots, PasswordCommit(s)
  PROVE  IInv'
<1> DEFINE r == request[s]
           u == r.user
           m == account[u]
           row == [m EXCEPT !.password = m.password + 1, !.attempts = 0, !.locked = None]
<1>1. /\ r.kind \in {"confirm", "password"} /\ m.exists /\ End(s)
      /\ r.kind = "confirm" => link[r.link].status # "gone"
      /\ account' = [account EXCEPT ![u] = row]
      /\ guesses' = [guesses EXCEPT ![u] = 0]
      /\ r.kind = "confirm" =>
           link' = [link EXCEPT ![r.link] =
                      [link[r.link] EXCEPT !.status = "used", !.used = r.at,
                                           !.uses = link[r.link].uses + 1]]
      /\ r.kind # "confirm" =>
           link' = [l \in Links |-> IF l \in LiveLinks(u)
                                    THEN [link[l] EXCEPT !.status = "gone"] ELSE link[l]]
      /\ UNCHANGED <<now, group, hits, allowed>>
  BY DEF PasswordCommit, Is, Exists
<1>2. /\ guesses \in [Users -> Nat] /\ account \in [Users -> AccountRow]
      /\ Shape /\ Whole /\ GuessesInv /\ RatesInv /\ request \in [Slots -> Form]
      /\ MaxFailed \in Nat \ {0} /\ MaxTime \in Nat /\ LockTime \in Nat
  BY Parameters DEF IInv, Shape
<1>3. u \in Users
  <2>1. r \in ConfirmForm \/ r \in PasswordForm
    BY <1>1, <1>2, FormFacts
  <2> HIDE DEF r
  <2> QED  BY <2>1 DEF ConfirmForm, PasswordForm
<1>4. m \in AccountRow
  BY <1>2, <1>3
<1>5. row \in AccountRow /\ row.exists = m.exists /\ row.active = m.active /\ row.groups = m.groups
  BY <1>4, PasswordRow
<1> HIDE DEF row
<1>6. /\ account' \in [Users -> AccountRow]
      /\ \A w \in Users : /\ account'[w].exists = account[w].exists
                          /\ account'[w].active = account[w].active
                          /\ account'[w].groups = account[w].groups
      /\ \A w \in Users \ {u} : account'[w] = account[w]
      /\ guesses' \in [Users -> Nat] /\ guesses'[u] = 0
      /\ \A w \in Users \ {u} : guesses'[w] = guesses[w]
  <2> HIDE DEF u
  <2> QED  BY <1>1, <1>2, <1>3, <1>5
<1>7. /\ request' \in [Slots -> Form] /\ load' \in 0 .. MaxLoad
      /\ \A x \in Slots : request'[x].kind \in {"login", "link", "confirm"} =>
           x # s /\ request'[x] = request[x]
      /\ \A w \in Users : \A x \in Failing(w) : x # s => request'[x] = request[x]
  BY <1>1, <1>2, EndedElse
<1>8. /\ link' \in [Links -> LinkRow] /\ UsesInv' /\ Room(link', request')
      /\ \A k \in Links : link'[k].status \in {"live", "used"} =>
           link[k].status \in {"live", "used"} /\ link'[k].user = link[k].user
  <2>1. CASE r.kind = "confirm"
    <3> DEFINE k == link[r.link]
               n == [k EXCEPT !.status = "used", !.used = r.at, !.uses = k.uses + 1]
    <3>1. k \in LinkRow /\ r.at \in Nat
      <4>1. r \in ConfirmForm /\ link \in [Links -> LinkRow]
        BY <1>2, <2>1, FormFacts DEF Shape
      <4> HIDE DEF r
      <4> QED  BY <1>2, <4>1 DEF ConfirmForm
    <3>2. link' = [link EXCEPT ![r.link] = n] /\ k.status # "gone"
      BY <1>1, <2>1
    <3>3. n \in LinkRow /\ n.status = "used" /\ n.user = k.user /\ n.uses = k.uses + 1
      BY <3>1, ServedRow
    <3> HIDE DEF n
    <3> QED  BY <1>1, <2>1, <3>2, <3>3, LinkServes
  <2>2. CASE r.kind # "confirm"
    <3>1. LiveLinks(u) \in SUBSET Links
      BY DEF LiveLinks
    <3>2. \A x \in Slots : request'[x].kind \in {"link", "confirm"} => request'[x] = request[x]
      BY <1>7
    <3>3. link' = [l \in Links |-> IF l \in LiveLinks(u)
                                   THEN [link[l] EXCEPT !.status = "gone"] ELSE link[l]]
      BY <1>1, <2>2
    <3>4. /\ link' \in [Links -> LinkRow] /\ UsesInv' /\ Room(link', request')
          /\ \A l \in Links : link'[l].status \in {"live", "used"} =>
               l \notin LiveLinks(u) /\ link'[l] = link[l]
      BY <3>1, <3>2, <3>3, LinksGo
    <3> QED  BY <3>4
  <2> QED  BY <2>1, <2>2
<1>9. Shape'
  BY <1>1, <1>2, <1>6, <1>7, <1>8 DEF Shape
<1>10. Whole'
  BY <1>1, <1>2, <1>6, <1>8 DEF Whole
<1>11. GuessesInv'
  <2>1. \A w \in Users : s \notin Failing(w)
    BY <1>1 DEF Failing, Logins
  <2>2. \A w \in Users :
           \/ guesses'[w] = 0
           \/ /\ guesses'[w] = guesses[w] /\ (account[w].exists => account'[w].exists)
              /\ \/ guesses[w] <= account'[w].attempts
                 \/ /\ account'[w].attempts = account[w].attempts
                    /\ \A x \in Failing(w) : request'[x] = request[x]
    BY <1>6, <1>7, <2>1
  <2>3. \A x \in Slots : request'[x].kind = "login" => request'[x] = request[x]
    BY <1>7
  <2> QED  BY <1>2, <1>6, <1>7, <2>2, <2>3, GuessesKept
<1>12. RatesInv'
  BY <1>1, <1>2, RatesSame
<1> QED  BY <1>8, <1>9, <1>10, <1>11, <1>12 DEF IInv, LinksInv

LEMMA PurgeLinksKept ==
  ASSUME IInv, PurgeLinks
  PROVE  IInv'
<1>1. PICK spent \in SUBSET Links :
        link' = [l \in Links |-> IF l \in spent THEN [link[l] EXCEPT !.status = "gone"] ELSE link[l]]
  BY DEF PurgeLinks
<1>2. UNCHANGED <<now, account, group, hits, request, allowed, guesses, load>>
  BY DEF PurgeLinks
<1>3. /\ link' \in [Links -> LinkRow] /\ UsesInv' /\ Room(link', request')
      /\ \A l \in Links : link'[l].status \in {"live", "used"} =>
           l \notin spent /\ link'[l] = link[l]
  BY <1>1, <1>2, LinksGo
<1>4. Shape' /\ Whole'
  BY <1>2, <1>3 DEF IInv, Shape, Whole
<1>5. GuessesInv'
  BY <1>2 DEF IInv, GuessesInv, Logins, Failing
<1>6. RatesInv'
  BY <1>2, RatesSame DEF IInv
<1> QED  BY <1>3, <1>4, <1>5, <1>6 DEF IInv, LinksInv

(* What a change of an account leaves: an account that exists has its      *)
(* counter, and only one that exists is active.                            *)
LEMMA OverAccount ==
  ASSUME NEW m \in AccountRow, NEW f \in UserChange, m.active => m.exists,
         "exists" \in DOMAIN f \/ m.exists
  PROVE  LET n == Over(f, m)
         IN  /\ n \in AccountRow /\ (n.active => n.exists)
             /\ n.exists => n.attempts = m.attempts
             /\ n.groups = IF "groups" \in DOMAIN f THEN f.groups ELSE m.groups
<1> DEFINE n == Over(f, m)
<1>1. CASE f \in [exists : {TRUE}, active : {TRUE}, groups : SUBSET Groups]
  BY <1>1 DEF Over, AccountRow
<1>2. CASE f \in [groups : SUBSET Groups]
  BY <1>2 DEF Over, AccountRow
<1>3. CASE f \in [active : BOOLEAN]
  BY <1>3 DEF Over, AccountRow
<1>4. CASE f = NoAccount
  <2>1. 0 \in Failures /\ None \in Locks
    BY Parameters DEF Failures, Locks, None
  <2> QED  BY <1>4, <2>1 DEF Over, AccountRow, NoAccount
<1> QED  BY <1>1, <1>2, <1>3, <1>4 DEF UserChange

LEMMA GroupsExist ==
  ASSUME Whole
  PROVE  \A w \in Users : \A g \in account[w].groups : group[g].exists
BY Zenon DEF Whole

LEMMA OverGroup ==
  ASSUME NEW m \in GroupRow, NEW f \in GroupChange
  PROVE  Over(f, m) \in GroupRow
BY DEF Over, GroupRow, GroupChange

(* No login counts less than it did: an account that goes starts again,    *)
(* and one that stays has its counter.                                     *)
LEMMA WriteCommitKept ==
  ASSUME IInv, NEW s \in Slots, WriteCommit(s)
  PROVE  IInv'
<1> DEFINE r == request[s]
<1>1. r.kind = "write" /\ End(s) /\ UNCHANGED <<now, hits, allowed>>
  BY DEF WriteCommit, Is
<1>2. /\ guesses \in [Users -> Nat] /\ account \in [Users -> AccountRow]
      /\ group \in [Groups -> GroupRow] /\ link \in [Links -> LinkRow]
      /\ Shape /\ Whole /\ GuessesInv /\ UsesInv /\ Room(link, request) /\ RatesInv
      /\ request \in [Slots -> Form]
  BY DEF IInv, Shape, LinksInv
<1>3. r \in UserForm \/ r \in GroupForm
  BY <1>1, <1>2, FormFacts
<1>4. /\ request' \in [Slots -> Form] /\ load' \in 0 .. MaxLoad
      /\ \A x \in Slots : request'[x].kind \in {"login", "link", "confirm"} =>
           x # s /\ request'[x] = request[x]
      /\ \A w \in Users : \A x \in Failing(w) : x # s => request'[x] = request[x]
  BY <1>1, <1>2, EndedElse
<1>5. \A w \in Users : s \notin Failing(w)
  BY <1>1 DEF Failing, Logins
<1>6. \A w \in Users : \A x \in Failing(w) : request'[x] = request[x]
  BY <1>4, <1>5
<1>7. \A x \in Slots : request'[x].kind = "login" => request'[x] = request[x]
  BY <1>4
<1>8. RatesInv'
  BY <1>1, <1>2, RatesSame
<1>9. CASE r \in UserForm
  <2> DEFINE u == r.user
             f == r.fields
             n == Over(f, account[u])
             gone == {l \in LiveLinks(u) : ~account'[u].exists}
  <2>1. u \in Users /\ f \in UserChange /\ "user" \in DOMAIN r
    BY <1>9, WriteFacts
  <2>2. /\ "exists" \in DOMAIN f \/ account[u].exists
        /\ "groups" \in DOMAIN f => \A g \in f.groups : group[g].exists
        /\ account' = [account EXCEPT ![u] = n]
        /\ link' = [l \in Links |-> IF l \in LiveLinks(u) /\ ~account'[u].exists
                                    THEN [link[l] EXCEPT !.status = "gone"] ELSE link[l]]
        /\ guesses' = [w \in Users |-> IF account'[w].exists THEN guesses[w] ELSE 0]
        /\ group' = group
    BY <2>1 DEF WriteCommit, Exists
  <2>3. account[u] \in AccountRow /\ (account[u].active => account[u].exists)
    BY <1>2, <2>1 DEF Whole
  <2>4. /\ n \in AccountRow /\ (n.active => n.exists)
        /\ n.exists => n.attempts = account[u].attempts
        /\ n.groups = IF "groups" \in DOMAIN f THEN f.groups ELSE account[u].groups
    BY <2>1, <2>2, <2>3, OverAccount
  <2> HIDE DEF n
  <2>5. /\ account' \in [Users -> AccountRow] /\ account'[u] = n
        /\ \A w \in Users \ {u} : account'[w] = account[w]
    <3> HIDE DEF u
    <3> QED  BY <1>2, <2>1, <2>2, <2>4
  <2>6. /\ link' \in [Links -> LinkRow] /\ UsesInv' /\ Room(link', request')
        /\ \A l \in Links : link'[l].status \in {"live", "used"} =>
             l \notin gone /\ link'[l] = link[l]
    <3>1. gone \in SUBSET Links
      BY DEF LiveLinks
    <3>2. link' = [l \in Links |-> IF l \in gone THEN [link[l] EXCEPT !.status = "gone"]
                                   ELSE link[l]]
      BY <2>2
    <3>3. \A x \in Slots : request'[x].kind \in {"link", "confirm"} => request'[x] = request[x]
      BY <1>4
    <3> HIDE DEF gone
    <3> QED  BY <3>1, <3>2, <3>3, LinksGo
  <2>7. guesses' \in [Users -> Nat]
    BY <1>2, <2>2
  <2>8. Shape'
    BY <1>1, <1>2, <1>4, <2>2, <2>5, <2>6, <2>7 DEF Shape
  <2>9. Whole'
    <3>1. \A w \in Users : account'[w].active => account'[w].exists
      BY <1>2, <2>4, <2>5 DEF Whole
    <3>2. \A w \in Users : \A g \in account'[w].groups : group'[g].exists
      <4>1. \A w \in Users : \A g \in account[w].groups : group[g].exists
        BY <1>2, GroupsExist
      <4>2. CASE "groups" \in DOMAIN f
        <5>1. n.groups = f.groups /\ \A g \in f.groups : group[g].exists
          BY <2>2, <2>4, <4>2
        <5> HIDE DEF f, u
        <5> QED  BY <2>2, <2>5, <4>1, <5>1
      <4>3. CASE "groups" \notin DOMAIN f
        <5>1. n.groups = account[u].groups
          BY <2>4, <4>3
        <5> HIDE DEF f, u
        <5> QED  BY <2>1, <2>2, <2>5, <4>1, <5>1
      <4> QED  BY <4>2, <4>3
    <3>3. ASSUME NEW l \in Links, link'[l].status \in {"live", "used"}
          PROVE  link'[l].user \in Users /\ account'[link'[l].user].exists
      <4>1. /\ l \notin gone /\ link'[l] = link[l] /\ link[l].user \in Users
            /\ account[link[l].user].exists
        BY <1>2, <2>6, <3>3 DEF Whole
      <4>2. CASE link[l].user = u
        <5>1. l \in LiveLinks(u)
          BY <3>3, <4>1, <4>2 DEF LiveLinks
        <5>2. account'[u].exists
          BY <4>1, <5>1
        <5> QED  BY <4>1, <4>2, <5>2
      <4>3. CASE link[l].user # u
        BY <2>5, <4>1, <4>3
      <4> QED  BY <4>2, <4>3
    <3> QED  BY <1>2, <2>2, <3>1, <3>2, <3>3 DEF Whole
  <2>10. GuessesInv'
    <3>1. ASSUME NEW w \in Users
          PROVE  \/ guesses'[w] = 0
                 \/ /\ guesses'[w] = guesses[w] /\ (account[w].exists => account'[w].exists)
                    /\ \/ guesses[w] <= account'[w].attempts
                       \/ /\ account'[w].attempts = account[w].attempts
                          /\ \A x \in Failing(w) : request'[x] = request[x]
      <4>1. CASE ~account'[w].exists
        BY <2>2, <4>1
      <4>2. CASE account'[w].exists
        <5>1. guesses'[w] = guesses[w]
          BY <2>2, <4>2
        <5>2. account'[w].attempts = account[w].attempts
          BY <2>4, <2>5, <4>2
        <5> QED  BY <1>6, <4>2, <5>1, <5>2
      <4> QED  BY <4>1, <4>2
    <3> QED  BY <1>2, <1>4, <1>7, <2>5, <3>1, GuessesKept
  <2> QED  BY <1>8, <2>6, <2>8, <2>9, <2>10 DEF IInv, LinksInv
<1>10. CASE r \in GroupForm
  <2> DEFINE g == r.group
             n == Over(r.fields, group[g])
  <2>1. g \in Groups \ {Admins} /\ r.fields \in GroupChange /\ "user" \notin DOMAIN r
    BY <1>10, WriteFacts
  <2>2. /\ group' = [group EXCEPT ![g] = n]
        /\ account' = [u \in Users |->
             [account[u] EXCEPT !.groups = Kept(account[u].groups, group')]]
        /\ UNCHANGED <<link, guesses>>
    BY <2>1 DEF WriteCommit
  <2>3. n \in GroupRow
    BY <1>2, <2>1, OverGroup
  <2> HIDE DEF n
  <2>4. group' \in [Groups -> GroupRow] /\ group'[Admins] = group[Admins]
    <3>1. Admins \in Groups
      BY AccountsAssumption
    <3> HIDE DEF g
    <3> QED  BY <1>2, <2>1, <2>2, <2>3, <3>1
  <2>5. ASSUME NEW u \in Users
        PROVE  /\ account'[u] \in AccountRow /\ account'[u].exists = account[u].exists
               /\ account'[u].active = account[u].active
               /\ account'[u].attempts = account[u].attempts
               /\ account'[u].groups = Kept(account[u].groups, group')
    <3> DEFINE m == account[u]
               kept == Kept(m.groups, group')
    <3>1. account'[u] = [m EXCEPT !.groups = kept] /\ m \in AccountRow
      BY <1>2, <2>2
    <3>2. kept \in SUBSET Groups
      <4>1. m.groups \in SUBSET Groups
        BY <3>1 DEF AccountRow
      <4> QED  BY <4>1 DEF Kept
    <3> HIDE DEF kept, m
    <3>3. /\ account'[u] \in AccountRow /\ account'[u].exists = m.exists
          /\ account'[u].active = m.active /\ account'[u].attempts = m.attempts
          /\ account'[u].groups = kept
      BY <3>1, <3>2 DEF AccountRow
    <3> QED  BY <3>3 DEF m, kept
  <2>6. account' \in [Users -> AccountRow]
    <3>1. \A u \in Users : account'[u] \in AccountRow
      BY <2>5
    <3>2. account' = [u \in Users |-> account'[u]]
      BY <2>2
    <3> QED  BY <3>1, <3>2
  <2>7. Shape'
    BY <1>1, <1>2, <1>4, <2>2, <2>4, <2>6 DEF Shape
  <2>8. Whole'
    <3>1. \A u \in Users : \A x \in account'[u].groups : group'[x].exists
      BY <2>5 DEF Kept
    <3>2. \A u \in Users : account'[u].active => account'[u].exists
      BY <1>2, <2>5 DEF Whole
    <3>3. \A l \in Links : link'[l].status \in {"live", "used"} =>
            link'[l].user \in Users /\ account'[link'[l].user].exists
      BY <1>2, <2>2, <2>5 DEF Whole
    <3> QED  BY <1>2, <2>4, <3>1, <3>2, <3>3 DEF Whole
  <2>9. GuessesInv'
    <3>1. \A w \in Users :
            \/ guesses'[w] = 0
            \/ /\ guesses'[w] = guesses[w] /\ (account[w].exists => account'[w].exists)
               /\ \/ guesses[w] <= account'[w].attempts
                  \/ /\ account'[w].attempts = account[w].attempts
                     /\ \A x \in Failing(w) : request'[x] = request[x]
      BY <1>6, <2>2, <2>5
    <3> QED  BY <1>2, <1>4, <1>7, <2>6, <3>1, GuessesKept
  <2>10. UsesInv' /\ Room(link', request')
    <3>1. /\ \A x \in Slots : request'[x].kind = "confirm" => request'[x] = request[x]
          /\ \A x \in Slots : request'[x].kind = "link" => request'[x] = request[x]
      BY <1>4
    <3>2. /\ \A l \in Links :
               /\ link'[l].uses = link[l].uses
               /\ link'[l].status \in {"none", "live"} => link[l].status \in {"none", "live"}
               /\ link[l].status # "none" =>
                    link'[l].status # "none" /\ link'[l].user = link[l].user
          /\ \A l \in Links : link'[l].status = "live" =>
               link[l].status = "live" /\ link'[l].user = link[l].user
      BY <2>2
    <3>3. UsesInv'
      BY <1>2, <3>1, <3>2, UsesKept
    <3>4. Room(link', request')
      BY <1>2, <3>1, <3>2, RoomKept
    <3> QED  BY <3>3, <3>4
  <2> QED  BY <1>8, <2>7, <2>8, <2>9, <2>10 DEF IInv, LinksInv
<1> QED  BY <1>3, <1>9, <1>10

LEMMA AbortKept ==
  ASSUME IInv, NEW s \in Slots, Abort(s)
  PROVE  IInv'
<1> DEFINE r == request[s]
<1>1. /\ End(s) /\ UNCHANGED <<now, account, group, link, hits, allowed>>
      /\ r.kind = "login" => guesses' = [guesses EXCEPT ![r.user] = 0]
      /\ r.kind # "login" => guesses' = guesses
  BY DEF Abort, Is
<1>2. /\ guesses \in [Users -> Nat] /\ account \in [Users -> AccountRow]
      /\ Shape /\ Whole /\ GuessesInv /\ UsesInv /\ Room(link, request) /\ RatesInv
      /\ link \in [Links -> LinkRow] /\ request \in [Slots -> Form]
  BY DEF IInv, Shape, LinksInv
<1>3. /\ request' \in [Slots -> Form] /\ load' \in 0 .. MaxLoad
      /\ \A x \in Slots : request'[x].kind \in {"login", "link", "confirm"} =>
           x # s /\ request'[x] = request[x]
      /\ \A w \in Users : \A x \in Failing(w) : x # s => request'[x] = request[x]
  BY <1>1, <1>2, EndedElse
<1>4. /\ guesses' \in [Users -> Nat]
      /\ \A w \in Users : guesses'[w] = 0 \/ (guesses'[w] = guesses[w] /\ s \notin Failing(w))
  <2>1. CASE r.kind = "login"
    <3>1. r.user \in Users
      <4>1. r \in LoginForm
        BY <1>2, <2>1, FormFacts
      <4> HIDE DEF r
      <4> QED  BY <4>1 DEF LoginForm
    <3>2. \A w \in Users : w # r.user => s \notin Failing(w)
      BY DEF Failing, Logins
    <3> QED  BY <1>1, <1>2, <2>1, <3>1, <3>2
  <2>2. CASE r.kind # "login"
    BY <1>1, <1>2, <2>2 DEF Failing, Logins
  <2> QED  BY <2>1, <2>2
<1>5. Shape' /\ Whole'
  BY <1>1, <1>2, <1>3, <1>4 DEF Shape, Whole
<1>6. GuessesInv'
  <2>1. \A w \in Users :
          \/ guesses'[w] = 0
          \/ /\ guesses'[w] = guesses[w] /\ (account[w].exists => account'[w].exists)
             /\ \/ guesses[w] <= account'[w].attempts
                \/ /\ account'[w].attempts = account[w].attempts
                   /\ \A x \in Failing(w) : request'[x] = request[x]
    BY <1>1, <1>3, <1>4
  <2>2. \A x \in Slots : request'[x].kind = "login" => request'[x] = request[x]
    BY <1>3
  <2>3. account' \in [Users -> AccountRow]
    BY <1>1, <1>2
  <2> QED  BY <1>2, <1>3, <2>1, <2>2, <2>3, GuessesKept
<1>7. UsesInv' /\ Room(link', request')
  <2>1. /\ \A x \in Slots : request'[x].kind = "confirm" => request'[x] = request[x]
        /\ \A x \in Slots : request'[x].kind = "link" => request'[x] = request[x]
    BY <1>3
  <2>2. /\ \A l \in Links :
             /\ link'[l].uses = link[l].uses
             /\ link'[l].status \in {"none", "live"} => link[l].status \in {"none", "live"}
             /\ link[l].status # "none" =>
                  link'[l].status # "none" /\ link'[l].user = link[l].user
        /\ \A l \in Links : link'[l].status = "live" =>
             link[l].status = "live" /\ link'[l].user = link[l].user
    BY <1>1
  <2>3. UsesInv'
    BY <1>2, <2>1, <2>2, UsesKept
  <2>4. Room(link', request')
    BY <1>2, <2>1, <2>2, RoomKept
  <2> QED  BY <2>3, <2>4
<1>8. RatesInv'
  BY <1>1, <1>2, RatesSame
<1> QED  BY <1>5, <1>6, <1>7, <1>8 DEF IInv, LinksInv

LEMMA TickKept ==
  ASSUME IInv, Tick
  PROVE  IInv'
<1>1. /\ now < MaxTime /\ now' = now + 1
      /\ UNCHANGED <<account, group, link, hits, request, allowed, guesses, load>>
  BY DEF Tick
<1>2. now \in 1 .. MaxTime /\ MaxTime \in Nat
  BY Parameters DEF IInv, Shape
<1>3. now' \in 1 .. MaxTime /\ now \in Nat
  BY <1>1, <1>2
<1>4. Shape' /\ Whole'
  BY <1>1, <1>3 DEF IInv, Shape, Whole
<1>5. GuessesInv'
  BY <1>1 DEF IInv, GuessesInv, Logins, Failing
<1>6. UsesInv' /\ Room(link', request')
  BY <1>1 DEF IInv, LinksInv, UsesInv
<1>7. RatesInv'
  BY <1>1, <1>3, RatesTick DEF IInv
<1> QED  BY <1>4, <1>5, <1>6, <1>7 DEF IInv, LinksInv

LEMMA StutterKept ==
  ASSUME IInv, UNCHANGED vars
  PROVE  IInv'
<1>1. UNCHANGED <<now, account, group, link, hits, request, allowed, guesses, load>>
  BY DEF vars
<1>2. Shape' /\ Whole'
  BY <1>1 DEF IInv, Shape, Whole
<1>3. GuessesInv'
  BY <1>1 DEF IInv, GuessesInv, Logins, Failing
<1>4. UsesInv' /\ Room(link', request')
  BY <1>1 DEF IInv, LinksInv, UsesInv
<1>5. RatesInv'
  BY <1>1, RatesSame DEF IInv
<1> QED  BY <1>2, <1>3, <1>4, <1>5 DEF IInv, LinksInv

LEMMA NextIInv == IInv /\ [Next]_vars => IInv'
<1> SUFFICES ASSUME IInv, [Next]_vars
             PROVE  IInv'
  OBVIOUS
<1>1. CASE Tick
  BY <1>1, TickKept
<1>2. CASE PurgeLinks
  BY <1>2, PurgeLinksKept
<1>3. ASSUME NEW s \in Slots, NEW a \in Addresses, NEW u \in Users,
             RequestLink(s, a, u) \/ \E right \in BOOLEAN : Login(s, a, u, right)
      PROVE  IInv'
  BY <1>3, RequestLinkKept, LoginKept
<1>4. ASSUME NEW s \in Slots, NEW l \in Links, ConfirmReset(s, l)
      PROVE  IInv'
  BY <1>4, ConfirmResetKept
<1>5. ASSUME NEW s \in Slots, NEW u \in Users,
             ChangePassword(s, u) \/ \E by \in {x \in Users : MayWrite(x)} : ResetPassword(s, by, u)
      PROVE  IInv'
  <2>1. ChangePassword(s, u) \/ \E by \in Users : ResetPassword(s, by, u)
    BY <1>5
  <2> QED  BY <2>1, PasswordKept
<1>6. ASSUME NEW s \in Slots, Administer(s)
      PROVE  IInv'
  BY <1>6, AdministerKept
<1>7. ASSUME NEW s \in Slots,
             LoginCommit(s) \/ RequestLinkCommit(s) \/ PasswordCommit(s) \/ WriteCommit(s)
               \/ Abort(s)
      PROVE  IInv'
  BY <1>7, LoginCommitKept, RequestLinkCommitKept, PasswordCommitKept, WriteCommitKept, AbortKept
<1>8. CASE UNCHANGED vars
  BY <1>8, StutterKept
<1> QED  BY <1>1, <1>2, <1>3, <1>4, <1>5, <1>6, <1>7, <1>8 DEF Next

LEMMA InitIInv == Init => IInv
<1> SUFFICES ASSUME Init
             PROVE  IInv
  OBVIOUS
<1>1. /\ MaxFailed \in Nat \ {0} /\ MaxTime \in Nat \ {0} /\ LockTime \in Nat /\ MaxLoad \in Nat
      /\ Cardinality(Slots) \in Nat
  BY Parameters
<1>2. /\ now = 1 /\ load = 0 /\ link = [l \in Links |-> NoLink]
      /\ request = [s \in Slots |-> Free] /\ guesses = [u \in Users |-> 0]
      /\ hits = [s \in Surfaces |-> [a \in Addresses |-> <<>>]] /\ allowed = hits
  BY DEF Init
<1>3. /\ NoAccount \in AccountRow /\ NoAccount.groups = {} /\ ~NoAccount.exists
      /\ ~NoAccount.active
  <2>1. 0 \in Failures /\ None \in Locks
    BY <1>1 DEF Failures, Locks, None
  <2> QED  BY <2>1 DEF NoAccount, AccountRow
<1>4. ASSUME NEW u \in Users
      PROVE  /\ account[u] \in AccountRow /\ (account[u].active => account[u].exists)
             /\ account[u].groups = Member[u] /\ account[u].attempts \in Nat
  <2> DEFINE m == NoAccount
             gs == Member[u]
  <2>1. gs \in SUBSET Groups
    BY AccountsAssumption
  <2>2. account[u] = IF gs = {} THEN m
                     ELSE [m EXCEPT !.exists = TRUE, !.active = TRUE, !.groups = gs]
    BY DEF Init
  <2>3. m \in AccountRow /\ m.groups = {} /\ ~m.exists /\ ~m.active
    BY <1>3
  <2> HIDE DEF m, gs
  <2>4. /\ account[u] \in AccountRow /\ (account[u].active => account[u].exists)
        /\ account[u].groups = gs
    <3>1. CASE gs = {}
      BY <2>2, <2>3, <3>1
    <3>2. CASE gs # {}
      <4>1. account[u] = [m EXCEPT !.exists = TRUE, !.active = TRUE, !.groups = gs]
        BY <2>2, <3>2
      <4> QED  BY <2>1, <2>3, <4>1 DEF AccountRow
    <3> QED  BY <3>1, <3>2
  <2>5. account[u].attempts \in Nat
    BY <1>1, <2>4 DEF AccountRow, Failures
  <2> QED  BY <2>4, <2>5 DEF gs
<1>5. account \in [Users -> AccountRow]
  <2>1. account = [u \in Users |-> account[u]]
    BY DEF Init
  <2> QED  BY <1>4, <2>1
<1>6. ASSUME NEW g \in Groups
      PROVE  group[g] \in GroupRow /\ group[g].exists = (g = Admins \/ g \in Composed)
  <2>1. /\ g \in Composed => Grants[g] \in SUBSET Catalogue /\ Confined[g] \in SUBSET Places
        /\ group[g] = [exists |-> g = Admins \/ g \in Composed,
                       grants |-> IF g \in Composed THEN Grants[g] ELSE {},
                       scope  |-> IF g \in Composed THEN Confined[g] ELSE {}]
    BY AccountsAssumption DEF Init
  <2> QED  BY <2>1 DEF GroupRow
<1>7. group \in [Groups -> GroupRow]
  <2>1. group = [g \in Groups |-> group[g]]
    BY DEF Init
  <2> QED  BY <1>6, <2>1
<1>8. NoLink \in LinkRow /\ NoLink.status = "none" /\ NoLink.uses = 0
  BY DEF NoLink, LinkRow
<1>9. Shape
  BY <1>1, <1>2, <1>5, <1>7, <1>8, FreeForm DEF Shape
<1>10. Whole
  <2>1. Admins \in Groups /\ group[Admins].exists
    BY <1>6, AccountsAssumption
  <2>2. ASSUME NEW u \in Users, NEW g \in account[u].groups
        PROVE  group[g].exists
    <3>1. Member[u] \in SUBSET (Composed \cup {Admins}) /\ Composed \subseteq Groups
      BY AccountsAssumption
    <3>2. g \in Member[u]
      BY <1>4
    <3>3. g \in Groups /\ (g = Admins \/ g \in Composed)
      BY <2>1, <3>1, <3>2
    <3> QED  BY <1>6, <3>3
  <2>3. \A l \in Links : link[l].status = "none"
    BY <1>2, <1>8
  <2> QED  BY <1>4, <2>1, <2>2, <2>3 DEF Whole
<1>11. \A s \in Slots : request[s].kind = "free"
  BY <1>2, FreeForm
<1>12. GuessesInv
  <2>1. \A u \in Users : Logins(u) = {} /\ Failing(u) = {} /\ guesses[u] = 0
    BY <1>2, <1>11 DEF Logins, Failing
  <2> QED  BY <1>4, <1>11, <2>1 DEF GuessesInv
<1>13. UsesInv
  <2>1. \A l \in Links : Confirms(request, l) = {}
    BY <1>11 DEF Confirms
  <2>2. Cardinality({}) = 0
    BY FS_EmptySet
  <2>3. \A l \in Links : link[l].uses = 0
    BY <1>2, <1>8
  <2>4. \A l \in Links : Cardinality(Confirms(request, l)) = 0
    BY <2>1, <2>2
  <2>5. \A l \in Links : link[l].uses + Cardinality(Confirms(request, l)) <= Cardinality(Slots)
    BY <1>1, <2>3, <2>4
  <2> QED  BY <2>1, <2>3, <2>5 DEF UsesInv
<1>14. Room(link, request)
  <2>1. \A u \in Users : Live(link, u) = {}
    BY <1>2, <1>8 DEF Live
  <2> QED  BY <2>1 DEF Room
<1>15. RatesInv
  <2>1. <<>> \in Seq(Nat) /\ Len(<<>>) = 0
    OBVIOUS
  <2>2. EndOf(<<>>, <<>>) /\ Ordered(<<>>) /\ \A most \in Nat : Spaced(<<>>, most)
    BY <2>1 DEF EndOf, Ordered, Spaced
  <2>3. \A f \in Surfaces, a \in Addresses : hits[f][a] = <<>> /\ allowed[f][a] = <<>>
    BY <1>2
  <2>4. /\ hits \in [Surfaces -> [Addresses -> Seq(Nat)]]
        /\ allowed \in [Surfaces -> [Addresses -> Seq(Nat)]]
    BY <1>2, <2>1
  <2>5. \A f \in Surfaces : MaxHits[f] \in Nat
    BY Parameters
  <2> QED  BY <2>2, <2>3, <2>4, <2>5 DEF RatesInv
<1> QED  BY <1>9, <1>10, <1>12, <1>13, <1>14, <1>15 DEF IInv, LinksInv

(***************************************************************************)
(* Who may give what: a request that nobody wrote rights under since it    *)
(* began stands within what its caller holds.                              *)
(***************************************************************************)

\* What a group grants, and where, is held by me.
Covers(me, row, g) ==
  GroupPermissions(row, g) \subseteq me.permissions /\ GroupScope(row, g) \subseteq me.scope

Within(me, rows, gs) == \A g \in gs : g # Admins /\ Covers(me, rows[g], g)

\* What the guards of a request found, of the rights as they are.
Permitted(r, accounts, rows) ==
  LET me == GroupsAuthority(rows, accounts[r.by].groups)
  IN  ~me.admin =>
        /\ r.kind = "password" /\ r.by # None => Within(me, rows, accounts[r.user].groups)
        /\ r \in UserForm =>
             /\ Within(me, rows, accounts[r.user].groups)
             /\ "groups" \in DOMAIN r.fields => Within(me, rows, r.fields.groups)
        /\ r \in GroupForm =>
             /\ rows[r.group].exists => Covers(me, rows[r.group], r.group)
             /\ "grants" \in DOMAIN r.fields => Covers(me, r.fields, r.group)

\* An account that does not exist is in no group.
Vacant == \A u \in Users : ~account[u].exists => account[u].groups = {}

RightsInv == Vacant /\ \A s \in Slots \ overtaken : Permitted(request[s], account, group)

LEMMA EscalatesIs ==
  ASSUME NEW me, NEW rows, NEW gs
  PROVE  Escalates(me, GroupsAuthority(rows, gs)) <=> ~me.admin /\ ~Within(me, rows, gs)
<1> DEFINE it == GroupsAuthority(rows, gs)
<1>1. /\ it.permissions = UNION {GroupPermissions(rows[g], g) : g \in gs}
      /\ it.scope = UNION {GroupScope(rows[g], g) : g \in gs}
      /\ it.admin <=> Admins \in gs
  BY DEF GroupsAuthority
<1> HIDE DEF it
<1>2. it.permissions \subseteq me.permissions /\ it.scope \subseteq me.scope
        <=> \A g \in gs : Covers(me, rows[g], g)
  BY <1>1 DEF Covers
<1>3. Escalates(me, it) <=> /\ ~me.admin
                            /\ ~(it.permissions \subseteq me.permissions /\ it.scope \subseteq me.scope
                                   /\ ~it.admin)
  BY DEF Escalates
<1>4. Within(me, rows, gs) <=> (\A g \in gs : Covers(me, rows[g], g)) /\ Admins \notin gs
  BY DEF Within
<1> QED  BY <1>1, <1>2, <1>3, <1>4 DEF it

\* An account whose groups, and what they grant, change within what me holds.
LEMMA Reached ==
  ASSUME NEW me, ~me.admin, NEW u \in Users,
         Admins \in account[u].groups <=> Admins \in account'[u].groups,
         \A g \in account'[u].groups : \/ g \in account[u].groups /\ group'[g] = group[g]
                                       \/ Covers(me, group'[g], g),
         \A g \in account[u].groups : \/ g \in account'[u].groups /\ group'[g] = group[g]
                                      \/ Covers(me, group[g], g),
         ~Within(me, group, account[u].groups) =>
           account'[u].password = account[u].password /\ account'[u].active = account[u].active
  PROVE  Reaches(me, u)
<1> DEFINE was == GroupsAuthority(group, account[u].groups)
           is  == GroupsAuthority(group', account'[u].groups)
<1>1. /\ was.permissions = UNION {GroupPermissions(group[g], g) : g \in account[u].groups}
      /\ was.scope = UNION {GroupScope(group[g], g) : g \in account[u].groups}
      /\ was.admin = (Admins \in account[u].groups)
      /\ is.permissions = UNION {GroupPermissions(group'[g], g) : g \in account'[u].groups}
      /\ is.scope = UNION {GroupScope(group'[g], g) : g \in account'[u].groups}
      /\ is.admin = (Admins \in account'[u].groups)
  BY DEF GroupsAuthority
<1>2. Authority(u) = was
  BY DEF Authority
<1>3. Escalates(me, was) => ~Within(me, group, account[u].groups)
  BY EscalatesIs
<1> HIDE DEF was, is
<1>4. is.permissions \subseteq was.permissions \cup me.permissions
  BY <1>1 DEF Covers
<1>5. is.scope \subseteq was.scope \cup me.scope
  BY <1>1 DEF Covers
<1>6. was.permissions \ is.permissions \subseteq me.permissions
  BY <1>1 DEF Covers
<1>7. is.admin = was.admin
  BY <1>1
<1> QED  BY <1>2, <1>3, <1>4, <1>5, <1>6, <1>7 DEF Reaches, is

\* One whose groups are as they were, with what they grant.
LEMMA ReachedNot ==
  ASSUME NEW me, ~me.admin, NEW u \in Users, account'[u].groups = account[u].groups,
         \A g \in account[u].groups : group'[g] = group[g],
         ~Within(me, group, account[u].groups) =>
           account'[u].password = account[u].password /\ account'[u].active = account[u].active
  PROVE  Reaches(me, u)
BY Reached

\* What the guards found stands while the memberships and the groups do.
LEMMA PermittedStands ==
  ASSUME NEW r \in Form, Permitted(r, account, group), group' = group,
         \A u \in Users : account'[u].groups = account[u].groups
  PROVE  Permitted(r, account', group')
<1>1. CASE r \in UserForm
  <2>1. r.kind = "write" /\ r.by \in Users /\ r.user \in Users /\ r \notin GroupForm
    BY <1>1 DEF UserForm, GroupForm
  <2> QED  BY <1>1, <2>1 DEF Permitted
<1>2. CASE r \in GroupForm
  <2>1. r.kind = "write" /\ r.by \in Users /\ r \notin UserForm
    BY <1>2 DEF UserForm, GroupForm
  <2> QED  BY <1>2, <2>1 DEF Permitted
<1>3. CASE r.kind = "password" /\ r.by # None
  <2>1. r \in PasswordForm /\ r \notin UserForm /\ r \notin GroupForm
    BY <1>3, FormFacts DEF UserForm, GroupForm
  <2>2. r.by \in Users /\ r.user \in Users
    BY <1>3, <2>1 DEF PasswordForm
  <2> QED  BY <1>3, <2>1, <2>2 DEF Permitted
<1> QED  BY <1>1, <1>2, <1>3 DEF Permitted

LEMMA Harmless ==
  ASSUME NEW r, r.kind # "write", r.kind = "password" => r.by = None, NEW accounts, NEW rows
  PROVE  Permitted(r, accounts, rows)
BY DEF Permitted, UserForm, GroupForm

\* A step that leaves the memberships and the groups as they are.
LEMMA RightsStand ==
  ASSUME IInv, RightsInv, group' = group,
         \A u \in Users : /\ account'[u].groups = account[u].groups
                          /\ account'[u].exists = account[u].exists,
         \A x \in Slots \ overtaken' : \/ x \notin overtaken /\ request'[x] = request[x]
                                       \/ Permitted(request'[x], account', group')
  PROVE  RightsInv'
<1>1. ASSUME NEW x \in Slots \ overtaken', x \notin overtaken, request'[x] = request[x]
      PROVE  Permitted(request'[x], account', group')
  <2>1. request[x] \in Form /\ Permitted(request[x], account, group)
    BY <1>1 DEF IInv, Shape, RightsInv
  <2> QED  BY <1>1, <2>1, PermittedStands
<1>2. Vacant'
  BY DEF RightsInv, Vacant
<1> QED  BY <1>1, <1>2 DEF RightsInv

\* A request that begins, with what its guards found.
LEMMA RightsBegun ==
  ASSUME IInv, RightsInv, NEW s \in Slots, NEW class, NEW r, Begin(s, class, r),
         UNCHANGED <<account, group, overtaken>>, Permitted(r, account, group)
  PROVE  RightsInv'
<1>1. request'[s] = r /\ \A x \in Slots \ {s} : request'[x] = request[x]
  BY DEF Begin, IInv, Shape
<1> QED  BY <1>1, RightsStand

\* One that ends with no write of rights.
LEMMA RightsEnded ==
  ASSUME IInv, RightsInv, NEW s \in Slots, End(s), group' = group,
         overtaken' = overtaken \/ overtaken' = overtaken \ {s},
         \A u \in Users : /\ account'[u].groups = account[u].groups
                          /\ account'[u].exists = account[u].exists
  PROVE  RightsInv'
<1>1. request'[s] = Free /\ \A x \in Slots \ {s} : request'[x] = request[x]
  BY DEF End, IInv, Shape
<1>2. Permitted(Free, account', group')
  BY FreeForm, Harmless
<1> QED  BY <1>1, <1>2, RightsStand

LEMMA ResetPermitted ==
  ASSUME NEW s \in Slots, NEW by \in Users, NEW u \in Users, ResetPassword(s, by, u)
  PROVE  Permitted([kind |-> "password", user |-> u, by |-> by, at |-> now], account, group)
<1> DEFINE r == [kind |-> "password", user |-> u, by |-> by, at |-> now]
<1>1. r.kind = "password" /\ r.by = by /\ r.user = u /\ r \notin UserForm /\ r \notin GroupForm
  BY DEF UserForm, GroupForm
<1>2. ~Escalates(Authority(by), GroupsAuthority(group, account[u].groups))
  BY DEF ResetPassword, Authority
<1> HIDE DEF r
<1>3. ~Authority(by).admin => Within(Authority(by), group, account[u].groups)
  BY <1>2, EscalatesIs
<1>4. Permitted(r, account, group)
  BY <1>1, <1>3 DEF Permitted, Authority
<1> QED  BY <1>4 DEF r

LEMMA OnUserPermitted ==
  ASSUME NEW by \in Users, NEW u \in Users, NEW fields,
         ~Authority(by).admin =>
           /\ Within(Authority(by), group, account[u].groups)
           /\ "groups" \in DOMAIN fields => Within(Authority(by), group, fields.groups)
  PROVE  Permitted(OnUser(by, u, fields), account, group)
<1> DEFINE r == OnUser(by, u, fields)
<1>1. r.kind = "write" /\ r.by = by /\ r.user = u /\ r.fields = fields /\ r \notin GroupForm
  BY DEF OnUser, GroupForm
<1> HIDE DEF r
<1>2. Permitted(r, account, group)
  BY <1>1 DEF Permitted, Authority
<1> QED  BY <1>2 DEF r

LEMMA OnGroupPermitted ==
  ASSUME NEW by \in Users, NEW g \in Groups, NEW fields,
         ~Authority(by).admin =>
           /\ group[g].exists => Covers(Authority(by), group[g], g)
           /\ "grants" \in DOMAIN fields => Covers(Authority(by), fields, g)
  PROVE  Permitted(OnGroup(by, g, fields), account, group)
<1> DEFINE r == OnGroup(by, g, fields)
<1>1. r.kind = "write" /\ r.by = by /\ r.group = g /\ r.fields = fields /\ r \notin UserForm
  BY DEF OnGroup, UserForm
<1> HIDE DEF r
<1>2. Permitted(r, account, group)
  BY <1>1 DEF Permitted, Authority
<1> QED  BY <1>2 DEF r

\* What is granted by the columns of a group, and where, is theirs to say.
LEMMA CoversColumns ==
  ASSUME NEW me, NEW m \in GroupRow, NEW fields, NEW g, {"grants", "scope"} \subseteq DOMAIN fields,
         Covers(me, Over(fields, m), g)
  PROVE  Covers(me, fields, g)
<1>1. Over(fields, m).grants = fields.grants /\ Over(fields, m).scope = fields.scope
  BY DEF Over, GroupRow
<1> QED  BY <1>1 DEF Covers, GroupPermissions, GroupScope

LEMMA GuardedRights ==
  ASSUME IInv, RightsInv, NEW s \in Slots, NEW accounts, NEW rows, NEW r,
         Guarded(s, accounts, rows, r), Permitted(r, account, group)
  PROVE  RightsInv'
<1>1. Begin(s, "write", r) /\ UNCHANGED <<account, group, overtaken>>
  BY DEF Guarded
<1> QED  BY <1>1, RightsBegun

LEMMA AdministerRights ==
  ASSUME IInv, RightsInv, NEW s \in Slots, Administer(s)
  PROVE  RightsInv'
<1>1. PICK by \in Users :
    \/ \E u \in Users : \/ \E gs \in SUBSET Groups : CreateUser(s, by, u, gs)
                        \/ \E fields \in UserFields : UpdateUser(s, by, u, fields)
                        \/ DeleteUser(s, by, u)
    \/ \E g \in Groups :
         \/ \E fields \in GroupFields : CreateGroup(s, by, g, fields) \/ UpdateGroup(s, by, g, fields)
         \/ DeleteGroup(s, by, g)
  BY DEF Administer
<1> DEFINE me == Authority(by)
<1>2. \A rows, gs : ~Escalates(me, GroupsAuthority(rows, gs)) /\ ~me.admin => Within(me, rows, gs)
  BY EscalatesIs
<1>3. \A u \in Users : ~Escalates(me, Authority(u)) /\ ~me.admin => Within(me, group, account[u].groups)
  BY <1>2 DEF Authority
<1>4. \A rows, g : Within(me, rows, {g}) => Covers(me, rows[g], g)
  BY DEF Within
<1> HIDE DEF me
<1>5. ASSUME NEW u \in Users, NEW gs \in SUBSET Groups, CreateUser(s, by, u, gs)
      PROVE  RightsInv'
  <2> DEFINE fields == [exists |-> TRUE, active |-> TRUE, groups |-> gs]
  <2>1. /\ Guarded(s, account, group, OnUser(by, u, fields)) /\ ~Exists(u)
        /\ ~Escalates(me, GroupsAuthority(group, gs)) /\ fields.groups = gs
    BY <1>5 DEF CreateUser, me
  <2>2. account[u].groups = {}
    BY <2>1 DEF RightsInv, Vacant, Exists
  <2> HIDE DEF fields
  <2>3. ~me.admin => /\ Within(me, group, account[u].groups)
                     /\ "groups" \in DOMAIN fields => Within(me, group, fields.groups)
    BY <1>2, <2>1, <2>2 DEF Within
  <2>4. Permitted(OnUser(by, u, fields), account, group)
    BY <2>3, OnUserPermitted DEF me
  <2> QED  BY <2>1, <2>4, GuardedRights
<1>6. ASSUME NEW u \in Users, NEW fields \in UserFields, UpdateUser(s, by, u, fields)
      PROVE  RightsInv'
  <2>1. /\ \E accounts : Guarded(s, accounts, group, OnUser(by, u, fields))
        /\ ~Escalates(me, Authority(u))
        /\ "groups" \in DOMAIN fields => ~Escalates(me, GroupsAuthority(group, fields.groups))
    BY <1>6 DEF UpdateUser, me
  <2>2. Permitted(OnUser(by, u, fields), account, group)
    BY <1>2, <1>3, <2>1, OnUserPermitted DEF me
  <2> QED  BY <2>1, <2>2, GuardedRights
<1>7. ASSUME NEW u \in Users, DeleteUser(s, by, u)
      PROVE  RightsInv'
  <2>1. /\ \E accounts : Guarded(s, accounts, group, OnUser(by, u, NoAccount))
        /\ ~Escalates(me, Authority(u)) /\ NoAccount.groups = {}
    BY <1>7 DEF DeleteUser, NoAccount, me
  <2>2. Within(me, group, NoAccount.groups)
    BY <2>1 DEF Within
  <2>3. Permitted(OnUser(by, u, NoAccount), account, group)
    BY <1>3, <2>1, <2>2, OnUserPermitted DEF me
  <2> QED  BY <2>1, <2>3, GuardedRights
<1>8. ASSUME NEW g \in Groups, NEW fields \in GroupFields, CreateGroup(s, by, g, fields)
      PROVE  RightsInv'
  <2> DEFINE new  == [exists |-> TRUE, grants |-> fields.grants, scope |-> fields.scope]
             rows == [group EXCEPT ![g] = Over(fields, group[g])]
  <2>1. /\ Guarded(s, account, group, OnGroup(by, g, new)) /\ ~group[g].exists
        /\ ~Escalates(me, GroupsAuthority(rows, {g}))
    BY <1>8 DEF CreateGroup, me
  <2>2. group[g] \in GroupRow /\ rows[g] = Over(fields, group[g])
    BY DEF IInv, Shape
  <2>3. {"grants", "scope"} \subseteq DOMAIN fields
    BY DEF GroupFields
  <2>4. new.grants = fields.grants /\ new.scope = fields.scope
    OBVIOUS
  <2> HIDE DEF new, rows
  <2>5. ~me.admin => Covers(me, rows[g], g)
    BY <1>2, <1>4, <2>1
  <2>6. ~me.admin => Covers(me, fields, g)
    BY <2>2, <2>3, <2>5, CoversColumns
  <2>7. ~me.admin => Covers(me, new, g)
    BY <2>4, <2>6 DEF Covers, GroupPermissions, GroupScope
  <2>8. Permitted(OnGroup(by, g, new), account, group)
    BY <2>1, <2>7, OnGroupPermitted DEF me
  <2> QED  BY <2>1, <2>8, GuardedRights
<1>9. ASSUME NEW g \in Groups, NEW fields \in GroupFields, UpdateGroup(s, by, g, fields)
      PROVE  RightsInv'
  <2> DEFINE rows == [group EXCEPT ![g] = Over(fields, group[g])]
  <2>1. /\ Guarded(s, account, rows, OnGroup(by, g, fields))
        /\ ~Escalates(me, GroupsAuthority(group, {g}))
        /\ ~Escalates(me, GroupsAuthority(rows, {g}))
    BY <1>9 DEF UpdateGroup, me
  <2>2. group[g] \in GroupRow /\ rows[g] = Over(fields, group[g])
    BY DEF IInv, Shape
  <2>3. {"grants", "scope"} \subseteq DOMAIN fields
    BY DEF GroupFields
  <2> HIDE DEF rows
  <2>4. ~me.admin => Covers(me, group[g], g) /\ Covers(me, rows[g], g)
    BY <1>2, <1>4, <2>1
  <2>5. ~me.admin => Covers(me, fields, g)
    BY <2>2, <2>3, <2>4, CoversColumns
  <2>6. Permitted(OnGroup(by, g, fields), account, group)
    BY <2>4, <2>5, OnGroupPermitted DEF me
  <2> QED  BY <2>1, <2>6, GuardedRights
<1>10. ASSUME NEW g \in Groups, DeleteGroup(s, by, g)
       PROVE  RightsInv'
  <2> DEFINE gone == [exists |-> FALSE]
  <2>1. /\ \E accounts : Guarded(s, accounts, group, OnGroup(by, g, gone))
        /\ ~Escalates(me, GroupsAuthority(group, {g})) /\ "grants" \notin DOMAIN gone
    BY <1>10 DEF DeleteGroup, me
  <2> HIDE DEF gone
  <2>2. ~me.admin => Covers(me, group[g], g)
    BY <1>2, <1>4, <2>1
  <2>3. Permitted(OnGroup(by, g, gone), account, group)
    BY <2>1, <2>2, OnGroupPermitted DEF me
  <2> QED  BY <2>1, <2>3, GuardedRights
<1> QED  BY <1>1, <1>5, <1>6, <1>7, <1>8, <1>9, <1>10

\* A change leaves no groups to an account that does not exist.
LEMMA OverVacant ==
  ASSUME NEW m \in AccountRow, NEW f \in UserChange, "exists" \in DOMAIN f \/ m.exists,
         ~Over(f, m).exists
  PROVE  Over(f, m).groups = {}
<1>1. CASE f \in [exists : {TRUE}, active : {TRUE}, groups : SUBSET Groups]
  BY <1>1 DEF Over, AccountRow
<1>2. CASE f \in [groups : SUBSET Groups]
  BY <1>2 DEF Over, AccountRow
<1>3. CASE f \in [active : BOOLEAN]
  BY <1>3 DEF Over, AccountRow
<1>4. CASE f = NoAccount
  BY <1>4 DEF Over, AccountRow, NoAccount
<1> QED  BY <1>1, <1>2, <1>3, <1>4 DEF UserChange

\* What a group's change leaves of its columns: all it names, or no group.
LEMMA OverColumns ==
  ASSUME NEW m \in GroupRow, NEW f \in GroupChange, NEW me, NEW g, Over(f, m).exists,
         "grants" \in DOMAIN f => Covers(me, f, g)
  PROVE  Covers(me, Over(f, m), g)
<1>1. "grants" \in DOMAIN f /\ "scope" \in DOMAIN f
  BY DEF GroupChange, Over, GroupRow
<1>2. Over(f, m).grants = f.grants /\ Over(f, m).scope = f.scope
  BY <1>1 DEF Over, GroupRow
<1> QED  BY <1>1, <1>2 DEF Covers, GroupPermissions, GroupScope

LEMMA UserWritten ==
  ASSUME IInv, NEW s \in Slots, WriteCommit(s), request[s] \in UserForm
  PROVE  LET r == request[s]
         IN  /\ r.user \in Users /\ r.by \in Users /\ r.fields \in UserChange /\ group' = group
             /\ account[r.user] \in AccountRow
             /\ "exists" \in DOMAIN r.fields \/ account[r.user].exists
             /\ account'[r.user] = Over(r.fields, account[r.user])
             /\ account'[r.user].groups = IF "groups" \in DOMAIN r.fields THEN r.fields.groups
                                          ELSE account[r.user].groups
             /\ \A w \in Users \ {r.user} : account'[w] = account[w]
<1> DEFINE r == request[s]
           u == r.user
           f == r.fields
           n == Over(f, account[u])
<1>1. u \in Users /\ r.by \in Users /\ f \in UserChange /\ "user" \in DOMAIN r
  BY DEF UserForm
<1>2. account \in [Users -> AccountRow] /\ (account[u].active => account[u].exists)
  BY <1>1 DEF IInv, Shape, Whole
<1>3. /\ "exists" \in DOMAIN f \/ account[u].exists
      /\ account' = [account EXCEPT ![u] = n] /\ group' = group
  BY <1>1 DEF WriteCommit, Exists
<1>4. n.groups = IF "groups" \in DOMAIN f THEN f.groups ELSE account[u].groups
  BY <1>1, <1>2, <1>3, OverAccount
<1> HIDE DEF u, f, n
<1>5. account'[u] = n /\ \A w \in Users \ {u} : account'[w] = account[w]
  BY <1>1, <1>2, <1>3
<1> QED  BY <1>1, <1>2, <1>3, <1>4, <1>5 DEF u, f, n

LEMMA GroupWritten ==
  ASSUME IInv, NEW s \in Slots, WriteCommit(s), request[s] \in GroupForm
  PROVE  LET r == request[s]
         IN  /\ r.group \in Groups \ {Admins} /\ r.by \in Users /\ r.fields \in GroupChange
             /\ group[r.group] \in GroupRow /\ group'[r.group] = Over(r.fields, group[r.group])
             /\ \A x \in Groups \ {r.group} : group'[x] = group[x]
             /\ \A u \in Users : /\ account'[u].groups = Kept(account[u].groups, group')
                                 /\ account'[u].exists = account[u].exists
                                 /\ account'[u].active = account[u].active
                                 /\ account'[u].password = account[u].password
<1> DEFINE r == request[s]
           g == r.group
           n == Over(r.fields, group[g])
<1>1. g \in Groups \ {Admins} /\ r.by \in Users /\ r.fields \in GroupChange /\ "user" \notin DOMAIN r
  BY DEF GroupForm
<1>2. account \in [Users -> AccountRow] /\ group \in [Groups -> GroupRow]
  BY DEF IInv, Shape
<1>3. /\ group' = [group EXCEPT ![g] = n]
      /\ account' = [u \in Users |->
             [account[u] EXCEPT !.groups = Kept(account[u].groups, group')]]
  BY <1>1 DEF WriteCommit
<1> HIDE DEF g, n
<1>4. group'[g] = n /\ \A x \in Groups \ {g} : group'[x] = group[x]
  BY <1>1, <1>2, <1>3
<1>5. ASSUME NEW u \in Users
      PROVE  /\ account'[u].groups = Kept(account[u].groups, group')
             /\ account'[u].exists = account[u].exists /\ account'[u].active = account[u].active
             /\ account'[u].password = account[u].password
  <2> DEFINE m == account[u]
             kept == Kept(m.groups, group')
  <2>1. account'[u] = [m EXCEPT !.groups = kept] /\ m \in AccountRow
    BY <1>2, <1>3
  <2> HIDE DEF kept, m
  <2>2. /\ account'[u].groups = kept /\ account'[u].exists = m.exists
        /\ account'[u].active = m.active /\ account'[u].password = m.password
    BY <2>1 DEF AccountRow
  <2> QED  BY <2>2 DEF m, kept
<1> QED  BY <1>1, <1>2, <1>4, <1>5 DEF g, n

\* A write of rights overtakes every request that read them.
LEMMA WriteCommitRights ==
  ASSUME IInv, RightsInv, NEW s \in Slots, WriteCommit(s)
  PROVE  RightsInv'
<1>1. /\ request[s] \in Form /\ request[s].kind = "write" /\ request \in [Slots -> Form]
  BY DEF IInv, Shape, WriteCommit, Is
<1>2. /\ End(s) /\ overtaken' = {x \in Slots \ {s} : request[x].kind \in {"write", "password"}}
  BY DEF WriteCommit
<1>3. request'[s] = Free /\ \A x \in Slots \ {s} : request'[x] = request[x]
  BY <1>1, <1>2 DEF End
<1>4. ASSUME NEW x \in Slots \ overtaken'
      PROVE  Permitted(request'[x], account', group')
  <2>1. request'[x].kind \notin {"write", "password"}
    BY <1>2, <1>3, FreeForm
  <2> QED  BY <2>1, Harmless
<1>5. Vacant'
  <2>1. CASE request[s] \in UserForm
    <3>1. \A w \in Users : ~account[w].exists => account[w].groups = {}
      BY DEF RightsInv, Vacant
    <3> DEFINE u == request[s].user
    <3>2. /\ u \in Users /\ \A w \in Users \ {u} : account'[w] = account[w]
          /\ ~account'[u].exists => account'[u].groups = {}
      BY <2>1, UserWritten, OverVacant
    <3> HIDE DEF u
    <3> QED  BY <3>1, <3>2 DEF Vacant
  <2>2. CASE request[s] \in GroupForm
    <3>1. \A w \in Users : ~account[w].exists => account[w].groups = {}
      BY DEF RightsInv, Vacant
    <3>2. \A w \in Users : /\ account'[w].groups = Kept(account[w].groups, group')
                           /\ account'[w].exists = account[w].exists
      BY <2>2, GroupWritten
    <3> QED  BY <3>1, <3>2 DEF Vacant, Kept
  <2> QED  BY <1>1, <2>1, <2>2, FormFacts
<1> QED  BY <1>4, <1>5 DEF RightsInv

\* What a new password changes, of whom.
LEMMA PasswordSet ==
  ASSUME IInv, NEW s \in Slots, PasswordCommit(s)
  PROVE  /\ request[s].user \in Users /\ End(s) /\ overtaken' = overtaken \ {s} /\ group' = group
         /\ \A u \in Users : /\ account'[u].groups = account[u].groups
                             /\ account'[u].exists = account[u].exists
                             /\ account'[u].active = account[u].active
         /\ \A u \in Users \ {request[s].user} : account'[u] = account[u]
<1> DEFINE r == request[s]
           u == r.user
           m == account[u]
           n == [m EXCEPT !.password = m.password + 1, !.attempts = 0, !.locked = None]
<1>1. /\ r.kind \in {"confirm", "password"} /\ End(s) /\ overtaken' = overtaken \ {s}
      /\ group' = group /\ account' = [account EXCEPT ![u] = n]
  BY DEF PasswordCommit, Is
<1>2. account \in [Users -> AccountRow] /\ r \in Form
  BY DEF IInv, Shape
<1>3. u \in Users
  <2>1. r \in ConfirmForm \/ r \in PasswordForm
    BY <1>1, <1>2, FormFacts
  <2> HIDE DEF r
  <2> QED  BY <2>1 DEF ConfirmForm, PasswordForm
<1>4. n.exists = m.exists /\ n.active = m.active /\ n.groups = m.groups
  BY <1>2, <1>3, PasswordRow
<1> HIDE DEF u, n
<1>5. account'[u] = n /\ \A w \in Users \ {u} : account'[w] = account[w]
  BY <1>1, <1>2, <1>3
<1> QED  BY <1>1, <1>3, <1>4, <1>5 DEF u

\* A login changes nobody's groups.
LEMMA LoginCommitRights ==
  ASSUME IInv, RightsInv, NEW s \in Slots, LoginCommit(s)
  PROVE  RightsInv'
<1> DEFINE r == request[s]
           u == r.user
           n == LoggedIn(account[u], r)
<1>1. /\ r.kind = "login" /\ End(s) /\ group' = group /\ overtaken' = overtaken
      /\ account' = IF account[u].exists THEN [account EXCEPT ![u] = n] ELSE account
  BY DEF LoginCommit, Is, Exists
<1>2. /\ account \in [Users -> AccountRow] /\ r \in LoginForm
      /\ r.verdict = "wrong" => r.attempts + 1 < MaxFailed
  BY <1>1, FormFacts DEF IInv, Shape, GuessesInv
<1>3. u \in Users
  BY <1>2 DEF LoginForm
<1>4. n.exists = account[u].exists /\ n.groups = account[u].groups
  BY <1>2, <1>3, LoggedInFacts
<1> HIDE DEF u, n
<1>5. \A w \in Users : /\ account'[w].groups = account[w].groups
                       /\ account'[w].exists = account[w].exists
  <2>1. CASE account[u].exists
    <3>1. account' = [account EXCEPT ![u] = n]
      BY <1>1, <2>1
    <3> QED  BY <1>2, <1>3, <1>4, <3>1
  <2>2. CASE ~account[u].exists
    BY <1>1, <2>2
  <2> QED  BY <2>1, <2>2
<1> QED  BY <1>1, <1>5, RightsEnded

\* The requests that touch no rights.
LEMMA BegunRights ==
  ASSUME IInv, RightsInv, NEW s \in Slots,
         \/ \E a \in Addresses, u \in Users, right \in BOOLEAN : Login(s, a, u, right)
         \/ \E a \in Addresses, u \in Users : RequestLink(s, a, u)
         \/ \E l \in Links : ConfirmReset(s, l)
         \/ \E u \in Users : ChangePassword(s, u)
         \/ \E by \in Users, u \in Users : ResetPassword(s, by, u)
  PROVE  RightsInv'
<1>1. ASSUME NEW a \in Addresses, NEW u \in Users, NEW right \in BOOLEAN, Login(s, a, u, right)
      PROVE  RightsInv'
  <2> DEFINE r == [kind |-> "login", user |-> u, verdict |-> Verdict(u, right),
                   attempts |-> account[u].attempts, locked |-> account[u].locked, at |-> now]
  <2>1. /\ Begin(s, "login", r) /\ UNCHANGED <<account, group, overtaken>>
        /\ r.kind = "login"
    BY <1>1 DEF Login
  <2> HIDE DEF r
  <2>2. Permitted(r, account, group)
    BY <2>1, Harmless
  <2> QED  BY <2>1, <2>2, RightsBegun
<1>2. ASSUME NEW a \in Addresses, NEW u \in Users, RequestLink(s, a, u)
      PROVE  RightsInv'
  <2> DEFINE r == IF account[u].active
                  THEN [kind |-> "link", user |-> u, drop |-> Replaced(u), at |-> now]
                  ELSE [kind |-> "refused"]
  <2>1. /\ Begin(s, "link", r) /\ UNCHANGED <<account, group, overtaken>>
        /\ r.kind \in {"link", "refused"}
    BY <1>2 DEF RequestLink
  <2> HIDE DEF r
  <2>2. Permitted(r, account, group)
    BY <2>1, Harmless
  <2> QED  BY <2>1, <2>2, RightsBegun
<1>3. ASSUME NEW l \in Links, ConfirmReset(s, l)
      PROVE  RightsInv'
  <2> DEFINE r == [kind |-> "confirm", link |-> l, user |-> link[l].user, by |-> None, at |-> now]
  <2>1. /\ Begin(s, "link", r) /\ UNCHANGED <<account, group, overtaken>>
        /\ r.kind = "confirm"
    BY <1>3 DEF ConfirmReset
  <2> HIDE DEF r
  <2>2. Permitted(r, account, group)
    BY <2>1, Harmless
  <2> QED  BY <2>1, <2>2, RightsBegun
<1>4. ASSUME NEW u \in Users, ChangePassword(s, u)
      PROVE  RightsInv'
  <2> DEFINE r == [kind |-> "password", user |-> u, by |-> None, at |-> now]
  <2>1. /\ Begin(s, "link", r) /\ UNCHANGED <<account, group, overtaken>>
        /\ r.kind = "password" /\ r.by = None
    BY <1>4 DEF ChangePassword
  <2> HIDE DEF r
  <2>2. Permitted(r, account, group)
    BY <2>1, Harmless
  <2> QED  BY <2>1, <2>2, RightsBegun
<1>5. ASSUME NEW by \in Users, NEW u \in Users, ResetPassword(s, by, u)
      PROVE  RightsInv'
  <2> DEFINE r == [kind |-> "password", user |-> u, by |-> by, at |-> now]
  <2>1. Begin(s, "link", r) /\ UNCHANGED <<account, group, overtaken>>
    BY <1>5 DEF ResetPassword
  <2>2. Permitted(r, account, group)
    BY <1>5, ResetPermitted
  <2> HIDE DEF r
  <2> QED  BY <2>1, <2>2, RightsBegun
<1> QED  BY <1>1, <1>2, <1>3, <1>4, <1>5

LEMMA NextRights == IInv /\ RightsInv /\ [Next]_vars => RightsInv'
<1> SUFFICES ASSUME IInv, RightsInv, [Next]_vars
             PROVE  RightsInv'
  OBVIOUS
<1>1. CASE Tick \/ PurgeLinks \/ UNCHANGED vars
  <2>1. UNCHANGED <<account, group, request, overtaken>>
    BY <1>1 DEF Tick, PurgeLinks, vars
  <2> QED  BY <2>1, RightsStand
<1>2. ASSUME NEW s \in Slots,
             \/ \E a \in Addresses, u \in Users, right \in BOOLEAN : Login(s, a, u, right)
             \/ \E a \in Addresses, u \in Users : RequestLink(s, a, u)
             \/ \E l \in Links : ConfirmReset(s, l)
             \/ \E u \in Users : ChangePassword(s, u)
             \/ \E by \in Users, u \in Users : ResetPassword(s, by, u)
      PROVE  RightsInv'
  BY <1>2, BegunRights
<1>3. ASSUME NEW s \in Slots, Administer(s)
      PROVE  RightsInv'
  BY <1>3, AdministerRights
<1>4. ASSUME NEW s \in Slots, LoginCommit(s)
      PROVE  RightsInv'
  BY <1>4, LoginCommitRights
<1>5. ASSUME NEW s \in Slots, RequestLinkCommit(s)
      PROVE  RightsInv'
  <2>1. End(s) /\ UNCHANGED <<account, group, overtaken>>
    BY <1>5 DEF RequestLinkCommit
  <2> QED  BY <2>1, RightsEnded
<1>6. ASSUME NEW s \in Slots, PasswordCommit(s)
      PROVE  RightsInv'
  BY <1>6, PasswordSet, RightsEnded
<1>7. ASSUME NEW s \in Slots, WriteCommit(s)
      PROVE  RightsInv'
  BY <1>7, WriteCommitRights
<1>8. ASSUME NEW s \in Slots, Abort(s)
      PROVE  RightsInv'
  <2>1. End(s) /\ overtaken' = overtaken \ {s} /\ UNCHANGED <<account, group>>
    BY <1>8 DEF Abort
  <2> QED  BY <2>1, RightsEnded
<1> QED  BY <1>1, <1>2, <1>3, <1>4, <1>5, <1>6, <1>7, <1>8 DEF Next

LEMMA InitRights == Init => RightsInv
<1> SUFFICES ASSUME Init
             PROVE  RightsInv
  OBVIOUS
<1>1. \A s \in Slots : Permitted(request[s], account, group)
  <2>1. \A s \in Slots : request[s] = Free
    BY DEF Init
  <2> QED  BY <2>1, FreeForm, Harmless
<1>2. ASSUME NEW u \in Users, ~account[u].exists
      PROVE  account[u].groups = {}
  <2>1. account[u] = IF Member[u] = {} THEN NoAccount
                     ELSE [NoAccount EXCEPT !.exists = TRUE, !.active = TRUE, !.groups = Member[u]]
    BY DEF Init
  <2> QED  BY <1>2, <2>1 DEF NoAccount
<1> QED  BY <1>1, <1>2 DEF RightsInv, Vacant

\* How a request that writes an account, a group or a password ends.
LEMMA EndsBy ==
  ASSUME IInv, [Next]_vars, NEW s \in Slots, request[s].kind \in {"write", "password"},
         request'[s] = Free
  PROVE  PasswordCommit(s) \/ WriteCommit(s) \/ Abort(s)
<1>1. request[s] # Free /\ request \in [Slots -> Form]
  BY FreeForm DEF IInv, Shape
<1>2. \A x \in Slots : \A class, r : ~Begin(x, class, r)
  <2> SUFFICES ASSUME NEW x \in Slots, NEW class, NEW r, Begin(x, class, r)
               PROVE  FALSE
    OBVIOUS
  <2>1. request[x] = Free /\ request' = [request EXCEPT ![x] = r]
    BY DEF Begin
  <2> QED  BY <1>1, <2>1
<1>3. \A x \in Slots : End(x) => x = s
  BY <1>1 DEF End
<1>4. CASE Tick \/ PurgeLinks \/ UNCHANGED vars
  <2>1. request' = request
    BY <1>4 DEF Tick, PurgeLinks, vars
  <2> QED  BY <1>1, <2>1
<1>5. \A x \in Slots, a \in Addresses, u \in Users :
        ~RequestLink(x, a, u) /\ \A right \in BOOLEAN : ~Login(x, a, u, right)
  BY <1>2 DEF RequestLink, Login
<1>6. \A x \in Slots, l \in Links : ~ConfirmReset(x, l)
  BY <1>2 DEF ConfirmReset
<1>7. \A x \in Slots, by, u \in Users : ~ChangePassword(x, u) /\ ~ResetPassword(x, by, u)
  BY <1>2 DEF ChangePassword, ResetPassword
<1>8. ASSUME NEW x \in Slots, Administer(x)
      PROVE  FALSE
  <2>1. \A accounts, rows, r : ~Guarded(x, accounts, rows, r)
    BY <1>2 DEF Guarded
  <2>2. \A by, u, gs : ~CreateUser(x, by, u, gs)
    BY <2>1 DEF CreateUser
  <2>3. \A by, u, f : ~UpdateUser(x, by, u, f)
    BY <2>1 DEF UpdateUser
  <2>4. \A by, u : ~DeleteUser(x, by, u)
    BY <2>1 DEF DeleteUser
  <2>5. \A by, g, f : ~CreateGroup(x, by, g, f)
    BY <2>1 DEF CreateGroup
  <2>6. \A by, g, f : ~UpdateGroup(x, by, g, f)
    BY <2>1 DEF UpdateGroup
  <2>7. \A by, g : ~DeleteGroup(x, by, g)
    BY <2>1 DEF DeleteGroup
  <2> QED  BY <1>8, <2>2, <2>3, <2>4, <2>5, <2>6, <2>7 DEF Administer
<1>9. \A x \in Slots : ~LoginCommit(x) /\ ~RequestLinkCommit(x)
  BY <1>3 DEF LoginCommit, RequestLinkCommit, Is
<1>10. \A x \in Slots : PasswordCommit(x) \/ WriteCommit(x) \/ Abort(x) => x = s
  BY <1>3 DEF PasswordCommit, WriteCommit, Abort
<1>11. CASE Next
  <2>1. PICK x \in Slots : PasswordCommit(x) \/ WriteCommit(x) \/ Abort(x)
    BY <1>4, <1>5, <1>6, <1>7, <1>8, <1>9, <1>11 DEF Next
  <2> QED  BY <1>10, <2>1
<1> QED  BY <1>4, <1>11

LEMMA PasswordReaches ==
  ASSUME IInv, RightsInv, NEW s \in Slots \ overtaken, request[s].kind = "password",
         request[s].by # None, PasswordCommit(s), ~Authority(request[s].by).admin, NEW u \in Users
  PROVE  Reaches(Authority(request[s].by), u)
<1> DEFINE me == Authority(request[s].by)
<1>1. Within(me, group, account[request[s].user].groups)
  BY DEF RightsInv, Permitted, Authority
<1> HIDE DEF me
<1>2. /\ account'[u].groups = account[u].groups /\ account'[u].active = account[u].active
      /\ group' = group
      /\ u # request[s].user => account'[u] = account[u]
  BY PasswordSet
<1>3. ~Within(me, group, account[u].groups) => account'[u].password = account[u].password
  BY <1>1, <1>2
<1>4. ~me.admin
  BY DEF me
<1>5. Reaches(me, u)
  BY <1>2, <1>3, <1>4, ReachedNot
<1> QED  BY <1>5 DEF me

LEMMA UserReaches ==
  ASSUME IInv, RightsInv, NEW s \in Slots \ overtaken, request[s] \in UserForm,
         WriteCommit(s), ~Authority(request[s].by).admin, NEW u \in Users
  PROVE  Reaches(Authority(request[s].by), u)
<1> DEFINE me == Authority(request[s].by)
           w  == request[s].user
           f  == request[s].fields
<1>1. /\ Within(me, group, account[w].groups)
      /\ "groups" \in DOMAIN f => Within(me, group, f.groups)
  BY DEF RightsInv, Permitted, Authority
<1>2. /\ group' = group
      /\ u # w => account'[u] = account[u]
      /\ account'[w].groups = IF "groups" \in DOMAIN f THEN f.groups ELSE account[w].groups
  BY UserWritten
<1>3. ~me.admin
  OBVIOUS
<1> HIDE DEF me, f, w
<1>4. CASE u # w
  BY <1>2, <1>3, <1>4, ReachedNot DEF me
<1>5. CASE u = w
  <2>1. Within(me, group, account'[w].groups)
    BY <1>1, <1>2
  <2>2. \A g \in account[w].groups : g # Admins /\ Covers(me, group[g], g)
    BY <1>1 DEF Within
  <2>3. \A g \in account'[w].groups : g # Admins /\ Covers(me, group'[g], g)
    BY <1>2, <2>1 DEF Within
  <2>4. Reaches(me, u)
    BY <1>1, <1>3, <1>5, <2>2, <2>3, Reached
  <2> QED  BY <2>4 DEF me
<1> QED  BY <1>4, <1>5

LEMMA GroupReaches ==
  ASSUME IInv, RightsInv, NEW s \in Slots \ overtaken, request[s] \in GroupForm,
         WriteCommit(s), ~Authority(request[s].by).admin, NEW u \in Users
  PROVE  Reaches(Authority(request[s].by), u)
<1> DEFINE me == Authority(request[s].by)
           g  == request[s].group
           f  == request[s].fields
<1>1. /\ group[g].exists => Covers(me, group[g], g)
      /\ "grants" \in DOMAIN f => Covers(me, f, g)
  BY DEF RightsInv, Permitted, Authority
<1>2. /\ g \in Groups \ {Admins} /\ f \in GroupChange /\ group[g] \in GroupRow
      /\ group'[g] = Over(f, group[g]) /\ \A x \in Groups \ {g} : group'[x] = group[x]
      /\ account'[u].groups = Kept(account[u].groups, group')
      /\ account'[u].active = account[u].active /\ account'[u].password = account[u].password
  BY GroupWritten
<1>3. ~me.admin
  OBVIOUS
<1>4. /\ account[u].groups \in SUBSET Groups /\ \A x \in account[u].groups : group[x].exists
      /\ group[Admins].exists /\ Admins \in Groups
  BY GroupsExist, AccountsAssumption DEF IInv, Shape, Whole, AccountRow
<1> HIDE DEF me, f, g
<1>5. group'[g].exists => Covers(me, group'[g], g)
  BY <1>1, <1>2, OverColumns
<1>6. \A x \in account'[u].groups : x \in account[u].groups /\ group'[x].exists
  BY <1>2 DEF Kept
<1>7. \A x \in account[u].groups : x # g => x \in account'[u].groups /\ group'[x] = group[x]
  BY <1>2, <1>4 DEF Kept
<1>8. Admins \in account[u].groups <=> Admins \in account'[u].groups
  BY <1>2, <1>6, <1>7
<1>9. \A x \in account'[u].groups : \/ x \in account[u].groups /\ group'[x] = group[x]
                                    \/ Covers(me, group'[x], x)
  BY <1>5, <1>6, <1>7
<1>10. \A x \in account[u].groups : \/ x \in account'[u].groups /\ group'[x] = group[x]
                                    \/ Covers(me, group[x], x)
  BY <1>1, <1>4, <1>7
<1>11. Reaches(me, u)
  BY <1>2, <1>3, <1>8, <1>9, <1>10, Reached
<1> QED  BY <1>11 DEF me

(***************************************************************************)
(* The theorems.                                                           *)
(***************************************************************************)
LEMMA Inductive == Spec => []IInv
BY InitIInv, NextIInv, PTL DEF Spec

(* In no window does a limiter let more attempts of one address through    *)
(* than its budget, whatever the sweep forgets (core/ratelimit.py:35).     *)
THEOREM RatesHold == Spec => []RateBounded
BY Inductive, RateBoundedHolds, PTL

(* Failures that follow one another lock the account at the last allowed,  *)
(* whatever else commits in between (user/crud.py:108).                    *)
THEOREM GuessesLock == Spec => []SerialGuessesLock
<1>1. IInv => SerialGuessesLock
  <2> SUFFICES ASSUME IInv, NEW u \in Users
               PROVE  guesses[u] <= MaxFailed
    BY DEF SerialGuessesLock
  <2>1. /\ GuessesInv /\ guesses[u] \in Nat /\ account[u] \in AccountRow
        /\ request \in [Slots -> Form] /\ MaxFailed \in Nat
    BY Parameters DEF IInv, Shape
  <2>2. CASE Failing(u) = {}
    <3>1. guesses[u] <= account[u].attempts
      BY <2>1, <2>2 DEF GuessesInv
    <3>2. account[u].attempts \in 0 .. MaxFailed - 1
      BY <2>1 DEF AccountRow, Failures
    <3> QED  BY <2>1, <3>1, <3>2
  <2>3. CASE Failing(u) # {}
    <3>1. PICK s \in Failing(u) : guesses[u] <= request[s].attempts + 1
      BY <2>1, <2>3 DEF GuessesInv
    <3>2. s \in Slots /\ request[s].kind = "login"
      BY DEF Failing, Logins
    <3>3. request[s] \in LoginForm
      BY <2>1, <3>2, FormFacts
    <3>4. request[s].attempts \in 0 .. MaxFailed - 1
      BY <3>3 DEF LoginForm, Failures
    <3> QED  BY <2>1, <3>1, <3>4
  <2> QED  BY <2>2, <2>3
<1> QED  BY <1>1, Inductive, PTL

(* Rows keep their types and point at rows that exist; a link serves, and  *)
(* an account has links that may serve, at most as often as requests       *)
(* overlap (user/crud.py:178).                                             *)
THEOREM LinksSafe == Spec => []LinksHold
<1>1. IInv => TypeOK
  <2> SUFFICES ASSUME IInv
               PROVE  TypeOK
    OBVIOUS
  <2>1. /\ Shape /\ Whole /\ request \in [Slots -> Form] /\ MaxFailed \in Nat
        /\ account \in [Users -> AccountRow]
    BY Parameters DEF IInv, Shape
  <2>2. AccountRow \subseteq [exists : BOOLEAN, active : BOOLEAN, groups : SUBSET Groups,
                              password : Nat, attempts : 0 .. MaxFailed,
                              locked : 0 .. MaxTime + LockTime]
    <3>1. Failures \subseteq 0 .. MaxFailed
      BY <2>1 DEF Failures
    <3> QED  BY <3>1 DEF AccountRow, Locks
  <2>3. account \in [Users -> [exists : BOOLEAN, active : BOOLEAN, groups : SUBSET Groups,
                               password : Nat, attempts : 0 .. MaxFailed,
                               locked : 0 .. MaxTime + LockTime]]
    BY <2>1, <2>2
  <2>4. \A s \in Slots : request[s].kind \in {"free", "login", "link", "confirm", "password",
                                              "write", "refused"}
    BY <2>1, FormFacts
  <2>5. \A l \in Links : link[l].status \in {"none", "live", "used", "gone"}
    BY <2>1 DEF Shape, LinkRow
  <2>6. \A l \in Links : link[l].status \in {"live", "used"} => Exists(link[l].user)
    BY <2>1 DEF Whole, Exists
  <2>7. \A u \in Users : account[u].active => account[u].exists
    BY <2>1 DEF Whole
  <2>8. \A u \in Users : \A g \in account[u].groups : group[g].exists
    BY <2>1, GroupsExist
  <2>9. /\ now \in 1 .. MaxTime /\ load \in 0 .. MaxLoad /\ group[Admins].exists
        /\ group \in [Groups -> [exists : BOOLEAN, grants : SUBSET Catalogue, scope : SUBSET Places]]
    BY <2>1 DEF Shape, Whole, GroupRow
  <2> QED  BY <2>3, <2>4, <2>5, <2>6, <2>7, <2>8, <2>9 DEF TypeOK
<1>2. ASSUME IInv, NEW l \in Links
      PROVE  link[l].uses <= Cardinality(Slots)
  <2>1. link[l].uses + Cardinality(Confirms(request, l)) <= Cardinality(Slots)
    BY <1>2 DEF IInv, LinksInv, UsesInv
  <2>2. Confirms(request, l) \in SUBSET Slots
    BY DEF Confirms
  <2>3. Cardinality(Confirms(request, l)) \in Nat /\ Cardinality(Slots) \in Nat
    BY <2>2, SlotsFinite, Parameters
  <2>4. link[l].uses \in Nat
    BY <1>2 DEF IInv, Shape, LinkRow
  <2> QED  BY <2>1, <2>3, <2>4
<1>3. ASSUME IInv, NEW u \in Users
      PROVE  Cardinality({l \in LiveLinks(u) : link[l].status = "live"}) <= Cardinality(Slots)
  <2> DEFINE ls == Live(link, u)
  <2>1. ls = {l \in LiveLinks(u) : link[l].status = "live"}
    BY DEF Live, LiveLinks
  <2>2. ls \in SUBSET Links /\ ls \in SUBSET Live(link, u)
    BY DEF Live
  <2>3. Behind(request, u, ls) \in SUBSET Slots
    BY DEF Behind
  <2> HIDE DEF ls
  <2>4. /\ Cardinality(ls) \in Nat /\ Cardinality(Behind(request, u, ls)) \in Nat
        /\ Cardinality(Slots) \in Nat
    BY <2>2, <2>3, LinksFinite, SlotsFinite, Parameters
  <2>5. CASE ls = {}
    <3>1. Cardinality(ls) = 0
      BY <2>5, FS_EmptySet
    <3> QED  BY <2>1, <2>4, <3>1
  <2>6. CASE ls # {}
    <3>1. Cardinality(ls) + Cardinality(Behind(request, u, ls)) <= Cardinality(Slots)
      BY <1>3, <2>2, <2>6 DEF IInv, LinksInv, Room
    <3>2. Cardinality(ls) <= Cardinality(Slots)
      BY <2>4, <3>1
    <3> QED  BY <2>1, <3>2
  <2> QED  BY <2>5, <2>6
<1>4. IInv => LinksHold
  BY <1>1, <1>2, <1>3 DEF LinksHold
<1> QED  BY <1>4, Inductive, PTL

(* "An editor can only grant what their account has": a request on whose   *)
(* rights nothing was written since it read them gives nobody, and takes   *)
(* from nobody, what its caller does not hold, and sets no password and no *)
(* activity of an account that holds more (users.py:13).                   *)
THEOREM NothingEscalates == Spec => NoEscalation
<1>1. IInv /\ RightsInv /\ [Next]_vars =>
        [\A s \in Slots :
           (/\ request[s].kind \in {"write", "password"} /\ s \notin overtaken
            /\ request[s].by # None /\ request'[s] = Free)
             => (Authority(request[s].by).admin
                   \/ \A u \in Users : Reaches(Authority(request[s].by), u))]_vars
  <2> SUFFICES ASSUME IInv, RightsInv, [Next]_vars, NEW s \in Slots \ overtaken, NEW u \in Users,
                      request[s].kind \in {"write", "password"}, request[s].by # None,
                      request'[s] = Free, ~Authority(request[s].by).admin
               PROVE  Reaches(Authority(request[s].by), u)
    OBVIOUS
  <2>1. request[s] \in Form
    BY DEF IInv, Shape
  <2>2. CASE PasswordCommit(s)
    <3>1. request[s].kind = "password"
      BY <2>2 DEF PasswordCommit
    <3> QED  BY <2>2, <3>1, PasswordReaches
  <2>3. CASE WriteCommit(s)
    <3>1. request[s] \in UserForm \/ request[s] \in GroupForm
      BY <2>1, <2>3, FormFacts DEF WriteCommit, Is
    <3> QED  BY <2>3, <3>1, UserReaches, GroupReaches
  <2>4. CASE Abort(s)
    <3>1. UNCHANGED <<account, group>>
      BY <2>4 DEF Abort
    <3> QED  BY <3>1, ReachedNot
  <2> QED  BY <2>2, <2>3, <2>4, EndsBy
<1>2. Init => RightsInv
  BY InitRights
<1>3. IInv /\ RightsInv /\ [Next]_vars => RightsInv'
  BY NextRights
<1> QED  BY <1>1, <1>2, <1>3, Inductive, PTL DEF Spec, NoEscalation
=============================================================================
