---------------------------- MODULE SettingsProofs ----------------------------
(***************************************************************************)
(* Proofs about Settings, for any postes, reports, values, bounds and      *)
(* number of requests at once: what is stored keeps its type, the          *)
(* thresholds of usage hold together, the mail settings remembered and the *)
(* verdicts stored are those of the settings in force, and each hour has   *)
(* the time the poste was on in it.                                        *)
(*                                                                         *)
(* A request writes on what it read before.  The invariant says of each    *)
(* request under way that what it read is still so, unless it met another  *)
(* request on it (Fresh), and that two requests on one thing have met      *)
(* (Meets): what a commit moves, only requests that met it had read.       *)
(* HoursInv says the same of the last heartbeats, and that what is counted *)
(* was before them, so that the next gap between two is new.               *)
(***************************************************************************)
EXTENDS Settings, FiniteSetTheorems, TLAPS

Machine == [exists : BOOLEAN, last : Nat, report : Reports \cup {None}, ok : BOOLEAN]

Shape ==
  /\ now \in Nat
  /\ DOMAIN stored = Keys
  /\ machine \in [Postes -> Machine]
  /\ DOMAIN uptime = Postes /\ DOMAIN request = Slots

Common == {"kind", "on", "met"}
PatchOK(patch) == \A k \in DOMAIN patch : k \in Keys /\ patch[k] \in Values(k)

\* What a request under way carries at time t.
Fits(r, t) ==
  /\ Common \subseteq DOMAIN r
  /\ r.kind \in {"idle", "beat", "merge", "patch", "answer", "read"}
  /\ r.kind = "idle" => r.on = {}
  /\ r.kind = "beat" =>
       /\ {"poste", "report", "maxAge", "was", "at"} \subseteq DOMAIN r
       /\ r.poste \in Postes /\ r.report \in Reports \cup {None} /\ r.was \in Machine
       /\ r.at \in Nat /\ r.at <= t
       /\ r.on = {VerdictOf(r.poste), HoursOf(r.poste)}
  /\ r.kind = "merge" =>
       /\ {"target", "dup", "last"} \subseteq DOMAIN r
       /\ r.target \in Postes /\ r.dup \in Postes /\ r.target # r.dup
       /\ \A p \in {r.target, r.dup} : r.last[p] \in Nat /\ r.last[p] <= t
       /\ r.on = {HoursOf(r.target), HoursOf(r.dup)}
  /\ r.kind = "patch" =>
       /\ {"patch", "before", "had"} \subseteq DOMAIN r
       /\ PatchOK(r.patch) /\ r.on = Touches(r.patch)
       /\ r.had \in [Postes -> Machine]
  /\ r.kind = "answer" => r.on \subseteq {Mail}
  /\ r.kind = "read" => "read" \in DOMAIN r /\ r.read \in Values("mail") /\ r.on = {Mail}

\* Of two requests on one thing, each has met the other.
Meets ==
  \A s, x \in Slots : s # x => request[s].on \cap request[x].on \subseteq request[s].met

\* What a request read of the settings and the postes, and met nobody on, is still so.
Fresh(r, values, postes) ==
  /\ r.kind = "beat" /\ VerdictOf(r.poste) \notin r.met =>
       /\ r.maxAge = Policy(values, "age")
       /\ postes[r.poste].exists => postes[r.poste].ok = r.was.ok
  /\ r.kind = "patch" =>
       /\ Usage \in r.on \ r.met => HoldTogether(values, r.patch)
       /\ Age \in r.on \ r.met => r.before = Policy(values, "age")
       /\ \A p \in Postes : VerdictOf(p) \in r.on \ r.met /\ postes[p].exists =>
            /\ r.had[p].exists /\ r.had[p].ok = postes[p].ok
            /\ r.had[p].report = postes[p].report
  /\ r.kind = "read" /\ Mail \notin r.met => r.read = values["mail"]

\* What queue_email judges on is in force, or a request is about to remember it.
MailOwed ==
  Mail \notin crossed
    /\ (\A s \in Slots : request[s].kind \in {"answer", "read"} => Mail \notin request[s].on)
  => remembered = stored["mail"]

Requests == \A s \in Slots : Fits(request[s], now) /\ Fresh(request[s], stored, machine)

IInv == TypeOK /\ Shape /\ Meets /\ Requests /\ ThresholdsHold /\ MailOwed /\ VerdictInForce

-----------------------------------------------------------------------------
(* Requests that begin, meet and end. *)

\* The things requests are about are all different.
LEMMA Things ==
  /\ Usage # Mail /\ Usage # Age /\ Mail # Age
  /\ \A p : /\ VerdictOf(p) \notin {Usage, Mail, Age}
            /\ HoursOf(p) \notin {Usage, Mail, Age}
  /\ \A p, q : VerdictOf(p) # HoursOf(q) /\ (VerdictOf(p) = VerdictOf(q) => p = q)
BY DEF Usage, Mail, Age, VerdictOf, HoursOf

\* What a patch touches says which settings it carries.
LEMMA TouchesWhat ==
  ASSUME NEW patch
  PROVE  /\ Usage \in Touches(patch) <=> DOMAIN patch \cap UsageKeys # {}
         /\ Age \in Touches(patch) <=> "age" \in DOMAIN patch
         /\ Mail \in Touches(patch) <=> "mail" \in DOMAIN patch
         /\ \A p \in Postes : VerdictOf(p) \in Touches(patch) <=> "age" \in DOMAIN patch
         /\ \A p : HoursOf(p) \notin Touches(patch)
BY Things DEF Touches

\* The same request later: it may have met others, and nothing else changed.
Later(r, e) ==
  /\ DOMAIN e = DOMAIN r /\ r.met \subseteq e.met
  /\ \A f \in DOMAIN r \ {"met"} : e[f] = r[f]

LEMMA LaterFits ==
  ASSUME NEW r, NEW e, NEW t \in Nat, NEW u \in Nat, t <= u, Fits(r, t), Later(r, e)
  PROVE  Fits(e, u)
<1>1. /\ Common \subseteq DOMAIN e /\ e.kind = r.kind /\ e.on = r.on
  BY DEF Fits, Later, Common
<1>2. r.kind = "beat" => /\ e.poste = r.poste /\ e.report = r.report /\ e.was = r.was
                         /\ e.at = r.at
  BY DEF Fits, Later
<1>3. r.kind = "merge" => e.target = r.target /\ e.dup = r.dup /\ e.last = r.last
  BY DEF Fits, Later
<1>4. r.kind = "patch" => e.patch = r.patch /\ e.had = r.had
  BY DEF Fits, Later
<1>5. r.kind = "read" => e.read = r.read
  BY DEF Fits, Later
<1>6. r.kind = "merge" => \A p \in {r.target, r.dup} : r.last[p] \in Nat /\ r.last[p] <= u
  BY DEF Fits
<1>7. DOMAIN e = DOMAIN r
  BY DEF Later
<1> QED
  BY <1>1, <1>2, <1>3, <1>4, <1>5, <1>6, <1>7 DEF Fits

\* A step moves nothing of what is in `on`.
Unmoved(on, values, new, postes, next) ==
  /\ Usage \in on => \A k \in UsageKeys : new[k] = values[k]
  /\ Age \in on => new["age"] = values["age"]
  /\ Mail \in on => new["mail"] = values["mail"]
  /\ \A p \in Postes : VerdictOf(p) \in on =>
       /\ new["age"] = values["age"]
       /\ next[p].exists => /\ postes[p].exists /\ next[p].ok = postes[p].ok
                            /\ next[p].report = postes[p].report

LEMMA LaterFresh ==
  ASSUME NEW r, NEW e, NEW t, Fits(r, t), Later(r, e),
         NEW values, NEW new, NEW postes, NEW next,
         Fresh(r, values, postes), Unmoved(e.on \ e.met, values, new, postes, next)
  PROVE  Fresh(e, new, next)
<1>1. e.kind = r.kind /\ e.on = r.on /\ r.met \subseteq e.met
  BY DEF Fits, Later, Common
<1>2. ASSUME r.kind = "beat", VerdictOf(r.poste) \notin e.met
      PROVE  /\ e.maxAge = Policy(new, "age")
             /\ next[e.poste].exists => next[e.poste].ok = e.was.ok
  <2>1. e.poste = r.poste /\ e.maxAge = r.maxAge /\ e.was = r.was
    BY <1>2 DEF Fits, Later
  <2>2. r.poste \in Postes /\ VerdictOf(r.poste) \in e.on \ e.met
    BY <1>1, <1>2 DEF Fits
  <2>3. /\ r.maxAge = Policy(values, "age")
        /\ postes[r.poste].exists => postes[r.poste].ok = r.was.ok
    BY <1>1, <1>2 DEF Fresh
  <2> QED
    BY <2>1, <2>2, <2>3 DEF Unmoved, Policy
<1>3. ASSUME r.kind = "patch"
      PROVE  /\ Usage \in e.on \ e.met => HoldTogether(new, e.patch)
             /\ Age \in e.on \ e.met => e.before = Policy(new, "age")
             /\ \A p \in Postes : VerdictOf(p) \in e.on \ e.met /\ next[p].exists =>
                  /\ e.had[p].exists /\ e.had[p].ok = next[p].ok
                  /\ e.had[p].report = next[p].report
  <2>1. e.patch = r.patch /\ e.before = r.before /\ e.had = r.had
    BY <1>3 DEF Fits, Later
  <2>2. ASSUME Usage \in e.on \ e.met PROVE HoldTogether(new, r.patch)
    <3>1. HoldTogether(values, r.patch) /\ \A k \in UsageKeys : new[k] = values[k]
      BY <1>1, <1>3, <2>2 DEF Fresh, Unmoved
    <3>2. \A k \in UsageKeys : Policy(Merged(new, r.patch), k) = Policy(Merged(values, r.patch), k)
      BY <3>1 DEF Policy, Merged, UsageKeys, Keys
    <3> QED
      BY <3>1, <3>2 DEF HoldTogether, UsageKeys
  <2>3. Age \in e.on \ e.met => r.before = Policy(new, "age")
    BY <1>1, <1>3 DEF Fresh, Unmoved, Policy
  <2>4. \A p \in Postes : VerdictOf(p) \in e.on \ e.met /\ next[p].exists =>
                  /\ r.had[p].exists /\ r.had[p].ok = next[p].ok
                  /\ r.had[p].report = next[p].report
    BY <1>1, <1>3 DEF Fresh, Unmoved
  <2> QED
    BY <2>1, <2>2, <2>3, <2>4
<1>4. ASSUME r.kind = "read", Mail \notin e.met PROVE e.read = new["mail"]
  <2>1. e.read = r.read /\ Mail \in e.on \ e.met
    BY <1>1, <1>4 DEF Fits, Later
  <2> QED
    BY <1>1, <1>4, <2>1 DEF Fresh, Unmoved
<1> QED
  <2>1. e.kind = "beat" /\ VerdictOf(e.poste) \notin e.met => VerdictOf(r.poste) \notin e.met
    BY <1>1 DEF Fits, Later
  <2> QED
    BY <1>1, <1>2, <1>3, <1>4, <2>1 DEF Fresh

\* A request that begins meets those on the same things, which meet it.
LEMMA Opened ==
  ASSUME Shape, Meets, Requests, NEW s \in Slots, NEW e,
         request' = [x \in Slots |-> IF x = s THEN e
                       ELSE [request[x] EXCEPT !.met = @ \cup (request[x].on \cap e.on)]],
         e.on \cap OthersOn(s) \subseteq e.met
  PROVE  /\ DOMAIN request' = Slots /\ request'[s] = e
         /\ \A x \in Slots \ {s} : Later(request[x], request'[x])
         /\ Meets'
<1>1. ASSUME NEW x \in Slots \ {s}
      PROVE  /\ Later(request[x], request'[x]) /\ request'[x].on = request[x].on
             /\ request'[x].met = request[x].met \cup (request[x].on \cap e.on)
  <2>1. request'[x] = [request[x] EXCEPT !.met = request[x].met \cup (request[x].on \cap e.on)]
    BY <1>1
  <2>2. {"kind", "on", "met"} \subseteq DOMAIN request[x]
    BY DEF Requests, Fits, Common
  <2> QED
    BY <2>1, <2>2 DEF Later
<1>2. request'[s] = e
  OBVIOUS
<1>3. Meets'
  <2> SUFFICES ASSUME NEW x \in Slots, NEW y \in Slots, x # y
               PROVE  request'[x].on \cap request'[y].on \subseteq request'[x].met
    BY DEF Meets
  <2>1. CASE x = s
    <3>1. request'[y].on \subseteq OthersOn(s)
      BY <1>1, <2>1 DEF OthersOn
    <3> QED
      BY <1>2, <2>1, <3>1
  <2>2. CASE y = s
    BY <1>1, <1>2, <2>2
  <2>3. CASE x # s /\ y # s
    BY <1>1, <2>3 DEF Meets
  <2> QED
    BY <2>1, <2>2, <2>3
<1> QED
  BY <1>1, <1>2, <1>3

\* A step in which time and the stored state stand, and a request begins.
LEMMA OpenedFresh ==
  ASSUME Shape, Meets, Requests, UNCHANGED <<now, stored, machine>>, NEW s \in Slots, NEW e,
         request' = [x \in Slots |-> IF x = s THEN e
                       ELSE [request[x] EXCEPT !.met = @ \cup (request[x].on \cap e.on)]],
         e.on \cap OthersOn(s) \subseteq e.met,
         Fits(e, now), Fresh(e, stored, machine)
  PROVE  Meets' /\ Requests' /\ DOMAIN request' = Slots
<1>1. /\ DOMAIN request' = Slots /\ request'[s] = e /\ Meets'
      /\ \A x \in Slots \ {s} : Later(request[x], request'[x])
  BY Opened
<1>2. ASSUME NEW x \in Slots \ {s}
      PROVE  Fits(request'[x], now) /\ Fresh(request'[x], stored, machine)
  <2>1. Fits(request[x], now) /\ Fresh(request[x], stored, machine) /\ now \in Nat
    BY DEF Requests, Shape
  <2> DEFINE later == request'[x]
  <2>2. Later(request[x], later) /\ now <= now
    BY <1>1, <2>1
  <2>3. Unmoved(later.on \ later.met, stored, stored, machine, machine)
    BY DEF Unmoved
  <2> HIDE DEF later
  <2>4. Fits(later, now)
    BY <2>1, <2>2, LaterFits
  <2>5. Fresh(later, stored, machine)
    BY <2>1, <2>2, <2>3, LaterFresh
  <2> QED
    BY <2>4, <2>5 DEF later
<1>3. \A x \in Slots : Fits(request'[x], now) /\ Fresh(request'[x], stored, machine)
  BY <1>1, <1>2
<1> QED
  BY <1>1, <1>3 DEF Requests

\* The others, when a request ends: it moved only what it was on, and they met it.
LEMMA OthersFresh ==
  ASSUME Shape, Meets, Requests, NEW s \in Slots, NEW x \in Slots \ {s},
         request'[x] = request[x], now' \in Nat, now <= now',
         \A thing : thing \notin request[s].on =>
             Unmoved({thing}, stored, stored', machine, machine')
  PROVE  Fits(request'[x], now') /\ Fresh(request'[x], stored', machine')
<1>1. Fits(request[x], now) /\ Fresh(request[x], stored, machine) /\ now \in Nat
  BY DEF Requests, Shape
<1>2. Later(request[x], request'[x])
  BY DEF Later
<1>3. \A thing \in request'[x].on \ request'[x].met : thing \notin request[s].on
  BY DEF Meets
<1>4. Unmoved(request'[x].on \ request'[x].met, stored, stored', machine, machine')
  BY <1>3 DEF Unmoved
<1> QED
  BY <1>1, <1>2, <1>4, LaterFits, LaterFresh

-----------------------------------------------------------------------------
(* What is stored keeps its type. *)

LEMMA Verdicts == \A report, maxAge : Verdict(report, maxAge) \in BOOLEAN
BY DEF Verdict

\* A gap credits no hour with less than nothing; a full hour is the most one has.
LEMMA CreditNat ==
  ASSUME NEW from \in Nat, NEW to \in Nat, NEW h \in Hours
  PROVE  CreditForGap(from, to)[h] \in Nat
<1>1. h \in Int /\ HourParts \in Int
  BY SettingsAssumption DEF Hours
<1>2. (h + 1) * HourParts \in Int /\ h * HourParts \in Int
  BY <1>1
<1> QED
  BY <1>2 DEF CreditForGap, Greater, Lesser

LEMMA UpsertType ==
  ASSUME NEW rows \in [Hours -> 0 .. HourParts], NEW credits,
         \A h \in Hours : credits[h] \in Nat
  PROVE  UpsertAdding(rows, credits) \in [Hours -> 0 .. HourParts]
<1>1. HourParts \in Nat
  BY SettingsAssumption
<1>2. ASSUME NEW h \in Hours PROVE Lesser(HourParts, rows[h] + credits[h]) \in 0 .. HourParts
  BY <1>1 DEF Lesser
<1> QED
  BY <1>2 DEF UpsertAdding

LEMMA SpendType ==
  ASSUME NEW class \in {"patch", "beat", "merge", "mail", "purge", "restart"},
         load \in 0 .. MaxLoad, Spend(class)
  PROVE  load' \in 0 .. MaxLoad
BY SettingsAssumption DEF Spend

\* A step that begins a request, or reads the settings for one.
LEMMA BeginType ==
  ASSUME TypeOK, Shape, load' \in 0 .. MaxLoad, DOMAIN request' = Slots,
         UNCHANGED <<now, stored, machine, uptime, remembered>>
  PROVE  TypeOK' /\ Shape'
BY DEF TypeOK, Shape

\* What TypeOK and Shape say of one poste.
LEMMA PosteType ==
  ASSUME TypeOK, Shape, NEW p \in Postes
  PROVE  /\ machine[p] \in Machine /\ machine[p].last \in 0 .. now /\ machine[p].exists \in BOOLEAN
         /\ machine[p].ok \in BOOLEAN /\ machine[p].report \in Reports \cup {None}
         /\ {"exists", "last", "report", "ok"} = DOMAIN machine[p]
BY DEF TypeOK, Shape, Machine

LEMMA MachineRecord ==
  ASSUME NEW m \in Machine, NEW last \in Nat, NEW report \in Reports \cup {None}, NEW ok \in BOOLEAN
  PROVE  /\ [m EXCEPT !.last = last] \in Machine
         /\ [m EXCEPT !.ok = ok] \in Machine
         /\ [m EXCEPT !.last = last, !.report = report, !.ok = ok] \in Machine
BY DEF Machine

\* A commit of a heartbeat, what it writes named.
BeatWritten(s, seen) ==
  LET r == request[s]
      p == r.poste
      verdict == IF r.report = None THEN r.was.ok ELSE Verdict(r.report, r.maxAge)
  IN  /\ machine' = [machine EXCEPT ![p] =
           [machine[p] EXCEPT !.last = seen,
                              !.report = IF r.report = None THEN machine[p].report ELSE r.report,
                              !.ok = IF verdict = r.was.ok THEN machine[p].ok ELSE verdict]]
      /\ uptime' = [uptime EXCEPT ![p] = UpsertAdding(uptime[p], CreditForGap(r.was.last, seen))]

LEMMA BeatWrites ==
  ASSUME TypeOK, Shape, NEW s \in Slots, HeartbeatCommit(s)
  PROVE  \E seen \in request[s].at .. now : BeatWritten(s, seen)
BY DEF HeartbeatCommit, BeatWritten

LEMMA BeatType ==
  ASSUME TypeOK, Shape, Requests, NEW s \in Slots, HeartbeatCommit(s)
  PROVE  TypeOK' /\ Shape'
<1> DEFINE r == request[s]
           p == r.poste
           verdict == IF r.report = None THEN r.was.ok ELSE Verdict(r.report, r.maxAge)
<1>1. /\ p \in Postes /\ r.report \in Reports \cup {None} /\ r.was \in Machine /\ r.at \in Nat
  BY DEF Requests, Fits, HeartbeatCommit, Is
<1>2. PICK seen \in r.at .. now : BeatWritten(s, seen)
  BY BeatWrites
<1>3. seen \in Nat /\ seen <= now /\ now \in Nat
  BY <1>1, <1>2 DEF Shape
<1>4. r.was.ok \in BOOLEAN /\ r.was.last \in Nat /\ verdict \in BOOLEAN
  BY <1>1, Verdicts DEF Machine
<1> DEFINE report == IF r.report = None THEN machine[p].report ELSE r.report
           ok     == IF verdict = r.was.ok THEN machine[p].ok ELSE verdict
<1>5. report \in Reports \cup {None} /\ ok \in BOOLEAN /\ machine[p] \in Machine
  BY <1>1, <1>4, PosteType
<1>6. machine' = [machine EXCEPT ![p] = [machine[p] EXCEPT !.last = seen, !.report = report, !.ok = ok]]
  BY <1>2 DEF BeatWritten
<1>7. uptime' = [uptime EXCEPT ![p] = UpsertAdding(uptime[p], CreditForGap(r.was.last, seen))]
  BY <1>2 DEF BeatWritten
<1>8. UpsertAdding(uptime[p], CreditForGap(r.was.last, seen)) \in [Hours -> 0 .. HourParts]
  BY <1>1, <1>3, <1>4, CreditNat, UpsertType DEF TypeOK
<1> HIDE DEF r, p, verdict, report, ok
<1>9. [machine[p] EXCEPT !.last = seen, !.report = report, !.ok = ok] \in Machine
  BY <1>3, <1>5, MachineRecord
<1>10. machine' \in [Postes -> Machine] /\ DOMAIN uptime' = Postes
  BY <1>6, <1>7, <1>9 DEF Shape
<1>11. machine[p].exists /\ UNCHANGED <<now, stored, remembered, load>> /\ DOMAIN request' = Slots
  BY DEF HeartbeatCommit, Shape, r, p
<1>12. machine'[p].exists = machine[p].exists /\ machine'[p].last = seen
  BY <1>1, <1>5, <1>6 DEF Shape, Machine
<1>13. ASSUME NEW q \in Postes
       PROVE  /\ uptime'[q] \in [Hours -> 0 .. HourParts]
              /\ machine'[q].last <= now
              /\ ~machine'[q].exists => uptime'[q] = Unused
  <2>1. CASE q = p
    BY <1>1, <1>3, <1>7, <1>8, <1>11, <1>12, <2>1 DEF Shape
  <2>2. CASE q # p
    BY <1>6, <1>7, <2>2 DEF Shape, TypeOK
  <2> QED
    BY <2>1, <2>2
<1> QED
  BY <1>10, <1>11, <1>13 DEF TypeOK, Shape

LEMMA MergeType ==
  ASSUME TypeOK, Shape, Requests, NEW s \in Slots, MergeCommit(s)
  PROVE  TypeOK' /\ Shape'
<1> DEFINE r == request[s]
           t == r.target
           d == r.dup
           last == IF r.last[d] > r.last[t] THEN r.last[d] ELSE machine[t].last
<1>1. /\ t \in Postes /\ d \in Postes /\ t # d
      /\ r.last[d] \in Nat /\ r.last[d] <= now
  BY DEF Requests, Fits, MergeCommit, Is
<1>2. /\ machine' = [machine EXCEPT ![t] = [machine[t] EXCEPT !.last = last], ![d] = Gone]
      /\ uptime' = [uptime EXCEPT ![t] = MoveTo(uptime[t], uptime[d]), ![d] = Unused]
      /\ UNCHANGED <<now, stored, remembered, load>> /\ DOMAIN request' = Slots
      /\ machine[t].exists
  BY <1>1 DEF MergeCommit, Shape
<1>3. machine[t] \in Machine /\ last \in Nat /\ last <= now
  BY <1>1, PosteType DEF Machine, TypeOK
<1> HIDE DEF r, t, d, last
<1>4. [machine[t] EXCEPT !.last = last] \in Machine /\ Gone \in Machine
  BY <1>3 DEF Machine, Gone
<1>5. machine' \in [Postes -> Machine] /\ DOMAIN uptime' = Postes
  BY <1>2, <1>4 DEF Shape
<1>6. /\ uptime[t] \in [Hours -> 0 .. HourParts] /\ uptime[d] \in [Hours -> 0 .. HourParts]
  BY <1>1 DEF TypeOK
<1>7. MoveTo(uptime[t], uptime[d]) \in [Hours -> 0 .. HourParts]
  <2>1. \A h \in Hours : uptime[d][h] \in Nat
    BY <1>6, SettingsAssumption
  <2> QED
    BY <1>6, <2>1, UpsertType DEF MoveTo
<1>8. Unused \in [Hours -> 0 .. HourParts]
  BY SettingsAssumption DEF Unused
<1>9. machine'[t].exists /\ machine'[t].last <= now
  BY <1>1, <1>2, <1>3 DEF Shape, Machine
<1>10. ASSUME NEW q \in Postes
       PROVE  /\ uptime'[q] \in [Hours -> 0 .. HourParts]
              /\ machine'[q].last <= now
              /\ ~machine'[q].exists => uptime'[q] = Unused
  <2>1. CASE q = t
    BY <1>1, <1>2, <1>7, <1>9, <2>1 DEF Shape
  <2>2. CASE q = d
    BY <1>1, <1>2, <1>8, <2>2 DEF Shape, Gone
  <2>3. CASE q # t /\ q # d
    BY <1>2, <2>3 DEF Shape, TypeOK
  <2> QED
    BY <2>1, <2>2, <2>3
<1> QED
  BY <1>2, <1>5, <1>10 DEF TypeOK, Shape

LEMMA RecomputeType ==
  ASSUME Shape, NEW seen, NEW maxAge
  PROVE  /\ RecomputeUpToDate(seen, maxAge) \in [Postes -> Machine]
         /\ \A p \in Postes :
              LET after == RecomputeUpToDate(seen, maxAge)[p]
              IN  /\ after.exists = machine[p].exists /\ after.last = machine[p].last
                  /\ after.report = machine[p].report
                  /\ after.ok = IF seen[p].exists /\ machine[p].exists
                                     /\ Verdict(seen[p].report, maxAge) # seen[p].ok
                                THEN Verdict(seen[p].report, maxAge) ELSE machine[p].ok
<1> SUFFICES ASSUME NEW p \in Postes
             PROVE  LET after == RecomputeUpToDate(seen, maxAge)[p]
                    IN  /\ after \in Machine
                        /\ after.exists = machine[p].exists /\ after.last = machine[p].last
                        /\ after.report = machine[p].report
                        /\ after.ok = IF seen[p].exists /\ machine[p].exists
                                           /\ Verdict(seen[p].report, maxAge) # seen[p].ok
                                      THEN Verdict(seen[p].report, maxAge) ELSE machine[p].ok
  BY DEF RecomputeUpToDate
<1> DEFINE ok == Verdict(seen[p].report, maxAge)
<1>1. ok \in BOOLEAN /\ machine[p] \in Machine
  BY Verdicts DEF Shape
<1>2. RecomputeUpToDate(seen, maxAge)[p] =
        IF seen[p].exists /\ machine[p].exists /\ ok # seen[p].ok
        THEN [machine[p] EXCEPT !.ok = ok] ELSE machine[p]
  BY DEF RecomputeUpToDate
<1> HIDE DEF ok
<1>3. /\ [machine[p] EXCEPT !.ok = ok] \in Machine
      /\ [machine[p] EXCEPT !.ok = ok].ok = ok
      /\ [machine[p] EXCEPT !.ok = ok].exists = machine[p].exists
      /\ [machine[p] EXCEPT !.ok = ok].last = machine[p].last
      /\ [machine[p] EXCEPT !.ok = ok].report = machine[p].report
  BY <1>1 DEF Machine
<1> QED
  BY <1>1, <1>2, <1>3 DEF ok

\* What the commit of a patch does to the postes.
Recomputed(s) ==
  LET r     == request[s]
      after == Policy(stored', "age")
  IN  \/ /\ "age" \in DOMAIN r.patch /\ after # r.before
         /\ \E seen \in {r.had, machine} : machine' = RecomputeUpToDate(seen, after)
      \/ ~("age" \in DOMAIN r.patch /\ after # r.before) /\ machine' = machine

LEMMA UpdateType ==
  ASSUME TypeOK, Shape, Requests, NEW s \in Slots, UpdateCommit(s)
  PROVE  TypeOK' /\ Shape'
<1>1. PatchOK(request[s].patch)
  BY DEF Requests, Fits, UpdateCommit, Is
<1>2. /\ stored' = Merged(stored, request[s].patch) /\ Recomputed(s)
      /\ UNCHANGED <<now, uptime, remembered, load>> /\ DOMAIN request' = Slots
  BY DEF UpdateCommit, Recomputed
<1>3. DOMAIN stored' = Keys /\ \A k \in Keys : stored'[k] \in Values(k)
  BY <1>1, <1>2 DEF Merged, PatchOK, TypeOK
<1>4. machine' \in [Postes -> Machine]
  BY <1>2, RecomputeType DEF Recomputed, Shape
<1>5. \A p \in Postes : machine'[p].exists = machine[p].exists /\ machine'[p].last = machine[p].last
  BY <1>2, RecomputeType DEF Recomputed
<1> QED
  BY <1>2, <1>3, <1>4, <1>5 DEF TypeOK, Shape

LEMMA PurgeType ==
  ASSUME TypeOK, Shape, PurgeUsage
  PROVE  TypeOK' /\ Shape'
<1>1. load' \in 0 .. MaxLoad
  BY SpendType DEF PurgeUsage, TypeOK
<1>2. /\ DOMAIN uptime' = Postes /\ UNCHANGED <<now, stored, machine, remembered, request>>
      /\ \A p \in Postes : /\ DOMAIN uptime'[p] = Hours
                           /\ \A h \in Hours : uptime'[p][h] \in {0, uptime[p][h]}
                           /\ uptime'[p] = [h \in Hours |-> uptime'[p][h]]
  BY DEF PurgeUsage
<1>3. ASSUME NEW p \in Postes
      PROVE  /\ uptime'[p] \in [Hours -> 0 .. HourParts]
             /\ ~machine[p].exists => uptime'[p] = Unused
  <2>1. 0 \in 0 .. HourParts
    BY SettingsAssumption
  <2>2. uptime'[p] \in [Hours -> 0 .. HourParts]
    BY <1>2, <2>1 DEF TypeOK
  <2>3. uptime[p] = Unused => \A h \in Hours : uptime'[p][h] = 0
    BY <1>2 DEF Unused
  <2>4. ~machine[p].exists => uptime'[p] = Unused
    BY <2>2, <2>3, <1>2 DEF TypeOK, Unused
  <2> QED
    BY <2>2, <2>4
<1> QED
  BY <1>1, <1>2, <1>3 DEF TypeOK, Shape

LEMMA TypeStep ==
  ASSUME TypeOK, Shape, Requests, [Next]_vars
  PROVE  TypeOK' /\ Shape'
<1>1. ASSUME NEW s \in Slots, NEW p \in Postes, NEW report \in Reports \cup {None},
             Heartbeat(s, p, report)
      PROVE  TypeOK' /\ Shape'
  BY <1>1, SpendType, BeginType DEF Heartbeat, Begin, TypeOK
<1>2. ASSUME NEW s \in Slots, NEW target \in Postes, NEW dup \in Postes, MergeMachine(s, target, dup)
      PROVE  TypeOK' /\ Shape'
  BY <1>2, SpendType, BeginType DEF MergeMachine, Begin, TypeOK
<1>3. ASSUME NEW s \in Slots, NEW patch \in Patches, UpdateSettings(s, patch)
      PROVE  TypeOK' /\ Shape'
  BY <1>3, SpendType, BeginType DEF UpdateSettings, Begin, TypeOK
<1>4. ASSUME NEW s \in Slots, NEW tried \in Values("mail"), SendTestEmail(s, tried)
      PROVE  TypeOK' /\ Shape'
  BY <1>4, SpendType, BeginType DEF SendTestEmail, Reading, TypeOK
<1>5. ASSUME NEW s \in Slots, LoadStored(s)
      PROVE  TypeOK' /\ Shape'
  BY <1>5, BeginType DEF LoadStored, Reading, TypeOK
<1>6. ASSUME NEW s \in Slots, Resolved(s)
      PROVE  TypeOK' /\ Shape'
  <2>1. request[s].read \in Values("mail")
    BY <1>6 DEF Resolved, Is, Requests, Fits
  <2> QED
    BY <1>6, <2>1 DEF Resolved, Remember, TypeOK, Shape
<1>7. ASSUME NEW s \in Slots, Abort(s)
      PROVE  TypeOK' /\ Shape'
  BY <1>7 DEF Abort, TypeOK, Shape
<1>8. ASSUME Lifespan
      PROVE  TypeOK' /\ Shape'
  <2>1. load' \in 0 .. MaxLoad
    BY <1>8, SpendType DEF Lifespan, TypeOK
  <2>2. remembered' \in Values("mail") /\ DOMAIN request' = Slots
    BY <1>8 DEF Lifespan, TypeOK, Keys, Values
  <2> QED
    BY <1>8, <2>1, <2>2 DEF Lifespan, TypeOK, Shape
<1>9. ASSUME Tick
      PROVE  TypeOK' /\ Shape'
  <2>1. now' \in 0 .. MaxTime /\ now' \in Nat /\ now <= now'
    BY <1>9, SettingsAssumption DEF Tick, TypeOK
  <2>2. \A p \in Postes : machine[p].last <= now'
    BY <2>1, PosteType DEF Shape, TypeOK
  <2> QED
    BY <1>9, <2>1, <2>2 DEF Tick, TypeOK, Shape
<1>10. ASSUME UNCHANGED vars
       PROVE  TypeOK' /\ Shape'
  BY <1>10 DEF vars, TypeOK, Shape
<1> QED
  BY <1>1, <1>2, <1>3, <1>4, <1>5, <1>6, <1>7, <1>8, <1>9, <1>10,
     BeatType, MergeType, UpdateType, PurgeType DEF Next

-----------------------------------------------------------------------------
(* Requests that begin. *)

\* What is said of the settings and the postes, and of the requests under way.
Kept == Meets /\ Requests /\ ThresholdsHold /\ MailOwed /\ VerdictInForce

\* Begin opens a request as OpenedFresh says.
LEMMA Begun ==
  ASSUME IInv, NEW s \in Slots, NEW class, NEW r, Begin(s, class, r), Common \subseteq DOMAIN r,
         r.kind \notin {"answer", "read"},
         LET e == [r EXCEPT !.met = r.on \cap OthersOn(s)]
         IN  Fits(e, now) /\ Fresh(e, stored, machine)
  PROVE  Kept'
<1> DEFINE e == [r EXCEPT !.met = r.on \cap OthersOn(s)]
<1>1. e.on = r.on /\ e.kind = r.kind /\ e.met = r.on \cap OthersOn(s)
  BY DEF Common
<1>2. Fits(e, now) /\ Fresh(e, stored, machine)
  OBVIOUS
<1>3. request' = [x \in Slots |-> IF x = s THEN e
                       ELSE [request[x] EXCEPT !.met = @ \cup (request[x].on \cap e.on)]]
  BY <1>1 DEF Begin
<1>4. request'[s] = e
  BY <1>3
<1> HIDE DEF e
<1>5. UNCHANGED <<now, stored, machine, uptime, remembered, crossed>>
  BY DEF Begin
<1>6. Meets' /\ Requests'
  BY <1>1, <1>2, <1>3, <1>5, OpenedFresh DEF IInv
<1>7. ASSUME NEW x \in Slots \ {s} PROVE Later(request[x], request'[x])
  BY <1>1, <1>3, Opened DEF IInv
<1>8. \A x \in Slots \ {s} : request'[x].kind = request[x].kind /\ request'[x].on = request[x].on
  BY <1>7 DEF Later, IInv, Requests, Fits, Common
<1>9. ThresholdsHold' /\ VerdictInForce'
  BY <1>5 DEF IInv, ThresholdsHold, VerdictInForce
<1>10. request[s].kind = "idle"
  BY DEF Begin, Idle
<1>11. MailOwed'
  BY <1>5, <1>8, <1>10 DEF IInv, MailOwed
<1> QED
  BY <1>6, <1>9, <1>11 DEF Kept

LEMMA HeartbeatStep ==
  ASSUME IInv, NEW s \in Slots, NEW p \in Postes, NEW report \in Reports \cup {None},
         Heartbeat(s, p, report)
  PROVE  Kept'
<1> DEFINE r == [kind |-> "beat", on |-> {VerdictOf(p), HoursOf(p)}, met |-> {},
                 poste |-> p, report |-> report, maxAge |-> Policy(stored, "age"),
                 was |-> machine[p], at |-> now]
           e == [r EXCEPT !.met = r.on \cap OthersOn(s)]
<1>1. Begin(s, "beat", r)
  BY DEF Heartbeat
<1>2. /\ DOMAIN e = {"kind", "on", "met", "poste", "report", "maxAge", "was", "at"}
      /\ e.kind = "beat" /\ e.on = {VerdictOf(p), HoursOf(p)} /\ e.poste = p /\ e.report = report
      /\ e.maxAge = Policy(stored, "age") /\ e.was = machine[p] /\ e.at = now
  OBVIOUS
<1>3. Common \subseteq DOMAIN r /\ r.kind = "beat"
  BY DEF Common
<1>4. now \in Nat /\ now <= now /\ machine[p] \in Machine
  BY DEF IInv, Shape
<1> HIDE DEF e
<1>5. Fits(e, now) /\ Fresh(e, stored, machine)
  BY <1>2, <1>4 DEF Fits, Fresh, Common
<1> QED
  BY <1>1, <1>3, <1>5, Begun DEF e

LEMMA MergeStep ==
  ASSUME IInv, NEW s \in Slots, NEW target \in Postes, NEW dup \in Postes,
         MergeMachine(s, target, dup)
  PROVE  Kept'
<1> DEFINE r == [kind |-> "merge", on |-> {HoursOf(target), HoursOf(dup)}, met |-> {},
                 target |-> target, dup |-> dup, last |-> [p \in {target, dup} |-> machine[p].last]]
           e == [r EXCEPT !.met = r.on \cap OthersOn(s)]
<1>1. Begin(s, "merge", r) /\ target # dup
  BY DEF MergeMachine
<1>2. /\ DOMAIN e = {"kind", "on", "met", "target", "dup", "last"}
      /\ e.kind = "merge" /\ e.on = {HoursOf(target), HoursOf(dup)}
      /\ e.target = target /\ e.dup = dup
      /\ \A p \in {target, dup} : e.last[p] = machine[p].last
  OBVIOUS
<1>3. Common \subseteq DOMAIN r /\ r.kind = "merge"
  BY DEF Common
<1>4. \A p \in {target, dup} : machine[p].last \in Nat /\ machine[p].last <= now
  BY PosteType DEF IInv, TypeOK, Machine
<1> HIDE DEF e
<1>5. Fits(e, now) /\ Fresh(e, stored, machine)
  BY <1>1, <1>2, <1>4 DEF Fits, Fresh, Common
<1> QED
  BY <1>1, <1>3, <1>5, Begun DEF e

LEMMA PatchesOK == \A patch \in Patches : PatchOK(patch)
BY DEF Patches, PatchOK, Keys, Values

LEMMA UpdateStep ==
  ASSUME IInv, NEW s \in Slots, NEW patch \in Patches, UpdateSettings(s, patch)
  PROVE  Kept'
<1> DEFINE r == [kind |-> "patch", on |-> Touches(patch), met |-> {}, patch |-> patch,
                 before |-> Policy(stored, "age"), had |-> machine]
           e == [r EXCEPT !.met = r.on \cap OthersOn(s)]
<1>1. Begin(s, "patch", r) /\ (DOMAIN patch \cap UsageKeys # {} => HoldTogether(stored, patch))
  BY DEF UpdateSettings
<1>2. /\ DOMAIN e = {"kind", "on", "met", "patch", "before", "had"}
      /\ e.kind = "patch" /\ e.on = Touches(patch) /\ e.patch = patch
      /\ e.before = Policy(stored, "age") /\ e.had = machine
  OBVIOUS
<1>3. Common \subseteq DOMAIN r /\ r.kind = "patch"
  BY DEF Common
<1>4. PatchOK(patch) /\ machine \in [Postes -> Machine]
  BY PatchesOK DEF IInv, Shape
<1>5. Usage \in e.on => HoldTogether(stored, patch)
  BY <1>1, <1>2, TouchesWhat
<1> HIDE DEF e
<1>6. Fits(e, now)
  BY <1>2, <1>4 DEF Fits, Common
<1>7. Fresh(e, stored, machine)
  BY <1>2, <1>5 DEF Fresh
<1> QED
  BY <1>1, <1>3, <1>6, <1>7, Begun DEF e

LEMMA ReadingStep ==
  ASSUME IInv, NEW s \in Slots, NEW tried, Reading(s, tried),
         UNCHANGED <<now, stored, machine, crossed>>
  PROVE  Kept'
<1> DEFINE e == [kind |-> "read", on |-> {Mail}, met |-> {Mail} \cap OthersOn(s),
                 read |-> stored["mail"], tried |-> tried]
<1>1. request' = [x \in Slots |-> IF x = s THEN e
                       ELSE [request[x] EXCEPT !.met = @ \cup (request[x].on \cap e.on)]]
  BY DEF Reading
<1>2. /\ DOMAIN e = {"kind", "on", "met", "read", "tried"} /\ e.kind = "read" /\ e.on = {Mail}
      /\ e.met = e.on \cap OthersOn(s) /\ e.read = stored["mail"]
  OBVIOUS
<1>3. stored["mail"] \in Values("mail")
  BY DEF IInv, TypeOK, Keys
<1>4. request'[s] = e
  BY <1>1
<1> HIDE DEF e
<1>5. Fits(e, now) /\ Fresh(e, stored, machine)
  BY <1>2, <1>3 DEF Fits, Fresh, Common
<1>6. Meets' /\ Requests'
  BY <1>1, <1>2, <1>5, OpenedFresh DEF IInv
<1>7. ThresholdsHold' /\ VerdictInForce'
  BY DEF IInv, ThresholdsHold, VerdictInForce
<1>8. MailOwed'
  BY <1>2, <1>4 DEF MailOwed
<1> QED
  BY <1>6, <1>7, <1>8 DEF Kept

-----------------------------------------------------------------------------
(* Requests that end. *)

LEMMA IdleOK ==
  ASSUME NEW t \in Nat, NEW values, NEW postes
  PROVE  Fits(Idle, t) /\ Fresh(Idle, values, postes)
BY DEF Idle, Fits, Fresh, Common

\* A request ends: it moved only what it was on.
LEMMA Ended ==
  ASSUME IInv, Shape', NEW s \in Slots, request' = [request EXCEPT ![s] = Idle],
         UNCHANGED now,
         \A thing : thing \notin request[s].on =>
             Unmoved({thing}, stored, stored', machine, machine')
  PROVE  Meets' /\ Requests'
<1>1. request'[s] = Idle /\ \A x \in Slots \ {s} : request'[x] = request[x]
  BY DEF IInv, Shape
<1>2. Meets'
  BY <1>1 DEF IInv, Meets, Idle
<1>3. ASSUME NEW x \in Slots \ {s}
      PROVE  Fits(request'[x], now') /\ Fresh(request'[x], stored', machine')
  <2>1. Shape /\ Meets /\ Requests /\ request'[x] = request[x] /\ x \in Slots \ {s}
    BY <1>1 DEF IInv
  <2>2. now' \in Nat /\ now <= now'
    BY DEF Shape
  <2> QED
    BY <2>1, <2>2, OthersFresh
<1>4. Fits(request'[s], now') /\ Fresh(request'[s], stored', machine')
  BY <1>1, IdleOK DEF Shape
<1> QED
  BY <1>2, <1>3, <1>4 DEF Requests

LEMMA BeatStep ==
  ASSUME IInv, Shape', NEW s \in Slots, HeartbeatCommit(s)
  PROVE  Kept'
<1> DEFINE r == request[s]
           p == r.poste
           verdict == IF r.report = None THEN r.was.ok ELSE Verdict(r.report, r.maxAge)
<1>1. /\ r.kind = "beat" /\ p \in Postes /\ r.report \in Reports \cup {None} /\ r.was \in Machine
      /\ r.on = {VerdictOf(p), HoursOf(p)}
  BY DEF IInv, Requests, Fits, HeartbeatCommit, Is
<1>2. PICK seen \in r.at .. now : BeatWritten(s, seen)
  BY BeatWrites DEF IInv
<1>3. /\ machine[p].exists /\ Cross(s, IF r.report = None THEN {} ELSE {VerdictOf(p)})
      /\ request' = [request EXCEPT ![s] = Idle]
      /\ UNCHANGED <<now, stored, remembered>>
  BY DEF HeartbeatCommit
<1>4. /\ \A q \in Postes \ {p} : machine'[q] = machine[q]
      /\ machine'[p].report = IF r.report = None THEN machine[p].report ELSE r.report
      /\ machine'[p].ok = IF verdict = r.was.ok THEN machine[p].ok ELSE verdict
  <2>1. {"exists", "last", "report", "ok"} = DOMAIN machine[p]
    BY <1>1, PosteType DEF IInv
  <2> QED
    BY <1>1, <1>2, <2>1 DEF BeatWritten, IInv, Shape
<1>5. Fresh(r, stored, machine)
  BY DEF IInv, Requests
<1> HIDE DEF r, p, verdict
<1>6. Meets' /\ Requests'
  <2>1. ASSUME NEW thing, thing \notin r.on
        PROVE  Unmoved({thing}, stored, stored', machine, machine')
    <3>1. thing # VerdictOf(p)
      BY <1>1, <2>1
    <3>2. \A q \in Postes : VerdictOf(q) = thing => machine'[q] = machine[q]
      BY <1>4, <3>1
    <3> QED
      BY <1>3, <3>2 DEF Unmoved
  <2> QED
    BY <1>3, <2>1, Ended DEF r
<1>7. /\ crossed \ {VerdictOf(p)} \subseteq crossed' /\ r.met \subseteq crossed'
      /\ r.report = None => crossed \subseteq crossed'
  BY <1>3 DEF Cross, r
<1>8. ThresholdsHold'
  BY <1>3, <1>7, Things DEF IInv, ThresholdsHold, Policy
<1>9. MailOwed'
  <2>1. \A x \in Slots \ {s} : request'[x] = request[x]
    BY <1>3 DEF IInv, Shape
  <2> QED
    BY <1>1, <1>3, <1>7, <2>1, Things DEF IInv, MailOwed, r
<1>10. VerdictInForce'
  <2> SUFFICES ASSUME Age \notin crossed', NEW q \in Postes, machine'[q].exists,
                      VerdictOf(q) \notin crossed'
               PROVE  machine'[q].ok = Verdict(machine'[q].report, Policy(stored, "age"))
    BY <1>3 DEF VerdictInForce, Policy
  <2>1. Age \notin crossed
    BY <1>7, Things
  <2>2. CASE q # p
    BY <1>4, <1>7, <2>1, <2>2, Things DEF IInv, VerdictInForce
  <2>3. CASE q = p /\ r.report = None
    BY <1>3, <1>4, <1>7, <2>1, <2>3 DEF IInv, VerdictInForce, verdict
  <2>4. CASE q = p /\ r.report # None
    <3>1. r.maxAge = Policy(stored, "age") /\ machine[p].ok = r.was.ok
      BY <1>1, <1>3, <1>5, <1>7, <2>4 DEF Fresh, p
    <3> QED
      BY <1>4, <2>4, <3>1 DEF verdict
  <2> QED
    BY <2>2, <2>3, <2>4
<1> QED
  BY <1>6, <1>8, <1>9, <1>10 DEF Kept

LEMMA MergeCommitStep ==
  ASSUME IInv, Shape', NEW s \in Slots, MergeCommit(s)
  PROVE  Kept'
<1> DEFINE r == request[s]
           t == r.target
           d == r.dup
           last == IF r.last[d] > r.last[t] THEN r.last[d] ELSE machine[t].last
<1>1. r.kind = "merge" /\ t \in Postes /\ d \in Postes /\ t # d
  BY DEF IInv, Requests, Fits, MergeCommit, Is
<1>2. /\ machine' = [machine EXCEPT ![t] = [machine[t] EXCEPT !.last = last], ![d] = Gone]
      /\ request' = [request EXCEPT ![s] = Idle]
      /\ UNCHANGED <<now, stored, remembered>>
      /\ crossed \ {HoursOf(d), VerdictOf(d)} \subseteq crossed'
  BY <1>1 DEF MergeCommit, IInv, Shape
<1>3. {"exists", "last", "report", "ok"} = DOMAIN machine[t]
  BY <1>1, PosteType DEF IInv
<1> HIDE DEF r, t, d, last
<1>4. /\ \A q \in Postes \ {d} : /\ machine'[q].exists = machine[q].exists
                                 /\ machine'[q].ok = machine[q].ok
                                 /\ machine'[q].report = machine[q].report
      /\ ~machine'[d].exists
  BY <1>1, <1>2, <1>3 DEF IInv, Shape, Gone
<1>5. \A thing : Unmoved({thing}, stored, stored', machine, machine')
  BY <1>2, <1>4 DEF Unmoved
<1>6. Meets' /\ Requests'
  BY <1>2, <1>5, Ended
<1>7. ThresholdsHold'
  BY <1>2, Things DEF IInv, ThresholdsHold, Policy
<1>8. MailOwed'
  <2>1. \A x \in Slots \ {s} : request'[x] = request[x]
    BY <1>2 DEF IInv, Shape
  <2> QED
    BY <1>1, <1>2, <2>1, Things DEF IInv, MailOwed, r
<1>9. VerdictInForce'
  <2> SUFFICES ASSUME Age \notin crossed', NEW q \in Postes, machine'[q].exists,
                      VerdictOf(q) \notin crossed'
               PROVE  machine'[q].ok = Verdict(machine'[q].report, Policy(stored, "age"))
    BY <1>2 DEF VerdictInForce, Policy
  <2>1. q # d
    BY <1>4
  <2>2. Age \notin crossed /\ VerdictOf(q) \notin crossed
    BY <1>2, <2>1, Things
  <2> QED
    BY <1>4, <2>1, <2>2 DEF IInv, VerdictInForce
<1> QED
  BY <1>6, <1>7, <1>8, <1>9 DEF Kept

\* The verdicts of a poste, when the threshold of a patch is applied to rows read before or now.
LEMMA UpdateVerdicts ==
  ASSUME IInv, Shape', NEW s \in Slots, UpdateCommit(s), Age \notin crossed',
         NEW p \in Postes, machine'[p].exists, VerdictOf(p) \notin crossed'
  PROVE  machine'[p].ok = Verdict(machine'[p].report, Policy(stored', "age"))
<1> DEFINE r == request[s]
           after == Policy(stored', "age")
<1>1. /\ r.kind = "patch" /\ r.on = Touches(r.patch) /\ Fresh(r, stored, machine)
  BY DEF IInv, Requests, Fits, UpdateCommit, Is
<1>2. /\ stored' = Merged(stored, r.patch) /\ Recomputed(s)
      /\ crossed \ {Usage} \subseteq crossed' /\ r.met \subseteq crossed'
  BY DEF UpdateCommit, Recomputed, Cross
<1>3. Age \notin crossed /\ VerdictOf(p) \notin crossed /\ Age \notin r.met /\ VerdictOf(p) \notin r.met
  BY <1>2, Things
<1>4. /\ machine'[p].exists = machine[p].exists /\ machine'[p].report = machine[p].report
  <2>1. ASSUME NEW seen, machine' = RecomputeUpToDate(seen, after)
        PROVE  machine'[p].exists = machine[p].exists /\ machine'[p].report = machine[p].report
    <3> DEFINE rows == RecomputeUpToDate(seen, after)
    <3>1. rows[p].exists = machine[p].exists /\ rows[p].report = machine[p].report
      BY RecomputeType DEF IInv
    <3> HIDE DEF rows
    <3> QED
      BY <2>1, <3>1 DEF rows
  <2>2. \/ machine' = machine
        \/ \E seen : machine' = RecomputeUpToDate(seen, after)
    BY <1>2 DEF Recomputed
  <2> HIDE DEF after
  <2> QED
    BY <2>1, <2>2
<1>5. machine[p].ok = Verdict(machine[p].report, Policy(stored, "age"))
  BY <1>3, <1>4 DEF IInv, VerdictInForce
<1>6. CASE "age" \notin DOMAIN r.patch
  <2>1. stored'["age"] = stored["age"]
    BY <1>2, <1>6 DEF Merged, Keys
  <2>2. machine' = machine
    BY <1>2, <1>6 DEF Recomputed
  <2> QED
    BY <1>5, <2>1, <2>2 DEF Policy
<1>7. CASE "age" \in DOMAIN r.patch
  <2>1. Age \in r.on /\ VerdictOf(p) \in r.on
    BY <1>1, <1>7, TouchesWhat
  <2>2. /\ r.before = Policy(stored, "age")
        /\ r.had[p].exists /\ r.had[p].ok = machine[p].ok /\ r.had[p].report = machine[p].report
    BY <1>1, <1>3, <1>4, <2>1 DEF Fresh
  <2>3. CASE after = r.before
    BY <1>2, <1>5, <2>2, <2>3 DEF Recomputed
  <2>4. CASE after # r.before
    <3>1. PICK seen \in {r.had, machine} : machine' = RecomputeUpToDate(seen, after)
      BY <1>2, <1>7, <2>4 DEF Recomputed
    <3>2. seen[p].exists /\ seen[p].ok = machine[p].ok /\ seen[p].report = machine[p].report
      BY <1>4, <2>2, <3>1
    <3>3. machine'[p].ok = IF seen[p].exists /\ machine[p].exists
                                     /\ Verdict(seen[p].report, after) # seen[p].ok
                                THEN Verdict(seen[p].report, after) ELSE machine[p].ok
      BY <3>1, RecomputeType DEF IInv
    <3> QED
      BY <1>4, <3>2, <3>3
  <2> QED
    BY <2>3, <2>4
<1> QED
  BY <1>6, <1>7

LEMMA UpdateCommitStep ==
  ASSUME IInv, Shape', NEW s \in Slots, UpdateCommit(s)
  PROVE  Kept'
<1> DEFINE r == request[s]
           e == [kind |-> "answer", on |-> r.on \cap {Mail}, met |-> r.met \cap {Mail}]
<1>1. /\ r.kind = "patch" /\ r.on = Touches(r.patch) /\ Fresh(r, stored, machine)
  BY DEF IInv, Requests, Fits, UpdateCommit, Is
<1>2. /\ stored' = Merged(stored, r.patch) /\ Recomputed(s)
      /\ Cross(s, r.on \cap {Usage})
      /\ request' = [x \in Slots |-> IF x = s THEN e ELSE request[x]]
      /\ UNCHANGED <<now, remembered>>
  BY DEF UpdateCommit, Recomputed
<1>3. request'[s] = e /\ \A x \in Slots \ {s} : request'[x] = request[x]
  BY <1>2
<1>4. /\ \A k \in Keys \ DOMAIN r.patch : stored'[k] = stored[k]
  BY <1>2 DEF Merged
<1>5. /\ DOMAIN e = Common /\ e.kind = "answer" /\ e.on = r.on \cap {Mail} /\ e.met = r.met \cap {Mail}
  BY DEF Common
<1>6. crossed' = (crossed \ (r.on \cap {Usage})) \cup r.met
  BY <1>2 DEF Cross
<1> HIDE DEF e, r
<1>7. ASSUME NEW thing, thing \notin r.on
      PROVE  Unmoved({thing}, stored, stored', machine, machine')
  <2>1. Usage = thing => \A k \in UsageKeys : stored'[k] = stored[k]
    BY <1>1, <1>4, <1>7, TouchesWhat DEF UsageKeys, Keys
  <2>2. Age = thing => stored'["age"] = stored["age"]
    BY <1>1, <1>4, <1>7, TouchesWhat DEF Keys
  <2>3. Mail = thing => stored'["mail"] = stored["mail"]
    BY <1>1, <1>4, <1>7, TouchesWhat DEF Keys
  <2>4. ASSUME NEW p \in Postes, VerdictOf(p) = thing
        PROVE  "age" \notin DOMAIN r.patch
    BY <1>1, <1>7, <2>4, TouchesWhat
  <2>5. "age" \notin DOMAIN r.patch => stored'["age"] = stored["age"] /\ machine' = machine
    BY <1>2, <1>4 DEF Recomputed, Keys, r
  <2> QED
    BY <2>1, <2>2, <2>3, <2>4, <2>5 DEF Unmoved
<1>8. Meets'
  <2> SUFFICES ASSUME NEW x \in Slots, NEW y \in Slots, x # y
               PROVE  request'[x].on \cap request'[y].on \subseteq request'[x].met
    BY DEF Meets
  <2>1. request[x].on \cap request[y].on \subseteq request[x].met
    BY DEF IInv, Meets
  <2>2. CASE x = s
    BY <1>3, <1>5, <2>1, <2>2 DEF r
  <2>3. CASE y = s
    BY <1>3, <1>5, <2>1, <2>3 DEF r
  <2>4. CASE x # s /\ y # s
    BY <1>3, <2>1, <2>4
  <2> QED
    BY <2>2, <2>3, <2>4
<1>9. Requests'
  <2>1. ASSUME NEW x \in Slots \ {s}
        PROVE  Fits(request'[x], now') /\ Fresh(request'[x], stored', machine')
    <3>1. Shape /\ Meets /\ Requests /\ request'[x] = request[x] /\ x \in Slots \ {s}
      BY <1>3, <2>1 DEF IInv
    <3>2. now' \in Nat /\ now <= now'
      BY <1>2 DEF Shape
    <3>3. \A thing : thing \notin request[s].on =>
             Unmoved({thing}, stored, stored', machine, machine')
      BY <1>7 DEF r
    <3> QED
      BY <3>1, <3>2, <3>3, OthersFresh
  <2>2. Fits(e, now') /\ Fresh(e, stored', machine')
    BY <1>5 DEF Fits, Fresh
  <2> QED
    BY <1>3, <2>1, <2>2 DEF Requests
<1>10. ThresholdsHold'
  <2> SUFFICES ASSUME Usage \notin crossed'
               PROVE  /\ Policy(stored', "low") < Policy(stored', "high")
                      /\ Policy(stored', "high") <= DayHours * Policy(stored', "window")
    BY DEF ThresholdsHold, Policy
  <2>1. CASE Usage \in r.on
    BY <1>1, <1>2, <1>6, <2>1 DEF Fresh, HoldTogether
  <2>2. CASE Usage \notin r.on
    <3>1. Usage \notin crossed /\ \A k \in UsageKeys : stored'[k] = stored[k]
      BY <1>6, <1>7, <2>2 DEF Unmoved
    <3> QED
      BY <3>1 DEF IInv, ThresholdsHold, Policy, UsageKeys
  <2> QED
    BY <2>1, <2>2
<1>11. MailOwed'
  <2> SUFFICES ASSUME Mail \notin crossed',
                      \A x \in Slots : request'[x].kind \in {"answer", "read"} =>
                         Mail \notin request'[x].on
               PROVE  remembered = stored'["mail"]
    BY <1>2 DEF MailOwed
  <2>1. Mail \notin r.on
    BY <1>3, <1>5
  <2>2. stored'["mail"] = stored["mail"]
    BY <1>7, <2>1 DEF Unmoved
  <2>3. Mail \notin crossed
    BY <1>6, Things
  <2>4. \A x \in Slots : request[x].kind \in {"answer", "read"} => Mail \notin request[x].on
    BY <1>3, <2>1 DEF r
  <2> QED
    BY <2>2, <2>3, <2>4 DEF IInv, MailOwed
<1>12. VerdictInForce'
  BY UpdateVerdicts DEF VerdictInForce, Policy
<1> QED
  BY <1>8, <1>9, <1>10, <1>11, <1>12 DEF Kept

LEMMA ResolvedStep ==
  ASSUME IInv, Shape', NEW s \in Slots, Resolved(s)
  PROVE  Kept'
<1> DEFINE r == request[s]
<1>1. /\ r.kind = "read" /\ r.on = {Mail} /\ Fresh(r, stored, machine)
  BY DEF IInv, Requests, Fits, Resolved, Is
<1>2. /\ remembered' = r.read /\ crossed' = (crossed \ {Mail}) \cup r.met
      /\ request' = [request EXCEPT ![s] = Idle]
      /\ UNCHANGED <<now, stored, machine>>
  BY DEF Resolved, Remember, Cross
<1>3. Meets' /\ Requests'
  <2>1. \A thing : Unmoved({thing}, stored, stored', machine, machine')
    BY <1>2 DEF Unmoved
  <2> QED
    BY <1>2, <2>1, Ended
<1>4. ThresholdsHold' /\ VerdictInForce'
  BY <1>2, Things DEF IInv, ThresholdsHold, VerdictInForce, Policy
<1>5. MailOwed'
  BY <1>1, <1>2 DEF MailOwed, Fresh
<1> QED
  BY <1>3, <1>4, <1>5 DEF Kept

LEMMA AbortStep ==
  ASSUME IInv, Shape', NEW s \in Slots, Abort(s)
  PROVE  Kept'
<1>1. /\ request' = [request EXCEPT ![s] = Idle]
      /\ crossed \subseteq crossed' /\ crossed' \subseteq crossed \cup {Mail}
      /\ (Is(s, "answer") \/ Is(s, "read")) /\ Mail \in request[s].on => Mail \in crossed'
      /\ UNCHANGED <<now, stored, machine, remembered>>
  BY DEF Abort
<1>2. Meets' /\ Requests'
  <2>1. \A thing : Unmoved({thing}, stored, stored', machine, machine')
    BY <1>1 DEF Unmoved
  <2> QED
    BY <1>1, <2>1, Ended
<1>3. ThresholdsHold' /\ VerdictInForce'
  BY <1>1 DEF IInv, ThresholdsHold, VerdictInForce, Policy
<1>4. MailOwed'
  <2>1. \A x \in Slots \ {s} : request'[x] = request[x]
    BY <1>1 DEF IInv, Shape
  <2> QED
    BY <1>1, <2>1 DEF IInv, MailOwed, Is
<1> QED
  BY <1>2, <1>3, <1>4 DEF Kept

LEMMA LifespanStep ==
  ASSUME IInv, Shape', Lifespan
  PROVE  Kept'
<1>1. /\ request' = [s \in Slots |-> Idle] /\ UNCHANGED <<now, stored, machine>>
      /\ crossed \ {Mail} \subseteq crossed'
      /\ Mail \in crossed' \/ remembered' = stored["mail"]
  BY DEF Lifespan
<1>2. Meets'
  BY <1>1 DEF Meets, Idle
<1>3. Requests'
  BY <1>1, IdleOK DEF Requests, Shape
<1>4. ThresholdsHold' /\ VerdictInForce' /\ MailOwed'
  BY <1>1, Things DEF IInv, ThresholdsHold, VerdictInForce, MailOwed, Policy
<1> QED
  BY <1>2, <1>3, <1>4 DEF Kept

LEMMA TickStep ==
  ASSUME IInv, Tick
  PROVE  Kept'
<1>1. UNCHANGED <<stored, machine, remembered, request, crossed>> /\ now' = now + 1 /\ now \in Nat
  BY DEF Tick, IInv, Shape
<1>2. ASSUME NEW s \in Slots PROVE Fits(request[s], now + 1)
  <2>1. Later(request[s], request[s]) /\ Fits(request[s], now)
    BY DEF Later, IInv, Requests
  <2> QED
    BY <1>1, <2>1, LaterFits
<1>3. Requests'
  BY <1>1, <1>2 DEF IInv, Requests
<1>4. Meets' /\ ThresholdsHold' /\ VerdictInForce' /\ MailOwed'
  BY <1>1 DEF IInv, Meets, ThresholdsHold, VerdictInForce, MailOwed, Policy
<1> QED
  BY <1>3, <1>4 DEF Kept

LEMMA StandStep ==
  ASSUME IInv, UNCHANGED <<now, stored, machine, remembered, request, crossed>>
  PROVE  Kept'
BY DEF IInv, Kept, Meets, Requests, ThresholdsHold, VerdictInForce, MailOwed, Policy

-----------------------------------------------------------------------------
LEMMA InitInv == Init => IInv
<1> SUFFICES ASSUME Init PROVE IInv
  OBVIOUS
<1>1. Shape
  <2> DEFINE first(r) == [exists |-> TRUE, last |-> 0, report |-> r, ok |-> Verdict(r, Env.age)]
  <2>1. machine \in [Postes -> {first(r) : r \in Reports}]
    BY DEF Init
  <2>2. \A r \in Reports : first(r) \in Machine
    BY Verdicts DEF Machine
  <2> HIDE DEF first
  <2>3. machine \in [Postes -> Machine]
    BY <2>1, <2>2
  <2> QED
    BY <2>3 DEF Init, Shape
<1>2. ASSUME NEW p \in Postes
      PROVE  /\ machine[p].exists /\ machine[p].last = 0
             /\ machine[p].ok = Verdict(machine[p].report, Env.age)
  BY DEF Init
<1>3. TypeOK
  <2>1. Unused \in [Hours -> 0 .. HourParts] /\ 0 \in 0 .. MaxTime /\ 0 \in 0 .. MaxLoad
    BY SettingsAssumption DEF Unused
  <2> QED
    BY <1>2, <2>1 DEF Init, TypeOK, Values
<1>4. Meets
  BY DEF Init, Meets, Idle
<1>5. Requests
  BY IdleOK DEF Init, Requests
<1>6. ThresholdsHold
  BY SettingsAssumption DEF Init, ThresholdsHold, Policy, Keys
<1>7. MailOwed
  BY DEF Init, MailOwed, Keys
<1>8. VerdictInForce
  BY <1>2 DEF Init, VerdictInForce, Policy, Keys
<1> QED
  BY <1>1, <1>3, <1>4, <1>5, <1>6, <1>7, <1>8 DEF IInv

LEMMA NextInv == IInv /\ [Next]_vars => IInv'
<1> SUFFICES ASSUME IInv, [Next]_vars PROVE IInv'
  OBVIOUS
<1>1. TypeOK' /\ Shape'
  BY TypeStep DEF IInv
<1>2. Kept'
  <2>1. ASSUME NEW s \in Slots, NEW tried \in Values("mail"), SendTestEmail(s, tried)
        PROVE  Kept'
    BY <2>1, ReadingStep DEF SendTestEmail
  <2>2. ASSUME NEW s \in Slots, LoadStored(s)
        PROVE  Kept'
    BY <2>2, ReadingStep DEF LoadStored
  <2>3. ASSUME PurgeUsage
        PROVE  Kept'
    BY <2>3, StandStep DEF PurgeUsage
  <2>4. ASSUME UNCHANGED vars
        PROVE  Kept'
    BY <2>4, StandStep DEF vars
  <2> QED
    BY <1>1, <2>1, <2>2, <2>3, <2>4, HeartbeatStep, MergeStep, UpdateStep, BeatStep, MergeCommitStep,
       UpdateCommitStep, ResolvedStep, AbortStep, LifespanStep, TickStep DEF Next
<1> QED
  BY <1>1, <1>2 DEF IInv, Kept

\* Patches one by one, overlapping heartbeats, merges, restarts and failures keep what is
\* stored in its type, the thresholds of usage ordered and within the window
\* (settings_routes.py:367), and the mail settings queue_email judges on those in force once
\* they are resolved (email_policy.py:19), unless two requests met on them.
THEOREM SettingsSafe == Spec => []SettingsHold
<1>1. IInv => SettingsHold
  BY DEF IInv, SettingsHold, MailOwed, MailCurrent
<1> QED
  BY <1>1, InitInv, NextInv, PTL DEF Spec

\* The verdict stored on each poste is the one of the threshold in force, whichever rows the
\* recomputation read (machine/crud.py:93) and whatever heartbeats committed since, unless a
\* request met another on it.
THEOREM VerdictsSafe == Spec => []VerdictInForce
<1>1. IInv => VerdictInForce
  BY DEF IInv
<1> QED
  BY <1>1, InitInv, NextInv, PTL DEF Spec

-----------------------------------------------------------------------------
(* The hours a poste was on.  Each is the number of its moments in the     *)
(* history, as long as what a heartbeat adds is new to it.                 *)

InHour(T, h) == {t \in T : t \div HourParts = h}

LEMMA HourOf ==
  ASSUME NEW h \in Nat
  PROVE  /\ HourParts \in Nat \ {0} /\ h * HourParts \in Nat
         /\ (h + 1) * HourParts = h * HourParts + HourParts
         /\ \A t \in Nat :
              t \div HourParts = h <=> h * HourParts <= t /\ t < h * HourParts + HourParts
<1>1. HourParts \in Nat \ {0}
  BY SettingsAssumption
<1>2. h * HourParts \in Nat /\ (h + 1) * HourParts = h * HourParts + HourParts
  BY <1>1
<1>3. ASSUME NEW t \in Nat
      PROVE  t \div HourParts = h <=> h * HourParts <= t /\ t < h * HourParts + HourParts
  BY <1>1
<1> QED  BY <1>1, <1>2, <1>3

LEMMA HoursNat == Hours \subseteq Nat
BY SettingsAssumption DEF Hours

\* No hour has more moments than its parts.
LEMMA HourBounded ==
  ASSUME NEW T \in SUBSET Nat, NEW h \in Nat
  PROVE  /\ IsFiniteSet(InHour(T, h)) /\ Cardinality(InHour(T, h)) \in Nat
         /\ Cardinality(InHour(T, h)) <= HourParts
<1> DEFINE first == h * HourParts
           hour  == first .. first + HourParts - 1
<1>1. first \in Nat /\ HourParts \in Nat \ {0}
  BY HourOf
<1>2. InHour(T, h) \subseteq hour
  <2> SUFFICES ASSUME NEW t \in InHour(T, h) PROVE t \in hour
    OBVIOUS
  <2>1. t \in Nat /\ t \div HourParts = h
    BY DEF InHour
  <2>2. first <= t /\ t < first + HourParts
    BY <2>1, HourOf
  <2> HIDE DEF first
  <2> QED  BY <1>1, <2>1, <2>2
<1> HIDE DEF first
<1>3. IsFiniteSet(hour) /\ Cardinality(hour) = HourParts
  <2>1. first \in Int /\ first + HourParts - 1 \in Int
    BY <1>1
  <2>2. /\ IsFiniteSet(hour)
        /\ Cardinality(hour) = IF first > first + HourParts - 1 THEN 0
                              ELSE (first + HourParts - 1) - first + 1
    BY <2>1, FS_Interval
  <2> QED  BY <1>1, <2>2
<1> QED  BY <1>2, <1>3, FS_Subset, FS_CardinalityType

\* What is added to an hour is capped where the union of what was on is.
LEMMA HourAdds ==
  ASSUME NEW A \in SUBSET Nat, NEW B \in SUBSET Nat, A \cap B = {}, NEW h \in Nat
  PROVE  Lesser(HourParts, Cardinality(InHour(A, h)) + Cardinality(InHour(B, h)))
           = Cardinality(InHour(A \cup B, h))
<1>1. InHour(A \cup B, h) = InHour(A, h) \cup InHour(B, h) /\ InHour(A, h) \cap InHour(B, h) = {}
  BY DEF InHour
<1>2. /\ IsFiniteSet(InHour(A, h)) /\ Cardinality(InHour(A, h)) \in Nat
      /\ IsFiniteSet(InHour(B, h)) /\ Cardinality(InHour(B, h)) \in Nat
  BY HourBounded
<1>3. Cardinality(InHour(A \cup B, h)) <= HourParts /\ HourParts \in Nat
  BY HourBounded, HourOf
<1>4. Cardinality({}) = 0
  BY FS_EmptySet
<1>5. Cardinality(InHour(A \cup B, h)) = Cardinality(InHour(A, h)) + Cardinality(InHour(B, h))
  <2> DEFINE inA == InHour(A, h)
             inB == InHour(B, h)
  <2>1. /\ IsFiniteSet(inA) /\ IsFiniteSet(inB) /\ inA \cap inB = {}
        /\ Cardinality(inA) \in Nat /\ Cardinality(inB) \in Nat
    BY <1>1, <1>2
  <2> HIDE DEF inA, inB
  <2>2. Cardinality(inA \cup inB) = Cardinality(inA) + Cardinality(inB) - Cardinality(inA \cap inB)
    BY <2>1, FS_Union
  <2>3. Cardinality(inA \cap inB) = 0
    BY <1>4, <2>1
  <2>4. Cardinality(inA \cup inB) = Cardinality(inA) + Cardinality(inB)
    BY <2>1, <2>2, <2>3
  <2> QED  BY <1>1, <2>4 DEF inA, inB
<1> QED  BY <1>2, <1>3, <1>5 DEF Lesser

\* A gap credits each hour with its moments in it.
Gap(from, to) == IF to - from < Offline THEN from .. to - 1 ELSE {}

LEMMA GapCredits ==
  ASSUME NEW from \in Nat, NEW to \in Nat, from <= to, NEW h \in Hours
  PROVE  CreditForGap(from, to)[h] = Cardinality(InHour(Gap(from, to), h))
<1> DEFINE first == h * HourParts
           low   == Greater(from, first)
           high  == Lesser(to, first + HourParts)
<1>1. h \in Nat
  BY HoursNat
<1>2. first \in Nat /\ HourParts \in Nat \ {0} /\ (h + 1) * HourParts = first + HourParts
  BY <1>1, HourOf
<1>3. \A t \in Nat : t \div HourParts = h <=> first <= t /\ t < first + HourParts
  BY <1>1, HourOf
<1>4. CreditForGap(from, to)[h] =
        IF to > from /\ to - from < Offline THEN Greater(0, high - low) ELSE 0
  BY <1>2 DEF CreditForGap
<1> HIDE DEF first
<1>5. Offline \in Nat /\ low \in Nat /\ high \in Nat
  BY <1>2, SettingsAssumption DEF Greater, Lesser
<1>6. CASE to > from /\ to - from < Offline
  <2>1. InHour(Gap(from, to), h) = low .. high - 1
    BY <1>2, <1>3, <1>6 DEF InHour, Gap, Greater, Lesser
  <2> HIDE DEF low, high
  <2>2. Cardinality(low .. high - 1) = IF low > high - 1 THEN 0 ELSE high - 1 - low + 1
    BY <1>5, FS_Interval
  <2> QED  BY <1>4, <1>5, <1>6, <2>1, <2>2 DEF Greater
<1>7. CASE ~(to > from /\ to - from < Offline)
  <2>1. InHour(Gap(from, to), h) = {}
    BY <1>7 DEF InHour, Gap
  <2> QED  BY <1>4, <1>7, <2>1, FS_EmptySet
<1> QED  BY <1>6, <1>7

Stands(p, postes, next) ==
  next[p].exists => postes[p].exists /\ next[p].last = postes[p].last

\* What a heartbeat and a merge read of the last heartbeats, and met nobody on, is still so.
HoursFresh(r, postes) ==
  /\ r.kind = "beat" =>
       /\ r.was.last <= r.at
       /\ HoursOf(r.poste) \notin r.met /\ postes[r.poste].exists =>
            r.was.last = postes[r.poste].last
  /\ r.kind = "merge" => \A p \in {r.target, r.dup} :
       HoursOf(p) \notin r.met /\ postes[p].exists => r.last[p] = postes[p].last

\* What is counted was before the last heartbeat, so that the next gap is new.
SpanInv ==
  /\ DOMAIN span = Postes
  /\ \A p \in Postes : /\ span[p] \in SUBSET Nat
                       /\ HoursOf(p) \notin crossed => \A t \in span[p] : t < machine[p].last

HoursInv == (\A s \in Slots : HoursFresh(request[s], machine)) /\ SpanInv /\ HoursCounted

LEMMA LaterHours ==
  ASSUME NEW r, NEW e, NEW t, Fits(r, t), Later(r, e), NEW postes, NEW next,
         HoursFresh(r, postes),
         \A p \in Postes : HoursOf(p) \in e.on \ e.met => Stands(p, postes, next)
  PROVE  HoursFresh(e, next)
<1>1. e.kind = r.kind /\ e.on = r.on /\ r.met \subseteq e.met
  BY DEF Fits, Later, Common
<1>2. ASSUME r.kind = "beat"
      PROVE  /\ e.was.last <= e.at
             /\ HoursOf(e.poste) \notin e.met /\ next[e.poste].exists =>
                  e.was.last = next[e.poste].last
  <2>1. /\ e.was = r.was /\ e.at = r.at /\ e.poste = r.poste
        /\ r.poste \in Postes /\ HoursOf(r.poste) \in e.on
    BY <1>1, <1>2 DEF Fits, Later
  <2> QED  BY <1>1, <1>2, <2>1 DEF HoursFresh, Stands
<1>3. ASSUME r.kind = "merge", NEW p \in {e.target, e.dup}, HoursOf(p) \notin e.met, next[p].exists
      PROVE  e.last[p] = next[p].last
  <2>1. /\ e.target = r.target /\ e.dup = r.dup /\ e.last = r.last
        /\ p \in Postes /\ HoursOf(p) \in e.on
    BY <1>1, <1>3 DEF Fits, Later
  <2> QED  BY <1>1, <1>3, <2>1 DEF HoursFresh, Stands
<1> QED  BY <1>1, <1>2, <1>3 DEF HoursFresh

\* A step that moves neither hours nor last heartbeats, and forgets no overlap on them.
LEMMA HoursStand ==
  ASSUME IInv, HoursInv, UNCHANGED <<uptime, span>>,
         \A p \in Postes : /\ machine'[p].exists = machine[p].exists
                           /\ machine'[p].last = machine[p].last
                           /\ HoursOf(p) \in crossed => HoursOf(p) \in crossed',
         \A x \in Slots : \/ Later(request[x], request'[x])
                          \/ HoursFresh(request'[x], machine')
  PROVE  HoursInv'
<1>1. ASSUME NEW x \in Slots, Later(request[x], request'[x])
      PROVE  HoursFresh(request'[x], machine')
  <2>1. Fits(request[x], now) /\ HoursFresh(request[x], machine)
    BY DEF IInv, Requests, HoursInv
  <2>2. \A p \in Postes : Stands(p, machine, machine')
    BY DEF Stands
  <2> QED  BY <1>1, <2>1, <2>2, LaterHours
<1>2. SpanInv' /\ HoursCounted'
  BY DEF HoursInv, SpanInv, HoursCounted
<1> QED  BY <1>1, <1>2 DEF HoursInv

LEMMA BegunHours ==
  ASSUME IInv, HoursInv, NEW s \in Slots, NEW class, NEW r, Begin(s, class, r),
         Common \subseteq DOMAIN r, HoursFresh([r EXCEPT !.met = r.on \cap OthersOn(s)], machine)
  PROVE  HoursInv'
<1> DEFINE e == [r EXCEPT !.met = r.on \cap OthersOn(s)]
<1>1. e.on = r.on /\ e.met = r.on \cap OthersOn(s) /\ HoursFresh(e, machine)
  BY DEF Common
<1>2. request' = [x \in Slots |-> IF x = s THEN e
                       ELSE [request[x] EXCEPT !.met = @ \cup (request[x].on \cap e.on)]]
  BY <1>1 DEF Begin
<1> HIDE DEF e
<1>3. request'[s] = e /\ \A x \in Slots \ {s} : Later(request[x], request'[x])
  BY <1>1, <1>2, Opened DEF IInv
<1>4. UNCHANGED <<machine, uptime, span, crossed>>
  BY DEF Begin
<1> QED  BY <1>1, <1>3, <1>4, HoursStand

LEMMA HeartbeatHours ==
  ASSUME IInv, HoursInv, NEW s \in Slots, NEW p \in Postes, NEW report \in Reports \cup {None},
         Heartbeat(s, p, report)
  PROVE  HoursInv'
<1> DEFINE r == [kind |-> "beat", on |-> {VerdictOf(p), HoursOf(p)}, met |-> {},
                 poste |-> p, report |-> report, maxAge |-> Policy(stored, "age"),
                 was |-> machine[p], at |-> now]
           e == [r EXCEPT !.met = r.on \cap OthersOn(s)]
<1>1. Begin(s, "beat", r) /\ Common \subseteq DOMAIN r
  BY DEF Heartbeat, Common
<1>2. e.kind = "beat" /\ e.poste = p /\ e.was = machine[p] /\ e.at = now
  OBVIOUS
<1>3. machine[p].last <= now
  BY DEF IInv, TypeOK
<1> HIDE DEF e
<1>4. HoursFresh(e, machine)
  BY <1>2, <1>3 DEF HoursFresh
<1> QED  BY <1>1, <1>4, BegunHours DEF e

LEMMA MergeHours ==
  ASSUME IInv, HoursInv, NEW s \in Slots, NEW target \in Postes, NEW dup \in Postes,
         MergeMachine(s, target, dup)
  PROVE  HoursInv'
<1> DEFINE r == [kind |-> "merge", on |-> {HoursOf(target), HoursOf(dup)}, met |-> {},
                 target |-> target, dup |-> dup, last |-> [p \in {target, dup} |-> machine[p].last]]
           e == [r EXCEPT !.met = r.on \cap OthersOn(s)]
<1>1. Begin(s, "merge", r) /\ Common \subseteq DOMAIN r
  BY DEF MergeMachine, Common
<1>2. /\ e.kind = "merge" /\ e.target = target /\ e.dup = dup
      /\ \A p \in {target, dup} : e.last[p] = machine[p].last
  OBVIOUS
<1> HIDE DEF e
<1>3. HoursFresh(e, machine)
  BY <1>2 DEF HoursFresh
<1> QED  BY <1>1, <1>3, BegunHours DEF e

LEMMA UpdateHours ==
  ASSUME IInv, HoursInv, NEW s \in Slots, NEW patch \in Patches, UpdateSettings(s, patch)
  PROVE  HoursInv'
<1> DEFINE r == [kind |-> "patch", on |-> Touches(patch), met |-> {}, patch |-> patch,
                 before |-> Policy(stored, "age"), had |-> machine]
           e == [r EXCEPT !.met = r.on \cap OthersOn(s)]
<1>1. Begin(s, "patch", r) /\ Common \subseteq DOMAIN r
  BY DEF UpdateSettings, Common
<1>2. e.kind = "patch"
  OBVIOUS
<1> HIDE DEF e
<1>3. HoursFresh(e, machine)
  BY <1>2 DEF HoursFresh
<1> QED  BY <1>1, <1>3, BegunHours DEF e

LEMMA ReadingHours ==
  ASSUME IInv, HoursInv, NEW s \in Slots, NEW tried, Reading(s, tried),
         UNCHANGED <<machine, uptime, span, crossed>>
  PROVE  HoursInv'
<1> DEFINE e == [kind |-> "read", on |-> {Mail}, met |-> {Mail} \cap OthersOn(s),
                 read |-> stored["mail"], tried |-> tried]
<1>1. e.on = {Mail} /\ e.met = {Mail} \cap OthersOn(s) /\ e.kind = "read"
  OBVIOUS
<1>2. request' = [x \in Slots |-> IF x = s THEN e
                       ELSE [request[x] EXCEPT !.met = @ \cup (request[x].on \cap e.on)]]
  BY DEF Reading
<1> HIDE DEF e
<1>3. request'[s] = e /\ \A x \in Slots \ {s} : Later(request[x], request'[x])
  BY <1>1, <1>2, Opened DEF IInv
<1>4. HoursFresh(e, machine')
  BY <1>1 DEF HoursFresh
<1> QED  BY <1>3, <1>4, HoursStand

\* A request that ends and moves no hours, or a restart that ends them all.
LEMMA EndedHours ==
  ASSUME IInv, HoursInv, UNCHANGED <<uptime, span>>,
         \A p \in Postes : /\ machine'[p].exists = machine[p].exists
                           /\ machine'[p].last = machine[p].last,
         \A thing \in crossed \ crossed' : thing \in {Usage, Mail},
         \A x \in Slots : request'[x] = request[x] \/ request'[x].kind \in {"idle", "answer"}
  PROVE  HoursInv'
<1>1. \A p \in Postes : HoursOf(p) \in crossed => HoursOf(p) \in crossed'
  BY Things
<1>2. ASSUME NEW x \in Slots
      PROVE  Later(request[x], request'[x]) \/ HoursFresh(request'[x], machine')
  BY DEF Later, HoursFresh
<1> QED  BY <1>1, <1>2, HoursStand

\* Another request, when one commits: what moved is what it was on, and they have met.
LEMMA OthersHours ==
  ASSUME IInv, HoursInv, NEW s \in Slots, NEW x \in Slots \ {s}, request'[x] = request[x],
         \A p \in Postes : HoursOf(p) \notin request[s].on => Stands(p, machine, machine')
  PROVE  HoursFresh(request'[x], machine')
<1>1. Fits(request[x], now) /\ HoursFresh(request[x], machine) /\ Later(request[x], request'[x])
  BY DEF IInv, Requests, HoursInv, Later
<1>2. \A p \in Postes : HoursOf(p) \in request'[x].on \ request'[x].met =>
        Stands(p, machine, machine')
  BY DEF IInv, Meets
<1> QED  BY <1>1, <1>2, LaterHours

LEMMA UpdateCommitHours ==
  ASSUME IInv, HoursInv, NEW s \in Slots, UpdateCommit(s)
  PROVE  HoursInv'
<1>1. \A p \in Postes : /\ machine'[p].exists = machine[p].exists
                        /\ machine'[p].last = machine[p].last
  <2>1. machine' = machine
          \/ \E seen, maxAge : machine' = RecomputeUpToDate(seen, maxAge)
    BY DEF UpdateCommit
  <2> QED  BY <2>1, RecomputeType DEF IInv
<1>2. UNCHANGED <<uptime, span>> /\ \A thing \in crossed \ crossed' : thing \in {Usage, Mail}
  BY DEF UpdateCommit, Cross
<1>3. \A x \in Slots : request'[x] = request[x] \/ request'[x].kind \in {"idle", "answer"}
  BY DEF UpdateCommit
<1> QED  BY <1>1, <1>2, <1>3, EndedHours

\* A commit of a heartbeat: the gap it adds begins at the last one, unless it met another.
LEMMA BeatCommitHours ==
  ASSUME IInv, HoursInv, NEW s \in Slots, HeartbeatCommit(s)
  PROVE  HoursInv'
<1> DEFINE r == request[s]
           p == r.poste
           from == r.was.last
<1>1. /\ p \in Postes /\ r.at \in Nat /\ r.on = {VerdictOf(p), HoursOf(p)}
      /\ from \in Nat /\ from <= r.at
      /\ HoursOf(p) \notin r.met => from = machine[p].last
      /\ r.kind = "beat"
  BY DEF IInv, Requests, Fits, HeartbeatCommit, Is, HoursInv, HoursFresh, Machine
<1>2. PICK seen \in r.at .. now :
        /\ BeatWritten(s, seen)
        /\ span' = [span EXCEPT ![p] = span[p] \cup Gap(from, seen)]
  BY DEF HeartbeatCommit, BeatWritten, Gap
<1>3. seen \in Nat /\ from <= seen /\ now \in Nat
  BY <1>1, <1>2 DEF IInv, Shape
<1>4. /\ machine'[p].exists = machine[p].exists /\ machine'[p].last = seen
      /\ \A q \in Postes \ {p} : machine'[q] = machine[q]
  <2>1. machine \in [Postes -> Machine] /\ DOMAIN machine[p] = {"exists", "last", "report", "ok"}
    BY <1>1, PosteType DEF IInv, Shape
  <2> QED  BY <1>1, <1>2, <2>1 DEF BeatWritten
<1>5. /\ uptime'[p] = UpsertAdding(uptime[p], CreditForGap(from, seen))
      /\ \A q \in Postes \ {p} : uptime'[q] = uptime[q]
  BY <1>1, <1>2 DEF BeatWritten, IInv, Shape
<1>6. /\ DOMAIN span' = Postes /\ span'[p] = span[p] \cup Gap(from, seen)
      /\ \A q \in Postes \ {p} : span'[q] = span[q]
  BY <1>1, <1>2 DEF HoursInv, SpanInv
<1>7. \A q : HoursOf(q) \notin crossed' => HoursOf(q) \notin crossed \cup r.met
  BY Things DEF HeartbeatCommit, Cross
<1>8. request' = [request EXCEPT ![s] = Idle]
  BY DEF HeartbeatCommit
<1> HIDE DEF from
<1>9. Gap(from, seen) \in SUBSET Nat /\ \A t \in Gap(from, seen) : from <= t /\ t < seen
  BY <1>1, <1>3 DEF Gap
<1>10. HoursOf(p) \notin crossed' =>
         /\ HoursOf(p) \notin crossed /\ from = machine[p].last
         /\ \A t \in span[p] : t < from
  BY <1>1, <1>7 DEF HoursInv, SpanInv
<1>11. \A x \in Slots : HoursFresh(request'[x], machine')
  <2>1. request'[s] = Idle /\ \A x \in Slots \ {s} : request'[x] = request[x]
    BY <1>8 DEF IInv, Shape
  <2>2. HoursFresh(Idle, machine')
    BY DEF HoursFresh, Idle
  <2>3. \A q \in Postes : HoursOf(q) \notin request[s].on => Stands(q, machine, machine')
    BY <1>1, <1>4 DEF Stands
  <2> QED  BY <2>1, <2>2, <2>3, OthersHours
<1>12. SpanInv'
  <2> SUFFICES ASSUME NEW q \in Postes
               PROVE  /\ span'[q] \in SUBSET Nat
                      /\ HoursOf(q) \notin crossed' => \A t \in span'[q] : t < machine'[q].last
    BY <1>6 DEF SpanInv
  <2>1. span[q] \in SUBSET Nat
    BY DEF HoursInv, SpanInv
  <2>2. CASE q = p
    <3>1. span'[q] \in SUBSET Nat
      BY <1>6, <1>9, <2>1, <2>2
    <3>2. ASSUME HoursOf(q) \notin crossed', NEW t \in span'[q]
          PROVE  t < machine'[q].last
      <4>1. t \in Nat /\ machine'[q].last = seen
        BY <1>4, <2>2, <3>1
      <4>2. t < from \/ t < seen
        BY <1>6, <1>9, <1>10, <2>2, <3>2
      <4> QED  BY <1>1, <1>3, <4>1, <4>2
    <3> QED  BY <3>1, <3>2
  <2>3. CASE q # p
    BY <1>4, <1>6, <1>7, <2>1, <2>3 DEF HoursInv, SpanInv
  <2> QED  BY <2>2, <2>3
<1>13. HoursCounted'
  <2> SUFFICES ASSUME NEW q \in Postes, NEW h \in Hours, HoursOf(q) \notin crossed'
               PROVE  uptime'[q][h] = Cardinality(InHour(span'[q], h))
    BY DEF HoursCounted, InHour
  <2>1. uptime[q][h] = Cardinality(InHour(span[q], h)) /\ span[q] \in SUBSET Nat
    BY <1>7 DEF HoursInv, HoursCounted, SpanInv, InHour
  <2>2. CASE q = p
    <3>1. span[p] \cap Gap(from, seen) = {}
      <4> SUFFICES ASSUME NEW t \in span[p], t \in Gap(from, seen) PROVE FALSE
        OBVIOUS
      <4>1. t \in Nat /\ t < from /\ from <= t
        BY <1>9, <1>10, <2>2
      <4> QED  BY <1>1, <4>1
    <3>2. uptime'[p][h] = Lesser(HourParts, uptime[p][h] + CreditForGap(from, seen)[h])
      BY <1>5 DEF UpsertAdding
    <3>3. CreditForGap(from, seen)[h] = Cardinality(InHour(Gap(from, seen), h))
      BY <1>1, <1>3, GapCredits
    <3> QED  BY <1>6, <1>9, <2>1, <2>2, <3>1, <3>2, <3>3, HoursNat, HourAdds
  <2>3. CASE q # p
    BY <1>5, <1>6, <2>1, <2>3
  <2> QED  BY <2>2, <2>3
<1> QED  BY <1>11, <1>12, <1>13 DEF HoursInv

\* A merge: hours of the two that were not on at once are all counted.
LEMMA MergeCommitHours ==
  ASSUME IInv, HoursInv, NEW s \in Slots, MergeCommit(s)
  PROVE  HoursInv'
<1> DEFINE r == request[s]
           t == r.target
           d == r.dup
           last == IF r.last[d] > r.last[t] THEN r.last[d] ELSE machine[t].last
           alone == r.met = {} /\ span[t] \cap span[d] = {} /\ HoursOf(d) \notin crossed
<1>1. /\ t \in Postes /\ d \in Postes /\ t # d /\ r.kind = "merge"
      /\ r.on = {HoursOf(t), HoursOf(d)}
  BY DEF IInv, Requests, Fits, MergeCommit, Is
<1>2. /\ machine' = [machine EXCEPT ![t] = [machine[t] EXCEPT !.last = last], ![d] = Gone]
      /\ uptime' = [uptime EXCEPT ![t] = MoveTo(uptime[t], uptime[d]), ![d] = Unused]
      /\ span' = [span EXCEPT ![t] = span[t] \cup span[d], ![d] = {}]
      /\ crossed' = (IF alone THEN crossed ELSE crossed \cup {HoursOf(t)})
                      \ {HoursOf(d), VerdictOf(d)}
      /\ machine[t].exists /\ machine[d].exists
      /\ request' = [request EXCEPT ![s] = Idle]
  BY <1>1 DEF MergeCommit, IInv, Shape
<1>3. r.met = {} => r.last[t] = machine[t].last /\ r.last[d] = machine[d].last
  BY <1>1, <1>2 DEF HoursInv, HoursFresh
<1>4. /\ machine[t] \in Machine /\ machine[t].last \in Nat /\ machine[d].last \in Nat
      /\ r.met = {} => /\ last \in Nat /\ machine[t].last <= last /\ machine[d].last <= last
  BY <1>1, <1>3, PosteType DEF IInv, Machine
<1> HIDE DEF t, d, last
<1>5. /\ machine'[t].exists /\ machine'[t].last = last
      /\ ~machine'[d].exists
      /\ \A q \in Postes \ {t, d} : machine'[q] = machine[q]
  BY <1>1, <1>2, <1>4 DEF IInv, Shape, Machine, Gone
<1>6. /\ uptime'[t] = MoveTo(uptime[t], uptime[d]) /\ uptime'[d] = Unused
      /\ \A q \in Postes \ {t, d} : uptime'[q] = uptime[q]
  BY <1>1, <1>2 DEF IInv, Shape
<1>7. /\ DOMAIN span' = Postes /\ span'[t] = span[t] \cup span[d] /\ span'[d] = {}
      /\ \A q \in Postes \ {t, d} : span'[q] = span[q]
  BY <1>1, <1>2 DEF HoursInv, SpanInv
<1>8. /\ \A q \in Postes \ {d} : HoursOf(q) \notin crossed' => HoursOf(q) \notin crossed
      /\ HoursOf(t) \notin crossed' => alone
  <2>1. \A q \in Postes : HoursOf(q) = HoursOf(d) => q = d
    BY DEF HoursOf
  <2>2. \A q : HoursOf(q) # VerdictOf(d)
    BY Things
  <2> HIDE DEF alone
  <2> QED  BY <1>1, <1>2, <2>1, <2>2
<1>9. \A x \in Slots : HoursFresh(request'[x], machine')
  <2>1. request'[s] = Idle /\ \A x \in Slots \ {s} : request'[x] = request[x]
    BY <1>2 DEF IInv, Shape
  <2>2. HoursFresh(Idle, machine')
    BY DEF HoursFresh, Idle
  <2>3. \A q \in Postes : HoursOf(q) \notin request[s].on => Stands(q, machine, machine')
    BY <1>1, <1>5 DEF Stands
  <2> QED  BY <2>1, <2>2, <2>3, OthersHours
<1>10. span[t] \in SUBSET Nat /\ span[d] \in SUBSET Nat
  BY <1>1 DEF HoursInv, SpanInv
<1>11. SpanInv'
  <2> SUFFICES ASSUME NEW q \in Postes
               PROVE  /\ span'[q] \in SUBSET Nat
                      /\ HoursOf(q) \notin crossed' => \A n \in span'[q] : n < machine'[q].last
    BY <1>7 DEF SpanInv
  <2>1. CASE q = t
    <3>1. span'[q] \in SUBSET Nat
      BY <1>7, <1>10, <2>1
    <3>2. ASSUME HoursOf(q) \notin crossed', NEW n \in span'[q]
          PROVE  n < machine'[q].last
      <4>1. HoursOf(t) \notin crossed /\ HoursOf(d) \notin crossed /\ r.met = {}
        BY <1>1, <1>8, <2>1, <3>2
      <4>2. n \in Nat /\ (n < machine[t].last \/ n < machine[d].last)
        BY <1>1, <1>7, <2>1, <3>1, <3>2, <4>1 DEF HoursInv, SpanInv
      <4> QED  BY <1>4, <1>5, <2>1, <4>1, <4>2
    <3> QED  BY <3>1, <3>2
  <2>2. CASE q = d
    BY <1>7, <2>2
  <2>3. CASE q # t /\ q # d
    BY <1>5, <1>7, <1>8, <2>3 DEF HoursInv, SpanInv
  <2> QED  BY <2>1, <2>2, <2>3
<1>12. HoursCounted'
  <2> SUFFICES ASSUME NEW q \in Postes, NEW h \in Hours, HoursOf(q) \notin crossed'
               PROVE  uptime'[q][h] = Cardinality(InHour(span'[q], h))
    BY DEF HoursCounted, InHour
  <2>1. CASE q = t
    <3>1. /\ uptime[t][h] = Cardinality(InHour(span[t], h))
          /\ uptime[d][h] = Cardinality(InHour(span[d], h))
          /\ span[t] \cap span[d] = {}
      BY <1>1, <1>8, <2>1 DEF HoursInv, HoursCounted, InHour
    <3>2. uptime'[t][h] = Lesser(HourParts, uptime[t][h] + uptime[d][h])
      BY <1>6 DEF MoveTo, UpsertAdding
    <3> QED  BY <1>7, <1>10, <2>1, <3>1, <3>2, HoursNat, HourAdds
  <2>2. CASE q = d
    <3>1. InHour(span'[d], h) = {}
      BY <1>7 DEF InHour
    <3> QED  BY <1>6, <2>2, <3>1, FS_EmptySet DEF Unused
  <2>3. CASE q # t /\ q # d
    BY <1>6, <1>7, <1>8, <2>3 DEF HoursInv, HoursCounted, InHour
  <2> QED  BY <2>1, <2>2, <2>3
<1> QED  BY <1>9, <1>11, <1>12 DEF HoursInv

\* The purge drops an hour and its moments together.
LEMMA PurgeHours ==
  ASSUME IInv, HoursInv, PurgeUsage
  PROVE  HoursInv'
<1> DEFINE cutoff == now - Retention * HourParts
<1>1. /\ uptime' = [p \in Postes |-> [h \in Hours |->
              IF h * HourParts < cutoff THEN 0 ELSE uptime[p][h]]]
      /\ span' = [p \in Postes |-> {n \in span[p] : HourParts * (n \div HourParts) >= cutoff}]
      /\ UNCHANGED <<machine, request, crossed>>
  BY DEF PurgeUsage
<1>2. cutoff \in Int
  BY SettingsAssumption DEF IInv, Shape
<1> HIDE DEF cutoff
<1>3. SpanInv' /\ \A x \in Slots : HoursFresh(request'[x], machine')
  BY <1>1 DEF HoursInv, SpanInv
<1>4. HoursCounted'
  <2> SUFFICES ASSUME NEW q \in Postes, NEW h \in Hours, HoursOf(q) \notin crossed'
               PROVE  uptime'[q][h] = Cardinality(InHour(span'[q], h))
    BY DEF HoursCounted, InHour
  <2>1. uptime[q][h] = Cardinality(InHour(span[q], h))
    BY <1>1 DEF HoursInv, HoursCounted, InHour
  <2>2. HourParts * h = h * HourParts /\ h * HourParts \in Nat
    BY HoursNat, HourOf
  <2>3. InHour(span'[q], h) = IF h * HourParts < cutoff THEN {} ELSE InHour(span[q], h)
    <3>1. span'[q] = {n \in span[q] : HourParts * (n \div HourParts) >= cutoff}
      BY <1>1
    <3>2. \A n : n \in InHour(span'[q], h) <=> n \in InHour(span[q], h) /\ h * HourParts >= cutoff
      BY <2>2, <3>1 DEF InHour
    <3>3. h * HourParts < cutoff <=> ~(h * HourParts >= cutoff)
      BY <1>2, <2>2
    <3> QED  BY <3>2, <3>3
  <2> QED  BY <1>1, <2>1, <2>3, FS_EmptySet
<1> QED  BY <1>3, <1>4 DEF HoursInv

LEMMA HoursInit == Init => HoursInv
<1> SUFFICES ASSUME Init PROVE HoursInv
  OBVIOUS
<1>1. \A s \in Slots : HoursFresh(request[s], machine)
  BY DEF Init, HoursFresh, Idle
<1>2. SpanInv
  BY DEF Init, SpanInv
<1>3. \A p \in Postes, h \in Hours : InHour(span[p], h) = {} /\ uptime[p][h] = 0
  BY DEF Init, InHour, Unused
<1>4. HoursCounted
  BY <1>3, FS_EmptySet DEF HoursCounted, InHour
<1> QED  BY <1>1, <1>2, <1>4 DEF HoursInv

LEMMA HoursStep == IInv /\ HoursInv /\ [Next]_vars => HoursInv'
<1> SUFFICES ASSUME IInv, HoursInv, [Next]_vars PROVE HoursInv'
  OBVIOUS
<1>1. ASSUME NEW s \in Slots, NEW tried \in Values("mail"), SendTestEmail(s, tried)
      PROVE  HoursInv'
  BY <1>1, ReadingHours DEF SendTestEmail
<1>2. ASSUME NEW s \in Slots, LoadStored(s)
      PROVE  HoursInv'
  BY <1>2, ReadingHours DEF LoadStored
<1>3. ASSUME NEW s \in Slots, Resolved(s) \/ Abort(s)
      PROVE  HoursInv'
  <2>1. /\ UNCHANGED <<machine, uptime, span>>
        /\ \A thing \in crossed \ crossed' : thing \in {Usage, Mail}
        /\ request' = [request EXCEPT ![s] = Idle]
    BY <1>3 DEF Resolved, Abort, Cross
  <2>2. \A x \in Slots : request'[x] = request[x] \/ request'[x].kind \in {"idle", "answer"}
    BY <2>1 DEF IInv, Shape, Idle
  <2> QED  BY <2>1, <2>2, EndedHours
<1>4. ASSUME Lifespan
      PROVE  HoursInv'
  <2>1. /\ UNCHANGED <<machine, uptime, span>>
        /\ \A thing \in crossed \ crossed' : thing \in {Usage, Mail}
        /\ \A x \in Slots : request'[x].kind = "idle"
    BY <1>4 DEF Lifespan, Idle
  <2> QED  BY <2>1, EndedHours
<1>5. ASSUME Tick \/ UNCHANGED vars
      PROVE  HoursInv'
  BY <1>5, EndedHours DEF Tick, vars
<1> QED
  BY <1>1, <1>2, <1>3, <1>4, <1>5, HeartbeatHours, MergeHours, UpdateHours, BeatCommitHours,
     MergeCommitHours, UpdateCommitHours, PurgeHours DEF Next

\* Each hour is credited with the time the poste was on in it, neither twice nor past a full
\* hour, whatever heartbeats split it (usage/accounting.py:41), through merges and purges,
\* unless two requests met on the hours of the poste.
THEOREM HoursSafe == Spec => []HoursCounted
<1>1. HoursInv => HoursCounted
  BY DEF HoursInv
<1> QED  BY <1>1, InitInv, NextInv, HoursInit, HoursStep, PTL DEF Spec
=============================================================================
