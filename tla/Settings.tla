------------------------------- MODULE Settings -------------------------------
(***************************************************************************)
(* The settings of the console over those of the environment, and what is  *)
(* kept from them: the stored verdict on each poste, the thresholds of the *)
(* usage statistics over the hourly counters, and the mail policy the API  *)
(* process remembers (settings_routes.py, features/setting,                *)
(* features/usage, machine/crud.py and the heartbeat).                     *)
(*                                                                         *)
(* A request reads, then writes: other requests, and heartbeats, commit in *)
(* between.  Time is counted in parts of an hour.                          *)
(***************************************************************************)
EXTENDS Integers, FiniteSets, SequencesExt

CONSTANTS
  None,
  Postes, Reports,    \* what a heartbeat says of the antivirus
  Windows, Thresholds, Ages, Mails,  \* values a patch may write
  Env,                \* the environment's value of each setting
  DayHours,           \* hours of a day
  HourParts, Offline, Retention,     \* in parts of an hour; Retention in hours
  Slots,              \* requests handled at once
  MaxTime, MaxLoad, Load             \* bounds

Keys == {"window", "low", "high", "age", "mail"}

ASSUME SettingsAssumption ==
  /\ DOMAIN Env = Keys /\ DayHours \in Nat \ {0}
  /\ Env.low < Env.high /\ Env.high <= DayHours * Env.window
  /\ {HourParts, Offline, Retention} \subseteq Nat \ {0}
  /\ Reports \subseteq [defender : BOOLEAN, age : Nat, third : BOOLEAN] /\ None \notin Reports
  /\ Load \in [{"patch", "beat", "merge", "mail", "purge", "restart"} -> Nat]
  /\ MaxLoad \in Nat /\ MaxTime \in Nat

VARIABLES
  now,
  stored,     \* app_settings
  machine,    \* the postes: their last heartbeat, what it said, the verdict
  uptime,     \* machine_uptime_hourly
  remembered, \* _last, the mail settings the API process read last
  request,    \* the requests being handled
  span,       \* history: of each poste, the time it was on, of what is kept
  crossed,    \* history: what overlapping requests left
  load

vars == <<now, stored, machine, uptime, remembered, request, span, crossed, load>>

Hours  == 0 .. MaxTime \div HourParts
Gone   == [exists |-> FALSE, last |-> 0, report |-> None, ok |-> FALSE]
Idle   == [kind |-> "idle", on |-> {}, met |-> {}]
Unused == [h \in Hours |-> 0]

Lesser(a, b)  == IF a < b THEN a ELSE b
Greater(a, b) == IF a > b THEN a ELSE b

\* The console's value where it wrote one, the environment's otherwise.
Policy(values, k) == IF values[k] = None THEN Env[k] ELSE values[k]

\* Defender and fresh signatures, or a third-party antivirus.
Verdict(report, maxAge) ==
  /\ report # None
  /\ (report.defender /\ report.age <= maxAge) \/ report.third

Init ==
  /\ now = 0
  /\ stored = [k \in Keys |-> None] /\ remembered = None
  /\ machine \in [Postes -> {[exists |-> TRUE, last |-> 0, report |-> r,
                              ok |-> Verdict(r, Env.age)] : r \in Reports}]
  /\ uptime = [p \in Postes |-> Unused]
  /\ request = [s \in Slots |-> Idle]
  /\ span = [p \in Postes |-> {}] /\ crossed = {} /\ load = 0

Spend(class) == load' = load + Load[class] /\ load' <= MaxLoad

\* What a request is about: others on it at once are met.
VerdictOf(p) == <<"verdict", p>>
HoursOf(p)   == <<"hours", p>>
Usage        == <<"usage">>
Mail         == <<"mail">>
Age          == <<"age">>

OthersOn(s) == UNION {request[x].on : x \in Slots \ {s}}

Begin(s, class, r) ==
  /\ request[s] = Idle /\ Spend(class)
  /\ request' = [x \in Slots |->
       IF x = s THEN [r EXCEPT !.met = r.on \cap OthersOn(s)]
       ELSE [request[x] EXCEPT !.met = @ \cup (request[x].on \cap r.on)]]
  /\ UNCHANGED <<now, stored, machine, uptime, remembered, span, crossed>>

Is(s, kind) == request[s].kind = kind

\* A request ends: what another met it on is crossed, what it set alone is not.
Cross(s, sets) == crossed' = (crossed \ sets) \cup request[s].met

-----------------------------------------------------------------------------
(* Heartbeats, and the hours a poste was on. *)

Heartbeat(s, p, report) ==
  /\ machine[p].exists
  /\ Begin(s, "beat", [kind |-> "beat", on |-> {VerdictOf(p), HoursOf(p)}, met |-> {},
                       poste |-> p, report |-> report, maxAge |-> Policy(stored, "age"), was |-> machine[p], at |-> now])

\* Faulty variant: the hour a gap starts in has it whole.
CreditWhole(from, to) ==
  [h \in Hours |-> IF to > from /\ to - from < Offline /\ from \div HourParts = h THEN to - from ELSE 0]

\* What a short gap between heartbeats credits to each hour.
CreditForGap(from, to) ==
  [h \in Hours |->
    IF to > from /\ to - from < Offline
    THEN Greater(0, Lesser(to, (h + 1) * HourParts) - Greater(from, h * HourParts))
    ELSE 0]

\* Added, capped at a full hour.
UpsertAdding(rows, credits) == [h \in Hours |-> Lesser(HourParts, rows[h] + credits[h])]

\* A report without an antivirus block leaves the verdict as it is.
HeartbeatCommit(s) ==
  /\ Is(s, "beat")
  /\ LET r == request[s]
         p == r.poste
         m == machine[p]
         verdict == IF r.report = None THEN r.was.ok ELSE Verdict(r.report, r.maxAge)
     IN  /\ m.exists
         /\ \E seen \in r.at .. now :
              /\ machine' = [machine EXCEPT ![p] = [m EXCEPT
                   !.last   = seen,
                   !.report = IF r.report = None THEN m.report ELSE r.report,
                   !.ok     = IF verdict = r.was.ok THEN m.ok ELSE verdict]]
              /\ uptime' = [uptime EXCEPT ![p] = UpsertAdding(@, CreditForGap(r.was.last, seen))]
              /\ span' = [span EXCEPT ![p] = @ \cup
                   (IF seen - r.was.last < Offline THEN r.was.last .. seen - 1 ELSE {})]
         /\ Cross(s, IF r.report = None THEN {} ELSE {VerdictOf(p)})
  /\ request' = [request EXCEPT ![s] = Idle]
  /\ UNCHANGED <<now, stored, remembered, load>>

MergeMachine(s, target, dup) ==
  /\ target # dup /\ machine[target].exists /\ machine[dup].exists
  /\ Begin(s, "merge", [kind |-> "merge", on |-> {HoursOf(target), HoursOf(dup)}, met |-> {},
                        target |-> target, dup |-> dup, last |-> [p \in {target, dup} |-> machine[p].last]])

\* The hours of the duplicate are added to those of the poste kept.
MoveTo(rows, from) == UpsertAdding(rows, from)

MergeCommit(s) ==
  /\ Is(s, "merge")
  /\ LET r == request[s]
         t == r.target
         d == r.dup
     IN  /\ machine[t].exists /\ machine[d].exists
         /\ machine' = [machine EXCEPT
              ![t].last = IF r.last[d] > r.last[t] THEN r.last[d] ELSE @, ![d] = Gone]
         /\ uptime' = [uptime EXCEPT ![t] = MoveTo(@, uptime[d]), ![d] = Unused]
         /\ span' = [span EXCEPT ![t] = @ \cup span[d], ![d] = {}]
         /\ crossed' = (IF r.met = {} /\ span[t] \cap span[d] = {} /\ HoursOf(d) \notin crossed
                        THEN crossed ELSE crossed \cup {HoursOf(t)}) \ {HoursOf(d), VerdictOf(d)}
  /\ request' = [request EXCEPT ![s] = Idle]
  /\ UNCHANGED <<now, stored, remembered, load>>

\* Hours past the retention are dropped.
PurgeUsage ==
  /\ Spend("purge")
  /\ LET cutoff == now - Retention * HourParts
     IN  /\ uptime' = [p \in Postes |-> [h \in Hours |->
              IF h * HourParts < cutoff THEN 0 ELSE uptime[p][h]]]
         /\ span' = [p \in Postes |-> {t \in span[p] : HourParts * (t \div HourParts) >= cutoff}]
  /\ UNCHANGED <<now, stored, machine, remembered, request, crossed>>

-----------------------------------------------------------------------------
(* What the console writes. *)

\* A patch: the keys it carries and their values, None to clear one.
Merged(values, patch) == [k \in Keys |-> IF k \in DOMAIN patch THEN patch[k] ELSE values[k]]

\* Faulty variant: the thresholds of the patch are compared with each other only.
HoldTogetherSent(values, patch) ==
  {"low", "high"} \subseteq DOMAIN patch =>
    LET new == Merged(values, patch) IN Policy(new, "low") < Policy(new, "high")

\* The usage settings as they will stand.
HoldTogether(values, patch) ==
  LET new == Merged(values, patch)
  IN  /\ Policy(new, "low") < Policy(new, "high")
      /\ Policy(new, "high") <= DayHours * Policy(new, "window")

UsageKeys == {"window", "low", "high"}

\* What a patch may move, and what it should be alone on.
Touches(patch) ==
  (IF DOMAIN patch \cap UsageKeys # {} THEN {Usage} ELSE {})
    \cup (IF "age" \in DOMAIN patch THEN {VerdictOf(p) : p \in Postes} \cup {Age} ELSE {})
    \cup (IF "mail" \in DOMAIN patch THEN {Mail} ELSE {})

UpdateSettings(s, patch) ==
  /\ DOMAIN patch \cap UsageKeys # {} => HoldTogether(stored, patch)
  /\ Begin(s, "patch", [kind |-> "patch", on |-> Touches(patch), met |-> {}, patch |-> patch,
                        before |-> Policy(stored, "age"), had |-> machine])

\* Faulty variant: the postes learn of a new threshold with their heartbeat.
RecomputeNone(seen, maxAge) == machine

\* The verdicts a new threshold moves, on the rows as they were read.
RecomputeUpToDate(seen, maxAge) ==
  [p \in Postes |->
    IF seen[p].exists /\ machine[p].exists /\ Verdict(seen[p].report, maxAge) # seen[p].ok
    THEN [machine[p] EXCEPT !.ok = Verdict(seen[p].report, maxAge)] ELSE machine[p]]

\* The rows are read by the recomputation at any time before the commit.  The
\* answer reads the settings again.
UpdateCommit(s) ==
  /\ Is(s, "patch")
  /\ LET r     == request[s]
         new   == Merged(stored, r.patch)
         after == Policy(new, "age")
     IN  /\ stored' = new
         /\ IF "age" \in DOMAIN r.patch /\ after # r.before
            THEN \E seen \in {r.had, machine} : machine' = RecomputeUpToDate(seen, after)
            ELSE UNCHANGED machine
         /\ Cross(s, r.on \cap {Usage})
         /\ request' = [x \in Slots |->
              IF x = s THEN [kind |-> "answer", on |-> r.on \cap {Mail}, met |-> r.met \cap {Mail}]
              ELSE request[x]]
  /\ UNCHANGED <<now, uptime, remembered, span, load>>

\* The settings are read, for the answer of a patch, a page, an alert.
Reading(s, tried) ==
  request' = [x \in Slots |->
    IF x = s THEN [kind |-> "read", on |-> {Mail}, met |-> {Mail} \cap OthersOn(s),
                   read |-> stored["mail"], tried |-> tried]
    ELSE [request[x] EXCEPT !.met = @ \cup (request[x].on \cap {Mail})]]

LoadStored(s) ==
  /\ Is(s, "answer") /\ Reading(s, stored["mail"])
  /\ UNCHANGED <<now, stored, machine, uptime, remembered, span, crossed, load>>

\* A policy resolved, or a test mail sent with values not saved.
SendTestEmail(s, tried) ==
  /\ request[s] = Idle /\ Spend("mail") /\ Reading(s, tried)
  /\ UNCHANGED <<now, stored, machine, uptime, remembered, span, crossed>>

Remember(r) == r.read

\* What was read is what queue_email reads from then on.
Resolved(s) ==
  /\ Is(s, "read")
  /\ remembered' = Remember(request[s])
  /\ Cross(s, {Mail})
  /\ request' = [request EXCEPT ![s] = Idle]
  /\ UNCHANGED <<now, stored, machine, uptime, span, load>>

Abort(s) ==
  /\ ~Is(s, "idle")
  /\ request' = [request EXCEPT ![s] = Idle]
  /\ crossed' = IF Is(s, "answer") \/ Is(s, "read") THEN crossed \cup (request[s].on \cap {Mail}) ELSE crossed
  /\ UNCHANGED <<now, stored, machine, uptime, remembered, span, load>>

\* The API restarts and reads the mail settings, unless the database is down.
Lifespan ==
  /\ Spend("restart")
  /\ \/ remembered' = stored["mail"] /\ crossed' = crossed \ {Mail}
     \/ remembered' = None /\ crossed' = crossed \cup {Mail}
  /\ request' = [s \in Slots |-> Idle]
  /\ UNCHANGED <<now, stored, machine, uptime, span>>

Tick ==
  /\ now < MaxTime /\ now' = now + 1
  /\ UNCHANGED <<stored, machine, uptime, remembered, request, span, crossed, load>>

Values(k) ==
  {None} \cup (CASE k = "window" -> Windows [] k \in {"low", "high"} -> Thresholds
                 [] k = "age" -> Ages [] k = "mail" -> Mails)

\* Patches of one key, and of the two thresholds together.
Patches ==
  (UNION {[{k} -> Values(k)] : k \in Keys}) \cup [{"low", "high"} -> Thresholds \cup {None}]

Next ==
  \/ \E s \in Slots :
       \/ \E p \in Postes, r \in Reports \cup {None} : Heartbeat(s, p, r)
       \/ \E target, dup \in Postes : MergeMachine(s, target, dup)
       \/ \E patch \in Patches : UpdateSettings(s, patch)
       \/ \E tried \in Values("mail") : SendTestEmail(s, tried)
       \/ HeartbeatCommit(s) \/ MergeCommit(s) \/ UpdateCommit(s)
       \/ LoadStored(s) \/ Resolved(s) \/ Abort(s)
  \/ PurgeUsage \/ Lifespan \/ Tick

Spec == Init /\ [][Next]_vars
-----------------------------------------------------------------------------
TypeOK ==
  /\ now \in 0 .. MaxTime /\ load \in 0 .. MaxLoad
  /\ \A k \in Keys : stored[k] \in Values(k)
  /\ \A p \in Postes : /\ uptime[p] \in [Hours -> 0 .. HourParts]
                       /\ machine[p].last <= now
                       /\ ~machine[p].exists => uptime[p] = Unused
  /\ remembered \in Values("mail")

(* The thresholds of usage hold together whatever is patched one by one or  *)
(* cleared, unless two patches overlap (settings_routes.py:367).           *)
ThresholdsHold ==
  Usage \notin crossed =>
    /\ Policy(stored, "low") < Policy(stored, "high")
    /\ Policy(stored, "high") <= DayHours * Policy(stored, "window")

(* queue_email, which cannot read the database, judges on the settings in  *)
(* force once they are resolved (email_policy.py:19).                      *)
MailCurrent ==
  (Mail \notin crossed /\ \A s \in Slots : Mail \notin request[s].on) =>
    remembered = stored["mail"]

(* Both, and the types.                                                    *)
SettingsHold == TypeOK /\ ThresholdsHold /\ MailCurrent

(* The stored verdict is the one of the threshold in force, on postes that *)
(* are off too (machine/crud.py:93), unless a heartbeat overlapped a change. *)
VerdictInForce ==
  Age \notin crossed =>
    \A p \in Postes : (machine[p].exists /\ VerdictOf(p) \notin crossed) =>
      machine[p].ok = Verdict(machine[p].report, Policy(stored, "age"))

(* Each hour is credited with the time the poste was on in it, through      *)
(* purges and merges, unless heartbeats of one poste overlapped            *)
(* (usage/accounting.py:41).                                               *)
HoursCounted ==
  \A p \in Postes, h \in Hours : HoursOf(p) \notin crossed =>
    uptime[p][h] = Cardinality({t \in span[p] : t \div HourParts = h})
=============================================================================
