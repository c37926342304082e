------------------------------ MODULE WorkerMail ------------------------------
(***************************************************************************)
(* The worker process and the mails: its tick and its jobs, whose hours    *)
(* the console may move while it runs, the digest and the reminders they   *)
(* queue, and the outbox they are sent from (backend/app/core/worker.py,   *)
(* features/notification, features/setting).                               *)
(*                                                                         *)
(* Time is counted in hours from a Monday at 0:00; days and weeks are      *)
(* shorter than ours in the instances TLC checks.  The worker ticks every  *)
(* thirty seconds, hence many times an hour: the clock waits for a tick.   *)
(***************************************************************************)
EXTENDS Integers, Sequences, FiniteSets

CONSTANTS
  HoursPerDay, DaysPerWeek,  \* the calendar
  Horizon,                   \* the last hour of a behaviour (bound)
  Hours, Weekdays,           \* what the console offers for the two settings
  EnvPolicy,                 \* the environment's schedule
  EnvMail,                   \* whether the environment configures a provider
  Housekeeping,              \* the hour of the purges
  Accounts, Cadence,         \* e-mail preference of each account
  Mails,                     \* rows the outbox may hold at once (bound)
  Batch, MaxAttempts, RetryBase, RetryMax, Retention,
  MaxRequests, MaxCrashes       \* bounds

ASSUME CalendarAssumption ==
  /\ HoursPerDay \in Nat \ {0}
  /\ DaysPerWeek \in Nat \ {0}
  /\ Horizon \in Nat
  /\ Hours \subseteq 0 .. HoursPerDay - 1
  /\ Weekdays \subseteq 0 .. DaysPerWeek - 1
  /\ Housekeeping \in 0 .. HoursPerDay - 1
  /\ EnvPolicy \in [hour : Hours, weekday : Weekdays]
  /\ EnvMail \in BOOLEAN

ASSUME OutboxAssumption ==
  /\ Cadence \in [Accounts -> {"daily", "events", "immediate", "none"}]
  /\ IsFiniteSet(Mails) /\ IsFiniteSet(Accounts)
  /\ Batch \in Nat \ {0}
  /\ MaxAttempts \in Nat \ {0}
  /\ RetryBase \in Nat /\ \A k \in 0 .. MaxAttempts - 1 : 2 ^ k \in Nat
  /\ RetryMax \in Nat
  /\ Retention \in Nat
  /\ MaxRequests \in Nat
  /\ MaxCrashes \in Nat

VARIABLES
  now,     \* the hour
  conf,    \* the settings as the database resolves them: schedule, provider
  worker,  \* the worker process and where its tick is
  jobs,    \* its mail jobs and its purge: next run, last run, parameters
  drain,   \* the outbox drain under way
  mails,   \* the rows of the outbox
  lost,    \* history: drains that ended without their commit
  requests \* of the console so far (bound)

mailVars == <<now, conf, worker, jobs, drain, mails, lost, requests>>

-----------------------------------------------------------------------------
(* The calendar and the schedules. *)

Day(t)     == t \div HoursPerDay
HourOf(t)  == t % HoursPerDay
Weekday(t) == Day(t) % DaysPerWeek
Week(t)    == Day(t) \div DaysPerWeek

Never == -1     \* a job that has not run in this process

MailJobs == {"digest", "reminders"}
Jobs     == MailJobs \cup {"purge"}

\* The order of build_jobs; the outbox is due on every tick.
JobOrder == [outbox |-> 1, digest |-> 2, reminders |-> 3, purge |-> 4]

DailyAt(hour, t) ==
  LET candidate == Day(t) * HoursPerDay + hour
  IN  IF candidate <= t THEN candidate + HoursPerDay ELSE candidate

WeeklyAt(weekday, hour, t) ==
  LET ahead     == (weekday - Weekday(t)) % DaysPerWeek
      candidate == (Day(t) + ahead) * HoursPerDay + hour
  IN  IF candidate <= t THEN candidate + DaysPerWeek * HoursPerDay ELSE candidate

Params(j, policy) ==
  CASE j = "digest"    -> [hour |-> policy.hour]
    [] j = "reminders" -> [hour |-> policy.hour, weekday |-> policy.weekday]
    [] j = "purge"     -> [hour |-> Housekeeping]

NextRun(j, params, t) ==
  IF j = "reminders" THEN WeeklyAt(params.weekday, params.hour, t)
                     ELSE DailyAt(params.hour, t)

Period(j, t) == IF j = "reminders" THEN Week(t) ELSE Day(t)

SamePeriod(j, s, t) == Period(j, s) = Period(j, t)

BuildJobs(t, policy) ==
  [j \in Jobs |-> [next   |-> NextRun(j, Params(j, policy), t),
                   last   |-> Never,
                   params |-> Params(j, policy),
                   aimed  |-> t]]

\* Faulty variant: the period already served is forgotten.
ReaimAgain(j, job, policy, t) ==
  LET params == Params(j, policy)
  IN  IF job.params = params THEN job
      ELSE [job EXCEPT !.next = NextRun(j, params, t), !.params = params, !.aimed = t]

\* A job whose settings moved is aimed again, past the period already served.
Reaim(j, job, policy, t) ==
  LET params == Params(j, policy)
      first  == NextRun(j, params, t)
      next   == IF job.last # Never /\ SamePeriod(j, job.last, first)
                THEN NextRun(j, params, first) ELSE first
  IN  IF job.params = params THEN job
      ELSE [job EXCEPT !.next = next, !.params = params, !.aimed = t]

ApplySchedule(policy, t) ==
  [j \in Jobs |-> IF j \in MailJobs THEN Reaim(j, jobs[j], policy, t) ELSE jobs[j]]

-----------------------------------------------------------------------------
(* The rows of the outbox. *)

NoMail == [status |-> "none", to |-> "nobody", created |-> 0, next |-> 0,
           attempts |-> 0, tries |-> 0, delivered |-> 0]

NewMail(to) ==
  [NoMail EXCEPT !.status = "pending", !.to = to, !.created = now, !.next = now]

Free == {m \in Mails : mails[m].status \in {"none", "purged"}}

\* One row per recipient, committed together.
Queued(recipients) ==
  LET slot == CHOOSE f \in [recipients -> Free] :
                \A a, b \in recipients : f[a] = f[b] => a = b
  IN  [m \in Mails |-> IF \E a \in recipients : slot[a] = m
                       THEN NewMail(CHOOSE a \in recipients : slot[a] = m)
                       ELSE mails[m]]

Smaller(a, b) == IF a < b THEN a ELSE b

RetryDelay(attempts) == Smaller(RetryBase * 2 ^ (attempts - 1), RetryMax)

\* Faulty variant: a mail that failed is not taken again.
DueOnce == {m \in Mails : mails[m].status = "pending" /\ mails[m].attempts = 0}

Due == {m \in Mails : mails[m].status = "pending" /\ mails[m].next <= now}

\* The oldest due rows, at most a batch of them.
Picks ==
  {b \in SUBSET Due : /\ Cardinality(b) = Smaller(Batch, Cardinality(Due))
                      /\ \A m \in b, n \in Due \ b : mails[m].created <= mails[n].created}

\* Faulty variant: the row is not marked sent.
AcceptedUnmarked(row) == [row EXCEPT !.next = now]

Accepted(row) == [row EXCEPT !.status = "sent"]

Failed(row) ==
  LET n == row.attempts + 1
  IN  IF n >= MaxAttempts
      THEN [row EXCEPT !.attempts = n, !.status = "abandoned"]
      ELSE [row EXCEPT !.attempts = n, !.next = now + RetryDelay(n)]

Purged ==
  [m \in Mails |->
    IF mails[m].status \in {"sent", "abandoned"} /\ mails[m].created + Retention < now
    THEN [mails[m] EXCEPT !.status = "purged"] ELSE mails[m]]

-----------------------------------------------------------------------------
(* Types and initial state: both processes have just started. *)

SchedulePolicy == [hour : Hours, weekday : Weekdays]
NoPolicy       == [hour |-> Never, weekday |-> Never]   \* unreadable
NoDrain        == [enabled |-> FALSE, left |-> {}, rows |-> [m \in {} |-> NoMail]]

MailInit ==
  /\ now = 0
  /\ conf = [schedule |-> EnvPolicy, mail |-> EnvMail]
  /\ worker = [pc |-> "run", life |-> 0, now |-> Never, policy |-> NoPolicy, todo |-> {}]
  /\ jobs = BuildJobs(0, EnvPolicy)
  /\ drain = NoDrain
  /\ mails = [m \in Mails |-> NoMail]
  /\ lost = 0
  /\ requests = 0

-----------------------------------------------------------------------------
(* The console: the settings, and the mails its requests queue. *)

\* update_settings, for the settings the worker reads.
UpdateSettings(hour, weekday, mail) ==
  /\ requests < MaxRequests
  /\ conf' = [schedule |-> [hour |-> hour, weekday |-> weekday], mail |-> mail]
  /\ conf' # conf
  /\ requests' = requests + 1
  /\ UNCHANGED <<now, worker, jobs, drain, mails, lost>>

\* A reset link, a check handed over, an alert: queued by a request, at any
\* time (module Settings has what the guard of queue_email goes by).
QueueEmail(a) ==
  /\ Free # {}
  /\ mails' = Queued({a})
  /\ requests < MaxRequests
  /\ requests' = requests + 1
  /\ UNCHANGED <<now, conf, worker, jobs, drain, lost>>

\* Only "no e-mail" silences what is addressed to the person.
WantsMail(a) == Cadence[a] # "none"

SendChecksAssigned(a) == WantsMail(a) /\ QueueEmail(a)

-----------------------------------------------------------------------------
(* The worker's tick. *)

\* Between two ticks the worker sleeps: nothing left to do.
Asleep == worker.pc = "run" /\ worker.todo = {}

\* load_schedule: what the console says now, or nothing if it cannot be read.
LoadSchedule(readable) ==
  /\ Asleep
  /\ worker' = [worker EXCEPT !.pc = "apply",
                              !.policy = IF readable THEN conf.schedule ELSE NoPolicy]
  /\ UNCHANGED <<now, conf, jobs, drain, mails, lost, requests>>

\* Faulty variant: strictly past its hour.
IsDueLate(job) == job.next < now

IsDue(job) == job.next <= now

\* Then, without a pause: apply_schedule, and the instant of this tick, by
\* which run_due_jobs takes the jobs one after the other.
TickRun ==
  /\ worker.pc = "apply"
  /\ jobs' = IF worker.policy = NoPolicy THEN jobs ELSE ApplySchedule(worker.policy, now)
  /\ worker' = [worker EXCEPT !.pc = "run", !.now = now, !.policy = NoPolicy,
                              !.todo = {"outbox"} \cup {j \in Jobs : IsDue(jobs'[j])}]
  /\ UNCHANGED <<now, conf, drain, mails, lost, requests>>

Running(j) == /\ worker.pc = "run" /\ j \in worker.todo
              /\ \A k \in worker.todo : JobOrder[j] <= JobOrder[k]

JobDone(j, pc) == worker' = [worker EXCEPT !.pc = pc, !.todo = @ \ {j}]

\* A job is given its next run before it runs, so one that fails moves on.
Reschedule(j) ==
  jobs' = [jobs EXCEPT ![j].next = NextRun(j, jobs[j].params, worker.now),
                       ![j].last = worker.now]

\* build_digest, of what one account's scope shows: something to act on, a
\* running state that is there most days.
Digests == [events : BOOLEAN, state : BOOLEAN]

HasEvents(digest) == digest.events

\* Every day for some; for others on a day that has something to act on.
Chosen(digest) ==
  {a \in Accounts : Cadence[a] = "daily" \/ (Cadence[a] = "events" /\ HasEvents(digest[a]))}

RunDigest(digest, fails) ==
  /\ Running("digest")
  /\ Reschedule("digest")
  /\ IF fails \/ ~ conf.mail
     THEN UNCHANGED mails
     ELSE /\ Cardinality(Chosen(digest)) <= Cardinality(Free)
          /\ mails' = Queued(Chosen(digest))
  /\ JobDone("digest", "run")
  /\ UNCHANGED <<now, conf, drain, lost, requests>>

\* personal_block: checks handed to the account, maintenances it owns and that
\* are due; the reminder is only for the latter.
Tasks == [checks : BOOLEAN, maintenances : BOOLEAN]

Reminded(tasks) == {a \in Accounts : WantsMail(a) /\ tasks[a].maintenances}

RunReminders(tasks, fails) ==
  /\ Running("reminders")
  /\ Reschedule("reminders")
  /\ IF fails \/ ~ conf.mail
     THEN UNCHANGED mails
     ELSE /\ Cardinality(Reminded(tasks)) <= Cardinality(Free)
          /\ mails' = Queued(Reminded(tasks))
  /\ JobDone("reminders", "run")
  /\ UNCHANGED <<now, conf, drain, lost, requests>>

RunPurge(fails) ==
  /\ Running("purge")
  /\ Reschedule("purge")
  /\ mails' = IF fails THEN mails ELSE Purged
  /\ JobDone("purge", "run")
  /\ UNCHANGED <<now, conf, drain, lost, requests>>

-----------------------------------------------------------------------------
(* The drain: a batch is read, tried row by row, committed at the end. *)

DrainPick ==
  /\ Running("outbox")
  /\ \E b \in Picks :
       IF b = {} THEN drain' = NoDrain /\ JobDone("outbox", "run")
       ELSE /\ drain' = [enabled |-> conf.mail, left |-> b, rows |-> [m \in b |-> mails[m]]]
            /\ JobDone("outbox", "drain")
  /\ UNCHANGED <<now, conf, jobs, mails, lost, requests>>

\* The provider takes the mail, or not: no provider, an error, a time-out.
DrainSend(m, ok) ==
  /\ worker.pc = "drain" /\ m \in drain.left
  /\ \A n \in drain.left : mails[m].created <= mails[n].created
  /\ ok => drain.enabled           \* send_email: no provider, no mail
  /\ drain' = [drain EXCEPT !.left = @ \ {m},
                            !.rows[m] = IF ok THEN Accepted(@) ELSE Failed(@)]
  /\ mails' = [mails EXCEPT ![m].tries = @ + 1,
                            ![m].delivered = IF ok THEN @ + 1 ELSE @]
  /\ UNCHANGED <<now, conf, worker, jobs, lost, requests>>

DrainCommit ==
  /\ worker.pc = "drain" /\ drain.left = {}
  /\ mails' = [m \in Mails |->
                IF m \in DOMAIN drain.rows
                THEN [drain.rows[m] EXCEPT !.tries = mails[m].tries,
                                           !.delivered = mails[m].delivered]
                ELSE mails[m]]
  /\ drain' = NoDrain
  /\ worker' = [worker EXCEPT !.pc = "run"]
  /\ UNCHANGED <<now, conf, jobs, lost, requests>>

\* The commit fails, or the database went away in the middle: the job failed.
DrainAbort ==
  /\ worker.pc = "drain"
  /\ lost < MaxCrashes
  /\ lost' = lost + 1
  /\ drain' = NoDrain
  /\ worker' = [worker EXCEPT !.pc = "run"]
  /\ UNCHANGED <<now, conf, jobs, mails, requests>>

-----------------------------------------------------------------------------
(* Crashes, restarts, and time. *)

Crash ==
  /\ worker.pc # "down"
  /\ lost < MaxCrashes
  /\ lost' = lost + 1
  /\ worker' = [worker EXCEPT !.pc = "down", !.policy = NoPolicy, !.todo = {}]
  /\ drain' = NoDrain
  /\ UNCHANGED <<now, conf, jobs, mails, requests>>

\* A new process: nothing is remembered of what the last one ran.
Start(readable) ==
  /\ worker.pc = "down"
  /\ jobs' = BuildJobs(now, IF readable THEN conf.schedule ELSE EnvPolicy)
  /\ worker' = [worker EXCEPT !.pc = "run", !.life = @ + 1, !.now = Never]
  /\ UNCHANGED <<now, conf, drain, mails, lost, requests>>

\* Within the hour a worker that is up begins a tick; a tick may outlast it.
Advance ==
  /\ now < Horizon
  /\ worker.pc = "down" \/ worker.now = now
  /\ now' = now + 1
  /\ UNCHANGED <<conf, worker, jobs, drain, mails, lost, requests>>

-----------------------------------------------------------------------------
Console ==
  \/ \E h \in Hours, w \in Weekdays, on \in BOOLEAN : UpdateSettings(h, w, on)
  \/ \E a \in Accounts : QueueEmail(a) \/ SendChecksAssigned(a)

Tick ==
  \/ \E readable \in BOOLEAN : LoadSchedule(readable)
  \/ TickRun
  \/ \E digest \in [Accounts -> Digests], fails \in BOOLEAN : RunDigest(digest, fails)
  \/ \E tasks \in [Accounts -> Tasks], fails \in BOOLEAN : RunReminders(tasks, fails)
  \/ \E fails \in BOOLEAN : RunPurge(fails)
  \/ DrainPick
  \/ \E m \in Mails, ok \in BOOLEAN : DrainSend(m, ok)
  \/ DrainCommit

MailNext ==
  \/ Console
  \/ Tick
  \/ DrainAbort
  \/ Crash
  \/ \E readable \in BOOLEAN : Start(readable)
  \/ Advance

\* The worker keeps ticking and is started again when it stops (the container's
\* restart policy); time passes.
MailFairness ==
  /\ WF_mailVars(Tick)
  /\ WF_mailVars(\E readable \in BOOLEAN : Start(readable))
  /\ WF_mailVars(Advance)

MailSpec == MailInit /\ [][MailNext]_mailVars /\ MailFairness

-----------------------------------------------------------------------------
(* Properties. *)

MailRow ==
  [status : {"none", "pending", "sent", "abandoned", "purged"},
   to : Accounts \cup {"nobody"}, created : Nat, next : Nat, attempts : Nat,
   tries : Nat, delivered : Nat]

MailTypes ==
  /\ now \in 0 .. Horizon
  /\ conf \in [schedule : SchedulePolicy, mail : BOOLEAN]
  /\ worker.pc \in {"down", "apply", "run", "drain"}
  /\ worker.policy \in SchedulePolicy \cup {NoPolicy}
  /\ worker.now \in Nat \cup {Never}
  /\ \A j \in Jobs : jobs[j].next \in Nat /\ jobs[j].last \in Nat \cup {Never}
  /\ mails \in [Mails -> MailRow]
  /\ drain.left \subseteq DOMAIN drain.rows /\ DOMAIN drain.rows \subseteq Mails
  /\ lost \in 0 .. MaxCrashes

\* Within one worker process a job has at most one turn in a period, a day for
\* the digest and a week for the reminder, however often the console moves its
\* hour or its day (apply_schedule).
OncePerPeriod ==
  [][ \A j \in Jobs :
        /\ jobs'[j].last # jobs[j].last
        /\ jobs[j].last # Never
        /\ worker'.life = worker.life
        => ~ SamePeriod(j, jobs[j].last, jobs'[j].last) ]_mailVars

\* Once its hour has stood for a whole period, a job does run in every period:
\* no day ends without the digest's turn, no week without the reminder's.
Served(j) ==
  \/ jobs[j].last # Never /\ SamePeriod(j, jobs[j].last, now)
  \/ j \in worker.todo /\ SamePeriod(j, worker.now, now)

PeriodServed ==
  [][ \A j \in Jobs :
        /\ worker.pc # "down"
        /\ Period(j, now') # Period(j, now)
        /\ Period(j, jobs[j].aimed) < Period(j, now)
        => Served(j) ]_mailVars

\* A mail goes out twice only if a drain died before its commit; what the table
\* says of a mail is what happened to it, and a mail leaves the table only
\* delivered, or given up after all its attempts (outbox.py:62).
DeliveredOnce == \A m \in Mails : mails[m].delivered <= 1 + lost

OutboxTruthful ==
  /\ MailTypes /\ DeliveredOnce
  /\ \A m \in Mails :
      /\ mails[m].status = "sent" => mails[m].delivered >= 1
      /\ mails[m].status = "abandoned" => mails[m].tries >= MaxAttempts
      /\ mails[m].status = "purged" =>
           mails[m].delivered >= 1 \/ mails[m].tries >= MaxAttempts
      /\ mails[m].tries <= MaxAttempts + lost

\* Every queued mail is sent or given up in the end, through failures, crashes
\* and a provider switched off: none is passed over for ever.  (Its next attempt
\* may lie past the end of the modelled time.)
MailSettles ==
  \A m \in Mails :
    mails[m].status = "pending"
      ~> (mails[m].status # "pending" \/ mails[m].next > Horizon)
=============================================================================
