---------------------------- MODULE CommandQueue ----------------------------
(***************************************************************************)
(* The command queue of one poste: the rows of the `commands` table, the   *)
(* handlers that write them (create_commands, heartbeat, command_result,   *)
(* the expiry sweep, the retention purge) and the agent that drains them   *)
(* (polling loop, worker, durable queue of results), with requests that    *)
(* time out, are lost, or outlive the client that sent them, and an agent  *)
(* that may stop at any instant.                                           *)
(*                                                                         *)
(* A handler is one database transaction under READ COMMITTED.  It is      *)
(* split where another transaction can come between what it read and what  *)
(* it writes: Heartbeat and CommandResult have a read step and a commit    *)
(* step.  Heartbeats of one poste do not overlap in that window: the       *)
(* autoflush ahead of mark_expired updates the machine row, whose lock is  *)
(* held until the commit.                                                  *)
(*                                                                         *)
(* Not here: wake_on_lan rows (another module's business, a heartbeat      *)
(* never hands a wake to its target), merges, tokens.                      *)
(***************************************************************************)
EXTENDS Naturals, Sequences, FiniteSets, SequencesExt

CONSTANTS
    Command,      \* command ids; a uuid is never used twice
    NoCommand,    \* no command
    TypeOf,       \* the type of each command, what de-duplication compares
    Long,         \* commands announced by an intermediate `running`
    Unknown,      \* commands of a type this agent does not know
    Deploy,       \* package_install / package_uninstall commands
    Ttl,          \* minutes from creation to expires_at
    Retention,    \* COMMAND_RETENTION_DAYS, in clock units
    Backlog,      \* maxPendingCommands, capacity of the agent's channel
    QueueMax,     \* QueueMaxItems, capacity of the durable result queue
    Admins,       \* bound: create_commands requests in flight at once
    Strays,       \* bound: heartbeats still at the server after a time-out
    MaxTime       \* bound: last instant of the clock

ASSUME CommandAssumption ==
    /\ NoCommand \notin Command
    /\ Long \subseteq Command /\ Unknown \subseteq Command
    /\ Deploy \subseteq Command
    /\ Ttl \in Nat \ {0} /\ Retention \in Nat \ {0} /\ MaxTime \in Nat \ {0}
    /\ Backlog \in Nat \ {0} /\ QueueMax \in Nat \ {0}
    /\ Admins \in Nat /\ Strays \in Nat

VARIABLES
    now,          \* the clock every utcnow() reads
    status,       \* Command.status, "none" before the insert, "purged" after
    createdAt, deliveredAt, finishedAt,   \* the row's instants, Null if unset
    orphaned,     \* deployments whose package was deleted (package_id NULL)
    queueing,     \* creations that passed the de-duplication check
    hb,           \* the heartbeat transaction holding the machine row
    strayHb,      \* heartbeats the agent gave up on, not handled yet
    posts,        \* POST .../result requests under way
    loop,         \* where the agent's polling loop is
    offered,      \* commands of the last response not yet accepted
    inbox,        \* the channel from the loop to the worker
    running,      \* Agent.running, ids queued or executing
    job,          \* what the worker is doing
    queue,        \* the durable queue of results, oldest first
    runs,         \* history: how many times the poste started each command
    outcome,      \* history: what the run, or the refusal, concluded
    forgotten     \* history: verdicts the agent no longer holds

server == <<now, status, createdAt, deliveredAt, finishedAt, orphaned,
            queueing, hb, strayHb>>
agent  == <<loop, offered, inbox, running, job, queue>>
hist   == <<runs, outcome, forgotten>>
rows   == <<status, createdAt, deliveredAt, finishedAt>>
vars   == <<server, posts, agent, hist>>

Null == 0
Time == 1 .. MaxTime

Verdicts  == {"succeeded", "failed"}
Terminal  == Verdicts \cup {"expired"}
Open      == {"pending", "delivered", "running"}
Purgeable == Terminal \cup {"delivered"}
Statuses  == Open \cup Terminal \cup {"none", "purged"}

Present(c) == status[c] \notin {"none", "purged"}
ExpiresAt(c) == createdAt[c] + Ttl

FreeHb == [step |-> "free", live |-> FALSE, picked |-> {}, orphans |-> {},
           expired |-> {}, at |-> Null]
IdleJob == [cmd |-> NoCommand, step |-> "idle", verdict |-> "none"]

Hb  == [step : {"free", "picked"}, live : BOOLEAN, picked : SUBSET Command,
        orphans : SUBSET Command, expired : SUBSET Command, at : Time \cup {Null}]
Job == [cmd : Command \cup {NoCommand},
        step : {"idle", "start", "ping", "ready", "execute", "post", "save"},
        verdict : Verdicts \cup {"none"}]
Item == [cmd : Command, verdict : Verdicts]
Post == [cmd : Command, what : Verdicts \cup {"running"},
         by : {"worker", "loop", "nobody"}, step : {"sent", "read"},
         seen : Statuses]

TypeOK ==
    /\ now \in Time
    /\ status \in [Command -> Statuses]
    /\ createdAt \in [Command -> Time \cup {Null}]
    /\ deliveredAt \in [Command -> Time \cup {Null}]
    /\ finishedAt \in [Command -> Time \cup {Null}]
    /\ orphaned \subseteq Deploy
    /\ queueing \subseteq Command
    /\ hb \in Hb
    /\ strayHb \in Nat
    /\ posts \subseteq Post
    /\ loop \in {"sleep", "flush", "flushing", "heartbeat", "accept"}
    /\ offered \subseteq Command
    /\ inbox \in Seq(Command)
    /\ running \subseteq Command
    /\ job \in Job
    /\ queue \in Seq(Item)
    /\ runs \in [Command -> Nat]
    /\ outcome \in [Command -> Verdicts \cup {"none"}]
    /\ forgotten \subseteq Command

Init ==
    /\ now = 1
    /\ status = [c \in Command |-> "none"]
    /\ createdAt = [c \in Command |-> Null]
    /\ deliveredAt = [c \in Command |-> Null]
    /\ finishedAt = [c \in Command |-> Null]
    /\ orphaned = {} /\ queueing = {}
    /\ hb = FreeHb /\ strayHb = 0 /\ posts = {}
    /\ loop = "sleep" /\ offered = {} /\ inbox = <<>> /\ running = {}
    /\ job = IdleJob /\ queue = <<>>
    /\ runs = [c \in Command |-> 0]
    /\ outcome = [c \in Command |-> "none"]
    /\ forgotten = {}

-----------------------------------------------------------------------------
(* The server: creation, expiry, purge.                                     *)

Tick ==
    /\ now < MaxTime
    /\ now' = now + 1
    /\ UNCHANGED <<rows, orphaned, queueing, hb, strayHb, posts, agent, hist>>

\* Faulty variants of Stale: expiring commands an agent owns; expiring late.
StaleOwned == {c \in Command : status[c] \in Open /\ ExpiresAt(c) < now}
StaleLate  == {c \in Command : status[c] = "pending" /\ ExpiresAt(c) + Ttl < now}

\* What mark_expired selects: only commands nobody picked up yet.
Stale == {c \in Command : status[c] = "pending" /\ ExpiresAt(c) < now}

\* mark_expired waits for the rows a heartbeat already flipped and not committed.
SweepFree == hb.expired = {}
Swept == [c \in Command |-> IF c \in Stale THEN "expired" ELSE status[c]]

\* The `expire_stale_commands` job, and the lazy sweep of list_commands.
Sweep ==
    /\ SweepFree /\ Stale # {}
    /\ status' = Swept
    /\ UNCHANGED <<now, createdAt, deliveredAt, finishedAt, orphaned, queueing,
                   hb, strayHb, posts, agent, hist>>

\* Faulty variant: a command handed out does not hold its type.
HoldsTypeQueued(c) == status[c] = "pending" /\ ExpiresAt(c) > now

\* machines_with_open_command: unfinished and still inside its TTL.
HoldsType(c) == status[c] \in Open /\ ExpiresAt(c) > now

\* create_commands checks, then inserts: two requests may pass the check together.
CreateCheck(c) ==
    /\ status[c] = "none" /\ c \notin queueing /\ c \notin orphaned
    /\ Cardinality(queueing) < Admins
    /\ \A d \in Command : TypeOf[d] = TypeOf[c] => ~HoldsType(d)
    /\ queueing' = queueing \cup {c}
    /\ createdAt' = [createdAt EXCEPT ![c] = now]
    /\ UNCHANGED <<now, status, deliveredAt, finishedAt, orphaned, hb, strayHb,
                   posts, agent, hist>>

\* Committed together with the sweep the handler starts with.
CreateCommit(c) ==
    /\ c \in queueing \ orphaned /\ SweepFree
    /\ queueing' = queueing \ {c}
    /\ status' = [Swept EXCEPT ![c] = "pending"]
    /\ UNCHANGED <<now, createdAt, deliveredAt, finishedAt, orphaned, hb,
                   strayHb, posts, agent, hist>>

\* The insert fails, on the foreign key of a package deleted meanwhile or otherwise.
CreateAbort(c) ==
    /\ c \in queueing
    /\ queueing' = queueing \ {c}
    /\ createdAt' = [createdAt EXCEPT ![c] = Null]
    /\ UNCHANGED <<now, status, deliveredAt, finishedAt, orphaned, hb, strayHb,
                   posts, agent, hist>>

\* A package is deleted: ON DELETE SET NULL leaves its commands without one.
DeletePackage(c) ==
    /\ c \in Deploy \ orphaned
    /\ orphaned' = orphaned \cup {c}
    /\ UNCHANGED <<now, rows, queueing, hb, strayHb, posts, agent, hist>>

\* coalesce(finished_at, delivered_at, created_at)
LastEvent(c) ==
    IF finishedAt[c] # Null THEN finishedAt[c]
    ELSE IF deliveredAt[c] # Null THEN deliveredAt[c] ELSE createdAt[c]

\* purge_before
Expendable == {c \in Command : /\ status[c] \in Purgeable
                               /\ LastEvent(c) + Retention < now}
Purge ==
    /\ Expendable # {}
    /\ status' = [c \in Command |-> IF c \in Expendable THEN "purged" ELSE status[c]]
    /\ UNCHANGED <<now, createdAt, deliveredAt, finishedAt, orphaned, queueing,
                   hb, strayHb, posts, agent, hist>>

-----------------------------------------------------------------------------
(* POST /agent/heartbeat.                                                   *)

\* The part that reads, under the machine row's lock.  live: the agent still waits.
HeartbeatRead(live) ==
    /\ hb.step = "free"
    /\ IF live THEN loop = "heartbeat" /\ UNCHANGED strayHb
               ELSE strayHb > 0 /\ strayHb' = strayHb - 1
    /\ LET picked == {c \in Command : status[c] = "pending" /\ ExpiresAt(c) > now}
       IN hb' = [step |-> "picked", live |-> live, picked |-> picked,
                 orphans |-> picked \cap orphaned, expired |-> Stale, at |-> now]
    /\ UNCHANGED <<now, rows, orphaned, queueing, posts, agent, hist>>

\* Faulty variant: a deployment whose package is gone handed out all the same.
HandedOutAll == hb.picked

\* The commands of the response: a deployment without its package is not in it.
HandedOut == hb.picked \ hb.orphans

\* Faulty variant: rows handed out but left pending.
StatusNotFlipped(c) ==
    CASE c \in hb.orphans -> "failed" [] c \in hb.expired -> "expired" [] OTHER -> status[c]

\* The status the handler leaves on each row it touched.
HeartbeatStatus(c) ==
    CASE c \in hb.orphans -> "failed"
      [] c \in HandedOut -> "delivered"
      [] c \in hb.expired -> "expired"
      [] OTHER -> status[c]

\* The commit: rows picked up are handed out, whatever became of them meanwhile.
HeartbeatCommit ==
    /\ hb.step = "picked"
    /\ \A c \in hb.picked : Present(c)
    /\ status' = [c \in Command |-> HeartbeatStatus(c)]
    /\ deliveredAt' = [c \in Command |-> IF c \in hb.picked THEN hb.at ELSE deliveredAt[c]]
    /\ finishedAt' = [c \in Command |-> IF c \in hb.orphans THEN hb.at ELSE finishedAt[c]]
    /\ IF hb.live THEN /\ offered' = HandedOut
                       /\ loop' = "accept"
                  ELSE UNCHANGED <<offered, loop>>
    /\ hb' = FreeHb
    /\ UNCHANGED <<now, createdAt, orphaned, queueing, strayHb, posts, inbox,
                   running, job, queue, hist>>

\* The handler fails (a row gone, a database error, a restart): rolled back.
HeartbeatAbort ==
    /\ hb.step = "picked"
    /\ hb' = FreeHb
    /\ loop' = IF hb.live THEN "sleep" ELSE loop
    /\ UNCHANGED <<now, rows, orphaned, queueing, strayHb, posts, offered,
                   inbox, running, job, queue, hist>>

\* The agent gives up on its heartbeat; the request is lost, or still on its way.
HeartbeatTimeout ==
    /\ loop = "heartbeat"
    /\ loop' = "sleep"
    /\ IF hb.live
       THEN hb' = [hb EXCEPT !.live = FALSE] /\ UNCHANGED strayHb
       ELSE /\ UNCHANGED hb
            /\ \/ UNCHANGED strayHb
               \/ strayHb < Strays /\ strayHb' = strayHb + 1
    /\ UNCHANGED <<now, rows, orphaned, queueing, posts, offered, inbox,
                   running, job, queue, hist>>

-----------------------------------------------------------------------------
(* POST /agent/commands/{id}/result.                                        *)

\* The item posted is still in the queue, at its head.
Posted(m) == queue # <<>> /\ Head(queue) = [cmd |-> m.cmd, verdict |-> m.what]

\* What the caller of PostResult does with the answer: ok is a 2xx.
Answer(m, ok) ==
    \/ /\ m.by = "worker" /\ m.what = "running"
       \* best effort: the command runs whatever became of the ping
       /\ job' = [job EXCEPT !.step = "ready"]
       /\ UNCHANGED <<running, loop, queue>>
    \/ /\ m.by = "worker" /\ m.what # "running" /\ ok
       /\ job' = IdleJob /\ running' = running \ {m.cmd}
       /\ UNCHANGED <<loop, queue>>
    \/ /\ m.by = "worker" /\ m.what # "running" /\ ~ok
       /\ job' = [job EXCEPT !.step = "save"]
       /\ UNCHANGED <<running, loop, queue>>
    \/ /\ m.by = "loop" /\ ok
       \* Remove may fail, and does when an Enqueue dropped that very file
       /\ \/ Posted(m) /\ queue' = Tail(queue) /\ loop' = "flush"
          \/ UNCHANGED queue /\ loop' = "heartbeat"
       /\ UNCHANGED <<job, running>>
    \/ /\ m.by = "loop" /\ ~ok
       /\ loop' = "heartbeat"
       /\ UNCHANGED <<job, running, queue>>
    \/ m.by = "nobody" /\ UNCHANGED <<job, running, loop, queue>>

\* Faulty variant: a result that comes after the command's expiry is ignored.
ResultReadInTime(m) ==
    /\ m.step = "sent"
    /\ IF Present(m.cmd) /\ ExpiresAt(m.cmd) >= now
       THEN /\ posts' = (posts \ {m}) \cup {[m EXCEPT !.step = "read", !.seen = status[m.cmd]]}
            /\ UNCHANGED <<job, running, loop, queue>>
       ELSE posts' = posts \ {m} /\ Answer(m, TRUE)
    /\ UNCHANGED <<server, offered, inbox, hist>>

\* The handler loads the row; unknown, or a `running` after the verdict: ignored.
ResultRead(m) ==
    /\ m.step = "sent"
    /\ IF Present(m.cmd) /\ ~(m.what = "running" /\ status[m.cmd] \in Terminal)
       THEN /\ posts' = (posts \ {m}) \cup {[m EXCEPT !.step = "read", !.seen = status[m.cmd]]}
            /\ UNCHANGED <<job, running, loop, queue>>
       ELSE posts' = posts \ {m} /\ Answer(m, TRUE)
    /\ UNCHANGED <<server, offered, inbox, hist>>

\* The commit writes the columns that differ from what was loaded.  A row purged
\* meanwhile makes it fail.
ResultCommit(m) ==
    /\ m.step = "read"
    /\ posts' = posts \ {m}
    /\ IF Present(m.cmd)
       THEN /\ status' = IF m.seen = m.what THEN status
                                            ELSE [status EXCEPT ![m.cmd] = m.what]
            /\ finishedAt' = IF m.what = "running" THEN finishedAt
                                                   ELSE [finishedAt EXCEPT ![m.cmd] = now]
            /\ Answer(m, TRUE)
       ELSE UNCHANGED <<status, finishedAt>> /\ Answer(m, FALSE)
    /\ UNCHANGED <<now, createdAt, deliveredAt, orphaned, queueing, hb, strayHb,
                   offered, inbox, hist>>

\* The request is lost, or its handler fails and rolls back.
ResultLost(m) ==
    /\ posts' = posts \ {m}
    /\ Answer(m, FALSE)
    /\ UNCHANGED <<server, offered, inbox, hist>>

\* Faulty variant: a time-out taken for a delivery.
ResultTimeoutTaken(m) ==
    /\ m.by # "nobody"
    /\ posts' = (posts \ {m}) \cup {[m EXCEPT !.by = "nobody"]}
    /\ Answer(m, TRUE)
    /\ UNCHANGED <<server, offered, inbox, hist>>

\* The client gives up; the server still handles the request, or will.
ResultTimeout(m) ==
    /\ m.by # "nobody"
    /\ posts' = (posts \ {m}) \cup {[m EXCEPT !.by = "nobody"]}
    /\ Answer(m, FALSE)
    /\ UNCHANGED <<server, offered, inbox, hist>>

-----------------------------------------------------------------------------
(* The agent.                                                               *)

Request(c, what, by) == [cmd |-> c, what |-> what, by |-> by,
                         step |-> "sent", seen |-> "none"]

\* The interval, or the back-off, elapses and a poll starts.
PollStart ==
    /\ loop = "sleep"
    /\ loop' = "flush"
    /\ UNCHANGED <<server, posts, offered, inbox, running, job, queue, hist>>

\* flushQueue: the oldest result is posted; an empty queue leads to the heartbeat.
FlushQueue ==
    /\ loop = "flush"
    /\ IF queue = <<>>
       THEN loop' = "heartbeat" /\ UNCHANGED posts
       ELSE /\ loop' = "flushing"
            /\ posts' = posts \cup {Request(Head(queue).cmd, Head(queue).verdict, "loop")}
    /\ UNCHANGED <<server, offered, inbox, running, job, queue, hist>>

\* accept: duplicates and what the channel cannot hold are dropped.
Accept(c) ==
    /\ loop = "accept" /\ c \in offered
    /\ offered' = offered \ {c}
    /\ IF c \notin running /\ Len(inbox) < Backlog
       THEN inbox' = Append(inbox, c) /\ running' = running \cup {c}
       ELSE UNCHANGED <<inbox, running>>
    /\ UNCHANGED <<server, posts, loop, job, queue, hist>>

PollEnd ==
    /\ loop = "accept" /\ offered = {}
    /\ loop' = "sleep"
    /\ UNCHANGED <<server, posts, offered, inbox, running, job, queue, hist>>

\* The worker takes the next command; a type it does not know is dropped silently.
TakeCommand ==
    /\ job.step = "idle" /\ inbox # <<>>
    /\ inbox' = Tail(inbox)
    /\ IF Head(inbox) \in Unknown
       THEN running' = running \ {Head(inbox)} /\ UNCHANGED job
       ELSE /\ job' = [cmd |-> Head(inbox), step |-> "start", verdict |-> "none"]
            /\ UNCHANGED running
    /\ UNCHANGED <<server, posts, loop, offered, queue, hist>>

\* A power action is pending: refuse closes the command without running it.
Refuse ==
    /\ job.step = "start"
    /\ job' = [job EXCEPT !.step = "post", !.verdict = "failed"]
    /\ outcome' = [outcome EXCEPT ![job.cmd] = "failed"]
    /\ posts' = posts \cup {Request(job.cmd, "failed", "worker")}
    /\ UNCHANGED <<server, loop, offered, inbox, running, queue, runs, forgotten>>

\* execute, up to the call of run: a long command is announced first.
ReportRunning ==
    /\ job.step = "start" /\ job.cmd \in Long
    /\ job' = [job EXCEPT !.step = "ping"]
    /\ posts' = posts \cup {Request(job.cmd, "running", "worker")}
    /\ UNCHANGED <<server, loop, offered, inbox, running, queue, hist>>

\* run(ctx) is called: the poste starts doing what the command says.
Run ==
    /\ \/ job.step = "start" /\ job.cmd \notin Long
       \/ job.step = "ready"
    /\ job' = [job EXCEPT !.step = "execute"]
    /\ runs' = [runs EXCEPT ![job.cmd] = @ + 1]
    /\ UNCHANGED <<server, posts, loop, offered, inbox, running, queue, outcome,
                   forgotten>>

\* run(ctx) returns, and its result is posted.
Finish(v) ==
    /\ job.step = "execute"
    /\ job' = [job EXCEPT !.step = "post", !.verdict = v]
    /\ outcome' = [outcome EXCEPT ![job.cmd] = v]
    /\ posts' = posts \cup {Request(job.cmd, v, "worker")}
    /\ UNCHANGED <<server, loop, offered, inbox, running, queue, runs, forgotten>>

\* Enqueue makes room by dropping the oldest item, then writes; the write may fail.
MadeRoom == IF Len(queue) < QueueMax THEN queue ELSE Tail(queue)
Dropped  == IF Len(queue) < QueueMax THEN {} ELSE {Head(queue).cmd}

Enqueue ==
    /\ job.step = "save"
    /\ \/ /\ queue' = Append(MadeRoom, [cmd |-> job.cmd, verdict |-> job.verdict])
          /\ forgotten' = forgotten \cup Dropped
       \/ /\ queue' = MadeRoom
          /\ forgotten' = forgotten \cup Dropped \cup {job.cmd}
    /\ job' = IdleJob /\ running' = running \ {job.cmd}
    /\ UNCHANGED <<server, posts, loop, offered, inbox, runs, outcome>>

\* The service stops, or the poste goes down, and starts again: memory is lost,
\* requests under way are not.
Restart ==
    /\ posts' = {[m EXCEPT !.by = "nobody"] : m \in posts}
    /\ hb' = [hb EXCEPT !.live = FALSE]
    /\ \/ UNCHANGED strayHb
       \/ /\ loop = "heartbeat" /\ ~hb.live /\ strayHb < Strays
          /\ strayHb' = strayHb + 1
    /\ loop' = "sleep" /\ offered' = {} /\ inbox' = <<>> /\ running' = {}
    /\ job' = IdleJob
    /\ forgotten' = IF job.step \in {"post", "save"} THEN forgotten \cup {job.cmd}
                                                     ELSE forgotten
    /\ UNCHANGED <<now, rows, orphaned, queueing, queue, runs, outcome>>

-----------------------------------------------------------------------------
Server ==
    \/ Tick \/ Sweep \/ Purge
    \/ \E c \in Command : CreateCheck(c) \/ CreateCommit(c) \/ CreateAbort(c)
                          \/ DeletePackage(c)
    \/ \E live \in BOOLEAN : HeartbeatRead(live)
    \/ HeartbeatCommit \/ HeartbeatAbort

Network ==
    \/ HeartbeatTimeout
    \/ \E m \in posts : ResultRead(m) \/ ResultCommit(m) \/ ResultLost(m)
                        \/ ResultTimeout(m)

Agent ==
    \/ PollStart \/ FlushQueue \/ PollEnd
    \/ \E c \in Command : Accept(c)
    \/ TakeCommand \/ Refuse \/ ReportRunning \/ Run \/ Enqueue
    \/ \E v \in Verdicts : Finish(v)
    \/ Restart

Next == Server \/ Network \/ Agent

Spec == Init /\ [][Next]_vars

(***************************************************************************)
(* Fairness.  Server side: time passes; the worker process runs its expiry *)
(* job for ever, and Postgres queues row locks first come first served, so *)
(* a sweep that keeps finding rows locked still gets them (SF); a          *)
(* handler that started ends.  Nothing is asked of the poste.              *)
(* Agent side, on top: its two loops never stop for good, though it may be *)
(* restarted at any moment, and a request sent again and again is answered *)
(* in the end (SF).                                                        *)
(***************************************************************************)
ServerFairness ==
    /\ WF_vars(Tick) /\ SF_vars(Sweep)
    /\ WF_vars(HeartbeatCommit \/ HeartbeatAbort)

AgentFairness ==
    /\ WF_vars(PollStart) /\ SF_vars(FlushQueue) /\ WF_vars(PollEnd)
    /\ WF_vars(\E c \in Command : Accept(c))
    /\ WF_vars(TakeCommand) /\ WF_vars(ReportRunning \/ Run \/ Refuse)
    /\ WF_vars(\E v \in Verdicts : Finish(v)) /\ WF_vars(Enqueue)
    /\ SF_vars(\E m \in posts : ResultRead(m))
    /\ SF_vars(\E m \in posts : ResultCommit(m))
    /\ SF_vars(HeartbeatRead(TRUE)) /\ SF_vars(HeartbeatCommit)

ServerFairSpec == Spec /\ ServerFairness

-----------------------------------------------------------------------------
(* What a correct queue promises.                                           *)

\* A poste runs a command at most once, whatever is lost, retried or restarted:
\* a heartbeat hands a row out once (PENDING -> DELIVERED under the machine's
\* lock) and an agent never acts on a response it stopped waiting for.
AtMostOnce == \A c \in Command : runs[c] <= 1

\* The console never shows as queued, or as expired unseen, a command the poste
\* has started: mark_expired leaves what an agent owns alone.
NeverRunUnseen ==
    \A c \in Command : runs[c] > 0 => status[c] \notin {"none", "pending", "expired"}

\* A verdict shown is the verdict reached on the poste.  The one verdict the
\* server writes itself is the failure of a deployment whose package is gone,
\* and that deployment is never run.
VerdictTruthful ==
    \A c \in Command :
        /\ status[c] = "succeeded" => runs[c] = 1 /\ outcome[c] = "succeeded"
        /\ status[c] = "failed" => \/ outcome[c] = "failed"
                                   \/ c \in orphaned /\ runs[c] = 0 /\ outcome[c] = "none"

HeldVerdict(c) ==
    \/ job.cmd = c /\ job.verdict = outcome[c]
    \/ [cmd |-> c, verdict |-> outcome[c]] \in ToSet(queue)

\* A verdict is recorded, or the agent still holds it and will post it again:
\* losing the answer, or the server, loses no result (queue.go).  What can be
\* lost is in `forgotten`: a stop before the item is written, a failed write, an
\* item dropped from a full queue.
VerdictKept ==
    \A c \in Command :
        outcome[c] # "none" /\ c \notin forgotten =>
            finishedAt[c] # Null \/ status[c] = "purged" \/ HeldVerdict(c)

\* With one administrator at a time, a poste never has two unanswered commands of
\* one type inside their TTL (machines_with_open_command).
Unanswered(c) == status[c] \in Open /\ ExpiresAt(c) > now /\ finishedAt[c] = Null

OneLivePerType ==
    \A c, d \in Command :
        c # d /\ TypeOf[c] = TypeOf[d] => ~(Unanswered(c) /\ Unanswered(d))

\* A command never stays in the queue: it is handed out or it expires, whether or
\* not its poste ever comes back.  (Those whose expiry the bounded clock reaches.)
QueueSettles ==
    \A c \in Command :
        status[c] = "pending" /\ ExpiresAt(c) < MaxTime ~> status[c] # "pending"

\* With a fair agent, and a server that answers in the end, a verdict the agent keeps
\* reaches the row, however often posting it fails (flushQueue).
VerdictLands ==
    AgentFairness =>
        \A c \in Command :
            outcome[c] # "none" ~> \/ finishedAt[c] # Null \/ status[c] = "purged"
                                   \/ c \in forgotten

\* Where a command is, seen from OnceOnly.  A row read by a heartbeat under way is
\* still owed, even if the sweep expires it meanwhile.
OnPoste(c) == c \in offered \cup ToSet(inbox) \/ job.cmd = c
Owing(c)   == status[c] = "pending" \/ (c \in hb.picked /\ Present(c))

Life(c) ==
    IF outcome[c] # "none" THEN "concluded"
    ELSE IF runs[c] > 0 THEN (IF job.cmd = c THEN "started" ELSE "given_up")
    ELSE IF OnPoste(c) THEN "held"
    ELSE IF status[c] = "none" THEN "unasked"
    ELSE IF Owing(c) THEN "owed"
    ELSE "given_up"

lives == [c \in Command |-> Life(c)]

Promise == INSTANCE OnceOnly WITH life <- lives

\* The queue, the network and the agent together implement OnceOnly: each command
\* is run at most once, one at a time, and never after it was given up.
RunsOnceOnly == Promise!Spec
=============================================================================
