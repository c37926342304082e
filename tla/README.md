# A specification of Tia'i

Tia'i manages the Windows machines ("postes") of an organisation. A Go service on
each poste (`agent/`) talks over HTTPS to a FastAPI server with a PostgreSQL
database (`backend/app/`), beside which one worker process runs the periodic jobs
(`backend/app/core/worker.py`); administrators use a Vue console (`frontend/`).
The program's own logic lives in protocols between these processes: a command
queued in the console is run on a poste that is often off, a credential is rotated
under an agent that may stop between any two writes, a report is acknowledged only
if it was the one sent. Every handler is a transaction under READ COMMITTED, every
request may be lost, time out, or be handled after its client gave up.

The console's own requests have the same shape: two administrators, a heartbeat and the
worker read and write the same rows without locking them.

This directory holds TLA+ modules of those protocols, the TLC configurations that
check them on small instances, and TLAPS proofs for every value of the constants.

    tlc -config CommandQueue_once.cfg MCCommandQueue.tla
    tlapm CommandQueueProofs.tla

## 1. Inventory

### What runs, and what it shares

| Part | State it keeps | Operations |
|---|---|---|
| Agent loop and worker (`agent/internal/agent`) | set of ids under way, channel to the worker, token, report caches | poll, accept, execute, post, flush, rotate |
| Agent result queue (`agent/internal/queue`) | one file per verdict, oldest first, at most `QueueMaxItems` | Enqueue (drops the oldest), Peek, Remove |
| Agent configuration (`agent/internal/config`) | `token.dat` | SaveToken, LoadToken, ClearToken |
| Agent API (`backend/app/api/routes/agent.py`) | none of its own | enroll, heartbeat, command_result, downloads |
| Command queue (`features/command`) | `commands` rows | create, list (sweeps), hand out, conclude, expire, purge |
| Agent token (`features/machine/token_rotation.py`) | current and pending hash, revocation, held re-enrollment | machine_for_token, offer, promote, revoke, allow |
| Report ingestion (`features/inventory`, `threat`, `windows_update`, `usage`) | last known state of each poste, hashes, daily usage | apply, replace, credit |
| Wake-on-LAN relay (`features/wol`) | wake rows, the relay a wake names | queue, claim, close on awake, expire |
| Console sessions (`features/auth_session`) | sessions with current and previous refresh hash | login, refresh, logout, set password, deactivate, purge |
| Accounts, groups, rate limits (`features/user`, `routes/users.py`, `groups.py`) | accounts, memberships, permissions, scopes, lockout counters, reset links, hits | login, lock, request and confirm a reset, create, edit, delete |
| Worker and mails (`core/worker.py`, `features/notification`) | next run of each job, outbox rows | run due jobs, render digest, send, give up, purge |
| Rooms and buildings (`features/room`) | places, the OU that keys a room, the room of each poste | create, edit, move, delete, file by hand, sync from the directory |
| Checks, journal, visits, merge (`features/check`, `intervention`, `maintenance`, `machine`) | open verifications, entries, cycles, last visits | request in bulk, close, record, exclude, merge |
| Settings (`features/setting`, `usage`) | overrides of the environment, stored verdicts, hourly counters | patch, resolve, recompute, credit, purge |
| Packages (`features/package`, `agent` deployment) | files, versions, signatures | upload, publish, delete, download, verify, install |
| Console (`frontend/`) | one session store per tab | login, refresh, call again after a 401 |

They meet in three places: the rows of the database (several handlers and the
worker write the same row), the HTTP requests between an agent and the server, and
the files of a poste (which survive the service). `PROJECT.json` lists each
component with its sources and what is modelled of it.

### What is hard, and what would be correct

* **Command queue.** A row is read by a heartbeat, expired by a sweep that runs in
  the worker, in the console's list and in every heartbeat, concluded by a result
  that may be late or repeated, purged under a handler that holds it loaded. The
  agent may stop with commands accepted, running, concluded but unsaved. Correct
  means: never run twice; never shown as unseen once started; the verdict shown is
  the poste's own; a verdict is not lost in silence; nothing stays queued for ever.
* **Agent token.** Two tokens are valid during a rotation, the agent has two
  copies of its own and each may be behind, promotion commits apart from the
  request that proves it, and an administrator writes the same columns. Correct
  means: what the agent holds is honoured; a proved token retires the former; no
  token is minted over a live one; a poste without a token is never invisible.
* **Reports.** A collection may end between the moment a heartbeat takes its
  payload and the moment its answer acknowledges it; a late heartbeat overwrites
  newer states with older; detections are alerted in the transaction that stores
  them. Correct means: the newest reading is stored in the end, an acknowledgement
  covers only what was sent, one alert per new threat.
* **Worker and mails.** A batch is committed after it was sent; jobs are
  rescheduled before they run; an hour can be moved in the console meanwhile.
  Correct means: no mail lost, none retried for ever, one digest per period.
* **Sessions.** Tabs share a cookie that rotates; the answer of a rotation may be
  lost; a password change must end what it can see and what is being created.
  Correct means: an ended session is never revived, a legitimate tab is not signed
  out by its neighbour, the last administrator stays.
* **Wake-on-LAN.** Several relays claim the same wake; a wake is closed by the
  poste that comes up. Correct means: emitted by somebody eligible, concluded once.

* **Accounts.** Counters and links are read, then written; three guards (escalation,
  scope, last administrator) are called by a dozen routes, each on what its own
  transaction sees. Correct means: nobody gains, or takes from others, what they do not
  hold; guesses lock; a link serves once; somebody can still manage accounts.
* **Places and people's work on postes.** A room follows an OU while people rename it and
  move it; visits are recorded late, requests closed twice, postes merged under all of
  this. Correct means: a poste is filed where the directory says, a cycle never steps
  back, a closed request has its entry, and one rule written in SQL and in Python gives
  one answer.
* **Packages.** A manifest is rebuilt and its signature voided by every change; contents
  are shared by name of their hash and removed when no row names them. Correct means: a
  poste runs what was signed, whole, and finds the files it was promised.
* **Settings.** Stored verdicts, hourly counters and a remembered policy are all derived
  from values that change. Correct means: they agree with the values in force.

Each of these is listed at its source line under `hazards` in `PROJECT.json`, with
the properties that cover it, or a note where the code does not keep it (section 4).

## 2. Modules

| Module | Models | Checked and proved |
|---|---|---|
| `CommandQueue` | commands of one poste: rows, handlers, network, loop, worker, result queue | runs, proofs in `CommandQueueProofs` |
| `OnceOnly` | what the queue promises, abstractly | implemented by `CommandQueue` (run and proof) |
| `AgentToken` | the credential of one poste, on the server and on the agent | run, proofs in `AgentTokenProofs` |
| `AuthSession` | the console sessions of one account, and the tabs of one browser | run, proofs in `AuthSessionProofs` |
| `Telemetry` | the reports of one poste: the agent's caches, the heartbeats, the tables they replace, the alerts | run, proofs in `TelemetryProofs` |
| `WorkerMail` | the worker's tick, its mail jobs and their schedule, the outbox | run |
| `WolRelay` | waking a poste: the server's packet, the row relays claim, its acknowledgement | run |
| `Accounts` | logins and their lock, reset links, rate limits, accounts and groups with the guards on their edits | two runs, proofs in `AccountsProofs` |
| `Rooms` | places, the filing of postes in them, scopes | part of `Parc` |
| `Parc` | `Rooms` with verifications, the journal, visits, merges, directory syncs | run, proofs in `ParcProofs` |
| `Packages` | the catalogue, its volume, manifests and signatures, deployments, what a poste verifies | run, proofs in `PackagesProofs` |
| `Settings` | settings over the environment, and the verdicts, hours and policy derived from them | run, proofs in `SettingsProofs` |

`MC*` modules give the constants that a `.cfg` cannot write (functions, symmetry).

### 2.1 CommandQueue

One poste, a set of commands with their types, a bounded clock.

*The row.* `status`, `createdAt`, `deliveredAt`, `finishedAt`, and `orphaned` for a
deployment whose `package_id` was set to NULL. `expires_at` is `createdAt + Ttl`.
"none" is before the insert, "purged" after the delete.

*Creation* (`create_commands`, `machines_with_open_command`) is two steps: the
check, then the insert with the sweep that the handler performs. `CreateAbort` is
the insert refused by the foreign key, or any failure.

*Heartbeat* has a read step, which computes everything from what it sees (`picked`,
`orphans`, and the rows `mark_expired` flips), and a commit that writes it. Other
transactions commit in between, except another heartbeat of the same poste: the
autoflush ahead of `mark_expired` has already updated the machine row, and its lock
is held until the commit. This is why `hb` is one record and not a set, and why
`Sweep` waits for rows a heartbeat has flipped (`SweepFree`). `HeartbeatAbort` is a
handler that fails. `HeartbeatTimeout` is the agent that stops waiting: the request
may be lost, under way, or still to be handled (`strayHb`, at most `Strays`).

*Results.* Each post is a record of its own, with who waits for it (the worker, the
flush of the queue, nobody). `ResultRead` loads the row and applies the early
returns (unknown command, `running` after a verdict); the commit writes the columns
that differ from those loaded, which is what SQLAlchemy's unit of work sends, so
that two results may interleave. A row purged in between fails the handler.

*Agent.* `loop` follows `Agent.Run`: flush the queue, heartbeat, accept what was
offered, sleep. `accept` skips ids under way (`running`), unknown types, and what no
longer fits the channel. The worker (`job`) takes one command at a time through the
`running` ping of long types, the execution, the post, and the write to the queue
when the post fails. `Refuse` stands for the power guard and for failed checks,
which conclude a command without running it. `Restart` keeps the queue's files and
loses the rest, at any moment.

*History variables* (`runs`, `outcome`, `forgotten`) record what the poste did and
are read by no action.

`OnceOnly` is the promise in five moves: a command is asked, owed, held, started,
concluded, or given up at any moment. `CommandQueue` maps each command to one of
those (`Life`) and `RunsOnceOnly` says the whole implements it: at most one start,
one command at a time, nothing run after it was given up.

### 2.2 AgentToken

One poste's row and its agent. A token stands for its hash.

*Handlers* load the row (`Authenticate`, `EnrollLoad`, `AdminLoad`) and commit
later; in between anything else may commit. `Flush` is what an UPDATE then does: it
writes the columns whose new value differs from the loaded one and leaves the
others as they now are. Several properties turn on this.

*Authentication* (`machine_for_token`) accepts the current token or the pending
one. The pending one is promoted, in a commit of its own, and the handler goes on
with the row as refreshed (`Promote`, `Refresh`).

*Offer.* A heartbeat offers a token when one is due (`RotationDue`): the token is
older than `AGENT_TOKEN_ROTATE_DAYS` (`aged`), or an offer is pending. The offer is
made on the loaded row, at the end.

*Enrollment* is refused to a revoked poste, held when approval is required and the
poste still has a live token (`held` is `reenroll_requested_at`), else mints.

*Agent.* `mem` is `cfg.AuthToken`, `disk` is `token.dat`, `got` a token received and
not in use. After enrollment memory comes first, then disk; in a rotation disk
first, then memory; either write may fail. A 401 on a heartbeat drops the token,
and the removal of the file may fail. `Restart` reads the file, or fails to.

*Late requests.* The interval between polls (60 s) is longer than the time-out of a
request (10 s), so a request is normally over when the next poll starts, and
`Late = 0` says so: `PollStart` waits until no request sent before the present sleep
is left at the server. `recent` marks the results sent since. A service restarted at
once, or a server that stalls, breaks this, and `Late = 1` shows what follows.

*Tokens are recycled*: a token written, held and travelling nowhere may be minted
again, so that behaviours have no bound on the number of rotations.

### 2.3 AuthSession

One account, its session rows, and one browser whose tabs share the refresh cookie
while each keeps its own access token. Cookies and access tokens live in no other
browser: the model asks what the protocol does to its own users.

*The row* is "none", "open" or "ended"; `used` is `last_used_at`, `expires` the end
`_expiry` computes. `pw` and `overlap` are history: the password the session was
opened with, and whether the account changed between the check and the insert.

*Refresh tokens have an age.* The row's current hash is that of the token of age 0,
the previous hash that of age 1, and what is older matches neither. A rotation ages
every copy, in the cookie and in the requests. This replaces any supply of fresh
token values, and leaves behaviours without a bound on the rotations.

*Handlers.* `refresh` locks its row, so `Rotate`, `Tolerate` (the token just
replaced, within the grace), `Suspect` (an older one, `REUSED`: the session is ended),
`RefuseInactive` and `RefuseUnknown` are each one step. `logout` ends what the cookie
or the bearer names. `login` is two: `LoginVerify` on the account it read, then
`LoginCommit`, which inserts the row; `SetPassword` or `Deactivate` may commit in
between, and their `revoke_all` does not see a row that is not there yet.

*Browser.* `SilentRefresh` is a page that loads; `Unauthorized` the first 401, whose
one refresh serves all the calls of the tab; `Replay` the call sent again, once.
`Lost` is a request or an answer that is lost, with or without effect on the server,
and `Reload` a page left with its requests under way: their answers still set the
cookie, and nobody waits for them.

*Bounds.* `Requests` is how many are under way at once, `Changes` how many changes of
the account, `RoundTrip` how long a request with its answer may take. A tab does one
thing at a time; `close_session` comes from another workstation.

### 2.4 Telemetry

One poste, its blocks ("updates", "inventory"), its rows and its detections.

*A reading is the set of rows it reports, and its own hash.* A hash is then equal to
another exactly when the readings are, which is what a hash is for; the rows are what
`_replace_set` inserts and deletes.

*Agent.* A cache has a reading, the generation of that reading and the generation
acknowledged (`cache.go`). `Collect` stands for the five ways to a new reading; the
daily cycle drops an inventory whose hash is the one it handed over last, a scan asked
for does not. `PollStart` takes what is pending, `Answered` acknowledges it, and
readings may be stored between the two. `Restart` forgets all of this, so an agent
sends again what the server has: that is what the server's own comparison is for.

*Handler*, in three steps. `Load` is the row as authentication reads it, with its hash
(`seen`). `Write` replaces the children of each block: an upsert, then a delete of what
the statement sees and the report does not name (`dropped`). `Commit` writes the machine
row, whose lock it keeps until the end, the threats and their alert, and publishes
everything. Between `Load` and `Commit` another heartbeat may do the same. What holds it
back is what PostgreSQL holds back: an upsert waits for a row another handler has
inserted or deleted and not committed, and a first inventory has already written the
machine row before its children. Any other interleaving is left open, which allows more
than the locks do and never less.

*Late heartbeats.* A heartbeat the agent gave up (`GiveUp`, `Restart`) goes on without
it. With a time-out of two minutes for these blocks and a poll each minute the agent
waits rather than overlaps itself; a server that goes on after the agent left is what
`Late` bounds, and 0 says it has finished when the next poll starts.

### 2.5 The modules of the console and the worker

In these modules a request is two steps. The first reads the database and applies the
early returns; its decision stays in `request`. The second writes it. Whatever else
commits in between does, as under READ COMMITTED with no row locked; a refusal is a
request that ends at its first step. `Abort` is a handler that fails. A request whose
reading and writing have nothing between them that another can see is one step. History
variables say which requests overlapped (`alone`, `muddled`, `crossed`), so that a
property may promise one thing of requests that followed one another and, where the code
gives it, another of those that did not. `Load` weighs the operations by class and
`MaxLoad` bounds their sum in a behaviour: an instance is told how many requests of each
class it may hold without a counter for each.

### 2.6 WorkerMail

`worker` is the process and where its tick is: it resolves the policy (`apply_schedule`),
lists what is due, runs the jobs in the order of `build_jobs`, and drains the outbox.
`jobs` holds `next`, `last` and the parameters of each, in memory: `Crash` loses them, and
`Start` builds them again, with the environment's schedule if the database cannot be read.
`mails` are the rows of the outbox; `drain` is a batch under way, whose sends have
happened and whose rows are still as they were until its commit, so that `Crash` and
`DrainAbort` between the two send again. `Console` patches the hours, switches the
provider off and on, and queues a mail of its own. `lost` counts the drains that ended without a commit.

### 2.7 WolRelay

`wake` is the row each click leaves; `hb` a heartbeat of a poste, read then committed;
`todo` the wakes an agent was handed, `owed` the verdicts it has to report, `res` the
results being handled. A click on a poste sends the server's packet or, where the relay is
enabled and the poste's site has another poste heard from lately, queues a row.
`MayClaim` is the filter of `relay.py`: same site, and same subnet or the grace elapsed.
Heartbeats of the target close what is open, whoever claimed it
(`close_wakes_for_awake_machine`).
Addresses are numbers of `AddressBits` bits, so that networks, broadcast addresses and
the fallbacks of `destinations_for` are computed and not assumed.

### 2.8 Accounts

`account` and `group` are rows; the authority of an account is the union of what its
groups grant and where, and the administrators' group grants everything everywhere.
`Login` reads the account, then writes the counter or the lock it computed. A reset
`link` is issued by deleting what the request saw of the former ones, and redeemed by a
read and a write. `Administer` is the routes of users and groups: each made, changed
or deleted, with its calls of the three guards of `users.py` (`Guarded`). `hits` is the limiter's
table with its window and its sweep; it runs in one process and without an await, so it
is one step. `overtaken` is a history variable: the requests on accounts, groups or
passwords that read rights another request has written since.

### 2.9 Rooms and Parc

`source` is `ROOM_SOURCE`; `room`, `building` and `poste` the rows, `agent` the OU each
poste is really in. A heartbeat files its poste by the OU it reads (`Heartbeat`); names
that are taken give way to the next (`Names`). `Console(scope)` is every operation of an
account confined to `scope`, on places and postes alike. `Parc` adds what people do about
postes: `check` with its status and poste, `journal` by poste and by what wrote the entry,
visits late or over a room, cycles (of the poste, else of its room, else of the parc),
`MergeCommit`, `SyncCommit` and the rest. `astray` are the postes of which the directory's
rule says nothing for now (their room was deleted, another request overlapped the one that
filed them); `struck` the checks whose entry somebody deleted by hand.

### 2.10 Packages

A manifest is what it says (what is run, how it is removed, the files with their
contents), a signature the manifest it is over. `package` and `files` are the rows, `store`
the volume, where a file is named by its content. Uploads, deletions and edits read the
package, rebuild the manifest and void the signature; `attach_signature` stores a
signature over the manifest it read. `deploy`, `folder` and `transfer` are the poste: it is
handed the manifest and signature of that moment, verifies the one against the other,
downloads what its folder lacks in a slot of `inFlight`, keeps what has the hash of the
manifest, and runs. A behaviour may start with a file that a poste kept of an earlier
version whose installation failed. `documents` are the manifests
administrators signed, `ran` what postes that trust signers ran.

### 2.11 Settings

`stored` are the overrides, `Env` what is behind each. A patch is checked on the values
it leads to together, then written; a change of the signature age recomputes the verdict of
every poste in the same transaction. `machine` is a poste's last heartbeat, what it said
and the verdict stored; `uptime` its hours, credited by the gap since the last heartbeat,
floored, split on the hours and capped, added to what is stored. `span` is when the poste
was on. `remembered` is the mail policy the API process keeps for those who cannot read the
database (`email_policy.py`); `LoadStored` and `Resolved` are the two ends of reading it.

## 3. What the runs check

| Run | Question | Bounds |
|---|---|---|
| `CommandQueue_once` | Is what the console shows what the poste did, and the whole once only? | 1 deployment with every failure, clock to 4, TTL 1, retention 1, 1 stray heartbeat; or 2 commands of a type, backlog 1, result queue 1, clock to 2 |
| `CommandQueue_live` | Does every command leave the queue, every kept verdict reach its row? | 1 command, clock to 3, 1 stray heartbeat |
| `AgentToken_held` | Rotation, approval, revocation, results across a switch, restarts | 4 tokens, 1 result in flight, no late request |
| `AuthSession_browser` | Is a logout final, who is taken for a thief, what does a new password leave open? | 2 tabs, 1 session, 2 requests, clock to 3, grace 2, round trip 1; or 1 tab, 2 sessions, 1 change |
| `Telemetry_sync` | Does an acknowledgement mean stored, one alert per detection, and does everything arrive? | 2 blocks of 1 row, 1 detection, 2 readings per run of the service, no late heartbeat |
| `WorkerMail_mail` | Is each mail sent or given up, each period served once? | 2 weeks of 2 days of 2 hours, 1 mail at a time, 2 attempts, 1 patch, 1 crash |
| `WolRelay_relay` | Who may claim a wake, does it end, does the target close it? | 3 postes in 2 subnets of a site, 1 click, TTL 2, grace 1, clock to 3, 1 switch |
| `Accounts_console` | Limits, locks, links, and who may give what to whom | 3 accounts, 3 groups, 2 requests at once of which 1 on accounts, 2 addresses |
| `Accounts_lockout` | Does an account able to manage accounts remain, as `users.py` says? Not always | the same, 2 administrators, 2 requests on accounts at once |
| `Parc_parc` | Filing, cycles, journal and scopes under edits that overlap | 2 postes, 2 rooms, 1 building, 2 OUs of one name, 2 checks, 2 requests at once |
| `Packages_deploy` | Does a poste run what was signed, and find its files? | 2 packages, 2 names, 2 contents, 2 postes, 1 download slot, 2 requests at once |
| `Settings_parc` | Do derived verdicts, hours and policy follow the settings? | 2 postes, 2 values of each setting, hours of 2 parts, 2 requests at once |

Two runs join two instances under a state constraint: their product would be too large,
and each has a question the other's bounds do not reach. `OneOrPair` keeps a behaviour that has created one command,
with every failure and the whole clock, or two of one type, with the clock to 2, two
posts, and no stray heartbeat or deleted package. `TabsOrChange` keeps two tabs of one
session while no change is made to the account, as time passes, or one tab, two sessions
and a change, at the first instant. Both are defined in the `MC` modules.

Why these bounds are enough to be interesting. With TTL 1 and a clock of 4 a command
can be created, expire, be swept, be handed out by a heartbeat that read it earlier,
conclude after its expiry and be purged with a result still in flight. Two commands
of one type are what de-duplication compares; a backlog and a queue of one are full
as soon as there is something to drop. Four tokens are a current one, a pending one,
one the agent holds of neither, and a fresh one. Two tabs and two requests are one
rotation overtaken by another, and `Reload` makes one tab any number of pages in turn;
two sessions are what a password change must end together. Two readings of one row, with
or without it, are an acknowledged one and the one stored meanwhile; two blocks show that
neither is acknowledged for the other. A single poste is enough there: the rows
of two postes have no column in common, and the only statements that touch both
(sweep, purge) treat each row alone. Two weeks of two days let an hour move within a day
and across one, before and after its turn, and a week begin; one row of the outbox is
enough as rows only compete for a place in the batch. Three postes are a target, a relay on
its wire and one that only has the site. A manager confined to a place, an administrator and
a spare row hold the three positions the guards tell apart; requests are weighed by kind
(`MCLoad`) so that three logins fit, or two writes with a reset between them. Two postes and two rooms are
what a merge, a key and a name can collide on; two packages and two contents what can
share a file; two requests are an overlap, and the guards are about pairs of statements.

What the passing runs show:

* `AtMostOnce`, `NeverRunUnseen`, `VerdictTruthful`: however requests are lost,
  repeated and reordered, a command runs at most once, is never pending or expired
  once started, and a verdict shown is the poste's own, or the failure of a
  deployment that lost its package and never ran.
* `VerdictKept`: a verdict is recorded, or held, or in `forgotten`; the ways into
  `forgotten` are a stop before the item is on disk, a failed write, and the oldest
  item of a full queue.
* `OneLivePerType` holds with one administrator at a time. With two (`Admins = 2`)
  it does not: the check and the insert are two statements.
* `HeldTokenHonoured`, `ProvedTokenIsCurrent`, `NoTakeover`:
  the rotation protocol does what the header of `token_rotation.py` says, as long
  as no request outlives the next poll.
* `ShutOut`: after a new password or a deactivation only a login whose password had
  been checked, and whose row was not inserted yet, comes out open. `overlap` is that
  exception, and it is real: without it the invariant fails.
* `LeftIsOver`, `SuspectedWasStrained`: a logout holds against every refresh under
  way; two tabs racing for the cookie are told from a thief, as long as no new token
  was lost and none of them is two rotations late. That last case is real: a tab refreshes,
  is loaded again and refreshes again while another tab's request is on its way with the
  first token; the session of both is ended as stolen, with no copy in other hands.
* `AckedIsStored`: when no heartbeat outlives the next poll, a reading the
  agent holds acknowledged is the one the tables hold, whatever was collected while its
  heartbeat was on its way.
* `AlertedOnce`: each recent detection stored was alerted on once. It does not depend on
  `Late`: a heartbeat rolled back and sent again, or two that store the same detection,
  make one alert. `ThreatsSettle`: the status of a threat follows Defender's in the end.
* `OncePerPeriod` and `PeriodServed` are the two sides of rescheduling: moving an hour
  never buys a second digest in a day within one process, and a job whose hour has stood
  for a whole period had its turn in it. `OutboxTruthful` bounds what a crash between sending and committing
  costs: one more copy for each drain lost, and attempts that are not counted; `MailSettles`
  says that no mail is passed over for ever.
* `ExpiredUnheard`: the grace and the expiry leave every eligible relay a time to claim.
  `AwakeCloses`: a target that stays on has no open wake in the end, even one reopened by
  a late claim, because it is each of its heartbeats that closes.
* `NoEscalation`, over chains of edits of accounts and groups, of every request that nobody
  wrote rights under (`overtaken`). That exception is real: without it the run fails, with a
  password that is reset while its account is put in a group that grants more; `RateBounded` at every
  placement of the window, across the sweep of the table; `SerialGuessesLock`, with
  the other writers of an account in between; `LinksHold`: a link serves, and exists, no
  more often than requests overlap.
* `FiledRight`, `LastKept`, `JournalFollows`, `OneRule`, `ScopeHolds`: the rooms follow
  the directory through edits; a visit recorded alone is never undone by a merge; the
  journal follows a request; the SQL and the Python form of a rule give one answer; an
  account confined to places changes nothing outside of them.
* `SignedAsIs`, `RanAsSigned`, `FilesKept`, `StillThere`: whatever the console does to a
  package, a poste that trusts signers runs whole manifests somebody signed; contents
  stay while a row names them.
* `SettingsHold`, `VerdictInForce`, `HoursCounted`: derived data agree with the values in
  force, apart from what overlapping requests left (section 4).

### Fairness

`CommandQueue`, `ServerFairness`: the clock advances (weak), the worker's sweep runs
again and again and is only delayed by heartbeats of the same poste, which end (strong,
as it is enabled again and again), and a handler that started commits or fails (weak).
`AgentFairness`: the loop and the worker go on (weak on each of their steps), and a
post tried again and again is handled with its answer received (strong): without it
an agent may be cut off for ever and nothing can be promised. No fairness is assumed of an
administrator, of a creation, of a failure or of a restart. `QueueSettles` needs the
server's only: it holds for a poste that never comes back.

`Telemetry`: the loop polls again and again and one of its
polls can read Defender's history (strong); a heartbeat is answered or given up (weak),
and one that nobody waits for comes to an end (weak); and of the heartbeats tried again
and again one that carries Defender's present state is handled (strong on its three
steps), without which an unreachable server would promise nothing.

`WorkerMail`: the worker ticks, is started again after a stop (the container's restart
policy), and the clock advances (weak). Nothing is asked of the provider: a mail it
refuses is given up after its attempts.

`WolRelay`: the clock and the worker's sweep advance, a click is answered, a poste that is
on polls (weak); its heartbeat commits now and then, although each may fail (strong).
`AuthSession`, `AgentToken`, `Accounts`, `Parc`, `Packages` and `Settings` have safety
properties only, and state no fairness.

## 4. Where the code and what is said of it disagree

One disagreement is a run of its own. `Accounts_lockout`: `users.py` says that "no change
may leave the console without an active account able to manage accounts". `reject_lockout`
counts the others its own transaction sees, so two administrators who take each other out
of the group at once both pass, and none is left.

The others were met while modelling. Each can be reproduced with the module as it stands, by the
constants named, or by dropping the history variable that sets the case apart.

* **A delivered command is not offered again.** `agent.go:511` says the server "keeps
  re-offering"; `agent.py:818` selects pending rows only, so a lost answer or a restart
  leaves the row delivered until the purge.
* **An expired row can be handed out** by a heartbeat that read it in time, where
  `command/models.py` has "States a command never leaves"; and a verdict can be
  overwritten by a `running` that was read before it.
* **A caller reaches what was given meanwhile.** `users.py:13` has "an account only grants,
  and only reaches, what it holds itself"; `reject_escalation` (`users.py:177`) compares
  authorities its transaction read, and neither account nor group is read again. A reset
  checked before its account gains rights, or an edit checked before its caller loses some,
  goes through: without `overtaken`, `NoEscalation` fails.
* **A late heartbeat's offer** (`token_rotation.py:64`) replaces the one the agent has
  stored and switched to: with `Late = 1` `HeldTokenHonoured` fails; the agent is answered
  401 and, where approval is required, waits for an administrator.
* **`allow-reenroll` leaves an offered token usable** (`machines.py:1927`): it assigns the
  value it loaded, and a token offered meanwhile is not among the columns written.
* **A late heartbeat puts an older inventory over a newer one** (`agent.py:745`) whose
  answer the agent has had; with `Late = 1` `AckedIsStored` fails, against "already up to
  date" of `cache.go:44`. An unchanged inventory is not collected again, so the console
  keeps the older one until the poste changes, is scanned on demand or restarts.
* **Two creations at once make two live commands of a type** (`Admins = 2`).
* **A relay's verdict or claim overwrites the target's own acknowledgement** of a wake
  (`relay.py:366`, `agent.py:915`): the row says what was read before the target came back.
* **Signatures and overlapping changes** (`package/crud.py:46`): `attach_signature` of a
  request that overlaps a change leaves a signature over another manifest, and two changes
  at once leave a manifest of neither state (`muddled`). A poste rejects it.
* **Contents**: one can be removed under an upload of it, leaving a row without its file
  (`lost`); a file replaced by another content is not removed from the volume. A download
  whose file vanishes between the lookup and the opening keeps its slot of
  `_downloads_in_flight` until the API restarts (`leaked`).
* **A file left by an earlier version** in a poste's folder makes the next deployment fail
  once with a hash mismatch.
* **Two patches at once break `low < high`** (`settings_routes.py:378`); so may a restart
  with another environment, whose values are only checked against each other
  (`config.py:470`).
* **A heartbeat that read the former signature age** overlaps the recomputation and stores
  the former verdict (`machine/crud.py:92`). Two heartbeats of one poste at once credit
  the same gap twice (`agent.py:794`). A resolution of the mail policy that overlaps a
  patch leaves the older one remembered (`email_policy.py:246`).
* **Places**: `update_room` that overlaps `delete_building`, a sync computed from readings
  that a heartbeat has replaced, and a merge in directory mode that gives the poste the room of
  the row merged, each leave a poste or a room astray until the next report.
* **Visits and closings**: two visits recorded at once may put the older date back, and two
  people who close one request at once write two entries.

## 5. What is proved

All proofs hold for any sets of commands, tokens, sessions, tabs, rows, detections, packages,
postes, accounts and requests under way, and any values of the other constants that satisfy
the assumption of the module: `CommandAssumption`, `TokenAssumption`, `SessionAssumption`,
`TelemetryAssumption`, `AccountsAssumption`, `PackagesAssumption`, `SettingsAssumption`, and
`RoomsAssumption` with `ParcAssumption`, `CalendarAssumption` with `OutboxAssumption`, and the
`ParcAssumption` of `WolRelay`. They are ranges and types, but for what follows. (The powers
of 2 in `OutboxAssumption` are naturals, as TLC computes: the provers know no `^`.)
`SessionAssumption` has `2 * RoundTrip <= Grace`: the source says of its thirty seconds that they
cover "a slow network many times over" (`auth_session/crud.py`). `SettingsAssumption` says
that the thresholds of the environment hold together, without which the configuration is refused
(`core/config.py:470`).

`WorkerMail` and `WolRelay` put their own prefix on the names of a specification (`MailSpec`,
`WolSpec`), so that `TelemetryProofs` and `AgentTokenProofs` extend them beside the component
they go with; the two specifications of such a module have no variable in common.

Where a module computes by a recursive function, a fold or a loop, what it computes is shown
by least counterexample (`LeastNumber`, from the well-foundedness of `<`): the rooms after the
first n OUs, the attempts a limiter drops.

`CommandQueueProofs`: `TypeCorrect`, `NoSecondRun` (`AtMostOnce`) and `NoRunUnseen`
(`NeverRunUnseen`). `AtMostOnce` is not inductive: nothing in it says that a command
already run cannot be waiting to be run again. `IInv` adds `RowInv`, a row that may
still be handed out has left no trace on the poste, in the channel, the result queue
or the requests; `AgentInv`, the places where the agent keeps a command are disjoint
and none before `execute` was run; `PostInv`, the worker waits for one answer, about
its own command, at the step that matches. `PostInv` is what stops an old answer
from sending the worker back to a step it has passed.
`TruthfulVerdicts` (`VerdictTruthful`) and `KeptVerdicts` (`VerdictKept`) turn on the copies of
a verdict. `VerdictInv`: those in requests, in the result queue and in the worker's hands are
what the poste concluded, and a command that is not concluded is nowhere taken for one.
`OrphanInv`: a deployment the server failed is nowhere on its way to being run.
`NoDuplicate` (`OneLivePerType`) is for one administrator at a time, `Admins = 1`: with two the
code does not give it (section 4). `AskedAlone` says what a creation found stays true until
it commits; `RowsSettled`, that what a late `running` or a slow heartbeat makes of a row revives
neither its TTL nor an answered command.
`ImplementsOnceOnly` (`RunsOnceOnly`) is the refinement of `OnceOnly`, step by step. `ReadOnRow`
reads the abstract life of a command on its row until it is handed out, and on the poste
from then on; each action then is a move of `OnceOnly`, several at once or none.

`AgentTokenProofs`: for any number of late requests, `TokenTypes` and
`ProvedIsCurrent`. With `Late = 0`, `HeldIsHonoured` (`HeldTokenHonoured`), with or
without approval, and, with approval, `NoLiveTokenTaken` (`NoTakeover`).
`HeldTokenHonoured` says nothing of requests under way, and two kinds of them retire
a token. A promotion retires the current one: `HonourInv` says the agent is past it.
An offer retires the pending one: `HonourInv` says the agent never stored it.
`QuietInv` says an offer and a promotion are never both under way, `EnrollInv` that
an enrollment that found no live token still finds none. All of them rest on
`PollInv`, the server has at most one heartbeat or enrollment of the poste, and
results with the same token, which is where `Late = 0` is used, and only in
`PollStart`: its step is the only one that fails with late requests.

Its last part is about `WolRelay`, whose wakes are claimed and closed by the heartbeats that
carry the token: `NobodyHeard` (`ExpiredUnheard`), for any profiles, grace and TTL. `WolInv` says
that no poste last heard in its time stands against a row that waits or expired and, which
overlapping heartbeats need, that a heartbeat that has read and could relay has the row among
its claims (`Unheard`).

`AuthSessionProofs`: `SessionTypes` (`TypeOK`), `NothingSurvives` (`ShutOut`),
`LeavingIsFinal` (`LeftIsOver`) and `SuspicionHasCause` (`SuspectedWasStrained`).
`ShutOut` needs one fact more, `CheckedInv`: a login whose password was checked, with
no change since, still fits the account. The two others turn on where the copies of a
token may be, which is `Copies`: one new token of a session at most is on its way
(`SetInv`); while a request holds the current one, nothing newer is on its way and the
cookie is not behind (`FreshInv`); the cookie is never two rotations behind
(`CookieInv`); a request that is, was overtaken (`AgeInv`). `Race` adds the time: a
request is at most a round trip old (`TimeInv`); a cookie one rotation behind waits for
an answer to a request sent before the rotation (`BehindInv`), so a request that holds
a replaced token was sent within a round trip of the rotation (`HeldInv`) and is
handled within two. This is where the assumption on the grace is used.

`TelemetryProofs`: `TelemetryTypes` (`TypeOK`) and `AlertsOnce` (`AlertedOnce`), for any
number of late heartbeats. With `Late = 0`, `AckMeansStored` (`AckedIsStored`) and
`HashTellsTheTruth` (`HashIsHonest`), which need each other: a heartbeat whose inventory
is skipped stored nothing, so that its acknowledgement rests on the hash. `SyncInv` adds
that there is one heartbeat at most (`OneInv`, the only place where `Late` is used); what
it carries is not acknowledged yet, and is the last reading if its generation is the last
(`CarryInv`); what its handler saw is still there, and what it was given is stored once it
has committed (`SeenInv`). `CarryInv` is where the counter matters: with a flag, a reading
stored on the way would be acknowledged by an answer that never carried it.

Its last part is about `WorkerMail`, by whose outbox the alerts go out: `TruthfulOutbox`
(`OutboxTruthful`), `OneTurnAPeriod` (`OncePerPeriod`)
and `EveryPeriodServed` (`PeriodServed`), for any calendar, settings, accounts and bounds, however
often the worker dies. `OutboxTruthful` speaks of no drain under way, and a batch has sent
what the table does not say yet: `MailOK` says of each row of the batch what it will be worth
written, and what it is worth lost. For the periods, `JobAim` says that the hour a job is set to
fits its parameters, lies past the period of its last turn, and is in the period after that one at
the latest, or in the one after that in which it was set; `ClockOK`, that the tick looks at the
clock before it moves twice. The rest is a calendar for any lengths of day and week:
`OnePeriodLater`, the lemmas on `DailyAt` and `WeeklyAt`, and `NextFits`, that the next hour of a
schedule fits it and is at most one period away.

`PackagesProofs`: `RunsWhatWasSigned` (`RanAsSigned`), for any number of requests at once,
any `Publishers` and however packages change in between. What a poste runs went through
three hands, and the invariant says of each that a signature there is over something signed: the
row (`SignatureInv`), which a request writes with the manifest it read and verified
(`AttachInv`), and what a deployment was handed, whose manifest a running one has compared
with its signature (`HandedInv`). That the signature of a row fits its package is no part
of it: overlapping requests break that, and the poste does not rely on it.
`SignsWhatIs` (`SignedAsIs`) is what does hold of it, for packages no two requests were on.
`RequestInv` says that what a request read of its package stands while it is alone,
`AloneInv` that two on one package are neither alone, so that a manifest rebuilt, or a signature
stored, is over the rows it was computed from. `FindsItsFiles` (`StillThere`): a deployment that
is not stale was handed the files its package still has (`DeployInv`), which are on the
volume (`CatalogueInv`). `KeepsFiles` (`FilesKept`) counts the download slots with them
(`TransferInv`); a content is deleted only when no row names it, and an upload under way is the
one that may not have a row yet.

`SettingsProofs`: `SettingsSafe` (`SettingsHold`), `VerdictsSafe` (`VerdictInForce`) and
`HoursSafe` (`HoursCounted`). A request writes on what it read, so the invariant says of each
that what it read is still so unless it met another on it (`Fresh`), and that two on one
thing have met (`Meets`): whatever a commit moves, only requests that met it had read.
`MailOwed`: the policy the API remembers is the one stored, or a request is about to make
it so. For the hours, `HoursInv` adds that what is counted was before the last heartbeat, which is
where the next gap begins. The rest is arithmetic: a gap credits each hour with its moments
in it (`GapCredits`), and an hour capped at its parts is the size of a union (`HourAdds`).

`ParcProofs`: `FilesRight` (`FiledRight`), `KeepsLast` (`LastKept`), `FollowsJournal`
(`JournalFollows`), `ReadsOneRule` (`OneRule`) and `HoldsScope` (`ScopeHolds`, a property of every
step). `RoomsInv` has no two rooms answer for one OU and files a poste in the room of its OU;
a directory sync makes or renames a room for each OU in turn, and what it has done after n
of them is an induction on n. `RequestsInv` is as in the other modules: what a lone request read
stands, and two on one poste are not alone. `JournalInv` bounds the entries of a closed
verification by the requests still closing it (`Closers`), without which the last of several
would write one more than promised. `OneRule` compares the SQL form of the cycle rule with the
Python one, and is arithmetic on days.

`AccountsProofs`: `RatesHold` (`RateBounded`), `GuessesLock` (`SerialGuessesLock`),
`LinksSafe` (`LinksHold`) and `NothingEscalates` (`NoEscalation`), for any number of requests
at once, on accounts too, and any graph of accounts, groups and scopes.
`GuessesInv`: wrong passwords in a row, one login at a time, are in the account's counter, or in
the one login that is to write it. `LinksInv`: a link was used no more often than the requests
that confirm by it leave room for (`UsesInv`), and of any set of live links of an account, with
the requests that read none of the set, there are no more than requests at once (`Room`). This is said
of every subset because the links that count for one request are not those that count
for the next. `RatesInv`: what a limiter remembers of an address is the end of what it let
through, what it forgot is out of the window, and entries `MaxHits` apart are a window apart
(`Spaced`). `RightsInv`, beside them: what the guards of a request found (`Permitted`) still
holds of the rights as they are, unless the request was overtaken, and an account that does not
exist is in no group (`Vacant`). No step but `WriteCommit` changes rights, and that one
overtakes every request it could belie, so the chains of edits need no induction of their own. What is left is
what one commit does. `EscalatesIs` turns the guard, on unions over groups, into one about each
group (`Covers`), where an edit of one group leaves the others alone.

What TLAPS shows for every value of the constants it need not be shown again on a small
instance: the type invariants of `CommandQueue`, `AgentToken`, `AuthSession` and `Telemetry`,
and `HashIsHonest`, are not listed in the runs.

## 6. What is only model-checked

* The liveness properties (`QueueSettles`, `VerdictLands`, `ThreatsSettle`, `MailSettles`,
  `WakeEnds`, `AwakeCloses`): proofs about fairness are out of reach of the provers used here.
* Every invariant and action property of the runs that pass is proved.

## 7. What is not modelled

* In `CommandQueue`: merges of two postes, an unreadable file of the result queue, file
  names ordered by a clock that was set back, the checks on a command's payload; the power
  guard is a possible refusal.
* In `AgentToken`: fingerprints and `needs_verification`, merges, agents that do not
  announce `supports_token_rotation`.
* In `AuthSession`: deletion of the account, the list of one's sessions (lockout, roles and
  reset links are in `Accounts`; `SetPassword` stands for the three ways to a new password).
* In `Telemetry`: the blocks that every heartbeat carries and that
  overwrite single columns, with `is_up_to_date` computed from them; the catalogue of
  programs that postes share; an agent that sends no hash; who receives an alert (the model
  has somebody to alert).
* In `WorkerMail`: the purges of the audit trail and of the journal; what a digest says.
* In `WolRelay`: several packets to one poste in one click, and their bytes.
* In `Accounts`: names and profile fields; which route asks which permission.
* In `Parc`: owners and notes; the text of entries; the move of commands, threats and
  inventories by a merge, whose statements are applied at once. Ids are used again once
  their row is deleted, and buildings have distinct names.
* In `Packages`: arguments and display fields; winget itself; the code signature of an
  installer; several deployments of one poste at a time; several uploads in one request.
* In `Settings`: the mail settings are one value, the environment is constant, time is
  counted in parts of an hour.
* Left aside for good: the collectors and the Windows calls, display, exports and
  statistics, which keep no state of their own; the audit trail, whose rows are appended in
  the transaction they describe; cryptographic primitives; schema migrations; deployment.

## 8. Plan

Done: `CommandQueue` with the refinement of `OnceOnly`, `AgentToken`, `Telemetry`,
`AuthSession`, `Accounts`, `Rooms` with `Parc`, `Packages`, `Settings`, `WorkerMail` and
`WolRelay`, and their proofs.

Left, in this order:

1. a merge of postes over commands and telemetry, composing `Parc` with `CommandQueue`;
2. the power guard, and the single columns of a heartbeat.
