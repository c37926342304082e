------------------------- MODULE CommandQueueProofs -------------------------
(***************************************************************************)
(* Proofs about CommandQueue, for any commands, types, bounds and clocks:  *)
(* its variables keep their types, no command is run twice, the verdicts   *)
(* it shows are those reached on the poste and none is lost silently, one  *)
(* creation at a time leaves no duplicate, and the whole implements        *)
(* OnceOnly.                                                               *)
(*                                                                         *)
(* Why AtMostOnce is not inductive: nothing in it says that a command that *)
(* was run cannot be waiting somewhere to be run again.  IInv follows each *)
(* command from its row to the worker: a row that may still be handed out  *)
(* has left no trace on the poste (RowInv), the places where the agent     *)
(* keeps a command are disjoint, and a command not yet at its `execute`    *)
(* step has not been run (AgentInv).  PostInv ties the request the worker  *)
(* waits for to the step it is at, so that an answer moves it as it should.*)
(*                                                                         *)
(* The verdicts need every copy of one to agree (VerdictInv) and a         *)
(* deployment failed by the server to be nowhere on the poste (OrphanInv). *)
(* De-duplication needs what a late answer or a slow heartbeat may turn    *)
(* back into an open row to be past its TTL or answered (RowsSettled).     *)
(* OnceOnly follows from where each of these invariants places a command.  *)
(***************************************************************************)
EXTENDS CommandQueue, FiniteSetTheorems, TLAPS

\* Never handed to the agent, or given up before it was.
Unhanded == {"none", "pending", "expired"}

JobInv ==
    /\ job.step = "idle" <=> job.cmd = NoCommand
    /\ job.step \in {"post", "save"} => job.verdict \in Verdicts

\* The agent, the requests and the durable queue only know handed commands.
RowInv ==
    /\ \A c \in queueing : status[c] = "none"
    /\ \A c \in hb.expired : status[c] = "pending"
    /\ \A c \in hb.picked : status[c] \in {"pending", "expired", "purged"}
    /\ hb.orphans \subseteq hb.picked /\ hb.picked \cap hb.expired = {}
    /\ \A c \in Command : status[c] \in Unhanded =>
           /\ c \notin offered /\ job.cmd # c /\ runs[c] = 0
           /\ \A i \in 1 .. Len(inbox) : inbox[i] # c
           /\ \A i \in 1 .. Len(queue) : queue[i].cmd # c
    /\ \A m \in posts : status[m.cmd] \notin Unhanded

\* A command is in one place at most, and not run before the worker runs it.
AgentInv ==
    /\ \A c \in offered : job.cmd # c /\ runs[c] = 0
    /\ \A i \in 1 .. Len(inbox) :
           inbox[i] \notin offered /\ inbox[i] # job.cmd /\ runs[inbox[i]] = 0
    /\ \A i, j \in 1 .. Len(inbox) : inbox[i] = inbox[j] => i = j
    /\ job.step \in {"start", "ping", "ready"} => runs[job.cmd] = 0
    /\ \A c \in Command : runs[c] <= 1

\* The worker waits for at most one answer, about its own command.
PostInv ==
    /\ \A m \in posts : m.by = "worker" =>
           /\ m.cmd = job.cmd
           /\ job.step = IF m.what = "running" THEN "ping" ELSE "post"
    /\ \A m, n \in posts : m.by = "worker" /\ n.by = "worker" => m = n
    /\ \A m \in posts : m.by = "loop" => m.what # "running"

IInv == TypeOK /\ JobInv /\ RowInv /\ AgentInv /\ PostInv

-----------------------------------------------------------------------------
\* The records the actions build, or update, are of their type.
LEMMA JobRecord ==
    ASSUME NEW j \in Job, NEW v \in Verdicts,
           NEW s \in {"idle", "start", "ping", "ready", "execute", "post", "save"}
    PROVE  /\ [j EXCEPT !.step = s] \in Job
           /\ [j EXCEPT !.step = s, !.verdict = v] \in Job
           /\ j.cmd \in Command \cup {NoCommand}
           /\ j.verdict \in Verdicts \cup {"none"}
           /\ IdleJob \in Job
  BY DEF Job, IdleJob, Verdicts

\* A result on its way keeps its fields when a handler reads it or its sender leaves.
LEMMA PostRecord ==
    ASSUME NEW m \in Post, NEW s \in Statuses
    PROVE  /\ [m EXCEPT !.step = "read", !.seen = s] \in Post
           /\ [m EXCEPT !.by = "nobody"] \in Post
           /\ m.cmd \in Command
           /\ m.what \in Statuses
           /\ m.by \in {"worker", "loop", "nobody"}
  BY DEF Post, Statuses, Open, Terminal, Verdicts

\* What Request builds is a result on its way, with the fields it was given.
LEMMA RequestRecord ==
    ASSUME NEW c \in Command, NEW w \in Verdicts \cup {"running"},
           NEW b \in {"worker", "loop"}
    PROVE  /\ Request(c, w, b) \in Post
           /\ Request(c, w, b).cmd = c /\ Request(c, w, b).what = w
           /\ Request(c, w, b).by = b
  BY DEF Request, Post, Statuses

\* A heartbeat transaction keeps its type when its agent stops waiting.
LEMMA HbRecord ==
    ASSUME NEW h \in Hb
    PROVE  /\ [h EXCEPT !.live = FALSE] \in Hb
           /\ [h EXCEPT !.live = FALSE].picked = h.picked
           /\ [h EXCEPT !.live = FALSE].orphans = h.orphans
           /\ [h EXCEPT !.live = FALSE].expired = h.expired
           /\ FreeHb \in Hb
  BY DEF Hb, FreeHb, Null

\* What the sequences of the agent hold after an item is taken or added.
LEMMA SeqSteps ==
    ASSUME NEW S, NEW q \in Seq(S), NEW x \in S
    PROVE  /\ Append(q, x) \in Seq(S)
           /\ Len(Append(q, x)) = Len(q) + 1
           /\ \A i \in 1 .. Len(q) : Append(q, x)[i] = q[i] /\ q[i] \in S
           /\ Append(q, x)[Len(q) + 1] = x
           /\ q # <<>> => /\ Head(q) = q[1] /\ Head(q) \in S
                          /\ Len(q) \in Nat \ {0} /\ Len(q) >= 1
                          /\ Tail(q) \in Seq(S)
                          /\ Len(Tail(q)) = Len(q) - 1
                          /\ \A i \in 1 .. Len(q) - 1 : Tail(q)[i] = q[i + 1]
  OBVIOUS

\* The same facts, of the durable queue and of the worker's channel.
LEMMA QueueSteps ==
    ASSUME TypeOK
    PROVE  /\ \A x \in Item : Append(queue, x) \in Seq(Item)
           /\ Len(queue) \in Nat
           /\ queue # <<>> => /\ Head(queue) \in Item /\ Tail(queue) \in Seq(Item)
                              /\ Head(queue).cmd \in Command
                              /\ Head(queue).verdict \in Verdicts
                              /\ \A i \in 1 .. Len(Tail(queue)) :
                                     \E k \in 1 .. Len(queue) : Tail(queue)[i] = queue[k]
<1>1. queue \in Seq(Item)
  BY DEF TypeOK
<1>2. /\ \A x \in Item : Append(queue, x) \in Seq(Item)
      /\ Len(queue) \in Nat
      /\ queue # <<>> => Head(queue) \in Item /\ Tail(queue) \in Seq(Item)
  BY <1>1
<1>3. ASSUME queue # <<>>, NEW i \in 1 .. Len(Tail(queue))
      PROVE  \E k \in 1 .. Len(queue) : Tail(queue)[i] = queue[k]
  <2>1. i + 1 \in 1 .. Len(queue) /\ Tail(queue)[i] = queue[i + 1]
    BY <1>1, <1>3
  <2> QED
    BY <2>1
<1> QED
  BY <1>2, <1>3 DEF Item

\* The channel holds commands, before and after an item is taken or added.
LEMMA InboxSteps ==
    ASSUME TypeOK
    PROVE  /\ \A c \in Command : Append(inbox, c) \in Seq(Command)
           /\ Len(inbox) \in Nat
           /\ inbox # <<>> => Head(inbox) \in Command /\ Tail(inbox) \in Seq(Command)
           /\ <<>> \in Seq(Command)
<1>1. inbox \in Seq(Command)
  BY DEF TypeOK
<1> QED
  BY <1>1

\* Past its `idle` step the worker has a command.
LEMMA JobIsCommand ==
    ASSUME TypeOK, JobInv
    PROVE  job.step # "idle" => job.cmd \in Command
  BY DEF TypeOK, JobInv, Job

\* Every action keeps every variable in its type.
LEMMA TypeStep ==
    ASSUME TypeOK, JobInv, [Next]_vars
    PROVE  TypeOK'
<1> USE CommandAssumption DEF Null, Time
<1>1. ASSUME NEW m \in posts, NEW ok \in BOOLEAN, Answer(m, ok)
      PROVE  /\ loop' \in {"sleep", "flush", "flushing", "heartbeat", "accept"}
             /\ running' \subseteq Command /\ job' \in Job
             /\ queue' \in Seq(Item)
  <2>1. loop' \in {"sleep", "flush", "flushing", "heartbeat", "accept"}
    BY <1>1 DEF Answer, TypeOK
  <2>2. running' \subseteq Command
    BY <1>1 DEF Answer, TypeOK
  <2>3. job' \in Job
    BY <1>1, JobRecord DEF Answer, TypeOK, Verdicts
  <2>4. queue' \in Seq(Item)
    BY <1>1, QueueSteps DEF Answer, Posted, TypeOK
  <2> QED
    BY <2>1, <2>2, <2>3, <2>4
<1>2. CASE UNCHANGED vars
  BY <1>2 DEF vars, server, agent, hist, TypeOK
<1>3. CASE Tick
  BY <1>3 DEF Tick, rows, agent, hist, TypeOK
<1>4. CASE Sweep
  BY <1>4 DEF Sweep, Swept, Statuses, Terminal, agent, hist, TypeOK
<1>5. CASE Purge
  BY <1>5 DEF Purge, Statuses, agent, hist, TypeOK
<1>6. ASSUME NEW c \in Command, CreateCheck(c) PROVE TypeOK'
  BY <1>6 DEF CreateCheck, agent, hist, TypeOK
<1>7. ASSUME NEW c \in Command, CreateCommit(c) PROVE TypeOK'
  BY <1>7 DEF CreateCommit, Swept, Statuses, Terminal, Open, agent, hist, TypeOK
<1>8. ASSUME NEW c \in Command, CreateAbort(c) PROVE TypeOK'
  BY <1>8 DEF CreateAbort, agent, hist, TypeOK
<1>9. ASSUME NEW c \in Command, DeletePackage(c) PROVE TypeOK'
  BY <1>9 DEF DeletePackage, rows, agent, hist, TypeOK
<1>10. ASSUME NEW live \in BOOLEAN, HeartbeatRead(live) PROVE TypeOK'
  BY <1>10 DEF HeartbeatRead, Hb, Stale, rows, agent, hist, TypeOK
<1>11. CASE HeartbeatCommit
  BY <1>11 DEF HeartbeatCommit, HeartbeatStatus, HandedOut, Hb, FreeHb, Statuses,
               Open, Terminal, Verdicts, hist, TypeOK
<1>12. CASE HeartbeatAbort
  BY <1>12 DEF HeartbeatAbort, Hb, FreeHb, rows, hist, TypeOK
<1>13. CASE HeartbeatTimeout
  BY <1>13, HbRecord, SMTT(30) DEF HeartbeatTimeout, rows, hist, TypeOK
<1>14. ASSUME NEW m \in posts, ResultRead(m) PROVE TypeOK'
  <2>1. posts' \subseteq Post
    <3>1. m \in Post
      BY DEF TypeOK
    <3>2. m.cmd \in Command
      BY <3>1 DEF Post
    <3>3. status[m.cmd] \in Statuses
      BY <3>2 DEF TypeOK
    <3>4. [m EXCEPT !.step = "read", !.seen = status[m.cmd]] \in Post
      BY <3>1, <3>3, PostRecord
    <3> QED
      BY <1>14, <3>4 DEF ResultRead, TypeOK
  <2>2. /\ loop' \in {"sleep", "flush", "flushing", "heartbeat", "accept"}
        /\ running' \subseteq Command /\ job' \in Job /\ queue' \in Seq(Item)
    BY <1>1, <1>14 DEF ResultRead, TypeOK
  <2> QED
    BY <1>14, <2>1, <2>2 DEF ResultRead, server, hist, TypeOK
<1>15. ASSUME NEW m \in posts, ResultCommit(m) PROVE TypeOK'
  <2>1. m.cmd \in Command /\ m.what \in Statuses
    BY PostRecord, m \in Post, "none" \in Statuses DEF TypeOK, Statuses
  <2>2. status' \in [Command -> Statuses]
    BY <1>15, <2>1 DEF ResultCommit, TypeOK
  <2>4. finishedAt' \in [Command -> Time \cup {Null}]
    BY <1>15, <2>1 DEF ResultCommit, TypeOK
  <2>3. /\ loop' \in {"sleep", "flush", "flushing", "heartbeat", "accept"}
        /\ running' \subseteq Command /\ job' \in Job /\ queue' \in Seq(Item)
    BY <1>1, <1>15 DEF ResultCommit
  <2> QED
    BY <1>15, <2>2, <2>3, <2>4 DEF ResultCommit, hist, TypeOK
<1>16. ASSUME NEW m \in posts, ResultLost(m) PROVE TypeOK'
  BY <1>1, <1>16 DEF ResultLost, server, hist, TypeOK
<1>17. ASSUME NEW m \in posts, ResultTimeout(m) PROVE TypeOK'
  <2>1. posts' \subseteq Post
    BY <1>17, PostRecord, "none" \in Statuses DEF ResultTimeout, TypeOK, Statuses
  <2> QED
    BY <1>1, <1>17, <2>1 DEF ResultTimeout, server, hist, TypeOK
<1>18. CASE PollStart
  BY <1>18 DEF PollStart, server, hist, TypeOK
<1>19. CASE FlushQueue
  <2>1. ASSUME queue # <<>> PROVE Request(Head(queue).cmd, Head(queue).verdict, "loop") \in Post
    BY <2>1, QueueSteps, RequestRecord
  <2> QED
    BY <1>19, <2>1 DEF FlushQueue, server, hist, TypeOK
<1>20. CASE PollEnd
  BY <1>20 DEF PollEnd, server, hist, TypeOK
<1>21. ASSUME NEW c \in Command, Accept(c) PROVE TypeOK'
  <2>1. inbox' \in Seq(Command)
    <3>1. inbox' = inbox \/ inbox' = Append(inbox, c)
      BY <1>21 DEF Accept
    <3> QED
      BY <3>1, InboxSteps DEF TypeOK
  <2> QED
    BY <1>21, <2>1 DEF Accept, server, hist, TypeOK
<1>22. CASE TakeCommand
  BY <1>22 DEF TakeCommand, Job, server, hist, TypeOK
<1>23. CASE Refuse
  <2>1. job' \in Job
    BY <1>23, JobRecord DEF Refuse, Verdicts, TypeOK
  <2>2. posts' \subseteq Post /\ outcome' \in [Command -> Verdicts \cup {"none"}]
    BY <1>23, JobIsCommand, RequestRecord DEF Refuse, Verdicts, TypeOK
  <2> QED
    BY <1>23, <2>1, <2>2 DEF Refuse, server, TypeOK
<1>24. CASE ReportRunning
  <2>1. job' \in Job
    BY <1>24, JobRecord, "failed" \in Verdicts DEF ReportRunning, Verdicts, TypeOK
  <2>2. posts' \subseteq Post
    BY <1>24, JobIsCommand, RequestRecord DEF ReportRunning, TypeOK
  <2> QED
    BY <1>24, <2>1, <2>2 DEF ReportRunning, server, hist, TypeOK
<1>25. CASE Run
  <2>1. job' \in Job
    BY <1>25, JobRecord, "failed" \in Verdicts DEF Run, Verdicts, TypeOK
  <2>2. runs' \in [Command -> Nat]
    BY <1>25, JobIsCommand, SMTT(30) DEF Run, TypeOK
  <2> QED
    BY <1>25, <2>1, <2>2 DEF Run, server, TypeOK
<1>26. CASE Enqueue
  <2>1. MadeRoom \in Seq(Item) /\ Dropped \subseteq Command
    <3>1. ASSUME Len(queue) >= QueueMax PROVE queue # <<>>
      BY <3>1 DEF TypeOK
    <3> QED
      BY <3>1, QueueSteps DEF MadeRoom, Dropped, TypeOK
  <2>2. job.cmd \in Command /\ [cmd |-> job.cmd, verdict |-> job.verdict] \in Item
    BY <1>26, JobIsCommand DEF Enqueue, JobInv, Item
  <2>3. queue' \in Seq(Item)
    BY <1>26, <2>1, <2>2 DEF Enqueue
  <2>4. job' \in Job
    BY <1>26, JobRecord, "failed" \in Verdicts DEF Enqueue, TypeOK, Verdicts
  <2> QED
    BY <1>26, <2>1, <2>2, <2>3, <2>4 DEF Enqueue, server, TypeOK
<1>27. ASSUME NEW v \in Verdicts, Finish(v) PROVE TypeOK'
  <2>1. job' \in Job
    BY <1>27, JobRecord DEF Finish, TypeOK
  <2>2. posts' \subseteq Post /\ outcome' \in [Command -> Verdicts \cup {"none"}]
    BY <1>27, JobIsCommand, RequestRecord, SMTT(30) DEF Finish, TypeOK
  <2> QED
    BY <1>27, <2>1, <2>2 DEF Finish, server, TypeOK
<1>28. CASE Restart
  <2>1. posts' \subseteq Post
    <3>1. posts \subseteq Post /\ "none" \in Statuses
      BY DEF TypeOK, Statuses
    <3>2. \A m \in posts : [m EXCEPT !.by = "nobody"] \in Post
      BY <3>1, PostRecord
    <3> QED
      BY <1>28, <3>2 DEF Restart
  <2>4. hb' \in Hb
    BY <1>28, HbRecord DEF Restart, TypeOK
  <2>2. job' \in Job /\ job' = IdleJob /\ inbox' \in Seq(Command)
    BY <1>28, InboxSteps, JobRecord, "failed" \in Verdicts DEF Restart, TypeOK, Verdicts
  <2>3. forgotten' \subseteq Command
    BY <1>28, JobIsCommand DEF Restart, TypeOK
  <2> QED
    BY <1>28, <2>1, <2>2, <2>3, <2>4 DEF Restart, rows, TypeOK
<1> QED
  BY <1>2, <1>3, <1>4, <1>5, <1>6, <1>7, <1>8, <1>9, <1>10, <1>11, <1>12, <1>13,
     <1>14, <1>15, <1>16, <1>17, <1>18, <1>19, <1>20, <1>21, <1>22, <1>23, <1>24,
     <1>25, <1>26, <1>27, <1>28 DEF Next, Server, Network, Agent

\* The worker waits for one answer at a time, and only when its step says so.
LEMMA WorkerStep ==
    ASSUME TypeOK, TypeOK', JobInv, PostInv, [Next]_vars
    PROVE  JobInv' /\ PostInv'
<1> USE CommandAssumption
<1>1. ASSUME UNCHANGED job, posts' \subseteq posts PROVE JobInv' /\ PostInv'
  BY <1>1 DEF JobInv, PostInv
<1>2. ASSUME NEW m \in posts
      PROVE  /\ m.cmd \in Command
             /\ m.by \in {"worker", "loop", "nobody"}
             /\ m.what \in Verdicts \cup {"running"}
  BY DEF TypeOK, Post
<1>3. ASSUME NEW m \in posts, NEW ok \in BOOLEAN, Answer(m, ok), posts' = posts \ {m}
      PROVE  JobInv' /\ PostInv'
  <2>1. CASE m.by = "worker"
    <3>1. \A n \in posts' : n.by # "worker"
      BY <1>3, <2>1 DEF PostInv
    <3>2. PostInv'
      BY <1>3, <3>1 DEF PostInv
    <3>3. job.step \in {"ping", "post"} /\ job.cmd # NoCommand
          /\ (m.what # "running" => job.step = "post")
      BY <2>1 DEF PostInv, JobInv
    <3>4. \/ job' = [job EXCEPT !.step = "ready"]
          \/ job' = IdleJob
          \/ m.what # "running" /\ job' = [job EXCEPT !.step = "save"]
      BY <1>3, <2>1 DEF Answer
    <3>5. JobInv'
      <4>1. job \in Job
        BY DEF TypeOK
      <4>2. CASE job' = IdleJob
        BY <4>2 DEF JobInv, IdleJob
      <4>3. CASE job' = [job EXCEPT !.step = "ready"]
        BY <3>3, <4>1, <4>3 DEF JobInv, Job
      <4>4. CASE m.what # "running" /\ job' = [job EXCEPT !.step = "save"]
        BY <3>3, <4>1, <4>4 DEF JobInv, Job
      <4> QED
        BY <3>4, <4>2, <4>3, <4>4
    <3> QED
      BY <3>2, <3>5
  <2>2. CASE m.by # "worker"
    BY <1>1, <1>3, <2>2 DEF Answer
  <2> QED
    BY <2>1, <2>2
<1>4. ASSUME NEW m \in posts, ResultRead(m) PROVE JobInv' /\ PostInv'
  <2>1. CASE Present(m.cmd) /\ ~(m.what = "running" /\ status[m.cmd] \in Terminal)
    <3> DEFINE r == [m EXCEPT !.step = "read", !.seen = status[m.cmd]]
    <3>1. r.cmd = m.cmd /\ r.what = m.what /\ r.by = m.by
      BY DEF TypeOK, Post
    <3>2. posts' = (posts \ {m}) \cup {r} /\ UNCHANGED job
      BY <1>4, <2>1 DEF ResultRead
    <3> HIDE DEF r
    <3> QED
      BY <3>1, <3>2 DEF JobInv, PostInv
  <2>2. CASE ~(Present(m.cmd) /\ ~(m.what = "running" /\ status[m.cmd] \in Terminal))
    BY <1>3, <1>4, <2>2 DEF ResultRead
  <2> QED
    BY <2>1, <2>2
<1>5. ASSUME NEW m \in posts, ResultCommit(m) PROVE JobInv' /\ PostInv'
  BY <1>3, <1>5 DEF ResultCommit
<1>6. ASSUME NEW m \in posts, ResultLost(m) PROVE JobInv' /\ PostInv'
  BY <1>3, <1>6 DEF ResultLost
<1>7. ASSUME NEW m \in posts, ResultTimeout(m) PROVE JobInv' /\ PostInv'
  <2> DEFINE r == [m EXCEPT !.by = "nobody"]
  <2>1. r.by = "nobody" /\ posts' = (posts \ {m}) \cup {r}
    BY <1>7 DEF ResultTimeout, TypeOK, Post
  <2> HIDE DEF r
  <2>2. Answer(m, FALSE)
    BY <1>7 DEF ResultTimeout
  <2>3. PostInv'
    <3>1. CASE m.by = "worker"
      BY <2>1, <3>1 DEF PostInv
    <3>2. CASE m.by # "worker"
      BY <2>1, <2>2, <3>2 DEF PostInv, Answer
    <3> QED
      BY <3>1, <3>2
  <2>4. JobInv'
    BY <2>2 DEF Answer, JobInv, PostInv, IdleJob, TypeOK, Job
  <2> QED
    BY <2>3, <2>4
<1>8. CASE FlushQueue
  <2>1. CASE queue = <<>>
    BY <1>1, <1>8, <2>1 DEF FlushQueue
  <2>2. CASE queue # <<>>
    <3>1. PICK r : /\ posts' = posts \cup {r} /\ r.by = "loop" /\ r.what # "running"
                   /\ UNCHANGED job
      BY <1>8, <2>2, QueueSteps, RequestRecord DEF FlushQueue, Verdicts
    <3> QED
      BY <3>1 DEF JobInv, PostInv
  <2> QED
    BY <2>1, <2>2
<1>9. ASSUME NEW w \in Verdicts \cup {"running"}, NEW v \in Verdicts \cup {"none"},
             job.step \in {"start", "execute"},
             posts' = posts \cup {Request(job.cmd, w, "worker")},
             job' = [job EXCEPT !.step = IF w = "running" THEN "ping" ELSE "post",
                                !.verdict = v],
             w # "running" => v \in Verdicts
      PROVE  JobInv' /\ PostInv'
  <2>1. \A n \in posts : n.by # "worker"
    BY <1>9 DEF PostInv
  <2>2. job.cmd \in Command
    BY <1>9, JobIsCommand
  <2>3. /\ job'.cmd = job.cmd /\ job'.verdict = v
        /\ job'.step = IF w = "running" THEN "ping" ELSE "post"
    BY <1>9 DEF TypeOK, Job
  <2>4. PICK r : /\ posts' = posts \cup {r} /\ r.by = "worker" /\ r.what = w
                 /\ r.cmd = job.cmd
    BY <1>9, <2>2, RequestRecord
  <2>5. JobInv'
    BY <1>9, <2>2, <2>3 DEF JobInv
  <2>6. PostInv'
    BY <2>1, <2>3, <2>4 DEF PostInv
  <2> QED
    BY <2>5, <2>6
<1>10. CASE Refuse
  BY <1>9, <1>10, "failed" \in Verdicts DEF Refuse, Verdicts
<1>11. CASE ReportRunning
  <2>1. job' = [job EXCEPT !.step = "ping", !.verdict = job.verdict]
    BY <1>11 DEF ReportRunning, TypeOK, Job
  <2>2. job.verdict \in Verdicts \cup {"none"}
    BY DEF TypeOK, Job
  <2> QED
    BY <1>9, <1>11, <2>1, <2>2 DEF ReportRunning
<1>12. ASSUME NEW v \in Verdicts, Finish(v) PROVE JobInv' /\ PostInv'
  BY <1>9, <1>12, v # "running" DEF Finish, Verdicts
<1>13. CASE TakeCommand
  BY <1>1, <1>13, InboxSteps DEF TakeCommand, JobInv, PostInv
<1>14. CASE Run
  BY <1>14 DEF Run, JobInv, PostInv, TypeOK, Job
<1>15. CASE Enqueue
  BY <1>15 DEF Enqueue, JobInv, PostInv, IdleJob
<1>16. CASE Restart
  <2>1. \A n \in posts' : n.by = "nobody"
    BY <1>16 DEF Restart, TypeOK, Post
  <2> QED
    BY <1>16, <2>1 DEF Restart, JobInv, PostInv, IdleJob
<1>17. ASSUME UNCHANGED <<job, posts>> PROVE JobInv' /\ PostInv'
  BY <1>1, <1>17
<1>18. CASE \/ Server \/ HeartbeatTimeout \/ PollStart \/ PollEnd \/ UNCHANGED vars
            \/ \E c \in Command : Accept(c)
  BY <1>17, <1>18
  DEF Server, Tick, Sweep, Purge, CreateCheck, CreateCommit, CreateAbort,
      DeletePackage, HeartbeatRead, HeartbeatCommit, HeartbeatAbort,
      HeartbeatTimeout, PollStart, PollEnd, Accept, vars, agent
<1> QED
  BY <1>4, <1>5, <1>6, <1>7, <1>8, <1>10, <1>11, <1>12, <1>13, <1>14, <1>15,
     <1>16, <1>18 DEF Next, Network, Agent

\* A row that may still be handed out stays without a trace on the poste, and the
\* poste keeps each command in one place.  Server side.
LEMMA ServerStep ==
    ASSUME TypeOK, RowInv, AgentInv, Server
    PROVE  RowInv' /\ AgentInv'
<1> USE CommandAssumption
<1>1. ASSUME UNCHANGED <<offered, job, runs, inbox>>
      PROVE  AgentInv'
  BY <1>1 DEF AgentInv
<1>2. CASE Tick
  BY <1>1, <1>2 DEF Tick, rows, agent, hist, RowInv
<1>3. CASE Sweep
  <2>1. AgentInv'
    BY <1>1, <1>3 DEF Sweep, agent, hist
  <2>2. \A c \in Command : /\ status'[c] # status[c] => status[c] = "pending"
                           /\ status'[c] \in {status[c], "expired"}
    BY <1>3 DEF Sweep, Swept, Stale
  <2>3. \A m \in posts : m.cmd \in Command
    BY DEF TypeOK, Post
  <2>4. queueing \subseteq Command /\ hb.picked \subseteq Command
    BY DEF TypeOK, Hb
  <2> QED
    BY <1>3, <2>1, <2>2, <2>3, <2>4 DEF Sweep, SweepFree, agent, hist, RowInv, Unhanded
<1>4. CASE Purge
  <2>1. AgentInv'
    BY <1>1, <1>4 DEF Purge, agent, hist
  <2>2. \A c \in Command : \/ status'[c] = status[c]
                           \/ status'[c] = "purged" /\ status[c] \in Purgeable
    BY <1>4 DEF Purge, Expendable
  <2>3. \A m \in posts : m.cmd \in Command
    BY DEF TypeOK, Post
  <2>4. queueing \subseteq Command /\ hb.picked \subseteq Command /\ hb.expired \subseteq Command
    BY DEF TypeOK, Hb
  <2> QED
    BY <1>4, <2>1, <2>2, <2>3, <2>4
    DEF Purge, Purgeable, Terminal, Verdicts, agent, hist, RowInv, Unhanded
<1>5. ASSUME NEW c \in Command, CreateCheck(c) PROVE RowInv' /\ AgentInv'
  BY <1>1, <1>5 DEF CreateCheck, agent, hist, RowInv
<1>6. ASSUME NEW c \in Command, CreateCommit(c) PROVE RowInv' /\ AgentInv'
  <2>1. AgentInv'
    BY <1>1, <1>6 DEF CreateCommit, agent, hist
  <2>2. \A d \in Command \ {c} : /\ status'[d] # status[d] => status[d] = "pending"
                                 /\ status'[d] \in {status[d], "expired"}
    BY <1>6 DEF CreateCommit, Swept, Stale, TypeOK
  <2>3. status[c] = "none" /\ status'[c] = "pending"
    BY <1>6 DEF CreateCommit, Swept, RowInv
  <2>4. \A m \in posts : m.cmd \in Command
    BY DEF TypeOK, Post
  <2>5. queueing \subseteq Command /\ hb.picked \subseteq Command
    BY DEF TypeOK, Hb
  <2> QED
    BY <1>6, <2>1, <2>2, <2>3, <2>4, <2>5
    DEF CreateCommit, SweepFree, agent, hist, RowInv, Unhanded
<1>7. ASSUME NEW c \in Command, CreateAbort(c) PROVE RowInv' /\ AgentInv'
  BY <1>1, <1>7 DEF CreateAbort, agent, hist, RowInv
<1>8. ASSUME NEW c \in Command, DeletePackage(c) PROVE RowInv' /\ AgentInv'
  BY <1>1, <1>8 DEF DeletePackage, rows, agent, hist, RowInv
<1>9. ASSUME NEW live \in BOOLEAN, HeartbeatRead(live) PROVE RowInv' /\ AgentInv'
  <2>1. {c \in Command : status[c] = "pending" /\ ExpiresAt(c) > now} \cap Stale = {}
    <3>1. now \in Nat /\ \A c \in Command : ExpiresAt(c) \in Nat
      <4>1. now \in Nat /\ \A c \in Command : createdAt[c] \in Nat
        BY DEF TypeOK, Time, Null
      <4> QED
        BY <4>1 DEF ExpiresAt
    <3>2. \A c \in Command : ~(ExpiresAt(c) > now /\ ExpiresAt(c) < now)
      BY <3>1
    <3> QED
      BY <3>2 DEF Stale
  <2> QED
    BY <1>1, <1>9, <2>1 DEF HeartbeatRead, Stale, rows, agent, hist, RowInv
<1>10. CASE HeartbeatCommit
  <2>1. /\ hb.picked \subseteq Command /\ hb.expired \subseteq Command
        /\ \A c \in hb.picked : status[c] \in {"pending", "expired"}
    BY <1>10 DEF HeartbeatCommit, Present, RowInv, TypeOK, Hb
  <2>2. \A c \in Command : status'[c] \in Unhanded =>
            c \notin hb.picked /\ status[c] \in Unhanded
    BY <1>10, <2>1 DEF HeartbeatCommit, HeartbeatStatus, HandedOut, RowInv, Unhanded
  <2>3. \A c \in Command : status[c] \notin Unhanded => status'[c] = status[c]
    BY <1>10, <2>1 DEF HeartbeatCommit, HeartbeatStatus, HandedOut, RowInv, Unhanded
  <2>4. \A c \in Command : status[c] = "none" => status'[c] = "none"
    BY <1>10, <2>1 DEF HeartbeatCommit, HeartbeatStatus, HandedOut, RowInv
  <2>5. \A m \in posts : m.cmd \in Command
    BY DEF TypeOK, Post
  <2>6. queueing \subseteq Command
    BY DEF TypeOK
  <2>7. offered' \subseteq offered \cup hb.picked
    BY <1>10 DEF HeartbeatCommit, HandedOut
  <2>8. offered' = offered \/ offered' \subseteq hb.picked
    BY <1>10 DEF HeartbeatCommit, HandedOut
  <2>9. RowInv'
    BY <1>10, <2>2, <2>3, <2>4, <2>5, <2>6, <2>7 DEF HeartbeatCommit, FreeHb, hist, RowInv
  <2>10. \A c \in hb.picked : /\ job.cmd # c /\ runs[c] = 0
                              /\ \A i \in 1 .. Len(inbox) : inbox[i] # c
    BY <2>1 DEF RowInv, Unhanded
  <2>11. AgentInv'
    BY <1>10, <2>8, <2>10 DEF HeartbeatCommit, hist, AgentInv
  <2> QED
    BY <2>9, <2>11
<1>11. CASE HeartbeatAbort
  BY <1>1, <1>11 DEF HeartbeatAbort, FreeHb, rows, hist, RowInv
<1> QED
  BY <1>2, <1>3, <1>4, <1>5, <1>6, <1>7, <1>8, <1>9, <1>10, <1>11 DEF Server

\* The same, of requests, answers, time-outs and the agent.
LEMMA PosteStep ==
    ASSUME TypeOK, JobInv, PostInv, RowInv, AgentInv, Network \/ Agent
    PROVE  RowInv' /\ AgentInv'
<1> USE CommandAssumption
<1>1. ASSUME UNCHANGED <<status, queueing, hb, offered, inbox, runs>>,
             job' \in Job, job'.cmd \in {job.cmd, NoCommand},
             job'.step \in {"start", "ping", "ready"} =>
                 job'.cmd = job.cmd /\ job.step \in {"start", "ping", "ready"},
             \/ UNCHANGED queue
             \/ queue # <<>> /\ queue' = Tail(queue),
             \A m \in posts' : \E n \in posts : m.cmd = n.cmd
      PROVE  RowInv' /\ AgentInv'
  <2>1. \A c \in Command : (\A i \in 1 .. Len(queue) : queue[i].cmd # c)
                       => (\A i \in 1 .. Len(queue') : queue'[i].cmd # c)
    BY <1>1, QueueSteps
  <2>2. inbox \in Seq(Command) /\ offered \subseteq Command
    BY DEF TypeOK
  <2>3. RowInv'
    BY <1>1, <2>1 DEF RowInv, Unhanded
  <2>4. AgentInv'
    BY <1>1, <2>2 DEF AgentInv
  <2> QED
    BY <2>3, <2>4
<1>2. ASSUME NEW m \in posts
      PROVE  m.cmd \in Command /\ m.what \in Verdicts \cup {"running"}
  BY DEF TypeOK, Post
<1>3. ASSUME NEW m \in posts, NEW ok \in BOOLEAN, Answer(m, ok),
             UNCHANGED <<offered, inbox, runs>>
      PROVE  /\ job' \in Job /\ job'.cmd \in {job.cmd, NoCommand}
             /\ job'.step \in {"start", "ping", "ready"} =>
                   job'.cmd = job.cmd /\ job.step \in {"start", "ping", "ready"}
             /\ \/ UNCHANGED queue
                \/ queue # <<>> /\ queue' = Tail(queue)
  <2>1. job \in Job
    BY DEF TypeOK
  <2>2. CASE m.by = "worker" /\ m.what = "running"
    BY <1>3, <2>1, <2>2 DEF Answer, PostInv, Job
  <2>3. CASE m.by = "worker" /\ m.what # "running"
    BY <1>3, <2>1, <2>3 DEF Answer, IdleJob, Job
  <2>4. CASE m.by # "worker"
    BY <1>3, <2>1, <2>4 DEF Answer, Posted
  <2> QED
    BY <2>2, <2>3, <2>4
<1>4. ASSUME NEW m \in posts, ResultRead(m) PROVE RowInv' /\ AgentInv'
  <2>1. [m EXCEPT !.step = "read", !.seen = status[m.cmd]].cmd = m.cmd
    BY DEF TypeOK, Post
  <2>2. \A p \in posts' : \E n \in posts : p.cmd = n.cmd
    BY <1>4, <2>1 DEF ResultRead
  <2>3. UNCHANGED <<status, queueing, hb, offered, inbox, runs>>
    BY <1>4 DEF ResultRead, server, hist
  <2>4. (UNCHANGED <<job, queue>>) \/ Answer(m, TRUE)
    BY <1>4 DEF ResultRead
  <2> QED
    BY <1>1, <1>3, <2>2, <2>3, <2>4 DEF TypeOK
<1>5. ASSUME NEW m \in posts, ResultCommit(m) PROVE RowInv' /\ AgentInv'
  <2>1. CASE ~Present(m.cmd)
    BY <1>1, <1>3, <1>5, <2>1 DEF ResultCommit, hist
  <2>2. CASE Present(m.cmd)
    <3>1. /\ \A c \in Command \ {m.cmd} : status'[c] = status[c]
          /\ status[m.cmd] \notin Unhanded /\ status'[m.cmd] \notin Unhanded
      BY <1>2, <1>5, <2>2 DEF ResultCommit, TypeOK, RowInv, Unhanded, Verdicts
    <3>2. m.cmd \notin queueing \cup hb.picked \cup hb.expired
      BY <2>2, <3>1 DEF RowInv, Unhanded, Present
    <3>3. \A c \in Command : (\A i \in 1 .. Len(queue) : queue[i].cmd # c)
                         => (\A i \in 1 .. Len(queue') : queue'[i].cmd # c)
      BY <1>3, <1>5, <2>2, QueueSteps DEF ResultCommit, hist
    <3>4. /\ queueing \subseteq Command /\ hb.picked \subseteq Command
          /\ hb.expired \subseteq Command /\ inbox \in Seq(Command)
          /\ offered \subseteq Command
      BY DEF TypeOK, Hb
    <3>5. /\ job'.cmd \in {job.cmd, NoCommand}
          /\ job'.step \in {"start", "ping", "ready"} =>
                job'.cmd = job.cmd /\ job.step \in {"start", "ping", "ready"}
      BY <1>3, <1>5, <2>2 DEF ResultCommit, hist
    <3>6. posts' \subseteq posts
      BY <1>5 DEF ResultCommit
    <3>9. UNCHANGED <<queueing, hb, offered, inbox, runs>>
      BY <1>5 DEF ResultCommit, hist
    <3>10. \A c \in Command : status'[c] \in Unhanded =>
              status[c] \in Unhanded /\ status'[c] = status[c]
      BY <3>1
    <3>11. /\ \A c \in queueing \cup hb.picked \cup hb.expired : status'[c] = status[c]
           /\ \A n \in posts' : status'[n.cmd] \notin Unhanded
      <4>1. \A n \in posts' : n.cmd \in Command /\ status[n.cmd] \notin Unhanded
        BY <1>2, <3>6 DEF RowInv
      <4> QED
        BY <3>1, <3>2, <3>4, <4>1
    <3>12. \A c \in Command : job'.cmd = c => job.cmd = c
      BY <3>5
    <3>7. RowInv'
      BY <3>3, <3>9, <3>10, <3>11, <3>12 DEF RowInv
    <3>8. AgentInv'
      BY <1>5, <3>4, <3>5 DEF ResultCommit, hist, AgentInv
    <3> QED
      BY <3>7, <3>8
  <2> QED
    BY <2>1, <2>2
<1>6. ASSUME NEW m \in posts, ResultLost(m) PROVE RowInv' /\ AgentInv'
  BY <1>1, <1>3, <1>6 DEF ResultLost, server, hist
<1>7. ASSUME NEW m \in posts, ResultTimeout(m) PROVE RowInv' /\ AgentInv'
  <2>1. [m EXCEPT !.by = "nobody"].cmd = m.cmd
    BY DEF TypeOK, Post
  <2> QED
    BY <1>1, <1>3, <1>7, <2>1 DEF ResultTimeout, server, hist
<1>8. CASE HeartbeatTimeout
  <2>1. /\ hb'.picked = hb.picked /\ hb'.orphans = hb.orphans
        /\ hb'.expired = hb.expired
    BY <1>8, HbRecord DEF HeartbeatTimeout, TypeOK
  <2> QED
    BY <1>8, <2>1 DEF HeartbeatTimeout, rows, hist, RowInv, AgentInv
<1>9. CASE PollStart \/ PollEnd
  BY <1>1, <1>9 DEF PollStart, PollEnd, server, hist, TypeOK
<1>10. CASE FlushQueue
  <2>1. CASE queue = <<>>
    BY <1>1, <1>10, <2>1 DEF FlushQueue, server, hist, TypeOK
  <2>2. CASE queue # <<>>
    <3>1. Head(queue).cmd \in Command /\ status[Head(queue).cmd] \notin Unhanded
      BY <2>2, QueueSteps, SeqSteps DEF RowInv, TypeOK
    <3>2. Request(Head(queue).cmd, Head(queue).verdict, "loop").cmd = Head(queue).cmd
      BY DEF Request
    <3> QED
      BY <1>10, <2>2, <3>1, <3>2 DEF FlushQueue, server, hist, RowInv, AgentInv
  <2> QED
    BY <2>1, <2>2
<1>11. ASSUME NEW c \in Command, Accept(c) PROVE RowInv' /\ AgentInv'
  <2>1. CASE UNCHANGED inbox
    BY <1>11, <2>1 DEF Accept, server, hist, RowInv, AgentInv
  <2>2. CASE inbox' = Append(inbox, c)
    <3>1. /\ Len(inbox') = Len(inbox) + 1 /\ inbox'[Len(inbox) + 1] = c
          /\ \A i \in 1 .. Len(inbox) : inbox'[i] = inbox[i]
          /\ Len(inbox) \in Nat
      BY <2>2, SeqSteps DEF TypeOK
    <3>2. \A i \in 1 .. Len(inbox') : i \in 1 .. Len(inbox) \/ inbox'[i] = c
      BY <3>1
    <3>3. c \in offered /\ offered' = offered \ {c}
      BY <1>11 DEF Accept
    <3>4. UNCHANGED <<server, posts, job, queue, runs>>
      BY <1>11 DEF Accept, hist
    <3>5. RowInv'
      BY <3>1, <3>2, <3>3, <3>4 DEF server, RowInv
    <3>6. AgentInv'
      BY <3>1, <3>2, <3>3, <3>4 DEF AgentInv
    <3> QED
      BY <3>5, <3>6
  <2> QED
    BY <1>11, <2>1, <2>2 DEF Accept
<1>12. CASE TakeCommand
  <2>1. /\ Len(inbox) \in Nat \ {0} /\ Head(inbox) = inbox[1]
        /\ inbox[1] \in Command
        /\ Len(inbox') = Len(inbox) - 1
        /\ \A i \in 1 .. Len(inbox) - 1 : inbox'[i] = inbox[i + 1]
    BY <1>12, SeqSteps, InboxSteps DEF TakeCommand, TypeOK
  <2>2. \/ UNCHANGED job
        \/ job' = [cmd |-> inbox[1], step |-> "start", verdict |-> "none"]
    BY <1>12, <2>1 DEF TakeCommand
  <2>3. UNCHANGED <<server, posts, offered, queue, runs>>
    BY <1>12 DEF TakeCommand, hist
  <2>4. \A i \in 1 .. Len(inbox') : /\ i + 1 \in 1 .. Len(inbox)
                                    /\ inbox'[i] = inbox[i + 1] /\ i + 1 # 1
    BY <2>1
  <2>5. 1 \in 1 .. Len(inbox)
    BY <2>1
  <2>6. RowInv'
    BY <2>2, <2>3, <2>4, <2>5 DEF server, RowInv
  <2>7. AgentInv'
    <3>1. \A i \in 1 .. Len(inbox') : inbox'[i] # inbox[1]
      BY <2>4, <2>5 DEF AgentInv
    <3>2. \A i, j \in 1 .. Len(inbox') : inbox'[i] = inbox'[j] => i = j
      <4>1. \A i, j \in 1 .. Len(inbox') : inbox'[i] = inbox'[j] => i + 1 = j + 1
        BY <2>4 DEF AgentInv
      <4> QED
        BY <4>1, <2>1
    <3>3. \A i \in 1 .. Len(inbox') :
             inbox'[i] \notin offered /\ inbox'[i] # job.cmd /\ runs[inbox'[i]] = 0
      BY <2>4 DEF AgentInv
    <3> QED
      BY <2>2, <2>3, <2>5, <3>1, <3>2, <3>3 DEF AgentInv
  <2> QED
    BY <2>6, <2>7
<1>13. ASSUME NEW w, NEW b,
             UNCHANGED <<status, queueing, hb, offered, inbox, runs, queue>>,
             job.step # "idle", job'.cmd = job.cmd,
             job'.step \in {"start", "ping", "ready"} => job.step \in {"start", "ping", "ready"},
             posts' = posts \cup {Request(job.cmd, w, b)}
      PROVE  RowInv' /\ AgentInv'
  <2>1. job.cmd \in Command /\ status[job.cmd] \notin Unhanded
    BY <1>13, JobIsCommand DEF RowInv
  <2>2. Request(job.cmd, w, b).cmd = job.cmd
    BY DEF Request
  <2> QED
    BY <1>13, <2>1, <2>2 DEF RowInv, AgentInv
<1>14. CASE Refuse \/ ReportRunning \/ \E v \in Verdicts : Finish(v)
  <2>1. /\ job'.cmd = job.cmd /\ job.step # "idle"
        /\ job'.step \in {"start", "ping", "ready"} => job.step \in {"start", "ping", "ready"}
    <3>1. job \in Job
      BY DEF TypeOK
    <3>2. CASE Refuse
      BY <3>1, <3>2 DEF Refuse, Job
    <3>3. CASE ReportRunning
      BY <3>1, <3>3 DEF ReportRunning, Job
    <3>4. ASSUME NEW v \in Verdicts, Finish(v)
          PROVE  job'.cmd = job.cmd /\ job.step = "execute" /\ job'.step = "post"
      BY <3>1, <3>4 DEF Finish, Job
    <3> QED
      BY <1>14, <3>2, <3>3, <3>4
  <2> QED
    BY <1>13, <1>14, <2>1 DEF Refuse, ReportRunning, Finish, server, hist
<1>15. CASE Run
  <2>1. job.step \in {"start", "ready"} /\ job.cmd \in Command
    BY <1>15, JobIsCommand DEF Run
  <2>2. /\ runs' = [runs EXCEPT ![job.cmd] = 1]
        /\ job'.cmd = job.cmd /\ job'.step = "execute"
    <3>1. job \in Job /\ runs[job.cmd] = 0
      BY <2>1 DEF TypeOK, AgentInv
    <3> QED
      BY <1>15, <3>1 DEF Run, Job
  <2>3. status[job.cmd] \notin Unhanded
    BY <2>1 DEF RowInv
  <2>4. inbox \in Seq(Command) /\ offered \subseteq Command /\ runs \in [Command -> Nat]
    BY DEF TypeOK
  <2>5. UNCHANGED <<server, posts, offered, inbox, queue>>
    BY <1>15 DEF Run
  <2>6. RowInv'
    BY <2>1, <2>2, <2>3, <2>4, <2>5 DEF server, RowInv
  <2>7. AgentInv'
    <3>1. \A i \in 1 .. Len(inbox) : inbox[i] \in Command
      BY <2>4
    <3> QED
      BY <2>1, <2>2, <2>4, <2>5, <3>1 DEF AgentInv
  <2> QED
    BY <2>6, <2>7
<1>16. CASE Enqueue
  <2>1. job.cmd \in Command /\ status[job.cmd] \notin Unhanded
    BY <1>16, JobIsCommand DEF Enqueue, RowInv
  <2>2. [cmd |-> job.cmd, verdict |-> job.verdict] \in Item
    BY <1>16, <2>1 DEF Enqueue, JobInv, Item
  <2>3. /\ MadeRoom \in Seq(Item)
        /\ \A c \in Command : (\A i \in 1 .. Len(queue) : queue[i].cmd # c)
                          => (\A i \in 1 .. Len(MadeRoom) : MadeRoom[i].cmd # c)
    <3>1. CASE Len(queue) < QueueMax
      BY <3>1 DEF MadeRoom, TypeOK
    <3>2. CASE ~(Len(queue) < QueueMax)
      <4>1. queue # <<>>
        BY <3>2 DEF TypeOK
      <4> QED
        BY <3>2, <4>1, SeqSteps DEF MadeRoom, TypeOK
    <3> QED
      BY <3>1, <3>2
  <2>4. \A c \in Command \ {job.cmd} :
             (\A i \in 1 .. Len(queue) : queue[i].cmd # c)
             => (\A i \in 1 .. Len(queue') : queue'[i].cmd # c)
    <3>1. CASE queue' = MadeRoom
      BY <2>3, <3>1
    <3>2. CASE queue' = Append(MadeRoom, [cmd |-> job.cmd, verdict |-> job.verdict])
      BY <2>2, <2>3, <3>2, SeqSteps
    <3> QED
      BY <1>16, <3>1, <3>2 DEF Enqueue
  <2>5. /\ job' = IdleJob /\ UNCHANGED <<server, posts, offered, inbox, runs>>
    BY <1>16 DEF Enqueue
  <2>6. inbox \in Seq(Command) /\ offered \subseteq Command
    BY DEF TypeOK
  <2>7. RowInv'
    BY <2>1, <2>4, <2>5 DEF server, IdleJob, RowInv
  <2>8. AgentInv'
    BY <2>5, <2>6 DEF IdleJob, AgentInv
  <2> QED
    BY <2>7, <2>8
<1>17. CASE Restart
  <2>1. \A m \in posts' : \E n \in posts : m.cmd = n.cmd
    BY <1>17 DEF Restart, TypeOK, Post
  <2>2. /\ hb'.picked = hb.picked /\ hb'.orphans = hb.orphans
        /\ hb'.expired = hb.expired
    BY <1>17, HbRecord DEF Restart, TypeOK
  <2>3. /\ UNCHANGED <<status, queueing, runs, queue>>
        /\ offered' = {} /\ inbox' = <<>> /\ job' = IdleJob
    BY <1>17 DEF Restart, rows
  <2>4. 1 .. Len(<<>>) = {}
    OBVIOUS
  <2>5. RowInv'
    BY <2>1, <2>2, <2>3, <2>4 DEF RowInv, IdleJob
  <2>6. AgentInv'
    BY <2>3, <2>4 DEF AgentInv, IdleJob
  <2> QED
    BY <2>5, <2>6
<1> QED
  BY <1>4, <1>5, <1>6, <1>7, <1>8, <1>9, <1>10, <1>11, <1>12, <1>14, <1>15,
     <1>16, <1>17 DEF Network, Agent

-----------------------------------------------------------------------------
\* The inductive invariant holds before anything was asked of the poste.
LEMMA Start == Init => IInv
<1> SUFFICES ASSUME Init PROVE IInv
  OBVIOUS
<1> USE CommandAssumption DEF Init
<1>1. TypeOK
  <2>1. now \in Time /\ hb \in Hb /\ job \in Job
    BY DEF Time, Hb, FreeHb, Job, IdleJob
  <2>2. /\ status \in [Command -> Statuses] /\ createdAt \in [Command -> Time \cup {Null}]
        /\ deliveredAt \in [Command -> Time \cup {Null}]
        /\ finishedAt \in [Command -> Time \cup {Null}]
    BY DEF Statuses
  <2>3. inbox \in Seq(Command) /\ queue \in Seq(Item)
    OBVIOUS
  <2> QED
    BY <2>1, <2>2, <2>3 DEF TypeOK
<1>2. Len(inbox) = 0 /\ Len(queue) = 0 /\ 1 .. 0 = {}
  OBVIOUS
<1> QED
  BY <1>1, <1>2 DEF IInv, JobInv, RowInv, AgentInv, PostInv, IdleJob, FreeHb, Unhanded

\* The inductive invariant holds in every reachable state.
LEMMA Invariant == Spec => []IInv
<1>1. IInv /\ [Next]_vars => IInv'
  <2> SUFFICES ASSUME IInv, [Next]_vars PROVE IInv'
    OBVIOUS
  <2> USE DEF IInv
  <2>1. TypeOK'
    BY TypeStep
  <2>2. JobInv' /\ PostInv'
    BY <2>1, WorkerStep
  <2>3. RowInv' /\ AgentInv'
    <3>1. CASE Server
      BY <3>1, ServerStep
    <3>2. CASE Network \/ Agent
      BY <3>2, PosteStep
    <3>3. CASE UNCHANGED vars
      BY <3>3 DEF vars, server, agent, hist, RowInv, AgentInv
    <3> QED
      BY <3>1, <3>2, <3>3 DEF Next
  <2> QED
    BY <2>1, <2>2, <2>3
<1> QED
  BY Start, <1>1, PTL DEF Spec

\* Every variable keeps its type: in particular a row's status stays in the enum,
\* and what the agent holds in memory, in flight and on disk are known commands.
THEOREM TypeCorrect == Spec => []TypeOK
<1>1. IInv => TypeOK
  BY DEF IInv
<1> QED
  BY Invariant, <1>1, PTL

\* A poste never runs a command twice, whatever is lost, late or restarted: from
\* the heartbeat that hands a row out once, to the worker that takes it once.
THEOREM NoSecondRun == Spec => []AtMostOnce
<1>1. IInv => AtMostOnce
  BY DEF IInv, AgentInv, AtMostOnce
<1> QED
  BY Invariant, <1>1, PTL

\* A command the poste has started is never shown as queued or as expired: the
\* sweep and the heartbeat's own expiry only touch rows nobody holds.
THEOREM NoRunUnseen == Spec => []NeverRunUnseen
<1>1. IInv => NeverRunUnseen
  BY DEF IInv, TypeOK, RowInv, NeverRunUnseen, Unhanded
<1> QED
  BY Invariant, <1>1, PTL

-----------------------------------------------------------------------------
(* The verdicts: the copies of one verdict agree, on the poste, in flight, *)
(* and on the row.                                                         *)

\* Every copy of a verdict says what the poste concluded, and a command not
\* concluded yet is nowhere taken for one that was.
VerdictInv ==
    /\ \A m \in posts : m.what # "running" => outcome[m.cmd] = m.what
    /\ \A i \in 1 .. Len(queue) : queue[i].verdict = outcome[queue[i].cmd]
    /\ job.step \in {"post", "save"} => job.verdict = outcome[job.cmd]
    /\ job.step \in {"start", "ping", "ready", "execute"} => outcome[job.cmd] = "none"
    /\ job.step = "execute" => runs[job.cmd] = 1
    /\ \A c \in offered : outcome[c] = "none"
    /\ \A i \in 1 .. Len(inbox) : outcome[inbox[i]] = "none"
    /\ \A c \in Command : status[c] \in Unhanded => outcome[c] = "none"
    /\ \A c \in Command : outcome[c] = "succeeded" => runs[c] = 1

\* A deployment failed by the server is nowhere on its way to being run.
Elsewhere(c) ==
    /\ c \notin offered /\ job.cmd # c /\ runs[c] = 0
    /\ \A i \in 1 .. Len(inbox) : inbox[i] # c
    /\ \A m \in posts : m.cmd # c

OrphanInv ==
    /\ hb.orphans \subseteq orphaned
    /\ \A c \in Command :
        /\ status[c] = "succeeded" => outcome[c] = "succeeded"
        /\ status[c] = "failed" => \/ outcome[c] = "failed"
                                   \/ outcome[c] = "none" /\ c \in orphaned /\ Elsewhere(c)

\* What the answer to a request changes at its sender: the ping lets the worker
\* run, a delivered result leaves the agent, one that is not is saved.
LEMMA AnswerSteps ==
    ASSUME TypeOK, JobInv, PostInv, NEW m \in posts, NEW ok \in BOOLEAN, Answer(m, ok)
    PROVE  /\ \/ job' = job
              \/ /\ job.step = "ping" /\ job'.step = "ready"
                 /\ job'.cmd = job.cmd /\ job'.verdict = job.verdict
              \/ /\ job.step = "post" /\ job' = IdleJob
                 /\ ok /\ m.what # "running" /\ job.cmd = m.cmd
              \/ /\ job.step = "post" /\ job'.step = "save"
                 /\ job'.cmd = job.cmd /\ job'.verdict = job.verdict
           /\ \/ queue' = queue
              \/ /\ queue # <<>> /\ queue' = Tail(queue)
                 /\ ok /\ Head(queue) = [cmd |-> m.cmd, verdict |-> m.what]
<1>1. job \in Job
  BY DEF TypeOK
<1>2. CASE m.by = "worker" /\ m.what = "running"
  BY <1>1, <1>2 DEF Answer, PostInv, Job
<1>3. CASE m.by = "worker" /\ m.what # "running"
  BY <1>1, <1>3 DEF Answer, PostInv, Job
<1>4. CASE m.by # "worker"
  BY <1>1, <1>4 DEF Answer, Posted
<1> QED
  BY <1>2, <1>3, <1>4

\* What a step of a result request changes: the row it is about, and what its
\* sender does with the answer.  A sender told that a result was delivered lets go
\* of it, and then the row holds a verdict, or was purged.
Recorded(c) == finishedAt[c] # Null \/ status[c] = "purged"
ResultMove(m) == ResultRead(m) \/ ResultCommit(m) \/ ResultLost(m) \/ ResultTimeout(m)

LEMMA ResultSteps ==
    ASSUME IInv, NEW m \in posts, ResultMove(m)
    PROVE  /\ UNCHANGED <<now, createdAt, deliveredAt, orphaned, queueing, hb,
                          strayHb, offered, inbox, runs, outcome, forgotten>>
           /\ m.cmd \in Command /\ m.what \in Verdicts \cup {"running"}
           /\ \A n \in posts' : \E p \in posts : n.cmd = p.cmd /\ n.what = p.what
           /\ \A c \in Command \ {m.cmd} :
                 status'[c] = status[c] /\ finishedAt'[c] = finishedAt[c]
           /\ \/ status'[m.cmd] = status[m.cmd]
              \/ status'[m.cmd] = m.what /\ Present(m.cmd)
           /\ \/ finishedAt'[m.cmd] = finishedAt[m.cmd] /\ status'[m.cmd] \notin Verdicts
              \/ finishedAt'[m.cmd] = finishedAt[m.cmd] /\ status'[m.cmd] = status[m.cmd]
              \/ finishedAt'[m.cmd] # Null
           /\ \/ job' = job
              \/ /\ job.step = "ping" /\ job'.step = "ready"
                 /\ job'.cmd = job.cmd /\ job'.verdict = job.verdict
              \/ /\ job.step = "post" /\ job' = IdleJob
                 /\ job.cmd = m.cmd /\ Recorded(m.cmd)'
              \/ /\ job.step = "post" /\ job'.step = "save"
                 /\ job'.cmd = job.cmd /\ job'.verdict = job.verdict
           /\ \/ queue' = queue
              \/ /\ queue # <<>> /\ queue' = Tail(queue)
                 /\ Head(queue).cmd = m.cmd /\ Recorded(m.cmd)'
<1> USE DEF IInv
<1>1. m \in Post
  BY DEF TypeOK
<1>2. m.cmd \in Command /\ m.what \in Verdicts \cup {"running"}
  BY <1>1 DEF Post
<1>3. now # Null /\ status[m.cmd] \notin Unhanded
  BY CommandAssumption DEF RowInv, TypeOK, Time, Null
<1>4. UNCHANGED <<now, createdAt, deliveredAt, orphaned, queueing, hb,
                  strayHb, offered, inbox, runs, outcome, forgotten>>
  BY DEF ResultMove, ResultRead, ResultCommit, ResultLost, ResultTimeout, server, rows, hist
<1>5. \A n \in posts' : \E p \in posts : n.cmd = p.cmd /\ n.what = p.what
  <2>1. /\ \A s \in Statuses : [m EXCEPT !.step = "read", !.seen = s].cmd = m.cmd
        /\ \A s \in Statuses : [m EXCEPT !.step = "read", !.seen = s].what = m.what
        /\ [m EXCEPT !.by = "nobody"].cmd = m.cmd
        /\ [m EXCEPT !.by = "nobody"].what = m.what
    BY <1>1 DEF Post
  <2>2. status[m.cmd] \in Statuses
    BY <1>2 DEF TypeOK
  <2> QED
    BY <2>1, <2>2 DEF ResultMove, ResultRead, ResultCommit, ResultLost, ResultTimeout
<1>6. CASE ResultCommit(m) /\ Present(m.cmd)
  <2>1. finishedAt \in [Command -> Time \cup {Null}] /\ status \in [Command -> Statuses]
    BY DEF TypeOK
  <2>2. /\ status' = IF m.seen = m.what THEN status ELSE [status EXCEPT ![m.cmd] = m.what]
        /\ finishedAt' = IF m.what = "running" THEN finishedAt
                                               ELSE [finishedAt EXCEPT ![m.cmd] = now]
        /\ Answer(m, TRUE)
    BY <1>6 DEF ResultCommit
  <2>3. /\ \A c \in Command \ {m.cmd} :
                 status'[c] = status[c] /\ finishedAt'[c] = finishedAt[c]
        /\ status'[m.cmd] = status[m.cmd] \/ status'[m.cmd] = m.what
        /\ m.what # "running" => finishedAt'[m.cmd] # Null
        /\ m.what = "running" =>
               /\ finishedAt'[m.cmd] = finishedAt[m.cmd]
               /\ status'[m.cmd] \notin Verdicts \/ status'[m.cmd] = status[m.cmd]
    BY <1>2, <1>3, <2>1, <2>2 DEF Verdicts
  <2>4. Head(queue) = [cmd |-> m.cmd, verdict |-> m.what] =>
            Head(queue).cmd = m.cmd /\ (queue # <<>> => m.what # "running")
    BY QueueSteps DEF Verdicts
  <2> QED
    BY <1>2, <1>4, <1>5, <1>6, <2>2, <2>3, <2>4, AnswerSteps DEF Recorded
<1>7. CASE ~(ResultCommit(m) /\ Present(m.cmd))
  <2>1. UNCHANGED <<status, finishedAt>>
    BY <1>7 DEF ResultMove, ResultRead, ResultCommit, ResultLost, ResultTimeout, server
  <2>2. \/ UNCHANGED <<job, queue>>
        \/ Answer(m, FALSE)
        \/ /\ Answer(m, TRUE)
           /\ ~(Present(m.cmd) /\ ~(m.what = "running" /\ status[m.cmd] \in Terminal))
    BY <1>7 DEF ResultMove, ResultRead, ResultCommit, ResultLost, ResultTimeout
  <2>3. ~Present(m.cmd) => status'[m.cmd] = "purged"
    BY <1>3, <2>1 DEF Present, Unhanded
  <2>4. Head(queue) = [cmd |-> m.cmd, verdict |-> m.what] =>
            Head(queue).cmd = m.cmd /\ (queue # <<>> => m.what # "running")
    BY QueueSteps DEF Verdicts
  <2> QED
    BY <1>2, <1>4, <1>5, <2>1, <2>2, <2>3, <2>4, AnswerSteps DEF Recorded
<1> QED
  BY <1>6, <1>7

\* The verdicts are untouched by a step of the server that leaves the poste and its
\* requests alone and gives no row a verdict.
LEMMA VerdictQuiet ==
    ASSUME IInv, VerdictInv, OrphanInv, VerdictKept,
           UNCHANGED <<finishedAt, posts, offered, inbox, job, queue, hist>>,
           orphaned \subseteq orphaned', hb'.orphans \subseteq orphaned',
           \A c \in Command : \/ status'[c] = status[c]
                              \/ status'[c] = "purged"
                              \/ /\ status[c] \in Unhanded
                                 /\ status'[c] \in {"pending", "expired"}
    PROVE  VerdictInv' /\ OrphanInv' /\ VerdictKept'
<1>1. VerdictInv'
  BY DEF VerdictInv, hist, Unhanded
<1>2. OrphanInv'
  BY DEF OrphanInv, Elsewhere, hist
<1>3. VerdictKept'
  BY DEF VerdictKept, HeldVerdict, VerdictInv, hist, Unhanded
<1> QED
  BY <1>1, <1>2, <1>3

\* No step of the server changes a verdict but the failure of a deployment whose
\* package is gone, which the poste never heard of.
LEMMA VerdictServer ==
    ASSUME IInv, VerdictInv, OrphanInv, VerdictKept, Server
    PROVE  VerdictInv' /\ OrphanInv' /\ VerdictKept'
<1> USE DEF IInv
<1>1. CASE Tick \/ \E live \in BOOLEAN : HeartbeatRead(live)
  <2>1. hb'.orphans \subseteq orphaned
    BY <1>1 DEF Tick, HeartbeatRead, OrphanInv
  <2> QED
    BY <1>1, <2>1, VerdictQuiet DEF Tick, HeartbeatRead, rows, agent, hist
<1>2. CASE Sweep \/ Purge
  BY <1>2, VerdictQuiet DEF Sweep, Swept, Stale, Purge, Expendable, OrphanInv, Unhanded, agent, hist
<1>3. ASSUME NEW c \in Command, CreateCheck(c) \/ CreateAbort(c) \/ DeletePackage(c)
      PROVE  VerdictInv' /\ OrphanInv' /\ VerdictKept'
  <2>1. hb'.orphans \subseteq orphaned' /\ orphaned \subseteq orphaned'
    BY <1>3 DEF CreateCheck, CreateAbort, DeletePackage, OrphanInv
  <2> QED
    BY <1>3, <2>1, VerdictQuiet DEF CreateCheck, CreateAbort, DeletePackage, rows, agent, hist
<1>4. ASSUME NEW c \in Command, CreateCommit(c)
      PROVE  VerdictInv' /\ OrphanInv' /\ VerdictKept'
  <2>1. status[c] = "none" /\ status'[c] = "pending"
    BY <1>4 DEF CreateCommit, Swept, RowInv, TypeOK
  <2>2. \A d \in Command \ {c} :
           \/ status'[d] = status[d]
           \/ status[d] = "pending" /\ status'[d] = "expired"
    BY <1>4 DEF CreateCommit, Swept, Stale
  <2> QED
    BY <1>4, <2>1, <2>2, VerdictQuiet DEF CreateCommit, OrphanInv, Unhanded, agent, hist
<1>5. CASE HeartbeatAbort
  <2>1. hb'.orphans \subseteq orphaned
    BY <1>5 DEF HeartbeatAbort, FreeHb
  <2> QED
    BY <1>5, <2>1, VerdictQuiet DEF HeartbeatAbort, rows, hist
<1>6. CASE HeartbeatCommit
  <2>1. /\ hb.picked \subseteq Command /\ hb.expired \subseteq Command
        /\ \A c \in hb.picked \cup hb.expired : status[c] \in Unhanded
    BY <1>6 DEF HeartbeatCommit, Present, RowInv, TypeOK, Hb, Unhanded
  <2>2. \A c \in Command :
           \/ status'[c] = status[c] /\ finishedAt'[c] = finishedAt[c]
           \/ /\ status[c] \in Unhanded /\ finishedAt'[c] = finishedAt[c]
              /\ status'[c] \in {"delivered", "expired"}
           \/ /\ status[c] \in Unhanded /\ c \in hb.orphans
              /\ status'[c] = "failed"
    BY <1>6, <2>1 DEF HeartbeatCommit, HeartbeatStatus, HandedOut, RowInv
  <2>3. UNCHANGED <<posts, inbox, job, queue, runs, outcome, forgotten, orphaned>>
    BY <1>6 DEF HeartbeatCommit, hist
  <2>4. \A c \in offered' : c \in offered \/ c \in hb.picked \ hb.orphans
    BY <1>6 DEF HeartbeatCommit, HandedOut
  <2>5. \A c \in hb.picked : outcome[c] = "none"
    BY <2>1 DEF VerdictInv
  <2>6. VerdictInv'
    BY <2>2, <2>3, <2>4, <2>5 DEF VerdictInv, Unhanded
  <2>7. \A c \in hb.orphans : outcome[c] = "none" /\ c \in orphaned /\ Elsewhere(c)'
    <3>1. \A m \in posts : status[m.cmd] \notin Unhanded
      BY DEF RowInv
    <3> QED
      BY <2>1, <2>3, <2>4, <2>5, <3>1 DEF OrphanInv, RowInv, Elsewhere
  <2>8. \A c \in Command : Elsewhere(c) /\ status[c] = "failed" => Elsewhere(c)'
    BY <2>1, <2>3, <2>4 DEF Elsewhere, Unhanded
  <2>9. OrphanInv'
    <3>1. hb'.orphans = {}
      BY <1>6 DEF HeartbeatCommit, FreeHb
    <3> QED
      BY <2>2, <2>3, <2>7, <2>8, <3>1 DEF OrphanInv
  <2>10. VerdictKept'
    BY <2>2, <2>3 DEF VerdictKept, HeldVerdict, VerdictInv, Unhanded
  <2> QED
    BY <2>6, <2>9, <2>10
<1> QED
  BY <1>1, <1>2, <1>3, <1>4, <1>5, <1>6 DEF Server

\* A step of a result request writes on its row the verdict every copy agrees on.
LEMMA VerdictResult ==
    ASSUME IInv, VerdictInv, OrphanInv, VerdictKept, NEW m \in posts, ResultMove(m)
    PROVE  VerdictInv' /\ OrphanInv' /\ VerdictKept'
<1>1. m.cmd \in Command /\ m.what \in Verdicts \cup {"running"} /\ status[m.cmd] \notin Unhanded
  BY ResultSteps DEF IInv, RowInv
<1>2. UNCHANGED <<orphaned, hb, offered, inbox, runs, outcome, forgotten>>
  BY ResultSteps
<1>3. \A n \in posts' : \E p \in posts : n.cmd = p.cmd /\ n.what = p.what
  BY ResultSteps
<1>4. /\ \A c \in Command \ {m.cmd} : status'[c] = status[c] /\ finishedAt'[c] = finishedAt[c]
      /\ status'[m.cmd] = status[m.cmd] \/ (status'[m.cmd] = m.what /\ Present(m.cmd))
      /\ finishedAt'[m.cmd] = finishedAt[m.cmd] \/ finishedAt'[m.cmd] # Null
  BY ResultSteps
<1>5. \/ job' = job
      \/ /\ job.step = "ping" /\ job'.step = "ready"
         /\ job'.cmd = job.cmd /\ job'.verdict = job.verdict
      \/ /\ job.step = "post" /\ job' = IdleJob
         /\ job.cmd = m.cmd /\ Recorded(m.cmd)'
      \/ /\ job.step = "post" /\ job'.step = "save"
         /\ job'.cmd = job.cmd /\ job'.verdict = job.verdict
  BY ResultSteps
<1>6. \/ queue' = queue
      \/ /\ queue # <<>> /\ queue' = Tail(queue)
         /\ Head(queue).cmd = m.cmd /\ Recorded(m.cmd)'
  BY ResultSteps
<1>7. \A i \in 1 .. Len(queue') : \E k \in 1 .. Len(queue) : queue'[i] = queue[k]
  BY <1>6, QueueSteps DEF IInv
<1>8. VerdictInv'
  <2>1. \A c \in Command : status'[c] \in Unhanded => status[c] \in Unhanded
    BY <1>1, <1>4 DEF Unhanded, Verdicts
  <2> QED
    BY <1>2, <1>3, <1>5, <1>7, <2>1 DEF VerdictInv, IdleJob
<1>9. OrphanInv'
  <2>1. job'.cmd \in {job.cmd, NoCommand} /\ NoCommand \notin Command
    BY <1>5, CommandAssumption DEF IdleJob
  <2>2. \A c \in Command : Elsewhere(c) => Elsewhere(c)'
    BY <1>2, <1>3, <2>1 DEF Elsewhere
  <2>3. ~Elsewhere(m.cmd)
    BY DEF Elsewhere
  <2>4. m.what # "running" => outcome[m.cmd] = m.what
    BY DEF VerdictInv
  <2> QED
    BY <1>1, <1>2, <1>4, <2>2, <2>3, <2>4 DEF OrphanInv, Verdicts
<1>10. VerdictKept'
  <2> SUFFICES ASSUME NEW c \in Command, outcome[c] # "none", c \notin forgotten,
                      ~Recorded(c)'
               PROVE  HeldVerdict(c)'
    BY <1>2 DEF VerdictKept, Recorded
  <2>1. ~Recorded(c)
    BY <1>1, <1>4 DEF Recorded, Present
  <2>2. HeldVerdict(c)
    BY <2>1 DEF VerdictKept, Recorded
  <2>3. CASE job.cmd = c /\ job.verdict = outcome[c]
    BY <1>2, <1>5, <2>3 DEF HeldVerdict, IdleJob
  <2>4. CASE [cmd |-> c, verdict |-> outcome[c]] \in ToSet(queue)
    <3>1. queue \in Seq(Item)
      BY DEF IInv, TypeOK
    <3>2. PICK i \in 1 .. Len(queue) : queue[i] = [cmd |-> c, verdict |-> outcome[c]]
      BY <2>4, <3>1 DEF ToSet
    <3>3. queue' = queue \/ (queue' = Tail(queue) /\ queue # <<>> /\ i # 1)
      BY <1>6, <3>1, <3>2
    <3>4. \E k \in 1 .. Len(queue') : queue'[k] = queue[i]
      <4>1. CASE queue' = queue
        BY <4>1
      <4>2. CASE queue' = Tail(queue) /\ queue # <<>> /\ i # 1
        <5>1. i - 1 \in 1 .. Len(queue') /\ queue'[i - 1] = queue[i]
          BY <3>1, <4>2
        <5> QED
          BY <5>1
      <4> QED
        BY <3>3, <4>1, <4>2
    <3>5. queue' \in Seq(Item)
      BY <3>1, <3>3
    <3> QED
      BY <1>2, <3>2, <3>4, <3>5 DEF HeldVerdict, ToSet
  <2> QED
    BY <2>2, <2>3, <2>4 DEF HeldVerdict
<1> QED
  BY <1>8, <1>9, <1>10

\* A step of the agent, other than a conclusion, that keeps each command where it
\* was, or forgets it before it was concluded.
LEMMA VerdictCarried ==
    ASSUME IInv, VerdictInv, OrphanInv, VerdictKept,
           UNCHANGED <<server, queue, outcome, runs, forgotten>>,
           \A n \in posts' : \/ \E p \in posts : n.cmd = p.cmd /\ n.what = p.what
                             \/ /\ n.what # "running" => n.what = outcome[n.cmd]
                                /\ status[n.cmd] \notin Unhanded /\ n.cmd \in Command
                                /\ outcome[n.cmd] = "none" => n.cmd = job.cmd,
           offered' \subseteq offered,
           \A i \in 1 .. Len(inbox') : \/ inbox'[i] \in offered
                                       \/ \E k \in 1 .. Len(inbox) : inbox'[i] = inbox[k],
           \/ UNCHANGED job
           \/ /\ job'.cmd = job.cmd /\ job'.verdict = job.verdict
              /\ job.step \in {"start", "ping", "ready"}
              /\ job'.step \in {"start", "ping", "ready"}
           \/ /\ job.step = "idle" /\ job'.step = "start"
              /\ \E k \in 1 .. Len(inbox) : job'.cmd = inbox[k]
    PROVE  VerdictInv' /\ OrphanInv' /\ VerdictKept'
<1>1. VerdictInv'
  BY DEF VerdictInv, server, rows
<1>2. OrphanInv'
  <2>1. \A c \in Command : outcome[c] = "none" /\ Elsewhere(c) => Elsewhere(c)'
    <3> SUFFICES ASSUME NEW c \in Command, outcome[c] = "none", Elsewhere(c)
                 PROVE  Elsewhere(c)'
      OBVIOUS
    <3>1. \A m \in posts' : m.cmd # c
      BY DEF Elsewhere
    <3> QED
      BY <3>1 DEF Elsewhere
  <2> QED
    BY <2>1 DEF OrphanInv, server, rows
<1>3. VerdictKept'
  <2>1. ASSUME NEW c \in Command, outcome[c] # "none",
               job.cmd = c, job.verdict = outcome[c]
        PROVE  job'.cmd = c /\ job'.verdict = outcome[c]
    BY <2>1, CommandAssumption DEF VerdictInv, IInv, JobInv
  <2> QED
    BY <2>1 DEF VerdictKept, HeldVerdict, server, rows
<1> QED
  BY <1>1, <1>2, <1>3

\* What the worker concludes goes into its job and into its request, and nowhere else.
LEMMA VerdictConcluded ==
    ASSUME IInv, VerdictInv, OrphanInv, VerdictKept, NEW v \in Verdicts,
           job.step \in {"start", "execute"},
           v = "succeeded" => runs[job.cmd] = 1,
           job' = [job EXCEPT !.step = "post", !.verdict = v],
           outcome' = [outcome EXCEPT ![job.cmd] = v],
           posts' = posts \cup {Request(job.cmd, v, "worker")},
           UNCHANGED <<server, offered, inbox, queue, runs, forgotten>>
    PROVE  VerdictInv' /\ OrphanInv' /\ VerdictKept'
<1> USE DEF IInv
<1>1. job.cmd \in Command /\ status[job.cmd] \notin Unhanded /\ outcome[job.cmd] = "none"
  BY JobIsCommand DEF RowInv, VerdictInv
<1>2. /\ outcome'[job.cmd] = v /\ outcome \in [Command -> Verdicts \cup {"none"}]
      /\ \A c \in Command \ {job.cmd} : outcome'[c] = outcome[c]
  BY <1>1 DEF TypeOK
<1>3. job'.cmd = job.cmd /\ job'.step = "post" /\ job'.verdict = v
  BY DEF TypeOK, Job
<1>4. \A n \in posts' : n \in posts \/ (n.cmd = job.cmd /\ n.what = v)
  BY DEF Request
<1>5. \A m \in posts : m.cmd \in Command /\ (m.what # "running" => m.cmd # job.cmd)
  BY <1>1 DEF TypeOK, Post, VerdictInv, Verdicts
<1>6. /\ \A i \in 1 .. Len(queue) : queue[i].cmd \in Command /\ queue[i].cmd # job.cmd
      /\ \A i \in 1 .. Len(inbox) : inbox[i] \in Command /\ inbox[i] # job.cmd
      /\ \A c \in offered : c \in Command /\ c # job.cmd
  <2>1. queue \in Seq(Item) /\ inbox \in Seq(Command) /\ offered \subseteq Command
    BY DEF TypeOK
  <2>2. \A i \in 1 .. Len(queue) : queue[i].cmd \in Command /\ queue[i].verdict \in Verdicts
    <3>1. \A i \in 1 .. Len(queue) : queue[i] \in Item
      BY <2>1
    <3> QED
      BY <3>1 DEF Item
  <2> QED
    BY <1>1, <2>1, <2>2 DEF VerdictInv, AgentInv, Verdicts
<1>7. VerdictInv'
  BY <1>1, <1>2, <1>3, <1>4, <1>5, <1>6 DEF VerdictInv, server, rows, Verdicts
<1>8. OrphanInv'
  <2>1. \A c \in Command : Elsewhere(c) => Elsewhere(c)' /\ c # job.cmd
    BY <1>3, <1>4 DEF Elsewhere
  <2>2. status[job.cmd] \notin {"succeeded", "failed"}
    BY <1>1, <2>1 DEF OrphanInv
  <2> QED
    BY <1>2, <2>1, <2>2 DEF OrphanInv, server, rows
<1>9. VerdictKept'
  BY <1>1, <1>2, <1>3 DEF VerdictKept, HeldVerdict, server, rows
<1> QED
  BY <1>7, <1>8, <1>9

\* The same, of each step of the agent, and of a heartbeat given up.
LEMMA VerdictAgent ==
    ASSUME IInv, VerdictInv, OrphanInv, VerdictKept, HeartbeatTimeout \/ Agent
    PROVE  VerdictInv' /\ OrphanInv' /\ VerdictKept'
<1> USE DEF IInv
<1>1. CASE HeartbeatTimeout
  <2>1. hb'.orphans \subseteq orphaned
    BY <1>1, HbRecord DEF HeartbeatTimeout, TypeOK, OrphanInv
  <2> QED
    BY <1>1, <2>1, VerdictQuiet DEF HeartbeatTimeout, rows, hist
<1>2. CASE PollStart \/ PollEnd
  BY <1>2, VerdictCarried DEF PollStart, PollEnd, hist
<1>3. CASE FlushQueue
  <2>1. CASE queue = <<>>
    BY <1>3, <2>1, VerdictCarried DEF FlushQueue, hist
  <2>2. CASE queue # <<>>
    <3>1. Head(queue) = queue[1] /\ 1 \in 1 .. Len(queue) /\ Head(queue).cmd \in Command
      BY <2>2, QueueSteps, SeqSteps DEF TypeOK
    <3>2. /\ Head(queue).verdict = outcome[Head(queue).cmd]
          /\ status[Head(queue).cmd] \notin Unhanded
          /\ Head(queue).verdict \in Verdicts
      BY <2>2, <3>1, QueueSteps DEF VerdictInv, RowInv
    <3> DEFINE r == Request(Head(queue).cmd, Head(queue).verdict, "loop")
    <3>3. /\ posts' = posts \cup {r} /\ r.cmd = Head(queue).cmd
          /\ r.what = Head(queue).verdict
      BY <1>3, <2>2, <3>1, <3>2, RequestRecord DEF FlushQueue
    <3> HIDE DEF r
    <3> QED
      BY <1>3, <3>1, <3>2, <3>3, VerdictCarried DEF FlushQueue, hist, Verdicts
  <2> QED
    BY <2>1, <2>2
<1>4. ASSUME NEW c \in Command, Accept(c) PROVE VerdictInv' /\ OrphanInv' /\ VerdictKept'
  <2>1. \A i \in 1 .. Len(inbox') : \/ inbox'[i] \in offered
                                    \/ \E k \in 1 .. Len(inbox) : inbox'[i] = inbox[k]
    <3>1. CASE inbox' = inbox
      BY <3>1
    <3>2. CASE inbox' = Append(inbox, c)
      BY <1>4, <3>2, SeqSteps DEF Accept, TypeOK
    <3> QED
      BY <1>4, <3>1, <3>2 DEF Accept
  <2> QED
    BY <1>4, <2>1, VerdictCarried DEF Accept, hist
<1>5. CASE TakeCommand
  <2>1. /\ Head(inbox) = inbox[1] /\ 1 \in 1 .. Len(inbox)
        /\ \A i \in 1 .. Len(inbox') : i + 1 \in 1 .. Len(inbox) /\ inbox'[i] = inbox[i + 1]
    <3>1. inbox \in Seq(Command) /\ inbox # <<>> /\ inbox' = Tail(inbox)
      BY <1>5 DEF TakeCommand, TypeOK
    <3> QED
      BY <3>1
  <2> QED
    BY <1>5, <2>1, VerdictCarried DEF TakeCommand, hist
<1>6. CASE Refuse
  BY <1>6, VerdictConcluded DEF Refuse, Verdicts
<1>7. CASE ReportRunning
  <2>1. /\ job'.cmd = job.cmd /\ job'.verdict = job.verdict
        /\ job.step = "start" /\ job'.step = "ping"
    BY <1>7 DEF ReportRunning, TypeOK, Job
  <2>2. job.cmd \in Command /\ status[job.cmd] \notin Unhanded
    BY <2>1, JobIsCommand DEF RowInv
  <2> DEFINE r == Request(job.cmd, "running", "worker")
  <2>3. posts' = posts \cup {r} /\ r.cmd = job.cmd /\ r.what = "running"
    BY <1>7, <2>2, RequestRecord DEF ReportRunning
  <2> HIDE DEF r
  <2> QED
    BY <1>7, <2>1, <2>2, <2>3, VerdictCarried DEF ReportRunning, hist
<1>8. CASE Run
  <2>1. /\ job.step \in {"start", "ready"} /\ job'.step = "execute"
        /\ job'.cmd = job.cmd /\ job'.verdict = job.verdict
    BY <1>8 DEF Run, TypeOK, Job
  <2>2. job.cmd \in Command /\ runs[job.cmd] = 0 /\ outcome[job.cmd] = "none"
    BY <2>1, JobIsCommand DEF AgentInv, VerdictInv
  <2>3. runs' = [runs EXCEPT ![job.cmd] = 1] /\ runs \in [Command -> Nat]
    BY <1>8, <2>2 DEF Run, TypeOK
  <2>4. UNCHANGED <<server, posts, offered, inbox, queue, outcome, forgotten>>
    BY <1>8 DEF Run
  <2>5. VerdictInv'
    BY <2>1, <2>2, <2>3, <2>4 DEF VerdictInv, server, rows
  <2>6. OrphanInv'
    <3>1. \A d \in Command : Elsewhere(d) => Elsewhere(d)'
      BY <2>1, <2>2, <2>3, <2>4 DEF Elsewhere
    <3> QED
      BY <2>4, <3>1 DEF OrphanInv, server, rows
  <2>7. VerdictKept'
    BY <2>1, <2>4 DEF VerdictKept, HeldVerdict, server, rows
  <2> QED
    BY <2>5, <2>6, <2>7
<1>9. ASSUME NEW v \in Verdicts, Finish(v) PROVE VerdictInv' /\ OrphanInv' /\ VerdictKept'
  BY <1>9, VerdictConcluded DEF Finish, VerdictInv
<1>10. CASE Enqueue
  <2> DEFINE item == [cmd |-> job.cmd, verdict |-> job.verdict]
  <2>1. item \in Item /\ job.cmd \in Command /\ job.verdict = outcome[job.cmd]
    BY <1>10, JobIsCommand DEF Enqueue, JobInv, VerdictInv, Item
  <2>2. queue \in Seq(Item) /\ (Len(queue) >= QueueMax => queue # <<>>)
    BY CommandAssumption DEF TypeOK
  <2>3. /\ MadeRoom \in Seq(Item)
        /\ \A i \in 1 .. Len(MadeRoom) : \E k \in 1 .. Len(queue) : MadeRoom[i] = queue[k]
        /\ \A k \in 1 .. Len(queue) : \/ queue[k].cmd \in Dropped
                                      \/ \E i \in 1 .. Len(MadeRoom) : MadeRoom[i] = queue[k]
    <3>1. CASE Len(queue) < QueueMax
      BY <2>2, <3>1 DEF MadeRoom, Dropped
    <3>2. CASE ~(Len(queue) < QueueMax)
      <4>1. queue # <<>> /\ MadeRoom = Tail(queue) /\ Dropped = {queue[1].cmd}
        BY <2>2, <3>2, CommandAssumption DEF MadeRoom, Dropped
      <4>2. \A i \in 1 .. Len(MadeRoom) : i + 1 \in 1 .. Len(queue) /\ MadeRoom[i] = queue[i + 1]
        BY <2>2, <4>1
      <4>3. \A k \in 1 .. Len(queue) :
               k = 1 \/ (k - 1 \in 1 .. Len(MadeRoom) /\ MadeRoom[k - 1] = queue[k])
        BY <2>2, <4>1
      <4> QED
        BY <2>2, <4>1, <4>2, <4>3
    <3> QED
      BY <3>1, <3>2
  <2>4. /\ job' = IdleJob /\ forgotten \cup Dropped \subseteq forgotten'
        /\ UNCHANGED <<server, posts, offered, inbox, runs, outcome>>
    BY <1>10 DEF Enqueue
  <2>5. \/ queue' = Append(MadeRoom, item)
        \/ queue' = MadeRoom /\ job.cmd \in forgotten'
    BY <1>10 DEF Enqueue
  <2> HIDE DEF item
  <2>6. /\ queue' \in Seq(Item)
        /\ \A i \in 1 .. Len(queue') : \/ queue'[i] = item
                                       \/ \E k \in 1 .. Len(queue) : queue'[i] = queue[k]
        /\ \A k \in 1 .. Len(queue) : \/ queue[k].cmd \in forgotten'
                                      \/ \E i \in 1 .. Len(queue') : queue'[i] = queue[k]
        /\ job.cmd \in forgotten' \/ \E i \in 1 .. Len(queue') : queue'[i] = item
    <3>1. CASE queue' = MadeRoom /\ job.cmd \in forgotten'
      BY <2>3, <2>4, <3>1
    <3>2. CASE queue' = Append(MadeRoom, item)
      <4>1. /\ queue' \in Seq(Item) /\ Len(queue') = Len(MadeRoom) + 1
            /\ Len(MadeRoom) \in Nat
            /\ \A i \in 1 .. Len(MadeRoom) : queue'[i] = MadeRoom[i]
            /\ queue'[Len(MadeRoom) + 1] = item
        BY <2>1, <2>3, <3>2, SeqSteps
      <4>2. \A i \in 1 .. Len(queue') : i \in 1 .. Len(MadeRoom) \/ i = Len(MadeRoom) + 1
        BY <4>1
      <4>3. /\ Len(MadeRoom) + 1 \in 1 .. Len(queue')
            /\ \A i \in 1 .. Len(MadeRoom) : i \in 1 .. Len(queue')
        BY <4>1
      <4> QED
        BY <2>3, <2>4, <4>1, <4>2, <4>3
    <3> QED
      BY <2>5, <3>1, <3>2
  <2>7. item.cmd = job.cmd /\ item.verdict = job.verdict
    BY DEF item
  <2>8. VerdictInv'
    BY <2>1, <2>4, <2>6, <2>7 DEF VerdictInv, IdleJob, server, rows
  <2>9. OrphanInv'
    <3>1. \A c \in Command : Elsewhere(c) => Elsewhere(c)'
      BY <2>4, CommandAssumption DEF Elsewhere, IdleJob
    <3> QED
      BY <2>4, <3>1 DEF OrphanInv, server, rows
  <2>10. VerdictKept'
    <3> SUFFICES ASSUME NEW c \in Command, outcome[c] # "none", c \notin forgotten',
                        ~(finishedAt[c] # Null \/ status[c] = "purged")
                 PROVE  [cmd |-> c, verdict |-> outcome[c]] \in ToSet(queue')
      BY <2>4 DEF VerdictKept, HeldVerdict, server, rows
    <3>1. HeldVerdict(c)
      BY <2>4 DEF VerdictKept
    <3>2. \E i \in 1 .. Len(queue') : queue'[i] = [cmd |-> c, verdict |-> outcome[c]]
      <4>1. CASE job.cmd = c /\ job.verdict = outcome[c]
        BY <2>6, <4>1 DEF item
      <4>2. CASE [cmd |-> c, verdict |-> outcome[c]] \in ToSet(queue)
        <5>1. PICK k \in 1 .. Len(queue) : queue[k] = [cmd |-> c, verdict |-> outcome[c]]
          BY <2>2, <4>2 DEF ToSet
        <5> QED
          BY <2>6, <5>1
      <4> QED
        BY <3>1, <4>1, <4>2 DEF HeldVerdict
    <3> QED
      BY <2>6, <3>2 DEF ToSet
  <2> QED
    BY <2>8, <2>9, <2>10
<1>11. CASE Restart
  <2>1. \A m \in posts' : \E n \in posts : m.cmd = n.cmd /\ m.what = n.what
    BY <1>11 DEF Restart, TypeOK, Post
  <2>2. hb'.orphans = hb.orphans
    BY <1>11, HbRecord DEF Restart, TypeOK
  <2>3. /\ offered' = {} /\ inbox' = <<>> /\ job' = IdleJob
        /\ UNCHANGED <<rows, orphaned, queue, runs, outcome>>
        /\ forgotten \subseteq forgotten'
        /\ job.step \in {"post", "save"} => job.cmd \in forgotten'
    BY <1>11 DEF Restart
  <2>4. 1 .. Len(<<>>) = {}
    OBVIOUS
  <2>5. VerdictInv'
    BY <2>1, <2>3, <2>4 DEF VerdictInv, IdleJob, rows
  <2>6. OrphanInv'
    <3>1. \A c \in Command : Elsewhere(c) => Elsewhere(c)'
      BY <2>1, <2>3, <2>4, CommandAssumption DEF Elsewhere, IdleJob
    <3> QED
      BY <2>2, <2>3, <3>1 DEF OrphanInv, rows
  <2>7. VerdictKept'
    <3>1. \A c \in Command : outcome[c] # "none" /\ job.cmd = c => job.step \in {"post", "save"}
      BY CommandAssumption DEF VerdictInv, JobInv, TypeOK, Job
    <3> QED
      BY <2>3, <3>1 DEF VerdictKept, HeldVerdict, rows
  <2> QED
    BY <2>5, <2>6, <2>7
<1> QED
  BY <1>1, <1>2, <1>3, <1>4, <1>5, <1>6, <1>7, <1>8, <1>9, <1>10, <1>11 DEF Agent

\* The copies of a verdict agree in every reachable state.
LEMMA VerdictInvariant == Spec => [](VerdictInv /\ OrphanInv /\ VerdictKept)
<1>1. Init => VerdictInv /\ OrphanInv /\ VerdictKept
  BY DEF Init, VerdictInv, OrphanInv, VerdictKept, IdleJob, FreeHb
<1>2. IInv /\ VerdictInv /\ OrphanInv /\ VerdictKept /\ [Next]_vars
      => (VerdictInv /\ OrphanInv /\ VerdictKept)'
  <2> SUFFICES ASSUME IInv, VerdictInv, OrphanInv, VerdictKept, [Next]_vars
               PROVE  (VerdictInv /\ OrphanInv /\ VerdictKept)'
    OBVIOUS
  <2>1. CASE UNCHANGED vars
    BY <2>1, VerdictQuiet DEF vars, server, rows, agent, OrphanInv
  <2>2. ASSUME NEW m \in posts, ResultMove(m) PROVE (VerdictInv /\ OrphanInv /\ VerdictKept)'
    BY <2>2, VerdictResult
  <2>3. CASE Server
    BY <2>3, VerdictServer
  <2>4. CASE HeartbeatTimeout \/ Agent
    BY <2>4, VerdictAgent
  <2> QED
    BY <2>1, <2>2, <2>3, <2>4 DEF Next, Network, ResultMove
<1> QED
  BY <1>1, <1>2, Invariant, PTL DEF Spec

\* What the console shows as succeeded was run, once, and succeeded on the poste;
\* what it shows as failed failed there, or is a deployment whose package was gone
\* when the heartbeat came for it, and that one is never run.
THEOREM TruthfulVerdicts == Spec => []VerdictTruthful
<1>1. VerdictInv /\ OrphanInv => VerdictTruthful
  BY DEF VerdictInv, OrphanInv, Elsewhere, VerdictTruthful
<1> QED
  BY VerdictInvariant, <1>1, PTL

\* A verdict reached on the poste is on the row, or the agent still holds it: an
\* answer or a server lost loses no result.
THEOREM KeptVerdicts == Spec => []VerdictKept
  BY VerdictInvariant, PTL

-----------------------------------------------------------------------------
(* De-duplication: one unanswered command of a type inside its TTL.        *)

\* A row past its TTL is never counted again, and a row with a verdict is answered:
\* what a heartbeat, or a late `running`, makes of them revives neither.
RowsSettled ==
    /\ \A c \in Command : status[c] = "expired" => ExpiresAt(c) < now
    /\ \A c \in hb.expired : ExpiresAt(c) < now
    /\ hb.step = "picked" => hb.at # Null
    /\ \A c \in Command : status[c] \in Verdicts => finishedAt[c] # Null

\* One request at a time passed the check, and what it found stays true until it commits.
AskedAlone ==
    /\ IsFiniteSet(queueing)
    /\ \A c, d \in queueing : c = d
    /\ \A c \in queueing, d \in Command :
          c # d /\ TypeOf[c] = TypeOf[d] => ~Unanswered(d)
    /\ OneLivePerType

\* A step that makes no command unanswered, and lets no request through the check.
LEMMA NoneRevived ==
    ASSUME AskedAlone, TypeOK, queueing' \subseteq queueing,
           \A c \in Command : Unanswered(c)' => Unanswered(c)
    PROVE  AskedAlone'
<1>1. IsFiniteSet(queueing')
  BY FS_Subset DEF AskedAlone
<1>2. queueing \subseteq Command
  BY DEF TypeOK
<1> QED
  BY <1>1, <1>2 DEF AskedAlone, OneLivePerType

\* The instants are numbers, and an expiry is a sum of two.
LEMMA Instants ==
    ASSUME TypeOK
    PROVE  /\ now \in Nat /\ now # Null /\ Ttl \in Nat
           /\ \A c \in Command : createdAt[c] \in Nat /\ ExpiresAt(c) \in Nat
<1>1. now \in Nat /\ now # Null /\ \A c \in Command : createdAt[c] \in Nat
  BY DEF TypeOK, Time, Null
<1> QED
  BY <1>1, CommandAssumption DEF ExpiresAt

LEMMA SettledStep ==
    ASSUME IInv, RowsSettled, [Next]_vars
    PROVE  RowsSettled'
<1> USE DEF IInv
<1>1. /\ now \in Nat /\ now # Null /\ Ttl \in Nat
      /\ \A c \in Command : createdAt[c] \in Nat /\ ExpiresAt(c) \in Nat
  BY Instants
<1>2. hb.expired \subseteq Command /\ hb.picked \subseteq Command /\ queueing \subseteq Command
  BY DEF TypeOK, Hb
<1>3. ASSUME UNCHANGED <<now, createdAt, status, finishedAt>>,
             hb'.expired = hb.expired, hb'.at = hb.at, hb'.step = hb.step
      PROVE  RowsSettled'
  BY <1>3 DEF RowsSettled, ExpiresAt
<1>4. CASE Tick
  BY <1>1, <1>2, <1>4 DEF Tick, RowsSettled, ExpiresAt, rows
<1>5. CASE Sweep
  BY <1>2, <1>5 DEF Sweep, Swept, Stale, RowsSettled, ExpiresAt, Verdicts
<1>6. CASE Purge
  BY <1>2, <1>6 DEF Purge, RowsSettled, ExpiresAt, Verdicts
<1>7. ASSUME NEW c \in Command, CreateCheck(c) \/ CreateAbort(c) PROVE RowsSettled'
  <2>1. status[c] = "none" /\ \A d \in Command \ {c} : createdAt'[d] = createdAt[d]
    BY <1>7 DEF CreateCheck, CreateAbort, RowInv, TypeOK
  <2>2. c \notin hb.expired /\ UNCHANGED <<now, status, finishedAt, hb>>
    BY <1>7, <2>1 DEF CreateCheck, CreateAbort, RowInv
  <2> QED
    BY <1>2, <2>1, <2>2 DEF RowsSettled, ExpiresAt
<1>8. ASSUME NEW c \in Command, CreateCommit(c) PROVE RowsSettled'
  <2>1. status'[c] = "pending"
    BY <1>8 DEF CreateCommit, Swept, TypeOK
  <2>2. \A d \in Command \ {c} : status'[d] = IF d \in Stale THEN "expired" ELSE status[d]
    BY <1>8 DEF CreateCommit, Swept
  <2> QED
    BY <1>2, <1>8, <2>1, <2>2 DEF CreateCommit, Stale, RowsSettled, ExpiresAt, Verdicts
<1>9. ASSUME NEW c \in Command, DeletePackage(c) PROVE RowsSettled'
  BY <1>3, <1>9 DEF DeletePackage, rows
<1>10. ASSUME NEW live \in BOOLEAN, HeartbeatRead(live) PROVE RowsSettled'
  BY <1>1, <1>10 DEF HeartbeatRead, Stale, RowsSettled, ExpiresAt, rows
<1>11. CASE HeartbeatCommit
  BY <1>2, <1>11 DEF HeartbeatCommit, HeartbeatStatus, HandedOut, FreeHb, RowInv,
                     RowsSettled, ExpiresAt, Verdicts
<1>12. CASE HeartbeatAbort
  BY <1>12 DEF HeartbeatAbort, FreeHb, RowsSettled, ExpiresAt, rows
<1>13. CASE HeartbeatTimeout \/ Restart
  <2>1. hb'.expired = hb.expired /\ hb'.at = hb.at /\ hb'.step = hb.step
    BY <1>13 DEF HeartbeatTimeout, Restart, TypeOK, Hb
  <2> QED
    BY <1>3, <1>13, <2>1 DEF HeartbeatTimeout, Restart, rows
<1>14. ASSUME NEW m \in posts, ResultMove(m) PROVE RowsSettled'
  <2>1. /\ UNCHANGED <<now, createdAt, hb>> /\ m.cmd \in Command
        /\ m.what \in Verdicts \cup {"running"}
        /\ \A c \in Command \ {m.cmd} :
              status'[c] = status[c] /\ finishedAt'[c] = finishedAt[c]
        /\ status'[m.cmd] = status[m.cmd] \/ status'[m.cmd] = m.what
        /\ \/ finishedAt'[m.cmd] = finishedAt[m.cmd] /\ status'[m.cmd] \notin Verdicts
           \/ finishedAt'[m.cmd] = finishedAt[m.cmd] /\ status'[m.cmd] = status[m.cmd]
           \/ finishedAt'[m.cmd] # Null
    BY <1>14, ResultSteps
  <2> QED
    BY <2>1 DEF RowsSettled, ExpiresAt, Verdicts
<1>15. CASE (Agent /\ ~Restart) \/ UNCHANGED vars
  BY <1>3, <1>15 DEF Agent, PollStart, FlushQueue, PollEnd, Accept, TakeCommand, Refuse,
       ReportRunning, Run, Enqueue, Finish, vars, server, rows
<1> QED
  BY <1>4, <1>5, <1>6, <1>7, <1>8, <1>9, <1>10, <1>11, <1>12, <1>13, <1>14, <1>15
  DEF Next, Server, Network, Agent, ResultMove

\* With one creation at a time, only its commit makes a command unanswered, and
\* no other command of its type is.
LEMMA AloneStep ==
    ASSUME Admins = 1, IInv, RowsSettled, AskedAlone, [Next]_vars
    PROVE  AskedAlone'
<1> USE DEF IInv
<1>1. /\ now \in Nat /\ now # Null /\ Ttl \in Nat
      /\ \A c \in Command : createdAt[c] \in Nat /\ ExpiresAt(c) \in Nat
  BY Instants
<1>2. hb.expired \subseteq Command /\ hb.picked \subseteq Command /\ queueing \subseteq Command
  BY DEF TypeOK, Hb
<1>3. ASSUME UNCHANGED <<now, createdAt, status, finishedAt, queueing>>
      PROVE  AskedAlone'
  BY <1>3, NoneRevived DEF Unanswered, ExpiresAt
<1>4. CASE Tick
  BY <1>1, <1>4, NoneRevived DEF Tick, Unanswered, ExpiresAt, rows
<1>5. CASE Sweep \/ Purge
  BY <1>5, NoneRevived DEF Sweep, Swept, Purge, Unanswered, ExpiresAt, Open
<1>6. ASSUME NEW c \in Command, CreateCheck(c) PROVE AskedAlone'
  <2>1. queueing = {} /\ queueing' = {c}
    <3>1. Cardinality(queueing) \in Nat /\ Cardinality(queueing) < 1
      BY <1>6, FS_CardinalityType DEF AskedAlone, CreateCheck
    <3>2. Cardinality(queueing) = 0
      BY <3>1
    <3>3. queueing = {}
      BY <3>2, FS_EmptySet DEF AskedAlone
    <3> QED
      BY <1>6, <3>3 DEF CreateCheck
  <2>2. IsFiniteSet(queueing')
    BY <2>1, FS_Singleton
  <2>3. status[c] = "none" /\ \A d \in Command \ {c} : createdAt'[d] = createdAt[d]
    BY <1>6 DEF CreateCheck, TypeOK
  <2>4. \A d \in Command : Unanswered(d)' => d # c /\ Unanswered(d)
    BY <1>6, <2>3 DEF CreateCheck, Unanswered, ExpiresAt, Open
  <2>5. \A d \in Command : TypeOf[c] = TypeOf[d] => ~Unanswered(d)
    BY <1>6 DEF CreateCheck, HoldsType, Unanswered
  <2> QED
    BY <2>1, <2>2, <2>4, <2>5 DEF AskedAlone, OneLivePerType
<1>7. ASSUME NEW c \in Command, CreateCommit(c) PROVE AskedAlone'
  <2>1. c \in queueing /\ queueing' = queueing \ {c}
    BY <1>7 DEF CreateCommit
  <2>2. queueing' = {} /\ IsFiniteSet(queueing')
    BY <2>1, FS_EmptySet DEF AskedAlone
  <2>3. \A d \in Command \ {c} : Unanswered(d)' => Unanswered(d)
    BY <1>7 DEF CreateCommit, Swept, Unanswered, ExpiresAt, Open
  <2>4. \A d \in Command : c # d /\ TypeOf[c] = TypeOf[d] => ~Unanswered(d)
    BY <2>1 DEF AskedAlone
  <2> QED
    BY <2>2, <2>3, <2>4 DEF AskedAlone, OneLivePerType
<1>8. ASSUME NEW c \in Command, CreateAbort(c) PROVE AskedAlone'
  <2>1. status[c] = "none" /\ \A d \in Command \ {c} : createdAt'[d] = createdAt[d]
    BY <1>8 DEF CreateAbort, RowInv, TypeOK
  <2>2. \A d \in Command : Unanswered(d)' => Unanswered(d)
    BY <1>8, <2>1 DEF CreateAbort, Unanswered, ExpiresAt, Open
  <2> QED
    BY <1>8, <2>2, NoneRevived DEF CreateAbort
<1>9. ASSUME NEW c \in Command, DeletePackage(c) PROVE AskedAlone'
  BY <1>3, <1>9 DEF DeletePackage, rows
<1>10. ASSUME NEW live \in BOOLEAN, HeartbeatRead(live) PROVE AskedAlone'
  BY <1>3, <1>10 DEF HeartbeatRead, rows
<1>11. CASE HeartbeatCommit
  <2>1. \A c \in hb.picked : \/ status[c] = "pending"
                             \/ ExpiresAt(c) < now
    BY <1>2, <1>11 DEF HeartbeatCommit, Present, RowInv, RowsSettled
  <2>2. \A c \in Command : finishedAt'[c] = Null => finishedAt[c] = Null \/ c \in hb.orphans
    BY <1>11 DEF HeartbeatCommit
  <2>3. \A c \in Command : Unanswered(c)' => Unanswered(c)
    <3> SUFFICES ASSUME NEW c \in Command, Unanswered(c)' PROVE Unanswered(c)
      OBVIOUS
    <3>1. /\ status'[c] \in Open /\ ExpiresAt(c) > now /\ finishedAt'[c] = Null
      BY <1>11 DEF HeartbeatCommit, Unanswered, ExpiresAt
    <3>2. c \notin hb.orphans /\ finishedAt[c] = Null /\ ~(ExpiresAt(c) < now)
      <4>1. c \in hb.orphans => status'[c] = "failed"
        BY <1>11 DEF HeartbeatCommit, HeartbeatStatus, HandedOut, RowInv
      <4>2. c \notin hb.orphans
        BY <3>1, <4>1 DEF Open
      <4>3. finishedAt[c] = Null
        BY <2>2, <3>1, <4>2
      <4>4. ~(ExpiresAt(c) < now)
        BY <1>1, <3>1
      <4> QED
        BY <4>2, <4>3, <4>4
    <3>3. status[c] \in Open
      BY <1>11, <2>1, <3>1, <3>2 DEF HeartbeatCommit, HeartbeatStatus, HandedOut, RowInv, Open
    <3> QED
      BY <3>1, <3>2, <3>3 DEF Unanswered
  <2> QED
    BY <1>11, <2>3, NoneRevived DEF HeartbeatCommit
<1>12. CASE HeartbeatAbort \/ HeartbeatTimeout \/ Restart
  BY <1>3, <1>12 DEF HeartbeatAbort, HeartbeatTimeout, Restart, rows
<1>13. ASSUME NEW m \in posts, ResultMove(m) PROVE AskedAlone'
  <2>1. /\ UNCHANGED <<now, createdAt, queueing>> /\ m.cmd \in Command
        /\ m.what \in Verdicts \cup {"running"}
        /\ \A c \in Command \ {m.cmd} :
              status'[c] = status[c] /\ finishedAt'[c] = finishedAt[c]
        /\ status'[m.cmd] = status[m.cmd] \/ (status'[m.cmd] = m.what /\ Present(m.cmd))
        /\ finishedAt'[m.cmd] = finishedAt[m.cmd] \/ finishedAt'[m.cmd] # Null
    BY <1>13, ResultSteps
  <2>2. status[m.cmd] \notin Unhanded /\ status[m.cmd] \in Statuses
    BY <2>1 DEF RowInv, TypeOK
  <2>3. status'[m.cmd] \in Open /\ finishedAt'[m.cmd] = Null => status[m.cmd] \in Open
    BY <2>1, <2>2 DEF RowsSettled, Statuses, Terminal, Verdicts, Open, Present, Unhanded
  <2>4. \A c \in Command : Unanswered(c)' => Unanswered(c)
    BY <2>1, <2>3 DEF Unanswered, ExpiresAt
  <2> QED
    BY <2>1, <2>4, NoneRevived
<1>14. CASE (Agent /\ ~Restart) \/ UNCHANGED vars
  BY <1>3, <1>14 DEF Agent, PollStart, FlushQueue, PollEnd, Accept, TakeCommand, Refuse,
       ReportRunning, Run, Enqueue, Finish, vars, server, rows
<1> QED
  BY <1>4, <1>5, <1>6, <1>7, <1>8, <1>9, <1>10, <1>11, <1>12, <1>13, <1>14
  DEF Next, Server, Network, Agent, ResultMove

\* With one administrator creating commands at a time, no poste has two unanswered
\* commands of one type inside their TTL.  (With two, both may pass the check.)
THEOREM NoDuplicate == ASSUME Admins = 1 PROVE Spec => []OneLivePerType
<1>1. Init => RowsSettled /\ AskedAlone
  BY FS_EmptySet DEF Init, RowsSettled, AskedAlone, OneLivePerType, Unanswered, FreeHb,
                     Verdicts, Open
<1>2. IInv /\ RowsSettled /\ AskedAlone /\ [Next]_vars => (RowsSettled /\ AskedAlone)'
  BY SettledStep, AloneStep
<1>3. AskedAlone => OneLivePerType
  BY DEF AskedAlone
<1> QED
  BY <1>1, <1>2, <1>3, Invariant, PTL DEF Spec

-----------------------------------------------------------------------------
(* The queue implements OnceOnly, step by step.                            *)

\* With no heartbeat under way, no row is read for one.
HbInv == hb.step = "free" => hb.picked = {}

\* Where a command that left the server is: its row no longer matters.
Fate(c) ==
    IF outcome[c] # "none" THEN "concluded"
    ELSE IF runs[c] > 0 THEN (IF job.cmd = c THEN "started" ELSE "given_up")
    ELSE IF OnPoste(c) THEN "held" ELSE "given_up"

\* The poste holds a command in the response, in the channel or in the worker.
LEMMA PosteHolds ==
    ASSUME TypeOK, NEW c \in Command
    PROVE  OnPoste(c) <=> \/ c \in offered \/ job.cmd = c
                          \/ \E i \in 1 .. Len(inbox) : inbox[i] = c
<1>1. inbox \in Seq(Command)
  BY DEF TypeOK
<1>2. ToSet(inbox) = {inbox[i] : i \in 1 .. Len(inbox)}
  BY <1>1 DEF ToSet
<1> QED
  BY <1>2 DEF OnPoste

\* A command's life is read on its row until it is handed out, then on the poste.
ReadOnRow(c) ==
    /\ status[c] \in Unhanded =>
          /\ Fate(c) = "given_up"
          /\ Life(c) = IF status[c] = "none" THEN "unasked"
                       ELSE IF status[c] = "pending" \/ c \in hb.picked
                       THEN "owed" ELSE "given_up"
    /\ status[c] \notin Unhanded => Life(c) = Fate(c)

LEMMA LifeIs == IInv /\ VerdictInv => \A c \in Command : ReadOnRow(c)
<1> SUFFICES ASSUME IInv, VerdictInv, NEW c \in Command PROVE ReadOnRow(c)
  OBVIOUS
<1>1. CASE status[c] \in Unhanded
  <2>1. outcome[c] = "none" /\ runs[c] = 0 /\ ~OnPoste(c)
    BY <1>1, PosteHolds DEF IInv, RowInv, VerdictInv
  <2> QED
    BY <1>1, <2>1 DEF ReadOnRow, Life, Fate, Owing, Present, Unhanded
<1>2. CASE status[c] \notin Unhanded
  <2>1. status[c] # "none" /\ ~Owing(c)
    BY <1>2 DEF IInv, RowInv, Owing, Present, Unhanded
  <2> QED
    BY <1>2, <2>1 DEF ReadOnRow, Life, Fate
<1> QED
  BY <1>1, <1>2

LEMMA LifeWillBe == (IInv /\ VerdictInv)' => (\A c \in Command : ReadOnRow(c))'
  BY LifeIs, PTL

\* A step that hands some owed commands over, and gives some others up.
LEMMA Handed ==
    ASSUME NEW S \in SUBSET Command,
           \A c \in S : Life(c) = "owed" /\ Life(c)' = "held",
           \A c \in Command \ S :
              \/ Life(c)' = Life(c)
              \/ Life(c) \in {"owed", "held", "started"} /\ Life(c)' = "given_up"
    PROVE  Promise!Next
<1> DEFINE lost == {c \in Command \ S : Life(c)' # Life(c)}
<1>1. lost \in SUBSET Promise!Losable
  BY DEF Promise!Losable, lives
<1>2. S \in SUBSET (Command \ lost)
  OBVIOUS
<1>3. Promise!HandOver(S, lost)
  BY DEF Promise!HandOver, Promise!Settle, lives
<1> QED
  BY <1>1, <1>2, <1>3 DEF Promise!Next

\* A step of the server that leaves the poste alone may give up rows not handed out.
LEMMA LifeOfRow ==
    ASSUME IInv, VerdictInv, IInv', VerdictInv',
           UNCHANGED <<offered, inbox, job, runs, outcome>>,
           NEW c \in Command,
           \/ status'[c] = status[c]
           \/ status[c] # "none" /\ status'[c] \notin Unhanded
           \/ status[c] = "pending" /\ status'[c] = "expired",
           c \in hb'.picked => c \in hb.picked \/ status[c] = "pending"
    PROVE  \/ Life(c)' = Life(c)
           \/ Life(c) \in {"owed", "held", "started"} /\ Life(c)' = "given_up"
<1>1. Fate(c)' = Fate(c)
  BY DEF Fate, OnPoste
<1>2. ReadOnRow(c) /\ ReadOnRow(c)'
  BY LifeIs, LifeWillBe
<1> QED
  BY <1>1, <1>2 DEF ReadOnRow, Unhanded

\* Each step of the server asks for one command, hands some over, or gives some up.
LEMMA ServerImplements ==
    ASSUME IInv, VerdictInv, IInv', VerdictInv', HbInv, Server
    PROVE  Promise!Next \/ UNCHANGED lives
<1> USE DEF IInv
<1>1. hb.expired \subseteq Command /\ hb.picked \subseteq Command
  BY DEF TypeOK, Hb
<1>2. ASSUME \A c \in Command :
                \/ Life(c)' = Life(c)
                \/ Life(c) \in {"owed", "held", "started"} /\ Life(c)' = "given_up"
      PROVE  Promise!Next
  <2>1. {} \in SUBSET Command
    OBVIOUS
  <2> QED
    BY <1>2, <2>1, Handed
<1>3. ASSUME UNCHANGED <<offered, inbox, job, runs, outcome, hb>>,
             \A c \in Command : \/ status'[c] = status[c]
                                \/ status[c] # "none" /\ status'[c] \notin Unhanded
                                \/ status[c] = "pending" /\ status'[c] = "expired"
      PROVE  Promise!Next
  BY <1>2, <1>3, LifeOfRow
<1>4. CASE Tick
  BY <1>3, <1>4 DEF Tick, rows, agent, hist
<1>5. CASE Sweep
  BY <1>3, <1>5 DEF Sweep, Swept, Stale, agent, hist
<1>6. CASE Purge
  BY <1>3, <1>6 DEF Purge, Expendable, Purgeable, Terminal, Verdicts, Unhanded, agent, hist
<1>7. ASSUME NEW c \in Command, CreateCheck(c) \/ CreateAbort(c) \/ DeletePackage(c)
      PROVE  Promise!Next
  BY <1>3, <1>7 DEF CreateCheck, CreateAbort, DeletePackage, rows, agent, hist
<1>8. ASSUME NEW c \in Command, CreateCommit(c) PROVE Promise!Next
  <2>1. status[c] = "none" /\ status'[c] = "pending"
    BY <1>8 DEF CreateCommit, Swept, RowInv, TypeOK
  <2>2. \A d \in Command \ {c} :
           status'[d] = status[d] \/ (status[d] = "pending" /\ status'[d] = "expired")
    BY <1>8 DEF CreateCommit, Swept, Stale
  <2>3. Life(c) = "unasked" /\ Life(c)' = "owed"
    BY <2>1, LifeIs, LifeWillBe DEF ReadOnRow, Unhanded
  <2>4. UNCHANGED <<offered, inbox, job, runs, outcome, hb>>
    BY <1>8 DEF CreateCommit, agent, hist
  <2>5. \A d \in Command \ {c} :
           \/ Life(d)' = Life(d)
           \/ Life(d) \in {"owed", "held", "started"} /\ Life(d)' = "given_up"
    BY <2>2, <2>4, LifeOfRow
  <2> DEFINE lost == {d \in Command \ {c} : Life(d)' # Life(d)}
  <2>6. lost \in SUBSET Promise!Losable
    BY <2>5 DEF Promise!Losable, lives
  <2>7. Promise!Ask(c, lost)
    BY <2>3, <2>5 DEF Promise!Ask, Promise!Settle, lives
  <2> QED
    BY <2>6, <2>7 DEF Promise!Next
<1>9. ASSUME NEW live \in BOOLEAN, HeartbeatRead(live) PROVE Promise!Next
  <2>1. hb.picked = {} /\ \A c \in hb'.picked : status[c] = "pending"
    BY <1>9 DEF HeartbeatRead, HbInv
  <2> QED
    BY <1>2, <1>9, <2>1, LifeOfRow DEF HeartbeatRead, rows, agent, hist
<1>10. CASE HeartbeatAbort
  <2>1. hb'.picked = {}
    BY <1>10 DEF HeartbeatAbort, FreeHb
  <2> QED
    BY <1>2, <1>10, <2>1, LifeOfRow DEF HeartbeatAbort, rows, hist
<1>11. CASE HeartbeatCommit
  <2>1. \A c \in Command :
           \/ /\ status'[c] = status[c] /\ c \notin HandedOut
              /\ status[c] \in Unhanded => c \notin hb.picked
           \/ /\ c \in hb.picked /\ status[c] \in Unhanded \ {"none"}
              /\ status'[c] \notin Unhanded
           \/ /\ c \notin HandedOut /\ status[c] = "pending" /\ status'[c] = "expired"
    BY <1>11 DEF HeartbeatCommit, HeartbeatStatus, HandedOut, Present, RowInv, Unhanded
  <2>2. hb'.picked = {} /\ UNCHANGED <<inbox, job, runs, outcome>>
    BY <1>11 DEF HeartbeatCommit, FreeHb, hist
  <2>3. CASE UNCHANGED offered
    BY <1>2, <2>1, <2>2, <2>3, LifeOfRow
  <2>4. CASE offered' = HandedOut
    <3>1. HandedOut \in SUBSET Command
      BY <1>1 DEF HandedOut
    <3>2. ASSUME NEW c \in HandedOut PROVE Life(c) = "owed" /\ Life(c)' = "held"
      <4>1. c \in Command /\ c \in hb.picked /\ status[c] \in Unhanded \ {"none"}
            /\ status'[c] \notin Unhanded
        BY <1>1, <2>1, <3>2 DEF HandedOut
      <4>2. Life(c) = "owed" /\ Life(c)' = Fate(c)'
        BY <4>1, LifeIs, LifeWillBe DEF ReadOnRow
      <4>3. outcome[c] = "none" /\ runs[c] = 0
        BY <4>1 DEF VerdictInv, RowInv
      <4>4. OnPoste(c)'
        BY <2>4, <3>2 DEF OnPoste
      <4> QED
        BY <2>2, <4>2, <4>3, <4>4 DEF Fate
    <3>3. ASSUME NEW c \in Command \ HandedOut
          PROVE  \/ Life(c)' = Life(c)
                 \/ Life(c) \in {"owed", "held", "started"} /\ Life(c)' = "given_up"
      <4>1. ReadOnRow(c) /\ ReadOnRow(c)'
        BY LifeIs, LifeWillBe
      <4>2. Fate(c)' = Fate(c) \/ (Fate(c) = "held" /\ Fate(c)' = "given_up")
        BY <2>2, <2>4 DEF Fate, OnPoste
      <4> QED
        BY <2>1, <2>2, <4>1, <4>2 DEF ReadOnRow, Unhanded
    <3> QED
      BY <3>1, <3>2, <3>3, Handed
  <2> QED
    BY <1>11, <2>3, <2>4 DEF HeartbeatCommit
<1> QED
  BY <1>4, <1>5, <1>6, <1>7, <1>8, <1>9, <1>10, <1>11 DEF Server

\* While its row stays as it is, a command's life follows the poste.
LEMMA LifeOnPoste ==
    ASSUME IInv, VerdictInv, IInv', VerdictInv', hb'.picked = hb.picked,
           NEW c \in Command,
           \/ status'[c] = status[c]
           \/ status[c] \notin Unhanded /\ status'[c] \notin Unhanded
    PROVE  /\ status[c] \in Unhanded =>
                  Life(c)' = Life(c) /\ Fate(c) = "given_up" /\ Fate(c)' = "given_up"
           /\ status[c] \notin Unhanded => Life(c) = Fate(c) /\ Life(c)' = Fate(c)'
<1>1. ReadOnRow(c) /\ ReadOnRow(c)'
  BY LifeIs, LifeWillBe
<1> QED
  BY <1>1 DEF ReadOnRow

\* A step of the poste, or of a request, that starts and concludes nothing.
LEMMA PosteCarries ==
    ASSUME IInv, VerdictInv, IInv', VerdictInv', hb'.picked = hb.picked,
           UNCHANGED <<runs, outcome>>,
           \A c \in Command :
              /\ \/ status'[c] = status[c]
                 \/ status[c] \notin Unhanded /\ status'[c] \notin Unhanded
              /\ OnPoste(c)' => OnPoste(c)
              /\ job'.cmd = c => job.cmd = c \/ runs[c] = 0
    PROVE  Promise!Next
<1>1. ASSUME NEW c \in Command
      PROVE  \/ Life(c)' = Life(c)
             \/ Life(c) \in {"owed", "held", "started"} /\ Life(c)' = "given_up"
  <2>1. \/ Fate(c)' = Fate(c)
        \/ Fate(c) \in {"held", "started"} /\ Fate(c)' = "given_up"
    BY DEF Fate
  <2> QED
    BY <2>1, LifeOnPoste
<1>2. {} \in SUBSET Command
  OBVIOUS
<1> QED
  BY <1>1, <1>2, Handed

\* A step in which the worker concludes the command it has, and nothing else moves.
LEMMA WorkerConcludes ==
    ASSUME IInv, VerdictInv, IInv', VerdictInv', NEW v \in Verdicts,
           job.step \in {"start", "execute"}, job'.cmd = job.cmd,
           outcome' = [outcome EXCEPT ![job.cmd] = v],
           UNCHANGED <<server, offered, inbox, runs>>
    PROVE  Promise!Next
<1>1. /\ job.cmd \in Command /\ status[job.cmd] \notin Unhanded /\ outcome[job.cmd] = "none"
      /\ outcome \in [Command -> Verdicts \cup {"none"}]
  BY JobIsCommand DEF IInv, RowInv, VerdictInv, TypeOK
<1>2. \A c \in Command : OnPoste(c)' <=> OnPoste(c)
  BY DEF OnPoste
<1>3. Fate(job.cmd) \in {"held", "started"} /\ Fate(job.cmd)' = "concluded"
  BY <1>1 DEF Fate, OnPoste, Verdicts
<1>4. \A c \in Command \ {job.cmd} : Fate(c)' = Fate(c)
  BY <1>1, <1>2 DEF Fate
<1>5. UNCHANGED <<status, hb>>
  BY DEF server, rows
<1>6. /\ Life(job.cmd) \in {"held", "started"} /\ Life(job.cmd)' = "concluded"
      /\ \A c \in Command \ {job.cmd} : Life(c)' = Life(c)
  BY <1>1, <1>3, <1>4, <1>5, LifeOnPoste
<1>7. Promise!Conclude(job.cmd)
  BY <1>1, <1>6 DEF Promise!Conclude, Promise!Settle, lives
<1> QED
  BY <1>1, <1>7 DEF Promise!Next

\* Each step of a request or of the agent starts a command no other is started with,
\* concludes one, or gives some up.
LEMMA PosteImplements ==
    ASSUME IInv, VerdictInv, IInv', VerdictInv', Network \/ Agent
    PROVE  Promise!Next
<1> USE DEF IInv
<1>1. ASSUME NEW m \in posts, ResultMove(m) PROVE Promise!Next
  <2>1. /\ UNCHANGED <<hb, offered, inbox, runs, outcome>>
        /\ m.cmd \in Command /\ m.what \in Verdicts \cup {"running"}
        /\ \A c \in Command \ {m.cmd} : status'[c] = status[c]
        /\ status'[m.cmd] = status[m.cmd] \/ status'[m.cmd] = m.what
        /\ job'.cmd = job.cmd \/ (job.step = "post" /\ job' = IdleJob)
    BY <1>1, ResultSteps
  <2>2. status[m.cmd] \notin Unhanded /\ m.what \notin Unhanded
    BY <2>1 DEF RowInv, Unhanded, Verdicts
  <2>3. \A c \in Command : job'.cmd = c => job.cmd = c
    BY <2>1, CommandAssumption DEF IdleJob
  <2>4. \A c \in Command : OnPoste(c)' => OnPoste(c)
    BY <2>1, <2>3 DEF OnPoste
  <2> QED
    BY <2>1, <2>2, <2>3, <2>4, PosteCarries
<1>2. CASE HeartbeatTimeout
  <2>1. hb'.picked = hb.picked
    BY <1>2, HbRecord DEF HeartbeatTimeout, TypeOK
  <2> QED
    BY <1>2, <2>1, PosteCarries DEF HeartbeatTimeout, rows, hist, OnPoste
<1>3. CASE PollStart \/ FlushQueue \/ PollEnd
  BY <1>3, PosteCarries DEF PollStart, FlushQueue, PollEnd, server, rows, hist, OnPoste
<1>4. ASSUME NEW c \in Command, Accept(c) PROVE Promise!Next
  <2>1. \A d \in Command : OnPoste(d)' => OnPoste(d)
    <3>1. \A d \in ToSet(inbox') : d = c \/ d \in ToSet(inbox)
      <4>1. CASE inbox' = inbox
        BY <4>1
      <4>2. CASE inbox' = Append(inbox, c)
        BY <4>2, SeqSteps DEF TypeOK, ToSet
      <4> QED
        BY <1>4, <4>1, <4>2 DEF Accept
    <3> QED
      BY <1>4, <3>1 DEF Accept, OnPoste
  <2> QED
    BY <1>4, <2>1, PosteCarries DEF Accept, server, rows, hist
<1>5. CASE TakeCommand
  <2>1. /\ Head(inbox) = inbox[1] /\ 1 \in 1 .. Len(inbox) /\ Head(inbox) \in ToSet(inbox)
        /\ \A d \in ToSet(inbox') : d \in ToSet(inbox)
    <3>1. inbox \in Seq(Command) /\ inbox # <<>> /\ inbox' = Tail(inbox)
      BY <1>5 DEF TakeCommand, TypeOK
    <3> QED
      BY <3>1 DEF ToSet
  <2>2. job'.cmd = job.cmd \/ job'.cmd = Head(inbox)
    BY <1>5 DEF TakeCommand
  <2>3. runs[Head(inbox)] = 0
    BY <2>1 DEF AgentInv
  <2>4. \A d \in Command : OnPoste(d)' => OnPoste(d)
    BY <1>5, <2>1, <2>2 DEF TakeCommand, OnPoste
  <2> QED
    BY <1>5, <2>2, <2>3, <2>4, PosteCarries DEF TakeCommand, server, rows, hist
<1>6. CASE Refuse
  BY <1>6, WorkerConcludes DEF Refuse, TypeOK, Job, Verdicts
<1>7. CASE ReportRunning
  <2>1. job'.cmd = job.cmd
    BY <1>7 DEF ReportRunning, TypeOK, Job
  <2> QED
    BY <1>7, <2>1, PosteCarries DEF ReportRunning, server, rows, hist, OnPoste
<1>8. CASE Run
  <2>1. /\ job.step \in {"start", "ready"} /\ job'.cmd = job.cmd
        /\ UNCHANGED <<server, offered, inbox, outcome>>
    BY <1>8 DEF Run, TypeOK, Job
  <2>2. /\ job.cmd \in Command /\ runs[job.cmd] = 0 /\ outcome[job.cmd] = "none"
        /\ status[job.cmd] \notin Unhanded
    BY <2>1, JobIsCommand DEF AgentInv, VerdictInv, RowInv
  <2>3. runs' = [runs EXCEPT ![job.cmd] = 1] /\ runs \in [Command -> Nat]
    BY <1>8, <2>2 DEF Run, TypeOK
  <2>4. Fate(job.cmd) = "held" /\ Fate(job.cmd)' = "started"
    BY <2>1, <2>2, <2>3 DEF Fate, OnPoste
  <2>5. \A c \in Command \ {job.cmd} :
           Fate(c)' = Fate(c) /\ Fate(c) # "started"
    BY <2>1, <2>2, <2>3 DEF Fate, OnPoste
  <2>6. UNCHANGED <<status, hb>>
    BY <2>1 DEF server, rows
  <2>7. /\ Life(job.cmd) = "held" /\ Life(job.cmd)' = "started"
        /\ \A c \in Command \ {job.cmd} : Life(c)' = Life(c)
    <3>1. \A c \in Command :
             /\ status[c] \in Unhanded => Life(c)' = Life(c)
             /\ status[c] \notin Unhanded => Life(c) = Fate(c) /\ Life(c)' = Fate(c)'
      BY <2>6, LifeOnPoste
    <3> QED
      BY <2>1, <2>2, <2>4, <2>5, <3>1
  <2>8. \A c \in Command : Life(c) # "started"
    BY <2>4, <2>5, LifeIs DEF ReadOnRow
  <2>9. Promise!Start(job.cmd)
    BY <2>1, <2>2, <2>7, <2>8 DEF Promise!Start, Promise!Settle, lives
  <2> QED
    BY <2>2, <2>9 DEF Promise!Next
<1>9. ASSUME NEW v \in Verdicts, Finish(v) PROVE Promise!Next
  BY <1>9, WorkerConcludes DEF Finish, TypeOK, Job
<1>10. CASE Enqueue \/ Restart
  <2>1. job' = IdleJob /\ hb'.picked = hb.picked
    BY <1>10, HbRecord DEF Enqueue, Restart, server, TypeOK
  <2>2. \A c \in Command : job'.cmd # c
    BY <2>1, CommandAssumption DEF IdleJob
  <2>3. ToSet(<<>>) = {}
    BY DEF ToSet
  <2>4. \A c \in Command : OnPoste(c)' => OnPoste(c)
    BY <1>10, <2>2, <2>3 DEF Enqueue, Restart, OnPoste
  <2> QED
    BY <1>10, <2>1, <2>2, <2>4, PosteCarries DEF Enqueue, Restart, server, rows
<1> QED
  BY <1>1, <1>2, <1>3, <1>4, <1>5, <1>6, <1>7, <1>8, <1>9, <1>10
  DEF Network, Agent, ResultMove

\* The queue, the network and the agent implement the promise of OnceOnly: a command is
\* run at most once, one at a time on a poste, and never after it was given up.
THEOREM ImplementsOnceOnly == Spec => RunsOnceOnly
<1>1. Init => Promise!Init
  <2> SUFFICES ASSUME Init PROVE \A c \in Command : Life(c) = "unasked"
    BY DEF Promise!Init, lives
  <2>1. ToSet(inbox) = {}
    BY DEF Init, ToSet
  <2> QED
    BY <2>1, CommandAssumption DEF Init, Life, OnPoste, IdleJob
<1>2. Init => HbInv
  BY DEF Init, HbInv, FreeHb
<1>3. IInv /\ HbInv /\ [Next]_vars => HbInv'
  <2> SUFFICES ASSUME IInv, HbInv, [Next]_vars PROVE HbInv'
    OBVIOUS
  <2>1. CASE HeartbeatTimeout \/ Restart
    BY <2>1 DEF HeartbeatTimeout, Restart, HbInv, IInv, TypeOK, Hb
  <2>2. CASE \E live \in BOOLEAN : HeartbeatRead(live)
    BY <2>2 DEF HeartbeatRead, HbInv
  <2>3. CASE HeartbeatCommit \/ HeartbeatAbort
    BY <2>3 DEF HeartbeatCommit, HeartbeatAbort, FreeHb, HbInv
  <2>4. ASSUME NEW m \in posts, ResultMove(m) PROVE HbInv'
    BY <2>4, ResultSteps DEF HbInv
  <2>5. ASSUME UNCHANGED hb PROVE HbInv'
    BY <2>5 DEF HbInv
  <2> QED
    BY <2>1, <2>2, <2>3, <2>4, <2>5
    DEF Next, Server, Network, Agent, ResultMove, vars, server, Tick, Sweep, Purge,
        CreateCheck, CreateCommit, CreateAbort, DeletePackage, PollStart, FlushQueue,
        PollEnd, Accept, TakeCommand, Refuse, ReportRunning, Run, Enqueue, Finish
<1>4. IInv /\ IInv' /\ VerdictInv /\ VerdictInv' /\ HbInv /\ [Next]_vars
      => [Promise!Next]_lives
  <2>1. ASSUME UNCHANGED vars PROVE UNCHANGED lives
    BY <2>1 DEF vars, server, rows, agent, hist, lives, Life, OnPoste, Owing, Present
  <2> QED
    BY <2>1, ServerImplements, PosteImplements DEF Next
<1> QED
  BY <1>1, <1>2, <1>3, <1>4, Invariant, VerdictInvariant, PTL
  DEF Spec, RunsOnceOnly, Promise!Spec
=============================================================================
