-------------------------- MODULE TelemetryProofs --------------------------
(***************************************************************************)
(* For any blocks, rows, detections and number of late heartbeats: the     *)
(* types, and that each recent detection is alerted on once.  Where no     *)
(* heartbeat outlives the next poll, that an acknowledged reading is the   *)
(* one stored, and that the inventory hash tells the truth: there is then  *)
(* one heartbeat at a time, and what its handler saw is still there when   *)
(* it commits.                                                             *)
(*                                                                         *)
(* The last part is about WorkerMail, whose outbox the alerts go out by:   *)
(* for any calendar, settings, accounts and bounds, the outbox says what   *)
(* happened to each mail and each job has its turn once a period.  MailInv *)
(* relates what the drain under way has sent to what the table says, and   *)
(* the hour each job is set to, to the hours its policy allows and to the  *)
(* last turn it had.                                                       *)
(***************************************************************************)
EXTENDS Telemetry, WorkerMail, FiniteSetTheorems, FunctionTheorems, TLAPS

-----------------------------------------------------------------------------
(* Types.                                                                   *)

\* The empty cache has the type of a full one.
LEMMA EmptyCache == NoCache \in Cache /\ NoCache.sent <= NoCache.gen
BY TelemetryAssumption DEF NoCache, Cache

\* TypeOK, without what is under way.
AgentOK ==
    /\ poste \in [Detection -> Status]
    /\ cache \in [Block -> Cache]
    /\ \A b \in Block : cache[b].sent <= cache[b].gen
    /\ inventorySent \in Reading \cup {None}
    /\ loop \in {"sleep", "wait"}
ServerOK ==
    /\ known \in [Detection -> Status] /\ hash \in Reading \cup {None}
    /\ table \in [Block -> Reading]
    /\ alerts \in [Detection -> 0 .. 2]
ReqsOK ==
    /\ reqs \subseteq Heartbeat
    /\ \A m, n \in reqs : m.live /\ n.live => m = n
    /\ \A m \in reqs : m.step = "done" => m.live
    /\ \A m \in reqs : m.live => loop = "wait" /\ \A b \in Block : m.gen[b] <= cache[b].gen

\* A live heartbeat means the loop waits for it, which is what makes it the only one, and
\* it carries generations that exist; nothing answers one the agent gave up.
TypeInv == AgentOK /\ ServerOK /\ ReqsOK

\* A reading makes a cache pending, and no generation is acknowledged early (store).
LEMMA CollectTypes ==
    ASSUME TypeInv, NEW b \in Block, NEW v \in Reading, NEW forced \in BOOLEAN,
           Collect(b, v, forced)
    PROVE  TypeInv'
<1>1. cache[b] \in Cache /\ cache[b].gen < Gens
  BY DEF TypeInv, AgentOK, Collect
<1>2. [cache[b] EXCEPT !.state = v, !.gen = @ + 1] \in Cache
  <2>1. cache[b].gen + 1 \in 0 .. Gens
    BY <1>1, TelemetryAssumption DEF Cache
  <2> QED BY <1>1, <2>1 DEF Cache
<1>3. /\ [cache[b] EXCEPT !.state = v, !.gen = @ + 1].gen = cache[b].gen + 1
      /\ [cache[b] EXCEPT !.state = v, !.gen = @ + 1].sent = cache[b].sent
  BY <1>1 DEF Cache
<1>4. cache' = [cache EXCEPT ![b] = [cache[b] EXCEPT !.state = v, !.gen = @ + 1]]
  BY DEF Collect
<1>5. cache' \in [Block -> Cache]
  BY <1>2, <1>4 DEF TypeInv, AgentOK
<1>6. ASSUME NEW c \in Block PROVE cache'[c].sent <= cache'[c].gen
  <2>1. CASE c = b
    <3>1. cache[b].sent <= cache[b].gen /\ cache[b].sent \in Nat /\ cache[b].gen \in Nat
      BY <1>1, TelemetryAssumption DEF TypeInv, AgentOK, Cache
    <3> QED BY <1>3, <1>4, <2>1, <3>1 DEF TypeInv, AgentOK
  <2>2. CASE c # b
    BY <1>4, <2>2 DEF TypeInv, AgentOK
  <2> QED BY <2>1, <2>2
<1>7. inventorySent' \in Reading \cup {None}
  BY DEF Collect, TypeInv, AgentOK
<1>8. AgentOK'
  BY <1>5, <1>6, <1>7 DEF AgentOK, TypeInv, Collect
<1>9. ASSUME NEW c \in Block PROVE cache[c].gen <= cache'[c].gen
  BY <1>1, <1>3, <1>4, TelemetryAssumption DEF TypeInv, AgentOK, Cache
<1>10. ReqsOK'
  <2>1. ASSUME NEW m \in reqs, m.live, NEW c \in Block PROVE m.gen[c] <= cache'[c].gen
    <3>1. m.gen[c] \in Nat /\ cache[c].gen \in Nat /\ cache'[c].gen \in Nat
      BY <1>5, TelemetryAssumption DEF TypeInv, ReqsOK, AgentOK, Heartbeat, Cache
    <3> QED BY <1>9, <2>1, <3>1 DEF TypeInv, ReqsOK
  <2> QED BY <2>1 DEF TypeInv, ReqsOK, Collect
<1> QED BY <1>8, <1>10 DEF TypeInv, ServerOK, Collect, server

\* What the poll sends is a heartbeat, and the only one it waits for (pollOnce).
LEMMA PollTypes ==
    ASSUME TypeInv, PollStart
    PROVE  TypeInv'
<1> DEFINE hb(threats) ==
      [report |-> [b \in Block |-> IF Pending(b) THEN cache[b].state ELSE None],
       gen |-> [b \in Block |-> IF Pending(b) THEN cache[b].gen ELSE 0],
       threats |-> threats, step |-> "sent", seen |-> None,
       dropped |-> [b \in Block |-> {}], live |-> TRUE]
<1>1. PICK threats \in [Detection -> Status] : reqs' = reqs \cup {hb(threats)}
  <2>1. {poste, [d \in Detection |-> "none"]} \subseteq [Detection -> Status]
    BY DEF TypeInv, AgentOK, Status
  <2> QED BY <2>1 DEF PollStart
<1>2. \A b \in Block : /\ cache[b].state \in Reading \cup {None}
                       /\ cache[b].gen \in 0 .. Gens /\ 0 \in 0 .. Gens
  BY TelemetryAssumption DEF TypeInv, AgentOK, Cache
<1>3. [b \in Block |-> {}] \in [Block -> Reading]
  BY DEF Reading
<1>4. hb(threats) \in Heartbeat /\ hb(threats).live /\ hb(threats).step = "sent"
  <2>1. /\ [b \in Block |-> IF Pending(b) THEN cache[b].state ELSE None]
              \in [Block -> Reading \cup {None}]
        /\ [b \in Block |-> IF Pending(b) THEN cache[b].gen ELSE 0] \in [Block -> 0 .. Gens]
    BY <1>2
  <2> QED BY <1>3, <2>1 DEF Heartbeat
<1>5. \A b \in Block : hb(threats).gen[b] <= cache[b].gen
  BY <1>2
<1> HIDE DEF hb
<1>6. \A m \in reqs : ~m.live
  BY DEF PollStart, TypeInv, ReqsOK
<1>7. loop' = "wait" /\ cache' = cache
  BY DEF PollStart
<1>8. ReqsOK'
  BY <1>1, <1>4, <1>5, <1>6, <1>7 DEF ReqsOK, TypeInv
<1> QED BY <1>7, <1>8 DEF TypeInv, AgentOK, ServerOK, PollStart, server

\* What the answer acknowledges is not above what exists (markSent).
LEMMA AnsweredTypes ==
    ASSUME TypeInv, NEW m \in reqs, Answered(m)
    PROVE  TypeInv'
<1>0. m.live
  BY DEF Answered, TypeInv, ReqsOK
<1>1. ASSUME NEW b \in Block
      PROVE  /\ cache'[b] \in Cache /\ cache'[b].gen = cache[b].gen
             /\ cache'[b].sent <= cache'[b].gen
  <2>1. /\ cache[b] \in Cache /\ m.gen[b] \in 0 .. Gens
        /\ cache[b].sent <= cache[b].gen /\ m.gen[b] <= cache[b].gen
    BY <1>0 DEF TypeInv, AgentOK, ReqsOK, Heartbeat
  <2>2. Marked(m, b) \in 0 .. Gens /\ Marked(m, b) <= cache[b].gen
    BY <2>1 DEF Marked, Cache
  <2>3. cache'[b] = [cache[b] EXCEPT !.sent = Marked(m, b)]
    BY DEF Answered
  <2> QED BY <2>1, <2>2, <2>3 DEF Cache
<1>2. cache' \in [Block -> Cache]
  BY <1>1 DEF Answered
<1>3. AgentOK'
  BY <1>1, <1>2 DEF AgentOK, TypeInv, Answered
<1>4. \A n \in reqs' : n \in reqs /\ ~n.live
  BY <1>0 DEF Answered, TypeInv, ReqsOK
<1>5. ReqsOK'
  BY <1>4 DEF ReqsOK, TypeInv
<1> QED BY <1>3, <1>5 DEF TypeInv, ServerOK, Answered, server

\* The handler and its sender keep every type.
LEMMA HandlerTypes ==
    ASSUME TypeInv, NEW m \in reqs, GiveUp(m) \/ Drop(m) \/ Load(m) \/ Write(m) \/ Commit(m)
    PROVE  TypeInv'
<1>0. m \in Heartbeat /\ reqs \subseteq Heartbeat
  BY DEF TypeInv, ReqsOK
<1>a. cache' = cache /\ poste' = poste /\ inventorySent' = inventorySent
  BY DEF GiveUp, Drop, Load, Write, Commit, agent
<1>1. ASSUME NEW n \in Heartbeat, n.live => m.live, n.gen = m.gen,
             reqs' = (reqs \ {m}) \cup (IF n.live \/ n.step # "done" THEN {n} ELSE {}),
             loop' = loop
      PROVE  ReqsOK'
  BY <1>0, <1>1, <1>a DEF TypeInv, ReqsOK
<1>2. CASE GiveUp(m)
  <2>1. /\ [m EXCEPT !.live = FALSE] \in Heartbeat /\ ~[m EXCEPT !.live = FALSE].live
        /\ [m EXCEPT !.live = FALSE].step = m.step
    BY <1>0 DEF Heartbeat
  <2>2. \A r \in reqs' : ~r.live /\ r.step # "done"
    BY <1>0, <1>2, <2>1 DEF GiveUp, TypeInv, ReqsOK
  <2>3. reqs' \subseteq Heartbeat
    BY <1>0, <1>2, <2>1 DEF GiveUp
  <2>4. ReqsOK'
    BY <2>2, <2>3 DEF ReqsOK
  <2> QED BY <1>2, <2>4 DEF TypeInv, AgentOK, ServerOK, GiveUp, server
<1>3. CASE Drop(m)
  <2>1. reqs' \subseteq reqs
    BY <1>3 DEF Drop
  <2>2. \A r \in reqs' : r.live => ~m.live
    BY <1>3 DEF Drop, TypeInv, ReqsOK
  <2>3. ReqsOK'
    BY <1>a, <1>3, <2>1, <2>2 DEF ReqsOK, TypeInv, Drop
  <2> QED BY <1>a, <1>3, <2>3 DEF TypeInv, AgentOK, ServerOK, Drop, server
<1>4. CASE Load(m)
  <2> DEFINE n == [m EXCEPT !.step = "loaded", !.seen = hash]
  <2>1. n \in Heartbeat /\ n.live = m.live /\ n.gen = m.gen /\ n.step # "done"
    BY <1>0 DEF Heartbeat, TypeInv, ServerOK
  <2>2. reqs' = (reqs \ {m}) \cup {n} /\ loop' = loop
    BY <1>4 DEF Load, agent
  <2> HIDE DEF n
  <2> QED BY <1>a, <1>1, <1>4, <2>1, <2>2 DEF TypeInv, AgentOK, ServerOK, Load, server
<1>5. CASE Write(m)
  <2> DEFINE n == [m EXCEPT !.step = "written", !.dropped = [b \in Block |-> Stale(m, b)]]
  <2>1. [b \in Block |-> Stale(m, b)] \in [Block -> Reading]
    BY DEF Stale, TypeInv, ServerOK, Reading
  <2>2. n \in Heartbeat /\ n.live = m.live /\ n.gen = m.gen /\ n.step # "done"
    BY <1>0, <2>1 DEF Heartbeat
  <2>3. reqs' = (reqs \ {m}) \cup {n} /\ loop' = loop
    BY <1>5 DEF Write, agent
  <2> HIDE DEF n
  <2> QED BY <1>a, <1>1, <1>5, <2>2, <2>3 DEF TypeInv, AgentOK, ServerOK, Write, server
<1>6. CASE Commit(m)
  <2> DEFINE n == [m EXCEPT !.step = "done"]
  <2>1. n \in Heartbeat /\ n.live = m.live /\ n.gen = m.gen /\ n.step = "done"
    BY <1>0 DEF Heartbeat
  <2>2. /\ reqs' = (reqs \ {m}) \cup (IF n.live \/ n.step # "done" THEN {n} ELSE {})
        /\ loop' = loop
    BY <1>6, <2>1 DEF Commit, agent
  <2> HIDE DEF n
  <2>3. ReqsOK'
    BY <1>1, <2>1, <2>2
  <2>4. table' \in [Block -> Reading]
    <3>1. ASSUME NEW b \in Applied(m) PROVE m.report[b] \in Reading
      BY <1>0 DEF Applied, Heartbeat
    <3>2. ASSUME NEW b \in Block PROVE table'[b] \in Reading
      BY <1>6, <3>1 DEF Commit, TypeInv, ServerOK, Reading
    <3> QED BY <1>6, <3>2 DEF Commit
  <2>5. hash' \in Reading \cup {None}
    BY <1>0, <1>6 DEF Commit, Applied, Heartbeat, TypeInv, ServerOK
  <2>6. known' \in [Detection -> Status]
    BY <1>0, <1>6 DEF Commit, StoredStatus, Heartbeat, TypeInv, ServerOK
  <2>7. alerts' \in [Detection -> 0 .. 2]
    BY <1>6 DEF Commit, TypeInv, ServerOK
  <2> QED BY <1>6, <2>3, <2>4, <2>5, <2>6, <2>7 DEF TypeInv, AgentOK, ServerOK, Commit, agent
<1> QED BY <1>2, <1>3, <1>4, <1>5, <1>6

\* A detection, what Defender does about it, and a restart.
LEMMA PosteTypes ==
    ASSUME TypeInv, Restart \/ \E d \in Detection : Detect(d) \/ Treat(d)
    PROVE  TypeInv'
<1>1. ASSUME NEW d \in Detection, Detect(d) \/ Treat(d) PROVE TypeInv'
  <2>1. poste' \in [Detection -> Status]
    BY <1>1 DEF Detect, Treat, TypeInv, AgentOK, Status
  <2> QED BY <1>1, <2>1 DEF Detect, Treat, TypeInv, AgentOK, ServerOK, ReqsOK, server
<1>2. CASE Restart
  <2> DEFINE stray(m) == [m EXCEPT !.live = FALSE]
  <2>1. ASSUME NEW m \in Heartbeat
        PROVE  stray(m) \in Heartbeat /\ ~stray(m).live /\ stray(m).step = m.step
    BY DEF Heartbeat
  <2>2. reqs' = {stray(m) : m \in {n \in reqs : n.step # "done"}}
    BY <1>2 DEF Restart
  <2> HIDE DEF stray
  <2>3. \A r \in reqs' : r \in Heartbeat /\ ~r.live /\ r.step # "done"
    BY <2>1, <2>2 DEF TypeInv, ReqsOK
  <2>4. AgentOK'
    BY <1>2, EmptyCache DEF Restart, TypeInv, AgentOK
  <2> QED BY <1>2, <2>3, <2>4 DEF Restart, TypeInv, ServerOK, ReqsOK, server
<1> QED BY <1>1, <1>2

\* Every step keeps every type.
LEMMA TypeStep == TypeInv /\ [Next]_vars => TypeInv'
<1> SUFFICES ASSUME TypeInv, [Next]_vars PROVE TypeInv'
  OBVIOUS
<1>1. CASE UNCHANGED vars
  BY <1>1 DEF vars, agent, server, TypeInv, AgentOK, ServerOK, ReqsOK
<1> QED
  BY <1>1, CollectTypes, PollTypes, AnsweredTypes, HandlerTypes, PosteTypes DEF Next

\* The initial state has every type.
LEMMA TypeInit == Init => TypeInv
<1> SUFFICES ASSUME Init PROVE TypeInv
  OBVIOUS
<1>1. AgentOK
  BY EmptyCache DEF Init, AgentOK, Status
<1>2. ServerOK
  BY DEF Init, ServerOK, Status, Reading
<1> QED BY <1>1, <1>2 DEF Init, TypeInv, ReqsOK

\* Whatever is lost, late or restarted, every variable of the agent and of the server has
\* its type, and no generation is acknowledged before it exists (store, markSent).
THEOREM TelemetryTypes == Spec => []TypeOK
<1>1. TypeInv => TypeOK
  BY DEF TypeInv, AgentOK, ServerOK, ReqsOK, TypeOK
<1> QED BY <1>1, TypeInit, TypeStep, PTL DEF Spec

-----------------------------------------------------------------------------
(* Alerts.                                                                  *)

\* A commit alerts on what it stores for the first time, and on nothing else.
LEMMA CommitAlerts ==
    ASSUME TypeInv, AlertedOnce, NEW m \in reqs, Commit(m)
    PROVE  AlertedOnce'
<1> SUFFICES ASSUME NEW d \in Detection
             PROVE  alerts'[d] = IF known'[d] # "none" /\ d \notin Old THEN 1 ELSE 0
  BY DEF AlertedOnce
<1>1. alerts[d] = IF known[d] # "none" /\ d \notin Old THEN 1 ELSE 0
  BY DEF AlertedOnce
<1>2. /\ known'[d] = IF m.threats[d] # "none" THEN m.threats[d] ELSE known[d]
      /\ alerts'[d] = IF d \in Alerted(m) /\ alerts[d] < 2 THEN alerts[d] + 1 ELSE alerts[d]
  BY DEF Commit, StoredStatus
<1>3. d \in Alerted(m) <=> d \notin Old /\ m.threats[d] # "none" /\ known[d] = "none"
  BY DEF Alerted
<1> QED BY <1>1, <1>2, <1>3

\* However many heartbeats are late, each recent detection the server stores was alerted
\* on exactly once, and nothing else was (upsert_threats, queue_threat_alert).
THEOREM AlertsOnce == Spec => []AlertedOnce
<1>1. Init => AlertedOnce
  BY DEF Init, AlertedOnce
<1>2. TypeInv /\ AlertedOnce /\ [Next]_vars => AlertedOnce'
  <2> SUFFICES ASSUME TypeInv, AlertedOnce, [Next]_vars PROVE AlertedOnce'
    OBVIOUS
  <2>1. ASSUME NEW m \in reqs, Commit(m) PROVE AlertedOnce'
    BY <2>1, CommitAlerts
  <2>2. CASE ~\E m \in reqs : Commit(m)
    <3>1. known' = known /\ alerts' = alerts
      BY <2>2 DEF Next, vars, server, Detect, Treat, Collect, PollStart, Restart, Answered,
                  GiveUp, Drop, Load, Write
    <3> QED BY <3>1 DEF AlertedOnce
  <2> QED BY <2>1, <2>2
<1> QED BY <1>1, <1>2, TypeInit, TypeStep, PTL DEF Spec

-----------------------------------------------------------------------------
(* Acknowledgements and the inventory hash, where no heartbeat is late.     *)

\* One heartbeat at a time, given up or not.
OneInv == \A m, n \in reqs : m = n

\* What a heartbeat carries is not acknowledged, and is the last reading if its generation
\* is the last one.
CarryInv ==
    \A m \in reqs : \A b \in Block :
        /\ m.report[b] = None => m.gen[b] = 0
        /\ m.report[b] # None => cache[b].gen = 0 \/ cache[b].sent # cache[b].gen
        /\ m.live /\ m.report[b] # None /\ m.gen[b] = cache[b].gen
             => m.report[b] = cache[b].state

\* What a handler has seen is still there: the hash it loaded, the rows it deletes; once
\* it has committed, what it was given.
SeenInv ==
    \A m \in reqs :
        /\ m.step \in {"loaded", "written"} => m.seen = hash
        /\ m.step = "written" => \A b \in Block : m.dropped[b] = Stale(m, b)
        /\ m.step = "done" =>
             \A b \in Block : m.report[b] # None => table[b] = m.report[b]

SyncInv == TypeInv /\ OneInv /\ CarryInv /\ SeenInv /\ HashIsHonest /\ AckedIsStored

\* A new poll starts when nothing of the former is left (PollStart, Late).
LEMMA PollSync ==
    ASSUME Late = 0, SyncInv, PollStart
    PROVE  SyncInv'
<1>1. reqs = {}
  <2>1. ASSUME NEW m \in reqs PROVE FALSE
    <3>1. reqs = {m}
      BY DEF SyncInv, OneInv
    <3>2. Cardinality(reqs) = 1
      BY <3>1, FS_Singleton
    <3> QED BY <3>2 DEF PollStart
  <2> QED BY <2>1
<1>2. PICK threats : reqs' =
          {[report |-> [b \in Block |-> IF Pending(b) THEN cache[b].state ELSE None],
            gen |-> [b \in Block |-> IF Pending(b) THEN cache[b].gen ELSE 0],
            threats |-> threats, step |-> "sent", seen |-> None,
            dropped |-> [b \in Block |-> {}], live |-> TRUE]}
  BY <1>1 DEF PollStart
<1>3. cache' = cache /\ table' = table /\ hash' = hash
  BY DEF PollStart, server
<1>4. TypeInv'
  BY PollTypes DEF SyncInv
<1>5. OneInv' /\ SeenInv'
  BY <1>2 DEF OneInv, SeenInv
<1>6. CarryInv'
  BY <1>2, <1>3 DEF CarryInv, Pending
<1> QED BY <1>3, <1>4, <1>5, <1>6 DEF SyncInv, HashIsHonest, AckedIsStored

\* A new reading leaves what is under way behind (store).
LEMMA CollectSync ==
    ASSUME SyncInv, NEW b \in Block, NEW v \in Reading, NEW forced \in BOOLEAN,
           Collect(b, v, forced)
    PROVE  SyncInv'
<1>1. TypeInv'
  BY CollectTypes DEF SyncInv
<1>2. /\ cache[b].gen \in Nat /\ cache[b].sent \in Nat /\ cache[b].sent <= cache[b].gen
      /\ cache \in [Block -> Cache]
  BY TelemetryAssumption DEF SyncInv, TypeInv, AgentOK, Cache
<1>3. /\ cache'[b].gen = cache[b].gen + 1 /\ cache'[b].sent = cache[b].sent
      /\ \A c \in Block \ {b} : cache'[c] = cache[c]
  BY <1>2 DEF Collect, Cache
<1>4. reqs' = reqs /\ table' = table /\ hash' = hash
  BY DEF Collect, server
<1>5. CarryInv'
  <2> SUFFICES ASSUME NEW m \in reqs, NEW c \in Block
               PROVE  /\ m.report[c] = None => m.gen[c] = 0
                      /\ m.report[c] # None => cache'[c].gen = 0 \/ cache'[c].sent # cache'[c].gen
                      /\ m.live /\ m.report[c] # None /\ m.gen[c] = cache'[c].gen
                           => m.report[c] = cache'[c].state
    BY <1>4 DEF CarryInv
  <2>1. CASE c # b
    BY <1>3, <2>1 DEF SyncInv, CarryInv
  <2>2. CASE c = b
    <3>1. m.live => m.gen[b] <= cache[b].gen
      BY DEF SyncInv, TypeInv, ReqsOK
    <3>2. m.gen[b] \in Nat
      BY TelemetryAssumption DEF SyncInv, TypeInv, ReqsOK, Heartbeat
    <3>3. m.live => m.gen[b] # cache'[b].gen
      BY <1>2, <1>3, <3>1, <3>2
    <3>4. cache'[b].sent # cache'[b].gen
      BY <1>2, <1>3
    <3> QED BY <2>2, <3>3, <3>4 DEF SyncInv, CarryInv
  <2> QED BY <2>1, <2>2
<1>6. AckedIsStored'
  <2>1. cache'[b].sent # cache'[b].gen
    BY <1>2, <1>3
  <2> QED BY <1>3, <1>4, <2>1 DEF SyncInv, AckedIsStored
<1>7. OneInv' /\ HashIsHonest' /\ SeenInv'
  BY <1>4 DEF SyncInv, OneInv, HashIsHonest, SeenInv, Stale, Applied, Described
<1> QED BY <1>1, <1>5, <1>6, <1>7 DEF SyncInv

\* An answer acknowledges what it was given, and that is stored (markSent).
LEMMA AnsweredSync ==
    ASSUME SyncInv, NEW m \in reqs, Answered(m)
    PROVE  SyncInv'
<1>1. TypeInv'
  BY AnsweredTypes DEF SyncInv
<1>2. reqs' = {}
  BY DEF Answered, SyncInv, OneInv
<1>3. table' = table /\ hash' = hash
  BY DEF Answered, server
<1>4. AckedIsStored'
  <2> SUFFICES ASSUME NEW b \in Block, cache'[b].gen > 0, cache'[b].sent = cache'[b].gen
               PROVE  table[b] = cache'[b].state
    BY <1>3 DEF AckedIsStored
  <2>1. cache[b] \in Cache /\ m.live /\ m.step = "done"
    BY DEF SyncInv, TypeInv, AgentOK, ReqsOK, Answered
  <2>2. /\ cache'[b].gen = cache[b].gen /\ cache'[b].state = cache[b].state
        /\ cache'[b].sent = Marked(m, b)
    BY <2>1 DEF Answered, Cache
  <2>3. CASE m.gen[b] > cache[b].sent
    <3>1. m.gen[b] = cache[b].gen
      BY <2>2, <2>3 DEF Marked
    <3>2. m.report[b] # None
      BY <2>2, <3>1 DEF SyncInv, CarryInv
    <3> QED BY <2>1, <2>2, <3>1, <3>2 DEF SyncInv, CarryInv, SeenInv
  <2>4. CASE ~(m.gen[b] > cache[b].sent)
    BY <2>2, <2>4 DEF Marked, SyncInv, AckedIsStored
  <2> QED BY <2>3, <2>4
<1> QED BY <1>1, <1>2, <1>3, <1>4 DEF SyncInv, OneInv, CarryInv, SeenInv, HashIsHonest

\* Giving up, losing and restarting change nothing that is stored.
LEMMA LossSync ==
    ASSUME SyncInv, Restart \/ \E m \in reqs : GiveUp(m) \/ Drop(m)
    PROVE  SyncInv'
<1>1. TypeInv'
  BY HandlerTypes, PosteTypes DEF SyncInv
<1>2. table' = table /\ hash' = hash
  BY DEF Restart, GiveUp, Drop, server
<1>3. cache' = cache \/ cache' = [b \in Block |-> NoCache]
  BY DEF Restart, GiveUp, Drop
<1>4. AckedIsStored' /\ HashIsHonest'
  BY <1>2, <1>3 DEF SyncInv, AckedIsStored, HashIsHonest, NoCache
<1>5. \A r \in reqs' : \E q \in reqs : r = q \/ r = [q EXCEPT !.live = FALSE]
  BY DEF Restart, GiveUp, Drop
<1>6. OneInv'
  <2>1. CASE Restart
    BY <2>1 DEF Restart, SyncInv, OneInv
  <2>2. ASSUME NEW m \in reqs, GiveUp(m) \/ Drop(m) PROVE OneInv'
    BY <2>2 DEF GiveUp, Drop, SyncInv, OneInv
  <2> QED BY <2>1, <2>2
<1>7. \A r \in reqs' : \E q \in reqs :
          /\ r.report = q.report /\ r.gen = q.gen /\ r.step = q.step
          /\ r.seen = q.seen /\ r.dropped = q.dropped
          /\ r.live => q.live /\ cache' = cache
  <2> SUFFICES ASSUME NEW r \in reqs'
               PROVE  \E q \in reqs :
                         /\ r.report = q.report /\ r.gen = q.gen /\ r.step = q.step
                         /\ r.seen = q.seen /\ r.dropped = q.dropped
                         /\ r.live => q.live /\ cache' = cache
    OBVIOUS
  <2>1. PICK q \in reqs : r = q \/ r = [q EXCEPT !.live = FALSE]
    BY <1>5
  <2>2. q \in Heartbeat /\ r \in Heartbeat
    BY <1>1 DEF SyncInv, TypeInv, ReqsOK
  <2>3. r.live => cache' = cache
    <3>1. CASE Restart
      <4>1. \E m \in Heartbeat : r = [m EXCEPT !.live = FALSE]
        BY <3>1 DEF Restart, SyncInv, TypeInv, ReqsOK
      <4> QED BY <4>1 DEF Heartbeat
    <3>2. CASE ~Restart
      BY <3>2 DEF GiveUp, Drop
    <3> QED BY <3>1, <3>2
  <2>4. /\ r.report = q.report /\ r.gen = q.gen /\ r.step = q.step
        /\ r.seen = q.seen /\ r.dropped = q.dropped /\ (r.live => q.live)
    BY <2>1, <2>2 DEF Heartbeat
  <2> QED BY <2>3, <2>4
<1>8. CarryInv'
  <2> SUFFICES ASSUME NEW r \in reqs', NEW b \in Block
               PROVE  /\ r.report[b] = None => r.gen[b] = 0
                      /\ r.report[b] # None => cache'[b].gen = 0 \/ cache'[b].sent # cache'[b].gen
                      /\ r.live /\ r.report[b] # None /\ r.gen[b] = cache'[b].gen
                           => r.report[b] = cache'[b].state
    BY DEF CarryInv
  <2>1. PICK q \in reqs : /\ r.report = q.report /\ r.gen = q.gen /\ r.step = q.step
                          /\ r.seen = q.seen /\ r.dropped = q.dropped
                          /\ r.live => q.live /\ cache' = cache
    BY <1>7
  <2>2. cache'[b] = cache[b] \/ cache'[b].gen = 0
    BY <1>3 DEF NoCache
  <2>3. CASE r.live
    BY <2>1, <2>3 DEF SyncInv, CarryInv
  <2>4. CASE ~r.live
    BY <2>1, <2>2, <2>4 DEF SyncInv, CarryInv
  <2> QED BY <2>3, <2>4
<1>9. SeenInv'
  <2> SUFFICES ASSUME NEW r \in reqs'
               PROVE  /\ r.step \in {"loaded", "written"} => r.seen = hash
                      /\ r.step = "written" =>
                           \A b \in Block : r.dropped[b] = Stale(r, b)
                      /\ r.step = "done" =>
                           \A b \in Block : r.report[b] # None => table[b] = r.report[b]
    BY <1>2 DEF SeenInv, Stale, Applied, Described
  <2>1. PICK q \in reqs : /\ r.report = q.report /\ r.gen = q.gen /\ r.step = q.step
                          /\ r.seen = q.seen /\ r.dropped = q.dropped
                          /\ r.live => q.live /\ cache' = cache
    BY <1>7
  <2>2. \A b \in Block : Stale(r, b) = Stale(q, b)
    BY <2>1 DEF Stale, Applied, Described
  <2> QED BY <2>1, <2>2 DEF SyncInv, SeenInv
<1> QED BY <1>1, <1>4, <1>6, <1>8, <1>9 DEF SyncInv

\* A handler that loads or writes is the only one, so nothing it saw moves.
LEMMA HandlerSync ==
    ASSUME SyncInv, NEW m \in reqs, Load(m) \/ Write(m)
    PROVE  SyncInv'
<1>1. TypeInv'
  BY HandlerTypes DEF SyncInv
<1>2. table' = table /\ hash' = hash /\ cache' = cache /\ m \in Heartbeat
  BY DEF Load, Write, agent, server, SyncInv, TypeInv, ReqsOK
<1>3. ASSUME NEW n, reqs' = (reqs \ {m}) \cup {n},
             n.report = m.report, n.gen = m.gen, n.live = m.live,
             n.seen = hash, n.step = "loaded" \/ (n.step = "written" /\
                                \A b \in Block : n.dropped[b] = Stale(n, b))
      PROVE  SyncInv'
  <2>1. reqs' = {n}
    BY <1>3 DEF SyncInv, OneInv
  <2>2. CarryInv'
    BY <1>2, <1>3, <2>1 DEF SyncInv, CarryInv
  <2>3. SeenInv'
    BY <1>2, <1>3, <2>1 DEF SeenInv, Stale, Applied, Described
  <2> QED BY <1>1, <1>2, <2>1, <2>2, <2>3
          DEF SyncInv, OneInv, HashIsHonest, AckedIsStored
<1>4. CASE Load(m)
  <2> DEFINE n == [m EXCEPT !.step = "loaded", !.seen = hash]
  <2>1. /\ n.report = m.report /\ n.gen = m.gen /\ n.live = m.live /\ n.seen = hash
        /\ n.step = "loaded"
    BY <1>2 DEF Heartbeat
  <2>2. reqs' = (reqs \ {m}) \cup {n}
    BY <1>4 DEF Load
  <2> HIDE DEF n
  <2> QED BY <1>3, <2>1, <2>2
<1>5. CASE Write(m)
  <2> DEFINE n == [m EXCEPT !.step = "written", !.dropped = [b \in Block |-> Stale(m, b)]]
  <2>1. /\ n.report = m.report /\ n.gen = m.gen /\ n.live = m.live /\ n.seen = m.seen
        /\ n.step = "written" /\ n.dropped = [b \in Block |-> Stale(m, b)]
    BY <1>2 DEF Heartbeat
  <2>2. reqs' = (reqs \ {m}) \cup {n} /\ m.seen = hash
    BY <1>5 DEF Write, SyncInv, SeenInv
  <2> HIDE DEF n
  <2>3. \A b \in Block : n.dropped[b] = Stale(n, b)
    BY <2>1 DEF Stale, Applied, Described
  <2> QED BY <1>3, <2>1, <2>2, <2>3
<1> QED BY <1>4, <1>5

\* A commit stores what it was given, or finds it stored; the hash goes with the rows.
LEMMA CommitSync ==
    ASSUME SyncInv, NEW m \in reqs, Commit(m)
    PROVE  SyncInv'
<1>1. TypeInv'
  BY HandlerTypes DEF SyncInv
<1>2. /\ cache' = cache /\ m \in Heartbeat /\ m.step = "written" /\ m.seen = hash
      /\ \A b \in Block : m.dropped[b] = Stale(m, b)
      /\ table \in [Block -> Reading]
  BY DEF Commit, agent, SyncInv, TypeInv, ServerOK, ReqsOK, SeenInv
<1>3. ASSUME NEW b \in Applied(m)
      PROVE  table'[b] = m.report[b]
  <2>1. b \in Block /\ m.dropped[b] = table[b] \ m.report[b]
    BY <1>2 DEF Stale, Applied
  <2>2. table'[b] = (table[b] \ m.dropped[b]) \cup m.report[b]
    BY <2>1 DEF Commit
  <2> QED BY <2>1, <2>2
<1>4. ASSUME NEW b \in Block \ Applied(m) PROVE table'[b] = table[b]
  BY DEF Commit
<1>5. ASSUME NEW b \in Block, m.report[b] # None PROVE table'[b] = m.report[b]
  <2>1. CASE b \in Applied(m)
    BY <1>3, <2>1
  <2>2. CASE b \notin Applied(m)
    <3>1. b = "inventory" /\ m.report[b] = hash
      BY <1>2, <1>5, <2>2 DEF Applied, Described
    <3> QED BY <1>4, <1>5, <2>2, <3>1 DEF SyncInv, HashIsHonest
  <2> QED BY <2>1, <2>2
<1>6. HashIsHonest'
  <2>1. CASE "inventory" \in Applied(m)
    BY <1>3, <2>1 DEF HashIsHonest, Commit
  <2>2. CASE "inventory" \notin Applied(m)
    BY <1>4, <2>2 DEF HashIsHonest, Commit, SyncInv
  <2> QED BY <2>1, <2>2
<1>7. AckedIsStored'
  <2> SUFFICES ASSUME NEW b \in Block, cache[b].gen > 0, cache[b].sent = cache[b].gen
               PROVE  table'[b] = cache[b].state
    BY <1>2 DEF AckedIsStored
  <2>1. m.report[b] = None
    BY TelemetryAssumption DEF SyncInv, CarryInv, TypeInv, AgentOK, Cache
  <2> QED BY <1>4, <2>1 DEF Applied, SyncInv, AckedIsStored
<1>8. OneInv' /\ CarryInv' /\ SeenInv'
  <2> DEFINE n == [m EXCEPT !.step = "done"]
  <2>1. n.report = m.report /\ n.gen = m.gen /\ n.live = m.live /\ n.step = "done"
    BY <1>2 DEF Heartbeat
  <2>2. reqs' \subseteq {n}
    BY DEF Commit, SyncInv, OneInv
  <2> HIDE DEF n
  <2>3. CarryInv'
    BY <1>2, <2>1, <2>2 DEF SyncInv, CarryInv
  <2>4. SeenInv'
    BY <1>5, <2>1, <2>2 DEF SeenInv
  <2> QED BY <2>2, <2>3, <2>4 DEF OneInv
<1> QED BY <1>1, <1>6, <1>7, <1>8 DEF SyncInv

\* Where no heartbeat outlives the next poll, what is acknowledged is stored, and every
\* step keeps it so.
LEMMA SyncAlways == ASSUME Late = 0 PROVE Spec => []SyncInv
<1>1. Init => SyncInv
  BY TypeInit DEF Init, SyncInv, OneInv, CarryInv, SeenInv, HashIsHonest, AckedIsStored, NoCache
<1>2. SyncInv /\ [Next]_vars => SyncInv'
  <2> SUFFICES ASSUME SyncInv, [Next]_vars PROVE SyncInv'
    OBVIOUS
  <2>1. ASSUME UNCHANGED vars \/ \E d \in Detection : Detect(d) \/ Treat(d)
        PROVE  SyncInv'
    <3>1. cache' = cache /\ reqs' = reqs /\ table' = table /\ hash' = hash
      BY <2>1 DEF vars, agent, server, Detect, Treat
    <3>2. TypeInv'
      BY TypeStep DEF SyncInv
    <3> QED BY <3>1, <3>2 DEF SyncInv, OneInv, CarryInv, SeenInv, HashIsHonest, AckedIsStored,
                              Stale, Applied, Described
  <2> QED BY <2>1, PollSync, CollectSync, AnsweredSync, LossSync, HandlerSync, CommitSync
          DEF Next
<1> QED BY <1>1, <1>2, PTL DEF Spec

\* Where no heartbeat outlives the next poll, the agent goes quiet about a block only when
\* what it collected last is what the server holds (pending, markSent).
THEOREM AckMeansStored == ASSUME Late = 0 PROVE Spec => []AckedIsStored
<1>1. SyncInv => AckedIsStored
  BY DEF SyncInv
<1> QED BY <1>1, SyncAlways, PTL

\* And the stored hash is that of the stored rows, which the short-circuit of the heartbeat
\* takes for granted (apply_inventory).
THEOREM HashTellsTheTruth == ASSUME Late = 0 PROVE Spec => []HashIsHonest
<1>1. SyncInv => HashIsHonest
  BY DEF SyncInv
<1> QED BY <1>1, SyncAlways, PTL

-----------------------------------------------------------------------------
(* The worker, its jobs and its outbox (WorkerMail).                        *)

\* The period of a job, in hours.
Length(j) == IF j = "reminders" THEN DaysPerWeek * HoursPerDay ELSE HoursPerDay

\* An hour at which a job with these parameters may run.
FitsHour(j, params, t) ==
  HourOf(t) = params.hour /\ (j = "reminders" => Weekday(t) = params.weekday)

ParamSet == {Params(j, policy) : j \in Jobs, policy \in SchedulePolicy}

JobRow == [next : Nat, last : Nat \cup {Never}, aimed : Nat, params : ParamSet]

Todos == SUBSET (Jobs \cup {"outbox"})

WorkerRow == [pc : {"down", "apply", "run", "drain"}, life : Nat, now : Nat \cup {Never},
              policy : SchedulePolicy \cup {NoPolicy}, todo : Todos]

MailShape ==
  /\ now \in 0 .. Horizon
  /\ conf \in [schedule : SchedulePolicy, mail : BOOLEAN]
  /\ worker \in WorkerRow
  /\ jobs \in [Jobs -> JobRow]
  /\ mails \in [Mails -> MailRow]
  /\ drain = [enabled |-> drain.enabled, left |-> drain.left, rows |-> drain.rows]
  /\ drain.enabled \in BOOLEAN /\ drain.left \subseteq Mails
  /\ DOMAIN drain.rows \subseteq Mails /\ drain.rows \in [DOMAIN drain.rows -> MailRow]
  /\ lost \in 0 .. MaxCrashes
  /\ requests \in 0 .. MaxRequests

\* The hour up to which the jobs were looked at.
Looked(w, t) == IF w.now = Never THEN t ELSE w.now

ClockOK(w, t) ==
  /\ w.now <= t
  /\ w.pc \in {"down", "apply"} => w.todo = {}
  /\ w.pc # "down" /\ w.now = Never => w.todo = {}
  /\ w.pc # "down" /\ w.now # Never => t <= w.now + 1

\* A job that last ran at n at the latest is given an hour that fits, past the
\* period of that run, and no further than the next one.
JobAim(j, m, n) ==
  /\ \E policy \in SchedulePolicy : m.params = Params(j, policy)
  /\ FitsHour(j, m.params, m.next)
  /\ m.last # Never => m.last <= n /\ Period(j, m.last) < Period(j, m.next)
  /\ \/ Period(j, m.next) <= Period(j, m.aimed) + 1
     \/ m.last # Never /\ Period(j, m.next) <= Period(j, m.last) + 1

JobOK(j, m, w, t) ==
  /\ JobAim(j, m, w.now)
  /\ w.pc # "down" /\ j \in w.todo => m.next = w.now
  /\ w.pc # "down" /\ j \notin w.todo => Looked(w, t) < m.next

\* A row that says what happened to its mail, when n drains were lost.
Written(m, n) ==
  /\ m.status = "none" => m.tries = 0 /\ m.delivered = 0
  /\ m.status = "pending" =>
       /\ m.delivered <= n /\ m.attempts < MaxAttempts
       /\ m.attempts <= m.tries /\ m.tries <= m.attempts + n
  /\ m.status \in {"sent", "purged"} => m.delivered <= n + 1 /\ m.tries <= MaxAttempts + n
  /\ m.status = "sent" => m.delivered >= 1
  /\ m.status = "abandoned" => /\ m.delivered <= n
                               /\ m.tries >= MaxAttempts /\ m.tries <= MaxAttempts + n
  /\ m.status = "purged" => m.delivered >= 1 \/ m.tries >= MaxAttempts

\* What the commit would write.
Committed(r, m) == [r EXCEPT !.tries = m.tries, !.delivered = m.delivered]

MailOK(k, m, d, n) ==
  /\ k \in DOMAIN d.rows => m.status = "pending"
  /\ k \in d.left => k \in DOMAIN d.rows /\ d.rows[k] = m
  /\ k \in DOMAIN d.rows \ d.left => Written(m, n + 1) /\ Written(Committed(d.rows[k], m), n)
  /\ k \notin DOMAIN d.rows \ d.left => Written(m, n)

DrainOK(w, d) == w.pc # "drain" => d = NoDrain

MailInv ==
  /\ MailShape
  /\ ClockOK(worker, now) /\ DrainOK(worker, drain)
  /\ \A j \in Jobs : JobOK(j, jobs[j], worker, now)
  /\ \A k \in Mails : MailOK(k, mails[k], drain, lost)

(***************************************************************************)
(* The calendar.                                                           *)
(***************************************************************************)
LEMMA Split ==
  ASSUME NEW b \in Nat \ {0}, NEW a \in Int
  PROVE  a = b * (a \div b) + (a % b) /\ a % b \in 0 .. b - 1 /\ a \div b \in Int
BY SMT

LEMMA Joined ==
  ASSUME NEW b \in Nat \ {0}, NEW q \in Int, NEW r \in 0 .. b - 1
  PROVE  (b * q + r) \div b = q /\ (b * q + r) % b = r
BY SMT

LEMMA Monotone ==
  ASSUME NEW b \in Nat \ {0}, NEW s \in Int, NEW t \in Int, s <= t
  PROVE  s \div b <= t \div b
BY SMT

\* n periods later is n periods later, at the same point.
LEMMA PeriodsLater ==
  ASSUME NEW b \in Nat \ {0}, NEW n \in Int, NEW t \in Int
  PROVE  (t + b * n) \div b = t \div b + n /\ (t + b * n) % b = t % b
<1> DEFINE q == t \div b  r == t % b
<1>1. t = b * q + r /\ r \in 0 .. b - 1 /\ q \in Int
  BY Split
<1> HIDE DEF q, r
<1>2. t + b * n = b * (q + n) + r
  BY <1>1
<1>3. (b * (q + n) + r) \div b = q + n /\ (b * (q + n) + r) % b = r
  BY <1>1, Joined
<1> QED  BY <1>2, <1>3 DEF q, r

LEMMA OnePeriodLater ==
  ASSUME NEW b \in Nat \ {0}, NEW t \in Int
  PROVE  (t + b) \div b = t \div b + 1 /\ (t + b) % b = t % b
<1> DEFINE q == t \div b  r == t % b
<1>1. t = b * q + r /\ r \in 0 .. b - 1 /\ q \in Int
  BY Split
<1> HIDE DEF q, r
<1>2. t + b = b * (q + 1) + r
  BY <1>1
<1>3. (b * (q + 1) + r) \div b = q + 1 /\ (b * (q + 1) + r) % b = r
  BY <1>1, Joined
<1> QED  BY <1>2, <1>3 DEF q, r

LEMMA DayFacts ==
  ASSUME HoursPerDay \in Nat \ {0}, NEW t \in Int
  PROVE  /\ Day(t) \in Int /\ HourOf(t) \in 0 .. HoursPerDay - 1
         /\ t = HoursPerDay * Day(t) + HourOf(t)
BY Split DEF Day, HourOf

LEMMA WeekFacts ==
  ASSUME HoursPerDay \in Nat \ {0}, DaysPerWeek \in Nat \ {0}, NEW t \in Int
  PROVE  /\ Week(t) \in Int /\ Weekday(t) \in 0 .. DaysPerWeek - 1
         /\ Day(t) = DaysPerWeek * Week(t) + Weekday(t)
<1>1. Day(t) \in Int
  BY DayFacts
<1> QED  BY <1>1, Split DEF Week, Weekday

LEMMA Periods ==
  ASSUME HoursPerDay \in Nat \ {0}, DaysPerWeek \in Nat \ {0}, NEW j, NEW t \in Int
  PROVE  /\ Period(j, t) \in Int /\ Length(j) \in Nat \ {0}
         /\ Period(j, t + Length(j)) = Period(j, t) + 1
<1>1. Day(t) \in Int /\ Week(t) \in Int
  BY DayFacts, WeekFacts
<1>2. Day(t + HoursPerDay) = Day(t) + 1
  BY OnePeriodLater DEF Day
<1>3. /\ Day(t + HoursPerDay * DaysPerWeek) = Day(t) + DaysPerWeek
  BY PeriodsLater DEF Day
<1>4. Week(t + HoursPerDay * DaysPerWeek) = Week(t) + 1
  BY <1>1, <1>3, OnePeriodLater DEF Week
<1>5. /\ DaysPerWeek * HoursPerDay = HoursPerDay * DaysPerWeek
      /\ DaysPerWeek * HoursPerDay \in Nat \ {0}
  OBVIOUS
<1> QED  BY <1>1, <1>2, <1>4, <1>5 DEF Period, Length

LEMMA PeriodsGrow ==
  ASSUME HoursPerDay \in Nat \ {0}, DaysPerWeek \in Nat \ {0}, NEW j,
         NEW s \in Int, NEW t \in Int, s <= t
  PROVE  Period(j, s) <= Period(j, t)
<1>1. Day(s) <= Day(t) /\ Day(s) \in Int /\ Day(t) \in Int
  BY Monotone, DayFacts DEF Day
<1>2. Week(s) <= Week(t)
  BY <1>1, Monotone DEF Week
<1> QED  BY <1>1, <1>2 DEF Period

LEMMA PeriodNear ==
  ASSUME HoursPerDay \in Nat \ {0}, DaysPerWeek \in Nat \ {0}, NEW j,
         NEW s \in Int, NEW t \in Int, t <= s + Length(j)
  PROVE  Period(j, t) <= Period(j, s) + 1
<1>1. Length(j) \in Nat /\ Period(j, s + Length(j)) = Period(j, s) + 1
  BY Periods
<1>2. s + Length(j) \in Int
  BY <1>1
<1>3. Period(j, t) <= Period(j, s + Length(j))
  BY <1>2, PeriodsGrow
<1> QED  BY <1>1, <1>3

\* The next run is the first hour that fits.
LEMMA DailyFacts ==
  ASSUME HoursPerDay \in Nat \ {0}, NEW hour \in 0 .. HoursPerDay - 1, NEW t \in Nat
  PROVE  LET n == DailyAt(hour, t)
         IN  /\ n \in Nat /\ t < n /\ n <= t + HoursPerDay
             /\ HourOf(n) = hour
             /\ HourOf(t) = hour => n = t + HoursPerDay
<1> DEFINE c == Day(t) * HoursPerDay + hour
<1>1. /\ Day(t) \in Int /\ HourOf(t) \in 0 .. HoursPerDay - 1
      /\ t = HoursPerDay * Day(t) + HourOf(t)
  BY DayFacts
<1>2. c = HoursPerDay * Day(t) + hour /\ c \in Int
  BY <1>1
<1>3. HourOf(c) = hour
  BY <1>1, <1>2, Joined DEF HourOf
<1>4. HourOf(c + HoursPerDay) = hour
  <2>2. c \in Int /\ c % HoursPerDay = hour
    BY <1>2, <1>3 DEF HourOf
  <2> HIDE DEF c
  <2>3. (c + HoursPerDay) % HoursPerDay = c % HoursPerDay
    BY <2>2, OnePeriodLater
  <2> QED  BY <2>2, <2>3 DEF HourOf
<1>5. /\ t < c + HoursPerDay /\ c < t + HoursPerDay
      /\ HourOf(t) = hour => c = t
  <2> DEFINE k == HoursPerDay * Day(t)
  <2>1. k \in Int /\ c = k + hour /\ t = k + HourOf(t)
    BY <1>1, <1>2
  <2> HIDE DEF k, c
  <2> QED  BY <2>1, <1>1
<1>6. DailyAt(hour, t) = IF c <= t THEN c + HoursPerDay ELSE c
  BY DEF DailyAt
<1> HIDE DEF c
<1> QED  BY <1>2, <1>3, <1>4, <1>5, <1>6

LEMMA WeeklyFacts ==
  ASSUME HoursPerDay \in Nat \ {0}, DaysPerWeek \in Nat \ {0},
         NEW hour \in 0 .. HoursPerDay - 1, NEW weekday \in 0 .. DaysPerWeek - 1, NEW t \in Nat
  PROVE  LET n == WeeklyAt(weekday, hour, t)
         IN  /\ n \in Nat /\ t < n /\ n <= t + DaysPerWeek * HoursPerDay
             /\ HourOf(n) = hour /\ Weekday(n) = weekday
             /\ HourOf(t) = hour /\ Weekday(t) = weekday => n = t + DaysPerWeek * HoursPerDay
<1> DEFINE ahead == (weekday - Weekday(t)) % DaysPerWeek
           d == Day(t) + ahead
           c == d * HoursPerDay + hour
           W == DaysPerWeek * HoursPerDay
<1>1. /\ Day(t) \in Int /\ HourOf(t) \in 0 .. HoursPerDay - 1
      /\ t = HoursPerDay * Day(t) + HourOf(t)
  BY DayFacts
<1>2. /\ Week(t) \in Int /\ Weekday(t) \in 0 .. DaysPerWeek - 1
      /\ Day(t) = DaysPerWeek * Week(t) + Weekday(t)
  BY WeekFacts
<1>3. ahead = IF weekday >= Weekday(t) THEN weekday - Weekday(t)
              ELSE weekday - Weekday(t) + DaysPerWeek
  <2>1. CASE weekday >= Weekday(t)
    <3>1. weekday - Weekday(t) = DaysPerWeek * 0 + (weekday - Weekday(t))
          /\ weekday - Weekday(t) \in 0 .. DaysPerWeek - 1
      BY <2>1, <1>2
    <3> QED  BY <3>1, <2>1, Joined
  <2>2. CASE weekday < Weekday(t)
    <3>1. weekday - Weekday(t) = DaysPerWeek * (-1) + (weekday - Weekday(t) + DaysPerWeek)
          /\ weekday - Weekday(t) + DaysPerWeek \in 0 .. DaysPerWeek - 1
      BY <2>2, <1>2
    <3> DEFINE e == weekday - Weekday(t) + DaysPerWeek
    <3>2. e \in 0 .. DaysPerWeek - 1 /\ -1 \in Int
      BY <3>1
    <3> HIDE DEF e
    <3>3. (DaysPerWeek * (-1) + e) % DaysPerWeek = e
      BY <3>2, Joined
    <3>4. weekday - Weekday(t) = DaysPerWeek * (-1) + e
      BY <3>1 DEF e
    <3>5. ahead = e
      BY <3>3, <3>4
    <3> QED  BY <3>5, <2>2, <1>2 DEF e
  <2> QED  BY <2>1, <2>2, <1>2
<1> HIDE DEF ahead
<1>4. ahead \in 0 .. DaysPerWeek - 1 /\ d \in Int
  BY <1>1, <1>2, <1>3
<1>5. d % DaysPerWeek = weekday
  <2> DEFINE q == IF weekday >= Weekday(t) THEN Week(t) ELSE Week(t) + 1
  <2>1. q \in Int /\ d = DaysPerWeek * q + weekday
    BY <1>2, <1>3
  <2> HIDE DEF q, d
  <2> QED  BY <2>1, Joined
<1>6. c = HoursPerDay * d + hour /\ c \in Int
  BY <1>4
<1>7. HourOf(c) = hour /\ Day(c) = d
  BY <1>4, <1>6, Joined DEF HourOf, Day
<1>8. Weekday(c) = weekday
  BY <1>5, <1>7 DEF Weekday
<1>9. W = HoursPerDay * DaysPerWeek /\ W \in Nat
  OBVIOUS
<1>10. HourOf(c + W) = hour /\ Day(c + W) = d + DaysPerWeek
  <2>1. /\ (c + HoursPerDay * DaysPerWeek) \div HoursPerDay = c \div HoursPerDay + DaysPerWeek
        /\ (c + HoursPerDay * DaysPerWeek) % HoursPerDay = c % HoursPerDay
    BY <1>6, PeriodsLater
  <2> QED  BY <2>1, <1>7, <1>9 DEF HourOf, Day
<1>11. Weekday(c + W) = weekday
  <2> HIDE DEF d
  <2>1. (d + DaysPerWeek) % DaysPerWeek = d % DaysPerWeek
    BY <1>4, OnePeriodLater
  <2> QED  BY <1>5, <1>10, <2>1 DEF Weekday
<1>12. /\ t < c + W /\ c < t + W
       /\ HourOf(t) = hour /\ Weekday(t) = weekday => c = t
  <2> DEFINE k == HoursPerDay * Day(t)
             a == HoursPerDay * ahead
  <2>1. c = k + a + hour /\ t = k + HourOf(t) /\ k \in Int /\ a \in Nat
    BY <1>1, <1>4, <1>6
  <2>2. a + HoursPerDay <= W
    <3>1. ahead + 1 <= DaysPerWeek /\ ahead + 1 \in Nat
      BY <1>4
    <3>2. HoursPerDay * (ahead + 1) <= HoursPerDay * DaysPerWeek
      BY <3>1
    <3> QED  BY <3>2, <1>4, <1>9
  <2>3. Weekday(t) = weekday => a = 0
    BY <1>2, <1>3
  <2> HIDE DEF k, a, c, W, d
  <2> QED  BY <2>1, <2>2, <2>3, <1>1, <1>9
<1>13. WeeklyAt(weekday, hour, t) = IF c <= t THEN c + W ELSE c
  BY DEF WeeklyAt, ahead
<1> HIDE DEF c, W, d
<1> QED  BY <1>6, <1>7, <1>8, <1>9, <1>10, <1>11, <1>12, <1>13 DEF W

LEMMA ParamsFacts ==
  ASSUME NEW j \in Jobs, NEW policy \in SchedulePolicy
  PROVE  /\ Params(j, policy).hour \in 0 .. HoursPerDay - 1
         /\ j = "reminders" => Params(j, policy).weekday \in 0 .. DaysPerWeek - 1
BY CalendarAssumption DEF Jobs, MailJobs, SchedulePolicy, Params

LEMMA NextFits ==
  ASSUME NEW j \in Jobs, NEW policy \in SchedulePolicy, NEW t \in Nat
  PROVE  LET p == Params(j, policy)
             n == NextRun(j, p, t)
         IN  /\ n \in Nat /\ t < n /\ n <= t + Length(j) /\ FitsHour(j, p, n)
             /\ FitsHour(j, p, t) => n = t + Length(j)
<1> DEFINE p == Params(j, policy)
<1>1. HoursPerDay \in Nat \ {0} /\ DaysPerWeek \in Nat \ {0}
  BY CalendarAssumption
<1>2. p.hour \in 0 .. HoursPerDay - 1 /\ (j = "reminders" => p.weekday \in 0 .. DaysPerWeek - 1)
  BY ParamsFacts
<1> HIDE DEF p
<1>3. CASE j = "reminders"
  <2>1. NextRun(j, p, t) = WeeklyAt(p.weekday, p.hour, t) /\ Length(j) = DaysPerWeek * HoursPerDay
    BY <1>3 DEF NextRun, Length
  <2> DEFINE n == WeeklyAt(p.weekday, p.hour, t)
  <2>2. /\ n \in Nat /\ t < n /\ n <= t + DaysPerWeek * HoursPerDay
        /\ HourOf(n) = p.hour /\ Weekday(n) = p.weekday
        /\ HourOf(t) = p.hour /\ Weekday(t) = p.weekday => n = t + DaysPerWeek * HoursPerDay
    BY <1>1, <1>2, <1>3, WeeklyFacts
  <2> HIDE DEF n
  <2> QED  BY <1>3, <2>1, <2>2 DEF FitsHour, n, p
<1>4. CASE j # "reminders"
  <2>1. NextRun(j, p, t) = DailyAt(p.hour, t) /\ Length(j) = HoursPerDay
    BY <1>4 DEF NextRun, Length
  <2> QED  BY <1>1, <1>2, <1>4, <2>1, DailyFacts DEF FitsHour, p
<1> QED  BY <1>3, <1>4

(***************************************************************************)
(* The rows of the outbox.                                                 *)
(***************************************************************************)
LEMMA OutboxFacts ==
  /\ IsFiniteSet(Mails) /\ IsFiniteSet(Accounts)
  /\ MaxAttempts \in Nat \ {0} /\ RetryBase \in Nat /\ RetryMax \in Nat
  /\ MaxRequests \in Nat /\ MaxCrashes \in Nat
  /\ \A k \in 0 .. MaxAttempts - 1 : 2 ^ k \in Nat
BY OutboxAssumption

LEMMA NewMailRow ==
  ASSUME NEW a \in Accounts, NEW n \in Nat, now \in Nat, MaxAttempts \in Nat \ {0}
  PROVE  NewMail(a) \in MailRow /\ NewMail(a).status = "pending" /\ Written(NewMail(a), n)
<1>1. NoMail \in MailRow /\ NoMail.attempts = 0 /\ NoMail.tries = 0 /\ NoMail.delivered = 0
  BY DEF NoMail, MailRow
<1>2. ASSUME NEW m \in MailRow
      PROVE  LET q == [m EXCEPT !.status = "pending", !.to = a, !.created = now, !.next = now]
             IN  /\ q \in MailRow /\ q.status = "pending" /\ q.attempts = m.attempts
                 /\ q.tries = m.tries /\ q.delivered = m.delivered
  BY DEF MailRow
<1> DEFINE q == NewMail(a)
<1>3. /\ q \in MailRow /\ q.status = "pending" /\ q.attempts = 0
      /\ q.tries = 0 /\ q.delivered = 0
  BY <1>1, <1>2 DEF NewMail
<1> HIDE DEF q
<1>4. Written(q, n)
  BY <1>3 DEF Written
<1> QED  BY <1>3, <1>4 DEF q

LEMMA WrittenGrows ==
  ASSUME NEW m \in MailRow, NEW n \in Nat, Written(m, n), MaxAttempts \in Nat
  PROVE  Written(m, n + 1)
BY DEF Written, MailRow

LEMMA CommittedRow ==
  ASSUME NEW r \in MailRow, NEW m \in MailRow
  PROVE  /\ Committed(r, m) \in MailRow
         /\ Committed(r, m).status = r.status /\ Committed(r, m).attempts = r.attempts
         /\ Committed(r, m).tries = m.tries /\ Committed(r, m).delivered = m.delivered
BY DEF Committed, MailRow

\* One try: what the table holds then, and what the commit is going to write.
Tried(m, ok) == [m EXCEPT !.tries = @ + 1, !.delivered = IF ok THEN @ + 1 ELSE @]

Outcome(m, ok) == IF ok THEN Accepted(m) ELSE Failed(m)

Tallied(m, t, d) == [m EXCEPT !.tries = t, !.delivered = d]
GivenUp(m, k)   == [m EXCEPT !.attempts = k, !.status = "abandoned"]
PutOff(m, k, t) == [m EXCEPT !.attempts = k, !.next = t]

LEMMA TalliedRow ==
  ASSUME NEW m \in MailRow, NEW t \in Nat, NEW d \in Nat
  PROVE  /\ Tallied(m, t, d) \in MailRow
         /\ Tallied(m, t, d).status = m.status /\ Tallied(m, t, d).attempts = m.attempts
         /\ Tallied(m, t, d).tries = t /\ Tallied(m, t, d).delivered = d
BY DEF Tallied, MailRow

LEMMA GivenUpRow ==
  ASSUME NEW m \in MailRow, NEW k \in Nat
  PROVE  /\ GivenUp(m, k) \in MailRow
         /\ GivenUp(m, k).attempts = k /\ GivenUp(m, k).status = "abandoned"
BY DEF GivenUp, MailRow

LEMMA PutOffRow ==
  ASSUME NEW m \in MailRow, NEW k \in Nat, NEW t \in Nat
  PROVE  /\ PutOff(m, k, t) \in MailRow
         /\ PutOff(m, k, t).attempts = k /\ PutOff(m, k, t).status = m.status
BY DEF PutOff, MailRow

LEMMA TriedRow ==
  ASSUME NEW m \in MailRow, NEW ok \in BOOLEAN
  PROVE  /\ Tried(m, ok) \in MailRow
         /\ Tried(m, ok).status = m.status /\ Tried(m, ok).attempts = m.attempts
         /\ Tried(m, ok).tries = m.tries + 1
         /\ Tried(m, ok).delivered = IF ok THEN m.delivered + 1 ELSE m.delivered
<1> DEFINE more == IF ok THEN m.delivered + 1 ELSE m.delivered
<1>1. more \in Nat /\ m.tries + 1 \in Nat
  BY DEF MailRow
<1>2. Tried(m, ok) = Tallied(m, m.tries + 1, more)
  BY DEF Tried, Tallied
<1> HIDE DEF more
<1> DEFINE t == m.tries + 1
<1> HIDE DEF t
<1>3. t \in Nat
  BY <1>1 DEF t
<1>4. /\ Tallied(m, t, more) \in MailRow
      /\ Tallied(m, t, more).status = m.status /\ Tallied(m, t, more).attempts = m.attempts
      /\ Tallied(m, t, more).tries = t /\ Tallied(m, t, more).delivered = more
  BY <1>1, <1>3, TalliedRow
<1> QED  BY <1>2, <1>4 DEF more, t

LEMMA RetryDelayType ==
  ASSUME NEW n \in 1 .. MaxAttempts
  PROVE  RetryDelay(n) \in Nat
<1>1. n - 1 \in 0 .. MaxAttempts - 1 /\ RetryBase \in Nat /\ RetryMax \in Nat
  BY OutboxFacts
<1>2. 2 ^ (n - 1) \in Nat
  BY <1>1, OutboxFacts
<1> QED  BY <1>1, <1>2 DEF RetryDelay, Smaller

LEMMA OutcomeRow ==
  ASSUME now \in Nat, NEW m \in MailRow, m.attempts < MaxAttempts,
         m.status = "pending", NEW ok \in BOOLEAN
  PROVE  /\ Outcome(m, ok) \in MailRow
         /\ ok => Outcome(m, ok).status = "sent" /\ Outcome(m, ok).attempts = m.attempts
         /\ ~ok => /\ Outcome(m, ok).attempts = m.attempts + 1
                   /\ Outcome(m, ok).status = IF m.attempts + 1 >= MaxAttempts THEN "abandoned"
                                                                          ELSE "pending"
<1> DEFINE n == m.attempts + 1
<1>1. n \in 1 .. MaxAttempts /\ m.attempts \in Nat /\ MaxAttempts \in Nat
  BY OutboxFacts DEF MailRow
<1>2. RetryDelay(n) \in Nat
  BY <1>1, RetryDelayType
<1>3. CASE ok
  BY <1>3 DEF Outcome, Accepted, MailRow
<1>4. CASE ~ok /\ n >= MaxAttempts
  <2>1. Outcome(m, ok) = GivenUp(m, n)
    BY <1>4 DEF Outcome, Failed, GivenUp
  <2>2. n \in Nat
    BY <1>1
  <2> HIDE DEF n
  <2>3. /\ GivenUp(m, n) \in MailRow
        /\ GivenUp(m, n).attempts = n /\ GivenUp(m, n).status = "abandoned"
    BY <2>2, GivenUpRow
  <2> QED  BY <1>4, <2>1, <2>3 DEF n
<1>5. CASE ~ok /\ ~(n >= MaxAttempts)
  <2>1. Outcome(m, ok) = PutOff(m, n, now + RetryDelay(n))
    BY <1>5 DEF Outcome, Failed, PutOff
  <2>2. n \in Nat
    BY <1>1
  <2>3. now + RetryDelay(n) \in Nat
    BY <1>2
  <2>4. \A k, t \in Nat : /\ PutOff(m, k, t) \in MailRow
                          /\ PutOff(m, k, t).attempts = k /\ PutOff(m, k, t).status = m.status
    BY PutOffRow
  <2>5. \A t \in Nat : /\ PutOff(m, n, t) \in MailRow
                       /\ PutOff(m, n, t).attempts = n /\ PutOff(m, n, t).status = m.status
    BY <2>2, <2>4
  <2>6. PICK t \in Nat : t = now + RetryDelay(n)
    BY <2>3
  <2> HIDE DEF n
  <2> QED  BY <1>5, <2>1, <2>5, <2>6 DEF n
<1> QED  BY <1>3, <1>4, <1>5

LEMMA TryWrites ==
  ASSUME now \in Nat, NEW m \in MailRow, m.status = "pending",
         NEW n \in Nat, Written(m, n), NEW ok \in BOOLEAN
  PROVE  /\ Written(Tried(m, ok), n + 1)
         /\ Written(Committed(Outcome(m, ok), Tried(m, ok)), n)
<1> DEFINE t == Tried(m, ok)  r == Outcome(m, ok)  c == Committed(r, t)
<1>1. /\ m.attempts < MaxAttempts /\ MaxAttempts \in Nat
      /\ m.attempts \in Nat /\ m.tries \in Nat /\ m.delivered \in Nat
  BY OutboxFacts DEF Written, MailRow
<1>2. /\ t \in MailRow /\ t.status = m.status /\ t.attempts = m.attempts
      /\ t.tries = m.tries + 1 /\ t.delivered = IF ok THEN m.delivered + 1 ELSE m.delivered
  BY TriedRow
<1>3. /\ r \in MailRow
      /\ ok => r.status = "sent" /\ r.attempts = m.attempts
      /\ ~ok => /\ r.attempts = m.attempts + 1
                /\ r.status = IF m.attempts + 1 >= MaxAttempts THEN "abandoned" ELSE "pending"
  BY <1>1, OutcomeRow
<1> HIDE DEF t, r
<1>4. /\ c.status = r.status /\ c.attempts = r.attempts
      /\ c.tries = t.tries /\ c.delivered = t.delivered
  BY <1>2, <1>3, CommittedRow
<1> HIDE DEF c
<1>5. Written(t, n + 1)
  BY <1>1, <1>2 DEF Written
<1>6. Written(c, n)
  BY <1>1, <1>2, <1>3, <1>4 DEF Written
<1> QED  BY <1>5, <1>6 DEF c, t, r

\* There is a row for each recipient when there are as many free ones.
LEMMA SlotsFor ==
  ASSUME NEW R, NEW F, IsFiniteSet(R), IsFiniteSet(F), Cardinality(R) <= Cardinality(F)
  PROVE  \E f \in [R -> F] : \A a, b \in R : f[a] = f[b] => a = b
<1> DEFINE n == Cardinality(R)  k == Cardinality(F)
<1>1. n \in Nat /\ k \in Nat /\ ExistsBijection(1 .. n, R) /\ ExistsBijection(1 .. k, F)
  BY FS_CardinalityType
<1>2. ExistsInjection(R, 1 .. n) /\ ExistsInjection(1 .. k, F)
  BY <1>1, Fun_ExistsBijEquiv
<1>3. ExistsInjection(1 .. n, 1 .. k)
  BY <1>1, Fun_NatInjLeq
<1> HIDE DEF n, k
<1>4. ExistsInjection(R, 1 .. k)
  BY <1>2, <1>3, Fun_ExistsInjTransitive
<1>5. ExistsInjection(R, F)
  BY <1>2, <1>4, Fun_ExistsInjTransitive
<1>6. PICK f \in [R -> F] : IsInjective(f)
  BY <1>5 DEF ExistsInjection, Injection
<1> QED  BY <1>6 DEF IsInjective

LEMMA QueuedRows ==
  ASSUME mails \in [Mails -> MailRow], now \in Nat,
         NEW R \in SUBSET Accounts, Cardinality(R) <= Cardinality(Free)
  PROVE  /\ Queued(R) \in [Mails -> MailRow]
         /\ \A k \in Mails : \/ Queued(R)[k] = mails[k]
                             \/ k \in Free /\ \E a \in R : Queued(R)[k] = NewMail(a)
<1>1. Free \subseteq Mails /\ IsFiniteSet(Free) /\ IsFiniteSet(R)
  BY OutboxFacts, FS_Subset DEF Free
<1> DEFINE slot == CHOOSE f \in [R -> Free] : \A a, b \in R : f[a] = f[b] => a = b
<1>2. slot \in [R -> Free]
  BY <1>1, SlotsFor
<1>3. Queued(R) = [m \in Mails |-> IF \E a \in R : slot[a] = m
                                  THEN NewMail(CHOOSE a \in R : slot[a] = m) ELSE mails[m]]
  BY DEF Queued
<1> HIDE DEF slot
<1>4. ASSUME NEW k \in Mails
      PROVE  /\ Queued(R)[k] \in MailRow
             /\ \/ Queued(R)[k] = mails[k]
                \/ k \in Free /\ \E a \in R : Queued(R)[k] = NewMail(a)
  <2>1. CASE \E a \in R : slot[a] = k
    <3> DEFINE a == CHOOSE a \in R : slot[a] = k
    <3>1. a \in R /\ slot[a] = k
      BY <2>1
    <3>2. Queued(R)[k] = NewMail(a)
      BY <1>3, <2>1
    <3> HIDE DEF a
    <3>3. k \in Free /\ NewMail(a) \in MailRow
      BY <1>2, <3>1, OutboxFacts, NewMailRow
    <3> QED  BY <3>1, <3>2, <3>3
  <2>2. CASE ~ \E a \in R : slot[a] = k
    BY <1>3, <2>2
  <2> QED  BY <2>1, <2>2
<1>5. Queued(R) = [m \in Mails |-> Queued(R)[m]]
  BY <1>3
<1> QED  BY <1>4, <1>5

(***************************************************************************)
(* The hours of a job.                                                     *)
(***************************************************************************)
LEMMA CalendarFacts ==
  HoursPerDay \in Nat \ {0} /\ DaysPerWeek \in Nat \ {0} /\ Horizon \in Nat
BY CalendarAssumption

Aimed(m, n, params, t) == [m EXCEPT !.next = n, !.params = params, !.aimed = t]
Ran(m, n, t)           == [m EXCEPT !.next = n, !.last = t]

LEMMA AimedRow ==
  ASSUME NEW m \in JobRow, NEW n \in Nat, NEW q \in ParamSet, NEW t \in Nat
  PROVE  /\ Aimed(m, n, q, t) \in JobRow
         /\ Aimed(m, n, q, t).next = n /\ Aimed(m, n, q, t).params = q
         /\ Aimed(m, n, q, t).aimed = t /\ Aimed(m, n, q, t).last = m.last
BY DEF Aimed, JobRow

LEMMA RanRow ==
  ASSUME NEW m \in JobRow, NEW n \in Nat, NEW t \in Nat
  PROVE  /\ Ran(m, n, t) \in JobRow
         /\ Ran(m, n, t).next = n /\ Ran(m, n, t).last = t
         /\ Ran(m, n, t).params = m.params /\ Ran(m, n, t).aimed = m.aimed
BY DEF Ran, JobRow

LEMMA JobKept ==
  ASSUME NEW j, NEW m, NEW w, NEW v, NEW t, JobOK(j, m, w, t), v.now = w.now,
         v.pc = "down" \/ (w.pc # "down" /\ (j \in v.todo <=> j \in w.todo))
  PROVE  JobOK(j, m, v, t)
BY DEF JobOK, Looked

\* An aim taken at t: the first hour that fits, or one period later if the
\* period of that one was served.
LEMMA JobAimed ==
  ASSUME NEW j \in Jobs, NEW policy \in SchedulePolicy,
         NEW t \in Nat, NEW last \in Nat \cup {Never}, NEW n \in Nat \cup {Never},
         last # Never => last <= n, n <= t
  PROVE  LET q     == Params(j, policy)
             first == NextRun(j, q, t)
             next  == IF last # Never /\ SamePeriod(j, last, first)
                      THEN NextRun(j, q, first) ELSE first
         IN  /\ first \in Nat /\ next \in Nat /\ t < next /\ FitsHour(j, q, next)
             /\ last # Never => Period(j, last) < Period(j, next)
             /\ \/ Period(j, next) <= Period(j, t) + 1
                \/ last # Never /\ Period(j, next) <= Period(j, last) + 1
<1> DEFINE q     == Params(j, policy)
           first == NextRun(j, q, t)
           second == NextRun(j, q, first)
<1>1. first \in Nat /\ t < first /\ first <= t + Length(j) /\ FitsHour(j, q, first)
  BY NextFits
<1>2. second = first + Length(j) /\ FitsHour(j, q, second) /\ second \in Nat
  BY <1>1, NextFits
<1> HIDE DEF first, second, q
<1>3. HoursPerDay \in Nat \ {0} /\ DaysPerWeek \in Nat \ {0}
  BY CalendarFacts
<1>4. /\ Period(j, t) \in Int /\ Period(j, first) \in Int /\ Length(j) \in Nat
      /\ Period(j, second) = Period(j, first) + 1
  BY <1>1, <1>2, <1>3, Periods
<1>5. Period(j, first) <= Period(j, t) + 1
  BY <1>1, <1>3, PeriodNear
<1>6. CASE last # Never
  <2>1. last \in Int /\ last <= first
    BY <1>1, <1>6 DEF Never
  <2>2. Period(j, last) <= Period(j, first) /\ Period(j, last) \in Int
    BY <1>1, <1>3, <2>1, Periods, PeriodsGrow
  <2> QED  BY <1>1, <1>2, <1>4, <1>5, <2>2 DEF SamePeriod, first, second, q
<1>7. CASE last = Never
  BY <1>1, <1>5, <1>7 DEF first, q
<1> QED  BY <1>6, <1>7

LEMMA JobFresh ==
  ASSUME NEW j \in Jobs, NEW policy \in SchedulePolicy, NEW t \in Nat,
         NEW w, w.now = Never, w.todo = {}
  PROVE  BuildJobs(t, policy)[j] \in JobRow /\ JobOK(j, BuildJobs(t, policy)[j], w, t)
<1> DEFINE q == Params(j, policy)  n == NextRun(j, q, t)  m == BuildJobs(t, policy)[j]
<1>1. m = [next |-> n, last |-> Never, params |-> q, aimed |-> t]
  BY DEF BuildJobs
<1>2. n \in Nat /\ t < n /\ n <= t + Length(j) /\ FitsHour(j, q, n)
  BY NextFits
<1>3. Period(j, n) <= Period(j, t) + 1
  BY <1>2, CalendarFacts, PeriodNear
<1>4. q \in ParamSet
  BY DEF ParamSet
<1> HIDE DEF n
<1>5. m \in JobRow
  BY <1>1, <1>2, <1>4 DEF JobRow
<1>6. JobAim(j, m, w.now)
  BY <1>1, <1>2, <1>3 DEF JobAim
<1>7. Looked(w, t) < m.next
  BY <1>1, <1>2 DEF Looked
<1> QED  BY <1>5, <1>6, <1>7 DEF JobOK

LEMMA JobReaimed ==
  ASSUME NEW j \in Jobs, NEW policy \in SchedulePolicy, NEW t \in Nat,
         NEW m \in JobRow, NEW w, w.now \in Nat \cup {Never}, w.pc = "apply",
         ClockOK(w, t), JobOK(j, m, w, t)
  PROVE  /\ m.next >= t
         /\ Reaim(j, m, policy, t) \in JobRow
         /\ Reaim(j, m, policy, t).next >= t /\ JobAim(j, Reaim(j, m, policy, t), w.now)
<1> DEFINE q     == Params(j, policy)
           first == NextRun(j, q, t)
           next  == IF m.last # Never /\ SamePeriod(j, m.last, first)
                    THEN NextRun(j, q, first) ELSE first
           a     == Reaim(j, m, policy, t)
<1>1. JobAim(j, m, w.now) /\ Looked(w, t) < m.next /\ m.next \in Nat
  BY DEF JobOK, ClockOK, JobRow
<1>2. m.next >= t
  BY <1>1 DEF Looked, ClockOK, Never
<1>3. CASE m.params = q
  <2>1. a = m
    BY <1>3 DEF Reaim
  <2> QED  BY <1>1, <1>2, <2>1
<1>4. CASE m.params # q
  <2>1. a = Aimed(m, next, q, t)
    BY <1>4 DEF Reaim, Aimed
  <2>2. m.last \in Nat \cup {Never} /\ (m.last # Never => m.last <= w.now) /\ w.now <= t
    BY <1>1 DEF JobRow, JobAim, ClockOK
  <2>3. /\ next \in Nat /\ t < next /\ FitsHour(j, q, next)
        /\ m.last # Never => Period(j, m.last) < Period(j, next)
        /\ \/ Period(j, next) <= Period(j, t) + 1
           \/ m.last # Never /\ Period(j, next) <= Period(j, m.last) + 1
    BY <2>2, JobAimed
  <2>4. q \in ParamSet
    BY DEF ParamSet
  <2> HIDE DEF next
  <2>5. /\ a \in JobRow /\ a.next = next /\ a.params = q /\ a.aimed = t /\ a.last = m.last
    BY <2>1, <2>3, <2>4, AimedRow
  <2> HIDE DEF a
  <2>6. JobAim(j, a, w.now)
    BY <2>2, <2>3, <2>5 DEF JobAim
  <2> QED  BY <1>2, <2>3, <2>5, <2>6 DEF a
<1> QED  BY <1>3, <1>4

LEMMA JobRan ==
  ASSUME NEW j \in Jobs, NEW m \in JobRow, NEW n \in Nat,
         JobAim(j, m, n), m.next = n
  PROVE  LET a == Ran(m, NextRun(j, m.params, n), n)
         IN  a \in JobRow /\ JobAim(j, a, n) /\ n < a.next /\ a.last = n
<1> DEFINE next == NextRun(j, m.params, n)
           a    == Ran(m, next, n)
<1>1. PICK policy \in SchedulePolicy : m.params = Params(j, policy)
  BY DEF JobAim
<1>2. /\ next \in Nat /\ n < next /\ FitsHour(j, m.params, next)
      /\ next = n + Length(j)
  BY <1>1, NextFits DEF JobAim
<1>3. Period(j, next) = Period(j, n) + 1 /\ Period(j, n) \in Int
  BY <1>2, CalendarFacts, Periods
<1> HIDE DEF next
<1>4. /\ a \in JobRow /\ a.next = next /\ a.last = n
      /\ a.params = m.params /\ a.aimed = m.aimed
  <2>1. \A k, t \in Nat : /\ Ran(m, k, t) \in JobRow
                          /\ Ran(m, k, t).next = k /\ Ran(m, k, t).last = t
                          /\ Ran(m, k, t).params = m.params /\ Ran(m, k, t).aimed = m.aimed
    BY RanRow
  <2>2. next \in Nat
    BY <1>2
  <2> QED  BY <2>1, <2>2
<1> HIDE DEF a
<1>5. JobAim(j, a, n)
  BY <1>1, <1>2, <1>3, <1>4 DEF JobAim, Never
<1> QED  BY <1>2, <1>4, <1>5 DEF a, next

(***************************************************************************)
(* The steps.                                                              *)
(***************************************************************************)
Applies(w, policy)  == [w EXCEPT !.pc = "apply", !.policy = policy]
Ticked(w, t, todo)  == [w EXCEPT !.pc = "run", !.now = t, !.policy = NoPolicy, !.todo = todo]
Did(w, todo, pc)    == [w EXCEPT !.pc = pc, !.todo = todo]
Crashed(w)          == [w EXCEPT !.pc = "down", !.policy = NoPolicy, !.todo = {}]
Started(w, life)    == [w EXCEPT !.pc = "run", !.life = life, !.now = Never]

LEMMA AppliesRow ==
  ASSUME NEW w \in WorkerRow, NEW policy \in SchedulePolicy \cup {NoPolicy}
  PROVE  /\ Applies(w, policy) \in WorkerRow /\ Applies(w, policy).pc = "apply"
         /\ Applies(w, policy).now = w.now /\ Applies(w, policy).todo = w.todo
BY DEF Applies, WorkerRow

LEMMA TickedRow ==
  ASSUME NEW w \in WorkerRow, NEW t \in Nat, NEW todo \in Todos
  PROVE  /\ Ticked(w, t, todo) \in WorkerRow /\ Ticked(w, t, todo).pc = "run"
         /\ Ticked(w, t, todo).now = t /\ Ticked(w, t, todo).todo = todo
BY DEF Ticked, WorkerRow

LEMMA DidRow ==
  ASSUME NEW w \in WorkerRow, NEW todo \in Todos, NEW pc \in {"run", "drain"}
  PROVE  /\ Did(w, todo, pc) \in WorkerRow /\ Did(w, todo, pc).pc = pc
         /\ Did(w, todo, pc).now = w.now /\ Did(w, todo, pc).todo = todo
         /\ Did(w, todo, pc).life = w.life
BY DEF Did, WorkerRow

LEMMA CrashedRow ==
  ASSUME NEW w \in WorkerRow
  PROVE  /\ Crashed(w) \in WorkerRow /\ Crashed(w).pc = "down"
         /\ Crashed(w).now = w.now /\ Crashed(w).todo = {}
<1>1. {} \in Todos
  BY DEF Todos
<1> QED  BY <1>1 DEF Crashed, WorkerRow

LEMMA StartedRow ==
  ASSUME NEW w \in WorkerRow, NEW life \in Nat
  PROVE  /\ Started(w, life) \in WorkerRow /\ Started(w, life).pc = "run"
         /\ Started(w, life).now = Never /\ Started(w, life).todo = w.todo
BY DEF Started, WorkerRow, Never

LEMMA MailFacts ==
  ASSUME MailInv
  PROVE  /\ now \in Nat /\ lost \in Nat /\ worker \in WorkerRow
         /\ MaxAttempts \in Nat \ {0} /\ MaxCrashes \in Nat /\ MaxRequests \in Nat
         /\ worker.now \in Nat \cup {Never} /\ worker.todo \in Todos
         /\ \A j \in Jobs : jobs[j] \in JobRow
         /\ \A k \in Mails : mails[k] \in MailRow
         /\ \A k \in DOMAIN drain.rows : k \in Mails /\ drain.rows[k] \in MailRow
BY CalendarFacts, OutboxFacts DEF MailInv, MailShape, WorkerRow

LEMMA JobsStill ==
  ASSUME MailInv, now' = now, jobs' = jobs, worker'.now = worker.now,
         \/ worker'.pc = "down"
         \/ worker.pc # "down" /\ \A j \in Jobs : j \in worker'.todo <=> j \in worker.todo
  PROVE  \A j \in Jobs : JobOK(j, jobs'[j], worker', now')
BY JobKept DEF MailInv

LEMMA MailsStill ==
  ASSUME MailInv, mails' = mails, drain' = drain, lost' = lost
  PROVE  \A k \in Mails : MailOK(k, mails'[k], drain', lost')
BY DEF MailInv

\* A row a request or a job fills was free, and no drain has it.
LEMMA MailsQueued ==
  ASSUME MailInv, NEW R \in SUBSET Accounts, Cardinality(R) <= Cardinality(Free),
         mails' = Queued(R), drain' = drain, lost' = lost
  PROVE  /\ mails' \in [Mails -> MailRow]
         /\ \A k \in Mails : MailOK(k, mails'[k], drain', lost')
<1>1. /\ mails' \in [Mails -> MailRow]
      /\ \A k \in Mails : \/ mails'[k] = mails[k]
                          \/ k \in Free /\ \E a \in R : mails'[k] = NewMail(a)
  BY MailFacts, QueuedRows DEF MailInv, MailShape
<1>2. ASSUME NEW k \in Mails
      PROVE  MailOK(k, mails'[k], drain', lost')
  <2>1. CASE mails'[k] = mails[k]
    BY <2>1 DEF MailInv
  <2>2. CASE k \in Free /\ \E a \in R : mails'[k] = NewMail(a)
    <3>1. PICK a \in R : mails'[k] = NewMail(a)
      BY <2>2
    <3>2. Written(mails'[k], lost)
      BY <3>1, MailFacts, NewMailRow
    <3>3. k \notin DOMAIN drain.rows /\ k \notin drain.left
      BY <2>2 DEF MailInv, MailOK, Free
    <3> QED  BY <3>2, <3>3 DEF MailOK
  <2> QED  BY <1>1, <2>1, <2>2
<1> QED  BY <1>1, <1>2

LEMMA UpdateSettingsKeeps ==
  ASSUME MailInv, NEW h \in Hours, NEW d \in Weekdays, NEW set \in BOOLEAN,
         UpdateSettings(h, d, set)
  PROVE  MailInv'
<1>1. /\ \A j \in Jobs : JobOK(j, jobs'[j], worker', now')
      /\ \A k \in Mails : MailOK(k, mails'[k], drain', lost')
  BY MailsStill DEF UpdateSettings, MailInv
<1>2. conf' \in [schedule : SchedulePolicy, mail : BOOLEAN] /\ requests' \in 0 .. MaxRequests
  BY MailFacts DEF UpdateSettings, SchedulePolicy, MailInv, MailShape
<1> QED  BY <1>1, <1>2 DEF UpdateSettings, MailInv, MailShape

LEMMA QueueEmailKeeps ==
  ASSUME MailInv, NEW a \in Accounts, QueueEmail(a)
  PROVE  MailInv'
<1>1. Cardinality({a}) <= Cardinality(Free)
  <2>1. IsFiniteSet(Free)
    BY OutboxFacts, FS_Subset DEF MailInv, Free
  <2>2. Cardinality(Free) \in Nat /\ Cardinality(Free) # 0
    BY <2>1, FS_CardinalityType, FS_EmptySet DEF QueueEmail
  <2>3. Cardinality({a}) = 1
    BY FS_Singleton
  <2> QED  BY <2>2, <2>3
<1>2. /\ mails' \in [Mails -> MailRow]
      /\ \A k \in Mails : MailOK(k, mails'[k], drain', lost')
  BY <1>1, MailsQueued DEF QueueEmail
<1>3. requests' \in 0 .. MaxRequests
  BY MailFacts DEF QueueEmail, MailInv, MailShape
<1> QED  BY <1>2, <1>3 DEF QueueEmail, MailInv, MailShape

LEMMA LoadScheduleKeeps ==
  ASSUME MailInv, NEW readable \in BOOLEAN, LoadSchedule(readable)
  PROVE  MailInv'
<1> DEFINE policy == IF readable THEN conf.schedule ELSE NoPolicy
<1>1. policy \in SchedulePolicy \cup {NoPolicy}
  BY DEF MailInv, MailShape
<1>2. worker' = Applies(worker, policy)
  BY DEF LoadSchedule, Applies
<1> HIDE DEF policy
<1>3. /\ worker' \in WorkerRow /\ worker'.pc = "apply"
      /\ worker'.now = worker.now /\ worker'.todo = worker.todo
  BY <1>1, <1>2, MailFacts, AppliesRow
<1>4. worker.pc = "run" /\ worker.todo = {} /\ drain = NoDrain
  BY DEF LoadSchedule, Asleep, MailInv, DrainOK
<1>5. \A j \in Jobs : JobOK(j, jobs'[j], worker', now')
  BY <1>3, <1>4, JobsStill DEF LoadSchedule
<1>6. ClockOK(worker', now') /\ DrainOK(worker', drain')
  BY <1>3, <1>4 DEF ClockOK, DrainOK, LoadSchedule, MailInv
<1>7. \A k \in Mails : MailOK(k, mails'[k], drain', lost')
  BY MailsStill DEF LoadSchedule
<1> QED  BY <1>3, <1>5, <1>6, <1>7 DEF LoadSchedule, MailInv, MailShape

LEMMA TickRunKeeps ==
  ASSUME MailInv, TickRun
  PROVE  MailInv'
<1> DEFINE todo == {"outbox"} \cup {j \in Jobs : IsDue(jobs'[j])}
<1>1. todo \in Todos
  BY DEF Todos
<1>2. worker' = Ticked(worker, now, todo)
  BY DEF TickRun, Ticked, IsDue
<1>3. \A j \in Jobs : j \in todo <=> jobs'[j].next <= now
  BY DEF IsDue, Jobs, MailJobs
<1> HIDE DEF todo
<1>4. /\ worker' \in WorkerRow /\ worker'.pc = "run"
      /\ worker'.now = now /\ worker'.todo = todo
  <2>1. \A t \in Nat, set \in Todos :
          /\ Ticked(worker, t, set) \in WorkerRow /\ Ticked(worker, t, set).pc = "run"
          /\ Ticked(worker, t, set).now = t /\ Ticked(worker, t, set).todo = set
    BY MailFacts, TickedRow
  <2>2. now \in Nat
    BY MailFacts
  <2> QED  BY <1>1, <1>2, <2>1, <2>2
<1>5. worker.pc = "apply" /\ ClockOK(worker, now) /\ worker.now \in Nat \cup {Never}
  BY MailFacts DEF TickRun, MailInv
<1>6. worker.policy \in SchedulePolicy \cup {NoPolicy}
  BY MailFacts DEF WorkerRow
<1>7. jobs' \in [Jobs -> JobRow] /\ \A j \in Jobs :
        jobs'[j].next >= now /\ JobAim(j, jobs'[j], worker.now)
  <2>1. ASSUME NEW policy \in SchedulePolicy, NEW j \in Jobs
        PROVE  /\ Reaim(j, jobs[j], policy, now) \in JobRow /\ jobs[j].next >= now
               /\ Reaim(j, jobs[j], policy, now).next >= now
               /\ JobAim(j, Reaim(j, jobs[j], policy, now), worker.now)
    BY <1>5, MailFacts, JobReaimed DEF MailInv
  <2>2. ASSUME NEW j \in Jobs
        PROVE  jobs[j].next >= now /\ JobAim(j, jobs[j], worker.now)
    <3>1. EnvPolicy \in SchedulePolicy
      BY CalendarAssumption DEF MailInv, SchedulePolicy
    <3> QED  BY <2>1, <3>1 DEF MailInv, JobOK
  <2>3. CASE worker.policy = NoPolicy
    BY <2>2, <2>3 DEF TickRun, MailInv, MailShape
  <2>4. CASE worker.policy # NoPolicy
    <3>1. worker.policy \in SchedulePolicy
      BY <1>6, <2>4
    <3>2. jobs' = [j \in Jobs |-> IF j \in MailJobs THEN Reaim(j, jobs[j], worker.policy, now)
                                                   ELSE jobs[j]]
      BY <2>4 DEF TickRun, ApplySchedule
    <3> QED  BY <2>1, <2>2, <3>1, <3>2, MailFacts
  <2> QED  BY <2>3, <2>4
<1>8. ASSUME NEW j \in Jobs
      PROVE  JobOK(j, jobs'[j], worker', now')
  <2>1. /\ jobs'[j].next \in Nat /\ jobs'[j].next >= now /\ JobAim(j, jobs'[j], worker.now)
        /\ jobs'[j].last \in Nat \cup {Never}
    BY <1>7 DEF JobRow
  <2>2. JobAim(j, jobs'[j], now)
    BY <2>1, <1>5, MailFacts DEF JobAim, ClockOK, Never
  <2>3. j \in todo <=> jobs'[j].next <= now
    BY <1>3
  <2> QED  BY <1>4, <2>1, <2>2, <2>3, MailFacts DEF JobOK, Looked, TickRun, Never
<1>9. ClockOK(worker', now') /\ DrainOK(worker', drain')
  BY <1>4, <1>5, MailFacts DEF ClockOK, DrainOK, TickRun, MailInv, Never
<1>10. \A k \in Mails : MailOK(k, mails'[k], drain', lost')
  BY MailsStill DEF TickRun
<1> QED  BY <1>4, <1>7, <1>8, <1>9, <1>10 DEF TickRun, MailInv, MailShape

\* A job that runs takes its next hour, and leaves the others as they are.
LEMMA RunsJob ==
  ASSUME MailInv, NEW j \in Jobs, Running(j), Reschedule(j), JobDone(j, "run"), now' = now,
         drain' = drain
  PROVE  /\ worker' \in WorkerRow /\ jobs' \in [Jobs -> JobRow]
         /\ ClockOK(worker', now') /\ DrainOK(worker', drain')
         /\ \A i \in Jobs : JobOK(i, jobs'[i], worker', now')
         /\ worker'.life = worker.life /\ worker.now \in Nat /\ jobs[j].next = worker.now
         /\ jobs'[j].last = worker.now /\ \A i \in Jobs \ {j} : jobs'[i] = jobs[i]
<1> DEFINE n == worker.now  todo == worker.todo \ {j}
<1>1. worker.pc = "run" /\ j \in worker.todo /\ drain = NoDrain
  BY DEF Running, MailInv, DrainOK
<1>2. n \in Nat /\ n <= now
  BY <1>1, MailFacts DEF MailInv, ClockOK
<1>3. jobs[j] \in JobRow /\ JobAim(j, jobs[j], n) /\ jobs[j].next = n
  BY <1>1, MailFacts DEF MailInv, JobOK
<1>4. todo \in Todos
  BY MailFacts DEF Todos
<1>5. worker' = Did(worker, todo, "run")
  BY DEF JobDone, Did
<1> HIDE DEF todo
<1>6. /\ worker' \in WorkerRow /\ worker'.pc = "run" /\ worker'.now = n
      /\ worker'.todo = todo /\ worker'.life = worker.life
  BY <1>4, <1>5, MailFacts, DidRow
<1>7. /\ DOMAIN jobs' = Jobs /\ jobs' = [i \in Jobs |-> jobs'[i]]
      /\ jobs'[j] = Ran(jobs[j], NextRun(j, jobs[j].params, n), n)
      /\ \A i \in Jobs \ {j} : jobs'[i] = jobs[i]
  BY DEF Reschedule, Ran, MailInv, MailShape
<1>8. /\ jobs'[j] \in JobRow /\ JobAim(j, jobs'[j], n)
      /\ n < jobs'[j].next /\ jobs'[j].last = n
  BY <1>2, <1>3, <1>7, JobRan DEF MailInv
<1>9. jobs' \in [Jobs -> JobRow]
  BY <1>7, <1>8, MailFacts
<1>10. ASSUME NEW i \in Jobs
       PROVE  JobOK(i, jobs'[i], worker', now')
  <2>1. CASE i = j
    <3>1. Looked(worker', now') = n /\ j \notin worker'.todo
      BY <1>2, <1>6 DEF Looked, Never, todo
    <3> QED  BY <1>6, <1>8, <2>1, <3>1 DEF JobOK
  <2>2. CASE i # j
    <3>1. jobs'[i] = jobs[i] /\ (i \in worker'.todo <=> i \in worker.todo)
      BY <1>6, <1>7, <2>2 DEF todo
    <3> QED  BY <1>1, <1>6, <3>1, JobKept DEF MailInv
  <2> QED  BY <2>1, <2>2
<1>11. ClockOK(worker', now') /\ DrainOK(worker', drain')
  BY <1>1, <1>2, <1>6 DEF ClockOK, DrainOK, MailInv, Never
<1> QED  BY <1>2, <1>3, <1>6, <1>7, <1>8, <1>9, <1>10, <1>11

LEMMA RunDigestKeeps ==
  ASSUME MailInv, NEW digest \in [Accounts -> Digests], NEW fails \in BOOLEAN,
         RunDigest(digest, fails)
  PROVE  MailInv'
<1>1. "digest" \in Jobs /\ Chosen(digest) \in SUBSET Accounts
  BY DEF Jobs, MailJobs, Chosen
<1>2. /\ worker' \in WorkerRow /\ jobs' \in [Jobs -> JobRow]
      /\ ClockOK(worker', now') /\ DrainOK(worker', drain')
      /\ \A i \in Jobs : JobOK(i, jobs'[i], worker', now')
  BY <1>1, RunsJob DEF RunDigest
<1>3. /\ mails' \in [Mails -> MailRow]
      /\ \A k \in Mails : MailOK(k, mails'[k], drain', lost')
  <2>1. CASE mails' = mails
    BY <2>1, MailsStill DEF RunDigest, MailInv, MailShape
  <2>2. CASE mails' # mails
    BY <1>1, <2>2, MailsQueued DEF RunDigest
  <2> QED  BY <2>1, <2>2
<1> QED  BY <1>2, <1>3 DEF RunDigest, MailInv, MailShape

LEMMA RunRemindersKeeps ==
  ASSUME MailInv, NEW tasks \in [Accounts -> Tasks], NEW fails \in BOOLEAN,
         RunReminders(tasks, fails)
  PROVE  MailInv'
<1>1. "reminders" \in Jobs /\ Reminded(tasks) \in SUBSET Accounts
  BY DEF Jobs, MailJobs, Reminded
<1>2. /\ worker' \in WorkerRow /\ jobs' \in [Jobs -> JobRow]
      /\ ClockOK(worker', now') /\ DrainOK(worker', drain')
      /\ \A i \in Jobs : JobOK(i, jobs'[i], worker', now')
  BY <1>1, RunsJob DEF RunReminders
<1>3. /\ mails' \in [Mails -> MailRow]
      /\ \A k \in Mails : MailOK(k, mails'[k], drain', lost')
  <2>1. CASE mails' = mails
    BY <2>1, MailsStill DEF RunReminders, MailInv, MailShape
  <2>2. CASE mails' # mails
    BY <1>1, <2>2, MailsQueued DEF RunReminders
  <2> QED  BY <2>1, <2>2
<1> QED  BY <1>2, <1>3 DEF RunReminders, MailInv, MailShape

LEMMA PurgedRow ==
  ASSUME NEW m \in MailRow, NEW n \in Nat, Written(m, n), m.status \in {"sent", "abandoned"},
         MaxAttempts \in Nat
  PROVE  /\ [m EXCEPT !.status = "purged"] \in MailRow
         /\ Written([m EXCEPT !.status = "purged"], n)
BY DEF Written, MailRow

LEMMA RunPurgeKeeps ==
  ASSUME MailInv, NEW fails \in BOOLEAN, RunPurge(fails)
  PROVE  MailInv'
<1>1. "purge" \in Jobs /\ drain = NoDrain
  BY DEF Jobs, MailJobs, RunPurge, Running, MailInv, DrainOK
<1>2. /\ worker' \in WorkerRow /\ jobs' \in [Jobs -> JobRow]
      /\ ClockOK(worker', now') /\ DrainOK(worker', drain')
      /\ \A i \in Jobs : JobOK(i, jobs'[i], worker', now')
  BY <1>1, RunsJob DEF RunPurge
<1>3. /\ mails' \in [Mails -> MailRow]
      /\ \A k \in Mails : MailOK(k, mails'[k], drain', lost')
  <2>1. CASE fails
    <3>1. mails' = mails
      BY <2>1 DEF RunPurge
    <3> QED  BY <3>1, MailsStill DEF RunPurge, MailInv, MailShape
  <2>2. CASE ~fails
    <3>1. mails' = Purged
      BY <2>2 DEF RunPurge
    <3>2. ASSUME NEW k \in Mails
          PROVE  mails'[k] \in MailRow /\ Written(mails'[k], lost)
      <4>1. mails[k] \in MailRow /\ Written(mails[k], lost)
        BY <1>1, MailFacts DEF MailInv, MailOK, NoDrain
      <4>2. CASE mails[k].status \in {"sent", "abandoned"} /\ mails[k].created + Retention < now
        <5>1. mails'[k] = [mails[k] EXCEPT !.status = "purged"]
          BY <3>1, <4>2 DEF Purged
        <5> QED  BY <4>1, <4>2, <5>1, MailFacts, PurgedRow
      <4>3. CASE ~(mails[k].status \in {"sent", "abandoned"} /\ mails[k].created + Retention < now)
        <5>1. mails'[k] = mails[k]
          BY <3>1, <4>3 DEF Purged
        <5> QED  BY <4>1, <5>1
      <4> QED  BY <4>2, <4>3
    <3>3. mails' = [k \in Mails |-> mails'[k]]
      BY <3>1 DEF Purged
    <3>4. mails' \in [Mails -> MailRow]
      BY <3>2, <3>3
    <3>5. \A k \in Mails : k \notin DOMAIN NoDrain.rows /\ k \notin NoDrain.left
      BY DEF NoDrain
    <3> QED  BY <1>1, <3>2, <3>4, <3>5 DEF MailOK, RunPurge
  <2> QED  BY <2>1, <2>2
<1> QED  BY <1>2, <1>3 DEF RunPurge, MailInv, MailShape

LEMMA DrainPickKeeps ==
  ASSUME MailInv, DrainPick
  PROVE  MailInv'
<1> DEFINE todo == worker.todo \ {"outbox"}
<1>1. worker.pc = "run" /\ drain = NoDrain
  BY DEF DrainPick, Running, MailInv, DrainOK
<1>2. PICK b \in Picks :
        IF b = {} THEN drain' = NoDrain /\ JobDone("outbox", "run")
        ELSE /\ drain' = [enabled |-> conf.mail, left |-> b, rows |-> [m \in b |-> mails[m]]]
             /\ JobDone("outbox", "drain")
  BY DEF DrainPick
<1>3. b \subseteq Mails /\ \A k \in b : mails[k].status = "pending"
  BY DEF Picks, Due
<1>4. todo \in Todos
  BY MailFacts DEF Todos
<1>5. ASSUME NEW pc \in {"run", "drain"}, JobDone("outbox", pc)
      PROVE  /\ worker' \in WorkerRow /\ worker'.pc = pc /\ ClockOK(worker', now')
             /\ \A j \in Jobs : JobOK(j, jobs'[j], worker', now')
  <2>1. worker' = Did(worker, todo, pc)
    BY <1>5 DEF JobDone, Did
  <2>2. /\ worker' \in WorkerRow /\ worker'.pc = pc /\ worker'.now = worker.now
        /\ worker'.todo = todo
    <3>1. \A t \in Todos, p \in {"run", "drain"} :
            /\ Did(worker, t, p) \in WorkerRow /\ Did(worker, t, p).pc = p
            /\ Did(worker, t, p).now = worker.now /\ Did(worker, t, p).todo = t
      <4>1. worker \in WorkerRow
        BY MailFacts
      <4> QED  BY <4>1, DidRow
    <3> HIDE DEF todo
    <3> QED  BY <1>4, <2>1, <3>1
  <2>3. \A j \in Jobs : j \in worker'.todo <=> j \in worker.todo
    BY <2>2 DEF Jobs, MailJobs
  <2>4. \A j \in Jobs : JobOK(j, jobs'[j], worker', now')
    BY <1>1, <2>2, <2>3, JobsStill DEF DrainPick
  <2>5. ClockOK(worker', now')
    BY <1>1, <2>2 DEF DrainPick, MailInv, ClockOK
  <2> QED  BY <2>2, <2>4, <2>5
<1>6. \A k \in Mails : Written(mails[k], lost)
  BY <1>1 DEF MailInv, MailOK, NoDrain
<1>7. CASE b = {}
  <2>1. drain' = drain /\ JobDone("outbox", "run")
    BY <1>1, <1>2, <1>7
  <2>2. \A k \in Mails : MailOK(k, mails'[k], drain', lost')
    BY <2>1, MailsStill DEF DrainPick
  <2>3. DrainOK(worker', drain')
    BY <1>1, <2>1 DEF DrainOK
  <2> QED  BY <1>5, <2>1, <2>2, <2>3 DEF DrainPick, MailInv, MailShape
<1>8. CASE b # {}
  <2>1. /\ drain' = [enabled |-> conf.mail, left |-> b, rows |-> [m \in b |-> mails[m]]]
        /\ JobDone("outbox", "drain")
    BY <1>2, <1>8
  <2>2. \A k \in Mails : MailOK(k, mails'[k], drain', lost')
    BY <1>3, <1>6, <2>1 DEF MailOK, DrainPick
  <2>3. /\ drain' = [enabled |-> drain'.enabled, left |-> drain'.left, rows |-> drain'.rows]
        /\ drain'.enabled \in BOOLEAN /\ drain'.left \subseteq Mails
        /\ DOMAIN drain'.rows \subseteq Mails /\ drain'.rows \in [DOMAIN drain'.rows -> MailRow]
    BY <1>3, <2>1, MailFacts DEF MailInv, MailShape
  <2>4. worker' \in WorkerRow /\ worker'.pc = "drain" /\ ClockOK(worker', now')
        /\ \A j \in Jobs : JobOK(j, jobs'[j], worker', now')
    BY <1>5, <2>1
  <2>5. DrainOK(worker', drain')
    BY <2>4 DEF DrainOK
  <2> QED  BY <2>2, <2>3, <2>4, <2>5 DEF DrainPick, MailInv, MailShape
<1> QED  BY <1>7, <1>8

LEMMA DrainSendKeeps ==
  ASSUME MailInv, NEW m \in Mails, NEW ok \in BOOLEAN, DrainSend(m, ok)
  PROVE  MailInv'
<1>1. /\ m \in drain.left /\ m \in DOMAIN drain.rows /\ drain.rows[m] = mails[m]
      /\ mails[m].status = "pending" /\ Written(mails[m], lost) /\ mails[m] \in MailRow
  BY MailFacts DEF DrainSend, MailInv, MailOK
<1>2. /\ mails'[m] = Tried(mails[m], ok)
      /\ \A k \in Mails \ {m} : mails'[k] = mails[k]
      /\ mails' = [k \in Mails |-> mails'[k]]
  BY DEF DrainSend, Tried, MailInv, MailShape
<1>3. /\ drain'.left = drain.left \ {m} /\ drain'.enabled = drain.enabled
      /\ DOMAIN drain'.rows = DOMAIN drain.rows
      /\ drain'.rows = [k \in DOMAIN drain.rows |-> drain'.rows[k]]
      /\ drain'.rows[m] = Outcome(mails[m], ok)
      /\ \A k \in DOMAIN drain.rows \ {m} : drain'.rows[k] = drain.rows[k]
      /\ drain' = [enabled |-> drain'.enabled, left |-> drain'.left, rows |-> drain'.rows]
  <2>1. drain = [enabled |-> drain.enabled, left |-> drain.left, rows |-> drain.rows]
    BY DEF MailInv, MailShape
  <2>2. drain.rows = [k \in DOMAIN drain.rows |-> drain.rows[k]]
    BY DEF MailInv, MailShape
  <2>3. drain' = [enabled |-> drain.enabled, left |-> drain.left \ {m},
                  rows |-> [drain.rows EXCEPT ![m] = IF ok THEN Accepted(@) ELSE Failed(@)]]
    BY <2>1 DEF DrainSend
  <2> QED  BY <1>1, <2>2, <2>3 DEF Outcome
<1>4. mails[m].attempts < MaxAttempts
  BY <1>1 DEF Written
<1>5. /\ mails'[m] \in MailRow /\ mails'[m].status = "pending" /\ drain'.rows[m] \in MailRow
      /\ Written(mails'[m], lost + 1) /\ Written(Committed(drain'.rows[m], mails'[m]), lost)
  <2>1. now \in Nat /\ lost \in Nat
    BY MailFacts DEF MailInv
  <2>2. Tried(mails[m], ok) \in MailRow /\ Tried(mails[m], ok).status = "pending"
    BY <1>1, TriedRow
  <2>3. Outcome(mails[m], ok) \in MailRow
    BY <1>1, <1>4, <2>1, OutcomeRow
  <2>4. /\ Written(Tried(mails[m], ok), lost + 1)
        /\ Written(Committed(Outcome(mails[m], ok), Tried(mails[m], ok)), lost)
    BY <1>1, <2>1, TryWrites
  <2> QED  BY <1>2, <1>3, <2>2, <2>3, <2>4
<1>6. ASSUME NEW k \in Mails
      PROVE  MailOK(k, mails'[k], drain', lost')
  <2>1. lost' = lost
    BY DEF DrainSend
  <2>2. CASE k = m
    BY <1>1, <1>3, <1>5, <2>1, <2>2 DEF MailOK
  <2>3. CASE k # m
    <3>1. mails'[k] = mails[k] /\ MailOK(k, mails[k], drain, lost)
      BY <1>2, <2>3 DEF MailInv
    <3>2. /\ k \in drain'.left <=> k \in drain.left
          /\ k \in DOMAIN drain'.rows <=> k \in DOMAIN drain.rows
          /\ k \in DOMAIN drain.rows => drain'.rows[k] = drain.rows[k]
      BY <1>3, <2>3
    <3> QED  BY <2>1, <3>1, <3>2 DEF MailOK
  <2> QED  BY <2>2, <2>3
<1>7. mails' \in [Mails -> MailRow]
  BY <1>2, <1>5, MailFacts
<1>8. drain'.rows \in [DOMAIN drain'.rows -> MailRow]
  BY <1>3, <1>5, MailFacts
<1>9. /\ drain'.enabled \in BOOLEAN
      /\ drain'.left \subseteq Mails /\ DOMAIN drain'.rows \subseteq Mails
  BY <1>3 DEF MailInv, MailShape
<1>10. ClockOK(worker', now') /\ DrainOK(worker', drain')
  BY DEF DrainSend, MailInv, DrainOK
<1>11. \A j \in Jobs : JobOK(j, jobs'[j], worker', now')
  BY DEF DrainSend, MailInv
<1> QED  BY <1>3, <1>6, <1>7, <1>8, <1>9, <1>10, <1>11 DEF DrainSend, MailInv, MailShape

\* The worker goes on to its next job.
LEMMA GoesOn ==
  ASSUME MailInv, worker.pc = "drain", worker' = [worker EXCEPT !.pc = "run"],
         now' = now, jobs' = jobs, drain' = NoDrain
  PROVE  /\ worker' \in WorkerRow /\ ClockOK(worker', now') /\ DrainOK(worker', drain')
         /\ \A j \in Jobs : JobOK(j, jobs'[j], worker', now')
<1>1. /\ worker' \in WorkerRow /\ worker'.pc = "run"
      /\ worker'.now = worker.now /\ worker'.todo = worker.todo
  BY MailFacts DEF WorkerRow
<1>2. ClockOK(worker', now') /\ DrainOK(worker', drain')
  BY <1>1 DEF MailInv, ClockOK, DrainOK
<1>3. \A j \in Jobs : JobOK(j, jobs'[j], worker', now')
  BY <1>1, JobsStill
<1> QED  BY <1>1, <1>2, <1>3

LEMMA NoDrainFacts ==
  /\ NoDrain = [enabled |-> NoDrain.enabled, left |-> NoDrain.left, rows |-> NoDrain.rows]
  /\ NoDrain.enabled \in BOOLEAN /\ NoDrain.left = {} /\ DOMAIN NoDrain.rows = {}
  /\ NoDrain.rows \in [DOMAIN NoDrain.rows -> MailRow]
BY DEF NoDrain

LEMMA DrainCommitKeeps ==
  ASSUME MailInv, DrainCommit
  PROVE  MailInv'
<1>1. /\ worker' \in WorkerRow /\ ClockOK(worker', now') /\ DrainOK(worker', drain')
      /\ \A j \in Jobs : JobOK(j, jobs'[j], worker', now')
  BY GoesOn DEF DrainCommit
<1>2. mails' = [k \in Mails |-> IF k \in DOMAIN drain.rows
                               THEN Committed(drain.rows[k], mails[k]) ELSE mails[k]]
  BY DEF DrainCommit, Committed
<1>3. ASSUME NEW k \in Mails
      PROVE  mails'[k] \in MailRow /\ Written(mails'[k], lost)
  <2>1. drain.left = {} /\ MailOK(k, mails[k], drain, lost)
    BY DEF DrainCommit, MailInv
  <2>2. CASE k \in DOMAIN drain.rows
    <3>1. mails'[k] = Committed(drain.rows[k], mails[k])
      BY <1>2, <2>2
    <3>2. Committed(drain.rows[k], mails[k]) \in MailRow
      BY <2>2, MailFacts, CommittedRow
    <3> QED  BY <2>1, <2>2, <3>1, <3>2 DEF MailOK
  <2>3. CASE k \notin DOMAIN drain.rows
    BY <1>2, <2>1, <2>3, MailFacts DEF MailOK
  <2> QED  BY <2>2, <2>3
<1>4. mails' \in [Mails -> MailRow]
  BY <1>2, <1>3
<1>5. \A k \in Mails : MailOK(k, mails'[k], drain', lost')
  BY <1>3, NoDrainFacts DEF MailOK, DrainCommit
<1> QED  BY <1>1, <1>4, <1>5, NoDrainFacts DEF DrainCommit, MailInv, MailShape

\* A drain that is lost is forgotten: what it tried is one loss more.
LEMMA DrainLost ==
  ASSUME MailInv, drain' = NoDrain, lost' = lost + 1, mails' = mails
  PROVE  \A k \in Mails : MailOK(k, mails'[k], drain', lost')
<1> TAKE k \in Mails
<1>1. mails[k] \in MailRow /\ MailOK(k, mails[k], drain, lost)
  BY MailFacts DEF MailInv
<1>2. Written(mails[k], lost + 1)
  BY <1>1, MailFacts, WrittenGrows DEF MailOK
<1> QED  BY <1>2, NoDrainFacts DEF MailOK

LEMMA DrainAbortKeeps ==
  ASSUME MailInv, DrainAbort
  PROVE  MailInv'
<1>1. /\ worker' \in WorkerRow /\ ClockOK(worker', now') /\ DrainOK(worker', drain')
      /\ \A j \in Jobs : JobOK(j, jobs'[j], worker', now')
  BY GoesOn DEF DrainAbort
<1>2. \A k \in Mails : MailOK(k, mails'[k], drain', lost')
  BY DrainLost DEF DrainAbort
<1>3. lost' \in 0 .. MaxCrashes
  BY MailFacts DEF DrainAbort
<1> QED  BY <1>1, <1>2, <1>3, NoDrainFacts DEF DrainAbort, MailInv, MailShape

LEMMA CrashKeeps ==
  ASSUME MailInv, Crash
  PROVE  MailInv'
<1>1. worker' = Crashed(worker)
  BY DEF Crash, Crashed
<1>2. /\ worker' \in WorkerRow /\ worker'.pc = "down"
      /\ worker'.now = worker.now /\ worker'.todo = {}
  BY <1>1, MailFacts, CrashedRow
<1>3. \A j \in Jobs : JobOK(j, jobs'[j], worker', now')
  BY <1>2, JobsStill DEF Crash
<1>4. \A k \in Mails : MailOK(k, mails'[k], drain', lost')
  BY DrainLost DEF Crash
<1>5. ClockOK(worker', now') /\ DrainOK(worker', drain')
  BY <1>2 DEF Crash, MailInv, ClockOK, DrainOK
<1>6. lost' \in 0 .. MaxCrashes
  BY MailFacts DEF Crash
<1> QED  BY <1>2, <1>3, <1>4, <1>5, <1>6, NoDrainFacts DEF Crash, MailInv, MailShape

LEMMA StartKeeps ==
  ASSUME MailInv, NEW readable \in BOOLEAN, Start(readable)
  PROVE  MailInv'
<1> DEFINE policy == IF readable THEN conf.schedule ELSE EnvPolicy
<1>1. policy \in SchedulePolicy
  BY CalendarAssumption DEF MailInv, MailShape, SchedulePolicy
<1>2. jobs' = BuildJobs(now, policy)
  BY DEF Start
<1> HIDE DEF policy
<1>3. /\ worker' \in WorkerRow /\ worker'.pc = "run"
      /\ worker'.now = Never /\ worker'.todo = {}
  <2>1. worker' = Started(worker, worker.life + 1)
    BY DEF Start, Started
  <2>2. worker.life + 1 \in Nat
    BY MailFacts DEF WorkerRow
  <2>3. \A n \in Nat : /\ Started(worker, n) \in WorkerRow /\ Started(worker, n).pc = "run"
                       /\ Started(worker, n).now = Never
                       /\ Started(worker, n).todo = worker.todo
    BY MailFacts, StartedRow
  <2>4. worker.todo = {}
    BY DEF Start, MailInv, ClockOK
  <2> QED  BY <2>1, <2>2, <2>3, <2>4
<1>4. \A j \in Jobs : jobs'[j] \in JobRow /\ JobOK(j, jobs'[j], worker', now)
  BY <1>1, <1>2, <1>3, MailFacts, JobFresh DEF MailInv
<1>5. jobs' \in [Jobs -> JobRow]
  BY <1>2, <1>4 DEF BuildJobs
<1>6. \A j \in Jobs : JobOK(j, jobs'[j], worker', now')
  BY <1>4 DEF Start
<1>7. ClockOK(worker', now') /\ DrainOK(worker', drain')
  BY <1>3, MailFacts DEF ClockOK, DrainOK, Start, MailInv, Never
<1>8. \A k \in Mails : MailOK(k, mails'[k], drain', lost')
  BY MailsStill DEF Start
<1> QED  BY <1>3, <1>5, <1>6, <1>7, <1>8 DEF Start, MailInv, MailShape

LEMMA AdvanceKeeps ==
  ASSUME MailInv, Advance
  PROVE  MailInv'
<1>1. ASSUME NEW j \in Jobs
      PROVE  JobOK(j, jobs'[j], worker', now')
  <2>1. JobOK(j, jobs[j], worker, now) /\ jobs'[j] = jobs[j] /\ worker' = worker
    BY DEF Advance, MailInv
  <2>2. worker.pc # "down" => Looked(worker, now') = Looked(worker, now)
    BY MailFacts DEF Advance, Looked, Never
  <2> QED  BY <2>1, <2>2 DEF JobOK
<1>2. ClockOK(worker', now') /\ DrainOK(worker', drain')
  BY MailFacts DEF Advance, MailInv, ClockOK, DrainOK, Never
<1>3. now' \in 0 .. Horizon
  BY MailFacts, CalendarFacts DEF Advance, MailInv, MailShape
<1>4. \A k \in Mails : MailOK(k, mails'[k], drain', lost')
  BY MailsStill DEF Advance
<1> QED  BY <1>1, <1>2, <1>3, <1>4 DEF Advance, MailInv, MailShape

LEMMA InitMailInv ==
  ASSUME MailInit
  PROVE  MailInv
<1>1. EnvPolicy \in SchedulePolicy /\ EnvMail \in BOOLEAN
  BY CalendarAssumption DEF SchedulePolicy
<1>2. worker \in WorkerRow /\ worker.now = Never /\ worker.todo = {} /\ worker.pc = "run"
  BY DEF MailInit, WorkerRow, Todos
<1>3. \A j \in Jobs : jobs[j] \in JobRow /\ JobOK(j, jobs[j], worker, now)
  BY <1>1, <1>2, JobFresh DEF MailInit
<1>4. jobs \in [Jobs -> JobRow]
  BY <1>3 DEF MailInit, BuildJobs
<1>5. NoMail \in MailRow /\ Written(NoMail, 0)
  BY DEF NoMail, MailRow, Written
<1>6. mails \in [Mails -> MailRow] /\ \A k \in Mails : MailOK(k, mails[k], drain, lost)
  BY <1>5, NoDrainFacts DEF MailInit, MailOK
<1>7. ClockOK(worker, now) /\ DrainOK(worker, drain)
  BY <1>2 DEF MailInit, ClockOK, DrainOK, Never
<1>8. now \in 0 .. Horizon /\ lost \in 0 .. MaxCrashes /\ requests \in 0 .. MaxRequests
  BY CalendarFacts, OutboxFacts DEF MailInit
<1>9. conf \in [schedule : SchedulePolicy, mail : BOOLEAN]
  BY <1>1 DEF MailInit
<1> QED  BY <1>2, <1>3, <1>4, <1>6, <1>7, <1>8, <1>9, NoDrainFacts DEF MailInit, MailInv, MailShape

LEMMA NextMailInv ==
  ASSUME MailInv, [MailNext]_mailVars
  PROVE  MailInv'
<1>1. CASE Console
  <2>1. CASE \E h \in Hours, d \in Weekdays, set \in BOOLEAN : UpdateSettings(h, d, set)
    BY <2>1, UpdateSettingsKeeps
  <2>2. CASE \E a \in Accounts : QueueEmail(a) \/ SendChecksAssigned(a)
    BY <2>2, QueueEmailKeeps DEF SendChecksAssigned
  <2> QED  BY <1>1, <2>1, <2>2 DEF Console
<1>2. CASE Tick
  <2>1. CASE \E readable \in BOOLEAN : LoadSchedule(readable)
    BY <2>1, LoadScheduleKeeps
  <2>2. CASE TickRun
    BY <2>2, TickRunKeeps
  <2>3. CASE \E digest \in [Accounts -> Digests], fails \in BOOLEAN : RunDigest(digest, fails)
    BY <2>3, RunDigestKeeps
  <2>4. CASE \E tasks \in [Accounts -> Tasks], fails \in BOOLEAN : RunReminders(tasks, fails)
    BY <2>4, RunRemindersKeeps
  <2>5. CASE \E fails \in BOOLEAN : RunPurge(fails)
    BY <2>5, RunPurgeKeeps
  <2>6. CASE DrainPick
    BY <2>6, DrainPickKeeps
  <2>7. CASE \E m \in Mails, ok \in BOOLEAN : DrainSend(m, ok)
    BY <2>7, DrainSendKeeps
  <2>8. CASE DrainCommit
    BY <2>8, DrainCommitKeeps
  <2> QED  BY <1>2, <2>1, <2>2, <2>3, <2>4, <2>5, <2>6, <2>7, <2>8 DEF Tick
<1>3. CASE DrainAbort
  BY <1>3, DrainAbortKeeps
<1>4. CASE Crash
  BY <1>4, CrashKeeps
<1>5. CASE \E readable \in BOOLEAN : Start(readable)
  BY <1>5, StartKeeps
<1>6. CASE Advance
  BY <1>6, AdvanceKeeps
<1>7. CASE UNCHANGED mailVars
  BY <1>7 DEF mailVars, MailInv, MailShape
<1> QED  BY <1>1, <1>2, <1>3, <1>4, <1>5, <1>6, <1>7 DEF MailNext

LEMMA MailInvHolds ==
  ASSUME MailInv
  PROVE  OutboxTruthful
<1>1. MailTypes
  <2>1. worker.pc \in {"down", "apply", "run", "drain"}
        /\ worker.policy \in SchedulePolicy \cup {NoPolicy}
    BY MailFacts DEF WorkerRow
  <2>2. \A j \in Jobs : jobs[j].next \in Nat /\ jobs[j].last \in Nat \cup {Never}
    BY MailFacts DEF JobRow
  <2>3. drain.left \subseteq DOMAIN drain.rows
    BY DEF MailInv, MailShape, MailOK
  <2> QED  BY <2>1, <2>2, <2>3, MailFacts DEF MailTypes, MailInv, MailShape
<1>2. ASSUME NEW k \in Mails
      PROVE  /\ mails[k].delivered <= 1 + lost
             /\ mails[k].status = "sent" => mails[k].delivered >= 1
             /\ mails[k].status = "abandoned" => mails[k].tries >= MaxAttempts
             /\ mails[k].status = "purged" =>
                  mails[k].delivered >= 1 \/ mails[k].tries >= MaxAttempts
             /\ mails[k].tries <= MaxAttempts + lost
  <2>1. mails[k] \in MailRow /\ MailOK(k, mails[k], drain, lost)
    BY MailFacts DEF MailInv
  <2>2. CASE k \in DOMAIN drain.rows \ drain.left
    <3>1. mails[k].status = "pending" /\ Written(mails[k], lost + 1)
      BY <2>1, <2>2 DEF MailOK
    <3> QED  BY <2>1, <3>1, MailFacts DEF Written, MailRow
  <2>3. CASE k \notin DOMAIN drain.rows \ drain.left
    <3>1. Written(mails[k], lost)
      BY <2>1, <2>3 DEF MailOK
    <3> QED  BY <2>1, <3>1, MailFacts DEF Written, MailRow
  <2> QED  BY <2>2, <2>3
<1> QED  BY <1>1, <1>2 DEF OutboxTruthful, DeliveredOnce

\* What the outbox says of a mail is what happened to it (outbox.py:62): marked sent, it
\* was delivered; abandoned, it had all its tries; gone from the table, one or the other;
\* and it went out twice only if a drain was lost, whatever was lost.
THEOREM TruthfulOutbox == MailSpec => []OutboxTruthful
<1>1. MailInit => MailInv
  BY InitMailInv
<1>2. MailInv /\ [MailNext]_mailVars => MailInv'
  BY NextMailInv
<1>3. MailInv => OutboxTruthful
  BY MailInvHolds
<1> QED  BY <1>1, <1>2, <1>3, PTL DEF MailSpec

\* Only its own turn, or a new process, changes when a job last ran.
LEMMA LastMoves ==
  ASSUME MailInv, [MailNext]_mailVars, NEW j \in Jobs,
         jobs'[j].last # jobs[j].last, worker'.life = worker.life
  PROVE  worker.now \in Nat /\ jobs'[j].last = worker.now /\ jobs[j].next = worker.now
<1>1. ASSUME NEW i \in Jobs, Running(i), Reschedule(i), JobDone(i, "run"),
             now' = now, drain' = drain
      PROVE  worker.now \in Nat /\ jobs'[j].last = worker.now /\ jobs[j].next = worker.now
  <2>1. /\ worker.now \in Nat /\ jobs[i].next = worker.now /\ jobs'[i].last = worker.now
        /\ \A k \in Jobs \ {i} : jobs'[k] = jobs[k]
    BY <1>1, RunsJob
  <2> QED  BY <2>1
<1>2. ASSUME TickRun PROVE FALSE
  <2>1. ASSUME NEW policy \in SchedulePolicy
        PROVE  Reaim(j, jobs[j], policy, now).last = jobs[j].last
    BY MailFacts DEF Reaim, JobRow
  <2>2. CASE worker.policy = NoPolicy
    BY <1>2, <2>2 DEF TickRun
  <2>3. CASE worker.policy # NoPolicy
    <3>1. worker.policy \in SchedulePolicy
      BY <2>3, MailFacts DEF WorkerRow
    <3>2. jobs'[j] = IF j \in MailJobs THEN Reaim(j, jobs[j], worker.policy, now) ELSE jobs[j]
      BY <1>2, <2>3 DEF TickRun, ApplySchedule
    <3> QED  BY <2>1, <3>1, <3>2
  <2> QED  BY <2>2, <2>3
<1>3. ASSUME NEW readable \in BOOLEAN, Start(readable) PROVE FALSE
  BY <1>3, MailFacts DEF Start, WorkerRow
<1>4. CASE jobs' = jobs
  BY <1>4
<1>5. CASE Tick /\ jobs' # jobs
  <2>1. CASE \E digest \in [Accounts -> Digests], fails \in BOOLEAN : RunDigest(digest, fails)
    BY <1>1, <2>1 DEF RunDigest, Jobs, MailJobs
  <2>2. CASE \E tasks \in [Accounts -> Tasks], fails \in BOOLEAN : RunReminders(tasks, fails)
    BY <1>1, <2>2 DEF RunReminders, Jobs, MailJobs
  <2>3. CASE \E fails \in BOOLEAN : RunPurge(fails)
    BY <1>1, <2>3 DEF RunPurge, Jobs, MailJobs
  <2> QED  BY <1>2, <1>5, <2>1, <2>2, <2>3
           DEF Tick, LoadSchedule, DrainPick, DrainSend, DrainCommit
<1> QED  BY <1>3, <1>4, <1>5
         DEF MailNext, Console, UpdateSettings, QueueEmail, SendChecksAssigned, DrainAbort, Crash,
             Advance, mailVars

\* In one life of the worker no job has two turns in a day, nor the reminder two in a
\* week, however the console moves their hours (apply_schedule, worker.py).
THEOREM OneTurnAPeriod == MailSpec => OncePerPeriod
<1>1. MailInit => MailInv
  BY InitMailInv
<1>2. MailInv /\ [MailNext]_mailVars => MailInv'
  BY NextMailInv
<1> DEFINE Turn(j) == /\ jobs'[j].last # jobs[j].last
                      /\ jobs[j].last # Never
                      /\ worker'.life = worker.life
                      => ~ SamePeriod(j, jobs[j].last, jobs'[j].last)
<1>3. MailInv /\ [MailNext]_mailVars => [\A j \in Jobs : Turn(j)]_mailVars
  <2>1. SUFFICES ASSUME MailInv, [MailNext]_mailVars, NEW j \in Jobs,
                        jobs'[j].last # jobs[j].last, jobs[j].last # Never,
                        worker'.life = worker.life
                 PROVE  ~ SamePeriod(j, jobs[j].last, jobs'[j].last)
    OBVIOUS
  <2>2. worker.now \in Nat /\ jobs'[j].last = worker.now /\ jobs[j].next = worker.now
    BY <2>1, LastMoves
  <2>3. Period(j, jobs[j].last) < Period(j, jobs[j].next)
    BY <2>1 DEF MailInv, JobOK, JobAim
  <2>4. jobs[j].last \in Nat
    BY <2>1, MailFacts DEF JobRow
  <2>5. Period(j, jobs[j].last) \in Int /\ Period(j, worker.now) \in Int
    BY <2>1, <2>2, <2>4, CalendarFacts, Periods DEF MailInv
  <2> QED  BY <2>2, <2>3, <2>5 DEF SamePeriod
<1> QED  BY <1>1, <1>2, <1>3, PTL DEF MailSpec, OncePerPeriod

\* No day, or week, that began after the hour of a job was set ends without its turn
\* taken or under way, while the worker is up (run_due_jobs, worker.py).
THEOREM EveryPeriodServed == MailSpec => PeriodServed
<1>1. MailInit => MailInv
  BY InitMailInv
<1>2. MailInv /\ [MailNext]_mailVars => MailInv'
  BY NextMailInv
<1> DEFINE Turn(j) == /\ worker.pc # "down"
                      /\ Period(j, now') # Period(j, now)
                      /\ Period(j, jobs[j].aimed) < Period(j, now)
                      => Served(j)
<1>3. MailInv /\ [MailNext]_mailVars => [\A j \in Jobs : Turn(j)]_mailVars
  <2>1. SUFFICES ASSUME MailInv, [MailNext]_mailVars, NEW j \in Jobs, worker.pc # "down",
                        Period(j, now') # Period(j, now),
                        Period(j, jobs[j].aimed) < Period(j, now)
                 PROVE  Served(j)
    OBVIOUS
  <2>2. Advance
    BY <2>1 DEF MailNext, Console, UpdateSettings, QueueEmail, SendChecksAssigned, Tick, LoadSchedule,
                TickRun, RunDigest, RunReminders, RunPurge, DrainPick, DrainSend, DrainCommit,
                DrainAbort, Crash, Start, mailVars
  <2>3. worker.now = now /\ now' = now + 1 /\ now \in Nat
    BY <2>1, <2>2, MailFacts DEF Advance
  <2>4. CASE j \in worker.todo
    BY <2>3, <2>4 DEF Served, SamePeriod
  <2>5. CASE j \notin worker.todo
    <3> DEFINE m == jobs[j]
    <3>1. /\ m.next \in Nat /\ m.last \in Nat \cup {Never} /\ m.aimed \in Nat
      BY <2>1, MailFacts DEF JobRow
    <3>2. /\ now < m.next
          /\ m.last # Never => m.last <= now
          /\ \/ Period(j, m.next) <= Period(j, m.aimed) + 1
             \/ m.last # Never /\ Period(j, m.next) <= Period(j, m.last) + 1
      BY <2>1, <2>3, <2>5 DEF MailInv, JobOK, JobAim, Looked, Never
    <3> HIDE DEF m
    <3>3. HoursPerDay \in Nat \ {0} /\ DaysPerWeek \in Nat \ {0}
      BY <2>1, CalendarFacts DEF MailInv
    <3>4. Period(j, now) <= Period(j, now + 1) /\ Period(j, now + 1) <= Period(j, m.next)
      BY <2>3, <3>1, <3>2, <3>3, PeriodsGrow
    <3>5. /\ Period(j, now) \in Int /\ Period(j, now + 1) \in Int /\ Period(j, m.next) \in Int
          /\ Period(j, m.aimed) \in Int
      BY <2>3, <3>1, <3>3, Periods
    <3>6. Period(j, m.next) >= Period(j, now) + 1
      BY <2>1, <2>3, <3>4, <3>5
    <3>7. Period(j, m.aimed) < Period(j, now)
      BY <2>1 DEF m
    <3>8. m.last # Never /\ Period(j, m.next) <= Period(j, m.last) + 1
      BY <3>2, <3>5, <3>6, <3>7
    <3>9. m.last \in Nat /\ m.last <= now
      BY <3>1, <3>2, <3>8
    <3>10. Period(j, m.last) \in Int /\ Period(j, m.last) <= Period(j, now)
      BY <2>3, <3>3, <3>9, Periods, PeriodsGrow
    <3>11. Period(j, m.last) = Period(j, now)
      BY <3>5, <3>6, <3>8, <3>10
    <3> QED  BY <3>8, <3>11 DEF Served, SamePeriod, m
  <2> QED  BY <2>4, <2>5
<1> QED  BY <1>1, <1>2, <1>3, PTL DEF MailSpec, PeriodServed
=============================================================================
