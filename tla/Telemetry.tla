----------------------------- MODULE Telemetry -----------------------------
(***************************************************************************)
(* The reports of one poste: the agent's slow-cycle caches (Windows Update *)
(* state, inventory) with their generation counters, the heartbeat that    *)
(* carries what the server has not acknowledged, its handler, the tables   *)
(* it replaces, the inventory hash it skips on, and the threats it stores  *)
(* and alerts on.                                                          *)
(*                                                                         *)
(* A handler loads the machine row, replaces the children of each block it *)
(* carries, then writes the machine row and keeps its lock until it        *)
(* commits: the last part is one step.  A reading is the set of rows it    *)
(* reports, and its hash is itself.                                        *)
(*                                                                         *)
(* A heartbeat the agent stopped waiting for is still handled, if the      *)
(* request reached the server.  Late bounds how many of those are left     *)
(* when the next poll starts.                                              *)
(*                                                                         *)
(* Not here: blocks that every heartbeat carries and that overwrite one    *)
(* column each (Defender state, session, address), which the next one      *)
(* writes again; usage counters; who is to be alerted (somebody is); the   *)
(* commands and the token of the answer, which are CommandQueue and        *)
(* AgentToken.                                                             *)
(***************************************************************************)
EXTENDS Integers, FiniteSets

CONSTANTS
    Block,        \* the slow-cycle blocks the agent collects
    Item,         \* rows a block may report: a pending update, a program
    Detection,    \* Defender's detections
    Old,          \* those dated too far back to be alerted on
    None,         \* no reading
    Late,         \* bound: heartbeats given up by the agent, left when it polls again
    Gens          \* bound: readings stored by one run of the service

ASSUME TelemetryAssumption ==
    /\ Block \subseteq {"updates", "inventory"}
    /\ Old \subseteq Detection
    /\ \A reading \in SUBSET Item : reading # None
    /\ Late \in Nat /\ Gens \in Nat

VARIABLES
    poste,        \* Defender's history on the poste
    cache,        \* the agent's cache of each block: state, gen, sentGen
    inventorySent,\* the hash of the last reading handed to the inventory cache
    loop,         \* "sleep", or "wait" for the answer of a heartbeat
    reqs,         \* heartbeats under way, to the server, in a handler, and back
    table,        \* the rows stored of each block
    hash,         \* Machine.inventory_hash
    known,        \* the threats stored, with their status
    alerts         \* alerts queued for each detection: 2 is two or more

agent  == <<poste, cache, inventorySent, loop>>
server == <<table, hash, known, alerts>>
vars   == <<agent, reqs, server>>

Reading == SUBSET Item
Status  == {"none", "active", "treated"}
Cache   == [state : Reading \cup {None}, gen : 0 .. Gens, sent : 0 .. Gens]
NoCache == [state |-> None, gen |-> 0, sent |-> 0]

\* report and gen: what pending() gave.  seen: the hash on the row as it was loaded.
\* dropped: what the replacement deletes.  live: the agent waits.
Heartbeat == [report : [Block -> Reading \cup {None}], gen : [Block -> 0 .. Gens],
              threats : [Detection -> Status],
              step : {"sent", "loaded", "written", "done"},
              seen : Reading \cup {None}, dropped : [Block -> Reading], live : BOOLEAN]

\* Every variable has its type, no generation is acknowledged before it exists, and
\* the agent waits for one heartbeat at most.
TypeOK ==
    /\ poste \in [Detection -> Status] /\ known \in [Detection -> Status]
    /\ cache \in [Block -> Cache]
    /\ \A b \in Block : cache[b].sent <= cache[b].gen
    /\ inventorySent \in Reading \cup {None} /\ hash \in Reading \cup {None}
    /\ loop \in {"sleep", "wait"}
    /\ reqs \subseteq Heartbeat
    /\ \A m, n \in reqs : m.live /\ n.live => m = n
    /\ table \in [Block -> Reading]
    /\ alerts \in [Detection -> 0 .. 2]

Init ==
    /\ poste \in [Detection -> {"none", "active"}]
    /\ cache = [b \in Block |-> NoCache] /\ inventorySent = None
    /\ loop = "sleep" /\ reqs = {}
    /\ table = [b \in Block |-> {}] /\ hash = None
    /\ known = [d \in Detection |-> "none"] /\ alerts = [d \in Detection |-> 0]

-----------------------------------------------------------------------------
(* The agent.                                                               *)

\* A detection, then what Defender did about it.
Detect(d) ==
    /\ poste[d] = "none" /\ poste' = [poste EXCEPT ![d] = "active"]
    /\ UNCHANGED <<cache, inventorySent, loop, reqs, server>>

Treat(d) ==
    /\ poste[d] = "active" /\ poste' = [poste EXCEPT ![d] = "treated"]
    /\ UNCHANGED <<cache, inventorySent, loop, reqs, server>>

\* collectWU, runWUScan, runWUInstall, collectInventory, runInventoryScan: a reading of
\* whatever the system has become.  The daily cycle keeps an unchanged inventory to
\* itself, a scan that was asked for does not.
Collect(b, v, forced) ==
    /\ cache[b].gen < Gens
    /\ b = "inventory" => forced \/ v # inventorySent
    /\ cache' = [cache EXCEPT ![b].state = v, ![b].gen = @ + 1]
    /\ inventorySent' = IF b = "inventory" THEN v ELSE inventorySent
    /\ UNCHANGED <<poste, loop, reqs, server>>

\* pending
Pending(b) == cache[b].state # None /\ cache[b].gen # cache[b].sent

\* pollOnce, up to the request; the history of Defender may fail to be read.
PollStart ==
    /\ loop = "sleep" /\ Cardinality(reqs) <= Late
    /\ \E threats \in {poste, [d \in Detection |-> "none"]} :
          reqs' = reqs \cup
              {[report |-> [b \in Block |-> IF Pending(b) THEN cache[b].state ELSE None],
                gen |-> [b \in Block |-> IF Pending(b) THEN cache[b].gen ELSE 0],
                threats |-> threats, step |-> "sent", seen |-> None,
                dropped |-> [b \in Block |-> {}], live |-> TRUE]}
    /\ loop' = "wait"
    /\ UNCHANGED <<poste, cache, inventorySent, server>>

\* Faulty variant: a flag, and not a generation.
MarkFlag(m, b) == IF m.report[b] # None THEN cache[b].gen ELSE cache[b].sent

\* markSent
Marked(m, b) == IF m.gen[b] > cache[b].sent THEN m.gen[b] ELSE cache[b].sent

\* pollOnce, after the answer.
Answered(m) ==
    /\ m.step = "done"
    /\ cache' = [b \in Block |-> [cache[b] EXCEPT !.sent = Marked(m, b)]]
    /\ loop' = "sleep" /\ reqs' = reqs \ {m}
    /\ UNCHANGED <<poste, inventorySent, server>>

\* The agent stops waiting; the request goes its way.
GiveUp(m) ==
    /\ m.live /\ m.step # "done"
    /\ loop' = "sleep" /\ reqs' = (reqs \ {m}) \cup {[m EXCEPT !.live = FALSE]}
    /\ UNCHANGED <<poste, cache, inventorySent, server>>

\* The service is restarted: what it had read and sent is forgotten.
Restart ==
    /\ cache' = [b \in Block |-> NoCache] /\ inventorySent' = None /\ loop' = "sleep"
    /\ reqs' = {[m EXCEPT !.live = FALSE] : m \in {n \in reqs : n.step # "done"}}
    /\ UNCHANGED <<poste, server>>

-----------------------------------------------------------------------------
(* The server.                                                              *)

\* A request or an answer is lost, or the handler fails and is rolled back.
Drop(m) ==
    /\ reqs' = reqs \ {m} /\ loop' = (IF m.live THEN "sleep" ELSE loop)
    /\ UNCHANGED <<poste, cache, inventorySent, server>>

\* machine_for_token: the row is loaded.
Load(m) ==
    /\ m.step = "sent"
    /\ reqs' = (reqs \ {m}) \cup {[m EXCEPT !.step = "loaded", !.seen = hash]}
    /\ UNCHANGED <<agent, server>>

\* The short-circuit: the stored hash is that of the report.
Described(m) == m.report["inventory"] = m.seen

\* The blocks the handler writes.
Applied(m) == {b \in Block : m.report[b] # None /\ (b = "inventory" => ~Described(m))}

\* What is no longer reported, as the statement sees the table.
Stale(m, b) == IF b \in Applied(m) THEN table[b] \ m.report[b] ELSE {}

\* replace_pending, apply_inventory: upsert, then delete.  An upsert waits for another
\* handler that holds one of its rows; a delete does not see the rows another one has
\* inserted.  A first inventory changes the machine row before its children, and waits
\* for another.  The order two deletes of the same rows impose on commits is left open.
Write(m) ==
    /\ m.step = "loaded"
    /\ \A n \in reqs : n.step = "written" =>
          \A b \in Applied(m) \cap Applied(n) :
              /\ m.report[b] \cap (n.report[b] \cup n.dropped[b]) = {}
              /\ b = "inventory" => m.seen # None \/ n.seen # None
    /\ reqs' = (reqs \ {m}) \cup
               {[m EXCEPT !.step = "written", !.dropped = [b \in Block |-> Stale(m, b)]]}
    /\ UNCHANGED <<agent, server>>

\* Faulty variant: the first reading is the last (DO NOTHING).
FirstStatus(m, d) == IF known[d] = "none" THEN m.threats[d] ELSE known[d]

\* upsert_threats: a detection that is reported again has its status revised.
StoredStatus(m, d) == IF m.threats[d] # "none" THEN m.threats[d] ELSE known[d]

\* Faulty variant: what was written, and not what is new.
AlertedChanges(m) == {d \in Detection \ Old : m.threats[d] \notin {"none", known[d]}}

\* new_detections, those recent_detections keeps.
Alerted(m) == {d \in Detection \ Old : m.threats[d] # "none" /\ known[d] = "none"}

\* The machine row, the threats with their alert, and the commit.
Commit(m) ==
    /\ m.step = "written"
    /\ table' = [b \in Block |-> IF b \in Applied(m)
                                 THEN (table[b] \ m.dropped[b]) \cup m.report[b]
                                 ELSE table[b]]
    /\ hash' = IF "inventory" \in Applied(m) THEN m.report["inventory"] ELSE hash
    /\ known' = [d \in Detection |-> StoredStatus(m, d)]
    /\ alerts' = [d \in Detection |-> IF d \in Alerted(m) /\ alerts[d] < 2 THEN alerts[d] + 1
                                                                          ELSE alerts[d]]
    /\ reqs' = (reqs \ {m}) \cup (IF m.live THEN {[m EXCEPT !.step = "done"]} ELSE {})
    /\ UNCHANGED agent

-----------------------------------------------------------------------------
Next ==
    \/ \E d \in Detection : Detect(d) \/ Treat(d)
    \/ \E b \in Block, v \in Reading, forced \in BOOLEAN : Collect(b, v, forced)
    \/ PollStart \/ Restart
    \/ \E m \in reqs : Answered(m) \/ GiveUp(m) \/ Drop(m) \/ Load(m) \/ Write(m) \/ Commit(m)

Spec == Init /\ [][Next]_vars

\* The loop goes on, no heartbeat is waited for beyond its time-out, and what nobody
\* waits for comes to an end.  Among the heartbeats that are tried again and again, one
\* whose threats could be read and are still those of the poste is handled in the end.
Sees(m) == m.live /\ m.threats = poste
Fairness ==
    /\ SF_vars(PollStart /\ \E m \in reqs' \ reqs : m.threats = poste)
    /\ WF_vars(\E m \in reqs : Answered(m) \/ GiveUp(m))
    /\ WF_vars(\E m \in reqs : ~m.live /\ Drop(m))
    /\ SF_vars(\E m \in reqs : Sees(m) /\ Load(m))
    /\ SF_vars(\E m \in reqs : Sees(m) /\ Write(m))
    /\ SF_vars(\E m \in reqs : Sees(m) /\ Commit(m))

FairSpec == Spec /\ Fairness

-----------------------------------------------------------------------------
(* What correct reports promise.                                            *)

\* "when the server is already up to date" (pending): nothing is left to send only if
\* what was collected last is what the tables hold.  True as long as no heartbeat
\* outlives the next poll.
AckedIsStored ==
    \A b \in Block :
        cache[b].gen > 0 /\ cache[b].sent = cache[b].gen => table[b] = cache[b].state

\* "the pair is what says 'the console's picture of this machine is this inventory'"
\* (apply_inventory): the rows stored are those the hash was computed on.
HashIsHonest == "inventory" \in Block /\ hash # None => table["inventory"] = hash

\* "the alert commits with the detections it names, or not at all" (heartbeat): each
\* recent detection that is stored was alerted on once, and no other.
AlertedOnce ==
    \A d \in Detection : alerts[d] = IF known[d] # "none" /\ d \notin Old THEN 1 ELSE 0

\* "Keeping only the first reading would freeze a threat as active" (upsert_threats): the
\* status stored catches up with the one on the poste, and stays.
ThreatsSettle == <>[](known = poste)
=============================================================================
