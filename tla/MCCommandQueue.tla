--------------------------- MODULE MCCommandQueue ---------------------------
(* Small instances of CommandQueue.                                         *)
EXTENDS CommandQueue

CONSTANTS c1, c2

\* Commands of one type, which de-duplication compares.
Same == [c \in Command |-> "dism_scan_health"]

\* Where the exploration stops: one command with everything that can happen to it, or
\* two of one type before any can be purged and with no stray heartbeat nor deletion.
Asked(c) == status[c] # "none" \/ c \in queueing
OneOrPair == Asked(c2) => now <= 2 /\ strayHb = 0 /\ orphaned = {} /\ Cardinality(posts) <= 2
=============================================================================
