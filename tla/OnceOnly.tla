------------------------------ MODULE OnceOnly ------------------------------
(***************************************************************************)
(* What the command queue promises, without saying how: a command asked of *)
(* a poste is run at most once, from start to conclusion, one at a time,   *)
(* or it is given up.  It is never run before it was asked, never again    *)
(* after it was concluded or given up.                                     *)
(***************************************************************************)
CONSTANT Command
VARIABLE life

Lives == {"unasked", "owed", "held", "started", "concluded", "given_up"}

\* What may be given up, at any moment and together with anything else: an order
\* that expires, a message lost, a poste that stops.
Losable == {c \in Command : life[c] \in {"owed", "held", "started"}}

Settle(lost, moved, to) ==
    life' = [c \in Command |-> IF c \in lost THEN "given_up"
                               ELSE IF c \in moved THEN to ELSE life[c]]

Ask(c, lost) == life[c] = "unasked" /\ Settle(lost, {c}, "owed")

\* A response hands several commands over together.
HandOver(S, lost) == (\A c \in S : life[c] = "owed") /\ Settle(lost, S, "held")

Start(c) ==
    /\ life[c] = "held"
    /\ \A d \in Command : life[d] # "started"
    /\ Settle({}, {c}, "started")

\* Concluded by a run, or by a refusal to run.
Conclude(c) == life[c] \in {"held", "started"} /\ Settle({}, {c}, "concluded")

Init == life = [c \in Command |-> "unasked"]

Next ==
    \/ \E lost \in SUBSET Losable :
          \/ \E c \in Command : Ask(c, lost)
          \/ \E S \in SUBSET (Command \ lost) : HandOver(S, lost)
    \/ \E c \in Command : Start(c) \/ Conclude(c)

Spec == Init /\ [][Next]_life
=============================================================================
