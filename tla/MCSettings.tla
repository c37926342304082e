------------------------------ MODULE MCSettings ------------------------------
(* Constants of the instances of Settings that a .cfg cannot write. *)
EXTENDS Settings

MCReports == {[defender |-> TRUE, age |-> 1, third |-> FALSE],
              [defender |-> TRUE, age |-> 2, third |-> FALSE]}
MCEnv  == [window |-> 1, low |-> 10, high |-> 20, age |-> 1, mail |-> "off"]
MCLoad == [patch |-> 2, beat |-> 1, merge |-> 2, mail |-> 2, purge |-> 3, restart |-> 3]
Alike  == Permutations(Postes) \cup Permutations(Slots)
=============================================================================
