-------------------------------- MODULE MCParc --------------------------------
(* Constants of the instances of Parc that a .cfg cannot write: two OUs of one *)
(* name; the parc, a site and a building to be confined to.                    *)
EXTENDS Parc

MCNames  == <<"b12", "b12 (2)">>
MCNameOf == [k \in Keys |-> 1]
MCScopes == {[all |-> TRUE, sites |-> {}, buildings |-> {}, rooms |-> {}],
             [all |-> FALSE, sites |-> {"north"}, buildings |-> {}, rooms |-> {}],
             [all |-> FALSE, sites |-> {}, buildings |-> {"A"}, rooms |-> {}],
             [all |-> FALSE, sites |-> {}, buildings |-> {}, rooms |-> {"r1"}]}
MCLoad == [place |-> 2, task |-> 2, visit |-> 3, sync |-> 2, report |-> 1, plan |-> 4]
Alike == Permutations(Postes) \cup Permutations(Checks) \cup Permutations(Slots)
=============================================================================
