------------------------------ MODULE MCPackages ------------------------------
(* Constants of the instances of Packages that a .cfg cannot write. *)
EXTENDS Packages

MCLoad == [create |-> 2, change |-> 1, sign |-> 1, retire |-> 1, deploy |-> 1, restart |-> 2]
Alike == Permutations(Postes) \cup Permutations(Slots) \cup Permutations(Contents)
           \cup Permutations(PackageIds)
=============================================================================
