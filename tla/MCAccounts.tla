------------------------------ MODULE MCAccounts ------------------------------
(* Constants of the instances of Accounts that a .cfg cannot write: an        *)
(* administrator, a manager of accounts confined to a place, and a spare row. *)
EXTENDS Accounts

CONSTANTS root, manager, other, admins, managers, composed, a, b

MCMember == (root :> {admins}) @@ (manager :> {managers}) @@ (other :> {})
\* Two administrators, for the run in which their requests overlap.
MCPair == (root :> {admins}) @@ (manager :> {}) @@ (other :> {admins})
MCGrants == managers :> {UserWrite}
MCConfined == managers :> {"site"}
MCMaxHits == [login |-> 2, reset |-> 1]
MCLoad == [login |-> 10, link |-> 7, write |-> 11]
SameAddresses == Permutations(Addresses)
=============================================================================
