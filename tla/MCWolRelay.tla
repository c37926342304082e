------------------------------ MODULE MCWolRelay ------------------------------
(* Constants of the instances of WolRelay that a .cfg cannot write: a target *)
(* in 3 (0011) with a mask of two bits, a neighbour on its subnet, a poste of *)
(* the same site on another subnet.                                          *)
EXTENDS WolRelay, TLC

CONSTANTS target, near, far

Mac(b) == [hex |-> TRUE, bytes |-> <<b, b>>]

MCProfile ==
  (target :> [location |-> 1, domain |-> None, ip |-> 5, prefix |-> 2, mac |-> Mac(1)]) @@
  (near   :> [location |-> 1, domain |-> 2, ip |-> 6, prefix |-> 2, mac |-> Mac(2)]) @@
  (far    :> [location |-> 1, domain |-> None, ip |-> 9, prefix |-> None, mac |-> Mac(255)])
MCAtFirst   == {{near, far}}
MCZero      == <<0, 0>>
MCBroadcast == <<255, 255>>
=============================================================================
