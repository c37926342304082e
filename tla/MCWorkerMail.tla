---------------------------- MODULE MCWorkerMail ----------------------------
(* Constants of the instances of WorkerMail that a .cfg cannot write. *)
EXTENDS WorkerMail

MCEnvPolicy == [hour |-> 1, weekday |-> 0]
MCCadence   == [a \in Accounts |-> "events"]
=============================================================================
