------------------------------- MODULE MCBroker -------------------------------
(* Instances of Broker for TLC. *)
EXTENDS Broker, TLC

CONSTANTS c1, c2, t1, t2

Symmetric == Permutations(Conns)
=============================================================================
