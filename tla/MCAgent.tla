------------------------------ MODULE MCAgent -------------------------------
(* Instances of Agent.tla for TLC. *)
EXTENDS Agent

Advancing == [frozen |-> FALSE, at |-> 1]
Frozen    == [frozen |-> TRUE, at |-> 2]
Both      == {Advancing, Frozen}
=============================================================================
