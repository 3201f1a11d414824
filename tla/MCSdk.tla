------------------------------- MODULE MCSdk --------------------------------
(* Instances of Sdk.tla for TLC. *)
EXTENDS Sdk

\* Half seconds: WithFrozenTime, and by itself WithTimeT, between two seconds.
AskFor    == {[frozen |-> TRUE, at |-> 3]}
OnTheWire == [frozen : BOOLEAN, at : {2}]
=============================================================================
