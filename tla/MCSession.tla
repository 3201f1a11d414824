----------------------------- MODULE MCSession -----------------------------
(* Instances of Session.tla for TLC. *)
EXTENDS Session

Adv(n) == [frozen |-> FALSE, at |-> n]
Frz(n) == [frozen |-> TRUE, at |-> n]
BothModes == {Adv(1), Frz(2)}
============================================================================
