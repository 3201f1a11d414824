---------------------------- MODULE MCController ----------------------------
(* Instances of Controller.tla for TLC. *)
EXTENDS ControllerRefinement, TLC

\* One pod of one container.
PodOf1 == 1 :> "p1"
\* Two pods of one container each.
PodOf11 == 1 :> "p1" @@ 2 :> "p2"
OneNode == [c \in Containers |-> "n1"]

Adv(n) == [frozen |-> FALSE, at |-> n]
Frz(n) == [frozen |-> TRUE, at |-> n]
ClocksA  == {Adv(1)}
ClocksAF == {Adv(1), Frz(2)}
=============================================================================
