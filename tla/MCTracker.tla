----------------------------- MODULE MCTracker -----------------------------
(* Instances of Tracker.tla for TLC. *)
EXTENDS Tracker

Adv(n) == [frozen |-> FALSE, at |-> n]
Frz(n) == [frozen |-> TRUE, at |-> n]

\* StartWithChildren, used between the events of the tree.
CalmWorld ==
    [seized |-> FALSE, prunes |-> TRUE, calm |-> TRUE, killStopped |-> FALSE,
     ops |-> {"set", "advance", "close"}, clocks |-> {Adv(1), Frz(2)},
     calls |-> 2, execs |-> 1, signals |-> 0, faults |-> 0]

\* AttachWithChildren inside a Session, with calls, execs, kills and failures at any time.
RacyWorld ==
    [seized |-> TRUE, prunes |-> FALSE, calm |-> FALSE, killStopped |-> TRUE,
     ops |-> {"set", "close"}, clocks |-> {Adv(1)},
     calls |-> 1, execs |-> 2, signals |-> 0, faults |-> 1]

\* The same with a signal in place of an exec and a failure.
SignalWorld == [RacyWorld EXCEPT !.execs = 1, !.signals = 1, !.faults = 0]

SafetyWorlds == {CalmWorld, RacyWorld}
LiveWorlds   == {SignalWorld}
============================================================================
