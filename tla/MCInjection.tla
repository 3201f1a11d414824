---------------------------- MODULE MCInjection ----------------------------
(* Instances of Injection.tla for TLC. *)
EXTENDS Injection

At(c, g, t) == [h \in Hook |-> IF h = "clock_gettime" THEN c ELSE IF h = "gettimeofday" THEN g ELSE t]

\* The functions in the order of current kernels' vDSOs, in one page or across
\* two, with a whole window below them or at the bottom of the address space,
\* and with clock_gettime at the start of a page.
Ascending == {At(19, 17, 18), At(21, 18, 19), At(11, 9, 10), At(20, 18, 19)}

ASSUME LayoutsInOrder == KernelOrder

Held     == [threads |-> FALSE, brittle |-> FALSE]
Threaded == [threads |-> TRUE, brittle |-> FALSE]
Brittle  == [threads |-> FALSE, brittle |-> TRUE]
AllTargets == {Held, Threaded, Brittle}
============================================================================
