--------------------------- MODULE TrackerProofs ---------------------------
(***************************************************************************)
(* Theorems about Tracker.tla, for any process tree, any callers and any   *)
(* bounds: what watchLoop, handleEvent, handleExec, cleanup and applyAll   *)
(* of src/pkg/faketime/faketime.go keep through every interleaving of      *)
(* forks, execs, signals, kills and calls.                                 *)
(***************************************************************************)
EXTENDS Tracker, TLAPS

(***************************************************************************)
(* The inductive invariants.                                               *)
(***************************************************************************)
Dead(p) == proc[p].st \in {"zombie", "gone"}

\* The loop deals with an event of loop.pid.
Busy == loop.pc \in {"fork", "adopt", "exec", "reinject", "swap", "other"}

\* A process has an event only while it is stopped, only the loop holds one, and
\* a process the tracker does not know has not run yet.
StopInv ==
    /\ proc[Parent].st # "none"
    /\ \A p \in Pids :
          /\ proc[p].ev # "none" => proc[p].st \in {"stop", "held"}
          /\ proc[p].st = "stop" => proc[p].ev # "none"
          /\ proc[p].st = "held" => p = loop.pid /\ (Busy \/ loop.pc = "panic")
          /\ Alive(p) /\ p \notin Tracked => proc[p].st = "stop"
          /\ p \in children => proc[p].st # "none"
          /\ proc[p].addr = 0 => proc[p].clock = Real

\* The locals of handleEvent and handleExec are still true of the process they
\* were read from, unless it was killed; what the loop polls is tracked or dead.
LoopInv ==
    /\ \A p \in loop.todo : p \in Tracked \/ Dead(p)
    /\ Busy => /\ proc[loop.pid].st \in {"held", "zombie"}
               /\ loop.pid \in Tracked \/ Dead(loop.pid)
    /\ loop.pc \in {"fork", "adopt"} /\ Alive(loop.pid) => proc[loop.pid].ev = "fork"
    /\ loop.pc \in {"exec", "reinject", "swap"} /\ Alive(loop.pid) => proc[loop.pid].ev = "exec"
    /\ loop.pc = "other" /\ Alive(loop.pid) => proc[loop.pid].ev \in {"init", "signal"}

\* The child that is being adopted is not known yet and is where its forker was.
AdoptInv ==
    loop.pc = "adopt" =>
      /\ loop.kid \in Pids /\ loop.kid # Parent /\ loop.kid # loop.pid
      /\ loop.kid \notin children /\ proc[loop.kid].st # "none"
      /\ Alive(loop.pid) => proc[loop.pid].kid = loop.kid
      /\ Alive(loop.kid) => /\ proc[loop.kid].st = "stop" /\ proc[loop.kid].ev = "init"
                            /\ proc[loop.kid].addr # 0 => proc[loop.kid].addr = loop.new.addr
      /\ \A q \in Pids : q # loop.pid /\ proc[q].ev = "fork" => proc[q].kid # loop.kid
      /\ loop.new.addr # 0

\* A fork that is still to be reported: its child is new and waits.
ForkInv ==
    \A p \in Pids : proc[p].ev = "fork" =>
      /\ proc[p].kid \in Pids /\ proc[p].kid # Parent /\ proc[p].kid # p
      /\ proc[p].kid \notin children /\ proc[proc[p].kid].st # "none"
      /\ Alive(proc[p].kid) => /\ proc[proc[p].kid].st = "stop" /\ proc[proc[p].kid].ev = "init"
                               /\ proc[proc[p].kid].addr = proc[p].addr
      /\ \A q \in Pids : q # p /\ proc[q].ev = "fork" => proc[q].kid # proc[p].kid

\* A handle leads to the page of its process, except between the re-injection
\* and the assignment of h.h.
ReachInv ==
    /\ \A p \in Pids : p \in Tracked =>
          /\ handle[p].addr # 0
          /\ Alive(p) /\ proc[p].addr # 0 /\ ~(loop.pc = "swap" /\ loop.pid = p) =>
                 handle[p].addr = proc[p].addr
    /\ loop.pc = "swap" => /\ loop.new.addr # 0
                           /\ Alive(loop.pid) => loop.new.addr = proc[loop.pid].addr

\* What a call found dead is dead, and it writes only to processes that were started.
CallInv ==
    \A t \in Callers :
      /\ \A p \in call[t].dead : Dead(p)
      /\ \A p \in call[t].todo : proc[p].st # "none" /\ handle[p].addr # 0
      /\ call[t].todo \union call[t].half # {} => call[t].pc = "apply"

\* A child that was never adopted is about to be, or its forker was killed.
OrphanInv ==
    /\ ~done => \A p \in Pids : p # Parent /\ proc[p].st # "none" /\ handle[p].addr = 0 =>
          \/ p \in slain
          \/ \E q \in Pids : proc[q].ev = "fork" /\ proc[q].kid = p
          \/ loop.pc = "adopt" /\ loop.kid = p
    /\ ~done /\ loop.pc \in {"reset", "detach", "ended"} => loop.todo = {} /\ children = {} /\ gone
    /\ gone => proc[Parent].st = "gone"

Closing == \E t \in Callers : call[t].pc = "closing"

\* In a calm world one call at a time is made, between the events of the tree.
CalmInv ==
    world.calm =>
      /\ \A t, u \in Callers : call[t].pc # "idle" /\ call[u].pc # "idle" => t = u
      /\ \A t \in Callers : call[t].pc # "idle" => /\ ~Busy
                                                   /\ \A p \in Pids : proc[p].st \notin {"stop", "held"}
      /\ done /\ loop.pc # "ended" => Closing
      /\ Closing => done
      /\ \A p \in Pids : proc[p].st # "jobstop"

\* Dead children are dropped only where no exec of theirs can be under way.
SwapInv == (world.prunes => world.calm) => /\ Busy => loop.pid \in Tracked
                                           /\ loop.pc # "panic"

\* How far cleanup is.
CloseInv ==
    world.calm /\ Closing =>
      /\ loop.pc = "reset" => \A p \in children : p \in loop.todo \/ ~Alive(p) \/ proc[p].clock = Real
      /\ loop.pc \in {"detach", "ended"} => \A p \in children : ~Alive(p) \/ proc[p].clock = Real
      /\ loop.pc = "detach" => \A p \in children : p \in loop.todo \/ ~Alive(p) \/ ~proc[p].traced
      /\ loop.pc = "ended" => \A p \in Pids : p \in Tracked => ~Alive(p) \/ ~proc[p].traced

\* In a calm world where every re-injection works, until Close.
Fine == world.calm /\ world.faults = 0 /\ ~done

\* Only an exec leaves a process unpatched, until the loop has dealt with it.
Patched == \A p \in Pids : Alive(p) /\ proc[p].addr = 0 => proc[p].ev = "exec"

\* A call brings about the clock that the calls add up to.
Aimed == \A t \in Callers : call[t].pc \in {"read", "apply"} /\ Alive(Parent) => want = call[t].clock

\* How far call t is with process p.
Written(t, p) == \/ p \in call[t].todo
                 \/ proc[p].clock = call[t].clock /\ (p \in call[t].half \/ handle[p].clock = call[t].clock)

Writing ==
    \A t \in Callers : call[t].pc = "apply" => \A p \in Pids : p \in Tracked /\ Alive(p) => Written(t, p)

\* Every process, every Handle and what the loop is about to install have clock k.
OneClock(k) ==
    /\ \A p \in Pids : Alive(p) /\ proc[p].addr # 0 => proc[p].clock = k
    /\ \A p \in Pids : p \in Tracked /\ Alive(p) => handle[p].clock = k
    /\ loop.pc = "adopt" => loop.new.clock = k
    /\ loop.pc \in {"reinject", "swap"} /\ Alive(loop.pid) => loop.new.clock = k

\* Between calls the tree has one clock.
Agreed ==
    (\A t \in Callers : call[t].pc # "apply") =>
        \E k \in Clock : OneClock(k) /\ (Alive(Parent) => k = want \/ \E t \in Callers : call[t].pc = "read")

TreeInv == Fine => Patched /\ Aimed /\ Writing /\ Agreed

(***************************************************************************)
(* The effect of each action.                                              *)
(***************************************************************************)
Others(p) == \A q \in Pids : q # p => proc'[q] = proc[q]

Page(p) == proc'[p].addr = proc[p].addr /\ proc'[p].clock = proc[p].clock

\* Process p goes to st with event ev, and keeps the rest.
Becomes(p, st, ev) ==
    /\ Others(p) /\ Page(p)
    /\ proc'[p].st = st /\ proc'[p].ev = ev
    /\ proc'[p].kid = proc[p].kid /\ proc'[p].traced = proc[p].traced

LEMMA OneProcess ==
    ASSUME proc \in [Pids -> Process], NEW p \in Pids, NEW x \in Process, proc' = [proc EXCEPT ![p] = x]
    PROVE  proc' \in [Pids -> Process] /\ proc'[p] = x /\ Others(p)
  BY DEF Others

LEMMA NoneFacts == Real \in Clock /\ NoProcess \in Process /\ NoHandle \in Handle
<1>1. Real \in Clock
  BY DEF Real, Clock
<1> QED
  BY <1>1 DEF NoProcess, Process, NoHandle, Handle

LEMMA Typed ==
    ASSUME TypeOK
    PROVE  /\ proc \in [Pids -> Process] /\ handle \in [Pids -> Handle]
           /\ \A p \in Pids : proc[p] \in Process /\ handle[p] \in Handle
           /\ loop \in Loop /\ loop.pid \in Pids /\ loop.todo \subseteq Pids /\ loop.new \in Handle
           /\ Parent \in Pids /\ Parent \in Nat /\ children \subseteq Pids
           /\ call \in [Callers -> Caller] /\ \A t \in Callers : call[t] \in Caller
           /\ \A t \in Callers : call[t].todo \subseteq Pids /\ call[t].half \subseteq Pids /\ call[t].dead \subseteq Pids
<1>1. \A t \in Callers : call[t] \in Caller
  BY DEF TypeOK
<1>2. \A t \in Callers : call[t].todo \subseteq Pids /\ call[t].half \subseteq Pids /\ call[t].dead \subseteq Pids
  BY <1>1 DEF Caller
<1> QED
  BY <1>1, <1>2, TreeAssumption DEF TypeOK, Loop

LEMMA SignalFacts ==
    ASSUME proc \in [Pids -> Process], NEW p \in Pids, proc' = [proc EXCEPT ![p].st = "stop", ![p].ev = "signal"]
    PROVE  proc' \in [Pids -> Process] /\ Becomes(p, "stop", "signal")
<1> DEFINE x == [proc[p] EXCEPT !.st = "stop", !.ev = "signal"]
<1>0. proc[p] \in Process /\ Real \in Clock
  BY NoneFacts
<1>1. /\ x \in Process
      /\ x.st = "stop" /\ x.ev = "signal" /\ x.kid = proc[p].kid /\ x.addr = proc[p].addr
      /\ x.clock = proc[p].clock /\ x.traced = proc[p].traced
  BY <1>0 DEF Process
<1>2. proc' = [proc EXCEPT ![p] = x]
  OBVIOUS
<1> HIDE DEF x
<1>3. proc' \in [Pids -> Process] /\ proc'[p] = x /\ Others(p)
  BY <1>1, <1>2, OneProcess
<1> QED
  BY <1>1, <1>3 DEF Becomes, Page

LEMMA HeldFacts ==
    ASSUME proc \in [Pids -> Process], NEW p \in Pids, proc' = [proc EXCEPT ![p].st = "held"]
    PROVE  proc' \in [Pids -> Process] /\ Becomes(p, "held", proc[p].ev)
<1> DEFINE x == [proc[p] EXCEPT !.st = "held"]
<1>0. proc[p] \in Process /\ Real \in Clock
  BY NoneFacts
<1>1. /\ x \in Process
      /\ x.st = "held" /\ x.ev = proc[p].ev /\ x.kid = proc[p].kid /\ x.addr = proc[p].addr
      /\ x.clock = proc[p].clock /\ x.traced = proc[p].traced
  BY <1>0 DEF Process
<1>2. proc' = [proc EXCEPT ![p] = x]
  OBVIOUS
<1> HIDE DEF x
<1>3. proc' \in [Pids -> Process] /\ proc'[p] = x /\ Others(p)
  BY <1>1, <1>2, OneProcess
<1> QED
  BY <1>1, <1>3 DEF Becomes, Page

LEMMA ExecFacts ==
    ASSUME proc \in [Pids -> Process], NEW p \in Pids, proc' = [proc EXCEPT ![p].st = "stop", ![p].ev = "exec", ![p].addr = 0, ![p].clock = Real]
    PROVE  proc' \in [Pids -> Process] /\ Others(p)
           /\ proc'[p].st = "stop" /\ proc'[p].ev = "exec" /\ proc'[p].addr = 0 /\ proc'[p].clock = Real
           /\ proc'[p].kid = proc[p].kid /\ proc'[p].traced = proc[p].traced
<1> DEFINE x == [proc[p] EXCEPT !.st = "stop", !.ev = "exec", !.addr = 0, !.clock = Real]
<1>0. proc[p] \in Process /\ Real \in Clock
  BY NoneFacts
<1>1. /\ x \in Process
      /\ x.st = "stop" /\ x.ev = "exec" /\ x.addr = 0 /\ x.clock = Real /\ x.kid = proc[p].kid
      /\ x.traced = proc[p].traced
  BY <1>0 DEF Process
<1>2. proc' = [proc EXCEPT ![p] = x]
  OBVIOUS
<1> HIDE DEF x
<1>3. proc' \in [Pids -> Process] /\ proc'[p] = x /\ Others(p)
  BY <1>1, <1>2, OneProcess
<1> QED
  BY <1>1, <1>3 DEF Becomes, Page

LEMMA ExitFacts ==
    ASSUME proc \in [Pids -> Process], NEW p \in Pids, NEW s \in {"gone", "zombie"}, proc' = [proc EXCEPT ![p].st = s, ![p].ev = "none"]
    PROVE  proc' \in [Pids -> Process] /\ Becomes(p, s, "none")
<1> DEFINE x == [proc[p] EXCEPT !.st = s, !.ev = "none"]
<1>0. proc[p] \in Process /\ Real \in Clock
  BY NoneFacts
<1>1. /\ x \in Process
      /\ x.st = s /\ x.ev = "none" /\ x.kid = proc[p].kid /\ x.addr = proc[p].addr
      /\ x.clock = proc[p].clock /\ x.traced = proc[p].traced
  BY <1>0 DEF Process
<1>2. proc' = [proc EXCEPT ![p] = x]
  OBVIOUS
<1> HIDE DEF x
<1>3. proc' \in [Pids -> Process] /\ proc'[p] = x /\ Others(p)
  BY <1>1, <1>2, OneProcess
<1> QED
  BY <1>1, <1>3 DEF Becomes, Page

LEMMA ReapFacts ==
    ASSUME proc \in [Pids -> Process], NEW p \in Pids, proc' = [proc EXCEPT ![p] = [NoProcess EXCEPT !.st = "gone"]]
    PROVE  proc' \in [Pids -> Process] /\ Others(p)
           /\ proc'[p].st = "gone" /\ proc'[p].ev = "none" /\ proc'[p].addr = 0 /\ proc'[p].clock = Real
<1> DEFINE x == [NoProcess EXCEPT !.st = "gone"]
<1>0. proc[p] \in Process /\ Real \in Clock
  BY NoneFacts
<1>1. /\ x \in Process
      /\ x.st = "gone" /\ x.ev = "none" /\ x.addr = 0 /\ x.clock = Real
  BY <1>0 DEF Process, NoProcess
<1>2. proc' = [proc EXCEPT ![p] = x]
  OBVIOUS
<1> HIDE DEF x
<1>3. proc' \in [Pids -> Process] /\ proc'[p] = x /\ Others(p)
  BY <1>1, <1>2, OneProcess
<1> QED
  BY <1>1, <1>3 DEF Becomes, Page

LEMMA ClockFacts ==
    ASSUME proc \in [Pids -> Process], NEW p \in Pids, NEW k \in Clock, proc' = [proc EXCEPT ![p].clock = k]
    PROVE  proc' \in [Pids -> Process] /\ Others(p)
           /\ proc'[p].clock = k
           /\ proc'[p].addr = proc[p].addr /\ proc'[p].st = proc[p].st /\ proc'[p].ev = proc[p].ev
           /\ proc'[p].kid = proc[p].kid /\ proc'[p].traced = proc[p].traced
<1> DEFINE x == [proc[p] EXCEPT !.clock = k]
<1>0. proc[p] \in Process /\ Real \in Clock
  BY NoneFacts
<1>1. /\ x \in Process
      /\ x.clock = k /\ x.addr = proc[p].addr /\ x.st = proc[p].st /\ x.ev = proc[p].ev
      /\ x.kid = proc[p].kid /\ x.traced = proc[p].traced
  BY <1>0 DEF Process
<1>2. proc' = [proc EXCEPT ![p] = x]
  OBVIOUS
<1> HIDE DEF x
<1>3. proc' \in [Pids -> Process] /\ proc'[p] = x /\ Others(p)
  BY <1>1, <1>2, OneProcess
<1> QED
  BY <1>1, <1>3 DEF Becomes, Page

LEMMA DetachFacts ==
    ASSUME proc \in [Pids -> Process], NEW p \in Pids, NEW s \in {"run", "held", "jobstop", "none", "gone"}, proc' = [proc EXCEPT ![p].traced = FALSE, ![p].ev = "none", ![p].st = s]
    PROVE  proc' \in [Pids -> Process] /\ Others(p) /\ Page(p)
           /\ proc'[p].st = s /\ proc'[p].ev = "none" /\ proc'[p].traced = FALSE
<1> DEFINE x == [proc[p] EXCEPT !.traced = FALSE, !.ev = "none", !.st = s]
<1>0. proc[p] \in Process /\ Real \in Clock
  BY NoneFacts
<1>1. /\ x \in Process
      /\ x.st = s /\ x.ev = "none" /\ x.traced = FALSE /\ x.kid = proc[p].kid /\ x.addr = proc[p].addr
      /\ x.clock = proc[p].clock
  BY <1>0 DEF Process
<1>2. proc' = [proc EXCEPT ![p] = x]
  OBVIOUS
<1> HIDE DEF x
<1>3. proc' \in [Pids -> Process] /\ proc'[p] = x /\ Others(p)
  BY <1>1, <1>2, OneProcess
<1> QED
  BY <1>1, <1>3 DEF Becomes, Page

\* PTRACE_CONT, which does nothing to a process that is not held.
LEMMA ContFacts ==
    ASSUME proc \in [Pids -> Process], NEW p \in Pids, proc' = Continued(p)
    PROVE  /\ proc' \in [Pids -> Process]
           /\ \/ proc[p].st = "held" /\ Becomes(p, "run", "none")
              \/ proc[p].st # "held" /\ proc' = proc
<1>0. proc[p] \in Process
  OBVIOUS
<1>1. CASE proc[p].st = "held"
  <2> DEFINE x == [proc[p] EXCEPT !.st = "run", !.ev = "none"]
  <2>1. x \in Process /\ x.st = "run" /\ x.ev = "none" /\ x.kid = proc[p].kid /\ x.addr = proc[p].addr
        /\ x.clock = proc[p].clock /\ x.traced = proc[p].traced
    BY <1>0 DEF Process
  <2>2. proc' = [proc EXCEPT ![p] = x]
    BY <1>1 DEF Continued
  <2> HIDE DEF x
  <2>3. proc' \in [Pids -> Process] /\ proc'[p] = x /\ Others(p)
    BY <2>1, <2>2, OneProcess
  <2> QED
    BY <1>1, <2>1, <2>3 DEF Becomes, Page
<1>2. CASE proc[p].st # "held"
  <2>1. [proc[p] EXCEPT !.st = proc[p].st, !.ev = proc[p].ev] = proc[p]
    BY <1>0 DEF Process
  <2>2. proc' = [proc EXCEPT ![p] = [proc[p] EXCEPT !.st = proc[p].st, !.ev = proc[p].ev]]
    BY <1>2 DEF Continued
  <2>3. proc' = proc
    BY <2>1, <2>2
  <2> QED
    BY <1>2, <2>3
<1> QED
  BY <1>1, <1>2

(***************************************************************************)
(* What each action does, and that it keeps the types.                     *)
(***************************************************************************)
LEMMA ForkStep ==
    ASSUME TypeOK, NEW p \in Pids, NEW c \in Pids, Fork(p, c)
    PROVE  /\ TypeOK'
           /\ Undisturbed /\ p # c /\ proc[p].st = "run" /\ proc[p].traced /\ proc[c].st = "none"
           /\ \A q \in Pids : q # p /\ q # c => proc'[q] = proc[q]
           /\ proc'[p].st = "stop" /\ proc'[p].ev = "fork" /\ proc'[p].kid = c /\ Page(p)
           /\ proc'[p].traced = proc[p].traced
           /\ proc'[c].st = "stop" /\ proc'[c].ev = "init" /\ proc'[c].addr = proc[p].addr
           /\ proc'[c].clock = proc[p].clock
           /\ UNCHANGED <<world, handle, children, pending, gone, loopErr, done, loop, call, mapped, used, want, slain>>
<1> DEFINE x == [proc[p] EXCEPT !.st = "stop", !.ev = "fork", !.kid = c]
           y == [proc[p] EXCEPT !.st = "stop", !.ev = "init", !.kid = 0]
<1>1. /\ Undisturbed /\ p # c /\ proc[p].st = "run" /\ proc[p].traced /\ proc[c].st = "none"
      /\ proc[p] \in Process /\ proc \in [Pids -> Process] /\ c \in Nat
  BY Typed, TreeAssumption DEF Fork
<1>2. /\ x \in Process /\ x.st = "stop" /\ x.ev = "fork" /\ x.kid = c /\ x.addr = proc[p].addr
      /\ x.clock = proc[p].clock /\ x.traced = proc[p].traced
  BY <1>1 DEF Process
<1>3. /\ y \in Process /\ y.st = "stop" /\ y.ev = "init" /\ y.addr = proc[p].addr /\ y.clock = proc[p].clock
  BY <1>1 DEF Process
<1>4. proc' = [proc EXCEPT ![p] = x, ![c] = y]
  BY <1>1 DEF Fork
<1> HIDE DEF x, y
<1>5. /\ proc' \in [Pids -> Process] /\ proc'[p] = x /\ proc'[c] = y
      /\ \A q \in Pids : q # p /\ q # c => proc'[q] = proc[q]
  BY <1>1, <1>2, <1>3, <1>4
<1>6. UNCHANGED <<world, handle, children, pending, gone, loopErr, done, loop, call, mapped, used, want, slain>>
  BY Zenon DEF Fork, trkVars, history
<1> QED
  BY <1>1, <1>2, <1>3, <1>5, <1>6 DEF TypeOK, Page

LEMMA ExecStep ==
    ASSUME TypeOK, NEW p \in Pids, Exec(p)
    PROVE  /\ TypeOK'
           /\ Undisturbed /\ proc[p].st = "run" /\ proc[p].traced
           /\ Others(p) /\ proc'[p].st = "stop" /\ proc'[p].ev = "exec" /\ proc'[p].addr = 0 /\ proc'[p].clock = Real
           /\ proc'[p].kid = proc[p].kid /\ proc'[p].traced = proc[p].traced
           /\ UNCHANGED <<world, handle, children, pending, gone, loopErr, done, loop, call, mapped, want, slain>>
<1>1. Undisturbed /\ proc[p].st = "run" /\ proc[p].traced
  BY DEF Exec
<1>2. /\ proc' \in [Pids -> Process]
      /\ Others(p) /\ proc'[p].st = "stop" /\ proc'[p].ev = "exec" /\ proc'[p].addr = 0 /\ proc'[p].clock = Real
           /\ proc'[p].kid = proc[p].kid /\ proc'[p].traced = proc[p].traced
  BY Typed, ExecFacts DEF Exec
<1>3. UNCHANGED <<world, handle, children, pending, gone, loopErr, done, loop, call, mapped, want, slain>>
  BY Zenon DEF Exec, trkVars, history
<1>4. used' \in [calls : Nat, execs : Nat, signals : Nat, faults : Nat]
  BY DEF Exec, TypeOK
<1> QED
  BY <1>1, <1>2, <1>3, <1>4 DEF TypeOK

LEMMA SignalStep ==
    ASSUME TypeOK, NEW p \in Pids, Signal(p)
    PROVE  /\ TypeOK'
           /\ Undisturbed /\ proc[p].st = "run" /\ proc[p].traced
           /\ Becomes(p, "stop", "signal")
           /\ UNCHANGED <<world, handle, children, pending, gone, loopErr, done, loop, call, mapped, want, slain>>
<1>1. Undisturbed /\ proc[p].st = "run" /\ proc[p].traced
  BY DEF Signal
<1>2. /\ proc' \in [Pids -> Process]
      /\ Becomes(p, "stop", "signal")
  BY Typed, SignalFacts DEF Signal
<1>3. UNCHANGED <<world, handle, children, pending, gone, loopErr, done, loop, call, mapped, want, slain>>
  BY Zenon DEF Signal, trkVars, history
<1>4. used' \in [calls : Nat, execs : Nat, signals : Nat, faults : Nat]
  BY DEF Signal, TypeOK
<1> QED
  BY <1>1, <1>2, <1>3, <1>4 DEF TypeOK

LEMMA ExitStep ==
    ASSUME TypeOK, ForkInv, NEW p \in Pids, Exit(p)
    PROVE  /\ TypeOK'
           /\ Alive(p) /\ \E s \in {"gone", "zombie"} : Becomes(p, s, "none")
           /\ Busy /\ proc[p].st = "held" => proc'[p].st = "zombie"
           /\ slain \subseteq slain'
           /\ proc[p].ev = "fork" => proc[p].kid \in slain'
           /\ UNCHANGED <<world, handle, children, pending, gone, loopErr, done, loop, call, mapped, used, want>>
<1> DEFINE s == IF proc[p].st = "run" /\ ~proc[p].traced THEN "gone" ELSE "zombie"
<1>1. Alive(p) /\ s \in {"gone", "zombie"}
  BY DEF Exit, Alive
<1>2. proc[p].st = "held" => s = "zombie"
  OBVIOUS
<1>3. proc' = [proc EXCEPT ![p].st = s, ![p].ev = "none"]
  BY Typed DEF Exit
<1> HIDE DEF s
<1>4. proc' \in [Pids -> Process] /\ Becomes(p, s, "none")
  BY <1>1, <1>3, Typed, ExitFacts
<1>5. UNCHANGED <<world, handle, children, pending, gone, loopErr, done, loop, call, mapped, used, want>>
  BY Zenon DEF Exit, trkVars
<1>6. slain' \subseteq Pids /\ slain \subseteq slain' /\ (proc[p].ev = "fork" => proc[p].kid \in slain')
  BY DEF Exit, TypeOK, ForkInv
<1> QED
  BY <1>1, <1>2, <1>4, <1>5, <1>6 DEF TypeOK, Becomes

LEMMA LoopTopStep ==
    ASSUME TypeOK, LoopTop
    PROVE  /\ TypeOK'
           /\ loop.pc = "top"
           /\ loop'.pid = loop.pid /\ loop'.kid = loop.kid /\ loop'.new = loop.new
           /\ \/ loop'.pc = "reset" /\ loop'.todo = children /\ (done \/ (gone /\ children = {}))
              \/ loop'.pc = "poll" /\ loop'.todo = TrackedPIDs
           /\ UNCHANGED <<world, proc, handle, children, pending, gone, loopErr, done, call, mapped, used, want, slain>>
<1>1. loop.pc = "top" /\ loop \in Loop /\ children \subseteq Pids /\ TrackedPIDs \subseteq Pids
  BY Typed DEF LoopTop, TypeOK, TrackedPIDs
<1>2. UNCHANGED <<world, proc, handle, children, pending, gone, loopErr, done, call, mapped, used, want, slain>>
  BY Zenon DEF LoopTop, trkVars, history
<1>3. CASE done \/ TrackedPIDs = {}
  <2>1. loop' = [loop EXCEPT !.pc = "reset", !.todo = children]
    BY <1>3 DEF LoopTop
  <2>2. /\ loop' \in Loop /\ loop'.pid = loop.pid /\ loop'.kid = loop.kid /\ loop'.new = loop.new
        /\ loop'.pc = "reset" /\ loop'.todo = children
    BY <1>1, <2>1 DEF Loop
  <2>3. done \/ (gone /\ children = {})
    BY <1>3 DEF TrackedPIDs
  <2> QED
    BY <1>1, <1>2, <2>2, <2>3 DEF TypeOK
<1>4. CASE ~(done \/ TrackedPIDs = {})
  <2>1. loop' = [loop EXCEPT !.pc = "poll", !.todo = TrackedPIDs]
    BY <1>4 DEF LoopTop
  <2>2. /\ loop' \in Loop /\ loop'.pid = loop.pid /\ loop'.kid = loop.kid /\ loop'.new = loop.new
        /\ loop'.pc = "poll" /\ loop'.todo = TrackedPIDs
    BY <1>1, <2>1 DEF Loop
  <2> QED
    BY <1>1, <1>2, <2>2 DEF TypeOK
<1> QED
  BY <1>3, <1>4

LEMMA LoopNextStep ==
    ASSUME TypeOK, LoopNext
    PROVE  /\ TypeOK'
           /\ loop.pc = "poll" /\ loop.todo = {}
           /\ loop'.pc = "top" /\ loop'.todo = loop.todo /\ loop'.pid = loop.pid /\ loop'.kid = loop.kid
           /\ loop'.new = loop.new
           /\ UNCHANGED <<world, proc, handle, children, pending, gone, loopErr, done, call, mapped, used, want, slain>>
<1>1. loop.pc = "poll" /\ loop.todo = {} /\ loop \in Loop
  BY Typed DEF LoopNext
<1>2. UNCHANGED <<world, proc, handle, children, pending, gone, loopErr, done, call, mapped, used, want, slain>>
  BY Zenon DEF LoopNext, trkVars, history
<1>3. loop' \in Loop /\ loop'.pc = "top" /\ loop'.todo = loop.todo /\ loop'.pid = loop.pid /\ loop'.kid = loop.kid /\ loop'.new = loop.new
  BY <1>1 DEF LoopNext, Loop, Goto, TypeOK
<1> QED
  BY <1>1, <1>2, <1>3 DEF TypeOK

LEMMA PollNoneStep ==
    ASSUME TypeOK, NEW p \in loop.todo, PollNone(p)
    PROVE  /\ TypeOK'
           /\ loop.pc = "poll"
           /\ loop'.pc = "poll" /\ loop'.todo = loop.todo \ {p} /\ loop'.pid = loop.pid
           /\ loop'.kid = loop.kid /\ loop'.new = loop.new
           /\ UNCHANGED <<world, proc, handle, children, pending, gone, loopErr, done, call, mapped, used, want, slain>>
<1>1. loop.pc = "poll" /\ loop \in Loop
  BY Typed DEF PollNone, Polls
<1>2. UNCHANGED <<world, proc, handle, children, pending, gone, loopErr, done, call, mapped, used, want, slain>>
  BY Zenon DEF PollNone, trkVars, history
<1>3. loop' \in Loop /\ loop'.pc = "poll" /\ loop'.todo = loop.todo \ {p} /\ loop'.pid = loop.pid /\ loop'.kid = loop.kid /\ loop'.new = loop.new
  BY <1>1 DEF PollNone, Loop, Goto, TypeOK
<1> QED
  BY <1>1, <1>2, <1>3 DEF TypeOK

LEMMA CleanListStep ==
    ASSUME TypeOK, CleanList
    PROVE  /\ TypeOK'
           /\ loop.pc = "reset" /\ loop.todo = {}
           /\ loop'.pc = "detach" /\ loop'.todo = children /\ loop'.pid = loop.pid /\ loop'.kid = loop.kid
           /\ loop'.new = loop.new
           /\ UNCHANGED <<world, proc, handle, children, pending, gone, loopErr, done, call, mapped, used, want, slain>>
<1>1. loop.pc = "reset" /\ loop.todo = {} /\ loop \in Loop
  BY Typed DEF CleanList
<1>2. UNCHANGED <<world, proc, handle, children, pending, gone, loopErr, done, call, mapped, used, want, slain>>
  BY Zenon DEF CleanList, trkVars, history
<1>3. loop' \in Loop /\ loop'.pc = "detach" /\ loop'.todo = children /\ loop'.pid = loop.pid /\ loop'.kid = loop.kid /\ loop'.new = loop.new
  BY <1>1 DEF CleanList, Loop, Goto, TypeOK
<1> QED
  BY <1>1, <1>2, <1>3 DEF TypeOK

LEMMA PollExitStep ==
    ASSUME TypeOK, NEW p \in loop.todo, PollExit(p)
    PROVE  /\ TypeOK'
           /\ loop.pc = "poll" /\ p \in Pids /\ proc[p].st = "zombie"
           /\ Others(p)
           /\ proc'[p].st = "gone" /\ proc'[p].ev = "none" /\ proc'[p].addr = 0 /\ proc'[p].clock = Real
           /\ children' = children \ {p}
           /\ gone' = (gone \/ p = Parent)
           /\ loop'.pc = "poll" /\ loop'.todo = loop.todo \ {p} /\ loop'.pid = loop.pid
           /\ loop'.kid = loop.kid /\ loop'.new = loop.new
           /\ UNCHANGED <<world, handle, done, call, mapped, used, want, slain>>
<1>1. loop.pc = "poll" /\ p \in Pids /\ proc[p].st = "zombie" /\ loop \in Loop
  BY Typed DEF PollExit, Polls
<1>2. /\ proc' \in [Pids -> Process] /\ Others(p)
      /\ proc'[p].st = "gone" /\ proc'[p].ev = "none" /\ proc'[p].addr = 0 /\ proc'[p].clock = Real
  BY <1>1, Typed, ReapFacts DEF PollExit
<1>3. loop' \in Loop /\ loop'.pc = "poll" /\ loop'.todo = loop.todo \ {p} /\ loop'.pid = loop.pid /\ loop'.kid = loop.kid /\ loop'.new = loop.new
  BY <1>1 DEF PollExit, Loop
<1>4. /\ children' = children \ {p} /\ pending' = pending \ {p} /\ gone' = (gone \/ p = Parent)
      /\ loopErr' = IF p = Parent /\ loopErr = "none" THEN "exited" ELSE loopErr
      /\ UNCHANGED <<world, handle, done, call, mapped, used, want, slain>>
  BY Zenon DEF PollExit, history
<1> QED
  BY <1>1, <1>2, <1>3, <1>4 DEF TypeOK

LEMMA PollStopStep ==
    ASSUME TypeOK, NEW p \in loop.todo, PollStop(p)
    PROVE  /\ TypeOK'
           /\ loop.pc = "poll" /\ p \in Pids /\ proc[p].st = "stop"
           /\ Becomes(p, "held", proc[p].ev)
           /\ loop'.pc = (IF proc[p].ev \in {"fork", "exec"} THEN proc[p].ev ELSE "other")
           /\ loop'.todo = loop.todo \ {p} /\ loop'.pid = p /\ loop'.kid = loop.kid /\ loop'.new = loop.new
           /\ UNCHANGED <<world, handle, children, pending, gone, loopErr, done, call, mapped, used, want, slain>>
<1>1. loop.pc = "poll" /\ p \in Pids /\ proc[p].st = "stop" /\ loop \in Loop
  BY Typed DEF PollStop, Polls
<1>2. proc' \in [Pids -> Process] /\ Becomes(p, "held", proc[p].ev)
  BY <1>1, Typed, HeldFacts DEF PollStop
<1> DEFINE l == IF proc[p].ev \in {"fork", "exec"} THEN proc[p].ev ELSE "other"
<1>3. loop' = [loop EXCEPT !.todo = @ \ {p}, !.pid = p, !.pc = l]
  BY DEF PollStop
<1>4. l \in {"fork", "exec", "other"}
  OBVIOUS
<1> HIDE DEF l
<1>5. /\ loop' \in Loop /\ loop'.pc = l
      /\ loop'.todo = loop.todo \ {p} /\ loop'.pid = p /\ loop'.kid = loop.kid /\ loop'.new = loop.new
  BY <1>1, <1>3, <1>4 DEF Loop
<1>6. UNCHANGED <<world, handle, children, pending, gone, loopErr, done, call, mapped, used, want, slain>>
  BY Zenon DEF PollStop, trkVars, history
<1> QED
  BY <1>1, <1>2, <1>5, <1>6 DEF TypeOK, l

LEMMA HandledFacts ==
    ASSUME TypeOK, loop' = Handled
    PROVE  loop' \in Loop /\ loop'.pc = "poll" /\ loop'.todo = loop.todo /\ loop'.pid = Parent /\ loop'.kid = 0 /\ loop'.new = NoHandle
<1>1. loop \in Loop /\ NoHandle \in Handle /\ Parent \in Pids
  BY Typed, NoneFacts
<1> QED
  BY <1>1 DEF Handled, Loop

LEMMA LoopForkStep ==
    ASSUME TypeOK, LoopFork
    PROVE  /\ TypeOK'
           /\ loop.pc = "fork"
           /\ \/ /\ Alive(loop.pid) /\ loop'.pc = "adopt" /\ loop'.todo = loop.todo /\ loop'.pid = loop.pid
                 /\ loop'.kid = proc[loop.pid].kid /\ loop'.new = ParentHandle(loop.pid)
              \/ ~Alive(loop.pid) /\ loop'.pc = "poll" /\ loop'.todo = loop.todo /\ loop'.pid = Parent /\ loop'.kid = 0 /\ loop'.new = NoHandle
           /\ UNCHANGED <<world, proc, handle, children, pending, gone, loopErr, done, call, mapped, used, want, slain>>
<1>1. loop.pc = "fork" /\ loop \in Loop /\ loop.pid \in Pids /\ proc[loop.pid] \in Process /\ ParentHandle(loop.pid) \in Handle
  BY Typed DEF LoopFork, ParentHandle
<1>2. UNCHANGED <<world, proc, handle, children, pending, gone, loopErr, done, call, mapped, used, want, slain>>
  BY Zenon DEF LoopFork, trkVars, history
<1>3. CASE Alive(loop.pid)
  <2> DEFINE n == ParentHandle(loop.pid)
             c == proc[loop.pid].kid
  <2>1. n \in Handle /\ c \in Nat
    BY <1>1 DEF Process
  <2>2. loop' = [loop EXCEPT !.pc = "adopt", !.kid = c, !.new = n]
    BY <1>3 DEF LoopFork
  <2> HIDE DEF n, c
  <2>3. /\ loop' \in Loop /\ loop'.pc = "adopt" /\ loop'.todo = loop.todo /\ loop'.pid = loop.pid
        /\ loop'.kid = c /\ loop'.new = n
    BY <1>1, <2>1, <2>2 DEF Loop
  <2> QED
    BY <1>1, <1>2, <1>3, <2>3 DEF TypeOK, n, c
<1>4. CASE ~Alive(loop.pid)
  <2>1. loop' \in Loop /\ loop'.pc = "poll" /\ loop'.todo = loop.todo /\ loop'.pid = Parent /\ loop'.kid = 0 /\ loop'.new = NoHandle
    BY <1>4, HandledFacts DEF LoopFork
  <2> QED
    BY <1>1, <1>2, <1>4, <2>1 DEF TypeOK
<1> QED
  BY <1>3, <1>4

LEMMA LoopAdoptStep ==
    ASSUME TypeOK, AdoptInv, LoopAdopt
    PROVE  /\ TypeOK'
           /\ loop.pc = "adopt" /\ loop.kid \in Pids
           /\ handle'[loop.kid] = loop.new /\ \A q \in Pids : q # loop.kid => handle'[q] = handle[q]
           /\ children' = children \union {loop.kid}
           /\ \/ proc[loop.pid].st = "held" /\ Becomes(loop.pid, "run", "none")
              \/ proc[loop.pid].st # "held" /\ proc' = proc
           /\ loop'.pc = "poll" /\ loop'.todo = loop.todo /\ loop'.pid = Parent /\ loop'.kid = 0 /\ loop'.new = NoHandle
           /\ UNCHANGED <<world, gone, loopErr, done, call, mapped, used, want, slain>>
<1>1. loop.pc = "adopt" /\ loop.kid \in Pids /\ loop.pid \in Pids /\ loop.new \in Handle
  BY Typed DEF LoopAdopt, AdoptInv
<1>2. /\ proc' \in [Pids -> Process]
      /\ \/ proc[loop.pid].st = "held" /\ Becomes(loop.pid, "run", "none")
         \/ proc[loop.pid].st # "held" /\ proc' = proc
  BY <1>1, Typed, ContFacts DEF LoopAdopt
<1>3. loop' \in Loop /\ loop'.pc = "poll" /\ loop'.todo = loop.todo /\ loop'.pid = Parent /\ loop'.kid = 0 /\ loop'.new = NoHandle
  BY HandledFacts DEF LoopAdopt
<1>4. /\ handle' \in [Pids -> Handle]
      /\ handle'[loop.kid] = loop.new /\ \A q \in Pids : q # loop.kid => handle'[q] = handle[q]
  BY <1>1, Typed DEF LoopAdopt
<1>5. /\ children' = children \union {loop.kid} /\ pending' = pending \union {loop.kid}
      /\ UNCHANGED <<world, gone, loopErr, done, call, mapped, used, want, slain>>
  BY Zenon DEF LoopAdopt, history
<1> QED
  BY <1>1, <1>2, <1>3, <1>4, <1>5 DEF TypeOK

LEMMA LoopOtherStep ==
    ASSUME TypeOK, LoopOther
    PROVE  /\ TypeOK'
           /\ loop.pc = "other"
           /\ \/ proc[loop.pid].st = "held" /\ Becomes(loop.pid, "run", "none")
              \/ proc[loop.pid].st # "held" /\ proc' = proc
           /\ loop'.pc = "poll" /\ loop'.todo = loop.todo /\ loop'.pid = Parent /\ loop'.kid = 0 /\ loop'.new = NoHandle
           /\ UNCHANGED <<world, handle, children, gone, loopErr, done, call, mapped, used, want, slain>>
<1>1. loop.pc = "other" /\ loop.pid \in Pids
  BY Typed DEF LoopOther
<1>2. /\ proc' \in [Pids -> Process]
      /\ \/ proc[loop.pid].st = "held" /\ Becomes(loop.pid, "run", "none")
         \/ proc[loop.pid].st # "held" /\ proc' = proc
  BY <1>1, Typed, ContFacts DEF LoopOther
<1>3. loop' \in Loop /\ loop'.pc = "poll" /\ loop'.todo = loop.todo /\ loop'.pid = Parent /\ loop'.kid = 0 /\ loop'.new = NoHandle
  BY HandledFacts DEF LoopOther
<1>4. pending' = pending \ {loop.pid} /\ UNCHANGED <<world, handle, children, gone, loopErr, done, call, mapped, used, want, slain>>
  BY Zenon DEF LoopOther, history
<1> QED
  BY <1>1, <1>2, <1>3, <1>4 DEF TypeOK

LEMMA LoopExecStep ==
    ASSUME TypeOK, LoopExec
    PROVE  /\ TypeOK'
           /\ loop.pc = "exec"
           /\ \/ /\ loop.pid \in Tracked /\ proc' = proc
                 /\ loop'.pc = "reinject" /\ loop'.todo = loop.todo /\ loop'.pid = loop.pid
                 /\ loop'.kid = loop.kid /\ loop'.new = handle[loop.pid]
              \/ /\ loop.pid \notin Tracked /\ loop'.pc = "poll" /\ loop'.todo = loop.todo /\ loop'.pid = Parent /\ loop'.kid = 0 /\ loop'.new = NoHandle
                 /\ \/ proc[loop.pid].st = "held" /\ Becomes(loop.pid, "run", "none")
                    \/ proc[loop.pid].st # "held" /\ proc' = proc
           /\ UNCHANGED <<world, handle, children, pending, gone, loopErr, done, call, mapped, used, want, slain>>
<1>1. loop.pc = "exec" /\ loop.pid \in Pids /\ loop \in Loop /\ handle[loop.pid] \in Handle
  BY Typed DEF LoopExec
<1>2. UNCHANGED <<world, handle, children, pending, gone, loopErr, done, call, mapped, used, want, slain>>
  BY Zenon DEF LoopExec, trkVars, history
<1>3. CASE loop.pid \in Tracked
  <2> DEFINE n == handle[loop.pid]
  <2>1. proc' = proc /\ loop' = [loop EXCEPT !.pc = "reinject", !.new = n]
    BY <1>3 DEF LoopExec, Tracked
  <2> HIDE DEF n
  <2>2. /\ loop' \in Loop /\ loop'.pc = "reinject" /\ loop'.todo = loop.todo /\ loop'.pid = loop.pid
        /\ loop'.kid = loop.kid /\ loop'.new = n
    BY <1>1, <2>1 DEF Loop, n
  <2> QED
    BY <1>1, <1>2, <1>3, <2>1, <2>2 DEF TypeOK, n
<1>4. CASE loop.pid \notin Tracked
  <2>1. loop' = Handled /\ proc' = Continued(loop.pid)
    BY <1>4 DEF LoopExec, Tracked
  <2>2. /\ proc' \in [Pids -> Process]
        /\ \/ proc[loop.pid].st = "held" /\ Becomes(loop.pid, "run", "none")
           \/ proc[loop.pid].st # "held" /\ proc' = proc
    BY <1>1, <2>1, Typed, ContFacts
  <2>3. loop' \in Loop /\ loop'.pc = "poll" /\ loop'.todo = loop.todo /\ loop'.pid = Parent /\ loop'.kid = 0 /\ loop'.new = NoHandle
    BY <2>1, HandledFacts
  <2> QED
    BY <1>1, <1>2, <1>4, <2>2, <2>3 DEF TypeOK
<1> QED
  BY <1>3, <1>4

LEMMA ReinjectOkStep ==
    ASSUME TypeOK, ReinjectOk
    PROVE  /\ TypeOK'
           /\ loop.pc = "reinject" /\ Alive(loop.pid) /\ mapped \in Nat
           /\ Others(loop.pid) /\ proc'[loop.pid].addr = mapped + 1 /\ proc'[loop.pid].clock = loop.new.clock
           /\ proc'[loop.pid].st = proc[loop.pid].st /\ proc'[loop.pid].ev = proc[loop.pid].ev
           /\ proc'[loop.pid].kid = proc[loop.pid].kid /\ proc'[loop.pid].traced = proc[loop.pid].traced
           /\ loop'.pc = "swap" /\ loop'.todo = loop.todo /\ loop'.pid = loop.pid /\ loop'.kid = loop.kid
           /\ loop'.new.addr = mapped + 1 /\ loop'.new.clock = loop.new.clock
           /\ UNCHANGED <<world, handle, children, pending, gone, loopErr, done, call, used, want, slain>>
<1>1. /\ loop.pc = "reinject" /\ Alive(loop.pid) /\ loop.pid \in Pids /\ loop \in Loop /\ loop.new \in Handle
      /\ mapped \in Nat /\ mapped + 1 \in Nat
  BY Typed DEF ReinjectOk, TypeOK
<1> DEFINE k == loop.new.clock
           n == mapped + 1
           h == [loop.new EXCEPT !.addr = mapped + 1]
<1>2. k \in Clock /\ h \in Handle /\ h.addr = mapped + 1 /\ h.clock = k
  BY <1>1 DEF Handle
<1>3. proc' = [proc EXCEPT ![loop.pid].addr = n, ![loop.pid].clock = k]
  BY DEF ReinjectOk
<1>4. loop' = [loop EXCEPT !.pc = "swap", !.new = h]
  BY <1>1 DEF ReinjectOk, Loop
<1>4a. n \in Nat /\ proc \in [Pids -> Process]
  BY <1>1, Typed
<1> HIDE DEF k, h, n
<1>5. /\ proc' \in [Pids -> Process] /\ Others(loop.pid)
      /\ proc'[loop.pid].addr = n /\ proc'[loop.pid].clock = k
      /\ proc'[loop.pid].st = proc[loop.pid].st /\ proc'[loop.pid].ev = proc[loop.pid].ev
      /\ proc'[loop.pid].kid = proc[loop.pid].kid /\ proc'[loop.pid].traced = proc[loop.pid].traced
  <2> DEFINE x == [proc[loop.pid] EXCEPT !.addr = n, !.clock = k]
  <2>0. proc[loop.pid] \in Process
    BY <1>1, <1>4a
  <2>1. /\ x \in Process /\ x.addr = n /\ x.clock = k /\ x.st = proc[loop.pid].st /\ x.ev = proc[loop.pid].ev
        /\ x.kid = proc[loop.pid].kid /\ x.traced = proc[loop.pid].traced
    BY <1>2, <1>4a, <2>0 DEF Process
  <2>2. proc' = [proc EXCEPT ![loop.pid] = x]
    BY <1>3
  <2> HIDE DEF x
  <2>3. proc' \in [Pids -> Process] /\ proc'[loop.pid] = x /\ Others(loop.pid)
    BY <1>1, <1>4a, <2>1, <2>2, OneProcess
  <2> QED
    BY <2>1, <2>3
<1>6. /\ loop' \in Loop /\ loop'.pc = "swap" /\ loop'.todo = loop.todo /\ loop'.pid = loop.pid /\ loop'.kid = loop.kid
      /\ loop'.new = h
  BY <1>1, <1>2, <1>4 DEF Loop
<1>7. mapped' = mapped + 1 /\ UNCHANGED <<world, handle, children, pending, gone, loopErr, done, call, used, want, slain>>
  BY Zenon DEF ReinjectOk, trkVars, history
<1> QED
  BY <1>1, <1>2, <1>5, <1>6, <1>7 DEF TypeOK, k, n

LEMMA ReinjectErrStep ==
    ASSUME TypeOK, ReinjectErr
    PROVE  /\ TypeOK'
           /\ loop.pc = "reinject"
           /\ ~Alive(loop.pid) \/ world.faults # 0
           /\ \/ proc[loop.pid].st = "held" /\ Becomes(loop.pid, "run", "none")
              \/ proc[loop.pid].st # "held" /\ proc' = proc
           /\ loop'.pc = "poll" /\ loop'.todo = loop.todo /\ loop'.pid = Parent /\ loop'.kid = 0 /\ loop'.new = NoHandle
           /\ UNCHANGED <<world, handle, children, pending, gone, done, call, mapped, want, slain>>
<1>1. /\ loop.pc = "reinject" /\ loop.pid \in Pids /\ (loopErr' \in {loopErr, "reinject"})
      /\ used \in [calls : Nat, execs : Nat, signals : Nat, faults : Nat]
  BY Typed DEF ReinjectErr, TypeOK
<1>2. /\ proc' \in [Pids -> Process]
      /\ \/ proc[loop.pid].st = "held" /\ Becomes(loop.pid, "run", "none")
         \/ proc[loop.pid].st # "held" /\ proc' = proc
  BY <1>1, Typed, ContFacts DEF ReinjectErr
<1>3. loop' \in Loop /\ loop'.pc = "poll" /\ loop'.todo = loop.todo /\ loop'.pid = Parent /\ loop'.kid = 0 /\ loop'.new = NoHandle
  BY HandledFacts DEF ReinjectErr
<1>4. UNCHANGED <<world, handle, children, pending, gone, done, call, mapped, want, slain>>
  BY Zenon DEF ReinjectErr, history
<1>5. /\ used' \in [calls : Nat, execs : Nat, signals : Nat, faults : Nat]
      /\ ~Alive(loop.pid) \/ world.faults # 0
  BY <1>1 DEF ReinjectErr
<1> QED
  BY <1>1, <1>2, <1>3, <1>4, <1>5 DEF TypeOK

LEMMA HandleFacts ==
    ASSUME handle \in [Pids -> Handle], NEW p \in Pids, NEW x \in Handle, handle' = [handle EXCEPT ![p] = x]
    PROVE  /\ handle' \in [Pids -> Handle] /\ handle'[p] = x
           /\ \A q \in Pids : q # p => handle'[q] = handle[q]
  OBVIOUS

LEMMA LoopSwapStep ==
    ASSUME TypeOK, LoopSwap
    PROVE  /\ TypeOK'
           /\ loop.pc = "swap"
           /\ \/ /\ loop.pid \in Tracked /\ loop'.pc = "poll" /\ loop'.todo = loop.todo /\ loop'.pid = Parent /\ loop'.kid = 0 /\ loop'.new = NoHandle
                 /\ handle'[loop.pid].addr = loop.new.addr /\ handle'[loop.pid].clock = handle[loop.pid].clock
                 /\ \A q \in Pids : q # loop.pid => handle'[q] = handle[q]
                 /\ \/ proc[loop.pid].st = "held" /\ Becomes(loop.pid, "run", "none")
                    \/ proc[loop.pid].st # "held" /\ proc' = proc
              \/ /\ loop.pid \notin Tracked /\ handle' = handle /\ proc' = proc
                 /\ loop'.pc = "panic" /\ loop'.todo = loop.todo /\ loop'.pid = loop.pid
                 /\ loop'.kid = loop.kid /\ loop'.new = loop.new
           /\ UNCHANGED <<world, children, pending, gone, loopErr, done, call, mapped, used, want, slain>>
<1>1. loop.pc = "swap" /\ loop.pid \in Pids /\ loop \in Loop /\ handle[loop.pid] \in Handle /\ loop.new \in Handle
  BY Typed DEF LoopSwap
<1>2. UNCHANGED <<world, children, pending, gone, loopErr, done, call, mapped, used, want, slain>>
  BY Zenon DEF LoopSwap, history
<1>3. CASE loop.pid \in Tracked
  <2> DEFINE x == [handle[loop.pid] EXCEPT !.addr = loop.new.addr]
  <2>1. x \in Handle /\ x.addr = loop.new.addr /\ x.clock = handle[loop.pid].clock
    BY <1>1 DEF Handle
  <2>2. loop' = Handled /\ proc' = Continued(loop.pid) /\ handle' = [handle EXCEPT ![loop.pid] = x]
    BY <1>3 DEF LoopSwap, Tracked
  <2> HIDE DEF x
  <2>3. /\ handle' \in [Pids -> Handle] /\ handle'[loop.pid] = x
        /\ \A q \in Pids : q # loop.pid => handle'[q] = handle[q]
    BY <1>1, <2>1, <2>2, Typed, HandleFacts
  <2>4. /\ proc' \in [Pids -> Process]
        /\ \/ proc[loop.pid].st = "held" /\ Becomes(loop.pid, "run", "none")
           \/ proc[loop.pid].st # "held" /\ proc' = proc
    BY <1>1, <2>2, Typed, ContFacts
  <2>5. loop' \in Loop /\ loop'.pc = "poll" /\ loop'.todo = loop.todo /\ loop'.pid = Parent /\ loop'.kid = 0 /\ loop'.new = NoHandle
    BY <2>2, HandledFacts
  <2> QED
    BY <1>1, <1>2, <1>3, <2>1, <2>3, <2>4, <2>5 DEF TypeOK
<1>4. CASE loop.pid \notin Tracked
  <2>1. loop' = [loop EXCEPT !.pc = "panic"] /\ handle' = handle /\ proc' = proc
    BY <1>4 DEF LoopSwap, Tracked, Goto
  <2>2. loop' \in Loop /\ loop'.pc = "panic" /\ loop'.todo = loop.todo /\ loop'.pid = loop.pid /\ loop'.kid = loop.kid /\ loop'.new = loop.new
    BY <1>1, <2>1 DEF Loop
  <2> QED
    BY <1>1, <1>2, <1>4, <2>1, <2>2 DEF TypeOK
<1> QED
  BY <1>3, <1>4

LEMMA CleanResetStep ==
    ASSUME TypeOK, NEW p \in loop.todo, CleanReset(p)
    PROVE  /\ TypeOK'
           /\ loop.pc = "reset" /\ p \in Pids
           /\ loop'.pc = "reset" /\ loop'.todo = loop.todo \ {p} /\ loop'.pid = loop.pid
           /\ loop'.kid = loop.kid /\ loop'.new = loop.new
           /\ \/ /\ Alive(p) /\ handle[p].addr = proc[p].addr
                 /\ Others(p) /\ proc'[p].clock = Real
                 /\ proc'[p].addr = proc[p].addr /\ proc'[p].st = proc[p].st /\ proc'[p].ev = proc[p].ev
                 /\ proc'[p].kid = proc[p].kid /\ proc'[p].traced = proc[p].traced
                 /\ handle'[p].addr = handle[p].addr /\ \A q \in Pids : q # p => handle'[q] = handle[q]
              \/ ~(Alive(p) /\ handle[p].addr = proc[p].addr) /\ proc' = proc /\ handle' = handle
           /\ UNCHANGED <<world, children, pending, gone, loopErr, done, call, mapped, used, want, slain>>
<1>1. loop.pc = "reset" /\ p \in Pids /\ loop \in Loop /\ handle[p] \in Handle /\ Real \in Clock
  BY Typed, NoneFacts DEF CleanReset
<1>2. UNCHANGED <<world, children, pending, gone, loopErr, done, call, mapped, used, want, slain>>
  BY Zenon DEF CleanReset, history
<1>3. loop' \in Loop /\ loop'.pc = "reset" /\ loop'.todo = loop.todo \ {p} /\ loop'.pid = loop.pid /\ loop'.kid = loop.kid /\ loop'.new = loop.new
  BY <1>1 DEF CleanReset, Loop
<1>4. CASE Alive(p) /\ handle[p].addr = proc[p].addr
  <2> DEFINE x == [handle[p] EXCEPT !.clock = Real]
  <2>1. x \in Handle /\ x.addr = handle[p].addr
    BY <1>1 DEF Handle
  <2>2. proc' = [proc EXCEPT ![p].clock = Real] /\ handle' = [handle EXCEPT ![p] = x]
    BY <1>4 DEF CleanReset
  <2> HIDE DEF x
  <2>3. handle' \in [Pids -> Handle] /\ handle'[p] = x /\ \A q \in Pids : q # p => handle'[q] = handle[q]
    BY <1>1, <2>1, <2>2, Typed, HandleFacts
  <2>4. /\ proc' \in [Pids -> Process] /\ Others(p) /\ proc'[p].clock = Real
        /\ proc'[p].addr = proc[p].addr /\ proc'[p].st = proc[p].st /\ proc'[p].ev = proc[p].ev
        /\ proc'[p].kid = proc[p].kid /\ proc'[p].traced = proc[p].traced
    BY <1>1, <2>2, Typed, ClockFacts
  <2> QED
    BY <1>1, <1>2, <1>3, <1>4, <2>1, <2>3, <2>4 DEF TypeOK
<1>5. CASE ~(Alive(p) /\ handle[p].addr = proc[p].addr)
  <2>1. proc' = proc /\ handle' = handle
    BY <1>5 DEF CleanReset
  <2> QED
    BY <1>1, <1>2, <1>3, <1>5, <2>1 DEF TypeOK
<1> QED
  BY <1>4, <1>5

\* PTRACE_DETACH.
LEMMA DetachedFacts ==
    ASSUME TypeOK, NEW p \in Pids, proc[p].st # "none", proc' = Detached(p)
    PROVE  /\ proc' \in [Pids -> Process] /\ Others(p) /\ Page(p)
           /\ proc'[p].ev = "none" /\ proc'[p].traced = FALSE
           /\ proc[p].st = "zombie" => proc'[p].st = "gone"
           /\ proc[p].st = "stop" => proc'[p].st \in {"run", "jobstop"}
           /\ proc[p].st \notin {"zombie", "stop"} => proc'[p].st = proc[p].st
<1> DEFINE s == CASE proc[p].st = "zombie" -> "gone"
                  [] proc[p].st = "stop"   -> IF world.seized THEN "run" ELSE "jobstop"
                  [] OTHER                 -> proc[p].st
<1>1. proc[p].st \in {"none", "run", "stop", "held", "jobstop", "zombie", "gone"} /\ proc \in [Pids -> Process]
  BY Typed DEF Process
<1>2. /\ s \in {"run", "held", "jobstop", "none", "gone"}
      /\ proc[p].st = "zombie" => s = "gone"
      /\ proc[p].st = "stop" => s \in {"run", "jobstop"}
      /\ proc[p].st \notin {"zombie", "stop"} => s = proc[p].st
  BY <1>1
<1>3. proc' = [proc EXCEPT ![p].traced = FALSE, ![p].ev = "none", ![p].st = s]
  BY <1>1 DEF Detached
<1> HIDE DEF s
<1>4. /\ proc' \in [Pids -> Process] /\ Others(p) /\ Page(p)
      /\ proc'[p].st = s /\ proc'[p].ev = "none" /\ proc'[p].traced = FALSE
  BY <1>1, <1>2, <1>3, DetachFacts
<1> QED
  BY <1>2, <1>4

LEMMA CleanDetachStep ==
    ASSUME TypeOK, NEW p \in loop.todo, proc[p].st # "none", CleanDetach(p)
    PROVE  /\ TypeOK'
           /\ loop.pc = "detach" /\ p \in Pids
           /\ Others(p) /\ Page(p) /\ proc'[p].ev = "none" /\ proc'[p].traced = FALSE
           /\ proc[p].st = "zombie" => proc'[p].st = "gone"
           /\ proc[p].st = "stop" => proc'[p].st \in {"run", "jobstop"}
           /\ proc[p].st \notin {"zombie", "stop"} => proc'[p].st = proc[p].st
           /\ loop'.pc = "detach" /\ loop'.todo = loop.todo \ {p} /\ loop'.pid = loop.pid
           /\ loop'.kid = loop.kid /\ loop'.new = loop.new
           /\ UNCHANGED <<world, handle, children, pending, gone, loopErr, done, call, mapped, used, want, slain>>
<1>1. loop.pc = "detach" /\ p \in Pids /\ loop \in Loop /\ proc' = Detached(p)
  BY Typed DEF CleanDetach
<1>2. /\ proc' \in [Pids -> Process]
      /\ Others(p) /\ Page(p) /\ proc'[p].ev = "none" /\ proc'[p].traced = FALSE
      /\ proc[p].st = "zombie" => proc'[p].st = "gone"
      /\ proc[p].st = "stop" => proc'[p].st \in {"run", "jobstop"}
      /\ proc[p].st \notin {"zombie", "stop"} => proc'[p].st = proc[p].st
  BY <1>1, DetachedFacts
<1>3. loop' \in Loop /\ loop'.pc = "detach" /\ loop'.todo = loop.todo \ {p} /\ loop'.pid = loop.pid /\ loop'.kid = loop.kid /\ loop'.new = loop.new
  BY <1>1 DEF CleanDetach, Loop
<1>4. UNCHANGED <<world, handle, children, pending, gone, loopErr, done, call, mapped, used, want, slain>>
  BY Zenon DEF CleanDetach, trkVars, history
<1> QED
  BY <1>1, <1>2, <1>3, <1>4 DEF TypeOK

LEMMA CleanReleaseStep ==
    ASSUME TypeOK, proc[Parent].st # "none", CleanRelease
    PROVE  /\ TypeOK'
           /\ loop.pc = "detach" /\ loop.todo = {}
           /\ Others(Parent) /\ Page(Parent) /\ proc'[Parent].ev = "none" /\ proc'[Parent].traced = FALSE
           /\ proc[Parent].st = "zombie" => proc'[Parent].st = "gone"
           /\ proc[Parent].st = "stop" => proc'[Parent].st \in {"run", "jobstop"}
           /\ proc[Parent].st \notin {"zombie", "stop"} => proc'[Parent].st = proc[Parent].st
           /\ loop'.pc = "ended" /\ loop'.todo = loop.todo /\ loop'.pid = loop.pid /\ loop'.kid = loop.kid
           /\ loop'.new = loop.new
           /\ UNCHANGED <<world, handle, children, pending, gone, loopErr, done, call, mapped, used, want, slain>>
<1>1. loop.pc = "detach" /\ loop.todo = {} /\ loop \in Loop /\ Parent \in Pids /\ proc' = Detached(Parent)
  BY Typed DEF CleanRelease
<1>2. /\ proc' \in [Pids -> Process]
      /\ Others(Parent) /\ Page(Parent) /\ proc'[Parent].ev = "none" /\ proc'[Parent].traced = FALSE
      /\ proc[Parent].st = "zombie" => proc'[Parent].st = "gone"
      /\ proc[Parent].st = "stop" => proc'[Parent].st \in {"run", "jobstop"}
      /\ proc[Parent].st \notin {"zombie", "stop"} => proc'[Parent].st = proc[Parent].st
  BY <1>1, DetachedFacts
<1>3. loop' \in Loop /\ loop'.pc = "ended" /\ loop'.todo = loop.todo /\ loop'.pid = loop.pid /\ loop'.kid = loop.kid /\ loop'.new = loop.new
  BY <1>1 DEF CleanRelease, Loop, Goto
<1>4. UNCHANGED <<world, handle, children, pending, gone, loopErr, done, call, mapped, used, want, slain>>
  BY Zenon DEF CleanRelease, trkVars, history
<1> QED
  BY <1>1, <1>2, <1>3, <1>4 DEF TypeOK

OtherCalls(t) == \A u \in Callers : u # t => call'[u] = call[u]

LEMMA OneCall ==
    ASSUME TypeOK, NEW t \in Callers, NEW x \in Caller, call' = [call EXCEPT ![t] = x]
    PROVE  call' \in [Callers -> Caller] /\ call'[t] = x /\ OtherCalls(t)
  BY Typed DEF OtherCalls

LEMMA ApplyFacts ==
    ASSUME TypeOK, NEW k \in Clock
    PROVE  /\ Apply(k) \in Caller /\ Apply(k).pc = "apply" /\ Apply(k).clock = k
           /\ Apply(k).todo = Tracked /\ Apply(k).half = {} /\ Apply(k).dead = {}
<1>1. Real \in Clock /\ Tracked \subseteq Pids /\ {Parent} \union children = Tracked
  BY Typed, NoneFacts DEF TypeOK, Tracked
<1>2. Idle \in Caller /\ Idle.half = {} /\ Idle.dead = {}
  BY <1>1 DEF Idle, Caller
<1>3. Apply(k) = [Idle EXCEPT !.pc = "apply", !.clock = k, !.todo = Tracked]
  BY <1>1 DEF Apply
<1> QED
  BY <1>1, <1>2, <1>3 DEF Caller

LEMMA IdleFacts ==
    Idle \in Caller /\ Idle.pc = "idle" /\ Idle.todo = {} /\ Idle.half = {} /\ Idle.dead = {}
  BY NoneFacts DEF Idle, Caller

LEMMA CallSetStep ==
    ASSUME TypeOK, NEW t \in Callers, NEW k \in world.clocks, CallSet(t, k)
    PROVE  /\ TypeOK'
           /\ call[t].pc = "idle"
           /\ world.calm => CaughtUp /\ \A u \in Callers : call[u].pc = "idle"
           /\ OtherCalls(t) /\ call'[t].pc = "apply" /\ call'[t].clock = k /\ call'[t].todo = Tracked
           /\ call'[t].half = {} /\ call'[t].dead = {}
           /\ want' = k
           /\ UNCHANGED <<world, proc, handle, children, pending, gone, loopErr, done, loop, mapped, slain>>
<1>1. /\ call[t].pc = "idle"
      /\ world.calm => CaughtUp /\ \A u \in Callers : call[u].pc = "idle"
  BY DEF CallSet, CanCall
<1>2. k \in Clock
  BY TreeAssumption DEF TypeOK, World
<1>3. call' = [call EXCEPT ![t] = Apply(k)]
  BY DEF CallSet
<1>4. call' \in [Callers -> Caller] /\ OtherCalls(t) /\ call'[t].pc = "apply" /\ call'[t].clock = k /\ call'[t].todo = Tracked /\ call'[t].half = {} /\ call'[t].dead = {}
  BY <1>2, <1>3, ApplyFacts, OneCall
<1>5. want' = k /\ UNCHANGED <<world, proc, handle, children, pending, gone, loopErr, done, loop, mapped, slain>>
  BY Zenon DEF CallSet, trkVars
<1>6. used' \in [calls : Nat, execs : Nat, signals : Nat, faults : Nat]
  BY DEF CallSet, TypeOK
<1> QED
  BY <1>1, <1>2, <1>4, <1>5, <1>6 DEF TypeOK

LEMMA CallAdvanceStep ==
    ASSUME TypeOK, NEW t \in Callers, NEW d \in Deltas, CallAdvance(t, d)
    PROVE  /\ TypeOK'
           /\ call[t].pc = "idle"
           /\ world.calm => CaughtUp /\ \A u \in Callers : call[u].pc = "idle"
           /\ OtherCalls(t) /\ call'[t].pc = "read" /\ call'[t].todo = {} /\ call'[t].half = {} /\ call'[t].dead = {}
           /\ call'[t].clock = [handle[Parent].clock EXCEPT !.at = @ + d] /\ want' = [want EXCEPT !.at = @ + d]
           /\ UNCHANGED <<world, proc, handle, children, pending, gone, loopErr, done, loop, mapped, slain>>
<1>1. /\ call[t].pc = "idle"
      /\ world.calm => CaughtUp /\ \A u \in Callers : call[u].pc = "idle"
  BY DEF CallAdvance, CanCall
<1> DEFINE k == [handle[Parent].clock EXCEPT !.at = @ + d]
           x == [Idle EXCEPT !.pc = "read", !.clock = k]
<1>2. d \in Int /\ handle[Parent].clock \in Clock /\ want \in Clock
  BY Typed, TreeAssumption DEF TypeOK, Handle
<1>3. k \in Clock /\ [want EXCEPT !.at = @ + d] \in Clock
  BY <1>2 DEF Clock
<1>4. call' = [call EXCEPT ![t] = x]
  BY DEF CallAdvance
<1> HIDE DEF k
<1>5. x \in Caller /\ x.pc = "read" /\ x.clock = k /\ x.todo = {} /\ x.half = {} /\ x.dead = {}
  BY <1>3, IdleFacts DEF Caller
<1> HIDE DEF x
<1>6. call' \in [Callers -> Caller] /\ call'[t] = x /\ OtherCalls(t)
  BY <1>4, <1>5, OneCall
<1>7. want' = [want EXCEPT !.at = @ + d] /\ UNCHANGED <<world, proc, handle, children, pending, gone, loopErr, done, loop, mapped, slain>>
  BY Zenon DEF CallAdvance, trkVars
<1>8. used' \in [calls : Nat, execs : Nat, signals : Nat, faults : Nat]
  BY DEF CallAdvance, TypeOK
<1> QED
  BY <1>1, <1>3, <1>5, <1>6, <1>7, <1>8 DEF TypeOK, k

LEMMA CallSnapshotStep ==
    ASSUME TypeOK, NEW t \in Callers, CallSnapshot(t)
    PROVE  /\ TypeOK'
           /\ call[t].pc = "read"
           /\ OtherCalls(t) /\ call'[t].pc = "apply" /\ call'[t].clock = call[t].clock
           /\ call'[t].todo = Tracked /\ call'[t].half = {} /\ call'[t].dead = {}
           /\ UNCHANGED <<world, proc, handle, children, pending, gone, loopErr, done, loop, mapped, used, want, slain>>
<1>1. call[t].pc = "read" /\ call[t] \in Caller
  BY Typed DEF CallSnapshot
<1>2. call[t].clock \in Clock
  BY <1>1 DEF Caller
<1>3. call' = [call EXCEPT ![t] = Apply(call[t].clock)]
  BY DEF CallSnapshot
<1>4. call' \in [Callers -> Caller] /\ OtherCalls(t) /\ call'[t].pc = "apply" /\ call'[t].clock = call[t].clock /\ call'[t].todo = Tracked /\ call'[t].half = {} /\ call'[t].dead = {}
  BY <1>2, <1>3, ApplyFacts, OneCall
<1>5. UNCHANGED <<world, proc, handle, children, pending, gone, loopErr, done, loop, mapped, used, want, slain>>
  BY Zenon DEF CallSnapshot, trkVars, history
<1> QED
  BY <1>1, <1>4, <1>5 DEF TypeOK

LEMMA WriteOkStep ==
    ASSUME TypeOK, NEW t \in Callers, NEW p \in call[t].todo, WriteOk(t, p)
    PROVE  /\ TypeOK'
           /\ p \in Pids /\ Alive(p) /\ handle[p].addr = proc[p].addr
           /\ OtherCalls(t) /\ call'[t].pc = call[t].pc /\ call'[t].clock = call[t].clock
           /\ call'[t].todo = call[t].todo \ {p} /\ call'[t].half = call[t].half \union {p}
           /\ call'[t].dead = call[t].dead
           /\ Others(p) /\ proc'[p].clock = call[t].clock
           /\ proc'[p].addr = proc[p].addr /\ proc'[p].st = proc[p].st /\ proc'[p].ev = proc[p].ev
           /\ proc'[p].kid = proc[p].kid /\ proc'[p].traced = proc[p].traced
           /\ UNCHANGED <<world, handle, children, pending, gone, loopErr, done, loop, mapped, used, want, slain>>
<1>1. p \in Pids /\ Alive(p) /\ handle[p].addr = proc[p].addr /\ call[t] \in Caller
  BY Typed DEF WriteOk, Caller
<1> DEFINE x == [call[t] EXCEPT !.todo = @ \ {p}, !.half = @ \union {p}]
<1>2. x \in Caller /\ x.pc = call[t].pc /\ x.clock = call[t].clock /\ x.todo = call[t].todo \ {p} /\ x.half = call[t].half \union {p} /\ x.dead = call[t].dead
  BY <1>1 DEF Caller
<1>3. call' = [call EXCEPT ![t] = x]
  BY <1>1, Typed DEF WriteOk
<1> HIDE DEF x
<1>4. call' \in [Callers -> Caller] /\ call'[t] = x /\ OtherCalls(t)
  BY <1>2, <1>3, OneCall
<1>5. /\ proc' \in [Pids -> Process]
      /\ Others(p) /\ proc'[p].clock = call[t].clock
      /\ proc'[p].addr = proc[p].addr /\ proc'[p].st = proc[p].st /\ proc'[p].ev = proc[p].ev
      /\ proc'[p].kid = proc[p].kid /\ proc'[p].traced = proc[p].traced
  <2>1. call[t].clock \in Clock /\ proc' = [proc EXCEPT ![p].clock = call[t].clock]
    BY <1>1 DEF WriteOk, Caller
  <2> QED
    BY <1>1, <2>1, Typed, ClockFacts
<1>9. UNCHANGED <<world, handle, children, pending, gone, loopErr, done, loop, mapped, used, want, slain>>
  BY Zenon DEF WriteOk, trkVars, history
<1> QED
  BY <1>1, <1>2, <1>4, <1>5, <1>9 DEF TypeOK

LEMMA WriteErrStep ==
    ASSUME TypeOK, NEW t \in Callers, NEW p \in call[t].todo, WriteErr(t, p)
    PROVE  /\ TypeOK'
           /\ p \in Pids /\ ~(Alive(p) /\ handle[p].addr = proc[p].addr)
           /\ OtherCalls(t) /\ call'[t].pc = call[t].pc /\ call'[t].clock = call[t].clock
           /\ call'[t].todo = call[t].todo \ {p} /\ call'[t].half = call[t].half
           /\ call'[t].dead = (IF Alive(p) THEN call[t].dead ELSE call[t].dead \union {p})
           /\ UNCHANGED <<world, proc, handle, children, pending, gone, loopErr, done, loop, mapped, used, want, slain>>
<1>1. p \in Pids /\ ~(Alive(p) /\ handle[p].addr = proc[p].addr) /\ call[t] \in Caller
  BY Typed DEF WriteErr, Caller
<1> DEFINE x == [call[t] EXCEPT !.todo = @ \ {p}, !.dead = IF Alive(p) THEN @ ELSE @ \union {p}]
<1>2. x \in Caller /\ x.pc = call[t].pc /\ x.clock = call[t].clock /\ x.todo = call[t].todo \ {p} /\ x.half = call[t].half /\ x.dead = (IF Alive(p) THEN call[t].dead ELSE call[t].dead \union {p})
  BY <1>1 DEF Caller
<1>3. call' = [call EXCEPT ![t] = x]
  BY <1>1, Typed DEF WriteErr
<1> HIDE DEF x
<1>4. call' \in [Callers -> Caller] /\ call'[t] = x /\ OtherCalls(t)
  BY <1>2, <1>3, OneCall
<1>9. UNCHANGED <<world, proc, handle, children, pending, gone, loopErr, done, loop, mapped, used, want, slain>>
  BY Zenon DEF WriteErr, trkVars, history
<1> QED
  BY <1>1, <1>2, <1>4, <1>9 DEF TypeOK

LEMMA WriteNoteStep ==
    ASSUME TypeOK, NEW t \in Callers, NEW p \in call[t].half, WriteNote(t, p)
    PROVE  /\ TypeOK'
           /\ p \in Pids
           /\ OtherCalls(t) /\ call'[t].pc = call[t].pc /\ call'[t].clock = call[t].clock
           /\ call'[t].todo = call[t].todo /\ call'[t].half = call[t].half \ {p} /\ call'[t].dead = call[t].dead
           /\ handle'[p].addr = handle[p].addr /\ handle'[p].clock = call[t].clock
           /\ \A q \in Pids : q # p => handle'[q] = handle[q]
           /\ UNCHANGED <<world, proc, children, pending, gone, loopErr, done, loop, mapped, used, want, slain>>
<1>1. p \in Pids /\ call[t] \in Caller
  BY Typed DEF WriteNote, Caller
<1> DEFINE x == [call[t] EXCEPT !.half = @ \ {p}]
<1>2. x \in Caller /\ x.pc = call[t].pc /\ x.clock = call[t].clock /\ x.todo = call[t].todo /\ x.half = call[t].half \ {p} /\ x.dead = call[t].dead
  BY <1>1 DEF Caller
<1>3. call' = [call EXCEPT ![t] = x]
  BY <1>1, Typed DEF WriteNote
<1> HIDE DEF x
<1>4. call' \in [Callers -> Caller] /\ call'[t] = x /\ OtherCalls(t)
  BY <1>2, <1>3, OneCall
<1>5. /\ handle' \in [Pids -> Handle] /\ handle'[p].addr = handle[p].addr /\ handle'[p].clock = call[t].clock
      /\ \A q \in Pids : q # p => handle'[q] = handle[q]
  <2> DEFINE y == [handle[p] EXCEPT !.clock = call[t].clock]
  <2>1. call[t].clock \in Clock /\ handle[p] \in Handle
    BY <1>1, Typed DEF Caller
  <2>2. y \in Handle /\ y.addr = handle[p].addr /\ y.clock = call[t].clock
    BY <2>1 DEF Handle
  <2>3. handle' = [handle EXCEPT ![p] = y]
    BY DEF WriteNote
  <2> HIDE DEF y
  <2> QED
    BY <1>1, <2>2, <2>3, Typed, HandleFacts
<1>9. UNCHANGED <<world, proc, children, pending, gone, loopErr, done, loop, mapped, used, want, slain>>
  BY Zenon DEF WriteNote, trkVars, history
<1> QED
  BY <1>1, <1>2, <1>4, <1>5, <1>9 DEF TypeOK

LEMMA CallEndStep ==
    ASSUME TypeOK, NEW t \in Callers, CallEnd(t)
    PROVE  /\ TypeOK'
           /\ call[t].pc = "apply" /\ call[t].todo = {} /\ call[t].half = {}
           /\ OtherCalls(t) /\ call'[t].pc = "idle" /\ call'[t].todo = {} /\ call'[t].half = {} /\ call'[t].dead = {}
           /\ children' = (IF world.prunes THEN children \ (call[t].dead \ {Parent}) ELSE children)
           /\ UNCHANGED <<world, proc, handle, pending, gone, loopErr, done, loop, mapped, used, want, slain>>
<1>1. call[t].pc = "apply" /\ call[t].todo = {} /\ call[t].half = {}
  BY DEF CallEnd
<1>2. call' = [call EXCEPT ![t] = Idle]
  BY DEF CallEnd
<1>3. call' \in [Callers -> Caller] /\ OtherCalls(t) /\ call'[t].pc = "idle" /\ call'[t].todo = {} /\ call'[t].half = {} /\ call'[t].dead = {}
  BY <1>2, IdleFacts, OneCall
<1>4. /\ children' = (IF world.prunes THEN children \ (call[t].dead \ {Parent}) ELSE children)
      /\ UNCHANGED <<world, proc, handle, pending, gone, loopErr, done, loop, mapped, used, want, slain>>
  BY Zenon DEF CallEnd, history
<1> QED
  BY <1>1, <1>3, <1>4 DEF TypeOK

LEMMA CloseStep ==
    ASSUME TypeOK, NEW t \in Callers, Close(t)
    PROVE  /\ TypeOK'
           /\ call[t].pc = "idle" /\ ~done /\ done' = TRUE
           /\ world.calm => CaughtUp /\ \A u \in Callers : call[u].pc = "idle"
           /\ OtherCalls(t) /\ call'[t].pc = "closing" /\ call'[t].clock = call[t].clock
           /\ call'[t].todo = call[t].todo /\ call'[t].half = call[t].half /\ call'[t].dead = call[t].dead
           /\ UNCHANGED <<world, proc, handle, children, pending, gone, loopErr, loop, mapped, used, want, slain>>
<1>1. /\ call[t].pc = "idle" /\ ~done /\ done' = TRUE /\ call[t] \in Caller
      /\ world.calm => CaughtUp /\ \A u \in Callers : call[u].pc = "idle"
  BY Typed DEF Close, CanCall
<1> DEFINE x == [call[t] EXCEPT !.pc = "closing"]
<1>2. /\ x \in Caller /\ x.pc = "closing" /\ x.clock = call[t].clock
      /\ x.todo = call[t].todo /\ x.half = call[t].half /\ x.dead = call[t].dead
  BY <1>1 DEF Caller
<1>3. call' = [call EXCEPT ![t] = x]
  BY DEF Close
<1> HIDE DEF x
<1>4. call' \in [Callers -> Caller] /\ call'[t] = x /\ OtherCalls(t)
  BY <1>2, <1>3, OneCall
<1>5. UNCHANGED <<world, proc, handle, children, pending, gone, loopErr, loop, mapped, used, want, slain>>
  BY Zenon DEF Close, history
<1> QED
  BY <1>1, <1>2, <1>4, <1>5 DEF TypeOK

LEMMA CloseEndStep ==
    ASSUME TypeOK, NEW t \in Callers, CloseEnd(t)
    PROVE  /\ TypeOK'
           /\ call[t].pc = "closing" /\ loop.pc = "ended"
           /\ OtherCalls(t) /\ call'[t].pc = "idle" /\ call'[t].todo = {} /\ call'[t].half = {} /\ call'[t].dead = {}
           /\ UNCHANGED <<world, proc, handle, children, pending, gone, loopErr, done, loop, mapped, used, want, slain>>
<1>1. call[t].pc = "closing" /\ loop.pc = "ended"
  BY DEF CloseEnd
<1>2. call' = [call EXCEPT ![t] = Idle]
  BY DEF CloseEnd
<1>3. call' \in [Callers -> Caller] /\ OtherCalls(t) /\ call'[t].pc = "idle" /\ call'[t].todo = {} /\ call'[t].half = {} /\ call'[t].dead = {}
  BY <1>2, IdleFacts, OneCall
<1>4. UNCHANGED <<world, proc, handle, children, pending, gone, loopErr, done, loop, mapped, used, want, slain>>
  BY Zenon DEF CloseEnd, trkVars, history
<1> QED
  BY <1>1, <1>3, <1>4 DEF TypeOK

(***************************************************************************)
(* Each action keeps the inductive invariants.                             *)
(***************************************************************************)
Base ==
    /\ TypeOK /\ StopInv /\ LoopInv /\ AdoptInv /\ ForkInv /\ ReachInv
    /\ CallInv /\ OrphanInv /\ CalmInv /\ SwapInv /\ CloseInv

LEMMA SameProcs ==
    ASSUME StopInv, LoopInv, AdoptInv, ForkInv, ReachInv, SwapInv,
           UNCHANGED <<world, proc, handle, children, loop>>
    PROVE  StopInv' /\ LoopInv' /\ AdoptInv' /\ ForkInv' /\ ReachInv' /\ SwapInv'
<1>1. StopInv'
  BY DEF StopInv, Alive, Tracked, Busy
<1>2. LoopInv'
  BY DEF LoopInv, Alive, Tracked, Busy, Dead
<1>3. AdoptInv'
  BY DEF AdoptInv, Alive
<1>4. ForkInv'
  BY DEF ForkInv, Alive
<1>5. ReachInv'
  BY DEF ReachInv, Alive, Tracked
<1>6. SwapInv'
  BY DEF SwapInv, Busy, Tracked
<1> QED
  BY <1>1, <1>2, <1>3, <1>4, <1>5, <1>6

LEMMA SameTree ==
    ASSUME StopInv, LoopInv, AdoptInv, ForkInv, ReachInv, SwapInv, OrphanInv,
           UNCHANGED <<world, proc, handle, children, gone, done, loop, slain>>
    PROVE  StopInv' /\ LoopInv' /\ AdoptInv' /\ ForkInv' /\ ReachInv' /\ OrphanInv' /\ SwapInv'
<1>1. OrphanInv'
  BY DEF OrphanInv
<1> QED
  BY <1>1, SameProcs

LEMMA ForkKeeps ==
    ASSUME Base, NEW p \in Pids, NEW c \in Pids, Fork(p, c)
    PROVE  Base'
<1>0. /\ TypeOK /\ StopInv /\ LoopInv /\ AdoptInv /\ ForkInv /\ ReachInv
      /\ CallInv /\ OrphanInv /\ CalmInv /\ SwapInv /\ CloseInv
  BY DEF Base
<1>1. TypeOK'
  BY <1>0, Typed, ForkStep
<1>2. SwapInv'
  BY <1>0, ForkStep DEF SwapInv, Busy, Tracked
<1>3. StopInv'
  BY <1>0, Typed, ForkStep DEF StopInv, Alive, Tracked, Busy, Page
<1>4. LoopInv'
  BY <1>0, Typed, ForkStep DEF LoopInv, Alive, Tracked, Busy, Dead, Page
<1>5. AdoptInv'
  BY <1>0, Typed, ForkStep DEF AdoptInv, LoopInv, Alive, Tracked, Busy, Dead, Page
<1>6. ForkInv'
  BY <1>0, Typed, ForkStep DEF ForkInv, StopInv, Alive, Tracked, Busy, Page
<1>7. ReachInv'
  BY <1>0, Typed, ForkStep DEF ReachInv, StopInv, LoopInv, Alive, Tracked, Busy, Dead, Page
<1>8. CallInv'
  BY <1>0, Typed, ForkStep DEF CallInv, Dead, Page
<1>9. OrphanInv'
  BY <1>0, Typed, ForkStep DEF OrphanInv, StopInv, Alive, Tracked, Busy, Page
<1>10. CalmInv'
  BY <1>0, Typed, ForkStep DEF CalmInv, Busy, Closing, Page, Undisturbed
<1>11. CloseInv'
  BY <1>0, Typed, ForkStep DEF CloseInv, Closing, Alive, Tracked, Page, Undisturbed
<1> QED
  BY <1>1, <1>2, <1>3, <1>4, <1>5, <1>6, <1>7, <1>8, <1>9, <1>10, <1>11 DEF Base

LEMMA ExecKeeps ==
    ASSUME Base, NEW p \in Pids, Exec(p)
    PROVE  Base'
<1>0. /\ TypeOK /\ StopInv /\ LoopInv /\ AdoptInv /\ ForkInv /\ ReachInv
      /\ CallInv /\ OrphanInv /\ CalmInv /\ SwapInv /\ CloseInv
  BY DEF Base
<1>1. TypeOK'
  BY <1>0, Typed, ExecStep
<1>2. SwapInv'
  BY <1>0, ExecStep DEF SwapInv, Busy, Tracked
<1>3. StopInv'
  BY <1>0, Typed, ExecStep DEF StopInv, Alive, Tracked, Busy, Others
<1>4. LoopInv'
  BY <1>0, Typed, ExecStep DEF LoopInv, Alive, Tracked, Busy, Dead, Others
<1>5. AdoptInv'
  BY <1>0, Typed, ExecStep DEF AdoptInv, Alive, Others
<1>6. ForkInv'
  BY <1>0, Typed, ExecStep DEF ForkInv, Alive, Others
<1>7. ReachInv'
  BY <1>0, Typed, ExecStep DEF ReachInv, LoopInv, Alive, Tracked, Busy, Dead, Others
<1>8. CallInv'
  BY <1>0, Typed, ExecStep DEF CallInv, Dead, Others
<1>9. OrphanInv'
  BY <1>0, Typed, ExecStep DEF OrphanInv, StopInv, Alive, Tracked, Busy, Others
<1>10. CalmInv'
  BY <1>0, Typed, ExecStep DEF CalmInv, Busy, Closing, Others, Undisturbed
<1>11. CloseInv'
  BY <1>0, Typed, ExecStep DEF CloseInv, Closing, Alive, Tracked, Others, Undisturbed
<1> QED
  BY <1>1, <1>2, <1>3, <1>4, <1>5, <1>6, <1>7, <1>8, <1>9, <1>10, <1>11 DEF Base

LEMMA SignalKeeps ==
    ASSUME Base, NEW p \in Pids, Signal(p)
    PROVE  Base'
<1>0. /\ TypeOK /\ StopInv /\ LoopInv /\ AdoptInv /\ ForkInv /\ ReachInv
      /\ CallInv /\ OrphanInv /\ CalmInv /\ SwapInv /\ CloseInv
  BY DEF Base
<1>1. TypeOK'
  BY <1>0, Typed, SignalStep
<1>2. SwapInv'
  BY <1>0, SignalStep DEF SwapInv, Busy, Tracked
<1>3. StopInv'
  BY <1>0, Typed, SignalStep DEF StopInv, Alive, Tracked, Busy, Becomes, Others, Page
<1>4. LoopInv'
  BY <1>0, Typed, SignalStep DEF LoopInv, Alive, Tracked, Busy, Dead, Becomes, Others, Page
<1>5. AdoptInv'
  BY <1>0, Typed, SignalStep DEF AdoptInv, Alive, Becomes, Others, Page
<1>6. ForkInv'
  BY <1>0, Typed, SignalStep DEF ForkInv, Alive, Becomes, Others, Page
<1>7. ReachInv'
  BY <1>0, Typed, SignalStep DEF ReachInv, Alive, Tracked, Becomes, Others, Page
<1>8. CallInv'
  BY <1>0, Typed, SignalStep DEF CallInv, Dead, Becomes, Others, Page
<1>9. OrphanInv'
  BY <1>0, Typed, SignalStep DEF OrphanInv, StopInv, Alive, Tracked, Busy, Becomes, Others, Page
<1>10. CalmInv'
  BY <1>0, Typed, SignalStep DEF CalmInv, Busy, Closing, Becomes, Others, Page, Undisturbed
<1>11. CloseInv'
  BY <1>0, Typed, SignalStep DEF CloseInv, Closing, Alive, Tracked, Becomes, Others, Page, Undisturbed
<1> QED
  BY <1>1, <1>2, <1>3, <1>4, <1>5, <1>6, <1>7, <1>8, <1>9, <1>10, <1>11 DEF Base

LEMMA ExitKeeps ==
    ASSUME Base, NEW p \in Pids, Exit(p)
    PROVE  Base'
<1>0. /\ TypeOK /\ StopInv /\ LoopInv /\ AdoptInv /\ ForkInv /\ ReachInv
      /\ CallInv /\ OrphanInv /\ CalmInv /\ SwapInv /\ CloseInv
  BY DEF Base
<1>1. /\ TypeOK'
      /\ Alive(p) /\ \E s \in {"gone", "zombie"} : Becomes(p, s, "none")
      /\ Busy /\ proc[p].st = "held" => proc'[p].st = "zombie"
      /\ slain \subseteq slain'
      /\ proc[p].ev = "fork" => proc[p].kid \in slain'
      /\ UNCHANGED <<world, handle, children, pending, gone, loopErr, done, loop, call, mapped, used, want>>
  BY <1>0, Typed, ExitStep
<1>2. SwapInv'
  BY <1>0, <1>1 DEF SwapInv, Busy, Tracked
<1>3. StopInv'
  BY <1>0, <1>1, Typed DEF StopInv, Alive, Tracked, Busy, Becomes, Others, Page
<1>4. LoopInv'
  BY <1>0, <1>1, Typed DEF LoopInv, Alive, Tracked, Busy, Dead, Becomes, Others, Page
<1>5. AdoptInv'
  BY <1>0, <1>1, Typed DEF AdoptInv, Alive, Becomes, Others, Page
<1>6. ForkInv'
  BY <1>0, <1>1, Typed DEF ForkInv, Alive, Becomes, Others, Page
<1>7. ReachInv'
  BY <1>0, <1>1, Typed DEF ReachInv, Alive, Tracked, Becomes, Others, Page
<1>8. CallInv'
  BY <1>0, <1>1, Typed DEF CallInv, Dead, Becomes, Others, Page, Alive
<1>9. OrphanInv'
  BY <1>0, <1>1, Typed DEF OrphanInv, Becomes, Others, Page, Alive
<1>10. CalmInv'
  BY <1>0, <1>1, Typed DEF CalmInv, Busy, Closing, Becomes, Others, Page, Alive
<1>11. CloseInv'
  BY <1>0, <1>1, Typed DEF CloseInv, Closing, Alive, Tracked, Becomes, Others, Page
<1> QED
  BY <1>1, <1>2, <1>3, <1>4, <1>5, <1>6, <1>7, <1>8, <1>9, <1>10, <1>11 DEF Base

LEMMA LoopTopKeeps ==
    ASSUME Base, LoopTop
    PROVE  Base'
<1>0. /\ TypeOK /\ StopInv /\ LoopInv /\ AdoptInv /\ ForkInv /\ ReachInv
      /\ CallInv /\ OrphanInv /\ CalmInv /\ SwapInv /\ CloseInv
  BY DEF Base
<1>1. TypeOK'
  BY <1>0, Typed, LoopTopStep
<1>2. ForkInv' /\ CallInv'
  BY <1>0, LoopTopStep DEF ForkInv, CallInv, Alive, Dead
<1>3. StopInv'
  BY <1>0, Typed, LoopTopStep DEF StopInv, Alive, Tracked, Busy
<1>4. LoopInv'
  BY <1>0, Typed, LoopTopStep DEF LoopInv, Alive, Tracked, Busy, Dead, TrackedPIDs
<1>5. AdoptInv'
  BY <1>0, Typed, LoopTopStep DEF AdoptInv, Alive, Tracked
<1>6. ReachInv'
  BY <1>0, Typed, LoopTopStep DEF ReachInv, Alive, Tracked
<1>7. OrphanInv'
  BY <1>0, Typed, LoopTopStep DEF OrphanInv, Tracked
<1>8. CalmInv'
  BY <1>0, Typed, LoopTopStep DEF CalmInv, Busy, Closing, Tracked
<1>9. SwapInv'
  BY <1>0, Typed, LoopTopStep DEF SwapInv, Busy, Tracked
<1>10. CloseInv'
  BY <1>0, Typed, LoopTopStep DEF CloseInv, Closing, Alive, Tracked
<1> QED
  BY <1>1, <1>2, <1>3, <1>4, <1>5, <1>6, <1>7, <1>8, <1>9, <1>10 DEF Base

LEMMA LoopNextKeeps ==
    ASSUME Base, LoopNext
    PROVE  Base'
<1>0. /\ TypeOK /\ StopInv /\ LoopInv /\ AdoptInv /\ ForkInv /\ ReachInv
      /\ CallInv /\ OrphanInv /\ CalmInv /\ SwapInv /\ CloseInv
  BY DEF Base
<1>1. TypeOK'
  BY <1>0, Typed, LoopNextStep
<1>2. ForkInv' /\ CallInv'
  BY <1>0, LoopNextStep DEF ForkInv, CallInv, Alive, Dead
<1>3. StopInv'
  BY <1>0, Typed, LoopNextStep DEF StopInv, Alive, Tracked, Busy
<1>4. LoopInv'
  BY <1>0, Typed, LoopNextStep DEF LoopInv, Alive, Tracked, Busy, Dead
<1>5. AdoptInv'
  BY <1>0, Typed, LoopNextStep DEF AdoptInv, Alive
<1>6. ReachInv'
  BY <1>0, Typed, LoopNextStep DEF ReachInv, Alive, Tracked
<1>7. OrphanInv'
  BY <1>0, Typed, LoopNextStep DEF OrphanInv
<1>8. CalmInv'
  BY <1>0, Typed, LoopNextStep DEF CalmInv, Busy, Closing
<1>9. SwapInv'
  BY <1>0, Typed, LoopNextStep DEF SwapInv, Busy, Tracked
<1>10. CloseInv'
  BY <1>0, Typed, LoopNextStep DEF CloseInv, Closing, Alive, Tracked
<1> QED
  BY <1>1, <1>2, <1>3, <1>4, <1>5, <1>6, <1>7, <1>8, <1>9, <1>10 DEF Base

LEMMA PollNoneKeeps ==
    ASSUME Base, NEW p \in loop.todo, PollNone(p)
    PROVE  Base'
<1>0. /\ TypeOK /\ StopInv /\ LoopInv /\ AdoptInv /\ ForkInv /\ ReachInv
      /\ CallInv /\ OrphanInv /\ CalmInv /\ SwapInv /\ CloseInv
  BY DEF Base
<1>1. TypeOK'
  BY <1>0, Typed, PollNoneStep
<1>2. ForkInv' /\ CallInv'
  BY <1>0, PollNoneStep DEF ForkInv, CallInv, Alive, Dead
<1>3. StopInv'
  BY <1>0, Typed, PollNoneStep DEF StopInv, Alive, Tracked, Busy
<1>4. LoopInv'
  BY <1>0, Typed, PollNoneStep DEF LoopInv, Alive, Tracked, Busy, Dead
<1>5. AdoptInv'
  BY <1>0, Typed, PollNoneStep DEF AdoptInv, Alive
<1>6. ReachInv'
  BY <1>0, Typed, PollNoneStep DEF ReachInv, Alive, Tracked
<1>7. OrphanInv'
  BY <1>0, Typed, PollNoneStep DEF OrphanInv
<1>8. CalmInv'
  BY <1>0, Typed, PollNoneStep DEF CalmInv, Busy, Closing
<1>9. SwapInv'
  BY <1>0, Typed, PollNoneStep DEF SwapInv, Busy, Tracked
<1>10. CloseInv'
  BY <1>0, Typed, PollNoneStep DEF CloseInv, Closing, Alive, Tracked
<1> QED
  BY <1>1, <1>2, <1>3, <1>4, <1>5, <1>6, <1>7, <1>8, <1>9, <1>10 DEF Base

LEMMA PollExitKeeps ==
    ASSUME Base, NEW p \in loop.todo, PollExit(p)
    PROVE  Base'
<1>0. /\ TypeOK /\ StopInv /\ LoopInv /\ AdoptInv /\ ForkInv /\ ReachInv
      /\ CallInv /\ OrphanInv /\ CalmInv /\ SwapInv /\ CloseInv
  BY DEF Base
<1>1. /\ TypeOK'
      /\ loop.pc = "poll" /\ p \in Pids /\ proc[p].st = "zombie"
      /\ Others(p)
      /\ proc'[p].st = "gone" /\ proc'[p].ev = "none" /\ proc'[p].addr = 0 /\ proc'[p].clock = Real
      /\ children' = children \ {p}
      /\ gone' = (gone \/ p = Parent)
      /\ loop'.pc = "poll" /\ loop'.todo = loop.todo \ {p} /\ loop'.pid = loop.pid /\ loop'.kid = loop.kid
      /\ loop'.new = loop.new
      /\ UNCHANGED <<world, handle, done, call, mapped, used, want, slain>>
  BY <1>0, Typed, PollExitStep
<1>2. StopInv'
  BY <1>0, <1>1, Typed DEF StopInv, Alive, Tracked, Busy, Others
<1>3. LoopInv'
  BY <1>0, <1>1, Typed DEF LoopInv, Alive, Tracked, Busy, Dead, Others
<1>4. AdoptInv'
  BY <1>0, <1>1, Typed DEF AdoptInv, Alive, Others
<1>5. ForkInv'
  BY <1>0, <1>1, Typed DEF ForkInv, Alive, Others
<1>6. ReachInv'
  BY <1>0, <1>1, Typed DEF ReachInv, Alive, Tracked, Others
<1>7. CallInv'
  BY <1>0, <1>1, Typed DEF CallInv, Dead, Others
<1>8. OrphanInv'
  <2>1. p \in Pids /\ proc[p].ev = "none"
    BY <1>0, <1>1, Typed DEF StopInv
  <2>2. \A q \in Pids : q # Parent /\ proc'[q].st # "none" /\ handle'[q].addr = 0 /\ ~done =>
           \/ q \in slain
           \/ \E r \in Pids : proc[r].ev = "fork" /\ proc[r].kid = q
    BY <1>0, <1>1, Typed DEF OrphanInv, Others
  <2>3. \A r \in Pids : proc[r].ev = "fork" => proc'[r].ev = "fork" /\ proc'[r].kid = proc[r].kid
    BY <1>0, <1>1, Typed, <2>1 DEF Others
  <2>4. gone' => proc'[Parent].st = "gone"
    BY <1>0, <1>1, Typed DEF OrphanInv, Others
  <2> QED
    BY <1>0, <1>1, Typed, <2>2, <2>3, <2>4 DEF OrphanInv
<1>9. CalmInv'
  BY <1>0, <1>1, Typed DEF CalmInv, Busy, Closing, Others
<1>10. SwapInv'
  BY <1>0, <1>1, Typed DEF SwapInv, Busy, Tracked, Others
<1>11. CloseInv'
  BY <1>0, <1>1, Typed DEF CloseInv, Closing, Alive, Tracked, Others
<1> QED
  BY <1>1, <1>2, <1>3, <1>4, <1>5, <1>6, <1>7, <1>8, <1>9, <1>10, <1>11 DEF Base

LEMMA PollStopKeeps ==
    ASSUME Base, NEW p \in loop.todo, PollStop(p)
    PROVE  Base'
<1>0. /\ TypeOK /\ StopInv /\ LoopInv /\ AdoptInv /\ ForkInv /\ ReachInv
      /\ CallInv /\ OrphanInv /\ CalmInv /\ SwapInv /\ CloseInv
  BY DEF Base
<1>1. /\ TypeOK'
      /\ loop.pc = "poll" /\ p \in Pids /\ proc[p].st = "stop"
      /\ Becomes(p, "held", proc[p].ev)
      /\ loop'.pc = (IF proc[p].ev \in {"fork", "exec"} THEN proc[p].ev ELSE "other")
      /\ loop'.todo = loop.todo \ {p} /\ loop'.pid = p /\ loop'.kid = loop.kid /\ loop'.new = loop.new
      /\ UNCHANGED <<world, handle, children, pending, gone, loopErr, done, call, mapped, used, want, slain>>
  BY <1>0, Typed, PollStopStep
<1>2. StopInv'
  BY <1>0, <1>1, Typed DEF StopInv, LoopInv, Alive, Tracked, Busy, Dead, Becomes, Others, Page
<1>3. LoopInv'
  BY <1>0, <1>1, Typed DEF LoopInv, StopInv, Alive, Tracked, Busy, Dead, Becomes, Others, Page, Process
<1>4. AdoptInv'
  BY <1>0, <1>1, Typed DEF AdoptInv, Alive, Becomes, Others, Page
<1>5. ForkInv'
  BY <1>0, <1>1, Typed DEF ForkInv, LoopInv, Alive, Tracked, Busy, Dead, Becomes, Others, Page
<1>6. ReachInv'
  BY <1>0, <1>1, Typed DEF ReachInv, Alive, Tracked, Becomes, Others, Page
<1>7. CallInv'
  BY <1>0, <1>1, Typed DEF CallInv, Dead, Becomes, Others, Page
<1>8. OrphanInv'
  BY <1>0, <1>1, Typed DEF OrphanInv, Becomes, Others, Page
<1>9. CalmInv'
  BY <1>0, <1>1, Typed DEF CalmInv, Busy, Closing, Becomes, Others, Page
<1>10. SwapInv'
  BY <1>0, <1>1, Typed DEF SwapInv, LoopInv, Busy, Tracked, Alive, Dead, Becomes, Others, Page
<1>11. CloseInv'
  BY <1>0, <1>1, Typed DEF CloseInv, Closing, Alive, Tracked, Becomes, Others, Page
<1> QED
  BY <1>1, <1>2, <1>3, <1>4, <1>5, <1>6, <1>7, <1>8, <1>9, <1>10, <1>11 DEF Base

LEMMA LoopForkKeeps ==
    ASSUME Base, LoopFork
    PROVE  Base'
<1>0. /\ TypeOK /\ StopInv /\ LoopInv /\ AdoptInv /\ ForkInv /\ ReachInv
      /\ CallInv /\ OrphanInv /\ CalmInv /\ SwapInv /\ CloseInv
  BY DEF Base
<1>1. /\ TypeOK'
      /\ loop.pc = "fork"
      /\ \/ /\ Alive(loop.pid) /\ loop'.pc = "adopt" /\ loop'.todo = loop.todo /\ loop'.pid = loop.pid
            /\ loop'.kid = proc[loop.pid].kid /\ loop'.new = ParentHandle(loop.pid)
         \/ ~Alive(loop.pid) /\ loop'.pc = "poll" /\ loop'.todo = loop.todo /\ loop'.pid = Parent /\ loop'.kid = 0 /\ loop'.new = NoHandle
      /\ UNCHANGED <<world, proc, handle, children, pending, gone, loopErr, done, call, mapped, used, want, slain>>
  BY <1>0, Typed, LoopForkStep
<1>2. ForkInv' /\ CallInv'
  BY <1>0, <1>1 DEF ForkInv, CallInv, Alive, Dead
<1>3. StopInv'
  BY <1>0, <1>1, Typed DEF StopInv, Alive, Tracked, Busy
<1>4. LoopInv'
  BY <1>0, <1>1, Typed DEF LoopInv, Alive, Tracked, Busy, Dead
<1>5. AdoptInv'
  BY <1>0, <1>1, Typed DEF AdoptInv, LoopInv, ForkInv, ReachInv, Alive, Tracked, Busy, Dead, ParentHandle
<1>6. ReachInv'
  BY <1>0, <1>1, Typed DEF ReachInv, Alive, Tracked
<1>7. OrphanInv'
  BY <1>0, <1>1, Typed DEF OrphanInv, Alive
<1>8. CalmInv'
  BY <1>0, <1>1, Typed DEF CalmInv, Busy, Closing, Alive
<1>9. SwapInv'
  BY <1>0, <1>1, Typed DEF SwapInv, Busy, Tracked, Alive
<1>10. CloseInv'
  BY <1>0, <1>1, Typed DEF CloseInv, Closing, Alive, Tracked
<1> QED
  BY <1>1, <1>2, <1>3, <1>4, <1>5, <1>6, <1>7, <1>8, <1>9, <1>10 DEF Base

LEMMA LoopAdoptKeeps ==
    ASSUME Base, LoopAdopt
    PROVE  Base'
<1>0. /\ TypeOK /\ StopInv /\ LoopInv /\ AdoptInv /\ ForkInv /\ ReachInv
      /\ CallInv /\ OrphanInv /\ CalmInv /\ SwapInv /\ CloseInv
  BY DEF Base
<1>1. TypeOK'
  BY <1>0, Typed, LoopAdoptStep
<1>2. StopInv'
  BY <1>0, Typed, LoopAdoptStep DEF StopInv, AdoptInv, Alive, Tracked, Busy, Becomes, Others, Page
<1>3. LoopInv'
  BY <1>0, Typed, LoopAdoptStep DEF LoopInv, Alive, Tracked, Busy, Dead, Becomes, Others, Page
<1>4. AdoptInv'
  BY <1>0, Typed, LoopAdoptStep DEF AdoptInv, Alive, Becomes, Others, Page
<1>5. ForkInv'
  BY <1>0, Typed, LoopAdoptStep DEF ForkInv, StopInv, LoopInv, AdoptInv, Alive, Tracked, Busy, Dead, Becomes,
     Others, Page
<1>6. ReachInv'
  BY <1>0, Typed, LoopAdoptStep DEF ReachInv, AdoptInv, Alive, Tracked, Becomes, Others, Page
<1>7. CallInv'
  BY <1>0, Typed, LoopAdoptStep DEF CallInv, AdoptInv, Dead, Alive, Becomes, Others, Page
<1>8. OrphanInv'
  BY <1>0, Typed, LoopAdoptStep DEF OrphanInv, AdoptInv, Alive, Becomes, Others, Page
<1>9. CalmInv'
  BY <1>0, Typed, LoopAdoptStep DEF CalmInv, Busy, Closing, Becomes, Others, Page
<1>10. SwapInv'
  BY <1>0, Typed, LoopAdoptStep DEF SwapInv, Busy, Tracked, Becomes, Others, Page
<1>11. CloseInv'
  BY <1>0, Typed, LoopAdoptStep DEF CloseInv, Closing, Alive, Tracked, Becomes, Others, Page
<1> QED
  BY <1>1, <1>2, <1>3, <1>4, <1>5, <1>6, <1>7, <1>8, <1>9, <1>10, <1>11 DEF Base

LEMMA LoopOtherKeeps ==
    ASSUME Base, LoopOther
    PROVE  Base'
<1>0. /\ TypeOK /\ StopInv /\ LoopInv /\ AdoptInv /\ ForkInv /\ ReachInv
      /\ CallInv /\ OrphanInv /\ CalmInv /\ SwapInv /\ CloseInv
  BY DEF Base
<1>1. TypeOK'
  BY <1>0, Typed, LoopOtherStep
<1>2. StopInv'
  BY <1>0, Typed, LoopOtherStep DEF StopInv, Alive, Tracked, Busy, Becomes, Others, Page
<1>3. LoopInv'
  BY <1>0, Typed, LoopOtherStep DEF LoopInv, Alive, Tracked, Busy, Dead, Becomes, Others, Page
<1>4. AdoptInv'
  BY <1>0, Typed, LoopOtherStep DEF AdoptInv, Alive, Becomes, Others, Page
<1>5. ForkInv'
  BY <1>0, Typed, LoopOtherStep DEF ForkInv, Alive, Becomes, Others, Page
<1>6. ReachInv'
  BY <1>0, Typed, LoopOtherStep DEF ReachInv, Alive, Tracked, Becomes, Others, Page
<1>7. CallInv'
  BY <1>0, Typed, LoopOtherStep DEF CallInv, Dead, Becomes, Others, Page
<1>8. OrphanInv'
  BY <1>0, Typed, LoopOtherStep DEF OrphanInv, LoopInv, Alive, Tracked, Busy, Dead, Becomes, Others, Page
<1>9. CalmInv'
  BY <1>0, Typed, LoopOtherStep DEF CalmInv, Busy, Closing, Becomes, Others, Page
<1>10. SwapInv'
  BY <1>0, Typed, LoopOtherStep DEF SwapInv, Busy, Tracked, Becomes, Others, Page
<1>11. CloseInv'
  BY <1>0, Typed, LoopOtherStep DEF CloseInv, Closing, Alive, Tracked, Becomes, Others, Page
<1> QED
  BY <1>1, <1>2, <1>3, <1>4, <1>5, <1>6, <1>7, <1>8, <1>9, <1>10, <1>11 DEF Base

LEMMA LoopExecKeeps ==
    ASSUME Base, LoopExec
    PROVE  Base'
<1>0. /\ TypeOK /\ StopInv /\ LoopInv /\ AdoptInv /\ ForkInv /\ ReachInv
      /\ CallInv /\ OrphanInv /\ CalmInv /\ SwapInv /\ CloseInv
  BY DEF Base
<1>1. TypeOK'
  BY <1>0, Typed, LoopExecStep
<1>2. StopInv'
  BY <1>0, Typed, LoopExecStep DEF StopInv, Alive, Tracked, Busy, Becomes, Others, Page
<1>3. LoopInv'
  BY <1>0, Typed, LoopExecStep DEF LoopInv, Alive, Tracked, Busy, Dead, Becomes, Others, Page
<1>4. AdoptInv'
  BY <1>0, Typed, LoopExecStep DEF AdoptInv, Alive, Becomes, Others, Page, Tracked
<1>5. ForkInv'
  BY <1>0, Typed, LoopExecStep DEF ForkInv, Alive, Becomes, Others, Page, Tracked
<1>6. ReachInv'
  BY <1>0, Typed, LoopExecStep DEF ReachInv, Alive, Tracked, Becomes, Others, Page
<1>7. CallInv'
  BY <1>0, Typed, LoopExecStep DEF CallInv, Dead, Becomes, Others, Page, Tracked
<1>8. OrphanInv'
  BY <1>0, Typed, LoopExecStep DEF OrphanInv, LoopInv, Alive, Tracked, Busy, Dead, Becomes, Others, Page
<1>9. CalmInv'
  BY <1>0, Typed, LoopExecStep DEF CalmInv, Busy, Closing, Becomes, Others, Page, Tracked
<1>10. SwapInv'
  BY <1>0, Typed, LoopExecStep DEF SwapInv, Busy, Tracked, Becomes, Others, Page
<1>11. CloseInv'
  BY <1>0, Typed, LoopExecStep DEF CloseInv, Closing, Alive, Tracked, Becomes, Others, Page
<1> QED
  BY <1>1, <1>2, <1>3, <1>4, <1>5, <1>6, <1>7, <1>8, <1>9, <1>10, <1>11 DEF Base

LEMMA ReinjectOkKeeps ==
    ASSUME Base, ReinjectOk
    PROVE  Base'
<1>0. /\ TypeOK /\ StopInv /\ LoopInv /\ AdoptInv /\ ForkInv /\ ReachInv
      /\ CallInv /\ OrphanInv /\ CalmInv /\ SwapInv /\ CloseInv
  BY DEF Base
<1>1. TypeOK'
  BY <1>0, Typed, ReinjectOkStep
<1>2. StopInv'
  BY <1>0, Typed, ReinjectOkStep DEF StopInv, Alive, Tracked, Busy, Others
<1>3. LoopInv'
  BY <1>0, Typed, ReinjectOkStep DEF LoopInv, Alive, Tracked, Busy, Dead, Others
<1>4. AdoptInv'
  BY <1>0, Typed, ReinjectOkStep DEF AdoptInv, Alive, Others
<1>5. ForkInv'
  BY <1>0, Typed, ReinjectOkStep DEF ForkInv, LoopInv, Alive, Tracked, Busy, Dead, Others
<1>6. ReachInv'
  BY <1>0, Typed, ReinjectOkStep DEF ReachInv, Alive, Tracked, Others
<1>7. CallInv'
  BY <1>0, Typed, ReinjectOkStep DEF CallInv, Dead, Others, Alive
<1>8. OrphanInv'
  BY <1>0, Typed, ReinjectOkStep DEF OrphanInv, Others, Alive
<1>9. CalmInv'
  BY <1>0, Typed, ReinjectOkStep DEF CalmInv, Busy, Closing, Others, Alive
<1>10. SwapInv'
  BY <1>0, Typed, ReinjectOkStep DEF SwapInv, Busy, Tracked, Others, Alive
<1>11. CloseInv'
  BY <1>0, Typed, ReinjectOkStep DEF CloseInv, Closing, Alive, Tracked, Others
<1> QED
  BY <1>1, <1>2, <1>3, <1>4, <1>5, <1>6, <1>7, <1>8, <1>9, <1>10, <1>11 DEF Base

LEMMA ReinjectErrKeeps ==
    ASSUME Base, ReinjectErr
    PROVE  Base'
<1>0. /\ TypeOK /\ StopInv /\ LoopInv /\ AdoptInv /\ ForkInv /\ ReachInv
      /\ CallInv /\ OrphanInv /\ CalmInv /\ SwapInv /\ CloseInv
  BY DEF Base
<1>1. TypeOK'
  BY <1>0, Typed, ReinjectErrStep
<1>2. StopInv'
  BY <1>0, Typed, ReinjectErrStep DEF StopInv, Alive, Tracked, Busy, Becomes, Others, Page
<1>3. LoopInv'
  BY <1>0, Typed, ReinjectErrStep DEF LoopInv, Alive, Tracked, Busy, Dead, Becomes, Others, Page
<1>4. AdoptInv'
  BY <1>0, Typed, ReinjectErrStep DEF AdoptInv, Alive, Becomes, Others, Page
<1>5. ForkInv'
  BY <1>0, Typed, ReinjectErrStep DEF ForkInv, Alive, Becomes, Others, Page
<1>6. ReachInv'
  BY <1>0, Typed, ReinjectErrStep DEF ReachInv, Alive, Tracked, Becomes, Others, Page
<1>7. CallInv'
  BY <1>0, Typed, ReinjectErrStep DEF CallInv, Dead, Becomes, Others, Page, Alive
<1>8. OrphanInv'
  BY <1>0, Typed, ReinjectErrStep DEF OrphanInv, LoopInv, Alive, Tracked, Busy, Dead, Becomes, Others, Page
<1>9. CalmInv'
  BY <1>0, Typed, ReinjectErrStep DEF CalmInv, Busy, Closing, Becomes, Others, Page, Alive
<1>10. SwapInv'
  BY <1>0, Typed, ReinjectErrStep DEF SwapInv, Busy, Tracked, Becomes, Others, Page, Alive
<1>11. CloseInv'
  BY <1>0, Typed, ReinjectErrStep DEF CloseInv, Closing, Alive, Tracked, Becomes, Others, Page
<1> QED
  BY <1>1, <1>2, <1>3, <1>4, <1>5, <1>6, <1>7, <1>8, <1>9, <1>10, <1>11 DEF Base

LEMMA LoopSwapKeeps ==
    ASSUME Base, LoopSwap
    PROVE  Base'
<1>0. /\ TypeOK /\ StopInv /\ LoopInv /\ AdoptInv /\ ForkInv /\ ReachInv
      /\ CallInv /\ OrphanInv /\ CalmInv /\ SwapInv /\ CloseInv
  BY DEF Base
<1>1. TypeOK'
  BY <1>0, Typed, LoopSwapStep
<1>2. StopInv'
  BY <1>0, Typed, LoopSwapStep DEF StopInv, Alive, Tracked, Busy, Becomes, Others, Page
<1>3. LoopInv'
  BY <1>0, Typed, LoopSwapStep DEF LoopInv, Alive, Tracked, Busy, Dead, Becomes, Others, Page
<1>4. AdoptInv'
  BY <1>0, Typed, LoopSwapStep DEF AdoptInv, Alive, Becomes, Others, Page, Tracked
<1>5. ForkInv'
  BY <1>0, Typed, LoopSwapStep DEF ForkInv, Alive, Becomes, Others, Page, Tracked
<1>6. ReachInv'
  BY <1>0, Typed, LoopSwapStep DEF ReachInv, Alive, Tracked, Becomes, Others, Page
<1>7. CallInv'
  BY <1>0, Typed, LoopSwapStep DEF CallInv, ReachInv, Dead, Alive, Tracked, Becomes, Others, Page
<1>8. OrphanInv'
  BY <1>0, Typed, LoopSwapStep DEF OrphanInv, LoopInv, ReachInv, Alive, Tracked, Busy, Dead, Becomes, Others,
     Page
<1>9. CalmInv'
  BY <1>0, Typed, LoopSwapStep DEF CalmInv, Busy, Closing, Becomes, Others, Page, Tracked
<1>10. SwapInv'
  BY <1>0, Typed, LoopSwapStep DEF SwapInv, Busy, Tracked, Becomes, Others, Page
<1>11. CloseInv'
  BY <1>0, Typed, LoopSwapStep DEF CloseInv, Closing, Alive, Tracked, Becomes, Others, Page
<1> QED
  BY <1>1, <1>2, <1>3, <1>4, <1>5, <1>6, <1>7, <1>8, <1>9, <1>10, <1>11 DEF Base

LEMMA CleanResetKeeps ==
    ASSUME Base, NEW p \in loop.todo, CleanReset(p)
    PROVE  Base'
<1>0. /\ TypeOK /\ StopInv /\ LoopInv /\ AdoptInv /\ ForkInv /\ ReachInv
      /\ CallInv /\ OrphanInv /\ CalmInv /\ SwapInv /\ CloseInv
  BY DEF Base
<1>1. /\ TypeOK'
      /\ loop.pc = "reset" /\ p \in Pids
      /\ loop'.pc = "reset" /\ loop'.todo = loop.todo \ {p} /\ loop'.pid = loop.pid /\ loop'.kid = loop.kid
      /\ loop'.new = loop.new
      /\ \/ /\ Alive(p) /\ handle[p].addr = proc[p].addr
            /\ Others(p) /\ proc'[p].clock = Real
            /\ proc'[p].addr = proc[p].addr /\ proc'[p].st = proc[p].st /\ proc'[p].ev = proc[p].ev
            /\ proc'[p].kid = proc[p].kid /\ proc'[p].traced = proc[p].traced
            /\ handle'[p].addr = handle[p].addr /\ \A q \in Pids : q # p => handle'[q] = handle[q]
         \/ ~(Alive(p) /\ handle[p].addr = proc[p].addr) /\ proc' = proc /\ handle' = handle
      /\ UNCHANGED <<world, children, pending, gone, loopErr, done, call, mapped, used, want, slain>>
  BY <1>0, Typed, CleanResetStep
<1>2. StopInv'
  BY <1>0, <1>1, Typed DEF StopInv, Alive, Tracked, Busy, Others
<1>3. LoopInv'
  BY <1>0, <1>1, Typed DEF LoopInv, Alive, Tracked, Busy, Dead, Others
<1>4. AdoptInv'
  BY <1>0, <1>1, Typed DEF AdoptInv, Alive, Others
<1>5. ForkInv'
  BY <1>0, <1>1, Typed DEF ForkInv, Alive, Others
<1>6. ReachInv'
  BY <1>0, <1>1, Typed DEF ReachInv, Alive, Tracked, Others
<1>7. CallInv'
  BY <1>0, <1>1, Typed DEF CallInv, Dead, Others, Alive
<1>8. OrphanInv'
  BY <1>0, <1>1, Typed DEF OrphanInv, Others, Alive
<1>9. CalmInv'
  BY <1>0, <1>1, Typed DEF CalmInv, Busy, Closing, Others, Alive
<1>10. SwapInv'
  BY <1>0, <1>1, Typed DEF SwapInv, Busy, Tracked, Others, Alive
<1>11. CloseInv'
  BY <1>0, <1>1, Typed DEF CloseInv, StopInv, ReachInv, Closing, Alive, Tracked, Busy, Others
<1> QED
  BY <1>1, <1>2, <1>3, <1>4, <1>5, <1>6, <1>7, <1>8, <1>9, <1>10, <1>11 DEF Base

LEMMA CleanListKeeps ==
    ASSUME Base, CleanList
    PROVE  Base'
<1>0. /\ TypeOK /\ StopInv /\ LoopInv /\ AdoptInv /\ ForkInv /\ ReachInv
      /\ CallInv /\ OrphanInv /\ CalmInv /\ SwapInv /\ CloseInv
  BY DEF Base
<1>1. TypeOK'
  BY <1>0, Typed, CleanListStep
<1>2. ForkInv' /\ CallInv'
  BY <1>0, CleanListStep DEF ForkInv, CallInv, Alive, Dead
<1>3. StopInv'
  BY <1>0, Typed, CleanListStep DEF StopInv, Alive, Tracked, Busy
<1>4. LoopInv'
  BY <1>0, Typed, CleanListStep DEF LoopInv, Alive, Tracked, Busy, Dead
<1>5. AdoptInv'
  BY <1>0, Typed, CleanListStep DEF AdoptInv, Alive
<1>6. ReachInv'
  BY <1>0, Typed, CleanListStep DEF ReachInv, Alive, Tracked
<1>7. OrphanInv'
  BY <1>0, Typed, CleanListStep DEF OrphanInv
<1>8. CalmInv'
  BY <1>0, Typed, CleanListStep DEF CalmInv, Busy, Closing
<1>9. SwapInv'
  BY <1>0, Typed, CleanListStep DEF SwapInv, Busy, Tracked
<1>10. CloseInv'
  BY <1>0, Typed, CleanListStep DEF CloseInv, Closing, Alive, Tracked
<1> QED
  BY <1>1, <1>2, <1>3, <1>4, <1>5, <1>6, <1>7, <1>8, <1>9, <1>10 DEF Base

LEMMA CleanDetachKeeps ==
    ASSUME Base, NEW p \in loop.todo, CleanDetach(p)
    PROVE  Base'
<1>0. /\ TypeOK /\ StopInv /\ LoopInv /\ AdoptInv /\ ForkInv /\ ReachInv
      /\ CallInv /\ OrphanInv /\ CalmInv /\ SwapInv /\ CloseInv
  BY DEF Base
<1>1. proc[p].st # "none"
  BY <1>0, Typed DEF LoopInv, StopInv, Dead, Tracked
<1>2. /\ TypeOK'
      /\ loop.pc = "detach" /\ p \in Pids
      /\ Others(p) /\ Page(p) /\ proc'[p].ev = "none" /\ proc'[p].traced = FALSE
      /\ proc[p].st = "zombie" => proc'[p].st = "gone"
      /\ proc[p].st = "stop" => proc'[p].st \in {"run", "jobstop"}
      /\ proc[p].st \notin {"zombie", "stop"} => proc'[p].st = proc[p].st
      /\ loop'.pc = "detach" /\ loop'.todo = loop.todo \ {p} /\ loop'.pid = loop.pid /\ loop'.kid = loop.kid
      /\ loop'.new = loop.new
      /\ UNCHANGED <<world, handle, children, pending, gone, loopErr, done, call, mapped, used, want, slain>>
  BY <1>0, <1>1, Typed, CleanDetachStep
<1>3. StopInv'
  BY <1>0, <1>2, Typed DEF StopInv, LoopInv, Alive, Tracked, Busy, Dead, Others, Page
<1>4. LoopInv'
  BY <1>0, <1>2, Typed DEF LoopInv, Alive, Tracked, Busy, Dead, Others, Page
<1>5. AdoptInv'
  BY <1>0, <1>2, Typed DEF AdoptInv, Alive, Others, Page
<1>6. ForkInv'
  BY <1>0, <1>2, Typed DEF ForkInv, LoopInv, Alive, Tracked, Busy, Dead, Others, Page
<1>7. ReachInv'
  BY <1>0, <1>2, Typed DEF ReachInv, Alive, Tracked, Others, Page
<1>8. CallInv'
  BY <1>0, <1>2, Typed DEF CallInv, Dead, Others, Page
<1>9. OrphanInv'
  BY <1>0, <1>2, Typed DEF OrphanInv, Others, Page
<1>10. CalmInv'
  BY <1>0, <1>2, Typed DEF CalmInv, LoopInv, OrphanInv, Busy, Closing, Alive, Tracked, Dead, Others, Page
<1>11. SwapInv'
  BY <1>0, <1>2, Typed DEF SwapInv, Busy, Tracked, Others, Page
<1>12. CloseInv'
  BY <1>0, <1>2, Typed DEF CloseInv, Closing, Alive, Tracked, Others, Page
<1> QED
  BY <1>2, <1>3, <1>4, <1>5, <1>6, <1>7, <1>8, <1>9, <1>10, <1>11, <1>12 DEF Base

LEMMA CleanReleaseKeeps ==
    ASSUME Base, CleanRelease
    PROVE  Base'
<1>0. /\ TypeOK /\ StopInv /\ LoopInv /\ AdoptInv /\ ForkInv /\ ReachInv
      /\ CallInv /\ OrphanInv /\ CalmInv /\ SwapInv /\ CloseInv
  BY DEF Base
<1>1. proc[Parent].st # "none"
  BY <1>0, Typed DEF LoopInv, StopInv, Dead, Tracked
<1>2. /\ TypeOK'
      /\ loop.pc = "detach" /\ loop.todo = {}
      /\ Others(Parent) /\ Page(Parent) /\ proc'[Parent].ev = "none" /\ proc'[Parent].traced = FALSE
      /\ proc[Parent].st = "zombie" => proc'[Parent].st = "gone"
      /\ proc[Parent].st = "stop" => proc'[Parent].st \in {"run", "jobstop"}
      /\ proc[Parent].st \notin {"zombie", "stop"} => proc'[Parent].st = proc[Parent].st
      /\ loop'.pc = "ended" /\ loop'.todo = loop.todo /\ loop'.pid = loop.pid /\ loop'.kid = loop.kid
      /\ loop'.new = loop.new
      /\ UNCHANGED <<world, handle, children, pending, gone, loopErr, done, call, mapped, used, want, slain>>
  BY <1>0, <1>1, Typed, CleanReleaseStep
<1>3. StopInv'
  BY <1>0, <1>2, Typed DEF StopInv, Alive, Tracked, Busy, Others, Page
<1>4. LoopInv'
  BY <1>0, <1>2, Typed DEF LoopInv, Alive, Tracked, Busy, Dead, Others, Page
<1>5. AdoptInv'
  BY <1>0, <1>2, Typed DEF AdoptInv, Alive, Others, Page
<1>6. ForkInv'
  BY <1>0, <1>2, Typed DEF ForkInv, Alive, Others, Page
<1>7. ReachInv'
  BY <1>0, <1>2, Typed DEF ReachInv, Alive, Tracked, Others, Page
<1>8. CallInv'
  BY <1>0, <1>2, Typed DEF CallInv, Dead, Others, Page
<1>9. OrphanInv'
  BY <1>0, <1>2, Typed DEF OrphanInv, StopInv, Alive, Tracked, Busy, Others, Page
<1>10. CalmInv'
  BY <1>0, <1>2, Typed DEF CalmInv, OrphanInv, Busy, Closing, Others, Page
<1>11. SwapInv'
  BY <1>0, <1>2, Typed DEF SwapInv, Busy, Tracked, Others, Page
<1>12. CloseInv'
  BY <1>0, <1>2, Typed DEF CloseInv, Closing, Alive, Tracked, Others, Page
<1> QED
  BY <1>2, <1>3, <1>4, <1>5, <1>6, <1>7, <1>8, <1>9, <1>10, <1>11, <1>12 DEF Base

LEMMA CallSetKeeps ==
    ASSUME Base, NEW t \in Callers, NEW k \in world.clocks, CallSet(t, k)
    PROVE  Base'
<1>0. /\ TypeOK /\ StopInv /\ LoopInv /\ AdoptInv /\ ForkInv /\ ReachInv
      /\ CallInv /\ OrphanInv /\ CalmInv /\ SwapInv /\ CloseInv
  BY DEF Base
<1>1. /\ TypeOK'
      /\ call[t].pc = "idle"
      /\ world.calm => CaughtUp /\ \A u \in Callers : call[u].pc = "idle"
      /\ OtherCalls(t) /\ call'[t].pc = "apply" /\ call'[t].clock = k /\ call'[t].todo = Tracked
      /\ call'[t].half = {} /\ call'[t].dead = {}
      /\ want' = k
      /\ UNCHANGED <<world, proc, handle, children, pending, gone, loopErr, done, loop, mapped, slain>>
  BY <1>0, Typed, CallSetStep
<1>2. StopInv' /\ LoopInv' /\ AdoptInv' /\ ForkInv' /\ ReachInv' /\ OrphanInv' /\ SwapInv'
  BY <1>0, <1>1, SameTree
<1>3. CallInv'
  BY <1>0, <1>1, Typed DEF CallInv, StopInv, ReachInv, Dead, Alive, Tracked, Busy, OtherCalls
<1>4. CalmInv'
  BY <1>0, <1>1, Typed DEF CalmInv, Busy, Closing, OtherCalls, CaughtUp, Tracked
<1>5. CloseInv'
  BY <1>0, <1>1, Typed DEF CloseInv, Closing, Alive, Tracked, OtherCalls, CaughtUp
<1> QED
  BY <1>1, <1>2, <1>3, <1>4, <1>5 DEF Base

LEMMA CallAdvanceKeeps ==
    ASSUME Base, NEW t \in Callers, NEW d \in Deltas, CallAdvance(t, d)
    PROVE  Base'
<1>0. /\ TypeOK /\ StopInv /\ LoopInv /\ AdoptInv /\ ForkInv /\ ReachInv
      /\ CallInv /\ OrphanInv /\ CalmInv /\ SwapInv /\ CloseInv
  BY DEF Base
<1>1. /\ TypeOK'
      /\ call[t].pc = "idle"
      /\ world.calm => CaughtUp /\ \A u \in Callers : call[u].pc = "idle"
      /\ OtherCalls(t) /\ call'[t].pc = "read" /\ call'[t].todo = {} /\ call'[t].half = {} /\ call'[t].dead = {}
      /\ call'[t].clock = [handle[Parent].clock EXCEPT !.at = @ + d] /\ want' = [want EXCEPT !.at = @ + d]
      /\ UNCHANGED <<world, proc, handle, children, pending, gone, loopErr, done, loop, mapped, slain>>
  BY <1>0, Typed, CallAdvanceStep
<1>2. StopInv' /\ LoopInv' /\ AdoptInv' /\ ForkInv' /\ ReachInv' /\ OrphanInv' /\ SwapInv'
  BY <1>0, <1>1, SameTree
<1>3. CallInv'
  BY <1>0, <1>1, Typed DEF CallInv, Dead, OtherCalls
<1>4. CalmInv'
  BY <1>0, <1>1, Typed DEF CalmInv, Busy, Closing, OtherCalls, CaughtUp
<1>5. CloseInv'
  BY <1>0, <1>1, Typed DEF CloseInv, Closing, Alive, Tracked, OtherCalls, CaughtUp
<1> QED
  BY <1>1, <1>2, <1>3, <1>4, <1>5 DEF Base

LEMMA CallSnapshotKeeps ==
    ASSUME Base, NEW t \in Callers, CallSnapshot(t)
    PROVE  Base'
<1>0. /\ TypeOK /\ StopInv /\ LoopInv /\ AdoptInv /\ ForkInv /\ ReachInv
      /\ CallInv /\ OrphanInv /\ CalmInv /\ SwapInv /\ CloseInv
  BY DEF Base
<1>1. /\ TypeOK'
      /\ call[t].pc = "read"
      /\ OtherCalls(t) /\ call'[t].pc = "apply" /\ call'[t].clock = call[t].clock /\ call'[t].todo = Tracked
      /\ call'[t].half = {} /\ call'[t].dead = {}
      /\ UNCHANGED <<world, proc, handle, children, pending, gone, loopErr, done, loop, mapped, used, want, slain>>
  BY <1>0, Typed, CallSnapshotStep
<1>2. StopInv' /\ LoopInv' /\ AdoptInv' /\ ForkInv' /\ ReachInv' /\ OrphanInv' /\ SwapInv'
  BY <1>0, <1>1, SameTree
<1>3. CallInv'
  BY <1>0, <1>1, Typed DEF CallInv, StopInv, ReachInv, Dead, Alive, Tracked, Busy, OtherCalls
<1>4. CalmInv'
  BY <1>0, <1>1, Typed DEF CalmInv, Busy, Closing, OtherCalls, Tracked
<1>5. CloseInv'
  BY <1>0, <1>1, Typed DEF CloseInv, Closing, Alive, Tracked, OtherCalls
<1> QED
  BY <1>1, <1>2, <1>3, <1>4, <1>5 DEF Base

LEMMA WriteOkKeeps ==
    ASSUME Base, NEW t \in Callers, NEW p \in call[t].todo, WriteOk(t, p)
    PROVE  Base'
<1>0. /\ TypeOK /\ StopInv /\ LoopInv /\ AdoptInv /\ ForkInv /\ ReachInv
      /\ CallInv /\ OrphanInv /\ CalmInv /\ SwapInv /\ CloseInv
  BY DEF Base
<1>1. /\ TypeOK'
      /\ p \in Pids /\ Alive(p) /\ handle[p].addr = proc[p].addr
      /\ OtherCalls(t) /\ call'[t].pc = call[t].pc /\ call'[t].clock = call[t].clock
      /\ call'[t].todo = call[t].todo \ {p} /\ call'[t].half = call[t].half \union {p} /\ call'[t].dead = call[t].dead
      /\ Others(p) /\ proc'[p].clock = call[t].clock
      /\ proc'[p].addr = proc[p].addr /\ proc'[p].st = proc[p].st /\ proc'[p].ev = proc[p].ev
      /\ proc'[p].kid = proc[p].kid /\ proc'[p].traced = proc[p].traced
      /\ UNCHANGED <<world, handle, children, pending, gone, loopErr, done, loop, mapped, used, want, slain>>
  BY <1>0, Typed, WriteOkStep
<1>2. SwapInv'
  BY <1>0, <1>1 DEF SwapInv, Busy, Tracked
<1>3. StopInv'
  BY <1>0, <1>1, Typed DEF StopInv, CallInv, Alive, Tracked, Busy, Dead, Others
<1>4. LoopInv'
  BY <1>0, <1>1, Typed DEF LoopInv, Alive, Tracked, Busy, Dead, Others
<1>5. AdoptInv'
  BY <1>0, <1>1, Typed DEF AdoptInv, Alive, Others
<1>6. ForkInv'
  BY <1>0, <1>1, Typed DEF ForkInv, Alive, Others
<1>7. ReachInv'
  BY <1>0, <1>1, Typed DEF ReachInv, Alive, Tracked, Others
<1>8. CallInv'
  BY <1>0, <1>1, Typed DEF CallInv, Dead, Others, OtherCalls, Alive
<1>9. OrphanInv'
  BY <1>0, <1>1, Typed DEF OrphanInv, Others, Alive
<1>10. CalmInv'
  BY <1>0, <1>1, Typed DEF CalmInv, Busy, Closing, Others, OtherCalls, Alive
<1>11. CloseInv'
  BY <1>0, <1>1, Typed DEF CloseInv, CalmInv, CallInv, Closing, Alive, Tracked, Busy, Dead, Others, OtherCalls
<1> QED
  BY <1>1, <1>2, <1>3, <1>4, <1>5, <1>6, <1>7, <1>8, <1>9, <1>10, <1>11 DEF Base

LEMMA WriteErrKeeps ==
    ASSUME Base, NEW t \in Callers, NEW p \in call[t].todo, WriteErr(t, p)
    PROVE  Base'
<1>0. /\ TypeOK /\ StopInv /\ LoopInv /\ AdoptInv /\ ForkInv /\ ReachInv
      /\ CallInv /\ OrphanInv /\ CalmInv /\ SwapInv /\ CloseInv
  BY DEF Base
<1>1. /\ TypeOK'
      /\ p \in Pids /\ ~(Alive(p) /\ handle[p].addr = proc[p].addr)
      /\ OtherCalls(t) /\ call'[t].pc = call[t].pc /\ call'[t].clock = call[t].clock
      /\ call'[t].todo = call[t].todo \ {p} /\ call'[t].half = call[t].half
      /\ call'[t].dead = (IF Alive(p) THEN call[t].dead ELSE call[t].dead \union {p})
      /\ UNCHANGED <<world, proc, handle, children, pending, gone, loopErr, done, loop, mapped, used, want, slain>>
  BY <1>0, Typed, WriteErrStep
<1>2. StopInv' /\ LoopInv' /\ AdoptInv' /\ ForkInv' /\ ReachInv' /\ OrphanInv' /\ SwapInv'
  BY <1>0, <1>1, SameTree
<1>3. CallInv'
  BY <1>0, <1>1, Typed DEF CallInv, Dead, OtherCalls, Alive
<1>4. CalmInv'
  BY <1>0, <1>1, Typed DEF CalmInv, Busy, Closing, OtherCalls, Alive
<1>5. CloseInv'
  BY <1>0, <1>1, Typed DEF CloseInv, Closing, Alive, Tracked, OtherCalls
<1> QED
  BY <1>1, <1>2, <1>3, <1>4, <1>5 DEF Base

LEMMA WriteNoteKeeps ==
    ASSUME Base, NEW t \in Callers, NEW p \in call[t].half, WriteNote(t, p)
    PROVE  Base'
<1>0. /\ TypeOK /\ StopInv /\ LoopInv /\ AdoptInv /\ ForkInv /\ ReachInv
      /\ CallInv /\ OrphanInv /\ CalmInv /\ SwapInv /\ CloseInv
  BY DEF Base
<1>1. /\ TypeOK'
      /\ p \in Pids
      /\ OtherCalls(t) /\ call'[t].pc = call[t].pc /\ call'[t].clock = call[t].clock
      /\ call'[t].todo = call[t].todo /\ call'[t].half = call[t].half \ {p} /\ call'[t].dead = call[t].dead
      /\ handle'[p].addr = handle[p].addr /\ handle'[p].clock = call[t].clock
      /\ \A q \in Pids : q # p => handle'[q] = handle[q]
      /\ UNCHANGED <<world, proc, children, pending, gone, loopErr, done, loop, mapped, used, want, slain>>
  BY <1>0, Typed, WriteNoteStep
<1>2. StopInv' /\ LoopInv' /\ AdoptInv' /\ ForkInv' /\ SwapInv'
  BY <1>0, <1>1 DEF StopInv, LoopInv, AdoptInv, ForkInv, SwapInv, Alive, Tracked, Busy, Dead
<1>3. ReachInv'
  BY <1>0, <1>1, Typed DEF ReachInv, Alive, Tracked
<1>4. CallInv'
  BY <1>0, <1>1, Typed DEF CallInv, Dead, OtherCalls
<1>5. OrphanInv'
  BY <1>0, <1>1, Typed DEF OrphanInv
<1>6. CalmInv'
  BY <1>0, <1>1, Typed DEF CalmInv, Busy, Closing, OtherCalls
<1>7. CloseInv'
  BY <1>0, <1>1, Typed DEF CloseInv, Closing, Alive, Tracked, OtherCalls
<1> QED
  BY <1>1, <1>2, <1>3, <1>4, <1>5, <1>6, <1>7 DEF Base

LEMMA CallEndKeeps ==
    ASSUME Base, NEW t \in Callers, CallEnd(t)
    PROVE  Base'
<1>0. /\ TypeOK /\ StopInv /\ LoopInv /\ AdoptInv /\ ForkInv /\ ReachInv
      /\ CallInv /\ OrphanInv /\ CalmInv /\ SwapInv /\ CloseInv
  BY DEF Base
<1>1. /\ TypeOK'
      /\ call[t].pc = "apply" /\ call[t].todo = {} /\ call[t].half = {}
      /\ OtherCalls(t) /\ call'[t].pc = "idle" /\ call'[t].todo = {} /\ call'[t].half = {} /\ call'[t].dead = {}
      /\ children' = (IF world.prunes THEN children \ (call[t].dead \ {Parent}) ELSE children)
      /\ UNCHANGED <<world, proc, handle, pending, gone, loopErr, done, loop, mapped, used, want, slain>>
  BY <1>0, Typed, CallEndStep
<1>2. StopInv'
  BY <1>0, <1>1, Typed DEF StopInv, CallInv, Alive, Tracked, Busy, Dead
<1>3. LoopInv'
  BY <1>0, <1>1, Typed DEF LoopInv, CallInv, Alive, Tracked, Busy, Dead
<1>4. AdoptInv'
  BY <1>0, <1>1, Typed DEF AdoptInv, Alive
<1>5. ForkInv'
  BY <1>0, <1>1, Typed DEF ForkInv, Alive
<1>6. ReachInv'
  BY <1>0, <1>1, Typed DEF ReachInv, Alive, Tracked
<1>7. CallInv'
  BY <1>0, <1>1, Typed DEF CallInv, Dead, OtherCalls
<1>8. OrphanInv'
  BY <1>0, <1>1, Typed DEF OrphanInv
<1>9. CalmInv'
  BY <1>0, <1>1, Typed DEF CalmInv, Busy, Closing, OtherCalls
<1>10. SwapInv'
  BY <1>0, <1>1, Typed DEF SwapInv, CalmInv, Busy, Tracked, Closing
<1>11. CloseInv'
  BY <1>0, <1>1, Typed DEF CloseInv, Closing, Alive, Tracked, OtherCalls
<1> QED
  BY <1>1, <1>2, <1>3, <1>4, <1>5, <1>6, <1>7, <1>8, <1>9, <1>10, <1>11 DEF Base

LEMMA CloseKeeps ==
    ASSUME Base, NEW t \in Callers, Close(t)
    PROVE  Base'
<1>0. /\ TypeOK /\ StopInv /\ LoopInv /\ AdoptInv /\ ForkInv /\ ReachInv
      /\ CallInv /\ OrphanInv /\ CalmInv /\ SwapInv /\ CloseInv
  BY DEF Base
<1>1. /\ TypeOK'
      /\ call[t].pc = "idle" /\ ~done /\ done' = TRUE
      /\ world.calm => CaughtUp /\ \A u \in Callers : call[u].pc = "idle"
      /\ OtherCalls(t) /\ call'[t].pc = "closing" /\ call'[t].clock = call[t].clock
      /\ call'[t].todo = call[t].todo /\ call'[t].half = call[t].half /\ call'[t].dead = call[t].dead
      /\ UNCHANGED <<world, proc, handle, children, pending, gone, loopErr, loop, mapped, used, want, slain>>
  BY <1>0, Typed, CloseStep
<1>2. StopInv' /\ LoopInv' /\ AdoptInv' /\ ForkInv' /\ ReachInv' /\ SwapInv'
  BY <1>0, <1>1, SameProcs
<1>3. CallInv'
  BY <1>0, <1>1, Typed DEF CallInv, Dead, OtherCalls
<1>4. OrphanInv'
  BY <1>0, <1>1, Typed DEF OrphanInv
<1>5. CalmInv'
  BY <1>0, <1>1, Typed DEF CalmInv, Busy, Closing, OtherCalls, CaughtUp
<1>6. CloseInv'
  BY <1>0, <1>1, Typed DEF CloseInv, OrphanInv, Closing, Alive, Tracked, OtherCalls, CaughtUp
<1> QED
  BY <1>1, <1>2, <1>3, <1>4, <1>5, <1>6 DEF Base

LEMMA CloseEndKeeps ==
    ASSUME Base, NEW t \in Callers, CloseEnd(t)
    PROVE  Base'
<1>0. /\ TypeOK /\ StopInv /\ LoopInv /\ AdoptInv /\ ForkInv /\ ReachInv
      /\ CallInv /\ OrphanInv /\ CalmInv /\ SwapInv /\ CloseInv
  BY DEF Base
<1>1. /\ TypeOK'
      /\ call[t].pc = "closing" /\ loop.pc = "ended"
      /\ OtherCalls(t) /\ call'[t].pc = "idle" /\ call'[t].todo = {} /\ call'[t].half = {} /\ call'[t].dead = {}
      /\ UNCHANGED <<world, proc, handle, children, pending, gone, loopErr, done, loop, mapped, used, want, slain>>
  BY <1>0, Typed, CloseEndStep
<1>2. StopInv' /\ LoopInv' /\ AdoptInv' /\ ForkInv' /\ ReachInv' /\ OrphanInv' /\ SwapInv'
  BY <1>0, <1>1, SameTree
<1>3. CallInv'
  BY <1>0, <1>1, Typed DEF CallInv, Dead, OtherCalls
<1>4. CalmInv'
  BY <1>0, <1>1, Typed DEF CalmInv, Busy, Closing, OtherCalls
<1>5. CloseInv'
  BY <1>0, <1>1, Typed DEF CloseInv, Closing, Alive, Tracked, OtherCalls
<1> QED
  BY <1>1, <1>2, <1>3, <1>4, <1>5 DEF Base

(***************************************************************************)
(* One clock for the tree.  A step of the processes or of the loop keeps   *)
(* whatever clock the tree has; only calls change it.                      *)
(***************************************************************************)
TreeStep ==
    /\ UNCHANGED <<world, done, call, want>>
    /\ Alive(Parent)' => Alive(Parent)
    /\ Patched'
    /\ \A k \in Clock : OneClock(k) => OneClock(k)'
    /\ (\E t \in Callers : call[t].pc = "apply") =>
          \A p \in Pids : (p \in Tracked /\ Alive(p))' =>
              p \in Tracked /\ Alive(p) /\ proc'[p].clock = proc[p].clock /\ handle'[p].clock = handle[p].clock

LEMMA TreeMove ==
    ASSUME TreeInv, Fine, TreeStep
    PROVE  TreeInv'
<1>1. Patched' /\ UNCHANGED <<world, done, call, want>>
  BY DEF TreeStep
<1>2. Aimed'
  BY <1>1 DEF TreeInv, Aimed, TreeStep
<1>3. Writing'
  BY <1>1 DEF TreeInv, Writing, Written, TreeStep
<1>4. Agreed'
  <2>1. SUFFICES ASSUME \A t \in Callers : call[t].pc # "apply"
                 PROVE  Agreed'
    BY <1>1 DEF Agreed
  <2>2. PICK k \in Clock : OneClock(k) /\ (Alive(Parent) => k = want \/ \E t \in Callers : call[t].pc = "read")
    BY <2>1 DEF TreeInv, Agreed
  <2>3. OneClock(k)' /\ ((Alive(Parent))' => k = want' \/ \E t \in Callers : call'[t].pc = "read")
    BY <1>1, <2>2 DEF TreeStep
  <2> QED
    BY <2>3 DEF Agreed
<1> QED
  BY <1>1, <1>2, <1>3, <1>4 DEF TreeInv

LEMMA ForkTree ==
    ASSUME Base, TreeInv, Fine, NEW p \in Pids, NEW c \in Pids, Fork(p, c)
    PROVE  TreeInv'
<1>0. /\ TypeOK /\ StopInv /\ LoopInv /\ AdoptInv /\ ForkInv /\ ReachInv
      /\ CallInv /\ OrphanInv /\ CalmInv /\ SwapInv /\ CloseInv
      /\ Patched /\ Aimed /\ Writing /\ Agreed /\ world.calm /\ world.faults = 0 /\ ~done
  BY DEF Base, TreeInv, Fine
<1>1. /\ TypeOK'
      /\ Undisturbed /\ p # c /\ proc[p].st = "run" /\ proc[p].traced /\ proc[c].st = "none"
      /\ \A q \in Pids : q # p /\ q # c => proc'[q] = proc[q]
      /\ proc'[p].st = "stop" /\ proc'[p].ev = "fork" /\ proc'[p].kid = c /\ Page(p) /\ proc'[p].traced = proc[p].traced
      /\ proc'[c].st = "stop" /\ proc'[c].ev = "init" /\ proc'[c].addr = proc[p].addr /\ proc'[c].clock = proc[p].clock
      /\ UNCHANGED <<world, handle, children, pending, gone, loopErr, done, loop, call, mapped, used, want, slain>>
  BY <1>0, ForkStep
<1>2. Patched'
  BY <1>0, <1>1, Typed DEF Patched, StopInv, Alive, Tracked, Busy, Page
<1>3. ASSUME NEW k \in Clock, OneClock(k)
      PROVE  OneClock(k)'
  BY <1>0, <1>3, <1>1, Typed DEF OneClock, StopInv, SwapInv, Alive, Tracked, Busy, Page
<1>4. TreeStep
  BY <1>0, <1>1, <1>2, <1>3, Typed DEF TreeStep, StopInv, Alive, Tracked, Busy, Page, Undisturbed
<1> QED
  BY <1>4, TreeMove

LEMMA ExecTree ==
    ASSUME Base, TreeInv, Fine, NEW p \in Pids, Exec(p)
    PROVE  TreeInv'
<1>0. /\ TypeOK /\ StopInv /\ LoopInv /\ AdoptInv /\ ForkInv /\ ReachInv
      /\ CallInv /\ OrphanInv /\ CalmInv /\ SwapInv /\ CloseInv
      /\ Patched /\ Aimed /\ Writing /\ Agreed /\ world.calm /\ world.faults = 0 /\ ~done
  BY DEF Base, TreeInv, Fine
<1>1. /\ TypeOK'
      /\ Undisturbed /\ proc[p].st = "run" /\ proc[p].traced
      /\ Others(p) /\ proc'[p].st = "stop" /\ proc'[p].ev = "exec" /\ proc'[p].addr = 0 /\ proc'[p].clock = Real
      /\ proc'[p].kid = proc[p].kid /\ proc'[p].traced = proc[p].traced
      /\ UNCHANGED <<world, handle, children, pending, gone, loopErr, done, loop, call, mapped, want, slain>>
  BY <1>0, ExecStep
<1>2. Patched'
  BY <1>0, <1>1, Typed DEF Patched, Alive, Others
<1>3. ASSUME NEW k \in Clock, OneClock(k)
      PROVE  OneClock(k)'
  BY <1>0, <1>3, <1>1, Typed DEF OneClock, Alive, Tracked, Others
<1>4. TreeStep
  BY <1>0, <1>1, <1>2, <1>3, Typed DEF TreeStep, Alive, Tracked, Others, Undisturbed
<1> QED
  BY <1>4, TreeMove

LEMMA SignalTree ==
    ASSUME Base, TreeInv, Fine, NEW p \in Pids, Signal(p)
    PROVE  TreeInv'
<1>0. /\ TypeOK /\ StopInv /\ LoopInv /\ AdoptInv /\ ForkInv /\ ReachInv
      /\ CallInv /\ OrphanInv /\ CalmInv /\ SwapInv /\ CloseInv
      /\ Patched /\ Aimed /\ Writing /\ Agreed /\ world.calm /\ world.faults = 0 /\ ~done
  BY DEF Base, TreeInv, Fine
<1>1. /\ TypeOK'
      /\ Undisturbed /\ proc[p].st = "run" /\ proc[p].traced
      /\ Becomes(p, "stop", "signal")
      /\ UNCHANGED <<world, handle, children, pending, gone, loopErr, done, loop, call, mapped, want, slain>>
  BY <1>0, SignalStep
<1>2. Patched'
  BY <1>0, <1>1, Typed DEF Patched, StopInv, Alive, Tracked, Busy, Becomes, Others, Page
<1>3. ASSUME NEW k \in Clock, OneClock(k)
      PROVE  OneClock(k)'
  BY <1>0, <1>3, <1>1, Typed DEF OneClock, Alive, Tracked, Becomes, Others, Page
<1>4. TreeStep
  BY <1>0, <1>1, <1>2, <1>3, Typed DEF TreeStep, Alive, Tracked, Becomes, Others, Page, Undisturbed
<1> QED
  BY <1>4, TreeMove

LEMMA ExitTree ==
    ASSUME Base, TreeInv, Fine, NEW p \in Pids, Exit(p)
    PROVE  TreeInv'
<1>0. /\ TypeOK /\ StopInv /\ LoopInv /\ AdoptInv /\ ForkInv /\ ReachInv
      /\ CallInv /\ OrphanInv /\ CalmInv /\ SwapInv /\ CloseInv
      /\ Patched /\ Aimed /\ Writing /\ Agreed /\ world.calm /\ world.faults = 0 /\ ~done
  BY DEF Base, TreeInv, Fine
<1>1. /\ TypeOK'
      /\ Alive(p) /\ \E s \in {"gone", "zombie"} : Becomes(p, s, "none")
      /\ Busy /\ proc[p].st = "held" => proc'[p].st = "zombie"
      /\ slain \subseteq slain'
      /\ proc[p].ev = "fork" => proc[p].kid \in slain'
      /\ UNCHANGED <<world, handle, children, pending, gone, loopErr, done, loop, call, mapped, used, want>>
  BY <1>0, ExitStep
<1>2. Patched'
  BY <1>0, <1>1, Typed DEF Patched, Alive, Becomes, Others, Page
<1>3. ASSUME NEW k \in Clock, OneClock(k)
      PROVE  OneClock(k)'
  BY <1>0, <1>3, <1>1, Typed DEF OneClock, Alive, Tracked, Becomes, Others, Page
<1>4. TreeStep
  BY <1>0, <1>1, <1>2, <1>3, Typed DEF TreeStep, Alive, Tracked, Becomes, Others, Page
<1> QED
  BY <1>4, TreeMove

LEMMA LoopTopTree ==
    ASSUME Base, TreeInv, Fine, LoopTop
    PROVE  TreeInv'
<1>0. /\ TypeOK /\ StopInv /\ LoopInv /\ AdoptInv /\ ForkInv /\ ReachInv
      /\ CallInv /\ OrphanInv /\ CalmInv /\ SwapInv /\ CloseInv
      /\ Patched /\ Aimed /\ Writing /\ Agreed /\ world.calm /\ world.faults = 0 /\ ~done
  BY DEF Base, TreeInv, Fine
<1>1. /\ TypeOK'
      /\ loop.pc = "top"
      /\ loop'.pid = loop.pid /\ loop'.kid = loop.kid /\ loop'.new = loop.new
      /\ \/ loop'.pc = "reset" /\ loop'.todo = children /\ (done \/ (gone /\ children = {}))
         \/ loop'.pc = "poll" /\ loop'.todo = TrackedPIDs
      /\ UNCHANGED <<world, proc, handle, children, pending, gone, loopErr, done, call, mapped, used, want, slain>>
  BY <1>0, LoopTopStep
<1>2. Patched'
  BY <1>0, <1>1, Typed DEF Patched, Alive, Tracked
<1>3. ASSUME NEW k \in Clock, OneClock(k)
      PROVE  OneClock(k)'
  BY <1>0, <1>3, <1>1, Typed DEF OneClock, Alive, Tracked
<1>4. TreeStep
  BY <1>0, <1>1, <1>2, <1>3, Typed DEF TreeStep, Alive, Tracked
<1> QED
  BY <1>4, TreeMove

LEMMA LoopNextTree ==
    ASSUME Base, TreeInv, Fine, LoopNext
    PROVE  TreeInv'
<1>0. /\ TypeOK /\ StopInv /\ LoopInv /\ AdoptInv /\ ForkInv /\ ReachInv
      /\ CallInv /\ OrphanInv /\ CalmInv /\ SwapInv /\ CloseInv
      /\ Patched /\ Aimed /\ Writing /\ Agreed /\ world.calm /\ world.faults = 0 /\ ~done
  BY DEF Base, TreeInv, Fine
<1>1. /\ TypeOK'
      /\ loop.pc = "poll" /\ loop.todo = {}
      /\ loop'.pc = "top" /\ loop'.todo = loop.todo /\ loop'.pid = loop.pid /\ loop'.kid = loop.kid
      /\ loop'.new = loop.new
      /\ UNCHANGED <<world, proc, handle, children, pending, gone, loopErr, done, call, mapped, used, want, slain>>
  BY <1>0, LoopNextStep
<1>2. Patched'
  BY <1>0, <1>1, Typed DEF Patched, Alive
<1>3. ASSUME NEW k \in Clock, OneClock(k)
      PROVE  OneClock(k)'
  BY <1>0, <1>3, <1>1, Typed DEF OneClock, Alive, Tracked
<1>4. TreeStep
  BY <1>0, <1>1, <1>2, <1>3, Typed DEF TreeStep, Alive, Tracked
<1> QED
  BY <1>4, TreeMove

LEMMA PollNoneTree ==
    ASSUME Base, TreeInv, Fine, NEW p \in loop.todo, PollNone(p)
    PROVE  TreeInv'
<1>0. /\ TypeOK /\ StopInv /\ LoopInv /\ AdoptInv /\ ForkInv /\ ReachInv
      /\ CallInv /\ OrphanInv /\ CalmInv /\ SwapInv /\ CloseInv
      /\ Patched /\ Aimed /\ Writing /\ Agreed /\ world.calm /\ world.faults = 0 /\ ~done
  BY DEF Base, TreeInv, Fine
<1>1. /\ TypeOK'
      /\ loop.pc = "poll"
      /\ loop'.pc = "poll" /\ loop'.todo = loop.todo \ {p} /\ loop'.pid = loop.pid /\ loop'.kid = loop.kid
      /\ loop'.new = loop.new
      /\ UNCHANGED <<world, proc, handle, children, pending, gone, loopErr, done, call, mapped, used, want, slain>>
  BY <1>0, PollNoneStep
<1>2. Patched'
  BY <1>0, <1>1, Typed DEF Patched, Alive
<1>3. ASSUME NEW k \in Clock, OneClock(k)
      PROVE  OneClock(k)'
  BY <1>0, <1>3, <1>1, Typed DEF OneClock, Alive, Tracked
<1>4. TreeStep
  BY <1>0, <1>1, <1>2, <1>3, Typed DEF TreeStep, Alive, Tracked
<1> QED
  BY <1>4, TreeMove

LEMMA PollExitTree ==
    ASSUME Base, TreeInv, Fine, NEW p \in loop.todo, PollExit(p)
    PROVE  TreeInv'
<1>0. /\ TypeOK /\ StopInv /\ LoopInv /\ AdoptInv /\ ForkInv /\ ReachInv
      /\ CallInv /\ OrphanInv /\ CalmInv /\ SwapInv /\ CloseInv
      /\ Patched /\ Aimed /\ Writing /\ Agreed /\ world.calm /\ world.faults = 0 /\ ~done
  BY DEF Base, TreeInv, Fine
<1>1. /\ TypeOK'
      /\ loop.pc = "poll" /\ p \in Pids /\ proc[p].st = "zombie"
      /\ Others(p)
      /\ proc'[p].st = "gone" /\ proc'[p].ev = "none" /\ proc'[p].addr = 0 /\ proc'[p].clock = Real
      /\ children' = children \ {p}
      /\ gone' = (gone \/ p = Parent)
      /\ loop'.pc = "poll" /\ loop'.todo = loop.todo \ {p} /\ loop'.pid = loop.pid /\ loop'.kid = loop.kid
      /\ loop'.new = loop.new
      /\ UNCHANGED <<world, handle, done, call, mapped, used, want, slain>>
  BY <1>0, PollExitStep
<1>2. Patched'
  BY <1>0, <1>1, Typed DEF Patched, Alive, Others
<1>3. ASSUME NEW k \in Clock, OneClock(k)
      PROVE  OneClock(k)'
  BY <1>0, <1>3, <1>1, Typed DEF OneClock, Alive, Tracked, Others
<1>4. TreeStep
  BY <1>0, <1>1, <1>2, <1>3, Typed DEF TreeStep, Alive, Tracked, Others
<1> QED
  BY <1>4, TreeMove

LEMMA PollStopTree ==
    ASSUME Base, TreeInv, Fine, NEW p \in loop.todo, PollStop(p)
    PROVE  TreeInv'
<1>0. /\ TypeOK /\ StopInv /\ LoopInv /\ AdoptInv /\ ForkInv /\ ReachInv
      /\ CallInv /\ OrphanInv /\ CalmInv /\ SwapInv /\ CloseInv
      /\ Patched /\ Aimed /\ Writing /\ Agreed /\ world.calm /\ world.faults = 0 /\ ~done
  BY DEF Base, TreeInv, Fine
<1>1. /\ TypeOK'
      /\ loop.pc = "poll" /\ p \in Pids /\ proc[p].st = "stop"
      /\ Becomes(p, "held", proc[p].ev)
      /\ loop'.pc = (IF proc[p].ev \in {"fork", "exec"} THEN proc[p].ev ELSE "other")
      /\ loop'.todo = loop.todo \ {p} /\ loop'.pid = p /\ loop'.kid = loop.kid /\ loop'.new = loop.new
      /\ UNCHANGED <<world, handle, children, pending, gone, loopErr, done, call, mapped, used, want, slain>>
  BY <1>0, PollStopStep
<1>2. Patched'
  BY <1>0, <1>1, Typed DEF Patched, Alive, Becomes, Others, Page
<1>3. ASSUME NEW k \in Clock, OneClock(k)
      PROVE  OneClock(k)'
  BY <1>0, <1>3, <1>1, Typed DEF OneClock, Alive, Tracked, Becomes, Others, Page
<1>4. TreeStep
  BY <1>0, <1>1, <1>2, <1>3, Typed DEF TreeStep, Alive, Tracked, Becomes, Others, Page
<1> QED
  BY <1>4, TreeMove

LEMMA LoopForkTree ==
    ASSUME Base, TreeInv, Fine, LoopFork
    PROVE  TreeInv'
<1>0. /\ TypeOK /\ StopInv /\ LoopInv /\ AdoptInv /\ ForkInv /\ ReachInv
      /\ CallInv /\ OrphanInv /\ CalmInv /\ SwapInv /\ CloseInv
      /\ Patched /\ Aimed /\ Writing /\ Agreed /\ world.calm /\ world.faults = 0 /\ ~done
  BY DEF Base, TreeInv, Fine
<1>1. /\ TypeOK'
      /\ loop.pc = "fork"
      /\ \/ /\ Alive(loop.pid) /\ loop'.pc = "adopt" /\ loop'.todo = loop.todo /\ loop'.pid = loop.pid
            /\ loop'.kid = proc[loop.pid].kid /\ loop'.new = ParentHandle(loop.pid)
         \/ ~Alive(loop.pid) /\ loop'.pc = "poll" /\ loop'.todo = loop.todo /\ loop'.pid = Parent /\ loop'.kid = 0 /\ loop'.new = NoHandle
      /\ UNCHANGED <<world, proc, handle, children, pending, gone, loopErr, done, call, mapped, used, want, slain>>
  BY <1>0, LoopForkStep
<1>2. Patched'
  BY <1>0, <1>1, Typed DEF Patched, Alive
<1>3. ASSUME NEW k \in Clock, OneClock(k)
      PROVE  OneClock(k)'
  BY <1>0, <1>3, <1>1, Typed DEF OneClock, SwapInv, Alive, Tracked, Busy, ParentHandle
<1>4. TreeStep
  BY <1>0, <1>1, <1>2, <1>3, Typed DEF TreeStep, Alive, Tracked
<1> QED
  BY <1>4, TreeMove

LEMMA LoopAdoptTree ==
    ASSUME Base, TreeInv, Fine, LoopAdopt
    PROVE  TreeInv'
<1>0. /\ TypeOK /\ StopInv /\ LoopInv /\ AdoptInv /\ ForkInv /\ ReachInv
      /\ CallInv /\ OrphanInv /\ CalmInv /\ SwapInv /\ CloseInv
      /\ Patched /\ Aimed /\ Writing /\ Agreed /\ world.calm /\ world.faults = 0 /\ ~done
  BY DEF Base, TreeInv, Fine
<1>1. /\ TypeOK'
      /\ loop.pc = "adopt" /\ loop.kid \in Pids
      /\ handle'[loop.kid] = loop.new /\ \A q \in Pids : q # loop.kid => handle'[q] = handle[q]
      /\ children' = children \union {loop.kid}
      /\ \/ proc[loop.pid].st = "held" /\ Becomes(loop.pid, "run", "none")
         \/ proc[loop.pid].st # "held" /\ proc' = proc
      /\ loop'.pc = "poll" /\ loop'.todo = loop.todo /\ loop'.pid = Parent /\ loop'.kid = 0 /\ loop'.new = NoHandle
      /\ UNCHANGED <<world, gone, loopErr, done, call, mapped, used, want, slain>>
  BY <1>0, LoopAdoptStep
<1>2. Patched'
  BY <1>0, <1>1, Typed DEF Patched, LoopInv, Alive, Tracked, Busy, Dead, Becomes, Others, Page
<1>3. ASSUME NEW k \in Clock, OneClock(k)
      PROVE  OneClock(k)'
  BY <1>0, <1>3, <1>1, Typed DEF OneClock, Alive, Tracked, Becomes, Others, Page
<1>4. TreeStep
  BY <1>0, <1>1, <1>2, <1>3, Typed DEF TreeStep, CalmInv, Alive, Tracked, Busy, Becomes, Others, Page
<1> QED
  BY <1>4, TreeMove

LEMMA LoopOtherTree ==
    ASSUME Base, TreeInv, Fine, LoopOther
    PROVE  TreeInv'
<1>0. /\ TypeOK /\ StopInv /\ LoopInv /\ AdoptInv /\ ForkInv /\ ReachInv
      /\ CallInv /\ OrphanInv /\ CalmInv /\ SwapInv /\ CloseInv
      /\ Patched /\ Aimed /\ Writing /\ Agreed /\ world.calm /\ world.faults = 0 /\ ~done
  BY DEF Base, TreeInv, Fine
<1>1. /\ TypeOK'
      /\ loop.pc = "other"
      /\ \/ proc[loop.pid].st = "held" /\ Becomes(loop.pid, "run", "none")
         \/ proc[loop.pid].st # "held" /\ proc' = proc
      /\ loop'.pc = "poll" /\ loop'.todo = loop.todo /\ loop'.pid = Parent /\ loop'.kid = 0 /\ loop'.new = NoHandle
      /\ UNCHANGED <<world, handle, children, gone, loopErr, done, call, mapped, used, want, slain>>
  BY <1>0, LoopOtherStep
<1>2. Patched'
  BY <1>0, <1>1, Typed DEF Patched, LoopInv, Alive, Tracked, Busy, Dead, Becomes, Others, Page
<1>3. ASSUME NEW k \in Clock, OneClock(k)
      PROVE  OneClock(k)'
  BY <1>0, <1>3, <1>1, Typed DEF OneClock, Alive, Tracked, Becomes, Others, Page
<1>4. TreeStep
  BY <1>0, <1>1, <1>2, <1>3, Typed DEF TreeStep, Alive, Tracked, Becomes, Others, Page
<1> QED
  BY <1>4, TreeMove

LEMMA LoopExecTree ==
    ASSUME Base, TreeInv, Fine, LoopExec
    PROVE  TreeInv'
<1>0. /\ TypeOK /\ StopInv /\ LoopInv /\ AdoptInv /\ ForkInv /\ ReachInv
      /\ CallInv /\ OrphanInv /\ CalmInv /\ SwapInv /\ CloseInv
      /\ Patched /\ Aimed /\ Writing /\ Agreed /\ world.calm /\ world.faults = 0 /\ ~done
  BY DEF Base, TreeInv, Fine
<1>1. /\ TypeOK'
      /\ loop.pc = "exec"
      /\ \/ /\ loop.pid \in Tracked /\ proc' = proc
            /\ loop'.pc = "reinject" /\ loop'.todo = loop.todo /\ loop'.pid = loop.pid
            /\ loop'.kid = loop.kid /\ loop'.new = handle[loop.pid]
         \/ /\ loop.pid \notin Tracked /\ loop'.pc = "poll" /\ loop'.todo = loop.todo /\ loop'.pid = Parent /\ loop'.kid = 0 /\ loop'.new = NoHandle
            /\ \/ proc[loop.pid].st = "held" /\ Becomes(loop.pid, "run", "none")
               \/ proc[loop.pid].st # "held" /\ proc' = proc
      /\ UNCHANGED <<world, handle, children, pending, gone, loopErr, done, call, mapped, used, want, slain>>
  BY <1>0, LoopExecStep
<1>2. Patched'
  BY <1>0, <1>1, Typed DEF Patched, LoopInv, Alive, Tracked, Busy, Dead, Becomes, Others, Page
<1>3. ASSUME NEW k \in Clock, OneClock(k)
      PROVE  OneClock(k)'
  BY <1>0, <1>3, <1>1, Typed DEF OneClock, Alive, Tracked, Becomes, Others, Page
<1>4. TreeStep
  BY <1>0, <1>1, <1>2, <1>3, Typed DEF TreeStep, Alive, Tracked, Becomes, Others, Page
<1> QED
  BY <1>4, TreeMove

LEMMA ReinjectOkTree ==
    ASSUME Base, TreeInv, Fine, ReinjectOk
    PROVE  TreeInv'
<1>0. /\ TypeOK /\ StopInv /\ LoopInv /\ AdoptInv /\ ForkInv /\ ReachInv
      /\ CallInv /\ OrphanInv /\ CalmInv /\ SwapInv /\ CloseInv
      /\ Patched /\ Aimed /\ Writing /\ Agreed /\ world.calm /\ world.faults = 0 /\ ~done
  BY DEF Base, TreeInv, Fine
<1>1. /\ TypeOK'
      /\ loop.pc = "reinject" /\ Alive(loop.pid) /\ mapped \in Nat
      /\ Others(loop.pid) /\ proc'[loop.pid].addr = mapped + 1 /\ proc'[loop.pid].clock = loop.new.clock
      /\ proc'[loop.pid].st = proc[loop.pid].st /\ proc'[loop.pid].ev = proc[loop.pid].ev
      /\ proc'[loop.pid].kid = proc[loop.pid].kid /\ proc'[loop.pid].traced = proc[loop.pid].traced
      /\ loop'.pc = "swap" /\ loop'.todo = loop.todo /\ loop'.pid = loop.pid /\ loop'.kid = loop.kid
      /\ loop'.new.addr = mapped + 1 /\ loop'.new.clock = loop.new.clock
      /\ UNCHANGED <<world, handle, children, pending, gone, loopErr, done, call, used, want, slain>>
  BY <1>0, ReinjectOkStep
<1>2. Patched'
  BY <1>0, <1>1, Typed DEF Patched, Alive, Others
<1>3. ASSUME NEW k \in Clock, OneClock(k)
      PROVE  OneClock(k)'
  BY <1>0, <1>3, <1>1, Typed DEF OneClock, Alive, Tracked, Others
<1>4. TreeStep
  BY <1>0, <1>1, <1>2, <1>3, Typed DEF TreeStep, CalmInv, Alive, Tracked, Busy, Others
<1> QED
  BY <1>4, TreeMove

LEMMA ReinjectErrTree ==
    ASSUME Base, TreeInv, Fine, ReinjectErr
    PROVE  TreeInv'
<1>0. /\ TypeOK /\ StopInv /\ LoopInv /\ AdoptInv /\ ForkInv /\ ReachInv
      /\ CallInv /\ OrphanInv /\ CalmInv /\ SwapInv /\ CloseInv
      /\ Patched /\ Aimed /\ Writing /\ Agreed /\ world.calm /\ world.faults = 0 /\ ~done
  BY DEF Base, TreeInv, Fine
<1>1. /\ TypeOK'
      /\ loop.pc = "reinject"
      /\ ~Alive(loop.pid) \/ world.faults # 0
      /\ \/ proc[loop.pid].st = "held" /\ Becomes(loop.pid, "run", "none")
         \/ proc[loop.pid].st # "held" /\ proc' = proc
      /\ loop'.pc = "poll" /\ loop'.todo = loop.todo /\ loop'.pid = Parent /\ loop'.kid = 0 /\ loop'.new = NoHandle
      /\ UNCHANGED <<world, handle, children, pending, gone, done, call, mapped, want, slain>>
  BY <1>0, ReinjectErrStep
<1>2. Patched'
  BY <1>0, <1>1, Typed DEF Patched, Alive, Becomes, Others, Page
<1>3. ASSUME NEW k \in Clock, OneClock(k)
      PROVE  OneClock(k)'
  BY <1>0, <1>3, <1>1, Typed DEF OneClock, Alive, Tracked, Becomes, Others, Page
<1>4. TreeStep
  BY <1>0, <1>1, <1>2, <1>3, Typed DEF TreeStep, Alive, Tracked, Becomes, Others, Page
<1> QED
  BY <1>4, TreeMove

LEMMA LoopSwapTree ==
    ASSUME Base, TreeInv, Fine, LoopSwap
    PROVE  TreeInv'
<1>0. /\ TypeOK /\ StopInv /\ LoopInv /\ AdoptInv /\ ForkInv /\ ReachInv
      /\ CallInv /\ OrphanInv /\ CalmInv /\ SwapInv /\ CloseInv
      /\ Patched /\ Aimed /\ Writing /\ Agreed /\ world.calm /\ world.faults = 0 /\ ~done
  BY DEF Base, TreeInv, Fine
<1>1. /\ TypeOK'
      /\ loop.pc = "swap"
      /\ \/ /\ loop.pid \in Tracked /\ loop'.pc = "poll" /\ loop'.todo = loop.todo /\ loop'.pid = Parent /\ loop'.kid = 0 /\ loop'.new = NoHandle
            /\ handle'[loop.pid].addr = loop.new.addr /\ handle'[loop.pid].clock = handle[loop.pid].clock
            /\ \A q \in Pids : q # loop.pid => handle'[q] = handle[q]
            /\ \/ proc[loop.pid].st = "held" /\ Becomes(loop.pid, "run", "none")
               \/ proc[loop.pid].st # "held" /\ proc' = proc
         \/ /\ loop.pid \notin Tracked /\ handle' = handle /\ proc' = proc
            /\ loop'.pc = "panic" /\ loop'.todo = loop.todo /\ loop'.pid = loop.pid /\ loop'.kid = loop.kid
            /\ loop'.new = loop.new
      /\ UNCHANGED <<world, children, pending, gone, loopErr, done, call, mapped, used, want, slain>>
  BY <1>0, LoopSwapStep
<1>2. Patched'
  BY <1>0, <1>1, Typed DEF Patched, ReachInv, Alive, Tracked, Becomes, Others, Page
<1>3. ASSUME NEW k \in Clock, OneClock(k)
      PROVE  OneClock(k)'
  BY <1>0, <1>3, <1>1, Typed DEF OneClock, Alive, Tracked, Becomes, Others, Page
<1>4. TreeStep
  BY <1>0, <1>1, <1>2, <1>3, Typed DEF TreeStep, Alive, Tracked, Becomes, Others, Page
<1> QED
  BY <1>4, TreeMove

LEMMA CleanResetTree ==
    ASSUME Base, TreeInv, Fine, NEW p \in loop.todo, CleanReset(p)
    PROVE  TreeInv'
<1>0. /\ TypeOK /\ StopInv /\ LoopInv /\ AdoptInv /\ ForkInv /\ ReachInv
      /\ CallInv /\ OrphanInv /\ CalmInv /\ SwapInv /\ CloseInv
      /\ Patched /\ Aimed /\ Writing /\ Agreed /\ world.calm /\ world.faults = 0 /\ ~done
  BY DEF Base, TreeInv, Fine
<1>1. /\ TypeOK'
      /\ loop.pc = "reset" /\ p \in Pids
      /\ loop'.pc = "reset" /\ loop'.todo = loop.todo \ {p} /\ loop'.pid = loop.pid /\ loop'.kid = loop.kid
      /\ loop'.new = loop.new
      /\ \/ /\ Alive(p) /\ handle[p].addr = proc[p].addr
            /\ Others(p) /\ proc'[p].clock = Real
            /\ proc'[p].addr = proc[p].addr /\ proc'[p].st = proc[p].st /\ proc'[p].ev = proc[p].ev
            /\ proc'[p].kid = proc[p].kid /\ proc'[p].traced = proc[p].traced
            /\ handle'[p].addr = handle[p].addr /\ \A q \in Pids : q # p => handle'[q] = handle[q]
         \/ ~(Alive(p) /\ handle[p].addr = proc[p].addr) /\ proc' = proc /\ handle' = handle
      /\ UNCHANGED <<world, children, pending, gone, loopErr, done, call, mapped, used, want, slain>>
  BY <1>0, CleanResetStep
<1> QED
  BY <1>0, <1>1 DEF OrphanInv

LEMMA CleanListTree ==
    ASSUME Base, TreeInv, Fine, CleanList
    PROVE  TreeInv'
<1>0. /\ TypeOK /\ StopInv /\ LoopInv /\ AdoptInv /\ ForkInv /\ ReachInv
      /\ CallInv /\ OrphanInv /\ CalmInv /\ SwapInv /\ CloseInv
      /\ Patched /\ Aimed /\ Writing /\ Agreed /\ world.calm /\ world.faults = 0 /\ ~done
  BY DEF Base, TreeInv, Fine
<1>1. /\ TypeOK'
      /\ loop.pc = "reset" /\ loop.todo = {}
      /\ loop'.pc = "detach" /\ loop'.todo = children /\ loop'.pid = loop.pid /\ loop'.kid = loop.kid
      /\ loop'.new = loop.new
      /\ UNCHANGED <<world, proc, handle, children, pending, gone, loopErr, done, call, mapped, used, want, slain>>
  BY <1>0, CleanListStep
<1>2. Patched'
  BY <1>0, <1>1, Typed DEF Patched, Alive
<1>3. ASSUME NEW k \in Clock, OneClock(k)
      PROVE  OneClock(k)'
  BY <1>0, <1>3, <1>1, Typed DEF OneClock, Alive, Tracked
<1>4. TreeStep
  BY <1>0, <1>1, <1>2, <1>3, Typed DEF TreeStep, Alive, Tracked
<1> QED
  BY <1>4, TreeMove

LEMMA CleanDetachTree ==
    ASSUME Base, TreeInv, Fine, NEW p \in loop.todo, CleanDetach(p)
    PROVE  TreeInv'
<1>0. /\ TypeOK /\ StopInv /\ LoopInv /\ AdoptInv /\ ForkInv /\ ReachInv
      /\ CallInv /\ OrphanInv /\ CalmInv /\ SwapInv /\ CloseInv
      /\ Patched /\ Aimed /\ Writing /\ Agreed /\ world.calm /\ world.faults = 0 /\ ~done
  BY DEF Base, TreeInv, Fine
<1>1. proc[p].st # "none"
  BY <1>0, Typed DEF LoopInv, StopInv, Dead, Tracked
<1>2. /\ TypeOK'
      /\ loop.pc = "detach" /\ p \in Pids
      /\ Others(p) /\ Page(p) /\ proc'[p].ev = "none" /\ proc'[p].traced = FALSE
      /\ proc[p].st = "zombie" => proc'[p].st = "gone"
      /\ proc[p].st = "stop" => proc'[p].st \in {"run", "jobstop"}
      /\ proc[p].st \notin {"zombie", "stop"} => proc'[p].st = proc[p].st
      /\ loop'.pc = "detach" /\ loop'.todo = loop.todo \ {p} /\ loop'.pid = loop.pid /\ loop'.kid = loop.kid
      /\ loop'.new = loop.new
      /\ UNCHANGED <<world, handle, children, pending, gone, loopErr, done, call, mapped, used, want, slain>>
  BY <1>0, <1>1, CleanDetachStep
<1> QED
  BY <1>0, <1>2 DEF OrphanInv

LEMMA CleanReleaseTree ==
    ASSUME Base, TreeInv, Fine, CleanRelease
    PROVE  TreeInv'
<1>0. /\ TypeOK /\ StopInv /\ LoopInv /\ AdoptInv /\ ForkInv /\ ReachInv
      /\ CallInv /\ OrphanInv /\ CalmInv /\ SwapInv /\ CloseInv
      /\ Patched /\ Aimed /\ Writing /\ Agreed /\ world.calm /\ world.faults = 0 /\ ~done
  BY DEF Base, TreeInv, Fine
<1>1. proc[Parent].st # "none"
  BY <1>0, Typed DEF LoopInv, StopInv, Dead, Tracked
<1>2. /\ TypeOK'
      /\ loop.pc = "detach" /\ loop.todo = {}
      /\ Others(Parent) /\ Page(Parent) /\ proc'[Parent].ev = "none" /\ proc'[Parent].traced = FALSE
      /\ proc[Parent].st = "zombie" => proc'[Parent].st = "gone"
      /\ proc[Parent].st = "stop" => proc'[Parent].st \in {"run", "jobstop"}
      /\ proc[Parent].st \notin {"zombie", "stop"} => proc'[Parent].st = proc[Parent].st
      /\ loop'.pc = "ended" /\ loop'.todo = loop.todo /\ loop'.pid = loop.pid /\ loop'.kid = loop.kid
      /\ loop'.new = loop.new
      /\ UNCHANGED <<world, handle, children, pending, gone, loopErr, done, call, mapped, used, want, slain>>
  BY <1>0, <1>1, CleanReleaseStep
<1>3. Patched'
  BY <1>0, <1>2, Typed DEF Patched, OrphanInv, Alive, Others, Page
<1>4. ASSUME NEW k \in Clock, OneClock(k)
      PROVE  OneClock(k)'
  BY <1>0, <1>4, <1>2, Typed DEF OneClock, Alive, Tracked, Others, Page
<1>5. TreeStep
  BY <1>0, <1>2, <1>3, <1>4, Typed DEF TreeStep, Alive, Tracked, Others, Page
<1> QED
  BY <1>5, TreeMove

LEMMA CallSetTree ==
    ASSUME Base, TreeInv, Fine, NEW t \in Callers, NEW k \in world.clocks, CallSet(t, k)
    PROVE  TreeInv'
<1>0. /\ TypeOK /\ StopInv /\ LoopInv /\ AdoptInv /\ ForkInv /\ ReachInv
      /\ CallInv /\ OrphanInv /\ CalmInv /\ SwapInv /\ CloseInv
      /\ Patched /\ Aimed /\ Writing /\ Agreed /\ world.calm /\ world.faults = 0 /\ ~done
  BY DEF Base, TreeInv, Fine
<1>1. /\ TypeOK'
      /\ call[t].pc = "idle"
      /\ world.calm => CaughtUp /\ \A u \in Callers : call[u].pc = "idle"
      /\ OtherCalls(t) /\ call'[t].pc = "apply" /\ call'[t].clock = k /\ call'[t].todo = Tracked
      /\ call'[t].half = {} /\ call'[t].dead = {}
      /\ want' = k
      /\ UNCHANGED <<world, proc, handle, children, pending, gone, loopErr, done, loop, mapped, slain>>
  BY <1>0, CallSetStep
<1>2. CaughtUp /\ \A u \in Callers : call[u].pc = "idle"
  BY <1>0, <1>1
<1>3. Patched'
  BY <1>0, <1>1 DEF Patched, Alive
<1>4. Aimed'
  BY <1>0, <1>1, <1>2 DEF Aimed, OtherCalls
<1>5. Writing'
  BY <1>0, <1>1, <1>2 DEF Writing, Written, OtherCalls, Tracked
<1>6. Agreed'
  BY <1>1 DEF Agreed
<1> QED
  BY <1>3, <1>4, <1>5, <1>6 DEF TreeInv

LEMMA CallAdvanceTree ==
    ASSUME Base, TreeInv, Fine, NEW t \in Callers, NEW d \in Deltas, CallAdvance(t, d)
    PROVE  TreeInv'
<1>0. /\ TypeOK /\ StopInv /\ LoopInv /\ AdoptInv /\ ForkInv /\ ReachInv
      /\ CallInv /\ OrphanInv /\ CalmInv /\ SwapInv /\ CloseInv
      /\ Patched /\ Aimed /\ Writing /\ Agreed /\ world.calm /\ world.faults = 0 /\ ~done
  BY DEF Base, TreeInv, Fine
<1>1. /\ TypeOK'
      /\ call[t].pc = "idle"
      /\ world.calm => CaughtUp /\ \A u \in Callers : call[u].pc = "idle"
      /\ OtherCalls(t) /\ call'[t].pc = "read" /\ call'[t].todo = {} /\ call'[t].half = {} /\ call'[t].dead = {}
      /\ call'[t].clock = [handle[Parent].clock EXCEPT !.at = @ + d] /\ want' = [want EXCEPT !.at = @ + d]
      /\ UNCHANGED <<world, proc, handle, children, pending, gone, loopErr, done, loop, mapped, slain>>
  BY <1>0, CallAdvanceStep
<1>2. \A u \in Callers : call[u].pc = "idle"
  BY <1>0, <1>1
<1>3. PICK k \in Clock : OneClock(k) /\ (Alive(Parent) => k = want \/ \E u \in Callers : call[u].pc = "read")
  BY <1>0, <1>2 DEF Agreed
<1>4. Alive(Parent) => handle[Parent].clock = want
  BY <1>0, <1>2, <1>3, Typed DEF OneClock, Tracked
<1>5. Patched'
  BY <1>0, <1>1 DEF Patched, Alive
<1>6. Aimed'
  BY <1>1, <1>2, <1>4 DEF Aimed, OtherCalls, Alive
<1>7. Writing'
  BY <1>1, <1>2 DEF Writing, OtherCalls
<1>8. OneClock(k)'
  BY <1>1, <1>3 DEF OneClock, Alive, Tracked
<1>9. Agreed'
  BY <1>1, <1>8 DEF Agreed
<1> QED
  BY <1>5, <1>6, <1>7, <1>9 DEF TreeInv

LEMMA CallSnapshotTree ==
    ASSUME Base, TreeInv, Fine, NEW t \in Callers, CallSnapshot(t)
    PROVE  TreeInv'
<1>0. /\ TypeOK /\ StopInv /\ LoopInv /\ AdoptInv /\ ForkInv /\ ReachInv
      /\ CallInv /\ OrphanInv /\ CalmInv /\ SwapInv /\ CloseInv
      /\ Patched /\ Aimed /\ Writing /\ Agreed /\ world.calm /\ world.faults = 0 /\ ~done
  BY DEF Base, TreeInv, Fine
<1>1. /\ TypeOK'
      /\ call[t].pc = "read"
      /\ OtherCalls(t) /\ call'[t].pc = "apply" /\ call'[t].clock = call[t].clock /\ call'[t].todo = Tracked
      /\ call'[t].half = {} /\ call'[t].dead = {}
      /\ UNCHANGED <<world, proc, handle, children, pending, gone, loopErr, done, loop, mapped, used, want, slain>>
  BY <1>0, CallSnapshotStep
<1>2. \A u \in Callers : u # t => call[u].pc = "idle"
  BY <1>0, <1>1 DEF CalmInv
<1>3. Patched'
  BY <1>0, <1>1 DEF Patched, Alive
<1>4. Aimed'
  BY <1>0, <1>1, <1>2 DEF Aimed, OtherCalls, Alive
<1>5. Writing'
  BY <1>0, <1>1, <1>2 DEF Writing, Written, OtherCalls, Tracked
<1>6. Agreed'
  BY <1>1 DEF Agreed
<1> QED
  BY <1>3, <1>4, <1>5, <1>6 DEF TreeInv

LEMMA WriteOkTree ==
    ASSUME Base, TreeInv, Fine, NEW t \in Callers, NEW p \in call[t].todo, WriteOk(t, p)
    PROVE  TreeInv'
<1>0. /\ TypeOK /\ StopInv /\ LoopInv /\ AdoptInv /\ ForkInv /\ ReachInv
      /\ CallInv /\ OrphanInv /\ CalmInv /\ SwapInv /\ CloseInv
      /\ Patched /\ Aimed /\ Writing /\ Agreed /\ world.calm /\ world.faults = 0 /\ ~done
  BY DEF Base, TreeInv, Fine
<1>1. /\ TypeOK'
      /\ p \in Pids /\ Alive(p) /\ handle[p].addr = proc[p].addr
      /\ OtherCalls(t) /\ call'[t].pc = call[t].pc /\ call'[t].clock = call[t].clock
      /\ call'[t].todo = call[t].todo \ {p} /\ call'[t].half = call[t].half \union {p} /\ call'[t].dead = call[t].dead
      /\ Others(p) /\ proc'[p].clock = call[t].clock
      /\ proc'[p].addr = proc[p].addr /\ proc'[p].st = proc[p].st /\ proc'[p].ev = proc[p].ev
      /\ proc'[p].kid = proc[p].kid /\ proc'[p].traced = proc[p].traced
      /\ UNCHANGED <<world, handle, children, pending, gone, loopErr, done, loop, mapped, used, want, slain>>
  BY <1>0, WriteOkStep
<1>2. call[t].pc = "apply" /\ \A u \in Callers : u # t => call[u].pc = "idle"
  BY <1>0, <1>1 DEF CalmInv, CallInv
<1>3. Patched'
  BY <1>0, <1>1 DEF Patched, Alive, Others
<1>4. Aimed'
  BY <1>0, <1>1, <1>2, Typed DEF Aimed, OtherCalls, Alive, Others
<1>5. Writing'
  BY <1>0, <1>1, <1>2 DEF Writing, Written, OtherCalls, Tracked, Alive, Others
<1>6. Agreed'
  BY <1>1, <1>2 DEF Agreed
<1> QED
  BY <1>3, <1>4, <1>5, <1>6 DEF TreeInv

LEMMA WriteErrTree ==
    ASSUME Base, TreeInv, Fine, NEW t \in Callers, NEW p \in call[t].todo, WriteErr(t, p)
    PROVE  TreeInv'
<1>0. /\ TypeOK /\ StopInv /\ LoopInv /\ AdoptInv /\ ForkInv /\ ReachInv
      /\ CallInv /\ OrphanInv /\ CalmInv /\ SwapInv /\ CloseInv
      /\ Patched /\ Aimed /\ Writing /\ Agreed /\ world.calm /\ world.faults = 0 /\ ~done
  BY DEF Base, TreeInv, Fine
<1>1. /\ TypeOK'
      /\ p \in Pids /\ ~(Alive(p) /\ handle[p].addr = proc[p].addr)
      /\ OtherCalls(t) /\ call'[t].pc = call[t].pc /\ call'[t].clock = call[t].clock
      /\ call'[t].todo = call[t].todo \ {p} /\ call'[t].half = call[t].half
      /\ call'[t].dead = (IF Alive(p) THEN call[t].dead ELSE call[t].dead \union {p})
      /\ UNCHANGED <<world, proc, handle, children, pending, gone, loopErr, done, loop, mapped, used, want, slain>>
  BY <1>0, WriteErrStep
<1>2. call[t].pc = "apply" /\ \A u \in Callers : u # t => call[u].pc = "idle"
  BY <1>0, <1>1 DEF CalmInv, CallInv
<1>3. p \in Tracked => ~Alive(p)
  BY <1>0, <1>1, <1>2 DEF CalmInv, Patched, StopInv, ReachInv, Busy
<1>4. Patched'
  BY <1>0, <1>1 DEF Patched, Alive
<1>5. Aimed'
  BY <1>0, <1>1, <1>2 DEF Aimed, OtherCalls, Alive
<1>6. Writing'
  BY <1>0, <1>1, <1>2, <1>3 DEF Writing, Written, OtherCalls, Tracked, Alive
<1>7. Agreed'
  BY <1>1, <1>2 DEF Agreed
<1> QED
  BY <1>4, <1>5, <1>6, <1>7 DEF TreeInv

LEMMA WriteNoteTree ==
    ASSUME Base, TreeInv, Fine, NEW t \in Callers, NEW p \in call[t].half, WriteNote(t, p)
    PROVE  TreeInv'
<1>0. /\ TypeOK /\ StopInv /\ LoopInv /\ AdoptInv /\ ForkInv /\ ReachInv
      /\ CallInv /\ OrphanInv /\ CalmInv /\ SwapInv /\ CloseInv
      /\ Patched /\ Aimed /\ Writing /\ Agreed /\ world.calm /\ world.faults = 0 /\ ~done
  BY DEF Base, TreeInv, Fine
<1>1. /\ TypeOK'
      /\ p \in Pids
      /\ OtherCalls(t) /\ call'[t].pc = call[t].pc /\ call'[t].clock = call[t].clock
      /\ call'[t].todo = call[t].todo /\ call'[t].half = call[t].half \ {p} /\ call'[t].dead = call[t].dead
      /\ handle'[p].addr = handle[p].addr /\ handle'[p].clock = call[t].clock
      /\ \A q \in Pids : q # p => handle'[q] = handle[q]
      /\ UNCHANGED <<world, proc, children, pending, gone, loopErr, done, loop, mapped, used, want, slain>>
  BY <1>0, WriteNoteStep
<1>2. call[t].pc = "apply" /\ \A u \in Callers : u # t => call[u].pc = "idle"
  BY <1>0, <1>1 DEF CalmInv, CallInv
<1>3. Patched'
  BY <1>0, <1>1 DEF Patched, Alive
<1>4. Aimed'
  BY <1>0, <1>1, <1>2 DEF Aimed, OtherCalls, Alive
<1>5. Writing'
  BY <1>0, <1>1, <1>2 DEF Writing, Written, OtherCalls, Tracked, Alive
<1>6. Agreed'
  BY <1>1, <1>2 DEF Agreed
<1> QED
  BY <1>3, <1>4, <1>5, <1>6 DEF TreeInv

LEMMA CallEndTree ==
    ASSUME Base, TreeInv, Fine, NEW t \in Callers, CallEnd(t)
    PROVE  TreeInv'
<1>0. /\ TypeOK /\ StopInv /\ LoopInv /\ AdoptInv /\ ForkInv /\ ReachInv
      /\ CallInv /\ OrphanInv /\ CalmInv /\ SwapInv /\ CloseInv
      /\ Patched /\ Aimed /\ Writing /\ Agreed /\ world.calm /\ world.faults = 0 /\ ~done
  BY DEF Base, TreeInv, Fine
<1>1. /\ TypeOK'
      /\ call[t].pc = "apply" /\ call[t].todo = {} /\ call[t].half = {}
      /\ OtherCalls(t) /\ call'[t].pc = "idle" /\ call'[t].todo = {} /\ call'[t].half = {} /\ call'[t].dead = {}
      /\ children' = (IF world.prunes THEN children \ (call[t].dead \ {Parent}) ELSE children)
      /\ UNCHANGED <<world, proc, handle, pending, gone, loopErr, done, loop, mapped, used, want, slain>>
  BY <1>0, CallEndStep
<1>2. /\ \A u \in Callers : u # t => call[u].pc = "idle"
      /\ ~Busy /\ \A p \in Pids : proc[p].st \notin {"stop", "held"}
  BY <1>0, <1>1 DEF CalmInv
<1>3. \A p \in Pids : Alive(p) => p \in Tracked
  BY <1>0, <1>2 DEF StopInv
<1>4. \A p \in Pids : Alive(p) => proc[p].clock = call[t].clock /\ handle[p].clock = call[t].clock
  BY <1>0, <1>1, <1>3 DEF Writing, Written
<1>5. children' \subseteq children
  BY <1>1
<1>6. Patched'
  BY <1>0, <1>1 DEF Patched, Alive
<1>7. Aimed'
  BY <1>1, <1>2 DEF Aimed, OtherCalls
<1>8. Writing'
  BY <1>1, <1>2 DEF Writing, OtherCalls
<1>9. call[t].clock \in Clock
  BY <1>0, Typed DEF Caller
<1>10. \A k \in Clock : k = call[t].clock => OneClock(k)'
  BY <1>1, <1>2, <1>4, <1>5 DEF OneClock, Alive, Tracked, Busy
<1>11. (Alive(Parent))' => call[t].clock = want'
  BY <1>0, <1>1 DEF Aimed, Alive
<1>12. Agreed'
  BY <1>1, <1>9, <1>10, <1>11 DEF Agreed
<1> QED
  BY <1>6, <1>7, <1>8, <1>12 DEF TreeInv

LEMMA CloseTree ==
    ASSUME Base, TreeInv, Fine, NEW t \in Callers, Close(t)
    PROVE  TreeInv'
<1>0. /\ TypeOK /\ StopInv /\ LoopInv /\ AdoptInv /\ ForkInv /\ ReachInv
      /\ CallInv /\ OrphanInv /\ CalmInv /\ SwapInv /\ CloseInv
      /\ Patched /\ Aimed /\ Writing /\ Agreed /\ world.calm /\ world.faults = 0 /\ ~done
  BY DEF Base, TreeInv, Fine
<1>1. /\ TypeOK'
      /\ call[t].pc = "idle" /\ ~done /\ done' = TRUE
      /\ world.calm => CaughtUp /\ \A u \in Callers : call[u].pc = "idle"
      /\ OtherCalls(t) /\ call'[t].pc = "closing" /\ call'[t].clock = call[t].clock
      /\ call'[t].todo = call[t].todo /\ call'[t].half = call[t].half /\ call'[t].dead = call[t].dead
      /\ UNCHANGED <<world, proc, handle, children, pending, gone, loopErr, loop, mapped, used, want, slain>>
  BY <1>0, CloseStep
<1> QED
  BY <1>1 DEF TreeInv, Fine

LEMMA CloseEndTree ==
    ASSUME Base, TreeInv, Fine, NEW t \in Callers, CloseEnd(t)
    PROVE  TreeInv'
<1>0. /\ TypeOK /\ StopInv /\ LoopInv /\ AdoptInv /\ ForkInv /\ ReachInv
      /\ CallInv /\ OrphanInv /\ CalmInv /\ SwapInv /\ CloseInv
      /\ Patched /\ Aimed /\ Writing /\ Agreed /\ world.calm /\ world.faults = 0 /\ ~done
  BY DEF Base, TreeInv, Fine
<1>1. /\ TypeOK'
      /\ call[t].pc = "closing" /\ loop.pc = "ended"
      /\ OtherCalls(t) /\ call'[t].pc = "idle" /\ call'[t].todo = {} /\ call'[t].half = {} /\ call'[t].dead = {}
      /\ UNCHANGED <<world, proc, handle, children, pending, gone, loopErr, done, loop, mapped, used, want, slain>>
  BY <1>0, CloseEndStep
<1> QED
  BY <1>0, <1>1 DEF CalmInv, Closing

(***************************************************************************)
(* The invariants hold.                                                    *)
(***************************************************************************)
LEMMA InitFacts ==
    ASSUME Init
    PROVE  /\ TypeOK
           /\ world \in Worlds /\ want \in world.clocks /\ want \in Clock
           /\ \A p \in Pids : p # Parent => proc[p] = NoProcess /\ handle[p].addr = 0
           /\ proc[Parent].st = "run" /\ proc[Parent].ev = "none" /\ proc[Parent].addr = 1 /\ proc[Parent].clock = want
           /\ handle[Parent].addr = 1 /\ handle[Parent].clock = want
           /\ children = {} /\ gone = FALSE /\ done = FALSE
           /\ loop.pc = "top" /\ loop.todo = {} /\ loop.pid = Parent
           /\ \A t \in Callers : call[t] = Idle
<1>1. world \in Worlds /\ world \in World /\ Parent \in Pids
  BY TreeAssumption DEF Init
<1>2. world.clocks \subseteq Clock
  BY <1>1 DEF World
<1>3. PICK k \in world.clocks :
        /\ proc = [p \in Pids |-> IF p = Parent
                     THEN [NoProcess EXCEPT !.st = "run", !.addr = 1, !.clock = k, !.traced = TRUE]
                     ELSE NoProcess]
        /\ want = k
        /\ handle = [p \in Pids |-> [addr |-> IF p = Parent THEN 1 ELSE 0,
                                     clock |-> IF p = Parent THEN k ELSE Real]]
  BY DEF Init
<1>4. k \in Clock /\ want = k
  BY <1>2, <1>3
<1> DEFINE x == [NoProcess EXCEPT !.st = "run", !.addr = 1, !.clock = k, !.traced = TRUE]
<1>5. x \in Process /\ x.st = "run" /\ x.ev = "none" /\ x.addr = 1 /\ x.clock = k
  BY <1>4, NoneFacts DEF NoProcess, Process
<1>6. proc = [p \in Pids |-> IF p = Parent THEN x ELSE NoProcess]
  BY <1>3
<1> HIDE DEF x
<1>7. /\ proc \in [Pids -> Process] /\ proc[Parent] = x
      /\ \A p \in Pids : p # Parent => proc[p] = NoProcess
  BY <1>1, <1>5, <1>6, NoneFacts
<1>8. /\ handle \in [Pids -> Handle] /\ handle[Parent].addr = 1 /\ handle[Parent].clock = k
      /\ \A p \in Pids : p # Parent => handle[p].addr = 0
  BY <1>1, <1>3, <1>4, NoneFacts DEF Handle
<1>9. loop \in Loop /\ loop.pc = "top" /\ loop.todo = {} /\ loop.pid = Parent
  BY <1>1, NoneFacts DEF Init, Loop, Handle
<1>10. call \in [Callers -> Caller] /\ \A t \in Callers : call[t] = Idle
  BY IdleFacts DEF Init
<1>11. /\ children = {} /\ pending = {} /\ gone = FALSE /\ done = FALSE /\ loopErr = "none" /\ mapped = 1 /\ slain = {}
       /\ used \in [calls : Nat, execs : Nat, signals : Nat, faults : Nat]
  BY DEF Init
<1> QED
  BY <1>1, <1>3, <1>4, <1>5, <1>7, <1>8, <1>9, <1>10, <1>11 DEF TypeOK

LEMMA InitBase ==
    ASSUME Init
    PROVE  Base /\ TreeInv
<1>1. /\ TypeOK /\ Parent \in Pids
      /\ want \in Clock
      /\ \A p \in Pids : p # Parent => proc[p].st = "none" /\ proc[p].ev = "none" /\ proc[p].addr = 0 /\ proc[p].clock = Real
      /\ \A p \in Pids : p # Parent => handle[p].addr = 0
      /\ proc[Parent].st = "run" /\ proc[Parent].ev = "none" /\ proc[Parent].addr = 1 /\ proc[Parent].clock = want
      /\ handle[Parent].addr = 1 /\ handle[Parent].clock = want
      /\ children = {} /\ gone = FALSE /\ done = FALSE
      /\ loop.pc = "top" /\ loop.todo = {} /\ loop.pid = Parent
      /\ \A t \in Callers : call[t].pc = "idle" /\ call[t].todo = {} /\ call[t].half = {} /\ call[t].dead = {}
  BY InitFacts, IdleFacts, TreeAssumption DEF NoProcess
<1>2. StopInv /\ LoopInv /\ AdoptInv /\ ForkInv
  BY <1>1 DEF StopInv, LoopInv, AdoptInv, ForkInv, Alive, Tracked, Busy
<1>3. ReachInv /\ CallInv /\ OrphanInv
  BY <1>1 DEF ReachInv, CallInv, OrphanInv, Alive, Tracked
<1>4. CalmInv /\ SwapInv /\ CloseInv
  BY <1>1 DEF CalmInv, SwapInv, CloseInv, Closing, Busy
<1>5. Patched /\ Aimed /\ Writing
  BY <1>1 DEF Patched, Aimed, Writing, Alive
<1>6. OneClock(want)
  BY <1>1 DEF OneClock, Alive, Tracked
<1>7. Agreed
  BY <1>1, <1>6 DEF Agreed
<1> QED
  BY <1>1, <1>2, <1>3, <1>4, <1>5, <1>7 DEF Base, TreeInv

SameAll == UNCHANGED <<world, proc, handle, children, gone, done, loop, call, want, slain>>

LEMMA StepBase ==
    ASSUME Base, [Next]_vars
    PROVE  Base'
<1>1. CASE UNCHANGED vars
  <2>1. TypeOK'
    BY <1>1 DEF Base, TypeOK, vars, trkVars
  <2>2. SameAll
    BY <1>1 DEF SameAll, vars, trkVars
  <2>3. StopInv' /\ LoopInv' /\ AdoptInv' /\ ForkInv' /\ ReachInv' /\ OrphanInv' /\ SwapInv'
    BY <2>2, SameTree DEF Base, SameAll
  <2>4. CallInv'
    BY <2>2 DEF Base, CallInv, Dead, SameAll
  <2>5. CalmInv'
    BY <2>2 DEF Base, CalmInv, Closing, Busy, SameAll
  <2>6. CloseInv'
    BY <2>2 DEF Base, CloseInv, Closing, Alive, Tracked, SameAll
  <2> QED
    BY <2>1, <2>3, <2>4, <2>5, <2>6 DEF Base
<1>2. ASSUME NEW p \in Pids, NEW c \in Pids, Fork(p, c)
      PROVE  Base'
  BY <1>2, ForkKeeps
<1>3. ASSUME NEW p \in Pids, Exec(p)
      PROVE  Base'
  BY <1>3, ExecKeeps
<1>4. ASSUME NEW p \in Pids, Signal(p)
      PROVE  Base'
  BY <1>4, SignalKeeps
<1>5. ASSUME NEW p \in Pids, Exit(p)
      PROVE  Base'
  BY <1>5, ExitKeeps
<1>6. CASE LoopTop
  BY <1>6, LoopTopKeeps
<1>7. CASE LoopNext
  BY <1>7, LoopNextKeeps
<1>8. ASSUME NEW p \in loop.todo, PollNone(p)
      PROVE  Base'
  BY <1>8, PollNoneKeeps
<1>9. ASSUME NEW p \in loop.todo, PollExit(p)
      PROVE  Base'
  BY <1>9, PollExitKeeps
<1>10. ASSUME NEW p \in loop.todo, PollStop(p)
       PROVE  Base'
  BY <1>10, PollStopKeeps
<1>11. CASE LoopFork
  BY <1>11, LoopForkKeeps
<1>12. CASE LoopAdopt
  BY <1>12, LoopAdoptKeeps
<1>13. CASE LoopOther
  BY <1>13, LoopOtherKeeps
<1>14. CASE LoopExec
  BY <1>14, LoopExecKeeps
<1>15. CASE ReinjectOk
  BY <1>15, ReinjectOkKeeps
<1>16. CASE ReinjectErr
  BY <1>16, ReinjectErrKeeps
<1>17. CASE LoopSwap
  BY <1>17, LoopSwapKeeps
<1>18. ASSUME NEW p \in loop.todo, CleanReset(p)
       PROVE  Base'
  BY <1>18, CleanResetKeeps
<1>19. CASE CleanList
  BY <1>19, CleanListKeeps
<1>20. ASSUME NEW p \in loop.todo, CleanDetach(p)
       PROVE  Base'
  BY <1>20, CleanDetachKeeps
<1>21. CASE CleanRelease
  BY <1>21, CleanReleaseKeeps
<1>22. ASSUME NEW t \in Callers, NEW k \in world.clocks, CallSet(t, k)
       PROVE  Base'
  BY <1>22, CallSetKeeps
<1>23. ASSUME NEW t \in Callers, NEW d \in Deltas, CallAdvance(t, d)
       PROVE  Base'
  BY <1>23, CallAdvanceKeeps
<1>24. ASSUME NEW t \in Callers, CallSnapshot(t)
       PROVE  Base'
  BY <1>24, CallSnapshotKeeps
<1>25. ASSUME NEW t \in Callers, NEW p \in call[t].todo, WriteOk(t, p)
       PROVE  Base'
  BY <1>25, WriteOkKeeps
<1>26. ASSUME NEW t \in Callers, NEW p \in call[t].todo, WriteErr(t, p)
       PROVE  Base'
  BY <1>26, WriteErrKeeps
<1>27. ASSUME NEW t \in Callers, NEW p \in call[t].half, WriteNote(t, p)
       PROVE  Base'
  BY <1>27, WriteNoteKeeps
<1>28. ASSUME NEW t \in Callers, CallEnd(t)
       PROVE  Base'
  BY <1>28, CallEndKeeps
<1>29. ASSUME NEW t \in Callers, Close(t)
       PROVE  Base'
  BY <1>29, CloseKeeps
<1>30. ASSUME NEW t \in Callers, CloseEnd(t)
       PROVE  Base'
  BY <1>30, CloseEndKeeps
<1> QED
  BY <1>1, <1>2, <1>3, <1>4, <1>5, <1>6, <1>7, <1>8, <1>9, <1>10, <1>11, <1>12, <1>13, <1>14, <1>15, <1>16, <1>17, <1>18, <1>19, <1>20, <1>21, <1>22, <1>23, <1>24, <1>25, <1>26, <1>27, <1>28, <1>29, <1>30 DEF Next, System, WatchLoop, Begin, Proceed

LEMMA SameWorld ==
    ASSUME [Next]_vars
    PROVE  world' = world /\ (done => done')
<1>1. UNCHANGED vars => world' = world /\ (done => done')
  BY DEF vars, trkVars
<1>2. ASSUME System PROVE world' = world /\ (done => done')
  BY <1>2 DEF System, Fork, Exec, Signal, Exit, trkVars
<1>3. ASSUME WatchLoop PROVE world' = world /\ (done => done')
  <2>1. LoopTop => world' = world /\ (done => done')
    BY DEF LoopTop, trkVars
  <2>2. LoopNext => world' = world /\ (done => done')
    BY DEF LoopNext, trkVars
  <2>3. LoopFork => world' = world /\ (done => done')
    BY DEF LoopFork, trkVars
  <2>4. LoopAdopt => world' = world /\ (done => done')
    BY DEF LoopAdopt, trkVars
  <2>5. LoopOther => world' = world /\ (done => done')
    BY DEF LoopOther, trkVars
  <2>6. LoopExec => world' = world /\ (done => done')
    BY DEF LoopExec, trkVars
  <2>7. ReinjectOk => world' = world /\ (done => done')
    BY DEF ReinjectOk, trkVars
  <2>8. ReinjectErr => world' = world /\ (done => done')
    BY DEF ReinjectErr, trkVars
  <2>9. LoopSwap => world' = world /\ (done => done')
    BY DEF LoopSwap, trkVars
  <2>10. CleanList => world' = world /\ (done => done')
    BY DEF CleanList, trkVars
  <2>11. CleanRelease => world' = world /\ (done => done')
    BY DEF CleanRelease, trkVars
  <2>12. \A p : PollNone(p) => world' = world /\ (done => done')
    BY DEF PollNone, trkVars
  <2>13. \A p : PollExit(p) => world' = world /\ (done => done')
    BY DEF PollExit, trkVars
  <2>14. \A p : PollStop(p) => world' = world /\ (done => done')
    BY DEF PollStop, trkVars
  <2>15. \A p : CleanReset(p) => world' = world /\ (done => done')
    BY DEF CleanReset, trkVars
  <2>16. \A p : CleanDetach(p) => world' = world /\ (done => done')
    BY DEF CleanDetach, trkVars
  <2> QED
    BY <1>3, <2>1, <2>2, <2>3, <2>4, <2>5, <2>6, <2>7, <2>8, <2>9, <2>10, <2>11, <2>12, <2>13, <2>14, <2>15, <2>16 DEF WatchLoop
<1>4. ASSUME NEW t \in Callers, Begin(t) \/ Proceed(t) PROVE world' = world /\ (done => done')
  <2>1. \A k : CallSet(t, k) => world' = world /\ (done => done')
    BY DEF CallSet, trkVars
  <2>2. \A d : CallAdvance(t, d) => world' = world /\ (done => done')
    BY DEF CallAdvance, trkVars
  <2>3. Close(t) => world' = world /\ (done => done')
    BY DEF Close, trkVars
  <2>4. CallSnapshot(t) => world' = world /\ (done => done')
    BY DEF CallSnapshot, trkVars
  <2>5. \A p : WriteOk(t, p) => world' = world /\ (done => done')
    BY DEF WriteOk, trkVars
  <2>6. \A p : WriteErr(t, p) => world' = world /\ (done => done')
    BY DEF WriteErr, trkVars
  <2>7. \A p : WriteNote(t, p) => world' = world /\ (done => done')
    BY DEF WriteNote, trkVars
  <2>8. CallEnd(t) => world' = world /\ (done => done')
    BY DEF CallEnd, trkVars
  <2>9. CloseEnd(t) => world' = world /\ (done => done')
    BY DEF CloseEnd, trkVars
  <2> QED
    BY <1>4, <2>1, <2>2, <2>3, <2>4, <2>5, <2>6, <2>7, <2>8, <2>9 DEF Begin, Proceed
<1> QED
  BY <1>1, <1>2, <1>3, <1>4 DEF Next

LEMMA StepFine ==
    ASSUME Base, TreeInv, Fine, [Next]_vars
    PROVE  TreeInv'
<1>1. CASE UNCHANGED vars
  <2>1. SameAll
    BY <1>1 DEF SameAll, vars, trkVars
  <2>2. Patched' /\ Aimed' /\ Writing'
    BY <2>1 DEF TreeInv, Patched, Aimed, Writing, Written, Alive, Tracked, SameAll
  <2>3. Agreed'
    BY <2>1 DEF TreeInv, Agreed, OneClock, Alive, Tracked, SameAll
  <2> QED
    BY <2>2, <2>3 DEF TreeInv
<1>2. ASSUME NEW p \in Pids, NEW c \in Pids, Fork(p, c)
      PROVE  TreeInv'
  BY <1>2, ForkTree
<1>3. ASSUME NEW p \in Pids, Exec(p)
      PROVE  TreeInv'
  BY <1>3, ExecTree
<1>4. ASSUME NEW p \in Pids, Signal(p)
      PROVE  TreeInv'
  BY <1>4, SignalTree
<1>5. ASSUME NEW p \in Pids, Exit(p)
      PROVE  TreeInv'
  BY <1>5, ExitTree
<1>6. CASE LoopTop
  BY <1>6, LoopTopTree
<1>7. CASE LoopNext
  BY <1>7, LoopNextTree
<1>8. ASSUME NEW p \in loop.todo, PollNone(p)
      PROVE  TreeInv'
  BY <1>8, PollNoneTree
<1>9. ASSUME NEW p \in loop.todo, PollExit(p)
      PROVE  TreeInv'
  BY <1>9, PollExitTree
<1>10. ASSUME NEW p \in loop.todo, PollStop(p)
       PROVE  TreeInv'
  BY <1>10, PollStopTree
<1>11. CASE LoopFork
  BY <1>11, LoopForkTree
<1>12. CASE LoopAdopt
  BY <1>12, LoopAdoptTree
<1>13. CASE LoopOther
  BY <1>13, LoopOtherTree
<1>14. CASE LoopExec
  BY <1>14, LoopExecTree
<1>15. CASE ReinjectOk
  BY <1>15, ReinjectOkTree
<1>16. CASE ReinjectErr
  BY <1>16, ReinjectErrTree
<1>17. CASE LoopSwap
  BY <1>17, LoopSwapTree
<1>18. ASSUME NEW p \in loop.todo, CleanReset(p)
       PROVE  TreeInv'
  BY <1>18, CleanResetTree
<1>19. CASE CleanList
  BY <1>19, CleanListTree
<1>20. ASSUME NEW p \in loop.todo, CleanDetach(p)
       PROVE  TreeInv'
  BY <1>20, CleanDetachTree
<1>21. CASE CleanRelease
  BY <1>21, CleanReleaseTree
<1>22. ASSUME NEW t \in Callers, NEW k \in world.clocks, CallSet(t, k)
       PROVE  TreeInv'
  BY <1>22, CallSetTree
<1>23. ASSUME NEW t \in Callers, NEW d \in Deltas, CallAdvance(t, d)
       PROVE  TreeInv'
  BY <1>23, CallAdvanceTree
<1>24. ASSUME NEW t \in Callers, CallSnapshot(t)
       PROVE  TreeInv'
  BY <1>24, CallSnapshotTree
<1>25. ASSUME NEW t \in Callers, NEW p \in call[t].todo, WriteOk(t, p)
       PROVE  TreeInv'
  BY <1>25, WriteOkTree
<1>26. ASSUME NEW t \in Callers, NEW p \in call[t].todo, WriteErr(t, p)
       PROVE  TreeInv'
  BY <1>26, WriteErrTree
<1>27. ASSUME NEW t \in Callers, NEW p \in call[t].half, WriteNote(t, p)
       PROVE  TreeInv'
  BY <1>27, WriteNoteTree
<1>28. ASSUME NEW t \in Callers, CallEnd(t)
       PROVE  TreeInv'
  BY <1>28, CallEndTree
<1>29. ASSUME NEW t \in Callers, Close(t)
       PROVE  TreeInv'
  BY <1>29, CloseTree
<1>30. ASSUME NEW t \in Callers, CloseEnd(t)
       PROVE  TreeInv'
  BY <1>30, CloseEndTree
<1> QED
  BY <1>1, <1>2, <1>3, <1>4, <1>5, <1>6, <1>7, <1>8, <1>9, <1>10, <1>11, <1>12, <1>13, <1>14, <1>15, <1>16, <1>17, <1>18, <1>19, <1>20, <1>21, <1>22, <1>23, <1>24, <1>25, <1>26, <1>27, <1>28, <1>29, <1>30 DEF Next, System, WatchLoop, Begin, Proceed

LEMMA StepTree ==
    ASSUME Base, TreeInv, [Next]_vars
    PROVE  TreeInv'
<1>0. CASE ~Fine
  <2>1. world' = world /\ (done => done')
    BY SameWorld
  <2> QED
    BY <1>0, <2>1 DEF TreeInv, Fine
<1> QED
  BY <1>0, StepFine

LEMMA Invariants == Spec => [](Base /\ TreeInv)
<1>1. Init => Base /\ TreeInv
  BY InitBase
<1>2. Base /\ TreeInv /\ [Next]_vars => (Base /\ TreeInv)'
  BY StepBase, StepTree
<1> QED
  BY <1>1, <1>2, PTL DEF Spec

(***************************************************************************)
(* Theorems.                                                               *)
(***************************************************************************)
\* The tracker, the processes and the callers keep the types of newChildTracker's
\* structures: in particular no process id outside the tree enters c.children.
THEOREM TypeCorrect == Spec => []TypeOK
  BY Invariants, PTL DEF Base

\* HandleReaches: SetTime, Freeze and Reset on a tracked process write to the page
\* its vDSO jumps to, whatever forks, execs, kills and failed re-injections came
\* before and whatever the loop and the other callers are doing.
THEOREM HandleReachesHolds == Spec => []HandleReaches
<1>1. Base => HandleReaches
  <2> SUFFICES ASSUME Base PROVE HandleReaches
    OBVIOUS
  <2> QED
    BY Typed DEF Base, HandleReaches, Faked, Tracked, Alive, LoopInv, ReachInv, Busy
<1> QED
  BY <1>1, Invariants, PTL

\* SwapFindsChild: handleExec never dereferences a nil Handle, as long as nobody
\* but the loop drops children from c.children while an exec is handled: either
\* calls go through Session.applyAll, or they are made between the events of the tree.
THEOREM SwapFindsChildHolds ==
    ASSUME \A w \in Worlds : w.prunes => w.calm
    PROVE  Spec => []SwapFindsChild
<1>1. Base => SwapFindsChild
  BY DEF Base, TypeOK, SwapInv, SwapFindsChild
<1> QED
  BY <1>1, Invariants, PTL

\* NoOrphan: until Close, a traced process that the loop will never hear of is one
\* whose forker was killed in the stop that reports the fork.
THEOREM NoOrphanHolds == Spec => []NoOrphan
<1>1. Base => NoOrphan
  <2>1. SUFFICES ASSUME Base, ~done, NEW p \in Pids, Orphan(p), Alive(p)
                 PROVE  p \in slain
    BY DEF NoOrphan
  <2>2. TypeOK /\ StopInv /\ ReachInv /\ OrphanInv
    BY <2>1 DEF Base
  <2>3. handle[p].addr = 0 /\ p # Parent /\ proc[p].st # "none"
    BY <2>1, <2>2, Typed DEF Orphan, NoHandle, ReachInv, Tracked, Alive
  <2>4. ~(loop.pc = "adopt" /\ loop.kid = p)
    BY <2>1 DEF Orphan
  <2>5. ~ \E q \in Pids : proc[q].ev = "fork" /\ proc[q].kid = p
    BY <2>1, <2>2 DEF Orphan, StopInv
  <2> QED
    BY <2>1, <2>2, <2>3, <2>4, <2>5 DEF OrphanInv
<1> QED
  BY <1>1, Invariants, PTL

\* ReleasedByClose: when the loop has ended and Close is about to return in a calm
\* world, every process runs untraced and every child is back on the real clock.
THEOREM ReleasedByCloseHolds == Spec => []ReleasedByClose
<1>1. Base => ReleasedByClose
  <2>1. SUFFICES ASSUME Base, world.calm, loop.pc = "ended", Closing, NEW p \in Pids, Alive(p)
                 PROVE  proc[p].st = "run" /\ ~proc[p].traced /\ (p # Parent => proc[p].clock = Real)
    BY DEF ReleasedByClose, Closing
  <2>2. TypeOK /\ StopInv /\ CalmInv /\ CloseInv
    BY <2>1 DEF Base
  <2>3. proc[p].st \notin {"stop", "held", "jobstop"}
    BY <2>1, <2>2 DEF CalmInv, Closing
  <2>4. proc[p].st = "run"
    BY <2>1, <2>2, <2>3, Typed DEF Alive, Process
  <2>5. p \in Tracked
    BY <2>1, <2>2, <2>3 DEF StopInv
  <2>6. ~proc[p].traced /\ (p # Parent => proc[p].clock = Real)
    BY <2>1, <2>2, <2>5 DEF CloseInv, Tracked
  <2> QED
    BY <2>4, <2>6
<1> QED
  BY <1>1, Invariants, PTL

\* TreeAgrees: in a calm world where re-injections succeed, all processes of the
\* tree see one clock between the calls, each Handle knows it, and while the
\* parent lives it is the clock the calls add up to.
THEOREM TreeAgreesHolds ==
    ASSUME \A w \in Worlds : w.calm => w.faults = 0
    PROVE  Spec => []TreeAgrees
<1>1. Base /\ TreeInv => TreeAgrees
  <2>1. SUFFICES ASSUME Base, TreeInv, Quiet PROVE TreeAgrees
    BY DEF TreeAgrees
  <2>2. TypeOK /\ Fine /\ \A t \in Callers : call[t].pc = "idle"
    BY <2>1 DEF Base, TypeOK, Quiet, Fine
  <2>3. PICK k \in Clock : OneClock(k) /\ (Alive(Parent) => k = want \/ \E t \in Callers : call[t].pc = "read")
    BY <2>1, <2>2 DEF TreeInv, Agreed
  <2>4. \A p \in Faked : p \in Pids /\ p \in Tracked /\ Alive(p) /\ proc[p].addr # 0
    BY <2>2, Typed DEF Faked, Tracked, Alive
  <2>5. \A p \in Faked : proc[p].clock = k /\ handle[p].clock = k
    BY <2>3, <2>4 DEF OneClock
  <2>6. Alive(Parent) => k = want
    BY <2>2, <2>3
  <2> QED
    BY <2>5, <2>6 DEF TreeAgrees
<1> QED
  BY <1>1, Invariants, PTL

=============================================================================
