------------------------------ MODULE Session ------------------------------
(***************************************************************************)
(* Session of src/pkg/faketime: a group of processes that share one target *)
(* clock.  Start, Attach, SetTime, Freeze, Advance, Reset, Prune and Close *)
(* are called from any goroutine; s.mu is held only around the steps that  *)
(* touch the session's own fields, never around an injection or a write.   *)
(*                                                                         *)
(* A handle or a tracker is named by the pid it was made for; what a       *)
(* tracker does for the children of its process is in Tracker.tla.         *)
(***************************************************************************)
EXTENDS Integers, FiniteSets

CONSTANTS
    Pids,            \* processes; none is reused
    Existing,        \* those that run before they are attached to; the others are started
    FakeTimeFilter,  \* processes the session fakes at all
    TrackingFilter,  \* processes that get a ChildTracker
    Callers,         \* goroutines that use the session
    Ops,             \* what they call: "add", "set", "advance", "prune", "close"
    Clocks,          \* settings of SetTime, Freeze and Reset
    Deltas,          \* durations of Advance
    MaxAt,           \* bound: how far a clock is moved
    MaxCalls,        \* bound: calls other than Start and Attach
    CloseLast,       \* Close is called when no other call runs, and none follows
    MaxFaults        \* bound: injections and writes that fail on a living process

ASSUME FilterAssumption ==
    /\ Pids # {}
    /\ Existing \subseteq Pids
    /\ FakeTimeFilter \subseteq Pids
    /\ TrackingFilter \subseteq Pids
    /\ CloseLast \in BOOLEAN

Clock == [frozen : BOOLEAN, at : Int]
Real  == [frozen |-> FALSE, at |-> 0]

ASSUME CallAssumption ==
    /\ Ops \subseteq {"add", "set", "advance", "prune", "close"}
    /\ Clocks \subseteq Clock
    /\ Deltas \subseteq Int

VARIABLES
    proc,       \* state and clock of every process
    target,     \* offset, frozenAt and frozen of the session
    handles,    \* s.handles
    trackers,   \* s.trackers
    closed,     \* trackers whose done channel is closed
    panicked,   \* a channel was closed twice
    call,       \* local state of every caller
    added,      \* history: processes whose Start or Attach has returned a handle
    raced,      \* history: a Start or Attach overlapped an update, or two updates did
    partial,    \* history: the last update of the clock ended with an error
    used        \* how much of MaxCalls and MaxFaults is used up

vars == <<proc, target, handles, trackers, closed, panicked, call, added, raced, partial, used>>

(***************************************************************************)
(* Types.                                                                  *)
(***************************************************************************)
Process == [st : {"none", "run", "zombie", "gone"}, clock : Clock]

Caller == [pc : {"idle", "inject", "append", "read", "apply", "commit", "prune", "close", "done"},
           pid : Pids,
           clock : Clock,
           todo : SUBSET Pids,    \* handles still to be written, or trackers to be closed
           dead : SUBSET Pids,    \* ESRCH
           err : BOOLEAN]         \* any other error

Idle == [pc |-> "idle", pid |-> CHOOSE p \in Pids : TRUE, clock |-> Real, todo |-> {}, dead |-> {},
         err |-> FALSE]

TypeOK ==
    /\ proc \in [Pids -> Process]
    /\ target \in Clock
    /\ handles \subseteq Pids
    /\ trackers \subseteq Pids
    /\ closed \subseteq Pids
    /\ panicked \in BOOLEAN /\ raced \in BOOLEAN /\ partial \in BOOLEAN
    /\ call \in [Callers -> Caller]
    /\ added \subseteq Pids
    /\ used \in [calls : Nat, faults : Nat]

\* NewSession, in advancing mode.
Init ==
    /\ target \in {k \in Clocks : ~k.frozen}
    /\ proc = [p \in Pids |-> [st |-> IF p \in Existing THEN "run" ELSE "none", clock |-> Real]]
    /\ handles = {}
    /\ trackers = {}
    /\ closed = {}
    /\ panicked = FALSE
    /\ call = [t \in Callers |-> Idle]
    /\ added = {}
    /\ raced = FALSE
    /\ partial = FALSE
    /\ used = [calls |-> 0, faults |-> 0]

(***************************************************************************)
(* The processes.                                                          *)
(***************************************************************************)
\* A process exits; until it is reaped, kill(pid, 0) still finds it.
Exit(p) ==
    /\ proc[p].st = "run"
    /\ proc' = [proc EXCEPT ![p].st = "zombie"]
    /\ UNCHANGED <<target, handles, trackers, closed, panicked, call, added, raced, partial, used>>

\* By the tracker's loop, cmd.Wait or the process's own parent.
Reap(p) ==
    /\ proc[p].st = "zombie"
    /\ proc' = [proc EXCEPT ![p].st = "gone"]
    /\ UNCHANGED <<target, handles, trackers, closed, panicked, call, added, raced, partial, used>>

IsAlive(p) == proc[p].st \in {"run", "zombie"}

Fault == used.faults < MaxFaults /\ used' = [used EXCEPT !.faults = @ + 1]

\* A call that reads or changes the clock begins; does another one run?
Overlaps == raced' = (raced \/ \E u \in Callers : call[u].pc \in {"inject", "append", "read", "apply", "commit"})

(***************************************************************************)
(* Start and Attach.                                                       *)
(***************************************************************************)
\* A process is added by one caller; the target is read under the lock.
Add(t, p) ==
    /\ call[t].pc = "idle"
    /\ "add" \in Ops
    /\ p \notin added /\ \A u \in Callers : call[u].pc \in {"inject", "append"} => call[u].pid # p
    /\ proc[p].st = IF p \in Existing THEN "run" ELSE "none"
    /\ Overlaps
    /\ IF p \in FakeTimeFilter
       THEN /\ call' = [call EXCEPT ![t] = [Idle EXCEPT !.pc = "inject", !.pid = p, !.clock = target]]
            /\ UNCHANGED proc
       ELSE /\ proc' = [proc EXCEPT ![p].st = "run"]
            /\ UNCHANGED call
    /\ UNCHANGED <<target, handles, trackers, closed, panicked, added, partial, used>>

InjectOk(t) ==
    /\ call[t].pc = "inject"
    /\ proc[call[t].pid].st \in {"none", "run"}
    /\ proc' = [proc EXCEPT ![call[t].pid] = [st |-> "run", clock |-> call[t].clock]]
    /\ call' = [call EXCEPT ![t].pc = "append"]
    /\ UNCHANGED <<target, handles, trackers, closed, panicked, added, raced, partial, used>>

\* A command that could not be injected is killed and waited for.
InjectErr(t) ==
    /\ call[t].pc = "inject"
    /\ \/ proc[call[t].pid].st \in {"zombie", "gone"} /\ UNCHANGED used
       \/ proc[call[t].pid].st \in {"none", "run"} /\ Fault
    /\ proc' = IF call[t].pid \in Existing THEN proc ELSE [proc EXCEPT ![call[t].pid].st = "gone"]
    /\ call' = [call EXCEPT ![t] = Idle]
    /\ UNCHANGED <<target, handles, trackers, closed, panicked, added, raced, partial>>

AddHandle(t) ==
    /\ call[t].pc = "append"
    /\ handles' = handles \union {call[t].pid}
    /\ trackers' = trackers \union ({call[t].pid} \intersect TrackingFilter)
    /\ added' = added \union {call[t].pid}
    /\ call' = [call EXCEPT ![t] = Idle]
    /\ UNCHANGED <<proc, target, closed, panicked, raced, partial, used>>

(***************************************************************************)
(* SetTime, Freeze, Reset and Advance: applyAll.                           *)
(***************************************************************************)
Request(t, op) ==
    /\ call[t].pc = "idle"
    /\ op \in Ops
    /\ used.calls < MaxCalls
    /\ used' = [used EXCEPT !.calls = @ + 1]

Apply(k) == [Idle EXCEPT !.pc = "apply", !.clock = k, !.todo = handles]

SetTime(t, k) ==
    /\ Request(t, "set")
    /\ Overlaps
    /\ call' = [call EXCEPT ![t] = Apply(k)]
    /\ UNCHANGED <<proc, target, handles, trackers, closed, panicked, added, partial>>

\* The mode and the shifted target are read under the lock, applyAll locks again.
Advance(t, d) ==
    /\ Request(t, "advance")
    /\ Overlaps
    /\ target.at + d \in -MaxAt .. MaxAt
    /\ call' = [call EXCEPT ![t] = [Idle EXCEPT !.pc = "read", !.clock = [target EXCEPT !.at = @ + d]]]
    /\ UNCHANGED <<proc, target, handles, trackers, closed, panicked, added, partial>>

Snapshot(t) ==
    /\ call[t].pc = "read"
    /\ call' = [call EXCEPT ![t] = Apply(@.clock)]
    /\ UNCHANGED <<proc, target, handles, trackers, closed, panicked, added, raced, partial, used>>

WriteOk(t, p) ==
    /\ call[t].pc = "apply" /\ p \in call[t].todo
    /\ proc[p].st = "run"
    /\ proc' = [proc EXCEPT ![p].clock = call[t].clock]
    /\ call' = [call EXCEPT ![t].todo = @ \ {p}]
    /\ UNCHANGED <<target, handles, trackers, closed, panicked, added, raced, partial, used>>

\* ESRCH, or another error on a living process.
WriteErr(t, p) ==
    /\ call[t].pc = "apply" /\ p \in call[t].todo
    /\ \/ /\ proc[p].st # "run"
          /\ call' = [call EXCEPT ![t].todo = @ \ {p}, ![t].dead = @ \union {p}]
          /\ UNCHANGED used
       \/ /\ proc[p].st = "run"
          /\ Fault
          /\ call' = [call EXCEPT ![t].todo = @ \ {p}, ![t].err = TRUE]
    /\ UNCHANGED <<proc, target, handles, trackers, closed, panicked, added, raced, partial>>

\* Mutant: the session's clock moves although some process did not follow.
DropDeadHeedless(t) ==
    /\ call[t].pc = "apply" /\ call[t].todo = {}
    /\ handles' = handles \ call[t].dead
    /\ call' = [call EXCEPT ![t].pc = "commit", ![t].dead = {}, ![t].err = FALSE]
    /\ UNCHANGED <<proc, target, trackers, closed, panicked, added, raced, partial, used>>

\* wg.Wait, then the handles found dead leave the session as it is now.
DropDead(t) ==
    /\ call[t].pc = "apply" /\ call[t].todo = {}
    /\ handles' = handles \ call[t].dead
    /\ partial' = (partial \/ call[t].err)
    /\ call' = [call EXCEPT ![t] = IF @.err THEN Idle ELSE [@ EXCEPT !.pc = "commit", !.dead = {}]]
    /\ UNCHANGED <<proc, target, trackers, closed, panicked, added, raced, used>>

\* updateState, when no handle reported an error.
Commit(t) ==
    /\ call[t].pc = "commit"
    /\ target' = call[t].clock
    /\ partial' = FALSE
    /\ call' = [call EXCEPT ![t] = Idle]
    /\ UNCHANGED <<proc, handles, trackers, closed, panicked, added, raced, used>>

(***************************************************************************)
(* Prune and Close.                                                        *)
(***************************************************************************)
\* Mutant: the dead trackers are closed and stay in s.trackers.
PruneKeepsTrackers(t) ==
    /\ Request(t, "prune")
    /\ handles' = {p \in handles : IsAlive(p)}
    /\ call' = [call EXCEPT ![t] = [Idle EXCEPT !.pc = "prune",
                                               !.todo = {p \in trackers : ~IsAlive(p)}]]
    /\ UNCHANGED <<proc, target, trackers, closed, panicked, added, raced, partial>>

\* Mutant: only the handles of living trackers are kept.
PruneUntracked(t) ==
    /\ Request(t, "prune")
    /\ trackers' = {p \in trackers : IsAlive(p)}
    /\ handles' = handles \intersect trackers'
    /\ call' = [call EXCEPT ![t] = [Idle EXCEPT !.pc = "prune", !.todo = trackers \ trackers']]
    /\ UNCHANGED <<proc, target, closed, panicked, added, raced, partial>>

\* The dead leave the session under the lock; their trackers are closed after it.
Prune(t) ==
    /\ Request(t, "prune")
    /\ trackers' = {p \in trackers : IsAlive(p)}
    /\ handles' = {p \in handles : IsAlive(p)}
    /\ call' = [call EXCEPT ![t] = [Idle EXCEPT !.pc = "prune", !.todo = trackers \ trackers']]
    /\ UNCHANGED <<proc, target, closed, panicked, added, raced, partial>>

\* The last call of a goroutine.  s.trackers stays as it is.
Close(t) ==
    /\ Request(t, "close")
    /\ CloseLast => \A u \in Callers : call[u].pc = "idle"
    /\ call' = [call EXCEPT ![t] = [Idle EXCEPT !.pc = "close", !.todo = trackers]]
    /\ UNCHANGED <<proc, target, handles, trackers, closed, panicked, added, raced, partial>>

\* ChildTracker.Close: closing a closed channel panics.
CloseTracker(t, p) ==
    /\ call[t].pc \in {"prune", "close"} /\ p \in call[t].todo
    /\ panicked' = (panicked \/ p \in closed)
    /\ closed' = closed \union {p}
    /\ call' = [call EXCEPT ![t].todo = @ \ {p}]
    /\ UNCHANGED <<proc, target, handles, trackers, added, raced, partial, used>>

CloseDone(t) ==
    /\ call[t].pc \in {"prune", "close"} /\ call[t].todo = {}
    /\ call' = [call EXCEPT ![t] = IF @.pc = "prune" THEN Idle ELSE [Idle EXCEPT !.pc = "done"]]
    /\ UNCHANGED <<proc, target, handles, trackers, closed, panicked, added, raced, partial, used>>

(***************************************************************************)
(* The specification.                                                      *)
(***************************************************************************)
Begin(t) ==
    \/ \E p \in Pids : Add(t, p)
    \/ \E k \in Clocks : SetTime(t, k)
    \/ \E d \in Deltas : Advance(t, d)
    \/ Prune(t) \/ Close(t)

Proceed(t) ==
    \/ InjectOk(t) \/ InjectErr(t) \/ AddHandle(t)
    \/ Snapshot(t) \/ (\E p \in call[t].todo : WriteOk(t, p) \/ WriteErr(t, p))
    \/ DropDead(t) \/ Commit(t)
    \/ (\E p \in call[t].todo : CloseTracker(t, p)) \/ CloseDone(t)

Closing == CloseLast /\ \E t \in Callers : call[t].pc \in {"close", "done"}

Next ==
    \/ \E p \in Pids : Exit(p) \/ Reap(p)
    \/ \E t \in Callers : Proceed(t) \/ (~Closing /\ Begin(t))

Spec == Init /\ [][Next]_vars

(***************************************************************************)
(* Properties.                                                             *)
(***************************************************************************)
Quiet == \A t \in Callers : call[t].pc \in {"idle", "done"}

\* Every process of the session sees the session's clock, which is also what
\* EffectiveTime reports and what the next process is injected at, as long as
\* no Start, Attach or update overlaps another; Prune may overlap any of them.
\* After an update that failed for some processes, the next one that succeeds
\* restores it.
SessionAgrees ==
    Quiet /\ ~partial /\ ~raced => \A p \in handles : proc[p].st = "run" => proc[p].clock = target

\* However Start, SetTime and Prune overlap, a process that was added and
\* still runs stays in the session: nothing else can put it back.
LiveStay == \A p \in added : proc[p].st = "run" => p \in handles

\* However the calls of Prune follow or overlap each other, and when Close is
\* the last call, the done channel of a tracker is never closed twice, which
\* would panic.
ClosedOnce == ~panicked
============================================================================
