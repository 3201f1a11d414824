------------------------------ MODULE Tracker ------------------------------
(***************************************************************************)
(* ChildTracker of src/pkg/faketime: one watchLoop goroutine that follows  *)
(* a process tree with ptrace, building a handle for every forked child    *)
(* and re-injecting after every exec, while other goroutines call SetTime, *)
(* Freeze, Advance, Reset and Close.                                       *)
(*                                                                         *)
(* The kernel's side (processes, ptrace stops, zombies) is modelled from   *)
(* how the loop uses it: a stop or an exit is reported once, to the loop   *)
(* (nobody calls Wait on the parent meanwhile; Run.tla shows what happens  *)
(* when somebody does), and a stopped tracee stays stopped until it is     *)
(* continued or detached.  The Tracer's thread never ends, so nothing else *)
(* releases a tracee.                                                      *)
(***************************************************************************)
EXTENDS Integers, FiniteSets

CONSTANTS
    Pids,          \* process ids, numbers; none is reused
    Parent,        \* the process the tracker was started for
    Worlds,        \* how the tracker is used and what may happen to it, see World
    Callers,       \* goroutines that use the tracker
    Deltas,        \* durations of Advance
    MaxAt          \* bound: how far a clock is moved

Clock == [frozen : BOOLEAN, at : Int]
Real  == [frozen |-> FALSE, at |-> 0]

World ==
    [seized : BOOLEAN,        \* attached with PTRACE_SEIZE (Attach...) or PTRACE_TRACEME (Start...)
     prunes : BOOLEAN,        \* calls go through ChildTracker.applyAll, not Session.applyAll
     calm : BOOLEAN,          \* calls are made only while no process forks, execs or waits for the loop
     killStopped : BOOLEAN,   \* SIGKILL may hit a process that is in a ptrace stop
     ops : SUBSET {"set", "advance", "close"},   \* what is called
     clocks : SUBSET Clock,   \* settings of SetTime, Freeze and Reset
     calls : Nat,             \* bound: calls of SetTime, Freeze, Reset and Advance
     execs : Nat,             \* bound: execs of all processes together
     signals : Nat,           \* bound: signals sent to the processes
     faults : Nat]            \* bound: re-injections that fail

ASSUME TreeAssumption ==
    /\ Pids \subseteq Nat \ {0}
    /\ Parent \in Pids
    /\ Deltas \subseteq Int
    /\ \A w \in Worlds : w \in World

VARIABLES
    world,      \* one of Worlds
    proc,       \* the kernel's view of every process
    handle,     \* handle[p]: the Handle object built for process p
    children,   \* pids in c.children
    pending,    \* pids in c.pendingStop
    gone,       \* c.parentGone
    loopErr,    \* c.loopErr: the first error of the loop
    done,       \* c.done is closed
    loop,       \* local state of watchLoop
    call,       \* local state of every caller
    mapped,     \* trampoline pages mapped so far; a number names an address
    used,       \* how much of the world's bounds is used up
    want,       \* history: the clock that the calls made so far add up to
    slain       \* history: children whose forker was killed in the stop that reports them

history == <<want, slain>>
trkVars == <<handle, children, pending, gone, loopErr, done>>
vars == <<world, proc, trkVars, loop, call, mapped, used, want, slain>>

(***************************************************************************)
(* Types.                                                                  *)
(***************************************************************************)
Process ==
    [st : {"none",      \* not started
           "run",
           "stop",      \* ptrace-stopped, the status not collected yet
           "held",      \* ptrace-stopped, collected and not continued yet
           "jobstop",   \* stopped by a SIGSTOP that nobody takes back
           "zombie",    \* exited, the status not collected yet
           "gone"},
     ev : {"none", "fork", "exec", "init", "signal"},   \* why it stopped
     kid : Nat,          \* the process created by the fork reported
     addr : Nat,         \* the page its vDSO jumps to, 0 after an exec
     clock : Clock,      \* the state in that page
     traced : BOOLEAN]

NoProcess == [st |-> "none", ev |-> "none", kid |-> 0, addr |-> 0, clock |-> Real, traced |-> FALSE]

\* A faketime.Handle: the StateAddr it writes to and the clock it believes in.
Handle == [addr : Nat, clock : Clock]

Loop == [pc : {"top", "poll", "fork", "adopt", "exec", "reinject", "swap", "other",
               "reset", "detach", "ended", "panic"},
         todo : SUBSET Pids, pid : Pids, kid : Nat, new : Handle]

Caller == [pc : {"idle", "read", "apply", "closing"},
           clock : Clock,
           todo : SUBSET Pids,    \* handles not written yet
           half : SUBSET Pids,    \* page written, the Handle's own fields not yet
           dead : SUBSET Pids]    \* ESRCH

Idle == [pc |-> "idle", clock |-> Real, todo |-> {}, half |-> {}, dead |-> {}]

TypeOK ==
    /\ proc \in [Pids -> Process]
    /\ handle \in [Pids -> Handle]
    /\ children \subseteq Pids
    /\ pending \subseteq Pids
    /\ gone \in BOOLEAN
    /\ done \in BOOLEAN
    /\ loopErr \in {"none", "exited", "reinject"}
    /\ loop \in Loop
    /\ call \in [Callers -> Caller]
    /\ mapped \in Nat
    /\ used \in [calls : Nat, execs : Nat, signals : Nat, faults : Nat]
    /\ world \in Worlds
    /\ want \in Clock
    /\ slain \subseteq Pids

\* newChildTracker: the parent is injected, traced and resumed.
Init ==
    /\ world \in Worlds
    /\ \E k \in world.clocks :
           /\ proc = [p \in Pids |-> IF p = Parent
                        THEN [NoProcess EXCEPT !.st = "run", !.addr = 1, !.clock = k, !.traced = TRUE]
                        ELSE NoProcess]
           /\ want = k
           /\ handle = [p \in Pids |-> [addr |-> IF p = Parent THEN 1 ELSE 0,
                                        clock |-> IF p = Parent THEN k ELSE Real]]
    /\ children = {}
    /\ pending = {}
    /\ gone = FALSE
    /\ loopErr = "none"
    /\ done = FALSE
    /\ loop = [pc |-> "top", todo |-> {}, pid |-> Parent, kid |-> 0,
               new |-> [addr |-> 0, clock |-> Real]]
    /\ call = [t \in Callers |-> Idle]
    /\ mapped = 1
    /\ used = [calls |-> 0, execs |-> 0, signals |-> 0, faults |-> 0]
    /\ slain = {}

(***************************************************************************)
(* The processes.                                                          *)
(***************************************************************************)
Alive(p) == proc[p].st \notin {"none", "zombie", "gone"}

\* In a calm world, processes that are being written to do not fork, exec or get signals.
Undisturbed == world.calm => \A t \in Callers : call[t].pc = "idle"

\* PTRACE_O_TRACEFORK: the parent stops, the child starts traced and stopped.
Fork(p, c) ==
    /\ Undisturbed
    /\ proc[p].st = "run" /\ proc[p].traced
    /\ proc[c].st = "none" /\ \A d \in Pids : proc[d].st = "none" => c <= d
    /\ proc' = [proc EXCEPT ![p].st = "stop", ![p].ev = "fork", ![p].kid = c,
                            ![c] = [proc[p] EXCEPT !.st = "stop", !.ev = "init", !.kid = 0]]
    /\ UNCHANGED <<world, trkVars, loop, call, mapped, used, history>>

\* The address space is replaced: no page, an unpatched vDSO.
Exec(p) ==
    /\ Undisturbed
    /\ proc[p].st = "run" /\ proc[p].traced
    /\ used.execs < world.execs
    /\ proc' = [proc EXCEPT ![p].st = "stop", ![p].ev = "exec", ![p].addr = 0, ![p].clock = Real]
    /\ used' = [used EXCEPT !.execs = @ + 1]
    /\ UNCHANGED <<world, trkVars, loop, call, mapped, history>>

Signal(p) ==
    /\ Undisturbed
    /\ proc[p].st = "run" /\ proc[p].traced
    /\ used.signals < world.signals
    /\ proc' = [proc EXCEPT ![p].st = "stop", ![p].ev = "signal"]
    /\ used' = [used EXCEPT !.signals = @ + 1]
    /\ UNCHANGED <<world, trkVars, loop, call, mapped, history>>

Exit(p) ==
    /\ proc[p].st \in {"run"} \union (IF world.killStopped THEN {"stop", "held"} ELSE {})
    /\ proc' = [proc EXCEPT ![p].st = IF @ = "run" /\ ~proc[p].traced THEN "gone" ELSE "zombie",
                            ![p].ev = "none"]
    /\ slain' = IF proc[p].ev = "fork" THEN slain \union {proc[p].kid} ELSE slain
    /\ UNCHANGED <<world, trkVars, loop, call, mapped, used, want>>

System == \E p \in Pids : (\E c \in Pids : Fork(p, c)) \/ Exec(p) \/ Signal(p) \/ Exit(p)

\* PTRACE_CONT; an error is ignored.
Continued(p) == [proc EXCEPT ![p].st = IF @ = "held" THEN "run" ELSE @,
                             ![p].ev = IF proc[p].st = "held" THEN "none" ELSE @]

(***************************************************************************)
(* watchLoop and handleEvent.                                              *)
(***************************************************************************)
NoHandle == [addr |-> 0, clock |-> Real]

Goto(l) == loop' = [loop EXCEPT !.pc = l]

\* The event is dealt with; the locals of handleEvent go out of scope.
Handled == [loop EXCEPT !.pc = "poll", !.pid = Parent, !.kid = 0, !.new = NoHandle]

TrackedPIDs == children \union (IF gone THEN {} ELSE {Parent})

\* Mutant: c.done is never looked at.
LoopTopDeaf ==
    /\ loop.pc = "top"
    /\ loop' = IF TrackedPIDs = {}
               THEN [loop EXCEPT !.pc = "reset", !.todo = children]
               ELSE [loop EXCEPT !.pc = "poll", !.todo = TrackedPIDs]
    /\ UNCHANGED <<world, proc, trkVars, call, mapped, used, history>>

LoopTop ==
    /\ loop.pc = "top"
    /\ loop' = IF done \/ TrackedPIDs = {}
               THEN [loop EXCEPT !.pc = "reset", !.todo = children]
               ELSE [loop EXCEPT !.pc = "poll", !.todo = TrackedPIDs]
    /\ UNCHANGED <<world, proc, trkVars, call, mapped, used, history>>

LoopNext ==
    /\ loop.pc = "poll" /\ loop.todo = {}
    /\ Goto("top")
    /\ UNCHANGED <<world, proc, trkVars, call, mapped, used, history>>

\* The parent is polled first, its children in the order of a map.
Polls(p) == loop.pc = "poll" /\ p \in loop.todo /\ (Parent \in loop.todo => p = Parent)

\* WaitPIDNonBlocking: no event, or nothing left to wait for.
PollNone(p) ==
    /\ Polls(p)
    /\ proc[p].st \notin {"stop", "zombie"}
    /\ loop' = [loop EXCEPT !.todo = @ \ {p}]
    /\ UNCHANGED <<world, proc, trkVars, call, mapped, used, history>>

PollExit(p) ==
    /\ Polls(p)
    /\ proc[p].st = "zombie"
    /\ proc' = [proc EXCEPT ![p] = [NoProcess EXCEPT !.st = "gone"]]
    /\ children' = children \ {p}
    /\ pending' = pending \ {p}
    /\ gone' = (gone \/ p = Parent)
    /\ loopErr' = IF p = Parent /\ loopErr = "none" THEN "exited" ELSE loopErr
    /\ loop' = [loop EXCEPT !.todo = @ \ {p}]
    /\ UNCHANGED <<world, handle, done, call, mapped, used, history>>

PollStop(p) ==
    /\ Polls(p)
    /\ proc[p].st = "stop"
    /\ proc' = [proc EXCEPT ![p].st = "held"]
    /\ loop' = [loop EXCEPT !.todo = @ \ {p}, !.pid = p,
                            !.pc = IF proc[p].ev \in {"fork", "exec"} THEN proc[p].ev ELSE "other"]
    /\ UNCHANGED <<world, trkVars, call, mapped, used, history>>

\* Mutant: the tracker's own handle, whoever forked.
RootHandle(p) == handle[Parent]

\* The handle a forked child's handle is built from.
ParentHandle(p) == IF p \in children THEN handle[p] ELSE handle[Parent]

\* Mutant: only the forks of the tracker's own process are followed.
LoopForkRootOnly ==
    /\ loop.pc = "fork"
    /\ IF loop.pid = Parent /\ Alive(loop.pid)
       THEN /\ loop' = [loop EXCEPT !.pc = "adopt", !.kid = proc[loop.pid].kid,
                                    !.new = ParentHandle(loop.pid)]
            /\ UNCHANGED proc
       ELSE /\ loop' = Handled
            /\ proc' = Continued(loop.pid)
    /\ UNCHANGED <<world, trkVars, call, mapped, used, history>>

LoopFork ==
    /\ loop.pc = "fork"
    /\ loop' = IF Alive(loop.pid)      \* PTRACE_GETEVENTMSG
               THEN [loop EXCEPT !.pc = "adopt", !.kid = proc[loop.pid].kid,
                                 !.new = ParentHandle(loop.pid)]
               ELSE Handled
    /\ UNCHANGED <<world, proc, trkVars, call, mapped, used, history>>

\* Mutant: the process that forked is not continued.
LoopAdoptHeld ==
    /\ loop.pc = "adopt"
    /\ handle' = [handle EXCEPT ![loop.kid] = loop.new]
    /\ children' = children \union {loop.kid}
    /\ pending' = pending \union {loop.kid}
    /\ loop' = Handled
    /\ UNCHANGED <<world, proc, gone, loopErr, done, call, mapped, used, history>>

LoopAdopt ==
    /\ loop.pc = "adopt"
    /\ handle' = [handle EXCEPT ![loop.kid] = loop.new]
    /\ children' = children \union {loop.kid}
    /\ pending' = pending \union {loop.kid}
    /\ proc' = Continued(loop.pid)
    /\ loop' = Handled
    /\ UNCHANGED <<world, gone, loopErr, done, call, mapped, used, history>>

\* A child's initial stop, when it is expected, or a signal, which is forwarded.
LoopOther ==
    /\ loop.pc = "other"
    /\ pending' = pending \ {loop.pid}
    /\ proc' = Continued(loop.pid)
    /\ loop' = Handled
    /\ UNCHANGED <<world, handle, children, gone, loopErr, done, call, mapped, used, history>>

(***************************************************************************)
(* handleExec.                                                             *)
(***************************************************************************)
LoopExec ==
    /\ loop.pc = "exec"
    /\ IF loop.pid \in children \union {Parent}
       THEN /\ loop' = [loop EXCEPT !.pc = "reinject", !.new = handle[loop.pid]]
            /\ UNCHANGED proc
       ELSE /\ loop' = Handled
            /\ proc' = Continued(loop.pid)
    /\ UNCHANGED <<world, trkVars, call, mapped, used, history>>

ReinjectOk ==
    /\ loop.pc = "reinject"
    /\ Alive(loop.pid)
    /\ mapped' = mapped + 1
    /\ proc' = [proc EXCEPT ![loop.pid].addr = mapped + 1, ![loop.pid].clock = loop.new.clock]
    /\ loop' = [loop EXCEPT !.pc = "swap", !.new.addr = mapped + 1]
    /\ UNCHANGED <<world, trkVars, call, used, history>>

ReinjectErr ==
    /\ loop.pc = "reinject"
    /\ \/ ~Alive(loop.pid) /\ UNCHANGED used
       \/ Alive(loop.pid) /\ used.faults < world.faults /\ used' = [used EXCEPT !.faults = @ + 1]
    /\ loopErr' = IF loopErr = "none" THEN "reinject" ELSE loopErr
    /\ proc' = Continued(loop.pid)
    /\ loop' = Handled
    /\ UNCHANGED <<world, handle, children, pending, gone, done, call, mapped, history>>

\* Only h.h is replaced; a child is looked up again, and must still be there.
LoopSwap ==
    /\ loop.pc = "swap"
    /\ IF loop.pid \in children \union {Parent}
       THEN /\ handle' = [handle EXCEPT ![loop.pid].addr = loop.new.addr]
            /\ proc' = Continued(loop.pid)
            /\ loop' = Handled
       ELSE /\ Goto("panic")      \* nil pointer dereference
            /\ UNCHANGED <<handle, proc>>
    /\ UNCHANGED <<world, children, pending, gone, loopErr, done, call, mapped, used, history>>

(***************************************************************************)
(* cleanup, when Close was called or every process is gone.                *)
(***************************************************************************)
\* handle.Reset, best effort.
CleanReset(p) ==
    /\ loop.pc = "reset"
    /\ p \in loop.todo
    /\ IF Alive(p) /\ handle[p].addr = proc[p].addr
       THEN /\ proc' = [proc EXCEPT ![p].clock = Real]
            /\ handle' = [handle EXCEPT ![p].clock = Real]
       ELSE UNCHANGED <<proc, handle>>
    /\ loop' = [loop EXCEPT !.todo = @ \ {p}]
    /\ UNCHANGED <<world, children, pending, gone, loopErr, done, call, mapped, used, history>>

\* Mutant: the children are not detached.
CleanListEmpty ==
    /\ loop.pc = "reset" /\ loop.todo = {}
    /\ Goto("detach")
    /\ UNCHANGED <<world, proc, trkVars, call, mapped, used, history>>

CleanList ==
    /\ loop.pc = "reset" /\ loop.todo = {}
    /\ loop' = [loop EXCEPT !.pc = "detach", !.todo = children]
    /\ UNCHANGED <<world, proc, trkVars, call, mapped, used, history>>

\* PTRACE_INTERRUPT, or SIGSTOP when the tracee was not seized; wait for a stop;
\* PTRACE_DETACH.  The wait collects whatever stop comes first: if the tracee
\* was stopped already, the SIGSTOP is still to be delivered after the detach.
Detached(p) ==
    [proc EXCEPT ![p].traced = FALSE,
                 ![p].ev = "none",
                 ![p].st = CASE @ = "zombie" -> "gone"
                             [] @ = "stop"   -> IF world.seized THEN "run" ELSE "jobstop"
                             [] OTHER        -> @]

CleanDetach(p) ==
    /\ loop.pc = "detach"
    /\ p \in loop.todo
    /\ proc' = Detached(p)
    /\ loop' = [loop EXCEPT !.todo = @ \ {p}]
    /\ UNCHANGED <<world, trkVars, call, mapped, used, history>>

CleanRelease ==
    /\ loop.pc = "detach" /\ loop.todo = {}
    /\ proc' = Detached(Parent)
    /\ Goto("ended")
    /\ UNCHANGED <<world, trkVars, call, mapped, used, history>>

(***************************************************************************)
(* SetTime, Freeze, Reset, Advance: applyAll.                              *)
(***************************************************************************)
\* The loop has caught up with the processes.
CaughtUp ==
    /\ loop.pc \in {"top", "poll", "ended"}
    /\ \A p \in Pids : proc[p].st \notin {"stop", "held"}

CanCall(t, op) ==
    /\ call[t].pc = "idle"
    /\ op \in world.ops
    /\ loop.pc # "panic"
    /\ world.calm => CaughtUp /\ \A u \in Callers : call[u].pc = "idle"

\* Mutant: the children are forgotten.
ApplyParentOnly(k) == [Idle EXCEPT !.pc = "apply", !.clock = k, !.todo = {Parent}]

Apply(k) == [Idle EXCEPT !.pc = "apply", !.clock = k, !.todo = {Parent} \union children]

CallSet(t, k) ==
    /\ CanCall(t, "set")
    /\ used.calls < world.calls
    /\ used' = [used EXCEPT !.calls = @ + 1]
    /\ call' = [call EXCEPT ![t] = Apply(k)]
    /\ want' = k
    /\ UNCHANGED <<world, proc, trkVars, loop, mapped, slain>>

\* Advance reads the parent's Handle, then applies the sum to all.
CallAdvance(t, d) ==
    /\ CanCall(t, "advance")
    /\ used.calls < world.calls
    /\ handle[Parent].clock.at + d \in -MaxAt .. MaxAt
    /\ used' = [used EXCEPT !.calls = @ + 1]
    /\ call' = [call EXCEPT ![t] = [Idle EXCEPT !.pc = "read",
                    !.clock = [handle[Parent].clock EXCEPT !.at = @ + d]]]
    /\ want' = [want EXCEPT !.at = @ + d]
    /\ UNCHANGED <<world, proc, trkVars, loop, mapped, slain>>

CallSnapshot(t) ==
    /\ call[t].pc = "read"
    /\ call' = [call EXCEPT ![t] = Apply(@.clock)]
    /\ UNCHANGED <<world, proc, trkVars, loop, mapped, used, history>>

\* process_vm_writev to h.StateAddr, one goroutine per handle.
WriteOk(t, p) ==
    /\ p \in call[t].todo
    /\ Alive(p) /\ handle[p].addr = proc[p].addr
    /\ proc' = [proc EXCEPT ![p].clock = call[t].clock]
    /\ call' = [call EXCEPT ![t].todo = @ \ {p}, ![t].half = @ \union {p}]
    /\ UNCHANGED <<world, trkVars, loop, mapped, used, history>>

\* ESRCH, a zombie included, or EFAULT: the page went with the old address space.
WriteErr(t, p) ==
    /\ p \in call[t].todo
    /\ ~(Alive(p) /\ handle[p].addr = proc[p].addr)
    /\ call' = [call EXCEPT ![t].todo = @ \ {p},
                            ![t].dead = IF Alive(p) THEN @ ELSE @ \union {p}]
    /\ UNCHANGED <<world, proc, trkVars, loop, mapped, used, history>>

\* The Handle's own fields follow, under h.mu.
WriteNote(t, p) ==
    /\ p \in call[t].half
    /\ handle' = [handle EXCEPT ![p].clock = call[t].clock]
    /\ call' = [call EXCEPT ![t].half = @ \ {p}]
    /\ UNCHANGED <<world, proc, children, pending, gone, loopErr, done, loop, mapped, used, history>>

\* Mutant: Session.applyAll drops them as well.
CallEndDrops(t) ==
    /\ call[t].pc = "apply"
    /\ call[t].todo = {} /\ call[t].half = {}
    /\ children' = children \ call[t].dead
    /\ call' = [call EXCEPT ![t] = Idle]
    /\ UNCHANGED <<world, proc, handle, pending, gone, loopErr, done, loop, mapped, used, history>>

\* ChildTracker.applyAll drops dead children; Session.applyAll leaves them to the loop.
CallEnd(t) ==
    /\ call[t].pc = "apply"
    /\ call[t].todo = {} /\ call[t].half = {}
    /\ children' = IF world.prunes THEN children \ (call[t].dead \ {Parent}) ELSE children
    /\ call' = [call EXCEPT ![t] = Idle]
    /\ UNCHANGED <<world, proc, handle, pending, gone, loopErr, done, loop, mapped, used, history>>

Close(t) ==
    /\ CanCall(t, "close")
    /\ ~done
    /\ done' = TRUE
    /\ call' = [call EXCEPT ![t].pc = "closing"]
    /\ UNCHANGED <<world, proc, handle, children, pending, gone, loopErr, loop, mapped, used, history>>

CloseEnd(t) ==
    /\ call[t].pc = "closing"
    /\ loop.pc = "ended"
    /\ call' = [call EXCEPT ![t] = Idle]
    /\ UNCHANGED <<world, proc, trkVars, loop, mapped, used, history>>

(***************************************************************************)
(* The specification.                                                      *)
(***************************************************************************)
WatchLoop ==
    \/ LoopTop \/ LoopNext
    \/ \E p \in loop.todo : PollNone(p) \/ PollExit(p) \/ PollStop(p)
    \/ LoopFork \/ LoopAdopt \/ LoopOther
    \/ LoopExec \/ ReinjectOk \/ ReinjectErr \/ LoopSwap
    \/ (\E p \in loop.todo : CleanReset(p) \/ CleanDetach(p)) \/ CleanList \/ CleanRelease

Begin(t) ==
    \/ \E k \in world.clocks : CallSet(t, k)
    \/ \E d \in Deltas : CallAdvance(t, d)
    \/ Close(t)

Proceed(t) ==
    \/ CallSnapshot(t)
    \/ \E p \in call[t].todo : WriteOk(t, p) \/ WriteErr(t, p)
    \/ \E p \in call[t].half : WriteNote(t, p)
    \/ CallEnd(t) \/ CloseEnd(t)

Next ==
    \/ System
    \/ WatchLoop
    \/ \E t \in Callers : Begin(t) \/ Proceed(t)

Spec == Init /\ [][Next]_vars

\* The loop and the goroutines of a call keep running; no process has to do
\* anything and no call has to be made.
Fairness == WF_vars(WatchLoop) /\ \A t \in Callers : WF_vars(Proceed(t))

FairSpec == Spec /\ Fairness

(***************************************************************************)
(* Properties.                                                             *)
(***************************************************************************)
Tracked == children \union {Parent}

\* Processes that the tracker fakes: running, and not left unpatched by an exec.
Faked == {p \in Tracked : proc[p].st \in {"run", "stop"} /\ proc[p].addr # 0}

\* SetTime, Freeze and Reset on a tracked process reach the page its vDSO jumps
\* to, through any chain of forks and execs and whatever the callers, the loop
\* and SIGKILL do in between.
HandleReaches == \A p \in Faked : handle[p].addr = proc[p].addr

Quiet == world.calm /\ CaughtUp /\ ~done /\ \A t \in Callers : call[t].pc = "idle"

\* In a calm world all processes of the tree see one clock, those that were
\* forked or called exec since included, and each Handle knows it.  While the
\* parent lives it is the clock that the calls of SetTime, Freeze and Advance
\* add up to: Advance starts from the parent's Handle, which no call changes
\* any more once the parent has exited.
TreeAgrees ==
    Quiet => \A p, q \in Faked : /\ proc[p].clock = proc[q].clock
                                 /\ handle[p].clock = proc[p].clock
                                 /\ Alive(Parent) => proc[p].clock = want

\* When Close returns in a calm world, every process runs, no longer traced,
\* and the children are back on the real clock.
ReleasedByClose ==
    world.calm /\ loop.pc = "ended" /\ (\E t \in Callers : call[t].pc = "closing") =>
        \A p \in Pids : Alive(p) => /\ proc[p].st = "run" /\ ~proc[p].traced
                                    /\ p # Parent => proc[p].clock = Real

\* Close "detaches ptrace from the parent and all children", without a word about
\* the moment: a child whose fork the loop has not been told of yet is not
\* detached.
CloseDetaches ==
    loop.pc = "ended" /\ (\E t \in Callers : call[t].pc = "closing") =>
        \A p \in Pids : Alive(p) => ~proc[p].traced

\* handleExec finds the child whose Handle it is about to change.
SwapFindsChild == loop.pc # "panic"

\* Nobody will tell the loop of p any more: the process that forked it was
\* killed in the stop that would have.
Orphan(p) ==
    /\ handle[p] = NoHandle /\ loop.kid # p
    /\ \A q \in Pids : proc[q].kid = p => proc[q].st \notin {"stop", "held"}

\* The loop loses a child only when SIGKILL hits the process that forked it in
\* the stop that reports the fork: PTRACE_GETEVENTMSG then fails and nothing
\* else tells of the child.  Close aside, every other child stays known.
NoOrphan ==
    ~done => \A p \in Pids : Alive(p) /\ proc[p].traced /\ Orphan(p) => p \in slain

\* A traced process that stops is resumed by the loop, or dies, and the exit of
\* one is collected, so that its own parent can see it, unless the tracker is
\* closed or never learns of the process.
StopsEnd ==
    \A p \in Pids :
        /\ proc[p].st \in {"stop", "held"} ~> proc[p].st \notin {"stop", "held"} \/ done \/ Orphan(p)
        /\ proc[p].st = "zombie" ~> proc[p].st = "gone" \/ done \/ Orphan(p)

\* Close returns.
CloseReturns == done ~> loop.pc = "ended"
=============================================================================
