-------------------------------- MODULE Run ---------------------------------
(***************************************************************************)
(* faketimectl run (src/cmd/faketimectl/cmds_run.go), with and without     *)
(* --track: the goroutine that starts the command and blocks in cmd.Wait,  *)
(* the watch loop that polls wait4(-1) for the stops of the command and of *)
(* its descendants, and the kernel's ptrace between them.                  *)
(*                                                                         *)
(* wait4 reports a stop or an exit to one waiter only.  The command is a   *)
(* child of the whole faketimectl process, so cmd.Wait, which asks for     *)
(* exits, is also given its ptrace stops: "stolen" records that.           *)
(*                                                                         *)
(* Pids are numbers and the command is 1.  A clock is fake or not: frozen  *)
(* and advancing modes differ only in the words that are written.          *)
(***************************************************************************)
EXTENDS Naturals

CONSTANTS
    Pids,         \* the command, 1, and the processes it may fork
    MaxEvents,    \* bound: calls of exec and signals to the tree, together
    MaxMishaps    \* bound: SIGKILLs and injections that fail, together

ASSUME PidAssumption == Pids \subseteq Nat /\ 1 \in Pids

VARIABLES
    proc,       \* the processes
    main,       \* the goroutine of cmdRun
    loop,       \* the goroutine of runWatchLoop
    track,      \* --track
    stolen,     \* cmd.Wait returned with a stop of the command
    eaten,      \* history: processes that lost a signal to a stale pendingStop
    early,      \* history: processes whose first stop was polled before it was announced
    used        \* how much of the bounds is used up

vars == <<proc, main, loop, track, stolen, eaten, early, used>>

\* stop is a ptrace stop for the reason why, seen once a wait has returned it;
\* born and forking are the two sides of a fork before their first stop; halted
\* is stopped by SIGSTOP with no tracer.  pend: a SIGSTOP is pending.  bare: it,
\* or the process it was forked from, could not be injected after an exec.
Process == [st : {"none", "born", "run", "forking", "stop", "halted", "zombie", "gone"},
            why : {"none", "fork", "exec", "signal", "init", "group", "sigstop"},
            seen : BOOLEAN, fake : BOOLEAN, bare : BOOLEAN, traced : BOOLEAN, pend : BOOLEAN,
            kid : Pids \union {0}, code : {"none", "ok", "error", "killed"}]

Main == [pc : {"inject", "wait", "close", "join", "end"},
         code : {"none", "ok", "error", "killed", "lost"}]

Loop == [pc : {"top", "fork", "exec", "other", "clean", "detach", "returned"}, cur : Pids \union {0},
         filed : SUBSET Pids,     \* childHandles
         pending : SUBSET Pids,   \* pendingStop
         todo : SUBSET Pids]      \* pids still to be detached

TypeOK ==
    /\ proc \in [Pids -> Process]
    /\ main \in Main
    /\ loop \in Loop
    /\ track \in BOOLEAN /\ stolen \in BOOLEAN
    /\ eaten \union early \subseteq Pids

None == [st |-> "none", why |-> "none", seen |-> FALSE, fake |-> FALSE, bare |-> FALSE, traced |-> FALSE,
         pend |-> FALSE, kid |-> 0, code |-> "none"]

\* The command has been started and is stopped before its first instruction.
Init ==
    /\ proc = [p \in Pids |-> IF p = 1 THEN [None EXCEPT !.st = "stop", !.seen = TRUE, !.traced = TRUE]
                              ELSE None]
    /\ main = [pc |-> "inject", code |-> "none"]
    /\ loop = [pc |-> "returned", cur |-> 0, filed |-> {}, pending |-> {}, todo |-> {}]
    /\ track \in BOOLEAN
    /\ stolen = FALSE
    /\ eaten = {}
    /\ early = {}
    /\ used = [events |-> 0, kills |-> 0, faults |-> 0]

Count(field) == used' = [used EXCEPT ![field] = @ + 1]

\* A behaviour ends with faketimectl: the tree is not followed any further.
Watched(p) == main.pc # "end" /\ proc[p].st = "run"

Alive(p) == proc[p].st \notin {"none", "zombie", "gone"}

\* Process p stops for the reason w and no wait has returned it yet.
Stops(p, w) == [proc EXCEPT ![p].st = "stop", ![p].why = w, ![p].seen = FALSE]

\* What is left of q after PTRACE_CONT or after its tracer has let go of it.
Resumed(q) == [q EXCEPT !.st = "run", !.why = "none", !.seen = FALSE, !.kid = 0]
Released(q) == [Resumed(q) EXCEPT !.traced = FALSE, !.pend = FALSE,
                                  !.st = IF q.pend THEN "halted" ELSE "run"]

(***************************************************************************)
(* The kernel and the processes.                                           *)
(***************************************************************************)
\* The child starts with its tracer's SIGSTOP pending.  It may reach its first
\* stop before its parent reaches the one that announces it.
Fork(p, q) ==
    /\ Watched(p)
    /\ proc[q].st = "none" /\ \A r \in Pids : r < q => proc[r].st # "none"
    /\ proc' = [proc EXCEPT
           ![p].st = IF proc[p].traced THEN "forking" ELSE "run",
           ![p].kid = IF proc[p].traced THEN q ELSE 0,
           ![q] = [None EXCEPT !.st = IF proc[p].traced THEN "born" ELSE "run",
                               !.fake = proc[p].fake, !.bare = proc[p].bare, !.traced = proc[p].traced]]
    /\ UNCHANGED <<main, loop, track, stolen, eaten, early, used>>

ForkStop(p) ==
    /\ proc[p].st = "forking"
    /\ proc' = Stops(p, "fork")
    /\ UNCHANGED <<main, loop, track, stolen, eaten, early, used>>

\* A second SIGSTOP sent before this one is taken is the same SIGSTOP.
InitStop(p) ==
    /\ proc[p].st = "born"
    /\ proc' = [Stops(p, "init") EXCEPT ![p].pend = FALSE]
    /\ UNCHANGED <<main, loop, track, stolen, eaten, early, used>>

SigStop(p) ==
    /\ Watched(p) /\ proc[p].pend
    /\ proc' = [Stops(p, "sigstop") EXCEPT ![p].pend = FALSE]
    /\ UNCHANGED <<main, loop, track, stolen, eaten, early, used>>

\* A new address space, without the trampoline.
Exec(p) ==
    /\ Watched(p) /\ used.events < MaxEvents
    /\ proc' = [(IF proc[p].traced THEN Stops(p, "exec") ELSE proc) EXCEPT ![p].fake = FALSE]
    /\ Count("events")
    /\ UNCHANGED <<main, loop, track, stolen, eaten, early>>

\* A signal other than SIGSTOP and SIGKILL.
Signal(p) ==
    /\ Watched(p) /\ proc[p].traced /\ used.events < MaxEvents
    /\ proc' = Stops(p, "signal")
    /\ Count("events")
    /\ UNCHANGED <<main, loop, track, stolen, eaten, early>>

\* A traced process, and the command, wait to be reaped by faketimectl.
Ends(p, code) ==
    proc' = [proc EXCEPT ![p] = [None EXCEPT !.st = IF p = 1 \/ proc[p].traced THEN "zombie" ELSE "gone",
                                             !.code = code]]

Exit(p, code) ==
    /\ Watched(p)
    /\ Ends(p, code)
    /\ UNCHANGED <<main, loop, track, stolen, eaten, early, used>>

Kill(p) ==
    /\ Alive(p) /\ main.pc \notin {"inject", "end"} /\ used.kills + used.faults < MaxMishaps
    /\ Ends(p, "killed")
    /\ Count("kills")
    /\ UNCHANGED <<main, loop, track, stolen, eaten, early>>

(***************************************************************************)
(* cmdRun.                                                                 *)
(***************************************************************************)
\* Inject..FollowChild detaches, Inject..FollowChildKeepTracer arms the fork
\* and exec events and continues.
InjectOk ==
    /\ main.pc = "inject"
    /\ proc' = [proc EXCEPT ![1] = [(IF track THEN Resumed(@) ELSE Released(@)) EXCEPT !.fake = TRUE]]
    /\ main' = [main EXCEPT !.pc = "wait"]
    /\ loop' = [loop EXCEPT !.pc = IF track THEN "top" ELSE "returned"]
    /\ UNCHANGED <<track, stolen, eaten, early, used>>

\* "run: inject": the command is killed and waited for.
InjectErr ==
    /\ main.pc = "inject"
    /\ used.kills + used.faults < MaxMishaps
    /\ Count("faults")
    /\ proc' = [proc EXCEPT ![1].st = "gone", ![1].code = "killed"]
    /\ main' = [pc |-> "end", code |-> "lost"]
    /\ UNCHANGED <<loop, track, stolen, eaten, early>>

\* Mutant of WaitExit: a command killed by a signal exits with 1.
WaitExitFlat ==
    /\ main.pc = "wait" /\ proc[1].st = "zombie"
    /\ proc' = [proc EXCEPT ![1].st = "gone"]
    /\ main' = [pc |-> "close", code |-> IF proc[1].code = "ok" THEN "ok" ELSE "error"]
    /\ UNCHANGED <<loop, track, stolen, eaten, early, used>>

\* cmd.Wait returns with the exit: 0, the exit code, or 128 plus the signal.
WaitExit ==
    /\ main.pc = "wait" /\ proc[1].st = "zombie"
    /\ proc' = [proc EXCEPT ![1].st = "gone"]
    /\ main' = [pc |-> "close", code |-> proc[1].code]
    /\ UNCHANGED <<loop, track, stolen, eaten, early, used>>

\* cmd.Wait returns with a stop: an ExitError that neither exited nor was
\* signalled, hence exit code 1, for when the loop has returned.  The stop is
\* not reported again, so neither the loop nor its cleanup learns of it.
WaitStop ==
    /\ main.pc = "wait" /\ proc[1].st = "stop" /\ ~proc[1].seen
    /\ proc' = [proc EXCEPT ![1].seen = TRUE]
    /\ main' = [pc |-> "close", code |-> "error"]
    /\ stolen' = TRUE
    /\ UNCHANGED <<loop, track, eaten, early, used>>

\* The watch loop has reaped the command: ECHILD, "run: wait".
WaitNoChild ==
    /\ main.pc = "wait" /\ proc[1].st = "gone"
    /\ main' = [pc |-> "close", code |-> "lost"]
    /\ UNCHANGED <<proc, loop, track, stolen, eaten, early, used>>

\* close(done)
CloseDone ==
    /\ main.pc = "close"
    /\ main' = [main EXCEPT !.pc = "join"]
    /\ UNCHANGED <<proc, loop, track, stolen, eaten, early, used>>

\* <-watchDone, and the process exits: the kernel lets go of all tracees.
Join ==
    /\ main.pc = "join" /\ loop.pc = "returned"
    /\ main' = [main EXCEPT !.pc = "end"]
    /\ proc' = [p \in Pids |->
          IF proc[p].st = "born" THEN [proc[p] EXCEPT !.st = "halted", !.traced = FALSE]
          ELSE IF Alive(p) /\ proc[p].traced THEN Released(proc[p])
          ELSE IF proc[p].st = "zombie" THEN [proc[p] EXCEPT !.st = "gone"]
          ELSE proc[p]]
    /\ UNCHANGED <<loop, track, stolen, eaten, early, used>>

(***************************************************************************)
(* runWatchLoop.                                                           *)
(***************************************************************************)
At(l, p) == loop' = [loop EXCEPT !.pc = l, !.cur = p]
Done == main.pc \in {"join", "end"}

\* wait4(-1, WNOHANG) returns a stop.
PollStop(p) ==
    /\ loop.pc = "top" /\ ~Done
    /\ proc[p].st = "stop" /\ ~proc[p].seen /\ proc[p].traced
    /\ proc' = [proc EXCEPT ![p].seen = TRUE]
    /\ At(IF proc[p].why \in {"fork", "exec"} THEN proc[p].why ELSE "other", p)
    /\ UNCHANGED <<main, track, stolen, eaten, early, used>>

\* It returns an exit.
PollExit(p) ==
    /\ loop.pc = "top" /\ ~Done
    /\ proc[p].st = "zombie"
    /\ proc' = [proc EXCEPT ![p].st = "gone"]
    /\ loop' = [loop EXCEPT !.filed = @ \ {p}, !.pending = @ \ {p}]
    /\ UNCHANGED <<main, track, stolen, eaten, early, used>>

\* done is closed, or ECHILD: nothing is left to wait for.
LoopReturn ==
    /\ loop.pc = "top"
    /\ Done \/ \A p \in Pids : proc[p].st # "zombie" /\ ~proc[p].traced
    /\ loop' = [loop EXCEPT !.pc = "clean", !.todo = loop.filed]
    /\ UNCHANGED <<proc, main, track, stolen, eaten, early, used>>

\* ContPID.  It fails silently when the process has been killed meanwhile.
Cont(p) == IF proc[p].st = "stop" THEN [proc EXCEPT ![p] = Resumed(@)] ELSE proc

\* Mutant of LoopFork: a process without a Handle is not continued.
LoopForkNoCont ==
    /\ loop.pc = "fork"
    /\ IF proc[loop.cur].st = "stop" /\ loop.cur \in loop.filed \union {1}
       THEN /\ loop' = [loop EXCEPT !.pc = "top", !.filed = @ \union {proc[loop.cur].kid},
                                    !.pending = @ \union {proc[loop.cur].kid}]
            /\ proc' = Cont(loop.cur)
       ELSE At("top", 0) /\ UNCHANGED proc
    /\ UNCHANGED <<main, track, stolen, eaten, early, used>>

\* GETEVENTMSG fails, or the forker has no Handle: the child is not filed.
LoopFork ==
    /\ loop.pc = "fork"
    /\ loop' = IF proc[loop.cur].st = "stop" /\ loop.cur \in loop.filed \union {1}
               THEN [loop EXCEPT !.pc = "top", !.cur = 0, !.filed = @ \union {proc[loop.cur].kid},
                                 !.pending = @ \union {proc[loop.cur].kid}]
               ELSE [loop EXCEPT !.pc = "top", !.cur = 0]
    /\ proc' = Cont(loop.cur)
    /\ UNCHANGED <<main, track, stolen, eaten, early, used>>

\* Mutant of ReinjectOk: a process without a Handle is only continued.
ReinjectFiled ==
    /\ loop.pc = "exec"
    /\ proc[loop.cur].st = "stop"
    /\ proc' = [Cont(loop.cur) EXCEPT ![loop.cur].fake = loop.cur \in loop.filed \union {1}]
    /\ At("top", 0)
    /\ UNCHANGED <<main, track, stolen, eaten, early, used>>

\* The process is injected again and continued.
ReinjectOk ==
    /\ loop.pc = "exec"
    /\ proc[loop.cur].st = "stop"
    /\ proc' = [Cont(loop.cur) EXCEPT ![loop.cur].fake = TRUE, ![loop.cur].bare = FALSE]
    /\ loop' = [loop EXCEPT !.pc = "top", !.cur = 0, !.filed = @ \union ({loop.cur} \ {1})]
    /\ UNCHANGED <<main, track, stolen, eaten, early, used>>

\* The injection fails, or the process was killed: it is continued as it is.
ReinjectErr ==
    /\ loop.pc = "exec"
    /\ \/ proc[loop.cur].st # "stop" /\ UNCHANGED used
       \/ proc[loop.cur].st = "stop" /\ used.kills + used.faults < MaxMishaps /\ Count("faults")
    /\ proc' = [Cont(loop.cur) EXCEPT ![loop.cur].bare = Alive(loop.cur)]
    /\ At("top", 0)
    /\ UNCHANGED <<main, track, stolen, eaten, early>>

\* Mutant of LoopOther: pendingStop is not cleared.
LoopOtherStale ==
    /\ loop.pc = "other"
    /\ LET p == loop.cur
           w == proc[p].why
       IN  /\ loop' = [loop EXCEPT !.pc = "top", !.cur = 0]
           /\ proc' = IF proc[p].st = "stop" /\ p \notin loop.pending /\ w \in {"init", "sigstop"}
                      THEN Stops(p, "group") ELSE Cont(p)
           /\ eaten' = IF proc[p].st = "stop" /\ p \in loop.pending /\ w = "signal"
                       THEN eaten \union {p} ELSE eaten
           /\ early' = IF proc[p].st = "stop" /\ p \notin loop.pending /\ w = "init"
                       THEN early \union {p} ELSE early
    /\ UNCHANGED <<main, track, stolen, used>>

\* A stop that pendingStop waits for is swallowed, whatever it was; any other
\* signal is forwarded.  A forwarded SIGSTOP stops the process again, this time
\* in a group stop, from which any PTRACE_CONT resumes it.
LoopOther ==
    /\ loop.pc = "other"
    /\ LET p == loop.cur
           w == proc[p].why
       IN  /\ loop' = [loop EXCEPT !.pc = "top", !.cur = 0, !.pending = @ \ {p}]
           /\ proc' = IF proc[p].st = "stop" /\ p \notin loop.pending /\ w \in {"init", "sigstop"}
                      THEN Stops(p, "group") ELSE Cont(p)
           /\ eaten' = IF proc[p].st = "stop" /\ p \in loop.pending /\ w = "signal"
                       THEN eaten \union {p} ELSE eaten
           /\ early' = IF proc[p].st = "stop" /\ p \notin loop.pending /\ w = "init"
                       THEN early \union {p} ELSE early
    /\ UNCHANGED <<main, track, stolen, used>>

(***************************************************************************)
(* DetachAll and InterruptDetach.                                          *)
(***************************************************************************)
\* The tracees were never seized: PTRACE_INTERRUPT fails and SIGSTOP is sent.
\* The command comes last, when todo is empty.
DetachSignal(p) ==
    /\ loop.pc = "clean"
    /\ p \in loop.todo \/ (p = 1 /\ loop.todo = {})
    /\ proc' = IF Alive(p) THEN [proc EXCEPT ![p].pend = TRUE] ELSE proc
    /\ loop' = [loop EXCEPT !.pc = "detach", !.cur = p, !.todo = @ \ {p}]
    /\ UNCHANGED <<main, track, stolen, eaten, early, used>>

\* wait4(pid) blocks until the process stops or exits, and the tracer lets go.
\* A process that was stopped for another reason still has the SIGSTOP to come.
DetachWait ==
    /\ loop.pc = "detach"
    /\ LET q == proc[loop.cur]
       IN  \/ /\ q.st = "stop" /\ ~q.seen
              /\ proc' = [proc EXCEPT ![loop.cur] = Released(q)]
           \/ /\ q.st \in {"zombie", "gone"}
              /\ proc' = [proc EXCEPT ![loop.cur].st = "gone"]
    /\ At(IF loop.cur = 1 THEN "returned" ELSE "clean", 0)
    /\ UNCHANGED <<main, track, stolen, eaten, early, used>>

WatchLoop ==
    \/ \E p \in Pids : PollStop(p) \/ PollExit(p) \/ DetachSignal(p)
    \/ LoopFork \/ ReinjectOk \/ ReinjectErr \/ LoopOther \/ LoopReturn \/ DetachWait

CmdRun == InjectOk \/ InjectErr \/ WaitExit \/ WaitStop \/ WaitNoChild \/ CloseDone \/ Join

Kernel == \E p \in Pids : ForkStop(p) \/ InitStop(p) \/ SigStop(p)

Processes ==
    \E p \in Pids : \/ \E q \in Pids : Fork(p, q)
                    \/ Exec(p) \/ Signal(p) \/ Kill(p)
                    \/ \E code \in {"ok", "error"} : Exit(p, code)

Next == CmdRun \/ WatchLoop \/ Kernel \/ Processes

Spec == Init /\ [][Next]_vars

\* The two goroutines run and the kernel delivers stops; no process ever has to
\* fork, exec or exit.
FairSpec == Spec /\ WF_vars(CmdRun) /\ WF_vars(WatchLoop) /\ WF_vars(Kernel)

(***************************************************************************)
(* Properties.                                                             *)
(***************************************************************************)
\* A traced process that runs is on the fake clock, through forks whose two
\* sides stop in either order, execs of processes that the loop never filed,
\* and signals, unless its own re-injection, or that of the process it was forked
\* from, failed.
SeesFake ==
    \A p \in Pids : proc[p].st \in {"run", "forking", "born"} /\ proc[p].traced =>
        proc[p].fake \/ proc[p].bare

\* faketimectl exits with the status of the command, unless cmd.Wait was given
\* a stop instead of the exit; if the loop reaps the command it says that the
\* status is lost, it never reports another one.
ExitStatus ==
    main.pc = "end" /\ ~stolen => main.code \in {proc[1].code, "lost"}

\* A signal to a tracked process is swallowed only if the process's first stop
\* was polled before the fork that announces it, which leaves a pendingStop
\* that nothing but a later signal can clear.
SignalsForwarded == eaten \subseteq early

\* "Any other stop -- forward real signals": the loop passes every signal on.  It
\* does not pass on one that meets a pendingStop, see SignalsForwarded.
SignalsAllForwarded == eaten = {}

\* No process is held in a ptrace stop for ever, neither by the loop nor by its
\* cleanup, unless cmd.Wait was given a stop of the command.
NotHeld == \A p \in Pids : proc[p].st = "stop" ~> (proc[p].st # "stop" \/ stolen)

\* "Signal the watch loop to stop and wait for its cleanup to finish": once it
\* waits for the watch loop, faketimectl ends.  It does not when cmd.Wait was
\* given a stop of the command: wait4 reports that stop to nobody else, nothing
\* continues the command, and InterruptDetach waits for its next stop for ever.
CleanupEnds == main.pc = "join" ~> main.pc = "end"
=============================================================================
