----------------------------- MODULE RunProofs -----------------------------
(***************************************************************************)
(* Theorems about Run.tla, for any number of processes, events and         *)
(* mishaps: what faketimectl run (src/cmd/faketimectl/cmds_run.go) keeps   *)
(* of the clock, of the signals and of the exit status of the command when *)
(* cmd.Wait, the watch loop and the kernel interleave.                     *)
(***************************************************************************)
EXTENDS Run, TLAPS

(***************************************************************************)
(* The inductive invariants.                                               *)
(***************************************************************************)
\* A fork that the loop has still to be told of, or to act upon.
Announces(p) == proc[p].st = "forking" \/ (proc[p].st = "stop" /\ proc[p].why = "fork")

\* Nothing happens before the injection.
Before ==
    main.pc = "inject" =>
        /\ loop.pc = "returned" /\ loop.pending = {} /\ early = {} /\ eaten = {}
        /\ proc[1].st = "stop" /\ proc[1].why = "none"
        /\ \A p \in Pids \ {1} : proc[p].st = "none"

\* The stop that the loop handles is the one that it has polled, unless the
\* process has been killed since.
Current ==
    /\ loop.pc \in {"fork", "exec", "other", "detach"} => loop.cur \in Pids
    /\ loop.pc \in {"fork", "exec", "other"} =>
          \/ proc[loop.cur].st \in {"zombie", "gone"}
          \/ /\ proc[loop.cur].st = "stop"
             /\ loop.pc = "fork" <=> proc[loop.cur].why = "fork"
             /\ loop.pc = "exec" <=> proc[loop.cur].why = "exec"

\* A fork has a child to announce.
Kids == \A p \in Pids : Announces(p) => proc[p].kid \in Pids

LoopInv == TypeOK /\ Before /\ Current /\ Kids

\* Only a stop for an exec may hold a process that has lost its trampoline.
FakeInv ==
    main.pc # "inject" => \A p \in Pids :
        /\ proc[p].traced
        /\ proc[p].st \in {"run", "forking", "born"} \/ (proc[p].st = "stop" /\ proc[p].why # "exec")
        => proc[p].fake \/ proc[p].bare

\* Once cmd.Wait has returned, the command is gone and keeps its status.
StatusInv ==
    main.pc \in {"close", "join", "end"} /\ ~stolen =>
        main.code \in {proc[1].code, "lost"} /\ proc[1].st = "gone"

\* The process has not gone past its first stop, or that stop was polled early.
Fresh(q) ==
    \/ q \in early
    \/ proc[q].st = "born"
    \/ proc[q].st = "stop" /\ proc[q].why = "init"
    \/ proc[q].st \in {"zombie", "gone"}

\* While the loop watches, a pendingStop belongs to a process whose first stop
\* is still to be handled, and so does the child of a fork to be announced,
\* which no other process announces.
SignalInv ==
    /\ eaten \subseteq early
    /\ loop.pc \in {"top", "fork", "exec", "other"} =>
          /\ \A q \in loop.pending : Fresh(q) /\ proc[q].st # "none"
          /\ \A p, q \in Pids : Announces(p) /\ proc[p].kid = q =>
                /\ Fresh(q) /\ proc[q].st # "none" /\ q \notin loop.pending
                /\ \A r \in Pids \ {p} : Announces(r) => proc[r].kid # q

(***************************************************************************)
(* What happens to one process.                                            *)
(***************************************************************************)
Others(p) == \A q \in Pids \ {p} : proc'[q] = proc[q]

\* The tracer, the clock and the status of a process.
Keeps(p) ==
    /\ proc'[p].traced = proc[p].traced /\ proc'[p].code = proc[p].code
    /\ proc'[p].fake = proc[p].fake /\ proc'[p].bare = proc[p].bare

\* No process changes in what the invariants are about.
Quiet == \A p \in Pids : /\ Keeps(p) /\ proc'[p].kid = proc[p].kid
                         /\ proc'[p].st = proc[p].st /\ proc'[p].why = proc[p].why

Halts(p, w) == /\ Others(p) /\ Keeps(p) /\ proc'[p].kid = proc[p].kid
               /\ proc'[p].st = "stop" /\ proc'[p].why = w

Continues(p) == Others(p) /\ proc'[p].st = "run" /\ proc'[p].traced = proc[p].traced

Dies(p) == Others(p) /\ proc'[p].st \in {"zombie", "gone"}

\* A step that replaces one process.
LEMMA OneProcess ==
    ASSUME proc \in [Pids -> Process], NEW p \in Pids, NEW x \in Process,
           proc' = [proc EXCEPT ![p] = x]
    PROVE  proc' \in [Pids -> Process] /\ proc'[p] = x /\ Others(p)
  BY DEF Others

\* What is said of a process that has not been started.
LEMMA NoneFacts == None \in Process
  BY DEF None, Process

\* A ptrace stop.
LEMMA StopsFacts ==
    ASSUME proc \in [Pids -> Process], NEW p \in Pids, proc[p] \in Process,
           NEW w \in {"fork", "exec", "signal", "init", "group", "sigstop"},
           proc' = Stops(p, w)
    PROVE  proc' \in [Pids -> Process] /\ Halts(p, w)
<1> DEFINE x == [proc[p] EXCEPT !.st = "stop", !.why = w, !.seen = FALSE]
<1>1. /\ x \in Process /\ x.st = "stop" /\ x.why = w /\ x.kid = proc[p].kid /\ x.code = proc[p].code
      /\ x.traced = proc[p].traced /\ x.fake = proc[p].fake /\ x.bare = proc[p].bare
  BY DEF Process
<1>2. proc' = [proc EXCEPT ![p] = x]
  BY DEF Stops
<1> HIDE DEF x
<1>3. proc' \in [Pids -> Process] /\ proc'[p] = x /\ Others(p)
  BY <1>1, <1>2, OneProcess
<1> QED
  BY <1>1, <1>3 DEF Halts, Keeps

\* The same, with the pending SIGSTOP taken.
LEMMA StopsTaken ==
    ASSUME proc \in [Pids -> Process], NEW p \in Pids, proc[p] \in Process,
           NEW w \in {"init", "sigstop"},
           proc' = [Stops(p, w) EXCEPT ![p].pend = FALSE]
    PROVE  proc' \in [Pids -> Process] /\ Halts(p, w)
<1> DEFINE x == [proc[p] EXCEPT !.st = "stop", !.why = w, !.seen = FALSE, !.pend = FALSE]
<1>1. /\ x \in Process /\ x.st = "stop" /\ x.why = w /\ x.kid = proc[p].kid /\ x.code = proc[p].code
      /\ x.traced = proc[p].traced /\ x.fake = proc[p].fake /\ x.bare = proc[p].bare
  BY DEF Process
<1>2. proc' = [proc EXCEPT ![p] = x]
  BY DEF Stops
<1> HIDE DEF x
<1>3. proc' \in [Pids -> Process] /\ proc'[p] = x /\ Others(p)
  BY <1>1, <1>2, OneProcess
<1> QED
  BY <1>1, <1>3 DEF Halts, Keeps

\* PTRACE_CONT, and the tracer letting go.
LEMMA ResumedFacts ==
    ASSUME NEW q \in Process
    PROVE  /\ Resumed(q) \in Process /\ Resumed(q).st = "run" /\ Resumed(q).why = "none"
           /\ Resumed(q).traced = q.traced /\ Resumed(q).code = q.code
           /\ Resumed(q).fake = q.fake /\ Resumed(q).bare = q.bare
  BY DEF Resumed, Process

LEMMA ReleasedFacts ==
    ASSUME NEW q \in Process
    PROVE  /\ Released(q) \in Process /\ Released(q).st \in {"run", "halted"}
           /\ Released(q).traced = FALSE /\ Released(q).code = q.code
  BY DEF Released, Resumed, Process

\* ContPID, which does nothing to a process that is not stopped.
LEMMA ContFacts ==
    ASSUME proc \in [Pids -> Process], NEW p \in Pids
    PROVE  /\ Cont(p) \in [Pids -> Process]
           /\ \A q \in Pids \ {p} : Cont(p)[q] = proc[q]
           /\ Cont(p)[p] = IF proc[p].st = "stop" THEN Resumed(proc[p]) ELSE proc[p]
  BY ResumedFacts DEF Cont

LEMMA ContStep ==
    ASSUME proc \in [Pids -> Process], NEW p \in Pids, proc' = Cont(p)
    PROVE  /\ proc' \in [Pids -> Process] /\ Others(p)
           /\ \/ proc[p].st = "stop" /\ Continues(p) /\ Keeps(p)
              \/ proc[p].st # "stop" /\ proc'[p] = proc[p]
<1>1. /\ proc' \in [Pids -> Process] /\ Others(p)
      /\ proc'[p] = IF proc[p].st = "stop" THEN Resumed(proc[p]) ELSE proc[p]
  BY ContFacts DEF Others
<1>2. proc[p] \in Process
  OBVIOUS
<1> QED
  BY <1>1, <1>2, ResumedFacts DEF Continues, Keeps

(***************************************************************************)
(* The effect of each action on the processes.                             *)
(***************************************************************************)
\* Both sides of a fork.
LEMMA ForkFacts ==
    ASSUME TypeOK, NEW p \in Pids, NEW q \in Pids, Fork(p, q)
    PROVE  /\ proc' \in [Pids -> Process]
           /\ p # q /\ proc[p].st = "run" /\ proc[q].st = "none"
           /\ \A r \in Pids \ {p, q} : proc'[r] = proc[r]
           /\ Keeps(p)
           /\ \/ proc[p].traced /\ proc'[p].st = "forking" /\ proc'[p].kid = q /\ proc'[q].st = "born"
              \/ ~proc[p].traced /\ proc'[p].st = "run" /\ proc'[q].st = "run"
           /\ proc'[q].traced = proc[p].traced
           /\ proc'[q].fake = proc[p].fake /\ proc'[q].bare = proc[p].bare
           /\ UNCHANGED <<main, loop, stolen, eaten, early>>
<1> DEFINE x == [proc[p] EXCEPT !.st = IF proc[p].traced THEN "forking" ELSE "run",
                                !.kid = IF proc[p].traced THEN q ELSE 0]
           y == [None EXCEPT !.st = IF proc[p].traced THEN "born" ELSE "run",
                             !.fake = proc[p].fake, !.bare = proc[p].bare,
                             !.traced = proc[p].traced]
<1>1. /\ proc \in [Pids -> Process] /\ proc[p].st = "run" /\ proc[q].st = "none" /\ p # q
      /\ proc[p] \in Process
  BY DEF TypeOK, Fork, Watched
<1>2. /\ x \in Process /\ x.code = proc[p].code
      /\ x.traced = proc[p].traced /\ x.fake = proc[p].fake /\ x.bare = proc[p].bare
      /\ proc[p].traced => x.st = "forking" /\ x.kid = q
      /\ ~proc[p].traced => x.st = "run"
  BY <1>1 DEF Process
<1>3. /\ y \in Process
      /\ y.traced = proc[p].traced /\ y.fake = proc[p].fake /\ y.bare = proc[p].bare
      /\ proc[p].traced => y.st = "born"
      /\ ~proc[p].traced => y.st = "run"
  BY <1>1, NoneFacts DEF Process
<1>4. proc' = [proc EXCEPT ![p] = x, ![q] = y]
  BY <1>1 DEF Fork
<1> HIDE DEF x, y
<1>5. /\ proc' \in [Pids -> Process] /\ proc'[p] = x /\ proc'[q] = y
      /\ \A r \in Pids \ {p, q} : proc'[r] = proc[r]
  BY <1>1, <1>2, <1>3, <1>4
<1>6. UNCHANGED <<main, loop, stolen, eaten, early>>
  BY Zenon DEF Fork
<1> QED
  BY <1>1, <1>2, <1>3, <1>5, <1>6 DEF Keeps

\* A process ends.
LEMMA EndsFacts ==
    ASSUME TypeOK, NEW p \in Pids, NEW code \in {"ok", "error", "killed"}, Ends(p, code)
    PROVE  proc' \in [Pids -> Process] /\ Dies(p)
<1> DEFINE x == [None EXCEPT !.st = IF p = 1 \/ proc[p].traced THEN "zombie" ELSE "gone",
                             !.code = code]
<1>1. x \in Process /\ x.st \in {"zombie", "gone"}
  BY NoneFacts DEF Process
<1>2. proc' = [proc EXCEPT ![p] = x]
  BY DEF Ends
<1> HIDE DEF x
<1>3. proc' \in [Pids -> Process] /\ proc'[p] = x /\ Others(p)
  BY <1>1, <1>2, OneProcess DEF TypeOK
<1> QED
  BY <1>1, <1>3 DEF Dies

\* A process is reaped.
LEMMA ReapFacts ==
    ASSUME TypeOK, NEW p \in Pids, proc' = [proc EXCEPT ![p].st = "gone"]
    PROVE  /\ proc' \in [Pids -> Process] /\ Dies(p) /\ Keeps(p)
           /\ proc'[p].st = "gone"
<1> DEFINE x == [proc[p] EXCEPT !.st = "gone"]
<1>1. proc \in [Pids -> Process] /\ proc[p] \in Process
  BY DEF TypeOK
<1>2. /\ x \in Process /\ x.st = "gone" /\ x.code = proc[p].code
      /\ x.traced = proc[p].traced /\ x.fake = proc[p].fake /\ x.bare = proc[p].bare
  BY <1>1 DEF Process
<1>3. proc' = [proc EXCEPT ![p] = x]
  OBVIOUS
<1> HIDE DEF x
<1>4. proc' \in [Pids -> Process] /\ proc'[p] = x /\ Others(p)
  BY <1>1, <1>2, <1>3, OneProcess
<1> QED
  BY <1>2, <1>4 DEF Dies, Keeps

\* A wait has returned a stop, or a SIGSTOP is pending.
LEMMA SeenFacts ==
    ASSUME TypeOK, NEW p \in Pids,
           proc' = [proc EXCEPT ![p].seen = TRUE] \/ proc' = [proc EXCEPT ![p].pend = TRUE]
    PROVE  proc' \in [Pids -> Process] /\ Quiet
<1>1. proc \in [Pids -> Process] /\ proc[p] \in Process
  BY DEF TypeOK
<1>2. PICK x \in Process :
         /\ proc' = [proc EXCEPT ![p] = x]
         /\ x.st = proc[p].st /\ x.why = proc[p].why /\ x.kid = proc[p].kid
         /\ x.code = proc[p].code
         /\ x.traced = proc[p].traced /\ x.fake = proc[p].fake /\ x.bare = proc[p].bare
  <2>1. CASE proc' = [proc EXCEPT ![p].seen = TRUE]
    <3> DEFINE x == [proc[p] EXCEPT !.seen = TRUE]
    <3>1. /\ x \in Process
          /\ x.st = proc[p].st /\ x.why = proc[p].why /\ x.kid = proc[p].kid
          /\ x.code = proc[p].code
          /\ x.traced = proc[p].traced /\ x.fake = proc[p].fake /\ x.bare = proc[p].bare
      BY <1>1 DEF Process
    <3>2. proc' = [proc EXCEPT ![p] = x]
      BY <2>1
    <3> QED
      BY <3>1, <3>2
  <2>2. CASE proc' = [proc EXCEPT ![p].pend = TRUE]
    <3> DEFINE x == [proc[p] EXCEPT !.pend = TRUE]
    <3>1. /\ x \in Process
          /\ x.st = proc[p].st /\ x.why = proc[p].why /\ x.kid = proc[p].kid
          /\ x.code = proc[p].code
          /\ x.traced = proc[p].traced /\ x.fake = proc[p].fake /\ x.bare = proc[p].bare
      BY <1>1 DEF Process
    <3>2. proc' = [proc EXCEPT ![p] = x]
      BY <2>2
    <3> QED
      BY <3>1, <3>2
  <2> QED
    BY <2>1, <2>2
<1>3. proc' \in [Pids -> Process] /\ proc'[p] = x /\ Others(p)
  BY <1>1, <1>2, OneProcess
<1> QED
  BY <1>2, <1>3 DEF Quiet, Keeps, Others

\* Nothing happens to the processes.
LEMMA SameFacts ==
    ASSUME TypeOK, UNCHANGED proc
    PROVE  proc' \in [Pids -> Process] /\ Quiet
  BY DEF TypeOK, Quiet, Keeps

\* A new address space: the trampoline is gone, and a tracee stops.
LEMMA ExecFacts ==
    ASSUME TypeOK, NEW p \in Pids, Exec(p)
    PROVE  /\ proc' \in [Pids -> Process] /\ Others(p)
           /\ proc[p].st = "run"
           /\ proc'[p].traced = proc[p].traced
           /\ \/ proc'[p].st = "stop" /\ proc'[p].why = "exec"
              \/ ~proc[p].traced /\ proc'[p].st = "run"
           /\ UNCHANGED <<main, loop, stolen, eaten, early>>
<1> DEFINE x == [proc[p] EXCEPT !.st = "stop", !.why = "exec", !.seen = FALSE, !.fake = FALSE]
           y == [proc[p] EXCEPT !.fake = FALSE]
<1>1. proc \in [Pids -> Process] /\ proc[p] \in Process /\ proc[p].st = "run"
  BY DEF TypeOK, Exec, Watched
<1>2. x \in Process /\ x.st = "stop" /\ x.why = "exec" /\ x.traced = proc[p].traced
  BY <1>1 DEF Process
<1>3. y \in Process /\ y.st = "run" /\ y.traced = proc[p].traced
  BY <1>1 DEF Process
<1>6. UNCHANGED <<main, loop, stolen, eaten, early>>
  BY Zenon DEF Exec
<1>4. CASE proc[p].traced
  <2>1. proc' = [proc EXCEPT ![p] = x]
    BY <1>1, <1>4 DEF Exec, Stops
  <2> HIDE DEF x
  <2>2. proc' \in [Pids -> Process] /\ proc'[p] = x /\ Others(p)
    BY <1>1, <1>2, <2>1, OneProcess
  <2> QED
    BY <1>1, <1>2, <1>6, <2>2
<1>5. CASE ~proc[p].traced
  <2>1. proc' = [proc EXCEPT ![p] = y]
    BY <1>1, <1>5 DEF Exec
  <2> HIDE DEF y
  <2>2. proc' \in [Pids -> Process] /\ proc'[p] = y /\ Others(p)
    BY <1>1, <1>3, <2>1, OneProcess
  <2> QED
    BY <1>1, <1>3, <1>5, <1>6, <2>2
<1> QED
  BY <1>4, <1>5

\* The command runs with the trampoline.
LEMMA InjectOkFacts ==
    ASSUME TypeOK, InjectOk
    PROVE  /\ proc' \in [Pids -> Process] /\ Others(1)
           /\ proc'[1].st \in {"run", "halted"} /\ proc'[1].fake = TRUE
<1> DEFINE y == IF track THEN Resumed(proc[1]) ELSE Released(proc[1])
           x == [y EXCEPT !.fake = TRUE]
<1>1. proc \in [Pids -> Process] /\ proc[1] \in Process /\ 1 \in Pids
  BY PidAssumption DEF TypeOK
<1>2. y \in Process /\ y.st \in {"run", "halted"}
  BY <1>1, ResumedFacts, ReleasedFacts
<1>3. proc' = [proc EXCEPT ![1] = x]
  BY <1>1 DEF InjectOk
<1> HIDE DEF y
<1>4. x \in Process /\ x.st = y.st /\ x.fake = TRUE
  BY <1>2 DEF Process
<1> HIDE DEF x
<1>5. proc' \in [Pids -> Process] /\ proc'[1] = x /\ Others(1)
  BY <1>1, <1>3, <1>4, OneProcess
<1> QED
  BY <1>2, <1>4, <1>5

\* The command could not be injected.
LEMMA InjectErrFacts ==
    ASSUME TypeOK, InjectErr
    PROVE  proc' \in [Pids -> Process] /\ Dies(1) /\ proc'[1].st = "gone"
<1> DEFINE x == [proc[1] EXCEPT !.st = "gone", !.code = "killed"]
<1>1. proc \in [Pids -> Process] /\ proc[1] \in Process /\ 1 \in Pids
  BY PidAssumption DEF TypeOK
<1>2. x \in Process /\ x.st = "gone"
  BY <1>1 DEF Process
<1>3. proc' = [proc EXCEPT ![1] = x]
  BY <1>1 DEF InjectErr
<1> HIDE DEF x
<1>4. proc' \in [Pids -> Process] /\ proc'[1] = x /\ Others(1)
  BY <1>1, <1>2, <1>3, OneProcess
<1> QED
  BY <1>2, <1>4 DEF Dies

\* The kernel lets go of all tracees of a process that has exited.
LEMMA JoinFacts ==
    ASSUME TypeOK, Join
    PROVE  /\ proc' \in [Pids -> Process]
           /\ \A p \in Pids : /\ proc'[p].st \in {"run", "forking", "born", "stop"} => proc'[p].traced = FALSE
                              /\ proc'[p].code = proc[p].code
                              /\ proc[p].st = "gone" => proc'[p].st = "gone"
                              /\ proc'[p].st \in {"forking", "stop"} => proc'[p] = proc[p]
<1>0. proc \in [Pids -> Process]
  BY DEF TypeOK
<1>1. ASSUME NEW p \in Pids
      PROVE  /\ proc'[p] \in Process
             /\ proc'[p].st \in {"run", "forking", "born", "stop"} => proc'[p].traced = FALSE
             /\ proc'[p].code = proc[p].code
             /\ proc[p].st = "gone" => proc'[p].st = "gone"
             /\ proc'[p].st \in {"forking", "stop"} => proc'[p] = proc[p]
  <2>0. proc[p] \in Process
    BY <1>0
  <2>1. CASE proc[p].st = "born"
    <3>1. proc'[p] = [proc[p] EXCEPT !.st = "halted", !.traced = FALSE]
      BY <2>1 DEF Join
    <3> QED
      BY <2>0, <2>1, <3>1 DEF Process
  <2>2. CASE proc[p].st # "born" /\ Alive(p) /\ proc[p].traced
    <3>1. proc'[p] = Released(proc[p])
      BY <2>2 DEF Join
    <3> QED
      BY <2>0, <2>2, <3>1, ReleasedFacts DEF Alive
  <2>3. CASE proc[p].st = "zombie"
    <3>1. proc'[p] = [proc[p] EXCEPT !.st = "gone"]
      BY <2>3 DEF Join, Alive
    <3> QED
      BY <2>0, <2>3, <3>1 DEF Process
  <2>4. CASE proc[p].st \notin {"born", "zombie"} /\ ~(Alive(p) /\ proc[p].traced)
    <3>1. proc'[p] = proc[p]
      BY <2>4 DEF Join
    <3> QED
      BY <2>0, <2>4, <3>1 DEF Alive, Process
  <2> QED
    BY <2>1, <2>2, <2>3, <2>4
<1>2. proc' \in [Pids -> Process]
  <2>1. DOMAIN proc' = Pids /\ proc' = [p \in Pids |-> proc'[p]]
    BY DEF Join
  <2> QED
    BY <1>1, <2>1
<1> QED
  BY <1>1, <1>2

\* The process runs on, with the trampoline in its new address space,
LEMMA ReinjectOkFacts ==
    ASSUME TypeOK, ReinjectOk, loop.cur \in Pids
    PROVE  /\ proc' \in [Pids -> Process] /\ Continues(loop.cur)
           /\ proc[loop.cur].st = "stop" /\ proc'[loop.cur].fake = TRUE
           /\ proc'[loop.cur].code = proc[loop.cur].code
<1> DEFINE p == loop.cur
           x == [Resumed(proc[p]) EXCEPT !.fake = TRUE, !.bare = FALSE]
<1>1. proc \in [Pids -> Process] /\ proc[p] \in Process /\ p \in Pids /\ proc[p].st = "stop"
  BY DEF TypeOK, ReinjectOk
<1>2. /\ Resumed(proc[p]) \in Process /\ Resumed(proc[p]).st = "run"
      /\ Resumed(proc[p]).traced = proc[p].traced /\ Resumed(proc[p]).code = proc[p].code
  BY <1>1, ResumedFacts
<1>3. /\ x \in Process /\ x.st = "run" /\ x.fake = TRUE /\ x.traced = proc[p].traced
      /\ x.code = proc[p].code
  BY <1>2 DEF Process
<1>4. proc' = [proc EXCEPT ![p] = x]
  BY <1>1 DEF ReinjectOk, Cont
<1> HIDE DEF x
<1>5. proc' \in [Pids -> Process] /\ proc'[p] = x /\ Others(p)
  BY <1>1, <1>3, <1>4, OneProcess
<1> QED
  BY <1>1, <1>3, <1>5 DEF Continues

\* or without it.
LEMMA ReinjectErrFacts ==
    ASSUME TypeOK, ReinjectErr, loop.cur \in Pids
    PROVE  /\ proc' \in [Pids -> Process] /\ Others(loop.cur)
           /\ proc'[loop.cur].code = proc[loop.cur].code
           /\ \/ proc[loop.cur].st = "stop" /\ Continues(loop.cur) /\ proc'[loop.cur].bare = TRUE
              \/ /\ proc[loop.cur].st # "stop" /\ proc'[loop.cur].st = proc[loop.cur].st
                 /\ proc'[loop.cur].why = proc[loop.cur].why
                 /\ proc'[loop.cur].kid = proc[loop.cur].kid
                 /\ Alive(loop.cur) => proc'[loop.cur].bare = TRUE
<1> DEFINE p == loop.cur
           y == IF proc[p].st = "stop" THEN Resumed(proc[p]) ELSE proc[p]
           b == Alive(p)
           x == [y EXCEPT !.bare = b]
<1>1. proc \in [Pids -> Process] /\ proc[p] \in Process /\ p \in Pids
  BY DEF TypeOK
<1>2. y \in Process /\ y.code = proc[p].code
  BY <1>1, ResumedFacts
<1>3. b \in BOOLEAN
  BY DEF Alive
<1>4. proc' = [proc EXCEPT ![p] = x]
  BY <1>1 DEF ReinjectErr, Cont
<1>5. /\ proc[p].st = "stop" => b = TRUE
      /\ Alive(p) => b = TRUE
  BY DEF Alive
<1>6. /\ proc[p].st = "stop" => y.st = "run" /\ y.traced = proc[p].traced
      /\ proc[p].st # "stop" => y = proc[p]
  BY <1>1, ResumedFacts
<1> HIDE DEF y, b
<1>7. /\ x \in Process /\ x.bare = b /\ x.st = y.st /\ x.code = proc[p].code
      /\ x.traced = y.traced /\ x.why = y.why /\ x.kid = y.kid
  BY <1>2, <1>3 DEF Process
<1> HIDE DEF x
<1>8. proc' \in [Pids -> Process] /\ proc'[p] = x /\ Others(p)
  BY <1>1, <1>4, <1>7, OneProcess
<1> QED
  BY <1>5, <1>6, <1>7, <1>8 DEF Continues

\* A stop is swallowed or forwarded.
LEMMA LoopOtherFacts ==
    ASSUME TypeOK, LoopOther, loop.cur \in Pids
    PROVE  /\ proc' \in [Pids -> Process] /\ Others(loop.cur)
           /\ \/ /\ proc[loop.cur].st = "stop" /\ loop.cur \notin loop.pending
                 /\ proc[loop.cur].why \in {"init", "sigstop"} /\ Halts(loop.cur, "group")
              \/ proc[loop.cur].st = "stop" /\ Continues(loop.cur) /\ Keeps(loop.cur)
              \/ proc[loop.cur].st # "stop" /\ proc'[loop.cur] = proc[loop.cur]
<1> DEFINE p == loop.cur
<1>1. proc \in [Pids -> Process] /\ p \in Pids /\ proc[p] \in Process
  BY DEF TypeOK
<1>2. \/ /\ proc[p].st = "stop" /\ p \notin loop.pending
         /\ proc[p].why \in {"init", "sigstop"} /\ proc' = Stops(p, "group")
      \/ proc' = Cont(p)
  BY DEF LoopOther
<1> HIDE DEF p
<1>3. CASE /\ proc[p].st = "stop" /\ p \notin loop.pending
           /\ proc[p].why \in {"init", "sigstop"} /\ proc' = Stops(p, "group")
  <2>1. proc' \in [Pids -> Process] /\ Halts(p, "group")
    BY <1>1, <1>3, StopsFacts
  <2> QED
    BY <1>3, <2>1 DEF Halts, p
<1>4. CASE proc' = Cont(p)
  BY <1>1, <1>4, ContStep DEF p
<1> QED
  BY <1>2, <1>3, <1>4

\* InterruptDetach.
LEMMA DetachWaitFacts ==
    ASSUME TypeOK, DetachWait, loop.cur \in Pids
    PROVE  /\ proc' \in [Pids -> Process] /\ Others(loop.cur)
           /\ proc'[loop.cur].code = proc[loop.cur].code
           /\ \/ /\ proc[loop.cur].st = "stop"
                 /\ proc'[loop.cur].st \in {"run", "halted"} /\ proc'[loop.cur].traced = FALSE
              \/ proc'[loop.cur].st = "gone"
<1> DEFINE p == loop.cur
<1>1. proc \in [Pids -> Process] /\ p \in Pids /\ proc[p] \in Process
  BY DEF TypeOK
<1>2. \/ proc[p].st = "stop" /\ proc' = [proc EXCEPT ![p] = Released(proc[p])]
      \/ proc' = [proc EXCEPT ![p].st = "gone"]
  BY DEF DetachWait
<1> HIDE DEF p
<1>3. CASE proc[p].st = "stop" /\ proc' = [proc EXCEPT ![p] = Released(proc[p])]
  <2>1. Released(proc[p]) \in Process
    BY <1>1, ReleasedFacts
  <2>2. proc' \in [Pids -> Process] /\ proc'[p] = Released(proc[p]) /\ Others(p)
    BY <1>1, <1>3, <2>1, OneProcess
  <2> QED
    BY <1>1, <1>3, <2>2, ReleasedFacts DEF p
<1>4. CASE proc' = [proc EXCEPT ![p].st = "gone"]
  BY <1>1, <1>4, ReapFacts DEF Dies, Keeps, p
<1> QED
  BY <1>2, <1>3, <1>4

\* The SIGSTOP that is to stop a tracee.
LEMMA DetachSignalFacts ==
    ASSUME TypeOK, NEW p \in Pids, DetachSignal(p)
    PROVE  proc' \in [Pids -> Process] /\ Quiet
<1>1. proc' = [proc EXCEPT ![p].pend = TRUE] \/ UNCHANGED proc
  BY DEF DetachSignal
<1> QED
  BY <1>1, SeenFacts, SameFacts

(***************************************************************************)
(* The loop handles the stop that it has polled.                           *)
(***************************************************************************)
\* Every step keeps the types.
LEMMA TypeStep == LoopInv /\ [Next]_vars => TypeOK'
<1> SUFFICES ASSUME LoopInv, [Next]_vars PROVE TypeOK'
  OBVIOUS
<1>t. TypeOK
  BY DEF LoopInv
<1>p. 1 \in Pids /\ proc \in [Pids -> Process] /\ \A p \in Pids : proc[p] \in Process
  BY <1>t, PidAssumption DEF TypeOK
<1>c. loop.pc \in {"fork", "exec", "other", "detach"} => loop.cur \in Pids
  BY DEF LoopInv, Current
<1>1. ASSUME InjectOk PROVE TypeOK'
  <2>1. proc' \in [Pids -> Process]
    BY <1>t, <1>p, <1>1, InjectOkFacts DEF InjectOk
  <2> QED
    BY <1>t, <1>p, <1>1, <2>1 DEF TypeOK, Main, Loop, InjectOk
<1>2. ASSUME InjectErr PROVE TypeOK'
  <2>1. proc' \in [Pids -> Process]
    BY <1>t, <1>p, <1>2, InjectErrFacts DEF InjectErr
  <2> QED
    BY <1>t, <1>p, <1>2, <2>1 DEF TypeOK, Main, Loop, InjectErr
<1>3. ASSUME WaitExit PROVE TypeOK'
  <2>1. proc' \in [Pids -> Process]
    BY <1>t, <1>p, <1>3, ReapFacts DEF WaitExit
  <2>2. proc[1].code \in {"none", "ok", "error", "killed"}
    BY <1>p DEF Process
  <2>3. main' \in Main
    BY <1>3, <2>2 DEF WaitExit, Main
  <2> QED
    BY <1>t, <1>3, <2>1, <2>3 DEF TypeOK, WaitExit
<1>4. ASSUME WaitStop PROVE TypeOK'
  <2>1. proc' \in [Pids -> Process]
    BY <1>t, <1>p, <1>4, SeenFacts DEF WaitStop
  <2> QED
    BY <1>t, <1>p, <1>4, <2>1 DEF TypeOK, Main, Loop, WaitStop
<1>5. ASSUME WaitNoChild PROVE TypeOK'
  <2>1. proc' \in [Pids -> Process]
    BY <1>t, <1>p, <1>5, SameFacts DEF WaitNoChild
  <2> QED
    BY <1>t, <1>p, <1>5, <2>1 DEF TypeOK, Main, Loop, WaitNoChild
<1>6. ASSUME CloseDone PROVE TypeOK'
  <2>1. proc' \in [Pids -> Process]
    BY <1>t, <1>p, <1>6, SameFacts DEF CloseDone
  <2> QED
    BY <1>t, <1>p, <1>6, <2>1 DEF TypeOK, Main, Loop, CloseDone
<1>7. ASSUME Join PROVE TypeOK'
  <2>1. proc' \in [Pids -> Process]
    BY <1>t, <1>p, <1>7, JoinFacts DEF Join
  <2> QED
    BY <1>t, <1>p, <1>7, <2>1 DEF TypeOK, Main, Loop, Join
<1>8. ASSUME NEW p \in Pids, PollStop(p) PROVE TypeOK'
  <2>1. proc' \in [Pids -> Process]
    BY <1>t, <1>p, <1>8, SeenFacts DEF PollStop
  <2> QED
    BY <1>t, <1>p, <1>8, <2>1 DEF TypeOK, Main, Loop, PollStop, At
<1>9. ASSUME NEW p \in Pids, PollExit(p) PROVE TypeOK'
  <2>1. proc' \in [Pids -> Process]
    BY <1>t, <1>p, <1>9, ReapFacts DEF PollExit
  <2> QED
    BY <1>t, <1>p, <1>9, <2>1 DEF TypeOK, Main, Loop, PollExit
<1>10. ASSUME NEW p \in Pids, DetachSignal(p) PROVE TypeOK'
  <2>1. proc' \in [Pids -> Process]
    BY <1>t, <1>p, <1>10, DetachSignalFacts DEF DetachSignal
  <2> QED
    BY <1>t, <1>p, <1>10, <2>1 DEF TypeOK, Main, Loop, DetachSignal
<1>11. ASSUME LoopFork PROVE TypeOK'
  <2>1. proc' \in [Pids -> Process]
    BY <1>c, <1>t, <1>p, <1>11, ContStep DEF LoopFork
  <2>2. proc[loop.cur].st = "stop" => proc[loop.cur].kid \in Pids
    BY <1>c, <1>11 DEF LoopFork, LoopInv, Current, Kids, Announces
  <2>3. loop \in Loop
    BY <1>t DEF TypeOK
  <2>4. loop' \in Loop
    BY <1>11, <2>2, <2>3 DEF LoopFork, Loop
  <2> QED
    BY <1>t, <1>11, <2>1, <2>4 DEF TypeOK, LoopFork
<1>12. ASSUME ReinjectOk PROVE TypeOK'
  <2>1. proc' \in [Pids -> Process]
    BY <1>c, <1>t, <1>p, <1>12, ReinjectOkFacts DEF ReinjectOk
  <2> QED
    BY <1>c, <1>t, <1>p, <1>12, <2>1 DEF TypeOK, Main, Loop, ReinjectOk
<1>13. ASSUME ReinjectErr PROVE TypeOK'
  <2>1. proc' \in [Pids -> Process]
    BY <1>c, <1>t, <1>p, <1>13, ReinjectErrFacts DEF ReinjectErr
  <2> QED
    BY <1>c, <1>t, <1>p, <1>13, <2>1 DEF TypeOK, Main, Loop, ReinjectErr, At
<1>14. ASSUME LoopOther PROVE TypeOK'
  <2>1. proc' \in [Pids -> Process]
    BY <1>c, <1>t, <1>p, <1>14, LoopOtherFacts DEF LoopOther
  <2> QED
    BY <1>c, <1>t, <1>p, <1>14, <2>1 DEF TypeOK, Main, Loop, LoopOther
<1>15. ASSUME LoopReturn PROVE TypeOK'
  <2>1. proc' \in [Pids -> Process]
    BY <1>t, <1>p, <1>15, SameFacts DEF LoopReturn
  <2> QED
    BY <1>t, <1>p, <1>15, <2>1 DEF TypeOK, Main, Loop, LoopReturn
<1>16. ASSUME DetachWait PROVE TypeOK'
  <2>1. proc' \in [Pids -> Process]
    BY <1>c, <1>t, <1>p, <1>16, DetachWaitFacts DEF DetachWait
  <2> QED
    BY <1>c, <1>t, <1>p, <1>16, <2>1 DEF TypeOK, Main, Loop, DetachWait, At
<1>17. ASSUME NEW p \in Pids, ForkStop(p) PROVE TypeOK'
  <2>1. proc' \in [Pids -> Process]
    BY <1>t, <1>p, <1>17, StopsFacts DEF ForkStop
  <2> QED
    BY <1>t, <1>p, <1>17, <2>1 DEF TypeOK, Main, Loop, ForkStop
<1>18. ASSUME NEW p \in Pids, InitStop(p) PROVE TypeOK'
  <2>1. proc' \in [Pids -> Process]
    BY <1>t, <1>p, <1>18, StopsTaken DEF InitStop
  <2> QED
    BY <1>t, <1>p, <1>18, <2>1 DEF TypeOK, Main, Loop, InitStop
<1>19. ASSUME NEW p \in Pids, SigStop(p) PROVE TypeOK'
  <2>1. proc' \in [Pids -> Process]
    BY <1>t, <1>p, <1>19, StopsTaken DEF SigStop
  <2> QED
    BY <1>t, <1>p, <1>19, <2>1 DEF TypeOK, Main, Loop, SigStop
<1>20. ASSUME NEW p \in Pids, NEW q \in Pids, Fork(p, q) PROVE TypeOK'
  <2>1. proc' \in [Pids -> Process]
    BY <1>t, <1>p, <1>20, ForkFacts DEF Fork
  <2> QED
    BY <1>t, <1>p, <1>20, <2>1 DEF TypeOK, Main, Loop, Fork
<1>21. ASSUME NEW p \in Pids, Exec(p) PROVE TypeOK'
  <2>1. proc' \in [Pids -> Process]
    BY <1>t, <1>p, <1>21, ExecFacts DEF Exec
  <2> QED
    BY <1>t, <1>p, <1>21, <2>1 DEF TypeOK, Main, Loop, Exec
<1>22. ASSUME NEW p \in Pids, Signal(p) PROVE TypeOK'
  <2>1. proc' \in [Pids -> Process]
    BY <1>t, <1>p, <1>22, StopsFacts DEF Signal
  <2> QED
    BY <1>t, <1>p, <1>22, <2>1 DEF TypeOK, Main, Loop, Signal
<1>23. ASSUME NEW p \in Pids, Kill(p) PROVE TypeOK'
  <2>1. proc' \in [Pids -> Process]
    BY <1>t, <1>p, <1>23, EndsFacts DEF Kill
  <2> QED
    BY <1>t, <1>p, <1>23, <2>1 DEF TypeOK, Main, Loop, Kill
<1>24. ASSUME NEW p \in Pids, NEW code \in {"ok", "error"}, Exit(p, code) PROVE TypeOK'
  <2>1. proc' \in [Pids -> Process]
    BY <1>t, <1>p, <1>24, EndsFacts DEF Exit
  <2> QED
    BY <1>t, <1>p, <1>24, <2>1 DEF TypeOK, Main, Loop, Exit
<1>25. CASE UNCHANGED vars
  BY <1>t, <1>25 DEF TypeOK, vars
<1> QED
  BY <1>1, <1>2, <1>3, <1>4, <1>5, <1>6, <1>7, <1>8, <1>9, <1>10, <1>11, <1>12, <1>13,
     <1>14, <1>15, <1>16, <1>17, <1>18, <1>19, <1>20, <1>21, <1>22, <1>23, <1>24, <1>25
     DEF Next, CmdRun, WatchLoop, Kernel, Processes

(***************************************************************************)
(* The effect of each action on the processes, the loop and cmdRun.        *)
(***************************************************************************)
\* The command runs, with or without the watch loop.
LEMMA InjectOkStep ==
    ASSUME LoopInv, InjectOk
    PROVE  /\ Others(1) /\ proc'[1].st \in {"run", "halted"} /\ proc'[1].fake = TRUE
           /\ main.pc = "inject" /\ main'.pc = "wait"
           /\ loop'.pc \in {"top", "returned"} /\ loop'.pending = loop.pending
           /\ UNCHANGED <<stolen, eaten, early>>
<1>1. TypeOK /\ 1 \in Pids /\ \A q \in Pids : proc[q] \in Process
  BY PidAssumption DEF LoopInv, TypeOK
<1>2. Others(1) /\ proc'[1].st \in {"run", "halted"} /\ proc'[1].fake = TRUE
  BY <1>1, InjectOkFacts
<1> QED
  BY <1>1, <1>2 DEF InjectOk, TypeOK, Loop, Main

\* The command is killed.
LEMMA InjectErrStep ==
    ASSUME LoopInv, InjectErr
    PROVE  /\ Dies(1) /\ proc'[1].st = "gone"
           /\ main.pc = "inject" /\ main'.pc = "end" /\ main'.code = "lost"
           /\ UNCHANGED <<loop, stolen, eaten, early>>
<1>1. TypeOK /\ 1 \in Pids /\ \A q \in Pids : proc[q] \in Process
  BY PidAssumption DEF LoopInv, TypeOK
<1>2. Dies(1) /\ proc'[1].st = "gone"
  BY <1>1, InjectErrFacts
<1> QED
  BY <1>1, <1>2 DEF InjectErr, TypeOK, Loop, Main

\* cmd.Wait returns with the exit,
LEMMA WaitExitStep ==
    ASSUME LoopInv, WaitExit
    PROVE  /\ Dies(1) /\ Keeps(1) /\ proc[1].st = "zombie" /\ proc'[1].st = "gone"
           /\ main.pc = "wait" /\ main'.pc = "close" /\ main'.code = proc[1].code
           /\ UNCHANGED <<loop, stolen, eaten, early>>
<1>1. TypeOK /\ 1 \in Pids /\ \A q \in Pids : proc[q] \in Process
  BY PidAssumption DEF LoopInv, TypeOK
<1>2. Dies(1) /\ Keeps(1) /\ proc[1].st = "zombie" /\ proc'[1].st = "gone"
  BY <1>1, ReapFacts DEF WaitExit
<1> QED
  BY <1>1, <1>2 DEF WaitExit, TypeOK, Loop, Main

\* with a stop,
LEMMA WaitStopStep ==
    ASSUME LoopInv, WaitStop
    PROVE  /\ Quiet
           /\ main.pc = "wait" /\ main'.pc = "close" /\ stolen' = TRUE
           /\ UNCHANGED <<loop, eaten, early>>
<1>1. TypeOK /\ 1 \in Pids /\ \A q \in Pids : proc[q] \in Process
  BY PidAssumption DEF LoopInv, TypeOK
<1>2. Quiet
  BY <1>1, SeenFacts DEF WaitStop
<1> QED
  BY <1>1, <1>2 DEF WaitStop, TypeOK, Loop, Main

\* or with nothing to wait for.
LEMMA WaitNoChildStep ==
    ASSUME LoopInv, WaitNoChild
    PROVE  /\ Quiet /\ proc[1].st = "gone"
           /\ main.pc = "wait" /\ main'.pc = "close" /\ main'.code = "lost"
           /\ UNCHANGED <<loop, stolen, eaten, early>>
<1>1. TypeOK /\ 1 \in Pids /\ \A q \in Pids : proc[q] \in Process
  BY PidAssumption DEF LoopInv, TypeOK
<1>2. Quiet /\ proc[1].st = "gone"
  BY <1>1, SameFacts DEF WaitNoChild
<1> QED
  BY <1>1, <1>2 DEF WaitNoChild, TypeOK, Loop, Main

\* done is closed.
LEMMA CloseDoneStep ==
    ASSUME LoopInv, CloseDone
    PROVE  /\ Quiet
           /\ main.pc = "close" /\ main'.pc = "join" /\ main'.code = main.code
           /\ UNCHANGED <<loop, stolen, eaten, early>>
<1>1. TypeOK /\ 1 \in Pids /\ \A q \in Pids : proc[q] \in Process
  BY PidAssumption DEF LoopInv, TypeOK
<1>2. Quiet
  BY <1>1, SameFacts DEF CloseDone
<1> QED
  BY <1>1, <1>2 DEF CloseDone, TypeOK, Loop, Main

\* faketimectl exits.
LEMMA JoinStep ==
    ASSUME LoopInv, Join
    PROVE  /\ \A p \in Pids : /\ proc'[p].st \in {"run", "forking", "born", "stop"} => proc'[p].traced = FALSE
                              /\ proc'[p].code = proc[p].code
                              /\ proc[p].st = "gone" => proc'[p].st = "gone"
                              /\ proc'[p].st \in {"forking", "stop"} => proc'[p] = proc[p]
           /\ main.pc = "join" /\ main'.pc = "end" /\ main'.code = main.code
           /\ loop.pc = "returned"
           /\ UNCHANGED <<loop, stolen, eaten, early>>
<1>1. TypeOK /\ 1 \in Pids /\ \A q \in Pids : proc[q] \in Process
  BY PidAssumption DEF LoopInv, TypeOK
<1>2. \A p \in Pids : /\ proc'[p].st \in {"run", "forking", "born", "stop"} => proc'[p].traced = FALSE
                      /\ proc'[p].code = proc[p].code
                      /\ proc[p].st = "gone" => proc'[p].st = "gone"
                      /\ proc'[p].st \in {"forking", "stop"} => proc'[p] = proc[p]
  BY <1>1, JoinFacts
<1>3. /\ main.pc = "join" /\ main' = [main EXCEPT !.pc = "end"] /\ loop.pc = "returned"
      /\ UNCHANGED <<loop, stolen, eaten, early>>
  BY Zenon DEF Join
<1>4. main'.pc = "end" /\ main'.code = main.code
  BY <1>1, <1>3 DEF TypeOK, Main
<1> QED
  BY <1>2, <1>3, <1>4, Zenon

\* The loop polls a stop,
LEMMA PollStopStep ==
    ASSUME LoopInv, NEW p \in Pids, PollStop(p)
    PROVE  /\ Quiet /\ proc[p].st = "stop"
           /\ loop.pc = "top" /\ loop'.cur = p /\ loop'.pending = loop.pending
           /\ loop'.pc = IF proc[p].why \in {"fork", "exec"} THEN proc[p].why ELSE "other"
           /\ UNCHANGED <<main, stolen, eaten, early>>
<1>1. TypeOK /\ 1 \in Pids /\ \A q \in Pids : proc[q] \in Process
  BY PidAssumption DEF LoopInv, TypeOK
<1>2. Quiet /\ proc[p].st = "stop"
  BY <1>1, SeenFacts DEF PollStop
<1> QED
  BY <1>1, <1>2 DEF PollStop, TypeOK, Loop, Main, At

\* or an exit,
LEMMA PollExitStep ==
    ASSUME LoopInv, NEW p \in Pids, PollExit(p)
    PROVE  /\ Dies(p) /\ Keeps(p) /\ proc[p].st = "zombie" /\ proc'[p].st = "gone"
           /\ loop.pc = "top" /\ loop'.pc = "top" /\ loop'.pending = loop.pending \ {p}
           /\ UNCHANGED <<main, stolen, eaten, early>>
<1>1. TypeOK /\ 1 \in Pids /\ \A q \in Pids : proc[q] \in Process
  BY PidAssumption DEF LoopInv, TypeOK
<1>2. Dies(p) /\ Keeps(p) /\ proc[p].st = "zombie" /\ proc'[p].st = "gone"
  BY <1>1, ReapFacts DEF PollExit
<1> QED
  BY <1>1, <1>2 DEF PollExit, TypeOK, Loop, Main

\* or is done.
LEMMA LoopReturnStep ==
    ASSUME LoopInv, LoopReturn
    PROVE  /\ Quiet
           /\ loop.pc = "top" /\ loop'.pc = "clean" /\ loop'.pending = loop.pending
           /\ UNCHANGED <<main, stolen, eaten, early>>
<1>1. TypeOK /\ 1 \in Pids /\ \A q \in Pids : proc[q] \in Process
  BY PidAssumption DEF LoopInv, TypeOK
<1>2. Quiet
  BY <1>1, SameFacts DEF LoopReturn
<1> QED
  BY <1>1, <1>2 DEF LoopReturn, TypeOK, Loop, Main

\* A fork is announced.
LEMMA LoopForkStep ==
    ASSUME LoopInv, LoopFork
    PROVE  /\ Others(loop.cur)
           /\ \/ /\ proc[loop.cur].st = "stop" /\ Continues(loop.cur) /\ Keeps(loop.cur)
                 /\ \/ loop'.pending = loop.pending \union {proc[loop.cur].kid}
                    \/ loop'.pending = loop.pending
              \/ /\ proc[loop.cur].st # "stop" /\ proc'[loop.cur] = proc[loop.cur]
                 /\ loop'.pending = loop.pending
           /\ loop.pc = "fork" /\ loop'.pc = "top"
           /\ UNCHANGED <<main, stolen, eaten, early>>
<1>1. TypeOK /\ 1 \in Pids /\ \A q \in Pids : proc[q] \in Process
  BY PidAssumption DEF LoopInv, TypeOK
<1>2. loop.cur \in Pids
  BY DEF LoopInv, Current, LoopFork
<1>3. /\ Others(loop.cur)
      /\ \/ proc[loop.cur].st = "stop" /\ Continues(loop.cur) /\ Keeps(loop.cur)
         \/ proc[loop.cur].st # "stop" /\ proc'[loop.cur] = proc[loop.cur]
  BY <1>1, <1>2, ContStep DEF LoopFork, TypeOK
<1> QED
  BY <1>1, <1>3 DEF LoopFork, TypeOK, Loop

\* A process is injected again after an exec,
LEMMA ReinjectOkStep ==
    ASSUME LoopInv, ReinjectOk
    PROVE  /\ proc[loop.cur].st = "stop" /\ Continues(loop.cur) /\ proc'[loop.cur].fake = TRUE
           /\ proc'[loop.cur].code = proc[loop.cur].code
           /\ loop.pc = "exec" /\ loop'.pc = "top" /\ loop'.pending = loop.pending
           /\ UNCHANGED <<main, stolen, eaten, early>>
<1>1. TypeOK /\ 1 \in Pids /\ \A q \in Pids : proc[q] \in Process
  BY PidAssumption DEF LoopInv, TypeOK
<1>2. loop.cur \in Pids
  BY DEF LoopInv, Current, ReinjectOk
<1>3. /\ proc[loop.cur].st = "stop" /\ Continues(loop.cur) /\ proc'[loop.cur].fake = TRUE
      /\ proc'[loop.cur].code = proc[loop.cur].code
  BY <1>1, <1>2, ReinjectOkFacts
<1> QED
  BY <1>1, <1>3 DEF ReinjectOk, TypeOK, Loop, Main

\* or continued as it is.
LEMMA ReinjectErrStep ==
    ASSUME LoopInv, ReinjectErr
    PROVE  /\ Others(loop.cur)
           /\ proc'[loop.cur].code = proc[loop.cur].code
           /\ \/ proc[loop.cur].st = "stop" /\ Continues(loop.cur) /\ proc'[loop.cur].bare = TRUE
              \/ /\ proc[loop.cur].st # "stop" /\ proc'[loop.cur].st = proc[loop.cur].st
                 /\ proc'[loop.cur].why = proc[loop.cur].why
                 /\ proc'[loop.cur].kid = proc[loop.cur].kid
                 /\ Alive(loop.cur) => proc'[loop.cur].bare = TRUE
           /\ loop.pc = "exec" /\ loop'.pc = "top" /\ loop'.pending = loop.pending
           /\ UNCHANGED <<main, stolen, eaten, early>>
<1>1. TypeOK /\ 1 \in Pids /\ \A q \in Pids : proc[q] \in Process
  BY PidAssumption DEF LoopInv, TypeOK
<1>2. loop.cur \in Pids
  BY DEF LoopInv, Current, ReinjectErr
<1>3. /\ Others(loop.cur)
      /\ proc'[loop.cur].code = proc[loop.cur].code
      /\ \/ proc[loop.cur].st = "stop" /\ Continues(loop.cur) /\ proc'[loop.cur].bare = TRUE
         \/ /\ proc[loop.cur].st # "stop" /\ proc'[loop.cur].st = proc[loop.cur].st
            /\ proc'[loop.cur].why = proc[loop.cur].why
            /\ proc'[loop.cur].kid = proc[loop.cur].kid
            /\ Alive(loop.cur) => proc'[loop.cur].bare = TRUE
  BY <1>1, <1>2, ReinjectErrFacts
<1> QED
  BY <1>1, <1>3 DEF ReinjectErr, TypeOK, Loop, Main, At

\* A stop is swallowed or forwarded.
LEMMA LoopOtherStep ==
    ASSUME LoopInv, LoopOther
    PROVE  /\ Others(loop.cur)
           /\ \/ /\ proc[loop.cur].st = "stop" /\ loop.cur \notin loop.pending
                 /\ proc[loop.cur].why \in {"init", "sigstop"} /\ Halts(loop.cur, "group")
              \/ proc[loop.cur].st = "stop" /\ Continues(loop.cur) /\ Keeps(loop.cur)
              \/ proc[loop.cur].st # "stop" /\ proc'[loop.cur] = proc[loop.cur]
           /\ loop.pc = "other" /\ loop'.pc = "top" /\ loop'.pending = loop.pending \ {loop.cur}
           /\ \/ eaten' = eaten
              \/ /\ eaten' = eaten \union {loop.cur} /\ loop.cur \in loop.pending
                 /\ proc[loop.cur].st = "stop" /\ proc[loop.cur].why = "signal"
           /\ early' = IF proc[loop.cur].st = "stop" /\ loop.cur \notin loop.pending /\ proc[loop.cur].why = "init"
                       THEN early \union {loop.cur} ELSE early
           /\ UNCHANGED <<main, stolen>>
<1>1. TypeOK /\ 1 \in Pids /\ \A q \in Pids : proc[q] \in Process
  BY PidAssumption DEF LoopInv, TypeOK
<1>2. loop.cur \in Pids
  BY DEF LoopInv, Current, LoopOther
<1>3. /\ Others(loop.cur)
      /\ \/ /\ proc[loop.cur].st = "stop" /\ loop.cur \notin loop.pending
            /\ proc[loop.cur].why \in {"init", "sigstop"} /\ Halts(loop.cur, "group")
         \/ proc[loop.cur].st = "stop" /\ Continues(loop.cur) /\ Keeps(loop.cur)
         \/ proc[loop.cur].st # "stop" /\ proc'[loop.cur] = proc[loop.cur]
  BY <1>1, <1>2, LoopOtherFacts
<1> QED
  BY <1>1, <1>3 DEF LoopOther, TypeOK, Loop, Main

\* A tracee is signalled,
LEMMA DetachSignalStep ==
    ASSUME LoopInv, NEW p \in Pids, DetachSignal(p)
    PROVE  /\ Quiet
           /\ loop.pc = "clean" /\ loop'.pc = "detach" /\ loop'.cur = p
           /\ UNCHANGED <<main, stolen, eaten, early>>
<1>1. TypeOK /\ 1 \in Pids /\ \A q \in Pids : proc[q] \in Process
  BY PidAssumption DEF LoopInv, TypeOK
<1>2. Quiet
  BY <1>1, DetachSignalFacts
<1> QED
  BY <1>1, <1>2 DEF DetachSignal, TypeOK, Loop, Main

\* and let go of.
LEMMA DetachWaitStep ==
    ASSUME LoopInv, DetachWait
    PROVE  /\ Others(loop.cur) /\ proc'[loop.cur].code = proc[loop.cur].code
           /\ \/ /\ proc[loop.cur].st = "stop"
                 /\ proc'[loop.cur].st \in {"run", "halted"} /\ proc'[loop.cur].traced = FALSE
              \/ proc'[loop.cur].st = "gone"
           /\ loop.pc = "detach" /\ loop'.pc \in {"clean", "returned"}
           /\ UNCHANGED <<main, stolen, eaten, early>>
<1>1. TypeOK /\ 1 \in Pids /\ \A q \in Pids : proc[q] \in Process
  BY PidAssumption DEF LoopInv, TypeOK
<1>2. loop.cur \in Pids
  BY DEF LoopInv, Current, DetachWait
<1>3. /\ Others(loop.cur) /\ proc'[loop.cur].code = proc[loop.cur].code
      /\ \/ /\ proc[loop.cur].st = "stop"
            /\ proc'[loop.cur].st \in {"run", "halted"} /\ proc'[loop.cur].traced = FALSE
         \/ proc'[loop.cur].st = "gone"
  BY <1>1, <1>2, DetachWaitFacts
<1> QED
  BY <1>1, <1>3 DEF DetachWait, TypeOK, Loop, Main, At

\* The stops that the kernel delivers.
LEMMA ForkStopStep ==
    ASSUME LoopInv, NEW p \in Pids, ForkStop(p)
    PROVE  /\ Halts(p, "fork") /\ proc[p].st = "forking"
           /\ UNCHANGED <<main, loop, stolen, eaten, early>>
<1>1. TypeOK /\ 1 \in Pids /\ \A q \in Pids : proc[q] \in Process
  BY PidAssumption DEF LoopInv, TypeOK
<1>2. Halts(p, "fork") /\ proc[p].st = "forking"
  BY <1>1, StopsFacts DEF ForkStop, TypeOK
<1> QED
  BY <1>1, <1>2 DEF ForkStop, TypeOK, Loop, Main

LEMMA InitStopStep ==
    ASSUME LoopInv, NEW p \in Pids, InitStop(p)
    PROVE  /\ Halts(p, "init") /\ proc[p].st = "born"
           /\ UNCHANGED <<main, loop, stolen, eaten, early>>
<1>1. TypeOK /\ 1 \in Pids /\ \A q \in Pids : proc[q] \in Process
  BY PidAssumption DEF LoopInv, TypeOK
<1>2. Halts(p, "init") /\ proc[p].st = "born"
  BY <1>1, StopsTaken DEF InitStop, TypeOK
<1> QED
  BY <1>1, <1>2 DEF InitStop, TypeOK, Loop, Main

LEMMA SigStopStep ==
    ASSUME LoopInv, NEW p \in Pids, SigStop(p)
    PROVE  /\ Halts(p, "sigstop") /\ proc[p].st = "run"
           /\ UNCHANGED <<main, loop, stolen, eaten, early>>
<1>1. TypeOK /\ 1 \in Pids /\ \A q \in Pids : proc[q] \in Process
  BY PidAssumption DEF LoopInv, TypeOK
<1>2. Halts(p, "sigstop") /\ proc[p].st = "run"
  BY <1>1, StopsTaken DEF SigStop, Watched, TypeOK
<1> QED
  BY <1>1, <1>2 DEF SigStop, TypeOK, Loop, Main

\* A signal, an exec, the ends of a process.
LEMMA SignalStep ==
    ASSUME LoopInv, NEW p \in Pids, Signal(p)
    PROVE  /\ Halts(p, "signal") /\ proc[p].st = "run"
           /\ UNCHANGED <<main, loop, stolen, eaten, early>>
<1>1. TypeOK /\ 1 \in Pids /\ \A q \in Pids : proc[q] \in Process
  BY PidAssumption DEF LoopInv, TypeOK
<1>2. Halts(p, "signal") /\ proc[p].st = "run"
  BY <1>1, StopsFacts DEF Signal, Watched, TypeOK
<1> QED
  BY <1>1, <1>2 DEF Signal, TypeOK, Loop, Main

LEMMA KillStep ==
    ASSUME LoopInv, NEW p \in Pids, Kill(p)
    PROVE  /\ Dies(p) /\ Alive(p)
           /\ main.pc # "inject"
           /\ UNCHANGED <<main, loop, stolen, eaten, early>>
<1>1. TypeOK /\ 1 \in Pids /\ \A q \in Pids : proc[q] \in Process
  BY PidAssumption DEF LoopInv, TypeOK
<1>2. Dies(p) /\ Alive(p)
  BY <1>1, EndsFacts DEF Kill
<1> QED
  BY <1>1, <1>2 DEF Kill, TypeOK, Loop, Main

LEMMA ExitStep ==
    ASSUME LoopInv, NEW p \in Pids, NEW code \in {"ok", "error"}, Exit(p, code)
    PROVE  /\ Dies(p) /\ proc[p].st = "run"
           /\ UNCHANGED <<main, loop, stolen, eaten, early>>
<1>1. TypeOK /\ 1 \in Pids /\ \A q \in Pids : proc[q] \in Process
  BY PidAssumption DEF LoopInv, TypeOK
<1>2. Dies(p) /\ proc[p].st = "run"
  BY <1>1, EndsFacts DEF Exit, Watched
<1> QED
  BY <1>1, <1>2 DEF Exit, TypeOK, Loop, Main

(***************************************************************************)
(* Every step keeps the invariants.                                        *)
(***************************************************************************)
\* The loop handles the stop that it has polled.
LEMMA LoopKept == LoopInv /\ [Next]_vars => LoopInv'
<1> SUFFICES ASSUME LoopInv, [Next]_vars PROVE LoopInv'
  OBVIOUS
<1>t. TypeOK /\ TypeOK' /\ 1 \in Pids
  BY PidAssumption, TypeStep DEF LoopInv, TypeOK
<1>c. loop.pc \in {"fork", "exec", "other", "detach"} => loop.cur \in Pids
  BY DEF LoopInv, Current
<1>1. ASSUME InjectOk PROVE (Before /\ Current /\ Kids)'
  BY <1>t, <1>c, <1>1, InjectOkStep DEF LoopInv, Before, Current, Kids, Announces, Others
<1>2. ASSUME InjectErr PROVE (Before /\ Current /\ Kids)'
  BY <1>t, <1>c, <1>2, InjectErrStep DEF LoopInv, Before, Current, Kids, Announces, Dies, Others
<1>3. ASSUME WaitExit PROVE (Before /\ Current /\ Kids)'
  BY <1>t, <1>c, <1>3, WaitExitStep DEF LoopInv, Before, Current, Kids, Announces, Dies, Others, Keeps
<1>4. ASSUME WaitStop PROVE (Before /\ Current /\ Kids)'
  <2>1. Quiet /\ main'.pc = "close" /\ UNCHANGED loop
    BY <1>4, WaitStopStep
  <2>2. Kids'
    BY <2>1 DEF LoopInv, Kids, Announces, Quiet
  <2>3. Current'
    BY <1>c, <2>1 DEF LoopInv, Current, Quiet
  <2> QED
    BY <2>1, <2>2, <2>3 DEF Before
<1>5. ASSUME WaitNoChild PROVE (Before /\ Current /\ Kids)'
  BY <1>t, <1>c, <1>5, WaitNoChildStep DEF LoopInv, Before, Current, Kids, Announces, Quiet, Keeps
<1>6. ASSUME CloseDone PROVE (Before /\ Current /\ Kids)'
  BY <1>t, <1>c, <1>6, CloseDoneStep DEF LoopInv, Before, Current, Kids, Announces, Quiet, Keeps
<1>7. ASSUME Join PROVE (Before /\ Current /\ Kids)'
  <2>1. main'.pc = "end" /\ loop'.pc = "returned"
    BY <1>7, JoinStep
  <2>2. \A p \in Pids : proc'[p].st \in {"forking", "stop"} => proc'[p] = proc[p]
    BY <1>7, JoinStep
  <2>3. Kids'
    BY <2>2 DEF LoopInv, Kids, Announces
  <2> QED
    BY <2>1, <2>3 DEF Before, Current
<1>8. ASSUME NEW p \in Pids, PollStop(p) PROVE (Before /\ Current /\ Kids)'
  BY <1>t, <1>c, <1>8, PollStopStep DEF LoopInv, Before, Current, Kids, Announces, Quiet, Keeps
<1>9. ASSUME NEW p \in Pids, PollExit(p) PROVE (Before /\ Current /\ Kids)'
  BY <1>t, <1>c, <1>9, PollExitStep DEF LoopInv, Before, Current, Kids, Announces, Dies, Others, Keeps
<1>10. ASSUME NEW p \in Pids, DetachSignal(p) PROVE (Before /\ Current /\ Kids)'
  BY <1>t, <1>c, <1>10, DetachSignalStep DEF LoopInv, Before, Current, Kids, Announces, Quiet, Keeps
<1>11. ASSUME LoopFork PROVE (Before /\ Current /\ Kids)'
  BY <1>t, <1>c, <1>11, LoopForkStep DEF LoopInv, Before, Current, Kids, Announces, Others, Continues, Keeps
<1>12. ASSUME ReinjectOk PROVE (Before /\ Current /\ Kids)'
  BY <1>t, <1>c, <1>12, ReinjectOkStep DEF LoopInv, Before, Current, Kids, Announces, Others, Continues
<1>13. ASSUME ReinjectErr PROVE (Before /\ Current /\ Kids)'
  BY <1>t, <1>c, <1>13, ReinjectErrStep DEF LoopInv, Before, Current, Kids, Announces, Others, Continues, Alive
<1>14. ASSUME LoopOther PROVE (Before /\ Current /\ Kids)'
  BY <1>t, <1>c, <1>14, LoopOtherStep DEF LoopInv, Before, Current, Kids, Announces, Others, Halts, Continues, Keeps
<1>15. ASSUME LoopReturn PROVE (Before /\ Current /\ Kids)'
  BY <1>t, <1>c, <1>15, LoopReturnStep DEF LoopInv, Before, Current, Kids, Announces, Quiet, Keeps
<1>16. ASSUME DetachWait PROVE (Before /\ Current /\ Kids)'
  BY <1>t, <1>c, <1>16, DetachWaitStep DEF LoopInv, Before, Current, Kids, Announces, Others
<1>17. ASSUME NEW p \in Pids, ForkStop(p) PROVE (Before /\ Current /\ Kids)'
  BY <1>t, <1>c, <1>17, ForkStopStep DEF LoopInv, Before, Current, Kids, Announces, Halts, Others, Keeps
<1>18. ASSUME NEW p \in Pids, InitStop(p) PROVE (Before /\ Current /\ Kids)'
  BY <1>t, <1>c, <1>18, InitStopStep DEF LoopInv, Before, Current, Kids, Announces, Halts, Others, Keeps
<1>19. ASSUME NEW p \in Pids, SigStop(p) PROVE (Before /\ Current /\ Kids)'
  BY <1>t, <1>c, <1>19, SigStopStep DEF LoopInv, Before, Current, Kids, Announces, Halts, Others, Keeps
<1>20. ASSUME NEW p \in Pids, NEW q \in Pids, Fork(p, q) PROVE (Before /\ Current /\ Kids)'
  BY <1>t, <1>c, <1>20, ForkFacts DEF LoopInv, Before, Current, Kids, Announces, Keeps
<1>21. ASSUME NEW p \in Pids, Exec(p) PROVE (Before /\ Current /\ Kids)'
  BY <1>t, <1>c, <1>21, ExecFacts DEF LoopInv, Before, Current, Kids, Announces, Others
<1>22. ASSUME NEW p \in Pids, Signal(p) PROVE (Before /\ Current /\ Kids)'
  BY <1>t, <1>c, <1>22, SignalStep DEF LoopInv, Before, Current, Kids, Announces, Halts, Others, Keeps
<1>23. ASSUME NEW p \in Pids, Kill(p) PROVE (Before /\ Current /\ Kids)'
  BY <1>t, <1>c, <1>23, KillStep DEF LoopInv, Before, Current, Kids, Announces, Dies, Others, Alive
<1>24. ASSUME NEW p \in Pids, NEW code \in {"ok", "error"}, Exit(p, code) PROVE (Before /\ Current /\ Kids)'
  BY <1>t, <1>c, <1>24, ExitStep DEF LoopInv, Before, Current, Kids, Announces, Dies, Others
<1>25. ASSUME UNCHANGED vars PROVE (Before /\ Current /\ Kids)'
  BY <1>25, <1>t DEF vars, LoopInv, Before, Current, Kids, Announces
<1> QED
  BY <1>t, <1>1, <1>2, <1>3, <1>4, <1>5, <1>6, <1>7, <1>8, <1>9, <1>10, <1>11, <1>12, <1>13,
     <1>14, <1>15, <1>16, <1>17, <1>18, <1>19, <1>20, <1>21, <1>22, <1>23, <1>24, <1>25
     DEF Next, CmdRun, WatchLoop, Kernel, Processes, LoopInv

\* No process runs on without its trampoline.
LEMMA FakeKept == LoopInv /\ FakeInv /\ [Next]_vars => FakeInv'
<1> SUFFICES ASSUME LoopInv, FakeInv, [Next]_vars PROVE FakeInv'
  OBVIOUS
<1>t. TypeOK /\ 1 \in Pids
  BY PidAssumption DEF LoopInv, TypeOK
<1>c. loop.pc \in {"fork", "exec", "other", "detach"} => loop.cur \in Pids
  BY DEF LoopInv, Current
<1>1. ASSUME InjectOk PROVE FakeInv'
  BY <1>t, <1>c, <1>1, InjectOkStep DEF FakeInv, LoopInv, Before, Current, Others
<1>2. ASSUME InjectErr PROVE FakeInv'
  BY <1>t, <1>c, <1>2, InjectErrStep DEF FakeInv, LoopInv, Before, Current, Dies, Others
<1>3. ASSUME WaitExit PROVE FakeInv'
  BY <1>t, <1>c, <1>3, WaitExitStep DEF FakeInv, LoopInv, Before, Current, Dies, Others, Keeps
<1>4. ASSUME WaitStop PROVE FakeInv'
  BY <1>t, <1>c, <1>4, WaitStopStep DEF FakeInv, LoopInv, Before, Current, Quiet, Keeps
<1>5. ASSUME WaitNoChild PROVE FakeInv'
  BY <1>t, <1>c, <1>5, WaitNoChildStep DEF FakeInv, LoopInv, Before, Current, Quiet, Keeps
<1>6. ASSUME CloseDone PROVE FakeInv'
  BY <1>t, <1>c, <1>6, CloseDoneStep DEF FakeInv, LoopInv, Before, Current, Quiet, Keeps
<1>7. ASSUME Join PROVE FakeInv'
  BY <1>t, <1>c, <1>7, JoinStep DEF FakeInv, LoopInv, Before, Current
<1>8. ASSUME NEW p \in Pids, PollStop(p) PROVE FakeInv'
  BY <1>t, <1>c, <1>8, PollStopStep DEF FakeInv, LoopInv, Before, Current, Quiet, Keeps
<1>9. ASSUME NEW p \in Pids, PollExit(p) PROVE FakeInv'
  BY <1>t, <1>c, <1>9, PollExitStep DEF FakeInv, LoopInv, Before, Current, Dies, Others, Keeps
<1>10. ASSUME NEW p \in Pids, DetachSignal(p) PROVE FakeInv'
  BY <1>t, <1>c, <1>10, DetachSignalStep DEF FakeInv, LoopInv, Before, Current, Quiet, Keeps
<1>11. ASSUME LoopFork PROVE FakeInv'
  BY <1>t, <1>c, <1>11, LoopForkStep DEF FakeInv, LoopInv, Before, Current, Others, Continues, Keeps
<1>12. ASSUME ReinjectOk PROVE FakeInv'
  BY <1>t, <1>c, <1>12, ReinjectOkStep DEF FakeInv, LoopInv, Before, Current, Others, Continues
<1>13. ASSUME ReinjectErr PROVE FakeInv'
  BY <1>t, <1>c, <1>13, ReinjectErrStep DEF FakeInv, LoopInv, Before, Current, Others, Continues, Alive
<1>14. ASSUME LoopOther PROVE FakeInv'
  BY <1>t, <1>c, <1>14, LoopOtherStep DEF FakeInv, LoopInv, Before, Current, Others, Halts, Continues, Keeps
<1>15. ASSUME LoopReturn PROVE FakeInv'
  BY <1>t, <1>c, <1>15, LoopReturnStep DEF FakeInv, LoopInv, Before, Current, Quiet, Keeps
<1>16. ASSUME DetachWait PROVE FakeInv'
  BY <1>t, <1>c, <1>16, DetachWaitStep DEF FakeInv, LoopInv, Before, Current, Others
<1>17. ASSUME NEW p \in Pids, ForkStop(p) PROVE FakeInv'
  BY <1>t, <1>c, <1>17, ForkStopStep DEF FakeInv, LoopInv, Before, Current, Halts, Others, Keeps
<1>18. ASSUME NEW p \in Pids, InitStop(p) PROVE FakeInv'
  BY <1>t, <1>c, <1>18, InitStopStep DEF FakeInv, LoopInv, Before, Current, Halts, Others, Keeps
<1>19. ASSUME NEW p \in Pids, SigStop(p) PROVE FakeInv'
  BY <1>t, <1>c, <1>19, SigStopStep DEF FakeInv, LoopInv, Before, Current, Halts, Others, Keeps
<1>20. ASSUME NEW p \in Pids, NEW q \in Pids, Fork(p, q) PROVE FakeInv'
  BY <1>t, <1>c, <1>20, ForkFacts DEF FakeInv, LoopInv, Before, Current, Keeps
<1>21. ASSUME NEW p \in Pids, Exec(p) PROVE FakeInv'
  BY <1>t, <1>c, <1>21, ExecFacts DEF FakeInv, LoopInv, Before, Current, Others
<1>22. ASSUME NEW p \in Pids, Signal(p) PROVE FakeInv'
  BY <1>t, <1>c, <1>22, SignalStep DEF FakeInv, LoopInv, Before, Current, Halts, Others, Keeps
<1>23. ASSUME NEW p \in Pids, Kill(p) PROVE FakeInv'
  BY <1>t, <1>c, <1>23, KillStep DEF FakeInv, LoopInv, Before, Current, Dies, Others, Alive
<1>24. ASSUME NEW p \in Pids, NEW code \in {"ok", "error"}, Exit(p, code) PROVE FakeInv'
  BY <1>t, <1>c, <1>24, ExitStep DEF FakeInv, LoopInv, Before, Current, Dies, Others
<1>25. CASE UNCHANGED vars
  BY <1>25, <1>t DEF vars, FakeInv, LoopInv, Before, Current
<1> QED
  BY <1>1, <1>2, <1>3, <1>4, <1>5, <1>6, <1>7, <1>8, <1>9, <1>10, <1>11, <1>12, <1>13,
     <1>14, <1>15, <1>16, <1>17, <1>18, <1>19, <1>20, <1>21, <1>22, <1>23, <1>24, <1>25
     DEF Next, CmdRun, WatchLoop, Kernel, Processes

\* Nothing changes the status of a command that was waited for.
LEMMA StatusKept == LoopInv /\ StatusInv /\ [Next]_vars => StatusInv'
<1> SUFFICES ASSUME LoopInv, StatusInv, [Next]_vars PROVE StatusInv'
  OBVIOUS
<1>t. TypeOK /\ 1 \in Pids
  BY PidAssumption DEF LoopInv, TypeOK
<1>c. loop.pc \in {"fork", "exec", "other", "detach"} => loop.cur \in Pids
  BY DEF LoopInv, Current
<1>1. ASSUME InjectOk PROVE StatusInv'
  BY <1>t, <1>c, <1>1, InjectOkStep DEF StatusInv, LoopInv, Before, Current, Others
<1>2. ASSUME InjectErr PROVE StatusInv'
  BY <1>t, <1>c, <1>2, InjectErrStep DEF StatusInv, LoopInv, Before, Current, Dies, Others
<1>3. ASSUME WaitExit PROVE StatusInv'
  BY <1>t, <1>c, <1>3, WaitExitStep DEF StatusInv, LoopInv, Before, Current, Dies, Others, Keeps
<1>4. ASSUME WaitStop PROVE StatusInv'
  BY <1>t, <1>c, <1>4, WaitStopStep DEF StatusInv, LoopInv, Before, Current, Quiet, Keeps
<1>5. ASSUME WaitNoChild PROVE StatusInv'
  BY <1>t, <1>c, <1>5, WaitNoChildStep DEF StatusInv, LoopInv, Before, Current, Quiet, Keeps
<1>6. ASSUME CloseDone PROVE StatusInv'
  BY <1>t, <1>c, <1>6, CloseDoneStep DEF StatusInv, LoopInv, Before, Current, Quiet, Keeps
<1>7. ASSUME Join PROVE StatusInv'
  BY <1>t, <1>c, <1>7, JoinStep DEF StatusInv, LoopInv, Before, Current
<1>8. ASSUME NEW p \in Pids, PollStop(p) PROVE StatusInv'
  BY <1>t, <1>c, <1>8, PollStopStep DEF StatusInv, LoopInv, Before, Current, Quiet, Keeps
<1>9. ASSUME NEW p \in Pids, PollExit(p) PROVE StatusInv'
  BY <1>t, <1>c, <1>9, PollExitStep DEF StatusInv, LoopInv, Before, Current, Dies, Others, Keeps
<1>10. ASSUME NEW p \in Pids, DetachSignal(p) PROVE StatusInv'
  BY <1>t, <1>c, <1>10, DetachSignalStep DEF StatusInv, LoopInv, Before, Current, Quiet, Keeps
<1>11. ASSUME LoopFork PROVE StatusInv'
  BY <1>t, <1>c, <1>11, LoopForkStep DEF StatusInv, LoopInv, Before, Current, Others, Continues, Keeps
<1>12. ASSUME ReinjectOk PROVE StatusInv'
  BY <1>t, <1>c, <1>12, ReinjectOkStep DEF StatusInv, LoopInv, Before, Current, Others, Continues
<1>13. ASSUME ReinjectErr PROVE StatusInv'
  BY <1>t, <1>c, <1>13, ReinjectErrStep DEF StatusInv, LoopInv, Before, Current, Others, Continues, Alive
<1>14. ASSUME LoopOther PROVE StatusInv'
  BY <1>t, <1>c, <1>14, LoopOtherStep DEF StatusInv, LoopInv, Before, Current, Others, Halts, Continues, Keeps
<1>15. ASSUME LoopReturn PROVE StatusInv'
  BY <1>t, <1>c, <1>15, LoopReturnStep DEF StatusInv, LoopInv, Before, Current, Quiet, Keeps
<1>16. ASSUME DetachWait PROVE StatusInv'
  BY <1>t, <1>c, <1>16, DetachWaitStep DEF StatusInv, LoopInv, Before, Current, Others
<1>17. ASSUME NEW p \in Pids, ForkStop(p) PROVE StatusInv'
  BY <1>t, <1>c, <1>17, ForkStopStep DEF StatusInv, LoopInv, Before, Current, Halts, Others, Keeps
<1>18. ASSUME NEW p \in Pids, InitStop(p) PROVE StatusInv'
  BY <1>t, <1>c, <1>18, InitStopStep DEF StatusInv, LoopInv, Before, Current, Halts, Others, Keeps
<1>19. ASSUME NEW p \in Pids, SigStop(p) PROVE StatusInv'
  BY <1>t, <1>c, <1>19, SigStopStep DEF StatusInv, LoopInv, Before, Current, Halts, Others, Keeps
<1>20. ASSUME NEW p \in Pids, NEW q \in Pids, Fork(p, q) PROVE StatusInv'
  BY <1>t, <1>c, <1>20, ForkFacts DEF StatusInv, LoopInv, Before, Current, Keeps
<1>21. ASSUME NEW p \in Pids, Exec(p) PROVE StatusInv'
  BY <1>t, <1>c, <1>21, ExecFacts DEF StatusInv, LoopInv, Before, Current, Others
<1>22. ASSUME NEW p \in Pids, Signal(p) PROVE StatusInv'
  BY <1>t, <1>c, <1>22, SignalStep DEF StatusInv, LoopInv, Before, Current, Halts, Others, Keeps
<1>23. ASSUME NEW p \in Pids, Kill(p) PROVE StatusInv'
  BY <1>t, <1>c, <1>23, KillStep DEF StatusInv, LoopInv, Before, Current, Dies, Others, Alive
<1>24. ASSUME NEW p \in Pids, NEW code \in {"ok", "error"}, Exit(p, code) PROVE StatusInv'
  BY <1>t, <1>c, <1>24, ExitStep DEF StatusInv, LoopInv, Before, Current, Dies, Others
<1>25. CASE UNCHANGED vars
  BY <1>25, <1>t DEF vars, StatusInv, LoopInv, Before, Current
<1> QED
  BY <1>1, <1>2, <1>3, <1>4, <1>5, <1>6, <1>7, <1>8, <1>9, <1>10, <1>11, <1>12, <1>13,
     <1>14, <1>15, <1>16, <1>17, <1>18, <1>19, <1>20, <1>21, <1>22, <1>23, <1>24, <1>25
     DEF Next, CmdRun, WatchLoop, Kernel, Processes

Watch == {"top", "fork", "exec", "other"}

\* A step that announces no new fork and takes no process past its first stop,
\* other than one that it strikes off pendingStop, keeps SignalInv.
LEMMA SignalMove ==
    ASSUME LoopInv, SignalInv, loop'.pc \in Watch => loop.pc \in Watch,
           eaten' \subseteq early',
           loop.pending \subseteq Pids,
           \A q \in Pids : proc[q].st # "none" => proc'[q].st # "none",
           \A p \in Pids : Announces(p)' => Announces(p) /\ proc'[p].kid = proc[p].kid,
           \A q \in loop'.pending :
               \/ q \in loop.pending
               \/ \E p \in Pids : Announces(p) /\ ~Announces(p)' /\ proc[p].kid = q,
           \A q \in Pids : Fresh(q) /\ (q \in loop.pending => q \in loop'.pending) => Fresh(q)'
    PROVE  SignalInv'
<1>1. SUFFICES ASSUME loop'.pc \in Watch, loop.pc \in Watch
      PROVE  /\ \A q \in loop'.pending : Fresh(q)' /\ proc'[q].st # "none"
             /\ \A p, q \in Pids : Announces(p)' /\ proc'[p].kid = q =>
                   /\ Fresh(q)' /\ proc'[q].st # "none" /\ q \notin loop'.pending
                   /\ \A r \in Pids \ {p} : Announces(r)' => proc'[r].kid # q
  BY DEF SignalInv, Watch
<1>2. /\ \A q \in loop.pending : Fresh(q) /\ proc[q].st # "none"
      /\ \A p, q \in Pids : Announces(p) /\ proc[p].kid = q =>
            /\ Fresh(q) /\ proc[q].st # "none" /\ q \notin loop.pending
            /\ \A r \in Pids \ {p} : Announces(r) => proc[r].kid # q
  BY <1>1 DEF SignalInv, Watch
<1>k. \A p \in Pids : Announces(p) => proc[p].kid \in Pids
  BY DEF LoopInv, Kids
<1>3. ASSUME NEW q \in loop'.pending PROVE Fresh(q)' /\ proc'[q].st # "none"
  <2>1. q \in Pids /\ Fresh(q) /\ proc[q].st # "none"
    BY <1>2, <1>3, <1>k
  <2> QED
    BY <2>1
<1>4. ASSUME NEW p \in Pids, NEW q \in Pids, Announces(p)', proc'[p].kid = q
      PROVE  /\ Fresh(q)' /\ proc'[q].st # "none" /\ q \notin loop'.pending
             /\ \A r \in Pids \ {p} : Announces(r)' => proc'[r].kid # q
  <2>1. Announces(p) /\ proc[p].kid = q
    BY <1>4
  <2>2. /\ Fresh(q) /\ proc[q].st # "none" /\ q \notin loop.pending
        /\ \A r \in Pids \ {p} : Announces(r) => proc[r].kid # q
    BY <1>2, <2>1
  <2>3. q \notin loop'.pending
    BY <1>4, <2>1, <2>2
  <2> QED
    BY <2>2, <2>3
<1> QED
  BY <1>3, <1>4

\* A pendingStop waits for the first stop of its process.
LEMMA SignalKept == LoopInv /\ SignalInv /\ [Next]_vars => SignalInv'
<1> SUFFICES ASSUME LoopInv, SignalInv, [Next]_vars PROVE SignalInv'
  OBVIOUS
<1>t. TypeOK /\ 1 \in Pids /\ loop.pending \subseteq Pids /\ eaten \subseteq early
  BY PidAssumption DEF LoopInv, TypeOK, Loop, SignalInv
<1>c. loop.pc \in {"fork", "exec", "other", "detach"} => loop.cur \in Pids
  BY DEF LoopInv, Current
<1>s. /\ loop.pc = "fork" => proc[loop.cur].st # "stop" \/ proc[loop.cur].why = "fork"
      /\ loop.pc = "exec" => proc[loop.cur].st # "stop" \/ proc[loop.cur].why = "exec"
      /\ loop.pc = "other" => proc[loop.cur].st # "stop" \/ proc[loop.cur].why # "fork"
  BY DEF LoopInv, Current
<1>1. ASSUME InjectOk PROVE SignalInv'
  <2>1. /\ Others(1) /\ proc'[1].st \in {"run", "halted"} /\ loop'.pending = loop.pending
        /\ main.pc = "inject" /\ UNCHANGED <<eaten, early>>
    BY <1>1, InjectOkStep
  <2>2. \A p \in Pids : ~Announces(p)' /\ loop.pending = {} /\ eaten = {}
    BY <2>1 DEF LoopInv, Before, Others, Announces
  <2> QED
    BY <2>1, <2>2 DEF SignalInv, LoopInv, Before
<1>2. ASSUME InjectErr PROVE SignalInv'
  <2>1. /\ UNCHANGED <<eaten, early>> /\ Others(1) /\ proc'[1].st \in {"zombie", "gone"}
        /\ loop'.pc = loop.pc /\ loop'.pending \subseteq loop.pending
    BY <1>t, <1>2, InjectErrStep DEF Dies, Others
  <2>2. \A r \in Pids : Fresh(r) => Fresh(r)'
    BY <2>1 DEF Fresh, Others
  <2>3. \A r \in Pids : Announces(r)' => Announces(r) /\ proc'[r].kid = proc[r].kid
    BY <2>1 DEF Announces, Others
  <2>4. \A r \in Pids : proc[r].st # "none" => proc'[r].st # "none"
    BY <2>1 DEF Others
  <2>5. /\ loop'.pc \in Watch => loop.pc \in Watch
        /\ eaten' \subseteq early' /\ \A r \in loop'.pending : r \in loop.pending
    BY <1>t, <2>1
  <2> QED
    BY <1>t, <2>2, <2>3, <2>4, <2>5, SignalMove
<1>3. ASSUME WaitExit PROVE SignalInv'
  <2>1. /\ UNCHANGED <<eaten, early>> /\ Others(1) /\ proc'[1].st \in {"zombie", "gone"}
        /\ loop'.pc = loop.pc /\ loop'.pending \subseteq loop.pending
    BY <1>t, <1>3, WaitExitStep DEF Dies, Others, Keeps
  <2>2. \A r \in Pids : Fresh(r) => Fresh(r)'
    BY <2>1 DEF Fresh, Others
  <2>3. \A r \in Pids : Announces(r)' => Announces(r) /\ proc'[r].kid = proc[r].kid
    BY <2>1 DEF Announces, Others
  <2>4. \A r \in Pids : proc[r].st # "none" => proc'[r].st # "none"
    BY <2>1 DEF Others
  <2>5. /\ loop'.pc \in Watch => loop.pc \in Watch
        /\ eaten' \subseteq early' /\ \A r \in loop'.pending : r \in loop.pending
    BY <1>t, <2>1
  <2> QED
    BY <1>t, <2>2, <2>3, <2>4, <2>5, SignalMove
<1>4. ASSUME WaitStop PROVE SignalInv'
  <2>1. /\ UNCHANGED <<eaten, early>> /\ loop'.pending = loop.pending
        /\ loop'.pc \in Watch => loop.pc \in Watch
        /\ \A r \in Pids : /\ proc'[r].st = proc[r].st /\ proc'[r].why = proc[r].why
                           /\ proc'[r].kid = proc[r].kid
    BY <1>t, <1>4, WaitStopStep DEF Quiet, Keeps, Watch
  <2>2. \A r \in Pids : Fresh(r) => Fresh(r)'
    BY <2>1 DEF Fresh, Others
  <2>3. \A r \in Pids : Announces(r)' => Announces(r) /\ proc'[r].kid = proc[r].kid
    BY <2>1 DEF Announces, Others
  <2>4. \A r \in Pids : proc[r].st # "none" => proc'[r].st # "none"
    BY <2>1 DEF Others
  <2>5. /\ loop'.pc \in Watch => loop.pc \in Watch
        /\ eaten' \subseteq early' /\ \A r \in loop'.pending : r \in loop.pending
    BY <1>t, <2>1
  <2> QED
    BY <1>t, <2>2, <2>3, <2>4, <2>5, SignalMove
<1>5. ASSUME WaitNoChild PROVE SignalInv'
  <2>1. /\ UNCHANGED <<eaten, early>> /\ loop'.pending = loop.pending
        /\ loop'.pc \in Watch => loop.pc \in Watch
        /\ \A r \in Pids : /\ proc'[r].st = proc[r].st /\ proc'[r].why = proc[r].why
                           /\ proc'[r].kid = proc[r].kid
    BY <1>t, <1>5, WaitNoChildStep DEF Quiet, Keeps, Watch
  <2>2. \A r \in Pids : Fresh(r) => Fresh(r)'
    BY <2>1 DEF Fresh, Others
  <2>3. \A r \in Pids : Announces(r)' => Announces(r) /\ proc'[r].kid = proc[r].kid
    BY <2>1 DEF Announces, Others
  <2>4. \A r \in Pids : proc[r].st # "none" => proc'[r].st # "none"
    BY <2>1 DEF Others
  <2>5. /\ loop'.pc \in Watch => loop.pc \in Watch
        /\ eaten' \subseteq early' /\ \A r \in loop'.pending : r \in loop.pending
    BY <1>t, <2>1
  <2> QED
    BY <1>t, <2>2, <2>3, <2>4, <2>5, SignalMove
<1>6. ASSUME CloseDone PROVE SignalInv'
  <2>1. /\ UNCHANGED <<eaten, early>> /\ loop'.pending = loop.pending
        /\ loop'.pc \in Watch => loop.pc \in Watch
        /\ \A r \in Pids : /\ proc'[r].st = proc[r].st /\ proc'[r].why = proc[r].why
                           /\ proc'[r].kid = proc[r].kid
    BY <1>t, <1>6, CloseDoneStep DEF Quiet, Keeps, Watch
  <2>2. \A r \in Pids : Fresh(r) => Fresh(r)'
    BY <2>1 DEF Fresh, Others
  <2>3. \A r \in Pids : Announces(r)' => Announces(r) /\ proc'[r].kid = proc[r].kid
    BY <2>1 DEF Announces, Others
  <2>4. \A r \in Pids : proc[r].st # "none" => proc'[r].st # "none"
    BY <2>1 DEF Others
  <2>5. /\ loop'.pc \in Watch => loop.pc \in Watch
        /\ eaten' \subseteq early' /\ \A r \in loop'.pending : r \in loop.pending
    BY <1>t, <2>1
  <2> QED
    BY <1>t, <2>2, <2>3, <2>4, <2>5, SignalMove
<1>7. ASSUME Join PROVE SignalInv'
  BY <1>t, <1>7, JoinStep DEF SignalInv
<1>8. ASSUME NEW p \in Pids, PollStop(p) PROVE SignalInv'
  <2>1. /\ UNCHANGED <<eaten, early>> /\ loop'.pending = loop.pending
        /\ loop'.pc \in Watch => loop.pc \in Watch
        /\ \A r \in Pids : /\ proc'[r].st = proc[r].st /\ proc'[r].why = proc[r].why
                           /\ proc'[r].kid = proc[r].kid
    BY <1>t, <1>8, PollStopStep DEF Quiet, Keeps, Watch
  <2>2. \A r \in Pids : Fresh(r) => Fresh(r)'
    BY <2>1 DEF Fresh, Others
  <2>3. \A r \in Pids : Announces(r)' => Announces(r) /\ proc'[r].kid = proc[r].kid
    BY <2>1 DEF Announces, Others
  <2>4. \A r \in Pids : proc[r].st # "none" => proc'[r].st # "none"
    BY <2>1 DEF Others
  <2>5. /\ loop'.pc \in Watch => loop.pc \in Watch
        /\ eaten' \subseteq early' /\ \A r \in loop'.pending : r \in loop.pending
    BY <1>t, <2>1
  <2> QED
    BY <1>t, <2>2, <2>3, <2>4, <2>5, SignalMove
<1>9. ASSUME NEW p \in Pids, PollExit(p) PROVE SignalInv'
  <2>1. /\ UNCHANGED <<eaten, early>> /\ Others(p) /\ proc'[p].st \in {"zombie", "gone"}
        /\ loop'.pc = loop.pc /\ loop'.pending \subseteq loop.pending
    BY <1>t, <1>9, PollExitStep DEF Dies, Others, Keeps
  <2>2. \A r \in Pids : Fresh(r) => Fresh(r)'
    BY <2>1 DEF Fresh, Others
  <2>3. \A r \in Pids : Announces(r)' => Announces(r) /\ proc'[r].kid = proc[r].kid
    BY <2>1 DEF Announces, Others
  <2>4. \A r \in Pids : proc[r].st # "none" => proc'[r].st # "none"
    BY <2>1 DEF Others
  <2>5. /\ loop'.pc \in Watch => loop.pc \in Watch
        /\ eaten' \subseteq early' /\ \A r \in loop'.pending : r \in loop.pending
    BY <1>t, <2>1
  <2> QED
    BY <1>t, <2>2, <2>3, <2>4, <2>5, SignalMove
<1>10. ASSUME NEW p \in Pids, DetachSignal(p) PROVE SignalInv'
  BY <1>t, <1>10, DetachSignalStep DEF SignalInv
<1>11. ASSUME LoopFork PROVE SignalInv'
  <2>1. PICK p \in Pids : p = loop.cur /\ loop.pc = "fork"
    BY <1>c, <1>11, LoopForkStep
  <2>2. /\ Others(p) /\ loop'.pc = "top" /\ UNCHANGED <<eaten, early>>
        /\ \/ /\ proc[p].st = "stop" /\ proc'[p].st = "run"
              /\ \A q \in loop'.pending : q \in loop.pending \/ q = proc[p].kid
           \/ /\ proc[p].st # "stop" /\ proc'[p] = proc[p]
              /\ loop'.pending = loop.pending
        /\ loop.pending \subseteq loop'.pending
    BY <1>11, <2>1, LoopForkStep DEF Continues
  <2>3. proc[p].st = "stop" => proc[p].why = "fork"
    BY <1>s, <2>1
  <2>4. \A q \in Pids : Fresh(q) => Fresh(q)'
    BY <2>2, <2>3 DEF Fresh, Others
  <2>5. \A q \in Pids : Announces(q)' => Announces(q) /\ proc'[q].kid = proc[q].kid
    BY <2>2 DEF Announces, Others
  <2>6. proc[p].st = "stop" => Announces(p) /\ ~Announces(p)'
    BY <2>2, <2>3 DEF Announces
  <2>7. \A q \in Pids : proc[q].st # "none" => proc'[q].st # "none"
    BY <2>2 DEF Others
  <2>8. /\ loop.pc \in Watch
        /\ \A q \in loop'.pending :
               q \in loop.pending \/ \E r \in Pids : Announces(r) /\ ~Announces(r)' /\ proc[r].kid = q
    BY <2>1, <2>2, <2>6 DEF Watch
  <2> QED
    BY <1>t, <2>2, <2>4, <2>5, <2>7, <2>8, SignalMove
<1>12. ASSUME ReinjectOk PROVE SignalInv'
  <2>1. /\ UNCHANGED <<eaten, early>> /\ Others(loop.cur) /\ loop.cur \in Pids
        /\ loop.pc \in Watch /\ loop'.pending = loop.pending
        /\ \/ /\ proc[loop.cur].st = "stop" /\ proc[loop.cur].why = "exec"
              /\ proc'[loop.cur].st = "run"
           \/ /\ proc'[loop.cur].st = proc[loop.cur].st /\ proc'[loop.cur].why = proc[loop.cur].why
              /\ proc'[loop.cur].kid = proc[loop.cur].kid
    BY <1>t, <1>c, <1>s, <1>12, ReinjectOkStep DEF Others, Continues, Watch
  <2>2. \A r \in Pids : Fresh(r) => Fresh(r)'
    BY <2>1 DEF Fresh, Others
  <2>3. \A r \in Pids : Announces(r)' => Announces(r) /\ proc'[r].kid = proc[r].kid
    BY <2>1 DEF Announces, Others
  <2>4. \A r \in Pids : proc[r].st # "none" => proc'[r].st # "none"
    BY <2>1 DEF Others
  <2>5. /\ loop'.pc \in Watch => loop.pc \in Watch
        /\ eaten' \subseteq early' /\ \A r \in loop'.pending : r \in loop.pending
    BY <1>t, <2>1
  <2> QED
    BY <1>t, <2>2, <2>3, <2>4, <2>5, SignalMove
<1>13. ASSUME ReinjectErr PROVE SignalInv'
  <2>1. /\ UNCHANGED <<eaten, early>> /\ Others(loop.cur) /\ loop.cur \in Pids
        /\ loop.pc \in Watch /\ loop'.pending = loop.pending
        /\ \/ /\ proc[loop.cur].st = "stop" /\ proc[loop.cur].why = "exec"
              /\ proc'[loop.cur].st = "run"
           \/ /\ proc'[loop.cur].st = proc[loop.cur].st /\ proc'[loop.cur].why = proc[loop.cur].why
              /\ proc'[loop.cur].kid = proc[loop.cur].kid
    BY <1>t, <1>c, <1>s, <1>13, ReinjectErrStep DEF Others, Continues, Alive, Watch
  <2>2. \A r \in Pids : Fresh(r) => Fresh(r)'
    BY <2>1 DEF Fresh, Others
  <2>3. \A r \in Pids : Announces(r)' => Announces(r) /\ proc'[r].kid = proc[r].kid
    BY <2>1 DEF Announces, Others
  <2>4. \A r \in Pids : proc[r].st # "none" => proc'[r].st # "none"
    BY <2>1 DEF Others
  <2>5. /\ loop'.pc \in Watch => loop.pc \in Watch
        /\ eaten' \subseteq early' /\ \A r \in loop'.pending : r \in loop.pending
    BY <1>t, <2>1
  <2> QED
    BY <1>t, <2>2, <2>3, <2>4, <2>5, SignalMove
<1>14. ASSUME LoopOther PROVE SignalInv'
  <2>1. PICK p \in Pids : p = loop.cur /\ loop.pc = "other"
    BY <1>c, <1>14, LoopOtherStep
  <2>2. /\ Others(p) /\ loop'.pc = "top" /\ loop'.pending = loop.pending \ {p}
        /\ \/ /\ proc[p].st = "stop" /\ p \notin loop.pending
              /\ proc[p].why \in {"init", "sigstop"} /\ Halts(p, "group")
           \/ proc[p].st = "stop" /\ Continues(p)
           \/ proc[p].st # "stop" /\ proc'[p] = proc[p]
    BY <1>14, <2>1, LoopOtherStep
  <2>3. /\ \/ eaten' = eaten
           \/ /\ eaten' = eaten \union {p} /\ p \in loop.pending
              /\ proc[p].st = "stop" /\ proc[p].why = "signal"
        /\ early' = IF proc[p].st = "stop" /\ p \notin loop.pending /\ proc[p].why = "init"
                    THEN early \union {p} ELSE early
    BY <1>14, <2>1, LoopOtherStep
  <2>4. p \in loop.pending => Fresh(p)
    BY <2>1 DEF SignalInv
  <2>5. eaten' \subseteq early'
    BY <1>t, <2>3, <2>4 DEF Fresh
  <2>6. \A q \in Pids : Fresh(q) /\ (q \in loop.pending => q \in loop'.pending) => Fresh(q)'
    BY <2>2, <2>3 DEF Fresh, Others
  <2>7. \A q \in Pids : Announces(q)' => Announces(q) /\ proc'[q].kid = proc[q].kid
    BY <2>2 DEF Announces, Others, Halts, Continues
  <2>8. \A q \in Pids : proc[q].st # "none" => proc'[q].st # "none"
    BY <2>2 DEF Others, Halts, Continues
  <2>9. /\ loop.pc \in Watch
        /\ \A q \in loop'.pending : q \in loop.pending
    BY <2>1, <2>2 DEF Watch
  <2> QED
    BY <1>t, <2>5, <2>6, <2>7, <2>8, <2>9, SignalMove
<1>15. ASSUME LoopReturn PROVE SignalInv'
  BY <1>t, <1>15, LoopReturnStep DEF SignalInv
<1>16. ASSUME DetachWait PROVE SignalInv'
  BY <1>t, <1>16, DetachWaitStep DEF SignalInv
<1>17. ASSUME NEW p \in Pids, ForkStop(p) PROVE SignalInv'
  <2>1. /\ UNCHANGED <<loop, eaten, early>> /\ Others(p) /\ proc[p].st = "forking"
        /\ proc'[p].st = "stop" /\ proc'[p].why = "fork" /\ proc'[p].kid = proc[p].kid
    BY <1>t, <1>17, ForkStopStep DEF Halts, Others, Keeps
  <2>2. \A r \in Pids : Fresh(r) => Fresh(r)'
    BY <2>1 DEF Fresh, Others
  <2>3. \A r \in Pids : Announces(r)' => Announces(r) /\ proc'[r].kid = proc[r].kid
    BY <2>1 DEF Announces, Others
  <2>4. \A r \in Pids : proc[r].st # "none" => proc'[r].st # "none"
    BY <2>1 DEF Others
  <2>5. /\ loop'.pc \in Watch => loop.pc \in Watch
        /\ eaten' \subseteq early' /\ \A r \in loop'.pending : r \in loop.pending
    BY <1>t, <2>1
  <2> QED
    BY <1>t, <2>2, <2>3, <2>4, <2>5, SignalMove
<1>18. ASSUME NEW p \in Pids, InitStop(p) PROVE SignalInv'
  <2>1. /\ UNCHANGED <<loop, eaten, early>> /\ Others(p) /\ proc[p].st = "born"
        /\ proc'[p].st = "stop" /\ proc'[p].why = "init" /\ proc'[p].kid = proc[p].kid
    BY <1>t, <1>18, InitStopStep DEF Halts, Others, Keeps
  <2>2. \A r \in Pids : Fresh(r) => Fresh(r)'
    BY <2>1 DEF Fresh, Others
  <2>3. \A r \in Pids : Announces(r)' => Announces(r) /\ proc'[r].kid = proc[r].kid
    BY <2>1 DEF Announces, Others
  <2>4. \A r \in Pids : proc[r].st # "none" => proc'[r].st # "none"
    BY <2>1 DEF Others
  <2>5. /\ loop'.pc \in Watch => loop.pc \in Watch
        /\ eaten' \subseteq early' /\ \A r \in loop'.pending : r \in loop.pending
    BY <1>t, <2>1
  <2> QED
    BY <1>t, <2>2, <2>3, <2>4, <2>5, SignalMove
<1>19. ASSUME NEW p \in Pids, SigStop(p) PROVE SignalInv'
  <2>1. /\ UNCHANGED <<loop, eaten, early>> /\ Others(p) /\ proc[p].st = "run"
        /\ proc'[p].st = "stop" /\ proc'[p].why = "sigstop" /\ proc'[p].kid = proc[p].kid
    BY <1>t, <1>19, SigStopStep DEF Halts, Others, Keeps
  <2>2. \A r \in Pids : Fresh(r) => Fresh(r)'
    BY <2>1 DEF Fresh, Others
  <2>3. \A r \in Pids : Announces(r)' => Announces(r) /\ proc'[r].kid = proc[r].kid
    BY <2>1 DEF Announces, Others
  <2>4. \A r \in Pids : proc[r].st # "none" => proc'[r].st # "none"
    BY <2>1 DEF Others
  <2>5. /\ loop'.pc \in Watch => loop.pc \in Watch
        /\ eaten' \subseteq early' /\ \A r \in loop'.pending : r \in loop.pending
    BY <1>t, <2>1
  <2> QED
    BY <1>t, <2>2, <2>3, <2>4, <2>5, SignalMove
<1>20. ASSUME NEW p \in Pids, NEW q \in Pids, Fork(p, q) PROVE SignalInv'
  <2>1. /\ p # q /\ proc[p].st = "run" /\ proc[q].st = "none" /\ UNCHANGED <<loop, eaten, early>>
        /\ \A r \in Pids \ {p, q} : proc'[r] = proc[r]
        /\ \/ proc'[p].st = "forking" /\ proc'[p].kid = q /\ proc'[q].st = "born"
           \/ proc'[p].st = "run" /\ proc'[q].st = "run"
    BY <1>t, <1>20, ForkFacts
  <2>2. SUFFICES ASSUME loop.pc \in Watch
        PROVE  /\ \A u \in loop.pending : Fresh(u)' /\ proc'[u].st # "none"
               /\ \A r, u \in Pids : Announces(r)' /\ proc'[r].kid = u =>
                     /\ Fresh(u)' /\ proc'[u].st # "none" /\ u \notin loop.pending
                     /\ \A v \in Pids \ {r} : Announces(v)' => proc'[v].kid # u
    BY <1>t, <2>1 DEF SignalInv, Watch
  <2>3. /\ \A u \in loop.pending : Fresh(u) /\ proc[u].st # "none"
        /\ \A r, u \in Pids : Announces(r) /\ proc[r].kid = u =>
              /\ Fresh(u) /\ proc[u].st # "none" /\ u \notin loop.pending
              /\ \A v \in Pids \ {r} : Announces(v) => proc[v].kid # u
    BY <2>2 DEF SignalInv, Watch
  <2>4. q \notin loop.pending /\ \A r \in Pids : Announces(r) => proc[r].kid # q
    BY <2>1, <2>3
  <2>5. \A u \in Pids : proc[u].st # "none" /\ Fresh(u) => Fresh(u)' /\ proc'[u].st # "none"
    BY <2>1 DEF Fresh
  <2>6. \A r \in Pids \ {p} : Announces(r)' => Announces(r) /\ proc'[r].kid = proc[r].kid
    BY <2>1 DEF Announces
  <2>7. Announces(p)' => proc'[p].kid = q /\ Fresh(q)' /\ proc'[q].st # "none"
    BY <2>1 DEF Announces, Fresh
  <2>8. ASSUME NEW r \in Pids, NEW u \in Pids, Announces(r)', proc'[r].kid = u
        PROVE  /\ Fresh(u)' /\ proc'[u].st # "none" /\ u \notin loop.pending
               /\ \A v \in Pids \ {r} : Announces(v)' => proc'[v].kid # u
    <3>1. CASE r = p
      BY <2>4, <2>6, <2>7, <2>8, <3>1
    <3>2. CASE r # p
      <4>1. Announces(r) /\ proc[r].kid = u
        BY <2>6, <2>8, <3>2
      <4>2. /\ Fresh(u) /\ proc[u].st # "none" /\ u \notin loop.pending /\ u # q
            /\ \A v \in Pids \ {r} : Announces(v) => proc[v].kid # u
        BY <2>3, <2>4, <4>1
      <4> QED
        BY <2>5, <2>6, <2>7, <4>2
    <3> QED
      BY <3>1, <3>2
  <2> QED
    BY <1>t, <2>3, <2>5, <2>8
<1>21. ASSUME NEW p \in Pids, Exec(p) PROVE SignalInv'
  <2>1. /\ UNCHANGED <<loop, eaten, early>> /\ Others(p) /\ proc[p].st = "run"
        /\ proc'[p].st = "run" \/ (proc'[p].st = "stop" /\ proc'[p].why = "exec")
    BY <1>t, <1>21, ExecFacts
  <2>2. \A r \in Pids : Fresh(r) => Fresh(r)'
    BY <2>1 DEF Fresh, Others
  <2>3. \A r \in Pids : Announces(r)' => Announces(r) /\ proc'[r].kid = proc[r].kid
    BY <2>1 DEF Announces, Others
  <2>4. \A r \in Pids : proc[r].st # "none" => proc'[r].st # "none"
    BY <2>1 DEF Others
  <2>5. /\ loop'.pc \in Watch => loop.pc \in Watch
        /\ eaten' \subseteq early' /\ \A r \in loop'.pending : r \in loop.pending
    BY <1>t, <2>1
  <2> QED
    BY <1>t, <2>2, <2>3, <2>4, <2>5, SignalMove
<1>22. ASSUME NEW p \in Pids, Signal(p) PROVE SignalInv'
  <2>1. /\ UNCHANGED <<loop, eaten, early>> /\ Others(p) /\ proc[p].st = "run"
        /\ proc'[p].st = "stop" /\ proc'[p].why = "signal" /\ proc'[p].kid = proc[p].kid
    BY <1>t, <1>22, SignalStep DEF Halts, Others, Keeps
  <2>2. \A r \in Pids : Fresh(r) => Fresh(r)'
    BY <2>1 DEF Fresh, Others
  <2>3. \A r \in Pids : Announces(r)' => Announces(r) /\ proc'[r].kid = proc[r].kid
    BY <2>1 DEF Announces, Others
  <2>4. \A r \in Pids : proc[r].st # "none" => proc'[r].st # "none"
    BY <2>1 DEF Others
  <2>5. /\ loop'.pc \in Watch => loop.pc \in Watch
        /\ eaten' \subseteq early' /\ \A r \in loop'.pending : r \in loop.pending
    BY <1>t, <2>1
  <2> QED
    BY <1>t, <2>2, <2>3, <2>4, <2>5, SignalMove
<1>23. ASSUME NEW p \in Pids, Kill(p) PROVE SignalInv'
  <2>1. /\ UNCHANGED <<eaten, early>> /\ Others(p) /\ proc'[p].st \in {"zombie", "gone"}
        /\ loop'.pc = loop.pc /\ loop'.pending \subseteq loop.pending
    BY <1>t, <1>23, KillStep DEF Dies, Others, Alive
  <2>2. \A r \in Pids : Fresh(r) => Fresh(r)'
    BY <2>1 DEF Fresh, Others
  <2>3. \A r \in Pids : Announces(r)' => Announces(r) /\ proc'[r].kid = proc[r].kid
    BY <2>1 DEF Announces, Others
  <2>4. \A r \in Pids : proc[r].st # "none" => proc'[r].st # "none"
    BY <2>1 DEF Others
  <2>5. /\ loop'.pc \in Watch => loop.pc \in Watch
        /\ eaten' \subseteq early' /\ \A r \in loop'.pending : r \in loop.pending
    BY <1>t, <2>1
  <2> QED
    BY <1>t, <2>2, <2>3, <2>4, <2>5, SignalMove
<1>24. ASSUME NEW p \in Pids, NEW code \in {"ok", "error"}, Exit(p, code) PROVE SignalInv'
  <2>1. /\ UNCHANGED <<eaten, early>> /\ Others(p) /\ proc'[p].st \in {"zombie", "gone"}
        /\ loop'.pc = loop.pc /\ loop'.pending \subseteq loop.pending
    BY <1>t, <1>24, ExitStep DEF Dies, Others
  <2>2. \A r \in Pids : Fresh(r) => Fresh(r)'
    BY <2>1 DEF Fresh, Others
  <2>3. \A r \in Pids : Announces(r)' => Announces(r) /\ proc'[r].kid = proc[r].kid
    BY <2>1 DEF Announces, Others
  <2>4. \A r \in Pids : proc[r].st # "none" => proc'[r].st # "none"
    BY <2>1 DEF Others
  <2>5. /\ loop'.pc \in Watch => loop.pc \in Watch
        /\ eaten' \subseteq early' /\ \A r \in loop'.pending : r \in loop.pending
    BY <1>t, <2>1
  <2> QED
    BY <1>t, <2>2, <2>3, <2>4, <2>5, SignalMove
<1>25. CASE UNCHANGED vars
  BY <1>25, <1>t DEF vars, SignalInv, Announces, Fresh
<1> QED
  BY <1>1, <1>2, <1>3, <1>4, <1>5, <1>6, <1>7, <1>8, <1>9, <1>10, <1>11, <1>12, <1>13,
     <1>14, <1>15, <1>16, <1>17, <1>18, <1>19, <1>20, <1>21, <1>22, <1>23, <1>24, <1>25
     DEF Next, CmdRun, WatchLoop, Kernel, Processes

(***************************************************************************)
(* The theorems.                                                           *)
(***************************************************************************)
\* Before the injection nothing runs.
LEMMA InitInv == Init => LoopInv /\ FakeInv /\ StatusInv /\ SignalInv
<1> SUFFICES ASSUME Init PROVE LoopInv /\ FakeInv /\ StatusInv /\ SignalInv
  OBVIOUS
<1> DEFINE x == [None EXCEPT !.st = "stop", !.seen = TRUE, !.traced = TRUE]
<1>1. 1 \in Pids /\ proc = [p \in Pids |-> IF p = 1 THEN x ELSE None]
  BY PidAssumption DEF Init
<1>2. x \in Process /\ x.st = "stop" /\ x.why = "none" /\ None \in Process /\ None.st = "none"
  BY DEF None, Process
<1> HIDE DEF x
<1>3. /\ proc \in [Pids -> Process] /\ proc[1].st = "stop" /\ proc[1].why = "none"
      /\ \A p \in Pids \ {1} : proc[p].st = "none"
  BY <1>1, <1>2
<1>4. /\ main = [pc |-> "inject", code |-> "none"]
      /\ loop = [pc |-> "returned", cur |-> 0, filed |-> {}, pending |-> {}, todo |-> {}]
      /\ track \in BOOLEAN /\ stolen \in BOOLEAN /\ eaten = {} /\ early = {}
  BY DEF Init
<1>5. main \in Main /\ main.pc = "inject" /\ loop \in Loop /\ loop.pc = "returned" /\ loop.pending = {}
  BY <1>4 DEF Main, Loop
<1>6. TypeOK
  BY <1>3, <1>4, <1>5 DEF TypeOK
<1> QED
  BY <1>3, <1>4, <1>5, <1>6 DEF LoopInv, Before, Current, Kids, Announces, FakeInv, StatusInv, SignalInv

\* The invariants hold in every state of every behaviour.
LEMMA Invariants == Spec => [](LoopInv /\ FakeInv /\ StatusInv /\ SignalInv)
  BY InitInv, LoopKept, FakeKept, StatusKept, SignalKept, PTL DEF Spec

\* Every variable keeps its type: in particular the watch loop files and waits
\* for processes that exist.
THEOREM TypeCorrect == Spec => []TypeOK
<1>1. LoopInv => TypeOK
  BY DEF LoopInv
<1> QED
  BY <1>1, Invariants, PTL

\* A traced process that runs is on the fake clock, unless its re-injection, or
\* that of the process it was forked from, failed: for any number of processes,
\* forks, execs, signals and kills.
THEOREM SeesFakeHolds == Spec => []SeesFake
<1>1. LoopInv /\ FakeInv => SeesFake
  BY DEF LoopInv, Before, FakeInv, SeesFake
<1> QED
  BY <1>1, Invariants, PTL

\* faketimectl reports the status of the command or that it was lost, unless
\* cmd.Wait was given a stop of the command.
THEOREM ExitStatusHolds == Spec => []ExitStatus
<1>1. StatusInv => ExitStatus
  BY DEF StatusInv, ExitStatus
<1> QED
  BY <1>1, Invariants, PTL

\* Only a process whose first stop was polled before its fork was announced
\* ever loses a signal.
THEOREM SignalsForwardedHolds == Spec => []SignalsForwarded
<1>1. SignalInv => SignalsForwarded
  BY DEF SignalInv, SignalsForwarded
<1> QED
  BY <1>1, Invariants, PTL
============================================================================
