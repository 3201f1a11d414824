# TLA+ models of epochd

epochd gives running processes a fake wall clock. It maps a page of machine code
into a process, patches the clock functions of its vDSO to jump there, and
changes the time later by writing a 32-byte struct into that page. A Kubernetes
controller does this for groups of containers ("timeshifts") through an agent on
every node; the Go package `faketime` does it for local processes and their
children.

The modules in this directory model those parts from the source under `src/`,
check them with TLC on small instances, and prove part of what is checked with
TLAPS for every instance. `PROJECT.json` maps every definition to the lines it
models and lists the runs, mutants, hazards, findings and theorems.

## 1. Inventory

| Component (source) | State | Operations | Interacts with |
|---|---|---|---|
| Controller registry (`cmd/controller/controller.go`, `handlers.go`) | map id → timeshift (selector, clock, TTL, handles) under an RWMutex; a gauge | create, update, advance, delete, conflict check, re-injection | agents (gRPC), pod list (Kubernetes API), store |
| TTL sweeper (`controller.go`) | none of its own | remove overdue timeshifts, reset their handles | registry, agents, store |
| Pod watcher (`watcher.go`) | none of its own | on a pod event inject new containers of matching timeshifts, drop handles of old ones | informer, registry, agents |
| Store (`store.go`) | one ConfigMap | encode, flush (Get, then Create or Update), load at start | registry, Kubernetes API |
| Agent (`cmd/agent/main.go`) | map handle id → inject.Handle and lastTarget, under an RWMutex | Inject, SetTime, Reset, Status as concurrent RPCs; GracefulStop and drain at SIGTERM | processes of its node |
| Agent client, container resolution (`pkg/agentclient`, `pkg/k8sresolve`) | connections | RPC calls; container id → pid | agent, `/proc` |
| Injection (`pkg/inject`, `pkg/vdso`) | the target's address space; `Handle.gen` | find a page, remote mmap, payload, three patches; SetTime, Freeze | ptrace, `process_vm_writev` |
| Trampoline (`pkg/trampoline`) | state struct in the page | clock_gettime, gettimeofday, time | vDSO callers; a concurrent writer |
| ChildTracker (`pkg/faketime/faketime.go`) | children, pendingStop, parentGone, done | watch loop over fork, exec, exit and signal stops; SetTime, Freeze, Advance, Reset, Close | kernel (ptrace, wait4), callers |
| Session (`faketime.go`) | handles, trackers, target and mode | Start, Attach, SetTime, Freeze, Advance, Reset, Prune, Close | processes, trackers |
| ptrace wrapper (`pkg/procmem`) | one OS thread per Tracer | seize, wait, continue, interrupt, detach, read and write memory | kernel |
| SDK (`pkg/sdk`) | none; a timeshift id per scope | create, update, advance, delete, status; WaitForActive; WithTime, WithFrozenTime, WithTimeT | controller (HTTP) |
| `faketimectl` (`cmd/faketimectl`) | for `run`: childHandles, pendingStop, done | one SDK call per command; `run` starts a command, injects it and follows its children | controller; kernel (ptrace, wait4) |
| Test helpers, API types, logging | none | wrappers, data types | SDK, faketime |

What is hard in it, and what makes each part correct:

* **Controller.** The lock covers single map accesses, while one operation is a
  series of agent calls and two ConfigMap calls. Requests, the sweeper and the
  watcher interleave between them; replies get lost; containers restart under
  the same name with a new id; agents lose their handles in a crash and reset
  them in a drain; the controller restarts from what it flushed last. Correct
  means: a handle never reaches a container it was not issued for, no container
  is in two timeshifts, a fake clock always belongs to a timeshift that can
  still reset it, what `GET` reports is what the processes see, a removed
  timeshift stays removed, an expired one releases its containers, a restarted
  container is faked again.
* **Trampoline.** The struct is rewritten while other threads read it, and a
  signed offset is added with carry and borrow. Correct means that a call
  returns the promised instant, and a torn one stays near the old and the new.
* **Injection.** It edits a process that may have other running threads, and
  every step can fail. Correct means that nothing of the program is
  overwritten, that the three functions agree, and that a failure leaves no
  half-edited code.
* **ChildTracker.** One loop follows a tree of processes that fork, exec, stop
  and die at any moment, while callers write to them and may close the tracker.
  Correct means that a handle points at the page its process uses, that the
  tree shares one clock, that every stopped process is resumed, that every exit
  is collected, and that Close returns and leaves every process running.
* **Session.** Calls read shared state under a mutex, work without it and write
  back. Correct means that all processes show the session's clock, that no
  living process is lost, and that no tracker is closed twice.
* **Agent.** The lock covers the map and `lastTarget`; the page in the target and
  the generation counter are written outside it, and SIGTERM or SIGKILL can come
  at any step. Correct means that Status tells what is in the page, that a drain
  leaves every process on the real clock, and that the controller may think of
  an RPC as one step.
* **SDK.** A request and its answer can be lost, and a client can give up, panic
  or die between any two requests. Correct means that the callback runs under
  the clock that was asked for, that nil is returned only when the timeshift is
  gone, and that nothing is left in the end.
* **`faketimectl run`.** Two threads wait for the same process, and the two sides
  of a fork stop in either order. Correct means that every process of the tree
  sees the fake clock, that none is left stopped, that signals arrive, and that
  the command's exit status is passed on.

## 2. Modules

| Module | Models |
|---|---|
| `Cluster` | containers, their hooks and pages, agents and their handle maps |
| `Controller` (extends `Cluster`) | registry, handlers, sweeper, watcher, store, restarts |
| `Registry` | what the controller promises: timeshifts changed one at a time, and a saved copy |
| `ControllerRefinement` (extends `Controller`) | the mapping that shows `Controller` implements `Registry` |
| `Agent` | one agent, its RPCs step by step, its way down; implements `Cluster` |
| `Sdk` (extends `Registry`) | SDK clients and `faketimectl` requests over HTTP |
| `Run` | `faketimectl run` against the kernel's processes |
| `Trampoline` | the state struct, the writer, the three stubs |
| `Injection` | `findNearbyGap`, `remoteMmap`, the patch loop of `injectWithTracer` |
| `Tracker` | `ChildTracker` against the kernel's processes |
| `Session` | `Session` against processes that exit |
| `MCController`, `MCAgent`, `MCSdk`, `MCTracker`, `MCSession`, `MCInjection` | values of the constants for TLC (`Trampoline` and `Run` need none) |
| `ControllerProofs` (extends `ControllerRefinement`) | theorems about `Controller`, and that it implements `Registry` |
| `AgentProofs`, `SdkProofs`, `RunProofs`, `TrackerProofs`, `SessionProofs`, `InjectionProofs`, `TrampolineProofs` | theorems about the module each is named after, and the inductive invariants they need |

### Cluster and Controller

`pages` holds every page ever mapped; an index is an agent handle, `hook[c]` is
the page a container's vDSO jumps to, `live[n]` the handle map of the agent on
node `n`. A container id is a slot with an incarnation number. Time is the
distance from the real clock, in units so coarse that it does not move during a
behaviour; the drift between computing an offset and writing it is thus left
out.

`objs` is the heap of timeshift objects, `registry` the ids in the map: a
goroutine that looked a timeshift up keeps its pointer after the id is gone, as
in the code. Each goroutine is a record `thr[t]` with a program counter and the
locals of its function. A step is one critical section, one agent call, one
ConfigMap call or one gauge update. `createTimeshift` is
`CreateStart; CreateCheck; InjectOk/Err/Lost ...; CreateRegister; GaugeInc;
Encode; FlushGet; FlushPut`; `updateTimeshift` is `UpdateStart;
SetTimeOk/Err/Lost/NotFound; ReinjectOk/Err/Lost ...; UpdateApply`, then the
same flush; `deleteTimeshift` is `DeleteRemove; GaugeDec`, the flush, then
`ResetOk/Err/Done`; `sweepExpired` is `SweepRemove; SweepNext ...` with the
resets; `handlePodEvent` is `WatchReceive; WatchMatch; WatchNext; InjectOk ...;
WatchApply`. An `...Err` step is a call that had no effect, a `...Lost` step one
that had its effect and lost the reply.

Smaller decisions: an empty pod list, or a failing list, is a request that is
not accepted. A flush that took effect and lost its reply equals `FlushPut`,
because the error is only logged. `resetHandles` ranges over `s.handles`
unlocked; after the removal only an update in flight changes that slice, in
place, so reading the entries when they are used is the same. The delay of the
informer's queue is the time between `WatchReceive` and `WatchMatch`. The order
in which `injectPod` walks a pod list is the order of the container numbers.
`ClientsGiveUp` says whether a client may go away while its request is served,
which cancels the context of the request's calls (`ClientGone`); they then fail at
once, and the handler goes on.

### Registry and ControllerRefinement

`Registry` has the timeshifts by id, the saved copy, and the registries that
saves in flight have taken. A save is not atomic: it may land late, after
another one, or never. `ControllerRefinement` maps `registry` and `objs` to the
timeshifts, `store` to the saved copy, and the threads between `Encode` and the
end of `flush` to the saves in flight; handles, threads and agents have no
counterpart. `ImplementsRegistry` names, for each step, the abstract step with
its arguments, so that TLC evaluates it without searching for a witness.

### Agent

An RPC goroutine is a record `rpc[r]`. `Inject` is `Inject; InjectOk; File`, with
`InjectErr` (nothing changed) and `InjectHalf` (a jump is in place, no handle);
SetTime and Reset are `SetTime; LoadGen; StoreGen; WriteOk or WriteErr; Note`,
because `h.gen++` and the assignment of `lastTarget` are not under one lock.
`Sigterm` stops new RPCs, `Drain` waits for the ones in flight, `DrainReset`,
`DrainErr` and `DrainTimeout` are the loop of `drain`, and `Exit` is the return
from main or a SIGKILL at any moment. An Inject that finds no process, a SetTime
of an unknown handle and the arguments' checks change nothing and are left out.

`ImplementsCluster` maps this agent to the one-step agent of `Cluster`: a handle
is in the abstract map from the step that maps its page, and one that no RPC has
been told of is as good as the abstract `Install` with a lost reply. `Controller`
assumes that a call it has given up on takes effect before the controller's next
step or never; the agent itself may be slower. A drain is, abstractly, a series
of writes followed by a crash, which `Cluster` joins into one step for
`AgentExits = {"drain"}`.

### Sdk

A client is a record `cl[c]` with the request it waits for and the answer.
`withTimeMode` is `Begin; Created; Active; FnReturns or FnPanics; Deleted`, or
`Aborted` after a failing WaitForActive. `Fail` is the end of the 30 seconds or
of the context; the request then becomes a `stray` that the controller serves
later or never. A handler is one step on the registry of `Registry`, which
`ImplementsRegistry` justifies; whether a create succeeds is left open. `Wire`
is the conversion to RFC3339, which drops the fraction. `Tests`, the callers of
WithTimeT, always ask for an advancing clock (`AskedBy`), as testing.go:41 does.
WaitForActive polls again only while an entry has neither status nor error, which
no handler produces, so it is one request. Which containers an answer names is
left to `Controller`. `AtATime` picks which clients take part in a behaviour.

### Run

`main` is the goroutine of `cmdRun`, `loop` that of `runWatchLoop`, `proc` the
kernel's processes. A stop and an exit are given to one waiter: to `PollStop`
and `PollExit` of the loop, or to `WaitExit`, `WaitStop` and `WaitNoChild` of
cmd.Wait. `track` is the flag. `stolen`, `eaten` and `early` record that
cmd.Wait was given a stop, that a signal was swallowed, and that a child's first
stop was polled before the fork that announces it. A stop that cmd.Wait was
given is not reported again: `DetachWait`, the wait4 of InterruptDetach, needs a
stop nobody has collected, so after `WaitStop` it never happens, and main stays
in `join`. A clock is fake or not. A behaviour ends with faketimectl: what its
descendants do afterwards is not followed.

### Trampoline

`words` is the struct, written one word at a time (`WriteWord`, in any order:
`process_vm_writev` promises none), read by the stub in the order of its loads
(`TestMask`, `LoadSec`, `LoadNsec`). `NsPerSec` and `NsPerUsec` keep the 1e9 and
1000 of the code symbolic. The divisions truncate as `idiv` and Go's `/` do, and
`time.Time.Sub` saturates at `MaxDuration`. `Stored` and `Normalise` are the
arithmetic after the loads.

### Injection

Addresses are scaled: `Window` stands for 2^31, both the radius of the search
and the reach of a `JMP rel32`; a page has `PageSize` bytes. `/proc/<pid>/maps`
has one line per mapped page; adjacent pages that the kernel would merge into
one line give the same gaps. The loop of `findNearbyGap` is one step per line:
`SkipLine` for one below the window, `ReadLine` for one in it, `ScanEnd` for the
first one above it or the end of the file; `inj.prev` is `prevEnd`, `inj.line` the
page from which the file is read on. Other threads of the target may map pages
between two lines. (The scanner reads a buffer of lines at a time, so in a target
with such threads a line may be older than in the model. `GapExact` speaks of
processes that are held whole; and for what a stale gap leads to it does not
matter whether the page was taken before the line was read or between the scan
and the mmap, which the model has.) `remoteMmap` is
`Poke; MmapNoReplace; MmapFixed; Restore` with its
failures and the deferred `Undo`; a signal that arrives instead of the SIGTRAP
is a `MmapErr` before or after the page was mapped. `Undo` ignores an error, as the
code does (`inject.go:506`): in a brittle target it may leave the entry as it is.
Elsewhere restoring the bytes is assumed to succeed, because the process could be
written before. Pages of failed
injections stay mapped, as in the code. The clamp at the top of the address
space is modelled and not reached: user space ends far below 2^64 − 2^31
(`SpaceAssumption`, which also excludes the one address of a vDSO for which the
window would start at page 0: `rbase > near` does not see it, and no kernel maps
a vDSO there). `KernelOrder` is what kernels do with the vDSO: clock_gettime
behind the other two functions, less than a page away, and its first bytes in
one page. Only the reach of the jumps rests on it.
`target` says whether the process has threads that ptrace does not hold and
whether its vDSO may refuse a patch. `Runs(h)` is what a call of function `h`
executes at any moment; `written` has the pages whose payload is complete.

### Tracker

`proc` is the kernel's view of each process (running, in a stop not yet
collected, held by the loop, zombie ...), `handle[p]` the Go object, `children`,
`pending`, `gone`, `done` the fields of the tracker, `loop` and `call` the
locals of `watchLoop` and of the callers. The done channel is checked in the
step that takes the pid snapshot, the deletion of an exited child is merged with
the wait that reported it, and in `cleanup` a Reset's write with the update of
its fields. How the tracker is used and what may happen to it is a
record `world`, chosen at the start: `calm` restricts calls to moments when the
loop has caught up; `prunes` tells `ChildTracker.applyAll` (which drops children
that answer ESRCH) from `Session.applyAll` (which leaves that to the loop);
`seized` tells Attach from Start; `killStopped` lets SIGKILL hit a stopped
process. `want` records the clock that the calls add up to, `slain` the children
whose forker was killed in the stop that reports them. Left out: pid reuse, a
vfork child that still shares its parent's memory, forks by threads other than
the leader, a stale address that happens to be mapped, and a `cmd.Wait` of the
user that takes a status (`Run` has one).

### Session

A goroutine's call is a record `call[t]`; a step is one critical section, one
injection or one write. A zombie counts as alive for `IsAlive` (signal 0) and
gives ESRCH to a write. A tracker is here the parent's handle and whether it was
closed; the children are the business of `Tracker`. Close is the last call of
its goroutine, and with `CloseLast` of all of them. `raced` records that calls
which read or change the clock have overlapped.

## 3. Runs

`CHECK_DEADLOCK FALSE` is set because requests, restarts, calls and forks are
bounded: a behaviour may come to rest when they are used up.

| Run | Instance | Checks |
|---|---|---|
| `registry` | handler, sweeper and watcher, one container that restarts, TTLs, an agent crash, a failing or lost call, a controller restart | `TypeOK`, `HandleMatchesContainer`, `OneEntryPerContainer`, `GaugeExact`, `NoResurrection`, `ImplementsRegistry` |
| `deployed` | one handler, three requests, the sweeper and the watcher, two pods, an agent crash or drain, a controller restart; no TTLs, container restarts or failing calls | `NoOverlap`, `FakedIsTracked`, `ClockAgrees`, `StoreCurrent` |
| `liveness` | handler, sweeper and watcher, a container restart, a fault, clients that give up, calls that may hang, under fairness | `RequestsEnd`, `ExpiryReleases`, `WatcherRecovers` |
| `agent` | two RPC goroutines, four calls, both modes, a fault, a container restart, an agent restart | `StatusAgrees`, `DrainedReal`, `ImplementsCluster` |
| `sdk` | two of a WithTime, a WithTimeT and a faketimectl, both modes, a target with a fraction of a second, a lost answer or death, a controller restart, under fairness | `FnHeld`, `NilMeansClean`, `CleanedUp` |
| `run` | with and without `--track`, three processes, two execs or signals, a SIGKILL or a failing injection, under fairness | `SeesFake`, `ExitStatus`, `SignalsForwarded`, `NotHeld` |
| `stub` | one write, all functions, both modes | `StableExact`, `TornWithinASecond` |
| `inject` | two injections, every set of mapped pages, four layouts of the vDSO, two faults; targets that are held whole, have other threads, or fail to be patched | `GapExact`, `NothingOverwritten`, `OneClock`, `CallsSane`, `ReachesAll` |
| `tracker` | three processes, in two worlds: both modes, an exec, Close, calls through `ChildTracker.applyAll` at calm moments; two execs, SIGKILL in stops, a failing re-injection, calls at any moment | `TreeAgrees`, `ReleasedByClose`, `HandleReaches`, `SwapFindsChild`, `NoOrphan` |
| `tracker_live` | two processes, two callers, an exec, SIGKILL in stops, a signal, under fairness | `StopsEnd`, `CloseReturns` |
| `session` | two goroutines, three processes, three calls, a failing injection or write | `SessionAgrees`, `LiveStay`, `ClosedOnce` |
| `v_run_wait` | `run` with two processes, no exec, signal or SIGKILL | `CleanupEnds`, which is violated |

`v_run_wait` shows a disagreement of the code with its words (section 4).

`deployed` says what the controller guarantees to one client that waits for each
answer, beside the sweeper and the watcher that `main.go:70` and `main.go:71`
always start, as long as these have nothing to do; `registry` and `liveness` have
them at work. `SessionAgrees` says what a session guarantees while calls that
read or change its clock do not overlap; `TreeAgrees` and `ReleasedByClose` what
a tracker guarantees to calls made while its loop has caught up. Section 4 lists
what is lost without those conditions.

The bounds are the smallest in which each hazard can happen. Two timeshifts can
overlap only on a shared container, so `deployed` has two containers in two pods
and the selectors `{p1}` and `{p1, p2}`. A handle can be filed in the wrong place
when a restart makes the watcher replace an entry during an update: one
container is enough for that, since its next incarnation is another container
to the code, and then handler, sweeper, watcher and all faults fit in one run.
The proof of `HandleMatchesContainer` covers any number of containers and
handlers. A lost generation, or a drain that overtakes an RPC, takes two RPCs on
one handle. A timeshift nobody knows of takes one lost answer. A signal that is
swallowed takes a child, a process that forks or execs without being filed a
grandchild: three processes, and two events so that one can follow the other.
A grandchild in the tracker needs three processes. A second of four
nanoseconds and a microsecond of two have a carry, a borrow and a remainder, and
the real clock runs past one second so that a stable read needs the borrow. Ten
pages with a window of four to each side leave room below, inside and above the
window. The type invariants of the other modules hold in the same runs and are
kept as documentation of the variables.

### Fairness

`FairSpec` of `Controller` has weak fairness of the steps a goroutine takes by
itself, since Go schedules every runnable goroutine, but none of the calls it
waits for: the agent RPCs and the calls to the API server have no deadline of
their own (`agentclient.go:35-82`, `controller/main.go:73`), only the context of
their caller, so an agent that hangs may never answer. `Calling` names those
steps. The context of a handler ends when its client goes away, which every
client does in the end (the SDK after 30 seconds, `sdk.go:40`; anything else
when its process or connection ends): `WF(ClientGone)`. `RequestsEnd` holds
because every call gets that context. The contexts of the sweeper and the
watcher last as long as the process, and one call that hangs stops them.
`ExpiryReleases` and `WatcherRecovers` therefore have `CallsReturn` of the
sweeper, or of the watcher, as a premise: every call returns, with an answer or
an error. TLC finds both violated without it. Receiving an event for each pod
has strong fairness, since the informer lists again every five minutes and
serves its queue in order. No client has to send anything and nothing in the
environment has to happen. `ExpiryReleases` asks for more than one moment of
release: from some moment on no process is on a clock set through the
timeshift's handles. For this no update may be under way when the timeshift is
removed (`Straggler`), which otherwise fakes again what the sweeper has reset,
and no call of the sweep may have failed, since a reset is not tried again.

`FairSpec` of `Tracker`: weak fairness of the loop, which polls for ever, and
of the goroutines inside a call. No process has to do anything. `FairSpec` of
`Sdk`: time passes, the sweeper's ticker ticks, and a request on the wire is
served or lost in the end; no client has to act. `FairSpec` of `Run`: the two
goroutines run and the kernel delivers stops; no process has to fork, exec or
exit.

## 4. Where the code and its words disagree

One of them is a run; `PROJECT.json` quotes the lines it contradicts.

| Run | Violated | What happens | Contradicts |
|---|---|---|---|
| `v_run_wait` | `CleanupEnds` | cmd.Wait is given a ptrace stop of the command, because Linux reports those to any thread of the tracer that waits for the process, whatever its options; nobody continues the command, the InterruptDetach of the cleanup waits for a stop that is not reported again (`procmem.go:392`), and faketimectl hangs beside a stopped command | cmds_run.go:128 |

The models show more of them. Each of the following is a counterexample that TLC
finds for a run of section 3 with the change named. Where the property is not one
of that run it takes the place of the run's properties; it is defined beside
them, and the line it contradicts is quoted there. No run checks it, because the
code violates it.

| Change | Violated | What happens | Contradicts |
|---|---|---|---|
| `deployed` with two handlers | `NoOverlap` | two creates check before either registers (`controller.go:521`) | README.md:776 |
| `deployed` with container restarts, three pods, selectors `{p1,p2}` and `{p2,p3}` | `NoOverlap` | the watcher injects a container of another timeshift (`watcher.go:43`) | README.md:776 |
| `deployed` with container restarts | `ClockAgrees` | the watcher injects the clock it read before an update (`watcher.go:88`) | CONTEXT.md:525 |
| `deployed` with two handlers | `ClockAgrees` | two updates reach the agents in one order and the registry in the other | README.md:299 |
| `deployed` with a failing call | `ClockAgrees` | one SetTime fails, the update succeeds all the same (`controller.go:318`) | README.md:299 |
| `deployed`, the mode compared before and after an advance | | an advance through the SDK unfreezes a frozen timeshift (`controller.go:376`) | sdk.go:209, README.md:302 |
| `deployed` with two handlers, or with TTLs | `FakedIsTracked` | an update fakes again what a delete or the sweeper has reset (`controller.go:306`) | sdk.go:231 |
| `deployed` with container restarts | `FakedIsTracked` | the watcher injects for a timeshift that was deleted after it looked (`watcher.go:88`) | sdk.go:231 |
| `deployed` with a lost reply | `FakedIsTracked` | a create whose Inject was answered too late leaves a fake container that no timeshift has (`agentclient.go:37`) | |
| `deployed` | `NotFoundIsReal` | an agent that crashed answers NOT_FOUND and the process stays on its fake clock (`controller.go:402`) | controller.go:397 |
| `deployed` with two handlers, or with TTLs | `StoreCurrent` | the older of two snapshots is written last (`controller.go:121`), or of two first flushes the newer fails with AlreadyExists (`store.go:95`) | store.go:20 |
| `deployed` with container restarts | `StoreCurrent` | the watcher files new handles and does not store them (`watcher.go:101`) | store.go:20 |
| `liveness` without the premise on stragglers | `ExpiryReleases` | an update fakes again what the sweeper has reset, for ever | controller.go:429 |
| `liveness` without the premise on calls | `ExpiryReleases`, `WatcherRecovers` | one call that hangs stops the sweeper, or the watcher (`agentclient.go:37`) | |
| `sdk` | `ExactTarget` | the target of WithFrozenTime loses its fraction of a second in RFC3339 (`sdk.go:155`) | sdk.go:145, sdk.go:332 |
| `stub` with `Modes = {FALSE}` | `TornBetween` | a torn read adds the seconds of one offset and the nanoseconds of the other, up to a second outside the old and the new time (`inject.go:356`) | README.md:126, README.md:737 |
| `stub`, the second of gettimeofday compared with the promised one | | it can be one ahead, because a negative offset is truncated towards zero (`trampoline.asm:132`) | trampoline.asm:189 |
| `stub` without the condition on frozen settings | `TornWithinASecond` | a read across a change of mode takes an instant for an offset | README.md:126 |
| `stub` with `MaxDuration = 5` | `StableExact` | a target beyond 292 years is moved (`inject.go:371`) | inject.go:219 |
| `inject` | `FixedIsSafe` | another thread maps the page that was found, and the retry after EEXIST maps over it (`inject.go:577`) | inject.go:518 |
| `inject` without the condition on `clock_gettime` | `ReachesAll` | the lowest page of the window is five bytes out of reach when clock_gettime starts a page (`inject.go:393`) | inject.go:384 |
| `inject` without the condition on brittle targets | `OneClock` | a failed second patch leaves the first (`inject.go:342`) | inject.go:275 |
| `inject` without the allowance for `syscall; int3` | `CallsSane` | a thread that ptrace does not hold runs it (`inject.go:511`) | inject.go:277 |
| `inject` without the allowance for brittle targets | `CallsSane` | the deferred restore fails, its error is ignored, and the entry keeps `syscall; int3` (`inject.go:506`) | |
| `tracker` | `CloseDetaches` | Close with a fork event pending leaves the child in its stop (`faketime.go:761`) | faketime.go:650 |
| `tracker` with `calm` false in `CalmWorld` and in the properties | `TreeAgrees` | SetTime misses a child whose fork is not handled yet | faketime.go:615 |
| `tracker` with `signals` 1 in `CalmWorld` | `ReleasedByClose` | the SIGSTOP of the detach outlives it (`procmem.go:392`) | faketime.go:651 |
| `tracker` without the condition on a living parent | `TreeAgrees` | an Advance after the parent's exit starts from a Handle no call updates any more (`faketime.go:629`) | faketime.go:625 |
| `tracker` with `prunes` true in `RacyWorld` | `SwapFindsChild` | the child is pruned while it is re-injected, and handleExec dereferences nil (`faketime.go:976`) | faketime.go:968 |
| `tracker_live` with `prunes` true | `StopsEnd` | nobody waits for a pruned child (`faketime.go:606`) | faketime.go:786 |
| `session` without the condition on races | `SessionAgrees` | a process joins with the clock from before a SetTime (`faketime.go:305`) | faketime.go:260 |
| `session` with `CloseLast = FALSE` | `ClosedOnce` | Prune closes a tracker that Close has closed (`faketime.go:1118`) | faketime.go:1073 |
| `agent` without the condition on crossed writes | `StatusAgrees` | two SetTime calls on one handle: Status tells the other one's target (`main.go:225`) | api.go:53, sdk.go:237 |
| `sdk`, the timeshift looked for whenever WithTime returns | | a cancelled context or a panic leaves it until its TTL (`sdk.go:369`) | sdk.go:313 |
| `run` | `SignalsAllForwarded` | a child's first stop is polled before the fork that announces it, and the pendingStop that stays swallows its next signal (`cmds_run.go:269`) | cmds_run.go:277 |
| `run`, processes looked at when faketimectl has ended | | a child that was detached at another stop is left stopped by the SIGSTOP (`procmem.go:392`) | faketime.go:651 |

## 5. Proofs

`ControllerProofs` proves, for all sets of containers, pods, nodes and threads
and all bounds, from the named assumptions of `Cluster` and `Controller`
(topology maps are functions of the right type, thread sets are disjoint and
finite, requests draw from the right types):

* `TypeCorrect`: `Spec => []TypeOK`;
* `HandleSafe`: `Spec => []HandleMatchesContainer`;
* `NothingResurrected`: `Spec => NoResurrection`;
* `GaugeExactHolds`: `Spec => []GaugeExact`;
* `OneEntryHolds`: `Spec => []OneEntryPerContainer`;
* `ImplementsRegistryHolds`: `Spec => ImplementsRegistry`;
* `NoOverlapHolds`: `Spec => []NoOverlap` under `OneHandler`;
* `StoreCurrentHolds`, `ClockAgreesHolds`, `FakedIsTrackedHolds`: the same for
  `StoreCurrent`, `ClockAgrees` and `FakedIsTracked` under `OneClient`.

`HandleMatchesContainer` alone is not inductive. A handle travels: from the
reply of an agent into a thread's locals, from there into the heap, from the
heap into the copy that an update works on, into an encoded registry, into the
ConfigMap, and back at a restart. An update moreover remembers new handles by
their index in its copy, while the watcher may reorder the original. `HandleInv`
says of every one of these places that the entry names the container instance
its handle was issued for (`IssuedFor`), of every remembered index that it lies
in the copy and belongs to the same container (`UpdInv`), and of every id in a
thread, an encoded registry or the ConfigMap that it is allocated (`DataInv`,
`ThreadInv`). It is preserved because `pages` only grows and its `c` and `inc`
fields never change, which the first lemmas state; each action then has one
lemma. `NothingResurrected` uses that every id a thread holds is allocated, and
`TypeOK` of the state before.

`RegInv` adds to `HandleInv` what the next three need, for any finite set of
threads (`ThreadAssumption`; a gauge of infinitely many goroutines has no value).
For the gauge, `IdsInv`: only a sweep
that is not over has expired timeshifts to count, so no thread forgets any when it
ends. For the entries, `EntryInv`: the containers that injectPod has done and
those it has still to do are different ones and, for a pod event, all of the pod
whose entries `WatchApply` drops; and every copy of a timeshift, in a thread or in
the ConfigMap, has one entry per container. Most steps are `Ordinary`: they touch
none of registry, gauge, saved copies and what clients see. The others have a lemma
each (`Good`) that gives the balance of the gauge and the abstract step. The
theorem on the refinement covers saves that overlap: when two threads have taken
the same registry, the first of them to fail is a stuttering step.

The last four say what the controller promises to requests that do not overlap,
with the sweeper and the watcher it always runs. `OneHandler` is: at most one
handler, any number of sweepers, and `WatchersRest`: no watcher, or one in a steady
cluster (no container restarts, no call fails, no client gives up). `OneClient` is:
one handler, `MaxFaults = 0`, no client that gives up, timeshifts without TTL where
there is a sweeper, no container restarts where there is a watcher. Everything
else is free: the numbers of containers, pods, nodes, requests, agent exits and
controller restarts, and, without a watcher, container restarts. `deployed` is an
instance of both. These conditions are not simplifications of the model: they say
that sweeper and watcher run and have nothing to do. When they have work the code
breaks the properties, and TLC shows how (section 4): the watcher takes a
container of another timeshift, or injects a clock from before an update; a flush
takes its snapshot before a sweep and is written after it; an update fakes what a
sweep has reset; a pod event injects for a timeshift just deleted. For
`ClockAgrees` beside a sweeper with TTLs TLC finds no counterexample, with two
requests and restarts of containers and agents, or with three requests and none;
that case is not proved.

* `CalmInv`: where nothing restarts, every timeshift, those in the ConfigMap and in
  an update's hands included, has an entry for each container of its pods, so the
  watcher compares a pod's containers and finds them handled; where no timeshift
  has a TTL, the sweeper finds nothing overdue. The lemma `OthersRest` draws from
  it that a step of the sweeper or the watcher changes only its own locals, so the
  invariants below need to know of the client's steps alone.
* `OverlapInv`: no two registered timeshifts, nor two of an encoded registry or
  of the ConfigMap, share a container, and the containers a create has injected
  or has still to (`FreeInv`) are in no registered timeshift. The second half carries
  the conflict check over all the agent calls between check and registration.
* `StoreInv`: the ConfigMap equals the registry except between a change of the
  registry and the end of the flush that follows it (`Unsafe`), and inside the
  flush the encoded data equals the registry.
* `PageInv`: a container's vDSO jumps to a page of its present incarnation, and an
  agent's handles lead to pages of its node.
* `ClockInv`: `Claims(e, k)` says that somebody holds entry `e` for clock `k`: the
  registry, an update that has reached position `i` and so claims its new clock
  below `i` and the old one from `i` on, or a create that injects. `ShowInv`: every
  claim on a living container is true of the page its vDSO jumps to, unless an agent
  has forgotten the handle and drained the page. `TrackInv`: every container on a
  fake clock that its agent can still reset is claimed, or owed a reset by a
  delete (`Owes`). Most steps only pass claims from one holder to the next: a create
  to the registry, an update to the registry, the registry to a delete. The steps
  that write a page need that no other claim names it, which is `OverlapInv` and
  `OneEntryPerContainer`. A restart of the controller drops claims, so `ClockInv` is
  kept up to the first, which is how the two properties are stated.

The other proof modules follow one pattern. The inductive invariants come first,
as named predicates; then a lemma per action that states its effect on each
variable; then one lemma per action and invariant; then the theorems. Each
inductive invariant was checked with TLC on the run's instance before it was
proved.

`AgentProofs`, from `AgentAssumption` (settings are clocks, the two bounds are
numbers):

* `TypeCorrect`, `StatusAgreesHolds`, `DrainedRealHolds`;
* `ImplementsClusterHolds`: `Spec => ImplementsCluster`, the refinement of the
  agent in `Cluster`.

`MapInv` says who may reach a page: a filed handle, the one RPC that is about to
file it, or nobody (`lost`); and that no RPC is in flight once the agent drains,
which is what `GracefulStop` is for. `StatusInv` adds how far the single writer of
an uncrossed handle is, since between `h.gen++` and the assignment of
`lastTarget` entry and page differ; `DrainInv` what the loop of `drain` has been
through; `LifeInv` which handles belong to an earlier process of the agent, so
that a crash empties the abstract map in one step.

`SdkProofs`, from `SdkAssumption` (kinds of clients are disjoint, the wire format
keeps a clock a clock): `TypeCorrect`, `FnHeldHolds`, `NilMeansCleanHolds`. The
danger is a request that outlives its sender. `RequestInv` says of every request,
strays included, that it deletes a timeshift only when its holder is done with
it; `IdInv` that no two callers hold one id; `FlowInv` and `CtlInv` what each
place of a client implies; `ClockInv` that every registry there is, the saved
copy and the saves in flight included, has the clock the holder sent; `HeldInv` and
`CleanInv` are the two properties, kept from the answer on. The proof found two
arms of a `CASE` in `Created` that overlapped; they are an IF now.

`RunProofs`, from `PidAssumption` (the command is process 1): `TypeCorrect`,
`SeesFakeHolds`, `ExitStatusHolds`, `SignalsForwardedHolds`. `Current` says that the
stop the loop handles is still the one it polled, unless the process was killed;
`FakeInv` that only the stop of an exec holds a process without its trampoline;
`StatusInv` that the command is gone once cmd.Wait has returned; `SignalInv` that
a pendingStop belongs to a process that has not gone past its first stop, and
that no two forks announce one child.

`SessionProofs`, from `FilterAssumption` and `CallAssumption` (the filters are
sets of the processes, calls draw from the right types): `TypeCorrect`,
`LiveStayHolds`, `SessionAgreesHolds`, and `ClosedOnceHolds` under `CloseLast`, which
the run sets and without which Prune closes a tracker again (section 4). `AddInv`
says that one call adds a process and that what a call found dead stays dead;
`CloseInv` that a tracker is in the session, or in the list of the one Prune that
took it out, or closed; `ClockInv` how far the one call that uses the clock is.

`TrackerProofs`, from `TreeAssumption` (the parent is one of the processes, the
worlds are well-formed): `TypeCorrect`, `HandleReachesHolds`, `NoOrphanHolds`,
`ReleasedByCloseHolds` for every world, and two for the worlds of which they are
true:

* `SwapFindsChildHolds` where callers that prune call at calm moments. Elsewhere
  handleExec can find its child pruned (section 4);
* `TreeAgreesHolds` where calm worlds have no failing re-injection. A failed one
  leaves a process on the real clock, which no later event repairs.

Both are true of the worlds of `MCTracker`. The invariants are `StopInv` (which
stops a process can be in, and that a process unknown to the tracker has not run),
`LoopInv` (the locals of handleEvent are still true of the process, unless it was
killed), `AdoptInv` and `ForkInv` (the child of a fork is announced by one process
and waits for the loop), `ReachInv` (handle and page agree, except between a
re-injection and the assignment of the new handle), `CallInv`, `OrphanInv`,
`CalmInv`, `SwapInv`, `CloseInv` (how far cleanup is) and `TreeInv` (how far a call
is with each process, and one clock for all between calls).

`InjectionProofs`, from `SizeAssumption` and `SpaceAssumption`: `TypeCorrect`,
`GapExactHolds`, `NothingOverwrittenHolds`, `CallsSaneHolds` for every page size,
window and address space, any vDSO and any number of injections and faults; and
under `KernelOrder`, which `MCInjection` has TLC evaluate for its layouts,
`ReachesAllHolds` and `OneClockHolds`. The loop over the lines needs no induction
over data, because a line is a step: `ScanInv` says that every page of the window
below the current line is in use and that `prev` is where that line ends.
`GapStartFacts` then gives the lowest page at which a gap may begin, and `ReadLineFacts`
and `ScanEndFacts` that the page found is the lowest candidate. `GapInv` carries
this page to remoteMmap as a page of the window; `MapInv` says what it holds
before and after the mmap, and for held processes that it is still free, which is
why MAP_FIXED overwrites nothing; `CallInv` that entries are borrowed by remoteMmap
only, or left to a brittle target by a restore that failed, and lead to whole
payloads. `JumpInv` says how far the patch loop is: when the first entry was in
reach so are the other two, by `KernelOrder`, so that only a brittle target is
left half patched.

`TrampolineProofs`, from `UnitAssumption` and `CallAssumption` (a microsecond divides
a second, targets are times after the epoch): `TypeCorrect`; and under `InRange`,
`StableExactHolds` and `TornWithinASecondHolds`, for any number of readers and
writes. `InRange` says that no target is further from the real clock than a
time.Duration reaches, 292 years; without it a target is moved (section 4). The
arithmetic comes first: truncating division leaves a remainder with the sign of
what is divided (`TruncFacts`), the words of a setting add up to its offset
(`WordsNameOffset`), and one correction step is enough (`NormaliseFacts`), so the
stubs add exactly or, for gettimeofday, lose two fractions of a microsecond
(`AddedClock`, `AddedTime`, `AddedUsec`). `StructInv` says of each word in the struct
which setting it comes from, `ReadInv` that what a stub has loaded comes from the
settings current during its call, and that its real time lies within the call. A
torn read thus pairs the seconds of one setting with the nanoseconds of another;
it stays within a second only because the two words of an offset never differ in
sign (`TornOffset`).

### Only model-checked

* What needs fairness, which TLAPS cannot prove: `RequestsEnd`, `ExpiryReleases`,
  `WatcherRecovers`, `StopsEnd`, `CloseReturns`, `CleanedUp`, `NotHeld`.
* `CleanupEnds` and the other violated properties of section 4. `NoOverlap`,
  `ClockAgrees`, `FakedIsTracked` and `StoreCurrent` are proved under conditions
  that the changes named there break.

The invariants and action properties of all the passing runs are proved.

## 6. Not modelled

* Handlers: JSON, latency metrics, Kubernetes events; `list`, `get` and `resolve`
  only read.
* Unlocked reads of `s.handles` by `appliedTo`, `listTimeshifts` and the event
  poster: a Go data race on diagnostics.
* `faketimectl inject`, which is one injection as in `Injection`, and the printing
  of `list`, `get`, `status` and `resolve`.
* The test helpers of `pkg/faketime`, which register a Close or Reset with
  testing.T and keep no state.
* ELF parsing, `/proc` parsing, dialling, flags, TLS, logging, generated code:
  input and output without state that outlives a call.

Noted on the way, without a run: the repository's README says in line 104 that
the nearest free page is taken and in line 536 the first; the code takes the
lowest. `api.go:53` and `sdk.go:237` say that Status is read from the trampoline's
state struct; the agent answers from its own memory (`main.go:266`).
`docs/index.html:694` says that WithTimeT calls WaitForActive, which it does not,
and `sdk/testing.go:12` that a failing delete ends in t.Fatalf, which is t.Errorf.
`sdk.go:308` speaks of every targeted container; a container whose injection
failed at the create is not in the timeshift and is not waited for.

## 7. Plan

Done: all modules of section 2, and the proofs of section 5: every invariant,
action property and refinement of the passing runs. Left:

1. `ClockAgrees` and `StoreCurrent` in a form that holds for any number of clients,
   which takes knowing of every two requests whether they overlapped.
2. `ClockAgrees` for one handler beside a sweeper, which needs in addition that a
   handle in a removed timeshift is in no registered one.
3. A property for each hazard of the tracker and the session that has none
   because the code does not meet it (H22, H27 to H30 of `PROJECT.json`, in its order).
