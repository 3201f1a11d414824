----------------------------- MODULE Controller -----------------------------
(***************************************************************************)
(* The epochd controller (src/cmd/controller): the timeshift registry, the *)
(* HTTP handlers that create, update, advance and delete timeshifts, the   *)
(* TTL sweeper, the pod watcher and the ConfigMap store, on top of the     *)
(* containers and agents of Cluster.tla.                                   *)
(*                                                                         *)
(* Every goroutine is a thread with a program counter.  One step is one    *)
(* critical section of controller.mu, one RPC to an agent, one access to   *)
(* the ConfigMap or one update of the active-timeshifts gauge: between two *)
(* steps any other thread, container or agent may move.                    *)
(*                                                                         *)
(* objs models the heap: a thread that looked a timeshift up keeps using   *)
(* objs[id] after id has left the registry, as the code keeps its pointer. *)
(***************************************************************************)
EXTENDS Cluster

CONSTANTS
    Workers,       \* HTTP handler goroutines
    Sweepers,      \* the goroutine of startSweeper, or none
    Watchers,      \* the informer's handler goroutine, or none
    Ops,           \* the requests clients send
    Selectors,     \* namespace + label selector, as the set of pods it matches
    Clocks,        \* clock settings that create and update requests ask for
    TTLs,          \* whether a create request carries a TTL
    Deltas,        \* durations of advance requests, negative ones included
    Freezes,       \* the freeze field of advance requests; the SDK never sets it
    MaxAt,         \* bound: how far a clock is ever moved
    MaxRequests,   \* bound: requests that are accepted
    ClientsGiveUp, \* clients may go away before they are answered
    MaxFaults,     \* bound: failed calls and lost replies
    MaxCrashes     \* bound: controller restarts

Threads == Workers \union Sweepers \union Watchers

ASSUME ThreadAssumption ==
    /\ Workers \intersect Sweepers = {}
    /\ Workers \intersect Watchers = {}
    /\ Sweepers \intersect Watchers = {}
    /\ IsFiniteSet(Threads)

ASSUME RequestAssumption ==
    /\ Ops \subseteq {"create", "update", "advance", "delete"}
    /\ Selectors \subseteq SUBSET Pods
    /\ Clocks \subseteq Clock
    /\ TTLs \subseteq BOOLEAN
    /\ Deltas \subseteq Int
    /\ Freezes \subseteq BOOLEAN
    /\ ClientsGiveUp \in BOOLEAN

VARIABLES
    objs,       \* every timeshift ever allocated; the index is its id
    registry,   \* ids in controller.timeshifts
    expired,    \* ids whose expiresAt has passed
    thr,        \* local state of every thread
    store,      \* the ConfigMap
    gauge,      \* met.timeshiftsActive
    used        \* how much of MaxRequests, MaxFaults and MaxCrashes is used up

ctlVars == <<objs, registry, expired, thr, store, gauge, used>>
vars == <<clusterVars, ctlVars>>

(***************************************************************************)
(* Types.                                                                  *)
(***************************************************************************)
ContainerHandle == [c : Containers, inc : Nat, h : Nat]

Timeshift == [id : Nat, sel : SUBSET Pods, clock : Clock, ttl : BOOLEAN,
              handles : Seq(ContainerHandle)]

Match == [id : Nat, clock : Clock]

PCs == {"idle", "check", "inject", "inc", "encode", "get", "cmCreate", "cmUpdate",
        "lookup", "settime", "reinject", "dec", "reset", "expire", "match", "matched"}

Thread == [pc : PCs,
           op : {"none", "create", "update", "advance", "delete", "sweep", "watch"},
           id : Nat,                       \* the timeshift worked on
           sel : SUBSET Pods,
           clock : Clock,                  \* target and freeze
           ttl : BOOLEAN,
           list : SUBSET ContainerID,      \* running containers of the pod of an event
           todo : SUBSET ContainerID,      \* containers injectPod has still to do
           hs : Seq(ContainerHandle),      \* handles collected, or a snapshot of them
           i : Nat,                        \* loop index
           upd : SUBSET [idx : Nat, new : Nat],
           ids : SUBSET Nat,               \* expired timeshifts still to be reset
           matched : SUBSET Match,
           data : SUBSET Timeshift,        \* encoded registry
           cut : BOOLEAN]                  \* the request's context is cancelled

Idle == [pc |-> "idle", op |-> "none", id |-> 0, sel |-> {}, clock |-> Real,
         ttl |-> FALSE, list |-> {}, todo |-> {}, hs |-> <<>>, i |-> 1, upd |-> {},
         ids |-> {}, matched |-> {}, data |-> {}, cut |-> FALSE]

TypeOK ==
    /\ ClusterTypeOK
    /\ objs \in Seq(Timeshift)
    /\ registry \subseteq 1 .. Len(objs)
    /\ expired \subseteq Nat
    /\ thr \in [Threads -> Thread]
    /\ store \in [exists : BOOLEAN, data : SUBSET Timeshift]
    /\ gauge \in Int
    /\ used \in [req : Nat, faults : Nat, crashes : Nat]

Init ==
    /\ ClusterInit
    /\ objs = <<>>
    /\ registry = {}
    /\ expired = {}
    /\ thr = [t \in Threads |-> Idle]
    /\ store = [exists |-> FALSE, data |-> {}]
    /\ gauge = 0
    /\ used = [req |-> 0, faults |-> 0, crashes |-> 0]

(***************************************************************************)
(* Helpers.                                                                *)
(***************************************************************************)
\* The elements of a sequence.
Entries(s) == {s[i] : i \in DOMAIN s}

\* Running containers of the pods in ps, as pod.Status.ContainerStatuses shows them.
RunningIn(ps) == {[c |-> c, inc |-> inc[c]] : c \in {d \in Containers : up[d] /\ PodOf[d] \in ps}}

\* injectPod walks the containers in the order of the pod list.
IsFirst(cid, todo) == cid \in todo /\ \A d \in todo : cid.c <= d.c

\* Mutant of OccupiedContainers: only the last container of a timeshift is recorded.
OccupiedLast == {objs[id].handles[Len(objs[id].handles)].c : id \in registry}

\* occupiedContainers: the key is pod and container name, not the container ID.
OccupiedContainers == {h.c : h \in UNION {Entries(objs[id].handles) : id \in registry}}

\* Mutant of AllContainersHandled: compares container names, not container IDs.
AllContainersHandledByName(s, list) ==
    {cid.c : cid \in list} \subseteq {h.c : h \in Entries(s.handles)}

\* Mutant of AllContainersHandled: the entries are not looped over, only the first is compared.
AllContainersHandledFirst(s, list) ==
    list \subseteq {[c |-> h.c, inc |-> h.inc] : h \in {s.handles[i] : i \in DOMAIN s.handles \cap {1}}}

\* allContainersHandled for the timeshift s and a pod whose running containers are list.
AllContainersHandled(s, list) ==
    list \subseteq {[c |-> h.c, inc |-> h.inc] : h \in Entries(s.handles)}

Goto(t, l) == thr' = [thr EXCEPT ![t].pc = l]
Fault == used' = [used EXCEPT !.faults = @ + 1]

\* Mutant of CallFails: the calls do not get the request's context.
CallFailsUncancelled(t) == used.faults < MaxFaults /\ Fault

\* A call of thread t fails at once (its context is cancelled) or by a fault.
CallFails(t) ==
    \/ thr[t].cut /\ UNCHANGED used
    \/ ~thr[t].cut /\ used.faults < MaxFaults /\ Fault

Request(op) ==
    /\ op \in Ops
    /\ used.req < MaxRequests
    /\ used' = [used EXCEPT !.req = @ + 1]

(***************************************************************************)
(* createTimeshift.                                                        *)
(***************************************************************************)
\* The pod list, with the container IDs the status shows at this moment.
CreateStart(t, sel, k, ttl) ==
    /\ thr[t].pc = "idle"
    /\ Request("create")
    /\ thr' = [thr EXCEPT ![t] = [Idle EXCEPT !.pc = "check", !.op = "create", !.sel = sel,
                                              !.clock = k, !.ttl = ttl, !.todo = RunningIn(sel)]]
    /\ UNCHANGED <<clusterVars, objs, registry, expired, store, gauge>>

\* checkConflicts: 409 Conflict, or go on to inject.
CreateCheck(t) ==
    /\ thr[t].pc = "check"
    /\ thr' = [thr EXCEPT ![t] = IF \E cid \in @.todo : cid.c \in OccupiedContainers
                                 THEN Idle ELSE [@ EXCEPT !.pc = "inject"]]
    /\ UNCHANGED <<clusterVars, objs, registry, expired, store, gauge, used>>

\* injectPod, one container: the agent injects and its handle reaches the controller.
InjectOk(t, cid) ==
    /\ thr[t].pc = "inject"
    /\ IsFirst(cid, thr[t].todo)
    /\ ~thr[t].cut /\ Running(cid)
    /\ Install(cid, thr[t].clock)
    /\ thr' = [thr EXCEPT ![t].todo = @ \ {cid},
                          ![t].hs = Append(@, [c |-> cid.c, inc |-> cid.inc, h |-> NewHandle])]
    /\ UNCHANGED <<objs, registry, expired, store, gauge, used>>

\* The agent does not find the container, or the call fails: logged and skipped.
InjectErr(t, cid) ==
    /\ thr[t].pc = "inject"
    /\ IsFirst(cid, thr[t].todo)
    /\ (~Running(cid) /\ UNCHANGED used) \/ CallFails(t)
    /\ thr' = [thr EXCEPT ![t].todo = @ \ {cid}]
    /\ UNCHANGED <<clusterVars, objs, registry, expired, store, gauge>>

\* The agent injects but the reply is lost: the controller sees an error.
InjectLost(t, cid) ==
    /\ thr[t].pc = "inject"
    /\ IsFirst(cid, thr[t].todo)
    /\ ~thr[t].cut /\ Running(cid)
    /\ used.faults < MaxFaults /\ Fault
    /\ Install(cid, thr[t].clock)
    /\ thr' = [thr EXCEPT ![t].todo = @ \ {cid}]
    /\ UNCHANGED <<objs, registry, expired, store, gauge>>

\* "no running containers found in matched pods"
CreateNone(t) ==
    /\ thr[t].pc = "inject" /\ thr[t].op = "create"
    /\ thr[t].todo = {} /\ thr[t].hs = <<>>
    /\ thr' = [thr EXCEPT ![t] = Idle]
    /\ UNCHANGED <<clusterVars, objs, registry, expired, store, gauge, used>>

\* Mutant of CreateRegister: the id is registered, the timeshift is not filed.
CreateRegisterUnfiled(t) ==
    /\ thr[t].pc = "inject" /\ thr[t].op = "create"
    /\ thr[t].todo = {} /\ thr[t].hs # <<>>
    /\ registry' = registry \union {Len(objs) + 1}
    /\ thr' = [thr EXCEPT ![t].pc = "inc", ![t].id = Len(objs) + 1]
    /\ UNCHANGED <<clusterVars, objs, expired, store, gauge, used>>

CreateRegister(t) ==
    /\ thr[t].pc = "inject" /\ thr[t].op = "create"
    /\ thr[t].todo = {} /\ thr[t].hs # <<>>
    /\ objs' = Append(objs, [id |-> Len(objs) + 1, sel |-> thr[t].sel, clock |-> thr[t].clock,
                             ttl |-> thr[t].ttl, handles |-> thr[t].hs])
    /\ registry' = registry \union {Len(objs) + 1}
    /\ thr' = [thr EXCEPT ![t].pc = "inc", ![t].id = Len(objs) + 1]
    /\ UNCHANGED <<clusterVars, expired, store, gauge, used>>

GaugeInc(t) ==
    /\ thr[t].pc = "inc"
    /\ gauge' = gauge + 1
    /\ Goto(t, "encode")
    /\ UNCHANGED <<clusterVars, objs, registry, expired, store, used>>

(***************************************************************************)
(* persist: encode the registry under the read lock, then Get the          *)
(* ConfigMap and Create or Update it without one.  Errors are logged only. *)
(***************************************************************************)
Encode(t) ==
    /\ thr[t].pc = "encode"
    /\ thr' = [thr EXCEPT ![t].pc = "get", ![t].data = {objs[id] : id \in registry}]
    /\ UNCHANGED <<clusterVars, objs, registry, expired, store, gauge, used>>

FlushGet(t) ==
    /\ thr[t].pc = "get"
    /\ ~thr[t].cut
    /\ Goto(t, IF store.exists THEN "cmUpdate" ELSE "cmCreate")
    /\ UNCHANGED <<clusterVars, objs, registry, expired, store, gauge, used>>

\* Where the caller of persist continues.
AfterPersist(l) ==
    CASE l.op = "delete" -> [l EXCEPT !.pc = "reset", !.i = 1, !.data = {}]
      [] l.op = "sweep"  -> [l EXCEPT !.pc = "expire", !.data = {}]
      [] OTHER           -> Idle

FlushPut(t) ==
    /\ \/ thr[t].pc = "cmUpdate"
       \/ thr[t].pc = "cmCreate" /\ ~store.exists
    /\ ~thr[t].cut
    /\ store' = [exists |-> TRUE, data |-> thr[t].data]
    /\ thr' = [thr EXCEPT ![t] = AfterPersist(@)]
    /\ UNCHANGED <<clusterVars, objs, registry, expired, gauge, used>>

\* Get, Create or Update fails; Create also fails when another flush created
\* the ConfigMap since this one's Get.
FlushErr(t) ==
    /\ \/ thr[t].pc = "cmCreate" /\ store.exists /\ UNCHANGED used
       \/ thr[t].pc \in {"get", "cmCreate", "cmUpdate"} /\ CallFails(t)
    /\ thr' = [thr EXCEPT ![t] = AfterPersist(@)]
    /\ UNCHANGED <<clusterVars, objs, registry, expired, store, gauge>>

(***************************************************************************)
(* updateTimeshift and advanceTimeshift.                                   *)
(***************************************************************************)
\* getTimeshift and the snapshot of the handles.
Snapshot(id, k) ==
    [Idle EXCEPT !.pc = "settime", !.op = "update", !.id = id, !.clock = k,
                 !.hs = objs[id].handles]

UpdateStart(t, id, k) ==
    /\ thr[t].pc = "idle"
    /\ id \in registry
    /\ Request("update")
    /\ thr' = [thr EXCEPT ![t] = Snapshot(id, k)]
    /\ UNCHANGED <<clusterVars, objs, registry, expired, store, gauge>>

\* advanceTimeshift reads the clock under the read lock; updateTimeshift looks
\* the timeshift up again.
AdvanceRead(t, id, delta, freeze) ==
    /\ thr[t].pc = "idle"
    /\ id \in registry
    /\ objs[id].clock.at + delta \in -MaxAt .. MaxAt
    /\ Request("advance")
    /\ thr' = [thr EXCEPT ![t] = [Idle EXCEPT !.pc = "lookup", !.op = "advance", !.id = id,
                  !.clock = [frozen |-> freeze, at |-> objs[id].clock.at + delta]]]
    /\ UNCHANGED <<clusterVars, objs, registry, expired, store, gauge>>

AdvanceUpdate(t) ==
    /\ thr[t].pc = "lookup"
    /\ thr' = [thr EXCEPT ![t] =
                  IF @.id \in registry
                  THEN [Snapshot(@.id, @.clock) EXCEPT !.op = "advance", !.cut = thr[t].cut]
                  ELSE Idle]
    /\ UNCHANGED <<clusterVars, objs, registry, expired, store, gauge, used>>

AtHandle(t) == thr[t].i <= Len(thr[t].hs)
CurHandle(t) == thr[t].hs[thr[t].i]
\* Mutant of NextHandle: the loop stays at the handle it has just done.
NextHandleStuck(t) == UNCHANGED thr

NextHandle(t) == thr' = [thr EXCEPT ![t].i = @ + 1]

SetTimeOk(t) ==
    /\ thr[t].pc = "settime" /\ AtHandle(t)
    /\ ~thr[t].cut
    /\ Known(CurHandle(t).h, CurHandle(t).c) /\ ProcessAlive(CurHandle(t).h)
    /\ WritePage(CurHandle(t).h, thr[t].clock)
    /\ NextHandle(t)
    /\ UNCHANGED <<objs, registry, expired, store, gauge, used>>

\* The write fails (the process is gone) or the call does: logged and skipped.
SetTimeErr(t) ==
    /\ thr[t].pc = "settime" /\ AtHandle(t)
    /\ \/ Known(CurHandle(t).h, CurHandle(t).c) /\ ~ProcessAlive(CurHandle(t).h) /\ UNCHANGED used
       \/ CallFails(t)
    /\ NextHandle(t)
    /\ UNCHANGED <<clusterVars, objs, registry, expired, store, gauge>>

SetTimeLost(t) ==
    /\ thr[t].pc = "settime" /\ AtHandle(t)
    /\ ~thr[t].cut
    /\ Known(CurHandle(t).h, CurHandle(t).c) /\ ProcessAlive(CurHandle(t).h)
    /\ used.faults < MaxFaults /\ Fault
    /\ WritePage(CurHandle(t).h, thr[t].clock)
    /\ NextHandle(t)
    /\ UNCHANGED <<objs, registry, expired, store, gauge>>

\* Mutant of SetTimeNotFound: NOT_FOUND is skipped like any other error.
SetTimeNotFoundSkipped(t) ==
    /\ thr[t].pc = "settime" /\ AtHandle(t)
    /\ ~thr[t].cut
    /\ ~Known(CurHandle(t).h, CurHandle(t).c)
    /\ NextHandle(t)
    /\ UNCHANGED <<clusterVars, objs, registry, expired, store, gauge, used>>

\* NOT_FOUND: the agent restarted; inject the container again.
SetTimeNotFound(t) ==
    /\ thr[t].pc = "settime" /\ AtHandle(t)
    /\ ~thr[t].cut
    /\ ~Known(CurHandle(t).h, CurHandle(t).c)
    /\ Goto(t, "reinject")
    /\ UNCHANGED <<clusterVars, objs, registry, expired, store, gauge, used>>

CurContainerID(t) == [c |-> CurHandle(t).c, inc |-> CurHandle(t).inc]

ReinjectOk(t) ==
    /\ thr[t].pc = "reinject"
    /\ ~thr[t].cut /\ Running(CurContainerID(t))
    /\ Install(CurContainerID(t), thr[t].clock)
    /\ thr' = [thr EXCEPT ![t].pc = "settime", ![t].i = @ + 1,
                          ![t].upd = @ \union {[idx |-> thr[t].i, new |-> NewHandle]}]
    /\ UNCHANGED <<objs, registry, expired, store, gauge, used>>

ReinjectErr(t) ==
    /\ thr[t].pc = "reinject"
    /\ (~Running(CurContainerID(t)) /\ UNCHANGED used) \/ CallFails(t)
    /\ thr' = [thr EXCEPT ![t].pc = "settime", ![t].i = @ + 1]
    /\ UNCHANGED <<clusterVars, objs, registry, expired, store, gauge>>

ReinjectLost(t) ==
    /\ thr[t].pc = "reinject"
    /\ ~thr[t].cut /\ Running(CurContainerID(t))
    /\ used.faults < MaxFaults /\ Fault
    /\ Install(CurContainerID(t), thr[t].clock)
    /\ thr' = [thr EXCEPT ![t].pc = "settime", ![t].i = @ + 1]
    /\ UNCHANGED <<objs, registry, expired, store, gauge>>

\* Mutant of Refreshed: position idx is trusted to hold the same container.
RefreshedByIndex(handles, hs, upd) ==
    [j \in DOMAIN handles |->
        IF \E u \in upd : u.idx = j
        THEN [handles[j] EXCEPT !.h = (CHOOSE u \in upd : u.idx = j).new]
        ELSE handles[j]]

\* handles with the re-injected handles of upd filled in, where position idx
\* still holds the container it held in the snapshot hs.
Refreshed(handles, hs, upd) ==
    [j \in DOMAIN handles |->
        IF \E u \in upd : /\ u.idx = j
                          /\ handles[j].c = hs[j].c /\ handles[j].inc = hs[j].inc
        THEN [handles[j] EXCEPT !.h = (CHOOSE u \in upd : u.idx = j).new]
        ELSE handles[j]]

\* Mutant of UpdateApply: the update is not persisted.
UpdateApplyUnsaved(t) ==
    /\ thr[t].pc = "settime" /\ ~AtHandle(t)
    /\ objs' = [objs EXCEPT ![thr[t].id].handles = Refreshed(@, thr[t].hs, thr[t].upd),
                            ![thr[t].id].clock = thr[t].clock]
    /\ thr' = [thr EXCEPT ![t] = Idle]
    /\ UNCHANGED <<clusterVars, registry, expired, store, gauge, used>>

\* Mutant of UpdateApply: the timeshift is stored back under its id.
UpdateApplyRefiled(t) ==
    /\ thr[t].pc = "settime" /\ ~AtHandle(t)
    /\ objs' = [objs EXCEPT ![thr[t].id].clock = thr[t].clock]
    /\ registry' = registry \union {thr[t].id}
    /\ thr' = [thr EXCEPT ![t].pc = "encode", ![t].hs = <<>>, ![t].upd = {}]
    /\ UNCHANGED <<clusterVars, expired, store, gauge, used>>

UpdateApply(t) ==
    /\ thr[t].pc = "settime" /\ ~AtHandle(t)
    /\ objs' = [objs EXCEPT ![thr[t].id].handles = Refreshed(@, thr[t].hs, thr[t].upd),
                            ![thr[t].id].clock = thr[t].clock]
    /\ thr' = [thr EXCEPT ![t].pc = "encode", ![t].hs = <<>>, ![t].upd = {}]
    /\ UNCHANGED <<clusterVars, registry, expired, store, gauge, used>>

(***************************************************************************)
(* deleteTimeshift, sweepExpired and resetHandles.                         *)
(***************************************************************************)
DeleteRemove(t, id) ==
    /\ thr[t].pc = "idle"
    /\ id \in registry
    /\ Request("delete")
    /\ registry' = registry \ {id}
    /\ thr' = [thr EXCEPT ![t] = [Idle EXCEPT !.pc = "dec", !.op = "delete", !.id = id]]
    /\ UNCHANGED <<clusterVars, objs, expired, store, gauge>>

GaugeDec(t) ==
    /\ thr[t].pc = "dec"
    /\ gauge' = gauge - 1
    /\ Goto(t, "encode")
    /\ UNCHANGED <<clusterVars, objs, registry, expired, store, used>>

Overdue == {id \in registry : objs[id].ttl /\ id \in expired}

SweepRemove(t) ==
    /\ thr[t].pc = "idle"
    /\ Overdue # {}
    /\ registry' = registry \ Overdue
    /\ thr' = [thr EXCEPT ![t] = [Idle EXCEPT !.pc = "encode", !.op = "sweep", !.ids = Overdue]]
    /\ UNCHANGED <<clusterVars, objs, expired, store, gauge, used>>

\* Mutant of SweepNext: the gauge is not decremented.
SweepNextUncounted(t, id) ==
    /\ thr[t].pc = "expire"
    /\ id \in thr[t].ids
    /\ thr' = [thr EXCEPT ![t].pc = "reset", ![t].id = id, ![t].i = 1, ![t].ids = @ \ {id}]
    /\ UNCHANGED <<clusterVars, objs, registry, expired, store, gauge, used>>

\* Mutant of SweepNext: the handles are not reset.
SweepNextUnreset(t, id) ==
    /\ thr[t].pc = "expire"
    /\ id \in thr[t].ids
    /\ gauge' = gauge - 1
    /\ thr' = [thr EXCEPT ![t].ids = @ \ {id}]
    /\ UNCHANGED <<clusterVars, objs, registry, expired, store, used>>

SweepNext(t, id) ==
    /\ thr[t].pc = "expire"
    /\ id \in thr[t].ids
    /\ gauge' = gauge - 1
    /\ thr' = [thr EXCEPT ![t].pc = "reset", ![t].id = id, ![t].i = 1, ![t].ids = @ \ {id}]
    /\ UNCHANGED <<clusterVars, objs, registry, expired, store, used>>

SweepDone(t) ==
    /\ thr[t].pc = "expire"
    /\ thr[t].ids = {}
    /\ thr' = [thr EXCEPT ![t] = Idle]
    /\ UNCHANGED <<clusterVars, objs, registry, expired, store, gauge, used>>

\* resetHandles reads s.handles as it goes, without a lock.
AtReset(t) == thr[t].pc = "reset" /\ thr[t].i <= Len(objs[thr[t].id].handles)
CurReset(t) == objs[thr[t].id].handles[thr[t].i]

ResetOk(t) ==
    /\ AtReset(t)
    /\ ~thr[t].cut
    /\ Known(CurReset(t).h, CurReset(t).c) /\ ProcessAlive(CurReset(t).h)
    /\ WritePage(CurReset(t).h, Real)
    /\ NextHandle(t)
    /\ UNCHANGED <<objs, registry, expired, store, gauge, used>>

\* NOT_FOUND counts as done; a dead process or a failed call is only logged.
ResetErr(t) ==
    /\ AtReset(t)
    /\ \/ /\ ~(Known(CurReset(t).h, CurReset(t).c) /\ ProcessAlive(CurReset(t).h))
          /\ UNCHANGED used
       \/ CallFails(t)
    /\ NextHandle(t)
    /\ UNCHANGED <<clusterVars, objs, registry, expired, store, gauge>>

ResetDone(t) ==
    /\ thr[t].pc = "reset" /\ ~AtReset(t)
    /\ thr' = [thr EXCEPT ![t] = IF @.op = "sweep" THEN [@ EXCEPT !.pc = "expire"] ELSE Idle]
    /\ UNCHANGED <<clusterVars, objs, registry, expired, store, gauge, used>>

(***************************************************************************)
(* handlePodEvent.  The informer hands over a copy of the pod's status,    *)
(* which may be out of date by the time the registry is read.              *)
(***************************************************************************)
WatchReceive(t, p) ==
    /\ thr[t].pc = "idle"
    /\ RunningIn({p}) # {}
    /\ thr' = [thr EXCEPT ![t] = [Idle EXCEPT !.pc = "match", !.op = "watch", !.sel = {p},
                                              !.list = RunningIn({p})]]
    /\ UNCHANGED <<clusterVars, objs, registry, expired, store, gauge, used>>

MatchesOf(l) ==
    {[id |-> id, clock |-> objs[id].clock] :
        id \in {j \in registry : l.sel \subseteq objs[j].sel /\ ~AllContainersHandled(objs[j], l.list)}}

WatchMatch(t) ==
    /\ thr[t].pc = "match"
    /\ thr' = [thr EXCEPT ![t] = IF MatchesOf(thr[t]) = {} THEN Idle
                                 ELSE [@ EXCEPT !.pc = "matched", !.matched = MatchesOf(thr[t])]]
    /\ UNCHANGED <<clusterVars, objs, registry, expired, store, gauge, used>>

\* Inject the whole pod for the next matching timeshift, at the clock read by WatchMatch.
WatchNext(t, m) ==
    /\ thr[t].pc = "matched"
    /\ m \in thr[t].matched
    /\ thr' = [thr EXCEPT ![t].pc = "inject", ![t].matched = @ \ {m}, ![t].id = m.id,
                          ![t].clock = m.clock, ![t].todo = thr[t].list, ![t].hs = <<>>]
    /\ UNCHANGED <<clusterVars, objs, registry, expired, store, gauge, used>>

WatchDone(t) ==
    /\ thr[t].pc = "matched"
    /\ thr[t].matched = {}
    /\ thr' = [thr EXCEPT ![t] = Idle]
    /\ UNCHANGED <<clusterVars, objs, registry, expired, store, gauge, used>>

\* Mutant of Retained: the entries of the restarted pod are kept as well.
RetainedAll(handles, ps) == {handles}

\* handles without those of the pods in ps, in their order: the set of the one
\* sequence that walks the other positions upwards.
Retained(handles, ps) ==
    LET keep == {j \in DOMAIN handles : PodOf[handles[j].c] \notin ps}
        n    == Cardinality(keep)
    IN  {[k \in 1 .. n |-> handles[f[k]]] :
            f \in {g \in [1 .. n -> keep] : \A i, j \in 1 .. n : i < j => g[i] < g[j]}}

WatchApply(t) ==
    /\ thr[t].pc = "inject" /\ thr[t].op = "watch"
    /\ thr[t].todo = {}
    /\ IF thr[t].hs # <<>> /\ thr[t].id \in registry
       THEN \E kept \in Retained(objs[thr[t].id].handles, thr[t].sel) :
                objs' = [objs EXCEPT ![thr[t].id].handles = kept \o thr[t].hs]
       ELSE UNCHANGED objs
    /\ thr' = [thr EXCEPT ![t].pc = "matched", ![t].hs = <<>>]
    /\ UNCHANGED <<clusterVars, registry, expired, store, gauge, used>>

(***************************************************************************)
(* The environment of the controller.                                      *)
(***************************************************************************)
\* The client goes away, after 30 s in pkg/sdk, and net/http cancels the
\* request's context.
ClientGone(t) ==
    /\ ClientsGiveUp
    /\ thr[t].pc # "idle" /\ ~thr[t].cut
    /\ thr' = [thr EXCEPT ![t].cut = TRUE]
    /\ UNCHANGED <<clusterVars, objs, registry, expired, store, gauge, used>>

\* expiresAt of a timeshift with a TTL passes.
Expire(id) ==
    /\ objs[id].ttl /\ id \notin expired
    /\ expired' = expired \union {id}
    /\ UNCHANGED <<clusterVars, objs, registry, thr, store, gauge, used>>

\* The controller process dies; the new one restores what the ConfigMap holds.
Restart(data) ==
    /\ used.crashes < MaxCrashes
    /\ objs' = [id \in DOMAIN objs |->
                   IF \E s \in data : s.id = id THEN CHOOSE s \in data : s.id = id ELSE objs[id]]
    /\ registry' = {s.id : s \in data}
    /\ gauge' = Cardinality({s.id : s \in data})
    /\ thr' = [t \in Threads |-> Idle]
    /\ UNCHANGED <<clusterVars, expired, store>>

CrashRestore ==
    /\ Restart(store.data)
    /\ used' = [used EXCEPT !.crashes = @ + 1]

\* The load fails: "restore: starting with empty state".
CrashEmpty ==
    /\ used.faults < MaxFaults
    /\ Restart({})
    /\ used' = [used EXCEPT !.crashes = @ + 1, !.faults = @ + 1]

(***************************************************************************)
(* The specification.                                                      *)
(***************************************************************************)
Persist(t) == Encode(t) \/ FlushGet(t) \/ FlushPut(t) \/ FlushErr(t)

InjectPod(t) == \E cid \in thr[t].todo : InjectOk(t, cid) \/ InjectErr(t, cid) \/ InjectLost(t, cid)

ResetHandles(t) == ResetOk(t) \/ ResetErr(t) \/ ResetDone(t)

NewRequest(t) ==
    \/ \E sel \in Selectors, k \in Clocks, ttl \in TTLs : CreateStart(t, sel, k, ttl)
    \/ \E id \in registry, k \in Clocks : UpdateStart(t, id, k)
    \/ \E id \in registry, delta \in Deltas, freeze \in Freezes : AdvanceRead(t, id, delta, freeze)
    \/ \E id \in registry : DeleteRemove(t, id)

\* What a handler does once it has a request.
WorkerStep(t) ==
    \/ CreateCheck(t) \/ InjectPod(t) \/ CreateNone(t) \/ CreateRegister(t) \/ GaugeInc(t)
    \/ AdvanceUpdate(t)
    \/ SetTimeOk(t) \/ SetTimeErr(t) \/ SetTimeLost(t) \/ SetTimeNotFound(t)
    \/ ReinjectOk(t) \/ ReinjectErr(t) \/ ReinjectLost(t) \/ UpdateApply(t)
    \/ GaugeDec(t)
    \/ Persist(t) \/ ResetHandles(t)

SweeperStep(t) ==
    \/ SweepRemove(t) \/ SweepDone(t)
    \/ \E id \in thr[t].ids : SweepNext(t, id)
    \/ Persist(t) \/ ResetHandles(t)

\* The watcher once it has an event.
WatcherStep(t) ==
    \/ WatchMatch(t) \/ WatchDone(t) \/ WatchApply(t)
    \/ \E m \in thr[t].matched : WatchNext(t, m)
    \/ InjectPod(t)

Environment ==
    \/ ClusterNext /\ UNCHANGED ctlVars
    \/ \E t \in Workers : ClientGone(t)
    \/ \E id \in DOMAIN objs : Expire(id)
    \/ CrashRestore \/ CrashEmpty

Next ==
    \/ \E t \in Workers : NewRequest(t) \/ WorkerStep(t)
    \/ \E t \in Sweepers : SweeperStep(t)
    \/ \E t \in Watchers : WatcherStep(t) \/ \E p \in Pods : WatchReceive(t, p)
    \/ Environment

Spec == Init /\ [][Next]_vars

(***************************************************************************)
(* Fairness.  Code that runs goes on running, the sweeper's ticker keeps   *)
(* ticking, and the informer resyncs every pod every five minutes, so no   *)
(* pod is passed over for ever.  But an agent or the API server need never *)
(* answer: the calls have no deadline of their own, only the context of    *)
(* their caller.  A handler's is cancelled when its client goes away,      *)
(* which every client does in the end; those of the sweeper and the        *)
(* watcher live as long as the process.  No client has to send a request   *)
(* and nothing else in the environment has to happen.                      *)
(***************************************************************************)
\* The next step of t is a call that it waits for.
Calling(t) ==
    \/ thr[t].pc \in {"get", "cmCreate", "cmUpdate", "reinject"}
    \/ thr[t].pc = "inject" /\ thr[t].todo # {}
    \/ thr[t].pc = "settime" /\ AtHandle(t)
    \/ AtReset(t)

\* A call whose context is cancelled returns at once.
Unblocked(t) == ~Calling(t) \/ thr[t].cut

Fairness ==
    /\ \A t \in Workers : WF_vars(Unblocked(t) /\ WorkerStep(t)) /\ WF_vars(ClientGone(t))
    /\ \A t \in Sweepers : WF_vars(Unblocked(t) /\ SweeperStep(t))
    /\ \A t \in Watchers : /\ WF_vars(Unblocked(t) /\ WatcherStep(t))
                           /\ \A p \in Pods : SF_vars(WatchReceive(t, p))

FairSpec == Spec /\ Fairness

(***************************************************************************)
(* Properties of every behaviour.                                          *)
(***************************************************************************)
\* A handle filed under a container entry of a registered timeshift is one the
\* agent issued for that very container instance: SetTime and Reset on behalf
\* of a timeshift never reach a container the entry does not name, although
\* updateTimeshift files re-injected handles by index after the pod watcher
\* may have reordered s.handles.
HandleMatchesContainer ==
    \A id \in registry : \A e \in Entries(objs[id].handles) :
        e.h \in DOMAIN pages /\ pages[e.h].c = e.c /\ pages[e.h].inc = e.inc

\* A timeshift has at most one entry per container, however often pods restart
\* and are re-injected by the watcher.
OneEntryPerContainer ==
    \A id \in registry : \A i, j \in DOMAIN objs[id].handles :
        objs[id].handles[i].c = objs[id].handles[j].c => i = j

\* The active-timeshifts gauge is the size of the registry, give or take the
\* goroutines between their registry change and their Inc or Dec.
GaugeExact ==
    gauge = Cardinality(registry)
            - Cardinality({t \in Threads : thr[t].pc = "inc"})
            + Cardinality({t \in Threads : thr[t].pc = "dec"})
            + Cardinality(UNION {{<<t, id>> : id \in thr[t].ids} : t \in Threads})

\* Only createTimeshift adds to the registry, under an id never used before: a
\* timeshift that was deleted or swept does not come back through an update or
\* a pod event that was in flight, only through a restart.
NoResurrection ==
    [][used'.crashes = used.crashes => \A id \in registry' \ registry : id \notin DOMAIN objs]_vars

(***************************************************************************)
(* The inductive invariant behind HandleMatchesContainer: every copy of a  *)
(* handle, in the registry, in the heap, in a thread's locals, in an       *)
(* encoded registry or in the ConfigMap, names the container it was issued *)
(* for, and every id that can come back from the ConfigMap is allocated.   *)
(***************************************************************************)
\* The handle of entry e was issued for the container instance e names; pgs
\* stands for pages and n, below, for Len(objs).
IssuedFor(e, pgs) == e.h \in 1 .. Len(pgs) /\ pgs[e.h].c = e.c /\ pgs[e.h].inc = e.inc

AllIssued(handles, pgs) == \A j \in 1 .. Len(handles) : IssuedFor(handles[j], pgs)

DataInv(data, pgs, n) == \A s \in data : s.id \in 1 .. n /\ AllIssued(s.handles, pgs)

UpdInv(hs, upd, pgs) ==
    \A u \in upd : /\ u.idx \in 1 .. Len(hs)
                   /\ u.new \in 1 .. Len(pgs)
                   /\ pgs[u.new].c = hs[u.idx].c /\ pgs[u.new].inc = hs[u.idx].inc

ThreadInv(l, pgs, n) ==
    /\ l.id \in 0 .. n
    /\ l.i >= 1
    /\ l.pc = "reinject" => l.i <= Len(l.hs)
    /\ l.pc \notin {"settime", "reinject"} => l.upd = {}
    /\ AllIssued(l.hs, pgs)
    /\ UpdInv(l.hs, l.upd, pgs)
    /\ DataInv(l.data, pgs, n)
    /\ \A m \in l.matched : m.id \in 1 .. n
    /\ l.ids \subseteq 1 .. n

HandleInv ==
    /\ TypeOK
    /\ \A id \in 1 .. Len(objs) : objs[id].id = id /\ AllIssued(objs[id].handles, pages)
    /\ DataInv(store.data, pages, Len(objs))
    /\ \A t \in Threads : ThreadInv(thr[t], pages, Len(objs))

(***************************************************************************)
(* Properties that need an undisturbed controller.                         *)
(***************************************************************************)
Quiet == \A t \in Threads : thr[t].pc = "idle"

\* No container is claimed by two timeshifts.
NoOverlap ==
    \A a, b \in registry : a # b =>
        {e.c : e \in Entries(objs[a].handles)} \intersect {e.c : e \in Entries(objs[b].handles)} = {}

\* GET shows the clock that the tracked processes really see, or they see the
\* real one because their agent drained its handles when it was stopped.
ClockAgrees ==
    Quiet /\ used.crashes = 0 => \A id \in registry : \A e \in Entries(objs[id].handles) :
        Running([c |-> e.c, inc |-> e.inc]) =>
            \/ ClockOf(e.c) = objs[id].clock
            \/ ClockOf(e.c) = Real /\ ~Known(e.h, e.c)

\* Containers on a fake clock that no registered timeshift has the handle for,
\* so that no delete can restore them.
LeftBehind ==
    {c \in Containers : ClockOf(c) # Real /\
        ~\E id \in registry : \E e \in Entries(objs[id].handles) : e.c = c /\ e.h = hook[c]}

\* A process sees a clock other than the real one only while a registered
\* timeshift can restore it, unless its agent has crashed and lost the handle.
FakedIsTracked == Quiet /\ used.crashes = 0 => \A c \in LeftBehind : ~Known(hook[c], c)

\* "A NOT_FOUND response means the agent restarted and the handle is already gone
\* -- that is treated as a successful reset since the container's clock is
\* already at real time" (resetHandles).  After a drain it is, after a crash it
\* is not: the page stays in the process with the clock that was written last.
NotFoundIsReal ==
    \A t \in Threads : AtReset(t) => LET e == CurReset(t) IN
        ~Known(e.h, e.c) /\ ProcessAlive(e.h) /\ hook[e.c] = e.h => ClockOf(e.c) = Real

\* The ConfigMap holds what a restart needs to recover.
StoreCurrent == Quiet => store.data = {objs[id] : id \in registry}

(***************************************************************************)
(* Liveness.                                                               *)
(***************************************************************************)
\* Every call that a thread in ts makes returns, with an answer or an error.
CallsReturn(ts) == \A t \in ts : []<>~Calling(t)

\* Every request that was accepted ends, even when an agent or the API server
\* never answers: once its client is gone no handler stays behind.
RequestsEnd == \A t \in Workers : thr[t].pc # "idle" ~> thr[t].pc = "idle"

\* An update or advance of id is under way and id was removed meanwhile.
Straggler(id) ==
    id \notin registry /\ \E t \in Workers : thr[t].id = id /\ thr[t].pc \in {"settime", "reinject"}

\* No process is on a clock set through a handle of id.
Released(id) ==
    id \in DOMAIN objs => \A e \in Entries(objs[id].handles) : hook[e.c] = e.h => ClockOf(e.c) = Real

\* Once its TTL has passed a timeshift is removed, and from some moment on no
\* process is on a clock set through one of its handles, provided that the
\* sweeper's calls return, none of them failed and no update overtakes the removal.
ExpiryReleases ==
    \A id \in 1 .. MaxRequests :
        CallsReturn(Sweepers) /\ []~Straggler(id) =>
            (id \in Overdue ~> [](id \notin registry /\ (used.faults > 0 \/ Released(id))))

\* A container that runs in a pod selected by a registered timeshift is
\* eventually tracked under its present container ID, provided that the
\* watcher's calls return: one that hangs stops the only informer handler.
WatcherRecovers ==
    CallsReturn(Watchers) =>
        \A id \in 1 .. MaxRequests : \A c \in Containers :
            (id \in registry /\ up[c] /\ PodOf[c] \in objs[id].sel) ~>
                (\/ id \notin registry
                 \/ ~up[c]
                 \/ [c |-> c, inc |-> inc[c]] \in {[c |-> e.c, inc |-> e.inc] : e \in Entries(objs[id].handles)})
=============================================================================
