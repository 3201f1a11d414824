------------------------------- MODULE Agent --------------------------------
(***************************************************************************)
(* One node agent (src/cmd/agent): the Inject, SetTime, Reset and Status   *)
(* RPCs on a shared map of handles, and its way down: SIGTERM, the RPCs    *)
(* that GracefulStop waits for, the drain that writes the real clock       *)
(* through every handle, or a SIGKILL at any moment.                       *)
(*                                                                         *)
(* Each RPC runs on a goroutine of its own.  server.mu covers the map and  *)
(* lastTarget only: a write into the target's page and the generation      *)
(* counter of inject.Handle are not covered by any lock.                   *)
(*                                                                         *)
(* Cluster.tla is what the controller is verified against: an agent whose  *)
(* RPCs are one step each.  ImplementsCluster says that this agent is one. *)
(***************************************************************************)
EXTENDS Integers, Sequences

CONSTANTS
    Containers,        \* container slots of the node
    Rpcs,              \* RPC goroutines
    Settings,          \* clock settings that Inject and SetTime are called with
    MaxRestarts,       \* bound: restarts of one container
    MaxCalls,          \* bound: Inject, SetTime and Reset calls
    MaxFaults,         \* bound: calls into the target that fail, and drain timeouts
    MaxAgentRestarts   \* bound: agent restarts

ASSUME AgentAssumption ==
    /\ Settings \subseteq [frozen : BOOLEAN, at : Int]
    /\ MaxRestarts \in Nat
    /\ MaxAgentRestarts \in Nat

VARIABLES
    up, inc, hook,   \* the containers, as in Cluster.tla
    pages,           \* trampoline pages in the targets' memory; an index is a handle
    objs,            \* the handleEntry of each page, with the gen of its inject.Handle
                     \* and, for the properties, the agent process that made it
    filed,           \* the handles in s.handles
    rpc,             \* local state of every RPC goroutine
    phase,           \* where the process is
    snap,            \* handles that drain has still to reset
    used,            \* how much of MaxCalls, MaxFaults and MaxAgentRestarts is used up
    lost,            \* history: pages that no handle of this agent reaches any more
    crossed          \* history: handles on which two writing RPCs overlapped

target == <<up, inc, hook, pages>>
server == <<objs, filed, phase, snap>>
history == <<lost, crossed>>
vars == <<target, server, rpc, used, history>>

Real == [frozen |-> FALSE, at |-> 0]

Idle == [pc |-> "idle", c |-> 0, inc |-> 0, h |-> 0, clock |-> Real, gen |-> 0]

Page == [c : Containers, inc : 0 .. MaxRestarts, clock : Settings \union {Real}, gen : Int]
HandleEntry == [last : Int, gen : Int, life : 0 .. MaxAgentRestarts]
Rpc(n) == [pc : {"idle", "inject", "file", "load", "bump", "write", "note"},
           c : Containers \union {0}, inc : 0 .. MaxRestarts, h : 0 .. n,
           clock : Settings \union {Real}, gen : Int]

TypeOK ==
    /\ up \in [Containers -> BOOLEAN]
    /\ inc \in [Containers -> 0 .. MaxRestarts]
    /\ pages \in Seq(Page)
    /\ hook \in [Containers -> 0 .. Len(pages)]
    /\ objs \in Seq(HandleEntry) /\ Len(objs) = Len(pages)
    /\ filed \subseteq DOMAIN pages
    /\ rpc \in [Rpcs -> Rpc(Len(pages))]
    /\ phase \in {"serving", "stopping", "draining", "drained", "down"}
    /\ snap \subseteq filed
    /\ used \in [calls : Nat, faults : Nat, restarts : 0 .. MaxAgentRestarts]
    /\ lost \union crossed \subseteq DOMAIN pages

\* newServer, and containers on the real clock.
Init ==
    /\ up = [c \in Containers |-> TRUE]
    /\ inc = [c \in Containers |-> 0]
    /\ hook = [c \in Containers |-> 0]
    /\ pages = <<>>
    /\ objs = <<>>
    /\ filed = {}
    /\ rpc = [r \in Rpcs |-> Idle]
    /\ phase = "serving"
    /\ snap = {}
    /\ used = [calls |-> 0, faults |-> 0, restarts |-> 0]
    /\ lost = {}
    /\ crossed = {}

Running(c, i) == up[c] /\ inc[c] = i
ProcessAlive(h) == Running(pages[h].c, pages[h].inc)

Fault ==
    /\ used.faults < MaxFaults
    /\ used' = [used EXCEPT !.faults = @ + 1]

Call ==
    /\ phase = "serving"
    /\ used.calls < MaxCalls
    /\ used' = [used EXCEPT !.calls = @ + 1]

(***************************************************************************)
(* Inject.                                                                 *)
(***************************************************************************)
\* LookupPID finds the container's process.  NOT_FOUND would change nothing.
Inject(r, c, k) ==
    /\ rpc[r].pc = "idle"
    /\ Call
    /\ up[c]
    /\ rpc' = [rpc EXCEPT ![r] = [Idle EXCEPT !.pc = "inject", !.c = c, !.inc = inc[c], !.clock = k]]
    /\ UNCHANGED <<target, server, history>>

\* The page is mapped and the vDSO jumps to it.
Mapped(r) ==
    /\ pages' = Append(pages, [c |-> rpc[r].c, inc |-> rpc[r].inc, clock |-> rpc[r].clock, gen |-> 0])
    /\ objs' = Append(objs, [last |-> rpc[r].clock.at, gen |-> 0, life |-> used.restarts])
    /\ hook' = [hook EXCEPT ![rpc[r].c] = Len(pages) + 1]
    /\ UNCHANGED <<up, inc, filed, phase, snap, crossed>>

\* Mutant of InjectOk: the process is not the one that was looked up.
InjectAnyProcess(r) ==
    /\ rpc[r].pc = "inject"
    /\ up[rpc[r].c]
    /\ Mapped(r)
    /\ rpc' = [rpc EXCEPT ![r].pc = "file", ![r].h = Len(pages) + 1]
    /\ UNCHANGED <<used, lost>>

InjectOk(r) ==
    /\ rpc[r].pc = "inject"
    /\ Running(rpc[r].c, rpc[r].inc)
    /\ Mapped(r)
    /\ rpc' = [rpc EXCEPT ![r].pc = "file", ![r].h = Len(pages) + 1]
    /\ UNCHANGED <<used, lost>>

\* The injection fails before it has changed the target.
InjectErr(r) ==
    /\ rpc[r].pc = "inject"
    /\ (~Running(rpc[r].c, rpc[r].inc) /\ UNCHANGED used) \/ Fault
    /\ rpc' = [rpc EXCEPT ![r] = Idle]
    /\ UNCHANGED <<target, server, history>>

\* It fails after the first of the three jumps is in place: the target already
\* sees the fake clock and there is no handle for its page.
InjectHalf(r) ==
    /\ rpc[r].pc = "inject"
    /\ Running(rpc[r].c, rpc[r].inc)
    /\ Fault
    /\ Mapped(r)
    /\ lost' = lost \union {Len(pages) + 1}
    /\ rpc' = [rpc EXCEPT ![r] = Idle]

File(r) ==
    /\ rpc[r].pc = "file"
    /\ filed' = filed \union {rpc[r].h}
    /\ rpc' = [rpc EXCEPT ![r] = Idle]
    /\ UNCHANGED <<target, objs, phase, snap, used, history>>

(***************************************************************************)
(* SetTime, and Reset, which is SetTime to the real clock.                 *)
(***************************************************************************)
Writing(h) == {r \in Rpcs : rpc[r].pc \in {"load", "bump", "write", "note"} /\ rpc[r].h = h}

\* lookupHandle.
SetTime(r, h, k) ==
    /\ rpc[r].pc = "idle"
    /\ Call
    /\ h \in filed
    /\ rpc' = [rpc EXCEPT ![r] = [Idle EXCEPT !.pc = "load", !.h = h, !.clock = k]]
    /\ crossed' = IF Writing(h) = {} THEN crossed ELSE crossed \union {h}
    /\ UNCHANGED <<target, server, lost>>

\* h.gen++ in writeState, a load and a store.
LoadGen(r) ==
    /\ rpc[r].pc = "load"
    /\ rpc' = [rpc EXCEPT ![r].pc = "bump", ![r].gen = objs[rpc[r].h].gen + 1]
    /\ UNCHANGED <<target, server, used, history>>

StoreGen(r) ==
    /\ rpc[r].pc = "bump"
    /\ objs' = [objs EXCEPT ![rpc[r].h].gen = rpc[r].gen]
    /\ rpc' = [rpc EXCEPT ![r].pc = "write"]
    /\ UNCHANGED <<target, filed, phase, snap, used, history>>

\* process_vm_writev.  The generation that is encoded may be read from h.gen again.
WriteOk(r) ==
    /\ rpc[r].pc = "write"
    /\ ProcessAlive(rpc[r].h)
    /\ \E g \in {rpc[r].gen, objs[rpc[r].h].gen} :
          pages' = [pages EXCEPT ![rpc[r].h].clock = rpc[r].clock, ![rpc[r].h].gen = g]
    /\ rpc' = [rpc EXCEPT ![r].pc = "note"]
    /\ UNCHANGED <<up, inc, hook, server, used, history>>

\* Mutant of WriteErr: the generation is not taken back.
WriteErrKeepsGen(r) ==
    /\ rpc[r].pc = "write"
    /\ (~ProcessAlive(rpc[r].h) /\ UNCHANGED used) \/ Fault
    /\ rpc' = [rpc EXCEPT ![r] = Idle]
    /\ UNCHANGED <<target, server, history>>

\* "revert so the next call retries with the same generation"
WriteErr(r) ==
    /\ rpc[r].pc = "write"
    /\ (~ProcessAlive(rpc[r].h) /\ UNCHANGED used) \/ Fault
    /\ objs' = [objs EXCEPT ![rpc[r].h].gen = @ - 1]
    /\ rpc' = [rpc EXCEPT ![r] = Idle]
    /\ UNCHANGED <<target, filed, phase, snap, history>>

\* entry.lastTarget = target
Note(r) ==
    /\ rpc[r].pc = "note"
    /\ objs' = [objs EXCEPT ![rpc[r].h].last = rpc[r].clock.at]
    /\ rpc' = [rpc EXCEPT ![r] = Idle]
    /\ UNCHANGED <<target, filed, phase, snap, used, history>>

\* What Status answers.  It never looks into the target.
Status(h) == [last |-> objs[h].last, gen |-> objs[h].gen]

(***************************************************************************)
(* The way down.                                                           *)
(***************************************************************************)
\* GracefulStop: no further RPC is accepted.
Sigterm ==
    /\ phase = "serving"
    /\ used.restarts < MaxAgentRestarts
    /\ phase' = "stopping"
    /\ UNCHANGED <<target, objs, filed, snap, rpc, used, history>>

\* Mutant of Drain: Stop instead of GracefulStop, RPCs are still running.
DrainAtOnce ==
    /\ phase = "stopping"
    /\ phase' = "draining"
    /\ snap' = filed
    /\ UNCHANGED <<target, objs, filed, rpc, used, history>>

\* Serve returns once the RPCs in flight have ended; drain takes its snapshot.
Drain ==
    /\ phase = "stopping"
    /\ \A r \in Rpcs : rpc[r].pc = "idle"
    /\ phase' = "draining"
    /\ snap' = filed
    /\ UNCHANGED <<target, objs, filed, rpc, used, history>>

\* resetNow, which leaves lastTarget alone.
DrainReset(h) ==
    /\ phase = "draining"
    /\ h \in snap
    /\ ProcessAlive(h)
    /\ pages' = [pages EXCEPT ![h].clock = Real, ![h].gen = objs[h].gen + 1]
    /\ objs' = [objs EXCEPT ![h].gen = @ + 1]
    /\ snap' = snap \ {h}
    /\ UNCHANGED <<up, inc, hook, filed, phase, rpc, used, history>>

\* "drain reset failed": logged, the others are still reset.
DrainErr(h) ==
    /\ phase = "draining"
    /\ h \in snap
    /\ (~ProcessAlive(h) /\ UNCHANGED used) \/ Fault
    /\ snap' = snap \ {h}
    /\ lost' = lost \union {h}
    /\ UNCHANGED <<target, objs, filed, phase, rpc, crossed>>

\* "drain timed out with handles remaining"
DrainTimeout ==
    /\ phase = "draining"
    /\ snap # {}
    /\ Fault
    /\ phase' = "drained"
    /\ lost' = lost \union snap
    /\ snap' = {}
    /\ UNCHANGED <<target, objs, filed, rpc, crossed>>

DrainEnd ==
    /\ phase = "draining"
    /\ snap = {}
    /\ phase' = "drained"
    /\ UNCHANGED <<target, objs, filed, snap, rpc, used, history>>

\* The process ends, by returning from main or by SIGKILL.
Exit ==
    /\ phase # "down"
    /\ used.restarts < MaxAgentRestarts
    /\ used' = [used EXCEPT !.restarts = @ + 1]
    /\ phase' = "down"
    /\ filed' = {}
    /\ snap' = {}
    /\ rpc' = [r \in Rpcs |-> Idle]
    /\ lost' = DOMAIN pages
    /\ UNCHANGED <<target, objs, crossed>>

Start ==
    /\ phase = "down"
    /\ phase' = "serving"
    /\ UNCHANGED <<target, objs, filed, snap, rpc, used, history>>

ContainerStop(c) ==
    /\ up[c]
    /\ inc[c] < MaxRestarts
    /\ up' = [up EXCEPT ![c] = FALSE]
    /\ hook' = [hook EXCEPT ![c] = 0]
    /\ UNCHANGED <<inc, pages, server, rpc, used, history>>

ContainerStart(c) ==
    /\ ~up[c]
    /\ up' = [up EXCEPT ![c] = TRUE]
    /\ inc' = [inc EXCEPT ![c] = @ + 1]
    /\ UNCHANGED <<hook, pages, server, rpc, used, history>>

RpcStep(r) ==
    \/ InjectOk(r) \/ InjectErr(r) \/ InjectHalf(r) \/ File(r)
    \/ LoadGen(r) \/ StoreGen(r) \/ WriteOk(r) \/ WriteErr(r) \/ Note(r)

Next ==
    \/ \E r \in Rpcs, c \in Containers, k \in Settings : Inject(r, c, k)
    \/ \E r \in Rpcs, h \in filed, k \in Settings \union {Real} : SetTime(r, h, k)
    \/ \E r \in Rpcs : RpcStep(r)
    \/ Sigterm \/ Drain \/ DrainTimeout \/ DrainEnd \/ Exit \/ Start
    \/ \E h \in snap : DrainReset(h) \/ DrainErr(h)
    \/ \E c \in Containers : ContainerStop(c) \/ ContainerStart(c)

Spec == Init /\ [][Next]_vars

(***************************************************************************)
(* Properties.                                                             *)
(***************************************************************************)
\* Status, which answers from the agent's own memory, tells the target and the
\* generation that are in the page, after failed writes and while other RPCs
\* run, unless two SetTime or Reset calls on the handle once overlapped: then
\* the last to write the page need not be the last to write lastTarget, and
\* the unlocked generation counter may have lost an increment.
StatusAgrees ==
    \A h \in filed : phase \in {"serving", "stopping"} /\ Writing(h) = {} /\ h \notin crossed =>
        Status(h) = [last |-> pages[h].clock.at, gen |-> pages[h].gen]

\* After the drain every process on the node is back on the real clock, an
\* injection or a write that was under way when SIGTERM came included, except
\* behind pages that no handle of this agent reaches: half-done injections,
\* injections of an earlier agent that was killed, resets that failed or that
\* the ten seconds did not suffice for.
DrainedReal ==
    phase = "drained" => \A c \in Containers :
        up[c] /\ hook[c] \notin lost \union {0} => pages[hook[c]].clock = Real

(***************************************************************************)
(* The agent of Cluster.tla.  Its map holds a handle from the step that    *)
(* maps the page, also when the injection then fails half-way.             *)
(***************************************************************************)
Held ==
    IF phase = "down" THEN {}
    ELSE filed \union {rpc[r].h : r \in {q \in Rpcs : rpc[q].pc = "file"}}
               \union {h \in lost : objs[h].life = used.restarts}

\* The cluster knows nothing of generations.
Mapping == [h \in DOMAIN pages |->
               [c |-> pages[h].c, inc |-> pages[h].inc, clock |-> pages[h].clock]]

C == INSTANCE Cluster WITH
    Pods          <- {"pod"},
    Nodes         <- {"node"},
    PodOf         <- [c \in Containers |-> "pod"],
    NodeOf        <- [c \in Containers |-> "node"],
    AgentExits    <- {"crash"},
    pages         <- Mapping,
    live          <- [n \in {"node"} |-> Held],
    agentRestarts <- used.restarts

\* An RPC maps a page or writes through a handle, or the cluster moves.
ClusterStep ==
    \/ \E r \in {q \in Rpcs : rpc[q].pc = "inject"} :
          /\ C!Running([c |-> rpc[r].c, inc |-> rpc[r].inc])
          /\ C!Install([c |-> rpc[r].c, inc |-> rpc[r].inc], rpc[r].clock)
    \/ \E h \in DOMAIN pages : /\ C!Known(h, pages[h].c) /\ C!ProcessAlive(h)
                               /\ C!WritePage(h, pages'[h].clock)
    \/ C!ClusterNext

\* The cluster the controller is verified against has no other behaviour: an
\* injection maps its page in the process that was looked up, every write goes
\* to a live process through a handle of this agent, a drain is a series of
\* such writes, and an agent that goes down loses all its handles at once.
ImplementsCluster == C!ClusterInit /\ [][ClusterStep]_C!clusterVars
=============================================================================
