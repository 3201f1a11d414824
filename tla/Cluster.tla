------------------------------ MODULE Cluster ------------------------------
(***************************************************************************)
(* The part of an epochd cluster that the controller drives but does not   *)
(* own: the target containers, the clock hook inside each of their         *)
(* processes, and the per-node agents (src/cmd/agent) with their map of    *)
(* handles.  Controller.tla extends this module and calls its operators    *)
(* as RPCs.                                                                *)
(*                                                                         *)
(* Time is abstracted to the distance from the real clock, in units so     *)
(* coarse that the real clock does not move during a behaviour: a frozen   *)
(* instant and an offset that name the same moment have the same "at".     *)
(***************************************************************************)
EXTENDS Integers, Sequences, FiniteSets

CONSTANTS
    Containers,        \* container slots (pod + container name), numbers in pod-list order
    Pods,
    Nodes,
    PodOf,             \* the pod of a container slot
    NodeOf,            \* the node, hence the agent, of a container slot
    MaxRestarts,       \* bound: restarts of one container
    AgentExits,        \* how agents go down: "crash", "drain"
    MaxAgentRestarts   \* bound: restarts of all agents together

ASSUME TopologyAssumption ==
    /\ Containers \subseteq Nat
    /\ PodOf \in [Containers -> Pods]
    /\ NodeOf \in [Containers -> Nodes]
    /\ AgentExits \subseteq {"crash", "drain"}

VARIABLES
    up,             \* up[c]: the container is running
    inc,            \* inc[c]: incarnation; <<c, inc[c]>> is the CRI container ID
    hook,           \* hook[c]: the page the patched vDSO jumps to, 0 when unpatched
    pages,          \* every trampoline page ever mapped; an index is an agent handle
    live,           \* live[n]: the handles in the map of the agent on node n
    agentRestarts   \* agent restarts so far

clusterVars == <<up, inc, hook, pages, live, agentRestarts>>

Clock == [frozen : BOOLEAN, at : Int]
Real  == [frozen |-> FALSE, at |-> 0]

ContainerID == [c : Containers, inc : Nat]
Page        == [c : Containers, inc : Nat, clock : Clock]

ClusterTypeOK ==
    /\ up \in [Containers -> BOOLEAN]
    /\ inc \in [Containers -> Nat]
    /\ hook \in [Containers -> Nat]
    /\ pages \in Seq(Page)
    /\ live \in [Nodes -> SUBSET Nat]
    /\ agentRestarts \in Nat

ClusterInit ==
    /\ up = [c \in Containers |-> TRUE]
    /\ inc = [c \in Containers |-> 0]
    /\ hook = [c \in Containers |-> 0]
    /\ pages = <<>>
    /\ live = [n \in Nodes |-> {}]
    /\ agentRestarts = 0

(***************************************************************************)
(* What a process observes.  Injecting again maps a second page and        *)
(* repatches the jump: the first page stays mapped but nothing reads it.   *)
(***************************************************************************)
ClockOf(c) == IF hook[c] = 0 THEN Real ELSE pages[hook[c]].clock

\* k8sresolve.LookupPID finds a process for this container ID.
Running(cid) == up[cid.c] /\ inc[cid.c] = cid.inc

\* The process that handle h was obtained for still exists.
ProcessAlive(h) == Running([c |-> pages[h].c, inc |-> pages[h].inc])

\* lookupHandle succeeds on the agent of container slot c.
Known(h, c) == h \in live[NodeOf[c]]

NewHandle == Len(pages) + 1

\* server.Inject on a running container: map a page holding clock k, patch the
\* vDSO to jump to it, file the handle.
Install(cid, k) ==
    /\ pages' = Append(pages, [c |-> cid.c, inc |-> cid.inc, clock |-> k])
    /\ hook' = [hook EXCEPT ![cid.c] = NewHandle]
    /\ live' = [live EXCEPT ![NodeOf[cid.c]] = @ \union {NewHandle}]
    /\ UNCHANGED <<up, inc, agentRestarts>>

\* handle.SetTime / handle.Freeze: one write into the page of handle h.
WritePage(h, k) ==
    /\ pages' = [pages EXCEPT ![h].clock = k]
    /\ UNCHANGED <<up, inc, hook, live, agentRestarts>>

(***************************************************************************)
(* What happens to containers and agents by themselves.                    *)
(***************************************************************************)
ContainerStop(c) ==
    /\ up[c]
    /\ inc[c] < MaxRestarts
    /\ up' = [up EXCEPT ![c] = FALSE]
    /\ hook' = [hook EXCEPT ![c] = 0]
    /\ UNCHANGED <<inc, pages, live, agentRestarts>>

ContainerStart(c) ==
    /\ ~up[c]
    /\ up' = [up EXCEPT ![c] = TRUE]
    /\ inc' = [inc EXCEPT ![c] = @ + 1]
    /\ UNCHANGED <<hook, pages, live, agentRestarts>>

\* The agent dies without draining: the map is lost, the pages keep their clocks.
AgentCrash(n) ==
    /\ "crash" \in AgentExits
    /\ agentRestarts < MaxAgentRestarts
    /\ live' = [live EXCEPT ![n] = {}]
    /\ agentRestarts' = agentRestarts + 1
    /\ UNCHANGED <<up, inc, hook, pages>>

\* SIGTERM: GracefulStop waits for the RPCs in flight, drain writes the real
\* clock through every handle whose process still exists.
AgentShutdown(n) ==
    /\ "drain" \in AgentExits
    /\ agentRestarts < MaxAgentRestarts
    /\ pages' = [h \in DOMAIN pages |->
                    IF h \in live[n] /\ ProcessAlive(h)
                    THEN [pages[h] EXCEPT !.clock = Real]
                    ELSE pages[h]]
    /\ live' = [live EXCEPT ![n] = {}]
    /\ agentRestarts' = agentRestarts + 1
    /\ UNCHANGED <<up, inc, hook>>

ClusterNext ==
    \/ \E c \in Containers : ContainerStop(c) \/ ContainerStart(c)
    \/ \E n \in Nodes : AgentCrash(n) \/ AgentShutdown(n)
============================================================================
