------------------------ MODULE ControllerRefinement ------------------------
(***************************************************************************)
(* The controller implements the registry of Registry.tla.  The mapping    *)
(* forgets handles, threads and agents; a save is under way while a thread *)
(* is between Encode and the end of flush.                                 *)
(***************************************************************************)
EXTENDS Controller

\* What a client can ask for of a timeshift.
Public(s) == [sel |-> s.sel, clock |-> s.clock, ttl |-> s.ttl]

\* An encoded registry, by id.
ById(data) == [id \in {s.id : s \in data} |-> Public(CHOOSE s \in data : s.id = id)]

Saving == {t \in Threads : thr[t].pc \in {"get", "cmCreate", "cmUpdate"}}

\* The refinement mapping.
Shifts == [id \in registry |-> Public(objs[id])]
Stored == ById(store.data)
Drafts == {ById(thr[t].data) : t \in Saving}

Abstract == INSTANCE Registry WITH
    Selections <- SUBSET Pods,
    Settings   <- Clock,
    shifts     <- Shifts,
    next       <- Len(objs),
    stored     <- Stored,
    drafts     <- Drafts

\* The step of the registry that a step of the controller is.
AbstractStep ==
    \/ \E id \in registry' \ registry : Abstract!Create(Public(objs'[id]))
    \/ \E id \in registry : Abstract!Update(id, objs'[id].clock)
    \/ Abstract!Remove(registry \ registry')
    \/ Abstract!BeginSave
    \/ \E t \in Saving : Abstract!EndSave(ById(thr[t].data)) \/ Abstract!FailSave(ById(thr[t].data))
    \/ Abstract!Restart

\* Every step of a handler, the sweeper, the watcher or the environment is one
\* step of the registry or invisible to its clients: requests in flight on the
\* same timeshift, saves that overtake each other, agents and containers that
\* go away and controller restarts add no other behaviour.  In particular an
\* update that ends after its timeshift was deleted changes nothing, and what
\* a restart restores was the whole registry at one moment.
ImplementsRegistry == Abstract!RegistryInit /\ [][AbstractStep]_Abstract!regVars
=============================================================================
