------------------------------ MODULE Registry ------------------------------
(***************************************************************************)
(* What the controller promises its clients, without goroutines, handles,  *)
(* agents or a ConfigMap protocol: a registry of timeshifts that requests  *)
(* change one at a time, and a saved copy that a restart goes back to.     *)
(*                                                                         *)
(* A save is not atomic.  It takes the registry as it is at one moment and *)
(* lands later, or never, and another save may land in between: the copy   *)
(* is always one whole earlier registry, not always the latest one.        *)
(*                                                                         *)
(* ControllerRefinement.tla shows that Controller.tla implements this, and *)
(* Sdk.tla runs the clients of src/pkg/sdk on top of it.                   *)
(***************************************************************************)
EXTENDS Integers

CONSTANTS
    Selections,    \* namespace and label selector
    Settings       \* clock settings

VARIABLES
    shifts,    \* the timeshifts by id
    next,      \* ids given out so far
    stored,    \* the saved copy
    drafts     \* registries taken by saves that have not landed yet

regVars == <<shifts, next, stored, drafts>>

Shift == [sel : Selections, clock : Settings, ttl : BOOLEAN]

\* Registries over the ids 1 .. n.
RegistriesUpTo(n) == UNION {[ids -> Shift] : ids \in SUBSET (1 .. n)}

NoShifts == [id \in {} |-> 0]

RegistryTypeOK ==
    /\ next \in Nat
    /\ shifts \in RegistriesUpTo(next)
    /\ stored \in RegistriesUpTo(next)
    /\ drafts \subseteq RegistriesUpTo(next)

RegistryInit ==
    /\ shifts = NoShifts
    /\ next = 0
    /\ stored = NoShifts
    /\ drafts = {}

\* A timeshift is added under an id that was never used.
Create(s) ==
    /\ next' = next + 1
    /\ shifts' = [id \in DOMAIN shifts \union {next + 1} |-> IF id = next + 1 THEN s ELSE shifts[id]]
    /\ UNCHANGED <<stored, drafts>>

\* Only the clock of a timeshift ever changes.
Update(id, k) ==
    /\ id \in DOMAIN shifts
    /\ shifts' = [shifts EXCEPT ![id].clock = k]
    /\ UNCHANGED <<next, stored, drafts>>

\* A delete removes one timeshift, a sweep all that have expired.
Remove(ids) ==
    /\ shifts' = [id \in DOMAIN shifts \ ids |-> shifts[id]]
    /\ UNCHANGED <<next, stored, drafts>>

BeginSave ==
    /\ drafts' = drafts \union {shifts}
    /\ UNCHANGED <<shifts, next, stored>>

\* Another save may have taken the same registry and still be under way.
EndSave(d) ==
    /\ d \in drafts
    /\ stored' = d
    /\ drafts' \in {drafts, drafts \ {d}}
    /\ UNCHANGED <<shifts, next>>

FailSave(d) ==
    /\ d \in drafts
    /\ drafts' = drafts \ {d}
    /\ UNCHANGED <<shifts, next, stored>>

\* Back to the saved copy, or to nothing when it cannot be read.
Restart ==
    /\ shifts' \in {stored, NoShifts}
    /\ drafts' = {}
    /\ UNCHANGED <<next, stored>>

RegistryNext ==
    \/ \E s \in Shift : Create(s)
    \/ \E id \in DOMAIN shifts, k \in Settings : Update(id, k)
    \/ \E ids \in SUBSET DOMAIN shifts : Remove(ids)
    \/ BeginSave
    \/ \E d \in drafts : EndSave(d) \/ FailSave(d)
    \/ Restart

RegistrySpec == RegistryInit /\ [][RegistryNext]_regVars
=============================================================================
