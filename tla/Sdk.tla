-------------------------------- MODULE Sdk ---------------------------------
(***************************************************************************)
(* The clients of the controller: WithTime and WithFrozenTime of           *)
(* src/pkg/sdk, the test helper WithTimeT and the one-request commands of  *)
(* faketimectl, over HTTP, on top of the registry of Registry.tla.         *)
(*                                                                         *)
(* A request and its answer are two messages.  A client stops waiting when *)
(* its context is cancelled or the http.Client's 30 seconds are over; the  *)
(* controller may serve the request all the same, later, and nobody reads  *)
(* the answer.  A client may also die in its callback.                     *)
(*                                                                         *)
(* A handler is one step here: ControllerRefinement.tla shows that the     *)
(* handlers change the registry in one step each.                          *)
(***************************************************************************)
EXTENDS Registry, FiniteSets

CONSTANTS
    Users,         \* callers of WithTime and WithFrozenTime
    Tests,         \* callers of WithTimeT
    Ctls,          \* invocations of faketimectl
    Wanted,        \* clocks that callers ask for; "at" counts fractions of a second
    Second,        \* fractions in a second
    AtATime,       \* bound: clients that take part in one behaviour
    MaxLost,       \* bound: calls that end without an answer
    MaxRestarts    \* bound: controller restarts

VARIABLES
    cl,         \* local state of every client
    stray,      \* requests that nobody waits for any more
    expired,    \* ids whose expiresAt has passed
    used,       \* how much of MaxLost and MaxRestarts is used up
    touched,    \* history: ids that faketimectl has sent a request about
    scoped      \* history: ids created for WithTime, WithFrozenTime and WithTimeT

sdkVars == <<cl, stray, expired, used, touched, scoped>>
vars == <<regVars, sdkVars>>

Clients == Users \union Tests \union Ctls

Instants == {k.at : k \in Settings}

\* WithTimeT is given a time and sends no mode, so its clock advances.
Thawed(k) == [k EXCEPT !.frozen = FALSE]
AskedBy(c) == IF c \in Tests THEN {Thawed(k) : k \in Wanted} ELSE Wanted
Asked == Wanted \union {Thawed(k) : k \in Wanted}

\* target.UTC().Format(time.RFC3339) has no fraction, the body carries the mode.
Wire(k) == [k EXCEPT !.at = (@ \div Second) * Second]

\* Whole seconds on the wire; faketimectl is not one of the SDK's callers.
ASSUME SdkAssumption ==
    /\ Ctls \intersect (Users \union Tests) = {}
    /\ Second \in Nat \ {0}
    /\ Wanted # {} /\ Wanted \subseteq [frozen : BOOLEAN, at : Int]
    /\ Settings \subseteq [frozen : BOOLEAN, at : Int]
    /\ \A k \in Wanted : Wire(k) \in Settings
    /\ \A k \in Settings : Thawed(k) \in Settings
    /\ MaxLost \in Nat /\ MaxRestarts \in Nat

NoReq == [op |-> "none", id |-> 0, clock |-> Wire(CHOOSE k \in Wanted : TRUE), ttl |-> FALSE, scoped |-> FALSE]

\* ans is the answer to req once it is there: "none" before, "fail" if there is
\* none.  bad: the call returns an error, or the test fails.  era, for the
\* properties: how often the controller had restarted when it last answered.
Idle == [pc |-> "idle", id |-> 0, want |-> NoReq.clock, req |-> NoReq, ans |-> "none",
         cut |-> FALSE, bad |-> FALSE, era |-> 0]

Request == [op : {"none", "create", "status", "update", "advance", "delete"}, id : 0 .. next,
            clock : Settings, ttl : BOOLEAN, scoped : BOOLEAN]

Client == [pc : {"idle", "create", "status", "fn", "abort", "delete", "ctl", "done", "died"},
           id : 0 .. next, want : Asked \union Settings, req : Request,
           ans : {"none", "created", "ok", "refused", "notFound", "bad", "fail"},
           cut : BOOLEAN, bad : BOOLEAN, era : 0 .. MaxRestarts]

TypeOK ==
    /\ RegistryTypeOK
    /\ cl \in [Clients -> Client]
    /\ stray \subseteq Request
    /\ expired \union touched \union scoped \subseteq 1 .. next
    /\ used \in [lost : 0 .. MaxLost, restarts : 0 .. MaxRestarts]

Init ==
    /\ RegistryInit
    /\ \E away \in SUBSET Clients :
          /\ Cardinality(Clients \ away) = AtATime
          /\ cl = [c \in Clients |-> IF c \in away THEN [Idle EXCEPT !.pc = "died"] ELSE Idle]
    /\ stray = {}
    /\ expired = {}
    /\ used = [lost |-> 0, restarts |-> 0]
    /\ touched = {}
    /\ scoped = {}

(***************************************************************************)
(* Client.do.                                                              *)
(***************************************************************************)
\* The new local state of c when it goes to pc and sends r.  Under a cancelled
\* context the call fails without sending anything.
Sending(c, pc, r) ==
    [cl[c] EXCEPT !.pc = pc, !.req = r, !.ans = IF cl[c].cut THEN "fail" ELSE "none"]

Waiting(c) == cl[c].req # NoReq /\ cl[c].ans = "none"

\* No answer reached c before its timeout or the end of its context.
Fail(c) ==
    /\ Waiting(c)
    /\ \/ cl[c].cut /\ UNCHANGED used
       \/ used.lost < MaxLost /\ used' = [used EXCEPT !.lost = @ + 1]
    /\ cl' = [cl EXCEPT ![c].ans = "fail"]
    /\ stray' = stray \union {cl[c].req}
    /\ UNCHANGED <<regVars, expired, touched, scoped>>

(***************************************************************************)
(* The handlers: what request r does to the registry and answers.          *)
(***************************************************************************)
\* 201, or 404, 409 or 500 with nothing registered.  Which one is left open:
\* two overlapping creates in flight may both succeed.
ServeCreate(r, a) ==
    \/ a = "created" /\ \E sel \in Selections : Create([sel |-> sel, clock |-> r.clock, ttl |-> r.ttl])
    \/ a = "refused" /\ UNCHANGED regVars

ServeDelete(r, a) ==
    \/ a = "ok" /\ r.id \in DOMAIN shifts /\ Remove({r.id})
    \/ a = "notFound" /\ r.id \notin DOMAIN shifts /\ UNCHANGED regVars

\* An update that loses the race with a delete answers 200 and changes nothing.
\* advance reads the clock it starts from before it applies the sum, so the
\* instant may be any; the SDK sends no mode with it, which thaws the clock.
ServeUpdate(r, a) ==
    \/ /\ a = "ok" /\ r.id \in DOMAIN shifts
       /\ IF r.op = "update" THEN Update(r.id, r.clock)
          ELSE \E at \in Instants : Update(r.id, [frozen |-> FALSE, at |-> at])
    \/ a \in {"ok", "notFound"} /\ r.id \notin DOMAIN shifts /\ UNCHANGED regVars

\* Every entry of the answer has a status or an error: "bad" is one with an error.
ServeStatus(r, a) ==
    /\ a \in IF r.id \in DOMAIN shifts THEN {"ok", "bad"} ELSE {"notFound"}
    /\ UNCHANGED regVars

Effect(r, a) ==
    /\ \/ r.op = "create" /\ ServeCreate(r, a)
       \/ r.op = "delete" /\ ServeDelete(r, a)
       \/ r.op \in {"update", "advance"} /\ ServeUpdate(r, a)
       \/ r.op = "status" /\ ServeStatus(r, a)
    /\ scoped' = IF r.scoped THEN scoped \union (next + 1 .. next') ELSE scoped

Answers == {"created", "ok", "refused", "notFound", "bad"}

Serve(c, a) ==
    /\ Waiting(c)
    /\ Effect(cl[c].req, a)
    /\ cl' = [cl EXCEPT ![c].ans = a, ![c].id = IF a = "created" THEN next' ELSE @,
                        ![c].era = used.restarts]
    /\ UNCHANGED <<stray, expired, used, touched>>

\* The request of a client that has given up, or of one that is gone.
ServeStray(r, a) ==
    /\ Effect(r, a)
    /\ stray' = stray \ {r}
    /\ UNCHANGED <<cl, expired, used, touched>>

\* It never arrives, or its handler stops at the cancelled context.
DropStray(r) ==
    /\ stray' = stray \ {r}
    /\ UNCHANGED <<regVars, cl, expired, used, touched, scoped>>

(***************************************************************************)
(* withTimeMode and WithTimeT.                                             *)
(***************************************************************************)
DeleteReq(c) == [NoReq EXCEPT !.op = "delete", !.id = cl[c].id]

\* c returns to its caller, in error or not.
Returning(c, bad) == [cl[c] EXCEPT !.pc = "done", !.req = NoReq, !.ans = "none", !.bad = bad, !.cut = FALSE]

Step(c, new) ==
    /\ cl' = [cl EXCEPT ![c] = new]
    /\ UNCHANGED <<regVars, stray, expired, used, touched, scoped>>

\* Mutant of Begin: any ttl is accepted.
BeginAnyTtl(c, k, ttl) ==
    /\ cl[c].pc = "idle"
    /\ Step(c, [Sending(c, "create", [op |-> "create", id |-> 0, clock |-> Wire(k), ttl |-> ttl, scoped |-> TRUE])
                EXCEPT !.want = k])

\* Mutant of Begin: the mode is not sent.
BeginThawed(c, k, ttl) ==
    /\ cl[c].pc = "idle"
    /\ Step(c, IF ttl
               THEN [Sending(c, "create", [op |-> "create", id |-> 0, clock |-> Wire(Thawed(k)), ttl |-> ttl, scoped |-> TRUE])
                     EXCEPT !.want = k]
               ELSE Returning(c, TRUE))

\* "requires a positive ttl".
Begin(c, k, ttl) ==
    /\ cl[c].pc = "idle"
    /\ Step(c, IF ttl
               THEN [Sending(c, "create", [op |-> "create", id |-> 0, clock |-> Wire(k), ttl |-> ttl, scoped |-> TRUE])
                     EXCEPT !.want = k]
               ELSE Returning(c, TRUE))

\* WithTime goes on to WaitForActive, WithTimeT straight to the callback.
Created(c) ==
    /\ cl[c].pc = "create" /\ cl[c].ans # "none"
    /\ Step(c, IF cl[c].ans # "created" THEN Returning(c, TRUE)
               ELSE IF c \in Users THEN Sending(c, "status", [NoReq EXCEPT !.op = "status", !.id = cl[c].id])
               ELSE [cl[c] EXCEPT !.pc = "fn", !.req = NoReq, !.ans = "none"])

\* WaitForActive: any error is final.  The delete that follows is not looked at.
Active(c) ==
    /\ cl[c].pc = "status" /\ cl[c].ans # "none"
    /\ Step(c, IF cl[c].ans = "ok"
               THEN [cl[c] EXCEPT !.pc = "fn", !.req = NoReq, !.ans = "none"]
               ELSE Sending(c, "abort", DeleteReq(c)))

Aborted(c) ==
    /\ cl[c].pc = "abort" /\ cl[c].ans # "none"
    /\ Step(c, Returning(c, TRUE))

\* The callback returns, with an error or without.
FnReturns(c, bad) ==
    /\ cl[c].pc = "fn"
    /\ Step(c, [Sending(c, "delete", DeleteReq(c)) EXCEPT !.bad = bad])

\* The callback panics or calls t.FailNow: WithTime has nothing deferred, the
\* cleanup of WithTimeT still runs.
FnPanics(c) ==
    /\ cl[c].pc = "fn"
    /\ Step(c, IF c \in Tests THEN [Sending(c, "delete", DeleteReq(c)) EXCEPT !.bad = TRUE]
               ELSE [cl[c] EXCEPT !.pc = "died"])

\* Mutant of Deleted: an error of the delete is dropped.
DeletedUnchecked(c) ==
    /\ cl[c].pc = "delete" /\ cl[c].ans # "none"
    /\ Step(c, Returning(c, cl[c].bad))

\* A timeshift that is already gone is an error to WithTime, not to WithTimeT.
Deleted(c) ==
    /\ cl[c].pc = "delete" /\ cl[c].ans # "none"
    /\ Step(c, Returning(c, cl[c].bad \/ cl[c].ans \notin (IF c \in Tests THEN {"ok", "notFound"} ELSE {"ok"})))

\* The context given to WithTime is cancelled; WithTimeT uses context.Background().
Cancel(c) ==
    /\ cl[c].pc \in {"create", "status", "fn", "abort", "delete"}
    /\ ~cl[c].cut
    /\ Step(c, [cl[c] EXCEPT !.cut = TRUE])

\* The client's process is killed.
Die(c) ==
    /\ cl[c].pc \notin {"idle", "done", "died"}
    /\ used.lost < MaxLost
    /\ used' = [used EXCEPT !.lost = @ + 1]
    /\ cl' = [cl EXCEPT ![c] = [Idle EXCEPT !.pc = "died", !.id = cl[c].id]]
    /\ stray' = IF Waiting(c) THEN stray \union {cl[c].req} ELSE stray
    /\ UNCHANGED <<regVars, expired, touched, scoped>>

(***************************************************************************)
(* faketimectl: one request, whatever its answer.                          *)
(***************************************************************************)
CtlBegin(c, r) ==
    /\ cl[c].pc = "idle"
    /\ cl' = [cl EXCEPT ![c] = Sending(c, "ctl", r)]
    /\ touched' = touched \union ({r.id} \ {0})
    /\ UNCHANGED <<regVars, stray, expired, used, scoped>>

CtlEnd(c) ==
    /\ cl[c].pc = "ctl" /\ cl[c].ans # "none"
    /\ Step(c, Returning(c, cl[c].ans \notin {"created", "ok"}))

CtlCreateReq(k, ttl) == [NoReq EXCEPT !.op = "create", !.clock = Wire(k), !.ttl = ttl]
UpdateReq(id, k) == [NoReq EXCEPT !.op = "update", !.id = id, !.clock = Wire(k)]
AdvanceReq(id) == [NoReq EXCEPT !.op = "advance", !.id = id]
CtlDeleteReq(id) == [NoReq EXCEPT !.op = "delete", !.id = id]

CtlRequests ==
    {CtlCreateReq(k, ttl) : k \in Wanted, ttl \in BOOLEAN}
    \union {UpdateReq(id, k) : id \in 1 .. next, k \in Wanted}
    \union {AdvanceReq(id) : id \in 1 .. next}
    \union {CtlDeleteReq(id) : id \in 1 .. next}

(***************************************************************************)
(* The controller by itself.                                               *)
(***************************************************************************)
Expire(id) ==
    /\ id \in DOMAIN shifts /\ shifts[id].ttl /\ id \notin expired
    /\ expired' = expired \union {id}
    /\ UNCHANGED <<regVars, cl, stray, used, touched, scoped>>

Sweep ==
    /\ expired \intersect DOMAIN shifts # {}
    /\ Remove(expired)
    /\ UNCHANGED sdkVars

\* Saves, one at a time and only of a registry that is not the saved one.
Save ==
    /\ \/ drafts = {} /\ shifts # stored /\ BeginSave
       \/ drafts' = {} /\ \E d \in drafts : EndSave(d) \/ FailSave(d)
    /\ UNCHANGED sdkVars

\* Connections break: what was being served is lost and every call under way fails.
ControllerRestart ==
    /\ used.restarts < MaxRestarts
    /\ Restart
    /\ used' = [used EXCEPT !.restarts = @ + 1]
    /\ cl' = [c \in Clients |-> IF Waiting(c) THEN [cl[c] EXCEPT !.ans = "fail"] ELSE cl[c]]
    /\ stray' = {}
    /\ UNCHANGED <<expired, touched, scoped>>

ClientStep(c) ==
    \/ Created(c) \/ Active(c) \/ Aborted(c) \/ Deleted(c) \/ CtlEnd(c)
    \/ \E a \in Answers : Serve(c, a)

Next ==
    \/ \E c \in Users \union Tests, ttl \in BOOLEAN : \E k \in AskedBy(c) : Begin(c, k, ttl)
    \/ \E c \in Users : Cancel(c)
    \/ \E c \in Users \union Tests : FnPanics(c) \/ \E bad \in BOOLEAN : FnReturns(c, bad)
    \/ \E c \in Clients : ClientStep(c) \/ Fail(c) \/ Die(c)
    \/ \E c \in Ctls, r \in CtlRequests : CtlBegin(c, r)
    \/ \E r \in stray : DropStray(r) \/ \E a \in Answers : ServeStray(r, a)
    \/ \E id \in DOMAIN shifts : Expire(id)
    \/ Sweep \/ Save \/ ControllerRestart

Spec == Init /\ [][Next]_vars

(***************************************************************************)
(* Time passes and the sweeper's ticker ticks; a request on the wire is    *)
(* served or lost in the end.  A client need not ever do anything.         *)
(***************************************************************************)
Fairness ==
    /\ WF_vars(\E id \in DOMAIN shifts : Expire(id))
    /\ WF_vars(Sweep)
    /\ WF_vars(\E c \in Clients, a \in Answers : Serve(c, a))
    /\ WF_vars(\E r \in stray : DropStray(r) \/ \E a \in Answers : ServeStray(r, a))

FairSpec == Spec /\ Fairness

(***************************************************************************)
(* Properties.                                                             *)
(***************************************************************************)
\* c is in its callback, and neither its TTL has passed nor has the controller
\* restarted nor faketimectl named its id since the answer to its create.
InScope(c) ==
    /\ cl[c].pc = "fn" /\ cl[c].era = used.restarts
    /\ cl[c].id \notin expired \union touched

\* While the callback runs the controller holds its timeshift, in the mode asked
\* for and at the instant that was sent, whatever other callers, requests that
\* outlived their senders, and lost answers do.  ExactTarget says how that
\* differs from the instant asked for.
FnHeld ==
    \A c \in Users \union Tests : InScope(c) =>
        /\ cl[c].id \in DOMAIN shifts
        /\ shifts[cl[c].id].clock = Wire(cl[c].want)

\* "Every call to clock_gettime in the targeted containers returns exactly target
\* for the duration of the callback" (WithFrozenTime).  It does not: the target
\* loses its fraction of a second in RFC3339.
ExactTarget ==
    \A c \in Users : InScope(c) /\ cl[c].want.frozen =>
        cl[c].id \in DOMAIN shifts /\ shifts[cl[c].id].clock = cl[c].want

\* WithTime returns nil, or a WithTimeT test passes, only when the timeshift is
\* out of the registry; only a restart after the controller has answered, from an
\* older saved copy, brings it back.
NilMeansClean ==
    \A c \in Users \union Tests :
        cl[c].pc = "done" /\ ~cl[c].bad /\ cl[c].era = used.restarts => cl[c].id \notin DOMAIN shifts

\* Whatever becomes of the callers (a cancelled context, a lost answer to the
\* create, whose timeshift nobody knows about, a panic, a killed process), of
\* the controller and of its saved copy, in the end no timeshift of WithTime,
\* WithFrozenTime or WithTimeT is left.
CleanedUp == <>[](scoped \intersect DOMAIN shifts = {})
=============================================================================
