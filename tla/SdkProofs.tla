----------------------------- MODULE SdkProofs -----------------------------
(***************************************************************************)
(* Theorems about Sdk.tla, for any callers, clocks, selections and bounds: *)
(* what WithTime, WithFrozenTime and WithTimeT of src/pkg/sdk may rely on  *)
(* while their callback runs and when they return without an error, with   *)
(* any number of callers and of faketimectl commands, lost answers, late   *)
(* requests, kills, sweeps, saves and restarts of the controller.          *)
(***************************************************************************)
EXTENDS Sdk, TLAPS

(***************************************************************************)
(* The inductive invariants.                                               *)
(***************************************************************************)
Callers == Users \union Tests

\* The create has been answered and the delete has not been sent.
Holding(c) == \/ cl[c].pc \in {"status", "fn"}
              \/ cl[c].pc = "create" /\ cl[c].ans = "created"

\* Nobody but faketimectl updates, and only the caller that holds an id
\* deletes it, when it is done with it.
Permitted(r) ==
    /\ r.op \in {"update", "advance"} => r.id \in touched
    /\ r.op = "delete" /\ r.id \notin touched => \A c \in Callers : Holding(c) => r.id # cl[c].id

RequestInv == /\ \A r \in stray : Permitted(r)
              /\ \A c \in Clients : Permitted(cl[c].req)

\* Where a caller is tells what it has asked for and whether it has an id.
Flow(c) ==
    /\ cl[c].pc # "ctl"
    /\ cl[c].pc = "idle" => cl[c].id = 0
    /\ cl[c].pc \in {"idle", "fn", "done", "died"} => cl[c].req = NoReq
    /\ cl[c].pc = "create" => /\ cl[c].req.op = "create" /\ cl[c].req.clock = Wire(cl[c].want)
                              /\ cl[c].want \in Asked
                              /\ cl[c].ans # "created" => cl[c].id = 0
    /\ cl[c].pc = "status" => cl[c].req.op = "status" /\ cl[c].req.id = cl[c].id
    /\ cl[c].pc \in {"abort", "delete"} => cl[c].req.op = "delete" /\ cl[c].req.id = cl[c].id
    /\ Holding(c) => cl[c].id # 0 /\ cl[c].want \in Asked

FlowInv == \A c \in Callers : Flow(c)

CtlInv == \A c \in Ctls : cl[c].pc \in {"idle", "ctl", "done", "died"}

\* Two callers never have the same id.
IdInv == \A c, d \in Callers : c # d /\ cl[c].id # 0 => cl[c].id # cl[d].id

EraInv == \A c \in Clients : cl[c].era <= used.restarts

\* The timeshift of a caller that has not been told otherwise is registered.
Trusting(c) == Holding(c) /\ (cl[c].pc = "status" => cl[c].ans # "notFound")

HeldInv ==
    \A c \in Callers : Trusting(c) /\ cl[c].era = used.restarts /\ cl[c].id \notin expired \union touched =>
        cl[c].id \in DOMAIN shifts

Says(reg, n, k) == n \in DOMAIN reg => reg[n].clock = k

\* Every registry there is, the saved ones included, has the clock that the
\* caller has sent: a restart cannot bring back another one.
ClockInv ==
    \A c \in Callers : Holding(c) /\ cl[c].id \notin touched =>
        /\ Says(shifts, cl[c].id, Wire(cl[c].want))
        /\ Says(stored, cl[c].id, Wire(cl[c].want))
        /\ \A reg \in drafts : Says(reg, cl[c].id, Wire(cl[c].want))

\* The delete was answered, or the caller has returned without an error.
Cleaned(c) == \/ cl[c].pc = "delete" /\ cl[c].ans \in {"ok", "notFound"}
              \/ cl[c].pc = "done" /\ ~cl[c].bad

CleanInv == \A c \in Callers : Cleaned(c) /\ cl[c].era = used.restarts => cl[c].id \notin DOMAIN shifts

Inv == /\ RequestInv /\ FlowInv /\ CtlInv /\ IdInv /\ EraInv
       /\ HeldInv /\ ClockInv /\ CleanInv

(***************************************************************************)
(* The registry.                                                           *)
(***************************************************************************)
LEMMA RegistryFacts ==
    ASSUME NEW n \in Nat, NEW reg \in RegistriesUpTo(n)
    PROVE  /\ DOMAIN reg \subseteq 1 .. n
           /\ \A id \in DOMAIN reg : reg[id] \in Shift
           /\ reg = [id \in DOMAIN reg |-> reg[id]]
<1>1. PICK ids \in SUBSET (1 .. n) : reg \in [ids -> Shift]
  BY DEF RegistriesUpTo
<1> QED
  BY <1>1

LEMMA RegistryIntro ==
    ASSUME NEW n \in Nat, NEW ids \in SUBSET (1 .. n), NEW reg \in [ids -> Shift]
    PROVE  reg \in RegistriesUpTo(n)
  BY DEF RegistriesUpTo

LEMMA RegistryGrows ==
    ASSUME NEW n \in Nat, NEW reg \in RegistriesUpTo(n)
    PROVE  reg \in RegistriesUpTo(n + 1)
<1>1. PICK ids \in SUBSET (1 .. n) : reg \in [ids -> Shift]
  BY DEF RegistriesUpTo
<1>2. ids \in SUBSET (1 .. n + 1)
  OBVIOUS
<1> QED
  BY <1>1, <1>2, RegistryIntro, n + 1 \in Nat

LEMMA NoShiftsType == \A n \in Nat : NoShifts \in RegistriesUpTo(n)
<1> TAKE n \in Nat
<1>1. {} \in SUBSET (1 .. n) /\ NoShifts \in [{} -> Shift]
  BY DEF NoShifts
<1> QED
  BY <1>1, RegistryIntro

\* What the steps of the registry do to its domain and to its entries.
LEMMA CreateFacts ==
    ASSUME RegistryTypeOK, NEW s \in Shift, Create(s)
    PROVE  /\ RegistryTypeOK'
           /\ next' = next + 1 /\ stored' = stored /\ drafts' = drafts
           /\ DOMAIN shifts' = DOMAIN shifts \union {next + 1}
           /\ shifts'[next + 1] = s
           /\ \A n \in DOMAIN shifts : n # next + 1 => shifts'[n] = shifts[n]
<1>1. next \in Nat /\ next' = next + 1 /\ stored' = stored /\ drafts' = drafts
  BY DEF RegistryTypeOK, Create
<1>2. DOMAIN shifts \subseteq 1 .. next /\ \A id \in DOMAIN shifts : shifts[id] \in Shift
  BY RegistryFacts DEF RegistryTypeOK
<1>3. shifts' = [id \in DOMAIN shifts \union {next + 1} |-> IF id = next + 1 THEN s ELSE shifts[id]]
  BY DEF Create
<1>4. shifts' \in [DOMAIN shifts \union {next + 1} -> Shift]
  BY <1>2, <1>3
<1>5. DOMAIN shifts \union {next + 1} \in SUBSET (1 .. next + 1)
  BY <1>1, <1>2
<1>6. shifts' \in RegistriesUpTo(next')
  BY <1>1, <1>4, <1>5, RegistryIntro
<1>7. stored' \in RegistriesUpTo(next') /\ drafts' \subseteq RegistriesUpTo(next')
  BY <1>1, RegistryGrows DEF RegistryTypeOK
<1> QED
  BY <1>1, <1>3, <1>6, <1>7 DEF RegistryTypeOK

LEMMA UpdateFacts ==
    ASSUME RegistryTypeOK, NEW m, NEW k \in Settings, Update(m, k)
    PROVE  /\ RegistryTypeOK'
           /\ next' = next /\ stored' = stored /\ drafts' = drafts
           /\ DOMAIN shifts' = DOMAIN shifts
           /\ \A n \in DOMAIN shifts : n # m => shifts'[n] = shifts[n]
<1>1. next' = next /\ stored' = stored /\ drafts' = drafts
  BY DEF Update
<1>2. /\ DOMAIN shifts \subseteq 1 .. next /\ \A id \in DOMAIN shifts : shifts[id] \in Shift
      /\ shifts = [id \in DOMAIN shifts |-> shifts[id]]
  BY RegistryFacts DEF RegistryTypeOK
<1>3. m \in DOMAIN shifts /\ shifts' = [shifts EXCEPT ![m].clock = k]
  BY DEF Update
<1>4. [shifts[m] EXCEPT !.clock = k] \in Shift
  BY <1>2, <1>3 DEF Shift
<1>5. shifts' \in [DOMAIN shifts -> Shift]
  BY <1>2, <1>3, <1>4
<1>6. shifts' \in RegistriesUpTo(next')
  BY <1>1, <1>2, <1>5, RegistryIntro DEF RegistryTypeOK
<1> QED
  BY <1>1, <1>3, <1>6 DEF RegistryTypeOK

LEMMA RemoveFacts ==
    ASSUME RegistryTypeOK, NEW ids, Remove(ids)
    PROVE  /\ RegistryTypeOK'
           /\ next' = next /\ stored' = stored /\ drafts' = drafts
           /\ DOMAIN shifts' = DOMAIN shifts \ ids
           /\ \A n \in DOMAIN shifts' : shifts'[n] = shifts[n]
<1>1. next' = next /\ stored' = stored /\ drafts' = drafts
  BY DEF Remove
<1>2. DOMAIN shifts \subseteq 1 .. next /\ \A id \in DOMAIN shifts : shifts[id] \in Shift
  BY RegistryFacts DEF RegistryTypeOK
<1>3. shifts' = [id \in DOMAIN shifts \ ids |-> shifts[id]]
  BY DEF Remove
<1>4. shifts' \in [DOMAIN shifts \ ids -> Shift] /\ DOMAIN shifts \ ids \in SUBSET (1 .. next)
  BY <1>2, <1>3
<1>5. shifts' \in RegistriesUpTo(next')
  BY <1>1, <1>4, RegistryIntro DEF RegistryTypeOK
<1> QED
  BY <1>1, <1>3, <1>5 DEF RegistryTypeOK

(***************************************************************************)
(* Requests.                                                               *)
(***************************************************************************)
LEMMA NoReqFacts ==
    /\ NoReq.op = "none" /\ NoReq.id = 0 /\ NoReq.clock \in Settings
    /\ NoReq.ttl = FALSE /\ NoReq.scoped = FALSE
    /\ NoReq = [op |-> "none", id |-> 0, clock |-> NoReq.clock, ttl |-> FALSE, scoped |-> FALSE]
<1> DEFINE k == CHOOSE k \in Wanted : TRUE
<1>1. k \in Wanted
  BY SdkAssumption
<1> HIDE DEF k
<1>2. Wire(k) \in Settings
  BY <1>1, SdkAssumption
<1>3. NoReq = [op |-> "none", id |-> 0, clock |-> Wire(k), ttl |-> FALSE, scoped |-> FALSE]
  BY DEF NoReq, k
<1> QED
  BY <1>2, <1>3

\* What callers ask for is a clock, and one the controller can be sent.
LEMMA AskedFacts ==
    ASSUME NEW k \in Asked
    PROVE  k \in [frozen : BOOLEAN, at : Int] /\ Wire(k) \in Settings
<1>1. CASE k \in Wanted
  BY <1>1, SdkAssumption
<1>2. ASSUME NEW w \in Wanted, k = Thawed(w) PROVE k \in [frozen : BOOLEAN, at : Int] /\ Wire(k) \in Settings
  <2>1. w \in [frozen : BOOLEAN, at : Int] /\ Wire(w) \in Settings /\ Thawed(Wire(w)) \in Settings
    BY SdkAssumption
  <2>2. Wire(k) = Thawed(Wire(w)) /\ k \in [frozen : BOOLEAN, at : Int]
    BY <1>2, <2>1 DEF Wire, Thawed
  <2> QED BY <2>1, <2>2
<1> QED
  BY <1>1, <1>2 DEF Asked

\* Whole seconds are cut off, nothing else.
LEMMA WireFacts ==
    ASSUME NEW k \in Asked
    PROVE  /\ Wire(k) \in Settings
           /\ Wire(k).frozen = k.frozen
           /\ k.at - Wire(k).at \in 0 .. Second - 1
<1>1. k \in [frozen : BOOLEAN, at : Int] /\ Second \in Nat \ {0}
  BY AskedFacts, SdkAssumption
<1>2. Wire(k).frozen = k.frozen /\ Wire(k).at = (k.at \div Second) * Second
  BY <1>1 DEF Wire
<1>3. k.at - (k.at \div Second) * Second \in 0 .. Second - 1
  BY <1>1
<1> QED
  BY <1>2, <1>3, AskedFacts

Same(n) == /\ n \in DOMAIN shifts' <=> n \in DOMAIN shifts
           /\ n \in DOMAIN shifts => shifts'[n] = shifts[n]

\* What serving request r with answer a does to the registry.
Served(r, a) ==
    /\ stored' = stored /\ drafts' = drafts
    /\ next' = IF a = "created" THEN next + 1 ELSE next
    /\ a = "created" => /\ next + 1 \in DOMAIN shifts' /\ shifts'[next + 1].clock = r.clock
    /\ \A n \in 0 .. next : n \in DOMAIN shifts' => n \in DOMAIN shifts
    /\ \A n \in 0 .. next : (r.op \in {"update", "advance", "delete"} /\ r.id = n) \/ Same(n)
    /\ r.op = "create" => a \in {"created", "refused"}
    /\ a = "created" => r.op = "create"
    /\ r.op = "delete" => r.id \notin DOMAIN shifts'
    /\ r.op = "status" => a \in {"ok", "bad", "notFound"} /\ (a # "notFound" => r.id \in DOMAIN shifts)

LEMMA EffectFacts ==
    ASSUME RegistryTypeOK, NEW r \in Request, NEW a \in Answers, Effect(r, a)
    PROVE  /\ RegistryTypeOK'
           /\ Served(r, a)
           /\ scoped' \subseteq scoped \union (1 .. next')
<1>0. /\ next \in Nat /\ r.id \in 0 .. next /\ r.clock \in Settings /\ r.ttl \in BOOLEAN
      /\ DOMAIN shifts \subseteq 1 .. next
  BY RegistryFacts DEF RegistryTypeOK, Request
<1>1. ASSUME UNCHANGED regVars PROVE RegistryTypeOK' /\ stored' = stored /\ drafts' = drafts /\ next' = next /\ shifts' = shifts
  BY <1>1 DEF RegistryTypeOK, regVars, RegistriesUpTo
<1>2. CASE r.op = "create" /\ ServeCreate(r, a)
  <2>1. CASE a = "refused" /\ UNCHANGED regVars
    BY <1>0, <1>1, <1>2, <2>1 DEF Served, Same, Effect
  <2>2. CASE a = "created" /\ \E sel \in Selections : Create([sel |-> sel, clock |-> r.clock, ttl |-> r.ttl])
    <3>1. PICK sel \in Selections : Create([sel |-> sel, clock |-> r.clock, ttl |-> r.ttl])
      BY <2>2
    <3> DEFINE s == [sel |-> sel, clock |-> r.clock, ttl |-> r.ttl]
    <3>2. s \in Shift /\ s.clock = r.clock
      BY <1>0 DEF Shift
    <3> HIDE DEF s
    <3>3. Create(s)
      BY <3>1 DEF s
    <3>4. /\ RegistryTypeOK'
          /\ next' = next + 1 /\ stored' = stored /\ drafts' = drafts
          /\ DOMAIN shifts' = DOMAIN shifts \union {next + 1}
          /\ shifts'[next + 1] = s
          /\ \A n \in DOMAIN shifts : n # next + 1 => shifts'[n] = shifts[n]
      BY <3>2, <3>3, CreateFacts
    <3> QED
      BY <1>0, <1>2, <2>2, <3>2, <3>4 DEF Served, Same, Effect
  <2> QED
    BY <1>2, <2>1, <2>2 DEF ServeCreate
<1>3. CASE r.op = "delete" /\ ServeDelete(r, a)
  <2>1. CASE a = "ok" /\ r.id \in DOMAIN shifts /\ Remove({r.id})
    <3>1. /\ RegistryTypeOK'
          /\ next' = next /\ stored' = stored /\ drafts' = drafts
          /\ DOMAIN shifts' = DOMAIN shifts \ {r.id}
          /\ \A n \in DOMAIN shifts' : shifts'[n] = shifts[n]
      BY <2>1, RemoveFacts
    <3> QED
      BY <1>0, <1>3, <2>1, <3>1 DEF Served, Same, Effect
  <2>2. CASE a = "notFound" /\ r.id \notin DOMAIN shifts /\ UNCHANGED regVars
    BY <1>0, <1>1, <1>3, <2>2 DEF Served, Same, Effect
  <2> QED
    BY <1>3, <2>1, <2>2 DEF ServeDelete
<1>4. CASE r.op \in {"update", "advance"} /\ ServeUpdate(r, a)
  <2>1. ASSUME NEW k \in Settings, Update(r.id, k), a = "ok"
        PROVE  RegistryTypeOK' /\ Served(r, a) /\ scoped' \subseteq scoped \union (1 .. next')
    <3>1. /\ RegistryTypeOK'
          /\ next' = next /\ stored' = stored /\ drafts' = drafts
          /\ DOMAIN shifts' = DOMAIN shifts
          /\ \A n \in DOMAIN shifts : n # r.id => shifts'[n] = shifts[n]
      BY <2>1, UpdateFacts
    <3> QED
      BY <1>0, <1>4, <2>1, <3>1 DEF Served, Same, Effect
  <2>2. CASE a = "ok" /\ r.op = "update" /\ Update(r.id, r.clock)
    BY <1>0, <2>1, <2>2
  <2>3. CASE a = "ok" /\ \E at \in Instants : Update(r.id, [frozen |-> FALSE, at |-> at])
    <3>1. PICK k \in Settings : Update(r.id, [frozen |-> FALSE, at |-> k.at])
      BY <2>3 DEF Instants
    <3>2. [frozen |-> FALSE, at |-> k.at] = Thawed(k) /\ Thawed(k) \in Settings
      BY SdkAssumption DEF Thawed
    <3> QED
      BY <2>1, <2>3, <3>1, <3>2
  <2>4. CASE a \in {"ok", "notFound"} /\ r.id \notin DOMAIN shifts /\ UNCHANGED regVars
    BY <1>0, <1>1, <1>4, <2>4 DEF Served, Same, Effect
  <2> QED
    BY <1>4, <2>2, <2>3, <2>4 DEF ServeUpdate
<1>5. CASE r.op = "status" /\ ServeStatus(r, a)
  <2>1. UNCHANGED regVars /\ a \in {"ok", "bad", "notFound"} /\ (a # "notFound" => r.id \in DOMAIN shifts)
    BY <1>5 DEF ServeStatus
  <2> QED
    BY <1>0, <1>1, <1>5, <2>1 DEF Served, Same, Effect
<1> QED
  BY <1>2, <1>3, <1>4, <1>5 DEF Effect

(***************************************************************************)
(* Types.                                                                  *)
(***************************************************************************)
\* Ids are only added, so what has a type keeps it.
LEMMA TypesGrow ==
    ASSUME next \in Nat, next' \in Nat, next <= next'
    PROVE  /\ \A r \in Request : r \in Request'
           /\ \A x \in Client : x \in Client'
           /\ \A n \in 0 .. next : n \in 0 .. next'
<1>1. 0 .. next \subseteq 0 .. next'
  OBVIOUS
<1>2. \A r \in Request : r \in Request'
  BY <1>1 DEF Request
<1>3. ASSUME NEW x \in Client PROVE x \in Client'
  <2>1. x.id \in 0 .. next' /\ x.req \in Request'
    BY <1>1, <1>2 DEF Client
  <2> QED
    BY <2>1 DEF Client
<1>4. \A x \in Client : x \in Client'
  BY <1>3, Zenon
<1>5. \A n \in 0 .. next : n \in 0 .. next'
  BY <1>1, Zenon
<1> QED
  BY <1>2, <1>4, <1>5, Zenon

LEMMA NoReqType ==
    ASSUME next \in Nat
    PROVE  NoReq \in Request
<1>1. \A k \in Settings : [op |-> "none", id |-> 0, clock |-> k, ttl |-> FALSE, scoped |-> FALSE] \in Request
  BY DEF Request
<1> QED
  BY <1>1, NoReqFacts, Zenon

\* Only c moves, and nothing else is changed but what is lost with its call.
OnlyClient(c) ==
    /\ \A d \in Clients : d # c => cl'[d] = cl[d]
    /\ shifts' = shifts /\ next' = next /\ stored' = stored /\ drafts' = drafts
    /\ stray' \in {stray, stray \union {cl[c].req}}
    /\ expired' = expired /\ touched' = touched /\ scoped' = scoped
    /\ used'.restarts = used.restarts /\ used' \in [lost : 0 .. MaxLost, restarts : 0 .. MaxRestarts]

\* The move keeps the id and sends no request about the id of somebody else;
\* it makes c neither hold a timeshift nor be done with one.
Tame(c) ==
    /\ cl'[c] \in Client
    /\ cl'[c].id = cl[c].id /\ cl'[c].era <= cl[c].era
    /\ \/ cl'[c].req = cl[c].req
       \/ cl'[c].req.op \in {"none", "create", "status"}
       \/ cl'[c].req.op = "delete" /\ cl'[c].req.id = cl[c].id /\ c \in Callers /\ ~Holding(c)' /\ Holding(c)
    /\ c \in Callers => Flow(c)'
    /\ c \in Ctls => cl'[c].pc \in {"idle", "ctl", "done", "died"}
    /\ Holding(c)' => Holding(c) /\ cl'[c].want = cl[c].want
    /\ Trusting(c)' => Trusting(c) /\ cl'[c].era = cl[c].era
    /\ Cleaned(c)' /\ c \in Callers => Cleaned(c) /\ cl'[c].era = cl[c].era

LEMMA StepFacts ==
    ASSUME TypeOK, NEW c \in Clients, NEW new, Step(c, new)
    PROVE  /\ cl' = [cl EXCEPT ![c] = new]
           /\ cl'[c] = new
           /\ OnlyClient(c)
<1>1. cl' = [cl EXCEPT ![c] = new] /\ cl \in [Clients -> Client]
  BY DEF Step, TypeOK
<1>2. cl'[c] = new /\ \A d \in Clients : d # c => cl'[d] = cl[d]
  BY <1>1
<1>3. UNCHANGED <<shifts, next, stored, drafts, stray, expired, used, touched, scoped>>
  BY DEF Step, regVars
<1>4. used \in [lost : 0 .. MaxLost, restarts : 0 .. MaxRestarts]
  BY DEF TypeOK
<1> QED
  BY <1>1, <1>2, <1>3, <1>4 DEF OnlyClient

LEMMA ClientMove ==
    ASSUME TypeOK, Inv, NEW c \in Clients, cl' = [cl EXCEPT ![c] = cl'[c]], OnlyClient(c), Tame(c)
    PROVE  TypeOK' /\ Inv'
<1>0. /\ next \in Nat /\ next' = next /\ cl \in [Clients -> Client] /\ Callers \subseteq Clients
      /\ \A d \in Clients : cl[d] \in Client /\ cl[d].req \in Request /\ cl[d].era \in Nat /\ cl[d].id \in 0 .. next
      /\ used.restarts \in Nat
  <2>1. next \in Nat /\ next' = next /\ cl \in [Clients -> Client] /\ Callers \subseteq Clients
    BY DEF TypeOK, RegistryTypeOK, Callers, Clients, OnlyClient
  <2>2. \A x \in Client : x.req \in Request /\ x.era \in Nat /\ x.id \in 0 .. next
    BY SdkAssumption DEF Client
  <2>3. used.restarts \in Nat
    BY SdkAssumption DEF TypeOK
  <2> QED
    BY <2>1, <2>2, <2>3
<1>1. TypeOK'
  <2>1. RegistryTypeOK'
    BY DEF TypeOK, RegistryTypeOK, RegistriesUpTo, OnlyClient
  <2>2. Client' = Client /\ Request' = Request
    BY <1>0 DEF Client, Request
  <2>3. cl' \in [Clients -> Client]
    BY <1>0 DEF Tame
  <2>4. stray' \subseteq Request
    BY <1>0 DEF TypeOK, OnlyClient
  <2> QED
    BY <2>1, <2>2, <2>3, <2>4 DEF TypeOK, OnlyClient
<1>2. RequestInv'
  <2>1. \A d \in Callers : Holding(d)' => Holding(d)
    BY <1>0 DEF Tame, OnlyClient, Holding
  <2>2. \A d \in Callers : cl'[d].id = cl[d].id
    BY <1>0 DEF Tame, OnlyClient
  <2>3. ASSUME NEW r, Permitted(r) PROVE Permitted(r)'
    BY <2>1, <2>2, <2>3 DEF Permitted, OnlyClient
  <2>4. \A r \in stray' : Permitted(r)'
    BY <2>3 DEF OnlyClient, Inv, RequestInv
  <2>5. \A d \in Clients \ {c} : Permitted(cl[d].req)'
    <3> SUFFICES ASSUME NEW d \in Clients \ {c} PROVE Permitted(cl[d].req)'
      OBVIOUS
    <3>1. Permitted(cl[d].req) /\ cl'[d] = cl[d]
      BY DEF Inv, RequestInv, OnlyClient
    <3> QED
      BY <2>3, <3>1 DEF Permitted
  <2>6. Permitted(cl[c].req)'
    <3>1. CASE cl'[c].req = cl[c].req
      <4>1. Permitted(cl[c].req)
        BY DEF Inv, RequestInv
      <4> QED
        BY <2>1, <2>2, <3>1, <4>1 DEF Permitted, OnlyClient
    <3>2. CASE cl'[c].req.op \in {"none", "create", "status"}
      BY <3>2 DEF Permitted
    <3>3. CASE cl'[c].req.op = "delete" /\ cl'[c].req.id = cl[c].id /\ c \in Callers /\ ~Holding(c)' /\ Holding(c)
      <4>1. \A d \in Callers : d # c => cl[c].id # cl[d].id
        BY <3>3 DEF Inv, IdInv, FlowInv, Flow
      <4> QED
        BY <2>2, <3>3, <4>1 DEF Permitted
    <3> QED
      BY <3>1, <3>2, <3>3 DEF Tame
  <2> QED
    BY <2>4, <2>5, <2>6 DEF RequestInv
<1>3. FlowInv'
  BY <1>0 DEF Inv, FlowInv, Flow, Holding, OnlyClient, Tame
<1>3a. CtlInv'
  BY DEF Inv, CtlInv, OnlyClient, Tame, Clients
<1>4. IdInv'
  BY <1>0 DEF Inv, IdInv, OnlyClient, Tame
<1>5. EraInv'
  <2>1. cl'[c].era \in Int
    BY <1>0 DEF Tame, Client
  <2> QED
    BY <1>0, <2>1 DEF Inv, EraInv, OnlyClient, Tame
<1>6. HeldInv'
  BY <1>0 DEF Inv, HeldInv, Trusting, Holding, OnlyClient, Tame
<1>7. ClockInv'
  <2>1. \A d \in Callers : Holding(d)' => Holding(d) /\ cl'[d].want = cl[d].want /\ cl'[d].id = cl[d].id
    BY <1>0 DEF Tame, OnlyClient, Holding
  <2> QED
    BY <2>1 DEF Inv, ClockInv, OnlyClient, Says
<1>8. CleanInv'
  BY <1>0 DEF Inv, CleanInv, Cleaned, OnlyClient, Tame
<1> QED
  BY <1>1, <1>2, <1>3, <1>3a, <1>4, <1>5, <1>6, <1>7, <1>8 DEF Inv

(***************************************************************************)
(* The steps of a client.                                                  *)
(***************************************************************************)
\* The local state of c, taken apart.
LEMMA ClientFields ==
    ASSUME TypeOK, NEW c \in Clients
    PROVE  /\ cl[c] \in Client
           /\ next \in Nat /\ cl[c].id \in 0 .. next /\ cl[c].req \in Request
           /\ cl[c].want \in Asked \union Settings
           /\ cl[c].cut \in BOOLEAN /\ cl[c].bad \in BOOLEAN /\ cl[c].era \in 0 .. MaxRestarts
           /\ cl[c].era \in Int
           /\ cl[c].ans \in {"none", "created", "ok", "refused", "notFound", "bad", "fail"}
<1>1. cl[c] \in Client /\ next \in Nat
  BY DEF TypeOK, RegistryTypeOK
<1>2. ASSUME NEW x \in Client
      PROVE  /\ x.id \in 0 .. next /\ x.req \in Request
             /\ x.want \in Asked \union Settings
             /\ x.cut \in BOOLEAN /\ x.bad \in BOOLEAN /\ x.era \in 0 .. MaxRestarts
             /\ x.ans \in {"none", "created", "ok", "refused", "notFound", "bad", "fail"}
    BY DEF Client
<1> QED
  BY <1>1, <1>2

Places == {"idle", "create", "status", "fn", "abort", "delete", "ctl", "done", "died"}

\* A local state with the id and the era of c, in some place with some request.
Moves(c, new, p, r, a) ==
    /\ new \in Client
    /\ new.id = cl[c].id /\ new.era = cl[c].era
    /\ new.pc = p /\ new.req = r /\ new.ans = a

LEMMA SendingFacts ==
    ASSUME TypeOK, NEW c \in Clients, NEW p \in Places, NEW r \in Request
    PROVE  /\ Moves(c, Sending(c, p, r), p, r, IF cl[c].cut THEN "fail" ELSE "none")
           /\ Sending(c, p, r).want = cl[c].want
<1>1. cl[c] \in Client
  BY DEF TypeOK
<1> DEFINE a == IF cl[c].cut THEN "fail" ELSE "none"
           new == [cl[c] EXCEPT !.pc = p, !.req = r, !.ans = a]
<1>2. a \in {"none", "fail"}
  OBVIOUS
<1> HIDE DEF a
<1>3. /\ new \in Client /\ new.id = cl[c].id /\ new.era = cl[c].era /\ new.want = cl[c].want
      /\ new.pc = p /\ new.req = r /\ new.ans = a
  BY <1>1, <1>2 DEF Client, Places
<1>4. Sending(c, p, r) = new
  BY DEF Sending, a
<1> HIDE DEF new
<1>5. Moves(c, new, p, r, a) /\ new.want = cl[c].want
  BY <1>3 DEF Moves
<1> QED
  BY <1>4, <1>5 DEF a

LEMMA ReturningFacts ==
    ASSUME TypeOK, NEW c \in Clients, NEW bad \in BOOLEAN
    PROVE  /\ Moves(c, Returning(c, bad), "done", NoReq, "none")
           /\ Returning(c, bad).bad = bad
<1>1. cl[c] \in Client /\ NoReq \in Request
  BY NoReqType DEF TypeOK, RegistryTypeOK
<1> DEFINE new == [cl[c] EXCEPT !.pc = "done", !.req = NoReq, !.ans = "none", !.bad = bad, !.cut = FALSE]
<1>2. /\ new \in Client /\ new.id = cl[c].id /\ new.era = cl[c].era
      /\ new.pc = "done" /\ new.req = NoReq /\ new.ans = "none" /\ new.bad = bad
  BY <1>1 DEF Client
<1>3. Returning(c, bad) = new
  BY DEF Returning
<1> HIDE DEF new
<1> QED
  BY <1>2, <1>3 DEF Moves

\* A delete of its own id, by a caller that holds it.
LEMMA DeleteReqFacts ==
    ASSUME TypeOK, NEW c \in Clients
    PROVE  DeleteReq(c) \in Request /\ DeleteReq(c).op = "delete" /\ DeleteReq(c).id = cl[c].id
<1>1. cl[c].id \in 0 .. next /\ next \in Nat /\ NoReq \in Request
  BY ClientFields, NoReqType
<1> QED
  BY <1>1 DEF DeleteReq, Request

\* A step of c alone that is tame keeps everything.
LEMMA TameStep ==
    ASSUME TypeOK, Inv, NEW c \in Clients, NEW new, Step(c, new), cl'[c] = new => Tame(c)
    PROVE  TypeOK' /\ Inv'
<1>1. cl' = [cl EXCEPT ![c] = new] /\ cl'[c] = new /\ OnlyClient(c)
  BY StepFacts
<1>2. cl' = [cl EXCEPT ![c] = cl'[c]] /\ Tame(c)
  BY <1>1
<1> QED
  BY <1>1, <1>2, ClientMove

\* A caller that returns in error, or that was done.
LEMMA ReturnTame ==
    ASSUME TypeOK, Inv, NEW c \in Clients, NEW bad \in BOOLEAN, cl'[c] = Returning(c, bad),
           c \in Callers /\ ~bad => Cleaned(c)
    PROVE  Tame(c)
<1>1. Moves(c, cl'[c], "done", NoReq, "none") /\ cl'[c].bad = bad
  BY ReturningFacts
<1>2. cl[c].era \in Int
  BY ClientFields
<1> QED
  BY <1>1, <1>2, NoReqFacts DEF Moves, Tame, Flow, Holding, Trusting, Cleaned

LEMMA BeginKeeps ==
    ASSUME TypeOK, Inv, NEW c \in Callers, NEW k \in Asked, NEW ttl \in BOOLEAN, Begin(c, k, ttl)
    PROVE  TypeOK' /\ Inv'
<1>0. c \in Clients /\ c \notin Ctls /\ Flow(c) /\ cl[c].pc = "idle"
  BY SdkAssumption DEF Callers, Clients, Begin, Inv, FlowInv
<1>1. CASE ttl
  <2> DEFINE r == [op |-> "create", id |-> 0, clock |-> Wire(k), ttl |-> ttl, scoped |-> TRUE]
             x == Sending(c, "create", r)
             new == [x EXCEPT !.want = k]
  <2>0. Wire(k) \in Settings /\ 0 \in 0 .. next
    BY <1>0, WireFacts, ClientFields
  <2>1. r \in Request /\ r.op = "create" /\ r.clock = Wire(k)
    BY <2>0 DEF Request
  <2>2. Step(c, new)
    BY <1>1 DEF Begin
  <2> HIDE DEF r
  <2>3. Moves(c, x, "create", r, IF cl[c].cut THEN "fail" ELSE "none")
    BY <1>0, <2>1, SendingFacts DEF Places
  <2> HIDE DEF x
  <2>4. /\ new \in Client /\ new.want = k /\ new.pc = "create" /\ new.req = r /\ new.ans \in {"fail", "none"}
        /\ new.id = cl[c].id /\ new.era = cl[c].era
    BY <2>3 DEF Moves, Client
  <2> HIDE DEF new
  <2>5. cl[c].era \in Int /\ cl[c].id = 0
    BY <1>0, ClientFields DEF Flow
  <2>6. cl'[c] = new => Tame(c)
    BY <1>0, <2>1, <2>4, <2>5 DEF Tame, Flow, Holding, Trusting, Cleaned
  <2> QED
    BY <1>0, <2>2, <2>6, TameStep
<1>2. CASE ~ttl
  <2>1. Step(c, Returning(c, TRUE))
    BY <1>2 DEF Begin
  <2>2. cl'[c] = Returning(c, TRUE) => Tame(c)
    BY <1>0, ReturnTame
  <2> QED
    BY <1>0, <2>1, <2>2, TameStep
<1> QED
  BY <1>1, <1>2

\* The place and the request of a caller change, and with them nothing else.
LEMMA FnTame ==
    ASSUME TypeOK, Inv, NEW c \in Callers, Trusting(c),
           cl'[c] = [cl[c] EXCEPT !.pc = "fn", !.req = NoReq, !.ans = "none"]
    PROVE  Tame(c)
<1>1. c \in Clients /\ c \notin Ctls /\ Flow(c)
  BY SdkAssumption DEF Callers, Clients, Inv, FlowInv
<1>2. cl[c] \in Client /\ cl[c].era \in Int /\ NoReq \in Request
  BY <1>1, ClientFields, NoReqType
<1>3. /\ cl'[c] \in Client /\ cl'[c].id = cl[c].id /\ cl'[c].era = cl[c].era /\ cl'[c].want = cl[c].want
      /\ cl'[c].pc = "fn" /\ cl'[c].req = NoReq /\ cl'[c].ans = "none"
  BY <1>2 DEF Client
<1> QED
  BY <1>1, <1>2, <1>3, NoReqFacts DEF Tame, Flow, Holding, Trusting, Cleaned

LEMMA CreatedKeeps ==
    ASSUME TypeOK, Inv, NEW c \in Clients, Created(c)
    PROVE  TypeOK' /\ Inv'
<1>0. cl[c].pc = "create" /\ cl[c].ans # "none" /\ c \in Callers /\ Flow(c)
  BY DEF Created, Inv, FlowInv, CtlInv, Clients, Callers
<1>1. CASE cl[c].ans # "created"
  <2>1. Step(c, Returning(c, TRUE))
    BY <1>1, Zenon DEF Created
  <2>2. cl'[c] = Returning(c, TRUE) => Tame(c)
    BY ReturnTame
  <2> QED
    BY <2>1, <2>2, TameStep
<1>2. CASE cl[c].ans = "created" /\ c \in Users
  <2> DEFINE r == [NoReq EXCEPT !.op = "status", !.id = cl[c].id]
             new == Sending(c, "status", r)
  <2>1. Step(c, new)
    BY <1>2 DEF Created
  <2>2. NoReq \in Request /\ cl[c].id \in 0 .. next /\ cl[c].era \in Int
    BY ClientFields, NoReqType
  <2>3. r \in Request /\ r.op = "status" /\ r.id = cl[c].id
    BY <2>2 DEF Request
  <2> HIDE DEF r
  <2>4. Moves(c, new, "status", r, IF cl[c].cut THEN "fail" ELSE "none") /\ new.want = cl[c].want
    BY <2>3, SendingFacts DEF Places
  <2> HIDE DEF new
  <2>5. c \in Callers /\ c \notin Ctls
    BY <1>2, SdkAssumption DEF Callers
  <2>6. cl'[c] = new => Tame(c)
    BY <1>0, <1>2, <2>2, <2>3, <2>4, <2>5 DEF Moves, Tame, Flow, Holding, Trusting, Cleaned
  <2> QED
    BY <2>1, <2>6, TameStep
<1>3. CASE cl[c].ans = "created" /\ c \notin Users
  <2>1. Step(c, [cl[c] EXCEPT !.pc = "fn", !.req = NoReq, !.ans = "none"])
    BY <1>3 DEF Created
  <2>2. Trusting(c)
    BY <1>0, <1>3 DEF Trusting, Holding
  <2>3. cl'[c] = [cl[c] EXCEPT !.pc = "fn", !.req = NoReq, !.ans = "none"] => Tame(c)
    BY <1>0, <2>2, FnTame
  <2> QED
    BY <2>1, <2>3, TameStep
<1> QED
  BY <1>1, <1>2, <1>3

\* A caller that holds its timeshift sends the delete.
LEMMA DeleteTame ==
    ASSUME TypeOK, Inv, NEW c \in Callers, Holding(c), NEW p \in {"abort", "delete"}, NEW a \in {"none", "fail"},
           Moves(c, cl'[c], p, DeleteReq(c), a)
    PROVE  Tame(c)
<1>1. c \in Clients /\ c \notin Ctls /\ cl[c].era \in Int
  BY ClientFields, SdkAssumption DEF Callers, Clients
<1>2. DeleteReq(c).op = "delete" /\ DeleteReq(c).id = cl[c].id
  BY <1>1, DeleteReqFacts
<1> QED
  BY <1>1, <1>2 DEF Moves, Tame, Flow, Holding, Trusting, Cleaned

LEMMA SendDelete ==
    ASSUME TypeOK, Inv, NEW c \in Callers, Holding(c), NEW bad \in BOOLEAN,
           cl'[c] = [Sending(c, "delete", DeleteReq(c)) EXCEPT !.bad = bad]
    PROVE  Tame(c)
<1> DEFINE x == Sending(c, "delete", DeleteReq(c))
           a == IF cl[c].cut THEN "fail" ELSE "none"
<1>0. c \in Clients
  BY DEF Callers, Clients
<1>1. DeleteReq(c) \in Request
  BY <1>0, DeleteReqFacts
<1>2. Moves(c, x, "delete", DeleteReq(c), a)
  BY <1>0, <1>1, SendingFacts DEF Places
<1>3. a \in {"none", "fail"}
  OBVIOUS
<1> HIDE DEF x, a
<1>4. Moves(c, [x EXCEPT !.bad = bad], "delete", DeleteReq(c), a)
  BY <1>2 DEF Moves, Client
<1>5. Moves(c, cl'[c], "delete", DeleteReq(c), a)
  BY <1>4 DEF x
<1> QED
  BY <1>3, <1>5, DeleteTame

LEMMA ActiveKeeps ==
    ASSUME TypeOK, Inv, NEW c \in Clients, Active(c)
    PROVE  TypeOK' /\ Inv'
<1>0. cl[c].pc = "status" /\ cl[c].ans # "none" /\ c \in Callers /\ Flow(c)
  BY DEF Active, Inv, FlowInv, CtlInv, Clients, Callers
<1>1. CASE cl[c].ans = "ok"
  <2>1. Step(c, [cl[c] EXCEPT !.pc = "fn", !.req = NoReq, !.ans = "none"])
    BY <1>1 DEF Active
  <2>2. Trusting(c)
    BY <1>0, <1>1 DEF Trusting, Holding
  <2>3. cl'[c] = [cl[c] EXCEPT !.pc = "fn", !.req = NoReq, !.ans = "none"] => Tame(c)
    BY <1>0, <2>2, FnTame
  <2> QED
    BY <2>1, <2>3, TameStep
<1>2. CASE cl[c].ans # "ok"
  <2> DEFINE a == IF cl[c].cut THEN "fail" ELSE "none"
  <2>1. Step(c, Sending(c, "abort", DeleteReq(c)))
    BY <1>2 DEF Active
  <2>2. DeleteReq(c) \in Request
    BY DeleteReqFacts
  <2>3. Moves(c, Sending(c, "abort", DeleteReq(c)), "abort", DeleteReq(c), a)
    BY <2>2, SendingFacts DEF Places
  <2>4. a \in {"none", "fail"} /\ Holding(c)
    BY <1>0 DEF Holding
  <2> HIDE DEF a
  <2>5. cl'[c] = Sending(c, "abort", DeleteReq(c)) => Tame(c)
    BY <1>0, <2>3, <2>4, DeleteTame
  <2> QED
    BY <2>1, <2>5, TameStep
<1> QED
  BY <1>1, <1>2

LEMMA AbortedKeeps ==
    ASSUME TypeOK, Inv, NEW c \in Clients, Aborted(c)
    PROVE  TypeOK' /\ Inv'
<1>1. Step(c, Returning(c, TRUE))
  BY DEF Aborted
<1>2. cl'[c] = Returning(c, TRUE) => Tame(c)
  BY ReturnTame
<1> QED
  BY <1>1, <1>2, TameStep

LEMMA FnReturnsKeeps ==
    ASSUME TypeOK, Inv, NEW c \in Callers, NEW bad \in BOOLEAN, FnReturns(c, bad)
    PROVE  TypeOK' /\ Inv'
<1>0. c \in Clients /\ Holding(c)
  BY DEF FnReturns, Holding, Callers, Clients
<1>1. Step(c, [Sending(c, "delete", DeleteReq(c)) EXCEPT !.bad = bad])
  BY DEF FnReturns
<1>2. cl'[c] = [Sending(c, "delete", DeleteReq(c)) EXCEPT !.bad = bad] => Tame(c)
  BY <1>0, SendDelete
<1> QED
  BY <1>0, <1>1, <1>2, TameStep

LEMMA FnPanicsKeeps ==
    ASSUME TypeOK, Inv, NEW c \in Callers, FnPanics(c)
    PROVE  TypeOK' /\ Inv'
<1>0. c \in Clients /\ c \notin Ctls /\ cl[c].pc = "fn" /\ Holding(c) /\ Flow(c)
  BY SdkAssumption DEF FnPanics, Holding, Callers, Clients, Inv, FlowInv
<1>1. CASE c \in Tests
  <2>1. Step(c, [Sending(c, "delete", DeleteReq(c)) EXCEPT !.bad = TRUE])
    BY <1>1 DEF FnPanics
  <2>2. cl'[c] = [Sending(c, "delete", DeleteReq(c)) EXCEPT !.bad = TRUE] => Tame(c)
    BY <1>0, SendDelete
  <2> QED
    BY <1>0, <2>1, <2>2, TameStep
<1>2. CASE c \notin Tests
  <2> DEFINE new == [cl[c] EXCEPT !.pc = "died"]
  <2>1. Step(c, new)
    BY <1>2 DEF FnPanics
  <2>2. cl[c] \in Client /\ cl[c].era \in Int
    BY <1>0, ClientFields
  <2>3. /\ new \in Client /\ new.pc = "died" /\ new.id = cl[c].id /\ new.era = cl[c].era /\ new.req = cl[c].req
    BY <2>2 DEF Client
  <2> HIDE DEF new
  <2>4. cl'[c] = new => Tame(c)
    BY <1>0, <2>2, <2>3 DEF Tame, Flow, Holding, Trusting, Cleaned
  <2> QED
    BY <1>0, <2>1, <2>4, TameStep
<1> QED
  BY <1>1, <1>2

LEMMA DeletedKeeps ==
    ASSUME TypeOK, Inv, NEW c \in Clients, Deleted(c)
    PROVE  TypeOK' /\ Inv'
<1>0. cl[c].pc = "delete" /\ cl[c].bad \in BOOLEAN
  BY ClientFields DEF Deleted
<1> DEFINE good == IF c \in Tests THEN {"ok", "notFound"} ELSE {"ok"}
           bad == cl[c].bad \/ cl[c].ans \notin good
<1>1. Step(c, Returning(c, bad)) /\ bad \in BOOLEAN
  BY DEF Deleted
<1>2. ~bad => Cleaned(c)
  BY <1>0 DEF Cleaned
<1> HIDE DEF bad
<1>3. cl'[c] = Returning(c, bad) => Tame(c)
  BY <1>1, <1>2, ReturnTame
<1> QED
  BY <1>1, <1>3, TameStep

LEMMA CtlEndKeeps ==
    ASSUME TypeOK, Inv, NEW c \in Clients, CtlEnd(c)
    PROVE  TypeOK' /\ Inv'
<1>0. cl[c].pc = "ctl" /\ c \notin Callers
  BY DEF CtlEnd, Inv, FlowInv, Flow
<1> DEFINE bad == cl[c].ans \notin {"created", "ok"}
<1>1. Step(c, Returning(c, bad)) /\ bad \in BOOLEAN
  BY DEF CtlEnd
<1> HIDE DEF bad
<1>2. cl'[c] = Returning(c, bad) => Tame(c)
  BY <1>0, <1>1, ReturnTame
<1> QED
  BY <1>1, <1>2, TameStep

LEMMA CancelKeeps ==
    ASSUME TypeOK, Inv, NEW c \in Callers, Cancel(c)
    PROVE  TypeOK' /\ Inv'
<1>0. c \in Clients /\ c \notin Ctls /\ Flow(c)
  BY SdkAssumption DEF Callers, Clients, Inv, FlowInv
<1> DEFINE new == [cl[c] EXCEPT !.cut = TRUE]
<1>1. Step(c, new)
  BY DEF Cancel
<1>2. cl[c] \in Client /\ cl[c].era \in Int
  BY <1>0, ClientFields
<1>3. /\ new \in Client /\ new.pc = cl[c].pc /\ new.id = cl[c].id /\ new.era = cl[c].era /\ new.req = cl[c].req
      /\ new.ans = cl[c].ans /\ new.want = cl[c].want /\ new.bad = cl[c].bad
  BY <1>2 DEF Client
<1> HIDE DEF new
<1>4. cl'[c] = new => Tame(c)
  BY <1>0, <1>2, <1>3 DEF Tame, Flow, Holding, Trusting, Cleaned
<1> QED
  BY <1>0, <1>1, <1>4, TameStep

LEMMA FailKeeps ==
    ASSUME TypeOK, Inv, NEW c \in Clients, Fail(c)
    PROVE  TypeOK' /\ Inv'
<1>0. /\ cl[c] \in Client /\ cl[c].era \in Int /\ cl[c].ans = "none" /\ cl[c].req # NoReq
      /\ c \in Callers => Flow(c)
  BY ClientFields DEF Fail, Waiting, Inv, FlowInv
<1> DEFINE new == [cl[c] EXCEPT !.ans = "fail"]
<1>1. cl' = [cl EXCEPT ![c] = new] /\ cl \in [Clients -> Client]
  BY DEF Fail, TypeOK
<1>2. cl'[c] = new /\ \A d \in Clients : d # c => cl'[d] = cl[d]
  BY <1>1
<1>3. used \in [lost : 0 .. MaxLost, restarts : 0 .. MaxRestarts] /\ MaxLost \in Nat
  BY SdkAssumption DEF TypeOK
<1>4. used'.restarts = used.restarts /\ used' \in [lost : 0 .. MaxLost, restarts : 0 .. MaxRestarts]
  BY <1>3 DEF Fail
<1>5. OnlyClient(c)
  BY <1>2, <1>4 DEF Fail, OnlyClient, regVars
<1>6. /\ new \in Client /\ new.pc = cl[c].pc /\ new.id = cl[c].id /\ new.era = cl[c].era /\ new.req = cl[c].req
      /\ new.ans = "fail" /\ new.want = cl[c].want /\ new.bad = cl[c].bad
  BY <1>0 DEF Client
<1> HIDE DEF new
<1>7. c \in Ctls => cl[c].pc \in {"idle", "ctl", "done", "died"}
  BY DEF Inv, CtlInv
<1>8. Tame(c)
  BY <1>0, <1>2, <1>6, <1>7 DEF Tame, Flow, Holding, Trusting, Cleaned
<1>9. cl' = [cl EXCEPT ![c] = cl'[c]]
  BY <1>1, <1>2
<1> QED
  BY <1>5, <1>8, <1>9, ClientMove

LEMMA IdleType ==
    ASSUME next \in Nat
    PROVE  Idle \in Client /\ Idle.pc = "idle" /\ Idle.id = 0 /\ Idle.era = 0 /\ Idle.req = NoReq
<1>1. NoReq \in Request /\ NoReq.clock \in Settings /\ MaxRestarts \in Nat
  BY NoReqType, NoReqFacts, SdkAssumption
<1>2. ASSUME NEW q \in Request, NEW k \in Settings,
             NEW x, x = [pc |-> "idle", id |-> 0, want |-> k, req |-> q, ans |-> "none",
                         cut |-> FALSE, bad |-> FALSE, era |-> 0]
      PROVE  x \in Client /\ x.pc = "idle" /\ x.id = 0 /\ x.era = 0 /\ x.req = q
  BY <1>1, <1>2 DEF Client
<1> QED
  BY <1>1, <1>2, Zenon DEF Idle

LEMMA DieKeeps ==
    ASSUME TypeOK, Inv, NEW c \in Clients, Die(c)
    PROVE  TypeOK' /\ Inv'
<1>0. cl[c] \in Client /\ cl[c].era \in 0 .. MaxRestarts /\ cl[c].id \in 0 .. next /\ next \in Nat
  BY ClientFields
<1> DEFINE new == [Idle EXCEPT !.pc = "died", !.id = cl[c].id]
<1>1. cl' = [cl EXCEPT ![c] = new] /\ cl \in [Clients -> Client]
  BY DEF Die, TypeOK
<1>2. cl'[c] = new /\ \A d \in Clients : d # c => cl'[d] = cl[d]
  BY <1>1
<1>3. used \in [lost : 0 .. MaxLost, restarts : 0 .. MaxRestarts] /\ MaxLost \in Nat /\ used.lost < MaxLost
  BY SdkAssumption DEF TypeOK, Die
<1>4. used'.restarts = used.restarts /\ used' \in [lost : 0 .. MaxLost, restarts : 0 .. MaxRestarts]
  BY <1>3 DEF Die
<1>5. OnlyClient(c)
  BY <1>2, <1>4 DEF Die, OnlyClient, regVars
<1>6. NoReq \in Request /\ NoReq.clock \in Settings /\ MaxRestarts \in Nat
  BY <1>0, NoReqType, NoReqFacts, SdkAssumption
<1>7. new \in Client /\ new.pc = "died" /\ new.id = cl[c].id /\ new.era = 0 /\ new.req = NoReq
  <2>1. Idle \in Client /\ Idle.era = 0 /\ Idle.req = NoReq
    BY <1>0, IdleType
  <2> QED
    BY <1>0, <2>1 DEF Client
<1> HIDE DEF new
<1>8. Tame(c)
  BY <1>0, <1>2, <1>7, NoReqFacts DEF Tame, Flow, Holding, Trusting, Cleaned
<1>9. cl' = [cl EXCEPT ![c] = cl'[c]]
  BY <1>1, <1>2
<1> QED
  BY <1>5, <1>8, <1>9, ClientMove

(***************************************************************************)
(* faketimectl.                                                            *)
(***************************************************************************)
LEMMA CtlRequestFacts ==
    ASSUME TypeOK, NEW r \in CtlRequests
    PROVE  /\ r \in Request
           /\ r.op \in {"create", "update", "advance", "delete"}
           /\ r.op # "create" => r.id # 0
<1>0. NoReq \in Request /\ next \in Nat /\ NoReq.id = 0
  BY NoReqType, NoReqFacts DEF TypeOK, RegistryTypeOK
<1>1. CASE \E k \in Wanted, ttl \in BOOLEAN : r = CtlCreateReq(k, ttl)
  <2>1. PICK k \in Wanted, ttl \in BOOLEAN : r = CtlCreateReq(k, ttl)
    BY <1>1
  <2>2. Wire(k) \in Settings
    BY SdkAssumption
  <2> QED
    BY <1>0, <2>1, <2>2 DEF Request, CtlCreateReq
<1>2. CASE \E id \in 1 .. next, k \in Wanted : r = UpdateReq(id, k)
  <2>1. PICK id \in 1 .. next, k \in Wanted : r = UpdateReq(id, k)
    BY <1>2
  <2>2. Wire(k) \in Settings /\ id \in 0 .. next /\ id # 0
    BY <1>0, SdkAssumption
  <2> QED
    BY <1>0, <2>1, <2>2 DEF Request, UpdateReq
<1>3. CASE \E id \in 1 .. next : r = AdvanceReq(id)
  <2>1. PICK id \in 1 .. next : r = AdvanceReq(id)
    BY <1>3
  <2>2. id \in 0 .. next /\ id # 0
    BY <1>0
  <2> QED
    BY <1>0, <2>1, <2>2 DEF Request, AdvanceReq
<1>4. CASE \E id \in 1 .. next : r = CtlDeleteReq(id)
  <2>1. PICK id \in 1 .. next : r = CtlDeleteReq(id)
    BY <1>4
  <2>2. id \in 0 .. next /\ id # 0
    BY <1>0
  <2> QED
    BY <1>0, <2>1, <2>2 DEF Request, CtlDeleteReq
<1>5. \/ \E k \in Wanted, ttl \in BOOLEAN : r = CtlCreateReq(k, ttl)
      \/ \E id \in 1 .. next, k \in Wanted : r = UpdateReq(id, k)
      \/ \E id \in 1 .. next : r = AdvanceReq(id)
      \/ \E id \in 1 .. next : r = CtlDeleteReq(id)
  BY DEF CtlRequests
<1> QED
  BY <1>1, <1>2, <1>3, <1>4, <1>5

\* More ids are named by faketimectl: everything that is promised is promised
\* of fewer timeshifts.
LEMMA CtlBeginKeeps ==
    ASSUME TypeOK, Inv, NEW c \in Ctls, NEW r \in CtlRequests, CtlBegin(c, r)
    PROVE  TypeOK' /\ Inv'
<1>0. c \in Clients /\ c \notin Callers /\ Callers \subseteq Clients /\ cl[c].pc = "idle"
  BY SdkAssumption DEF Callers, Clients, CtlBegin
<1>1. r \in Request /\ r.op \in {"create", "update", "advance", "delete"} /\ (r.op # "create" => r.id # 0)
  BY CtlRequestFacts
<1>2. next \in Nat /\ r.id \in 0 .. next
  BY <1>1 DEF TypeOK, RegistryTypeOK, Request
<1> DEFINE a == IF cl[c].cut THEN "fail" ELSE "none"
           new == Sending(c, "ctl", r)
<1>3. cl' = [cl EXCEPT ![c] = new] /\ cl \in [Clients -> Client]
  BY DEF CtlBegin, TypeOK
<1>4. Moves(c, new, "ctl", r, a)
  BY <1>0, <1>1, SendingFacts DEF Places
<1> HIDE DEF new, a
<1>5. cl'[c] = new /\ \A d \in Clients : d # c => cl'[d] = cl[d]
  BY <1>0, <1>3
<1>6. /\ UNCHANGED <<shifts, next, stored, drafts, stray, expired, used, scoped>>
      /\ touched' = touched \union ({r.id} \ {0})
  BY DEF CtlBegin, regVars
<1>7. /\ \A d \in Callers : cl'[d] = cl[d]
      /\ \A d \in Callers : Holding(d)' <=> Holding(d)
      /\ \A n \in touched : n \in touched'
      /\ r.op # "create" => r.id \in touched'
  BY <1>0, <1>1, <1>5, <1>6 DEF Holding
<1>8. TypeOK'
  <2>1. RegistryTypeOK'
    BY <1>6 DEF TypeOK, RegistryTypeOK, RegistriesUpTo
  <2>2. Client' = Client /\ Request' = Request
    BY <1>6 DEF Client, Request
  <2>3. cl' \in [Clients -> Client]
    BY <1>0, <1>3, <1>4 DEF Moves
  <2>4. touched' \subseteq 1 .. next
    BY <1>2, <1>6 DEF TypeOK
  <2> QED
    BY <1>6, <2>1, <2>2, <2>3, <2>4 DEF TypeOK
<1>9. RequestInv'
  <2>1. ASSUME NEW q, Permitted(q) PROVE Permitted(q)'
    BY <1>7, <2>1 DEF Permitted
  <2>2. \A q \in stray' : Permitted(q)'
    BY <1>6, <2>1 DEF Inv, RequestInv
  <2>3. ASSUME NEW d \in Clients, d # c PROVE Permitted(cl[d].req)'
    <3>1. Permitted(cl[d].req) /\ cl'[d] = cl[d]
      BY <1>5, <2>3 DEF Inv, RequestInv
    <3> QED
      BY <1>7, <3>1 DEF Permitted
  <2>4. Permitted(cl[c].req)'
    BY <1>1, <1>4, <1>5, <1>7 DEF Permitted, Moves
  <2> QED
    BY <2>2, <2>3, <2>4 DEF RequestInv
<1>10. FlowInv' /\ CtlInv' /\ IdInv' /\ EraInv'
  <2>1. FlowInv'
    BY <1>7 DEF Inv, FlowInv, Flow, Holding
  <2>2. CtlInv'
    BY <1>4, <1>5 DEF Inv, CtlInv, Moves, Clients
  <2>3. IdInv'
    BY <1>7 DEF Inv, IdInv
  <2>4. EraInv'
    BY <1>0, <1>4, <1>5, <1>6 DEF Inv, EraInv, Moves
  <2> QED
    BY <2>1, <2>2, <2>3, <2>4
<1>11. HeldInv'
  BY <1>6, <1>7 DEF Inv, HeldInv, Trusting, Holding
<1>12. ClockInv'
  BY <1>6, <1>7 DEF Inv, ClockInv, Says
<1>13. CleanInv'
  BY <1>6, <1>7 DEF Inv, CleanInv, Cleaned
<1> QED
  BY <1>8, <1>9, <1>10, <1>11, <1>12, <1>13 DEF Inv

(***************************************************************************)
(* The controller answers.                                                 *)
(***************************************************************************)
\* Everything but the client that is answered: what a request does to the
\* timeshifts of the others.
LEMMA EffectKeeps ==
    ASSUME TypeOK, Inv, NEW r \in Request, Permitted(r), NEW a \in Answers, Effect(r, a), NEW c \in Callers
    PROVE  /\ Trusting(c) /\ cl[c].era = used.restarts /\ cl[c].id \notin expired \union touched =>
                 cl[c].id \in DOMAIN shifts'
           /\ Holding(c) /\ cl[c].id \notin touched =>
                 /\ Says(shifts', cl[c].id, Wire(cl[c].want))
                 /\ Says(stored', cl[c].id, Wire(cl[c].want))
                 /\ \A reg \in drafts' : Says(reg, cl[c].id, Wire(cl[c].want))
           /\ Cleaned(c) /\ cl[c].era = used.restarts => cl[c].id \notin DOMAIN shifts'
<1>1. Served(r, a)
  BY EffectFacts DEF TypeOK
<1>2. c \in Clients /\ cl[c].id \in 0 .. next
  BY ClientFields DEF Callers, Clients
<1>3. Holding(c) /\ cl[c].id \notin touched => Same(cl[c].id)
  BY <1>1, <1>2 DEF Served, Permitted
<1>4. Trusting(c) => Holding(c)
  BY DEF Trusting
<1> QED
  BY <1>1, <1>2, <1>3, <1>4 DEF Inv, HeldInv, ClockInv, CleanInv, Says, Same, Served

\* The types survive a request that was served.
LEMMA EffectTypes ==
    ASSUME TypeOK, NEW r \in Request, NEW a \in Answers, Effect(r, a)
    PROVE  /\ RegistryTypeOK' /\ next \in Nat /\ next' \in Nat /\ next <= next'
           /\ \A x \in Client : x \in Client'
           /\ stray \subseteq Request'
           /\ expired \union touched \union scoped' \subseteq 1 .. next'
<1>1. RegistryTypeOK' /\ Served(r, a) /\ scoped' \subseteq scoped \union (1 .. next')
  BY EffectFacts DEF TypeOK
<1>2. next \in Nat /\ next' \in Nat
  BY <1>1 DEF TypeOK, RegistryTypeOK
<1>3. next <= next'
  BY <1>1, <1>2 DEF Served
<1>4. (\A q \in Request : q \in Request') /\ (\A x \in Client : x \in Client')
  BY <1>2, <1>3, TypesGrow
<1>5. expired \union touched \union scoped \subseteq 1 .. next /\ stray \subseteq Request
  BY DEF TypeOK
<1>6. 1 .. next \subseteq 1 .. next'
  BY <1>2, <1>3
<1> QED
  BY <1>1, <1>2, <1>3, <1>4, <1>5, <1>6

LEMMA ServeStrayKeeps ==
    ASSUME TypeOK, Inv, NEW r \in stray, NEW a \in Answers, ServeStray(r, a)
    PROVE  TypeOK' /\ Inv'
<1>0. r \in Request /\ Permitted(r) /\ Effect(r, a)
  BY DEF TypeOK, Inv, RequestInv, ServeStray
<1>1. UNCHANGED <<cl, expired, used, touched>> /\ stray' = stray \ {r}
  BY DEF ServeStray
<1>2. TypeOK'
  BY <1>0, <1>1, EffectTypes DEF TypeOK
<1>3. RequestInv' /\ FlowInv' /\ CtlInv' /\ IdInv' /\ EraInv'
  BY <1>1 DEF Inv, RequestInv, FlowInv, CtlInv, IdInv, EraInv, Permitted, Flow, Holding
<1>4. HeldInv' /\ CleanInv'
  BY <1>0, <1>1, EffectKeeps DEF HeldInv, CleanInv, Trusting, Cleaned, Holding
<1>5. ClockInv'
  BY <1>0, <1>1, EffectKeeps DEF ClockInv, Holding
<1> QED
  BY <1>2, <1>3, <1>4, <1>5 DEF Inv

\* What the answer a makes of client c.
LEMMA ServeStep ==
    ASSUME TypeOK, Inv, NEW c \in Clients, NEW a \in Answers, Serve(c, a)
    PROVE  /\ cl[c].ans = "none" /\ cl[c].req # NoReq /\ cl[c].req \in Request /\ Permitted(cl[c].req)
           /\ Effect(cl[c].req, a) /\ Served(cl[c].req, a)
           /\ cl'[c] \in Client' /\ cl'[c].ans = a
           /\ cl'[c].id = (IF a = "created" THEN next + 1 ELSE cl[c].id)
           /\ cl'[c].era = used.restarts /\ cl'[c].pc = cl[c].pc /\ cl'[c].req = cl[c].req
           /\ cl'[c].want = cl[c].want /\ cl'[c].bad = cl[c].bad
           /\ \A d \in Clients : d # c => cl'[d] = cl[d]
           /\ cl' = [cl EXCEPT ![c] = cl'[c]]
           /\ UNCHANGED <<stray, expired, used, touched>>
<1>1. /\ cl[c].ans = "none" /\ cl[c].req # NoReq /\ cl[c].req \in Request /\ Permitted(cl[c].req)
      /\ Effect(cl[c].req, a) /\ UNCHANGED <<stray, expired, used, touched>>
  BY ClientFields DEF Serve, Waiting, Inv, RequestInv
<1>2. Served(cl[c].req, a)
  BY <1>1, EffectFacts DEF TypeOK
<1>3. /\ next \in Nat /\ next' \in Nat /\ next <= next' /\ (\A x \in Client : x \in Client')
      /\ next' = IF a = "created" THEN next + 1 ELSE next
  BY <1>1, <1>2, EffectTypes DEF Served
<1> DEFINE n == IF a = "created" THEN next' ELSE cl[c].id
           e == used.restarts
           x == [cl[c] EXCEPT !.ans = a, !.id = n, !.era = e]
<1>4. cl' = [cl EXCEPT ![c] = x] /\ cl \in [Clients -> Client]
  BY DEF Serve, TypeOK
<1>5. e \in 0 .. MaxRestarts /\ a \in {"none", "created", "ok", "refused", "notFound", "bad", "fail"}
  BY DEF TypeOK, Answers
<1>6. n \in 0 .. next' /\ n = (IF a = "created" THEN next + 1 ELSE cl[c].id)
  BY <1>3, ClientFields
<1>7. cl[c] \in Client'
  BY <1>3, <1>4
<1> HIDE DEF n, e
<1>8. /\ x \in Client' /\ x.ans = a /\ x.id = n /\ x.era = e /\ x.pc = cl[c].pc /\ x.req = cl[c].req
      /\ x.want = cl[c].want /\ x.bad = cl[c].bad
  BY <1>5, <1>6, <1>7 DEF Client
<1> HIDE DEF x
<1>9. cl'[c] = x /\ (\A d \in Clients : d # c => cl'[d] = cl[d]) /\ cl' = [cl EXCEPT ![c] = cl'[c]]
  BY <1>4
<1> QED
  BY <1>1, <1>2, <1>6, <1>8, <1>9 DEF e

LEMMA ServeKeeps ==
    ASSUME TypeOK, Inv, NEW c \in Clients, NEW a \in Answers, Serve(c, a)
    PROVE  TypeOK' /\ Inv'
<1> DEFINE r == cl[c].req
<1>1. /\ cl[c].ans = "none" /\ r # NoReq /\ r \in Request /\ Permitted(r) /\ Effect(r, a)
      /\ cl'[c] \in Client' /\ cl'[c].ans = a
      /\ cl'[c].id = (IF a = "created" THEN next + 1 ELSE cl[c].id)
      /\ cl'[c].era = used.restarts /\ cl'[c].pc = cl[c].pc /\ cl'[c].req = r
      /\ cl'[c].want = cl[c].want /\ cl'[c].bad = cl[c].bad
  BY ServeStep
<1>2. Served(r, a)
  BY ServeStep
<1>3. /\ \A d \in Clients : d # c => cl'[d] = cl[d]
      /\ cl' = [cl EXCEPT ![c] = cl'[c]]
      /\ UNCHANGED <<stray, expired, used, touched>>
  BY ServeStep
<1>4. /\ next \in Nat /\ Callers \subseteq Clients /\ DOMAIN stored \subseteq 1 .. next
      /\ \A reg \in drafts : DOMAIN reg \subseteq 1 .. next
      /\ \A d \in Clients : cl[d].id \in 0 .. next /\ cl[d].era \in Int
      /\ \A q \in Request : q.id \in 0 .. next
      /\ expired \union touched \subseteq 1 .. next
  BY ClientFields, RegistryFacts DEF TypeOK, RegistryTypeOK, Callers, Clients, Request
<1>5. c \in Callers => /\ Flow(c)
                       /\ cl[c].pc \in {"create", "status", "abort", "delete"}
  <2>1. cl[c].pc \in {"idle", "create", "status", "fn", "abort", "delete", "ctl", "done", "died"}
    BY DEF TypeOK, Client
  <2> QED
    BY <1>1, <2>1 DEF Inv, FlowInv, Flow
<1> HIDE DEF r
<1>6. TypeOK'
  <2>1. cl' \in [Clients -> Client']
    <3>1. cl \in [Clients -> Client] /\ \A x \in Client : x \in Client'
      BY <1>1, EffectTypes DEF TypeOK
    <3> QED
      BY <1>1, <1>3, <3>1
  <2> QED
    BY <1>1, <1>3, <2>1, EffectTypes DEF TypeOK
<1>7. \A d \in Callers : Holding(d)' => (Holding(d) /\ cl'[d].id = cl[d].id) \/ cl'[d].id = next + 1
  BY <1>1, <1>2, <1>3, <1>4, <1>5 DEF Holding, Served, Flow, r
<1>8. RequestInv'
  <2>1. ASSUME NEW q \in Request, Permitted(q) PROVE Permitted(q)'
    BY <1>3, <1>4, <1>7, <2>1 DEF Permitted
  <2>2. \A q \in stray' : Permitted(q)'
    BY <1>3, <2>1 DEF Inv, RequestInv, TypeOK
  <2>3. ASSUME NEW d \in Clients PROVE Permitted(cl[d].req)'
    <3>1. Permitted(cl[d].req) /\ cl[d].req \in Request /\ cl'[d].req = cl[d].req
      BY <1>1, <1>3, ClientFields DEF Inv, RequestInv, r
    <3> QED
      BY <1>3, <1>4, <1>7, <3>1 DEF Permitted
  <2> QED
    BY <2>2, <2>3 DEF RequestInv
<1>9. FlowInv'
  <2>1. c \in Callers => Flow(c)'
    BY <1>1, <1>2, <1>4, <1>5 DEF Flow, Holding, Served, r
  <2>2. \A d \in Callers : d # c => Flow(d)'
    BY <1>3, <1>4 DEF Inv, FlowInv, Flow, Holding
  <2> QED
    BY <2>1, <2>2 DEF FlowInv
<1>10. CtlInv'
  BY <1>1, <1>3 DEF Inv, CtlInv, Clients
<1>11. IdInv'
  BY <1>1, <1>3, <1>4 DEF Inv, IdInv
<1>12. EraInv'
  <2>1. used.restarts \in Int
    BY DEF TypeOK
  <2> QED
    BY <1>1, <1>3, <2>1 DEF Inv, EraInv
<1>13. ASSUME NEW d \in Callers, d # c
       PROVE  /\ (Trusting(d) /\ cl[d].era = used.restarts /\ cl[d].id \notin expired \union touched)' =>
                     cl'[d].id \in DOMAIN shifts'
              /\ (Holding(d) /\ cl[d].id \notin touched)' =>
                    /\ Says(shifts', cl'[d].id, Wire(cl'[d].want))
                    /\ Says(stored', cl'[d].id, Wire(cl'[d].want))
                    /\ \A reg \in drafts' : Says(reg, cl'[d].id, Wire(cl'[d].want))
              /\ (Cleaned(d) /\ cl[d].era = used.restarts)' => cl'[d].id \notin DOMAIN shifts'
  <2>1. cl'[d] = cl[d] /\ expired' = expired /\ touched' = touched /\ used' = used
    BY <1>3, <1>4, <1>13
  <2> QED
    BY <1>1, <2>1, EffectKeeps DEF Trusting, Holding, Cleaned
<1>14. HeldInv'
  <2>1. c \in Callers /\ (Trusting(c) /\ cl[c].era = used.restarts /\ cl[c].id \notin expired \union touched)' =>
                     cl'[c].id \in DOMAIN shifts'
    BY <1>1, <1>2, <1>4, <1>5 DEF Trusting, Holding, Served, Same, Flow, r
  <2> QED
    BY <1>13, <2>1 DEF HeldInv
<1>15. ClockInv'
  <2>1. CASE c \in Callers /\ a = "created" /\ cl[c].pc = "create"
    <3>1. /\ Says(shifts', cl'[c].id, Wire(cl'[c].want))
          /\ Says(stored', cl'[c].id, Wire(cl'[c].want))
          /\ \A reg \in drafts' : Says(reg, cl'[c].id, Wire(cl'[c].want))
      BY <1>1, <1>2, <1>4, <1>5, <2>1 DEF Says, Served, Flow, r
    <3> QED
      BY <1>13, <3>1 DEF ClockInv
  <2>2. CASE c \in Callers /\ cl[c].pc = "status"
    <3>1. a # "created" /\ Holding(c) /\ cl'[c].id = cl[c].id
      BY <1>1, <1>2, <1>5, <2>2 DEF Served, Flow, Holding, r
    <3>2. cl[c].id \notin touched =>
          /\ Says(shifts', cl'[c].id, Wire(cl'[c].want))
          /\ Says(stored', cl'[c].id, Wire(cl'[c].want))
          /\ \A reg \in drafts' : Says(reg, cl'[c].id, Wire(cl'[c].want))
      BY <1>1, <2>2, <3>1, EffectKeeps
    <3> QED
      BY <1>3, <1>13, <3>1, <3>2 DEF ClockInv
  <2>3. CASE c \in Callers => ~Holding(c)'
    BY <1>13, <2>3 DEF ClockInv
  <2> QED
    BY <1>1, <1>5, <2>1, <2>2, <2>3 DEF Holding
<1>16. CleanInv'
  <2>1. c \in Callers /\ (Cleaned(c) /\ cl[c].era = used.restarts)' => cl'[c].id \notin DOMAIN shifts'
    BY <1>1, <1>2, <1>5 DEF Cleaned, Served, Flow, r
  <2> QED
    BY <1>13, <2>1 DEF CleanInv
<1> QED
  BY <1>6, <1>8, <1>9, <1>10, <1>11, <1>12, <1>14, <1>15, <1>16 DEF Inv

(***************************************************************************)
(* Lost requests, the sweeper, saves and restarts.                         *)
(***************************************************************************)
LEMMA DropStrayKeeps ==
    ASSUME TypeOK, Inv, NEW r \in stray, DropStray(r)
    PROVE  TypeOK' /\ Inv'
<1>1. /\ UNCHANGED <<shifts, next, stored, drafts, cl, expired, used, touched, scoped>>
      /\ stray' = stray \ {r}
  BY DEF DropStray, regVars
<1>2. TypeOK'
  BY <1>1 DEF TypeOK, RegistryTypeOK, RegistriesUpTo, Client, Request
<1>3. RequestInv' /\ FlowInv' /\ CtlInv' /\ IdInv' /\ EraInv'
  BY <1>1 DEF Inv, RequestInv, FlowInv, CtlInv, IdInv, EraInv, Permitted, Flow, Holding
<1>4. HeldInv' /\ CleanInv' /\ ClockInv'
  BY <1>1 DEF Inv, HeldInv, CleanInv, ClockInv, Trusting, Cleaned, Holding, Says
<1> QED
  BY <1>2, <1>3, <1>4 DEF Inv

\* A step of the controller that leaves clients and requests alone keeps what
\* is about them.
LEMMA ClientsKept ==
    ASSUME Inv, UNCHANGED <<cl, stray, used, touched>>
    PROVE  RequestInv' /\ FlowInv' /\ CtlInv' /\ IdInv' /\ EraInv'
  BY DEF Inv, RequestInv, FlowInv, CtlInv, IdInv, EraInv, Permitted, Flow, Holding

LEMMA ExpireKeeps ==
    ASSUME TypeOK, Inv, NEW id \in DOMAIN shifts, Expire(id)
    PROVE  TypeOK' /\ Inv'
<1>1. /\ UNCHANGED <<shifts, next, stored, drafts, cl, stray, used, touched, scoped>>
      /\ expired' = expired \union {id}
  BY DEF Expire, regVars
<1>2. id \in 1 .. next
  BY RegistryFacts DEF TypeOK, RegistryTypeOK
<1>3. TypeOK'
  BY <1>1, <1>2 DEF TypeOK, RegistryTypeOK, RegistriesUpTo, Client, Request
<1>4. RequestInv' /\ FlowInv' /\ CtlInv' /\ IdInv' /\ EraInv'
  BY <1>1, ClientsKept
<1>5. HeldInv' /\ CleanInv' /\ ClockInv'
  BY <1>1 DEF Inv, HeldInv, CleanInv, ClockInv, Trusting, Cleaned, Holding, Says
<1> QED
  BY <1>3, <1>4, <1>5 DEF Inv

LEMMA SweepKeeps ==
    ASSUME TypeOK, Inv, Sweep
    PROVE  TypeOK' /\ Inv'
<1>1. UNCHANGED <<cl, stray, expired, used, touched, scoped>> /\ Remove(expired)
  BY DEF Sweep, sdkVars
<1>2. /\ RegistryTypeOK'
      /\ next' = next /\ stored' = stored /\ drafts' = drafts
      /\ DOMAIN shifts' = DOMAIN shifts \ expired
      /\ \A n \in DOMAIN shifts' : shifts'[n] = shifts[n]
  BY <1>1, RemoveFacts DEF TypeOK
<1>3. TypeOK'
  BY <1>1, <1>2 DEF TypeOK, Client, Request
<1>4. RequestInv' /\ FlowInv' /\ CtlInv' /\ IdInv' /\ EraInv'
  BY <1>1, ClientsKept
<1>5. HeldInv' /\ CleanInv'
  BY <1>1, <1>2 DEF Inv, HeldInv, CleanInv, Trusting, Cleaned, Holding
<1>6. ClockInv'
  BY <1>1, <1>2 DEF Inv, ClockInv, Holding, Says
<1> QED
  BY <1>3, <1>4, <1>5, <1>6 DEF Inv

LEMMA SaveKeeps ==
    ASSUME TypeOK, Inv, Save
    PROVE  TypeOK' /\ Inv'
<1>1. UNCHANGED <<cl, stray, expired, used, touched, scoped, shifts, next>>
  BY DEF Save, sdkVars, BeginSave, EndSave, FailSave
<1>2. stored' \in {stored} \union drafts /\ drafts' \subseteq drafts \union {shifts}
  BY DEF Save, BeginSave, EndSave, FailSave
<1>3. TypeOK'
  <2>1. RegistryTypeOK'
    BY <1>1, <1>2 DEF TypeOK, RegistryTypeOK, RegistriesUpTo
  <2> QED
    BY <1>1, <2>1 DEF TypeOK, Client, Request
<1>4. RequestInv' /\ FlowInv' /\ CtlInv' /\ IdInv' /\ EraInv'
  BY <1>1, ClientsKept
<1>5. HeldInv' /\ CleanInv'
  BY <1>1 DEF Inv, HeldInv, CleanInv, Trusting, Cleaned, Holding
<1>6. ClockInv'
  BY <1>1, <1>2 DEF Inv, ClockInv, Holding
<1> QED
  BY <1>3, <1>4, <1>5, <1>6 DEF Inv

\* Every call under way fails; what the callers trust was said before.
LEMMA RestartKeeps ==
    ASSUME TypeOK, Inv, ControllerRestart
    PROVE  TypeOK' /\ Inv'
<1>1. /\ shifts' \in {stored, NoShifts} /\ drafts' = {} /\ stored' = stored /\ next' = next
      /\ stray' = {} /\ UNCHANGED <<expired, touched, scoped>>
  BY DEF ControllerRestart, Restart
<1>2. used \in [lost : 0 .. MaxLost, restarts : 0 .. MaxRestarts] /\ used.restarts < MaxRestarts /\ MaxRestarts \in Nat
  BY SdkAssumption DEF ControllerRestart, TypeOK
<1>3. used' \in [lost : 0 .. MaxLost, restarts : 0 .. MaxRestarts] /\ used'.restarts = used.restarts + 1
  BY <1>2 DEF ControllerRestart
<1>4. cl \in [Clients -> Client]
  BY DEF TypeOK
<1>5. ASSUME NEW c \in Clients
      PROVE  /\ cl'[c] \in Client
             /\ cl'[c].pc = cl[c].pc /\ cl'[c].id = cl[c].id /\ cl'[c].era = cl[c].era /\ cl'[c].req = cl[c].req
             /\ cl'[c].want = cl[c].want /\ cl'[c].bad = cl[c].bad
             /\ cl'[c].ans = cl[c].ans \/ (cl'[c].ans = "fail" /\ cl[c].ans = "none")
  <2>1. cl'[c] = IF Waiting(c) THEN [cl[c] EXCEPT !.ans = "fail"] ELSE cl[c]
    BY DEF ControllerRestart
  <2>2. cl[c] \in Client
    BY <1>4
  <2>3. CASE Waiting(c)
    <3>1. cl'[c] = [cl[c] EXCEPT !.ans = "fail"] /\ cl[c].ans = "none"
      BY <2>1, <2>3 DEF Waiting
    <3> QED
      BY <2>2, <3>1 DEF Client
  <2>4. CASE ~Waiting(c)
    BY <2>1, <2>2, <2>4
  <2> QED
    BY <2>3, <2>4
<1>6. /\ Callers \subseteq Clients
      /\ \A c \in Callers : Holding(c)' <=> Holding(c)
      /\ \A c \in Clients : cl[c].era \in Int
  BY <1>5, ClientFields DEF Holding, Callers, Clients
<1>7. TypeOK'
  <2>1. RegistryTypeOK'
    BY <1>1, NoShiftsType DEF TypeOK, RegistryTypeOK, RegistriesUpTo
  <2>2. Client' = Client /\ Request' = Request
    BY <1>1 DEF Client, Request
  <2>3. cl' \in [Clients -> Client]
    BY <1>5 DEF ControllerRestart
  <2> QED
    BY <1>1, <1>3, <2>1, <2>2, <2>3 DEF TypeOK
<1>8. RequestInv'
  <2>1. \A c \in Clients : Permitted(cl[c].req)'
    BY <1>1, <1>5, <1>6 DEF Inv, RequestInv, Permitted
  <2> QED
    BY <1>1, <2>1 DEF RequestInv
<1>9. FlowInv' /\ CtlInv' /\ IdInv'
  BY <1>5, <1>6 DEF Inv, FlowInv, Flow, CtlInv, IdInv, Clients
<1>10. EraInv' /\ \A c \in Clients : cl'[c].era # used'.restarts
  BY <1>2, <1>3, <1>5, <1>6 DEF Inv, EraInv
<1>11. HeldInv' /\ CleanInv'
  BY <1>6, <1>10 DEF HeldInv, CleanInv
<1>12. ClockInv'
  <2>1. DOMAIN NoShifts = {}
    BY DEF NoShifts
  <2> QED
    BY <1>1, <1>5, <1>6, <2>1 DEF Inv, ClockInv, Says
<1> QED
  BY <1>7, <1>8, <1>9, <1>10, <1>11, <1>12 DEF Inv

(***************************************************************************)
(* The theorems.                                                           *)
(***************************************************************************)
LEMMA InitInv ==
    ASSUME Init
    PROVE  TypeOK /\ Inv
<1>1. next = 0 /\ shifts = NoShifts /\ stored = NoShifts /\ drafts = {}
  BY DEF Init, RegistryInit
<1>2. RegistryTypeOK
  BY <1>1, NoShiftsType DEF RegistryTypeOK
<1>3. Idle \in Client /\ Idle.pc = "idle" /\ Idle.id = 0 /\ Idle.era = 0 /\ Idle.req = NoReq
  BY <1>1, IdleType
<1> DEFINE dead == [Idle EXCEPT !.pc = "died"]
<1>4. dead \in Client /\ dead.pc = "died" /\ dead.id = 0 /\ dead.era = 0 /\ dead.req = NoReq
  BY <1>3 DEF Client
<1> HIDE DEF dead
<1>5. PICK away \in SUBSET Clients : cl = [c \in Clients |-> IF c \in away THEN dead ELSE Idle]
  BY DEF Init, dead
<1>6. \A c \in Clients : cl[c] \in {dead, Idle}
  BY <1>5
<1>7. \A c \in Clients : /\ cl[c] \in Client /\ cl[c].pc \in {"idle", "died"} /\ cl[c].id = 0
                          /\ cl[c].era = 0 /\ cl[c].req = NoReq
  BY <1>3, <1>4, <1>6
<1>8. cl \in [Clients -> Client]
  BY <1>5, <1>7
<1>9. stray = {} /\ expired = {} /\ touched = {} /\ scoped = {} /\ used = [lost |-> 0, restarts |-> 0]
  BY DEF Init
<1>10. used \in [lost : 0 .. MaxLost, restarts : 0 .. MaxRestarts] /\ used.restarts = 0
  BY <1>9, SdkAssumption
<1>11. TypeOK
  BY <1>2, <1>8, <1>9, <1>10 DEF TypeOK
<1>12. Callers \subseteq Clients /\ Ctls \subseteq Clients
  BY DEF Callers, Clients
<1>13. RequestInv
  BY <1>7, <1>9, NoReqFacts DEF RequestInv, Permitted
<1>14. FlowInv /\ CtlInv /\ IdInv /\ EraInv
  BY <1>7, <1>10, <1>12 DEF FlowInv, Flow, Holding, CtlInv, IdInv, EraInv
<1>15. HeldInv /\ ClockInv /\ CleanInv
  BY <1>7, <1>12 DEF HeldInv, ClockInv, CleanInv, Trusting, Holding, Cleaned
<1> QED
  BY <1>11, <1>13, <1>14, <1>15 DEF Inv

LEMMA NextInv ==
    ASSUME TypeOK, Inv, [Next]_vars
    PROVE  TypeOK' /\ Inv'
<1>0. Callers \subseteq Clients /\ Users \subseteq Callers
  BY DEF Callers, Clients
<1>1. CASE \E c \in Users \union Tests, ttl \in BOOLEAN : \E k \in AskedBy(c) : Begin(c, k, ttl)
  BY <1>1, BeginKeeps DEF Callers, AskedBy, Asked
<1>2. CASE \E c \in Users : Cancel(c)
  BY <1>0, <1>2, CancelKeeps
<1>3. CASE \E c \in Users \union Tests : FnPanics(c) \/ \E bad \in BOOLEAN : FnReturns(c, bad)
  BY <1>3, FnPanicsKeeps, FnReturnsKeeps DEF Callers
<1>4. CASE \E c \in Clients : ClientStep(c) \/ Fail(c) \/ Die(c)
  BY <1>4, CreatedKeeps, ActiveKeeps, AbortedKeeps, DeletedKeeps, CtlEndKeeps, ServeKeeps, FailKeeps, DieKeeps
     DEF ClientStep
<1>5. CASE \E c \in Ctls, r \in CtlRequests : CtlBegin(c, r)
  BY <1>5, CtlBeginKeeps
<1>6. CASE \E r \in stray : DropStray(r) \/ \E a \in Answers : ServeStray(r, a)
  BY <1>6, DropStrayKeeps, ServeStrayKeeps
<1>7. CASE \E id \in DOMAIN shifts : Expire(id)
  BY <1>7, ExpireKeeps
<1>8. CASE Sweep \/ Save \/ ControllerRestart
  BY <1>8, SweepKeeps, SaveKeeps, RestartKeeps
<1>9. CASE UNCHANGED vars
  <2>1. UNCHANGED <<shifts, next, stored, drafts, cl, stray, expired, used, touched, scoped>>
    BY <1>9 DEF vars, regVars, sdkVars
  <2>2. TypeOK'
    BY <2>1 DEF TypeOK, RegistryTypeOK, RegistriesUpTo, Client, Request
  <2>3. RequestInv' /\ FlowInv' /\ CtlInv' /\ IdInv' /\ EraInv'
    BY <2>1, ClientsKept
  <2>4. HeldInv' /\ CleanInv' /\ ClockInv'
    BY <2>1 DEF Inv, HeldInv, CleanInv, ClockInv, Trusting, Cleaned, Holding, Says
  <2> QED
    BY <2>2, <2>3, <2>4 DEF Inv
<1> QED
  BY <1>1, <1>2, <1>3, <1>4, <1>5, <1>6, <1>7, <1>8, <1>9 DEF Next

LEMMA Invariants == Spec => [](TypeOK /\ Inv)
<1>1. Init => TypeOK /\ Inv
  BY InitInv
<1>2. (TypeOK /\ Inv) /\ [Next]_vars => (TypeOK /\ Inv)'
  BY NextInv
<1> QED
  BY <1>1, <1>2, PTL DEF Spec

\* Type correctness of the clients, the requests on the wire and the registry.
THEOREM TypeCorrect == Spec => []TypeOK
  BY Invariants, PTL

\* While the callback of WithTime, WithFrozenTime or WithTimeT runs, the
\* controller holds its timeshift, in the mode asked for and at the instant that
\* was sent, whatever the other callers, late requests of dead clients, sweeps
\* and saves do.
THEOREM FnHeldHolds == Spec => []FnHeld
<1>1. TypeOK /\ Inv => FnHeld
  <2> SUFFICES ASSUME TypeOK, Inv, NEW c \in Users \union Tests, InScope(c)
               PROVE  /\ cl[c].id \in DOMAIN shifts
                      /\ shifts[cl[c].id].clock = Wire(cl[c].want)
    BY DEF FnHeld
  <2>1. c \in Callers /\ Holding(c) /\ Trusting(c)
    BY DEF Callers, Holding, Trusting, InScope
  <2>2. cl[c].id \in DOMAIN shifts
    BY <2>1 DEF Inv, HeldInv, InScope
  <2> QED
    BY <2>1, <2>2 DEF Inv, ClockInv, Says, InScope
<1> QED
  BY <1>1, Invariants, PTL

\* WithTime returns nil, or a WithTimeT test passes, only when the timeshift is
\* out of the registry, until a restart goes back to an older saved copy.
THEOREM NilMeansCleanHolds == Spec => []NilMeansClean
<1>1. Inv => NilMeansClean
  BY DEF Inv, CleanInv, Cleaned, NilMeansClean, Callers
<1> QED
  BY <1>1, Invariants, PTL
=============================================================================
