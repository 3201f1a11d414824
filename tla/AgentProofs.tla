---------------------------- MODULE AgentProofs ----------------------------
(***************************************************************************)
(* Theorems about Agent.tla, for any containers, RPC goroutines, settings  *)
(* and bounds: what the RPCs of src/cmd/agent/main.go keep when they       *)
(* interleave on the map of handles and on the targets' pages, what drain  *)
(* leaves behind, and that the agent is the one of Cluster.tla.            *)
(***************************************************************************)
EXTENDS Agent, SequenceTheorems, TLAPS

(***************************************************************************)
(* The inductive invariants.                                               *)
(***************************************************************************)
WritePC == {"load", "bump", "write", "note"}

\* Every page is reached by a filed handle, by the one RPC that is about to
\* file it, or is lost; RPCs write through filed handles, and none is in
\* flight once the agent drains.
MapInv ==
    /\ TypeOK
    /\ \A r \in Rpcs :
          /\ rpc[r].pc = "inject" => rpc[r].c \in Containers
          /\ rpc[r].pc = "file" => /\ rpc[r].h \in DOMAIN pages
                                   /\ rpc[r].h \notin filed
                                   /\ \A q \in Rpcs \ {r} : rpc[q].pc = "file" => rpc[q].h # rpc[r].h
          /\ rpc[r].pc \in WritePC => rpc[r].h \in filed
          /\ phase \notin {"serving", "stopping"} => rpc[r].pc = "idle"
    /\ phase = "down" => filed = {}
    /\ \A c \in Containers : up[c] \/ inc[c] < MaxRestarts
    /\ \A h \in DOMAIN pages : h \in filed \/ h \in lost \/ \E r \in Rpcs : rpc[r].pc = "file" /\ rpc[r].h = h

Same(h) == objs[h].last = pages[h].clock.at /\ objs[h].gen = pages[h].gen

Writes(r, h) == rpc[r].pc \in WritePC /\ rpc[r].h = h

WriterAgrees(r) ==
    LET h == rpc[r].h IN
    \/ rpc[r].pc = "load" /\ Same(h)
    \/ rpc[r].pc = "bump" /\ Same(h) /\ rpc[r].gen = objs[h].gen + 1
    \/ /\ rpc[r].pc = "write" /\ objs[h].last = pages[h].clock.at
       /\ objs[h].gen = pages[h].gen + 1 /\ rpc[r].gen = objs[h].gen
    \/ /\ rpc[r].pc = "note" /\ pages[h].clock = rpc[r].clock
       /\ objs[h].gen = pages[h].gen

\* On a handle that two writers never shared there is one writer at a time,
\* and how far it is tells how the entry differs from the page.
StatusInv ==
    /\ \A r \in Rpcs : rpc[r].pc = "file" => Same(rpc[r].h)
    /\ \A h \in filed : phase \in {"serving", "stopping"} /\ h \notin crossed =>
          /\ (\A r \in Rpcs : ~Writes(r, h)) => Same(h)
          /\ \A r \in Rpcs : Writes(r, h) =>
                /\ WriterAgrees(r)
                /\ \A q \in Rpcs \ {r} : ~Writes(q, h)

\* What drain has been through is real or lost.
DrainInv ==
    /\ phase \in {"draining", "drained"} =>
          \A h \in filed : h \in snap \/ h \in lost \/ pages[h].clock = Real
    /\ phase = "drained" => snap = {}

\* A handle that this process has lost is told from the earlier processes'.
LifeInv ==
    \A h \in DOMAIN pages : /\ objs[h].life <= used.restarts
                            /\ phase = "down" => objs[h].life < used.restarts

(***************************************************************************)
(* The memory of the targets, the entries and the goroutines.              *)
(***************************************************************************)
Setting == Settings \union {Real}

\* A setting has an integer position.
LEMMA SettingAt == \A k \in Setting : k.at \in Int
  BY AgentAssumption DEF Setting, Real

\* What the types say of one page, one entry and one goroutine.
LEMMA Facts ==
    ASSUME TypeOK
    PROVE  /\ Len(pages) \in Nat
           /\ DOMAIN pages = 1 .. Len(pages) /\ DOMAIN objs = 1 .. Len(pages)
           /\ \A h \in 1 .. Len(pages) : pages[h] \in Page /\ objs[h] \in HandleEntry
           /\ \A r \in Rpcs : rpc[r] \in Rpc(Len(pages))
           /\ filed \subseteq 1 .. Len(pages)
  BY ElementOfSeq, LenProperties DEF TypeOK

\* A goroutine that has not begun, or has answered.
LEMMA IdleRpc == \A n \in Nat : Idle \in Rpc(n) /\ Idle.pc = "idle"
  BY AgentAssumption DEF Idle, Rpc, Real

\* Mapping a page adds one index and leaves the other pages alone.
LEMMA MappedFacts ==
    ASSUME TypeOK, NEW r \in Rpcs, rpc[r].c \in Containers, Mapped(r)
    PROVE  /\ pages' \in Seq(Page) /\ objs' \in Seq(HandleEntry)
           /\ Len(pages') = Len(pages) + 1 /\ Len(objs') = Len(pages) + 1
           /\ DOMAIN pages' = 1 .. (Len(pages) + 1)
           /\ \A h \in 1 .. Len(pages) : pages'[h] = pages[h] /\ objs'[h] = objs[h]
           /\ pages'[Len(pages) + 1]
                = [c |-> rpc[r].c, inc |-> rpc[r].inc, clock |-> rpc[r].clock, gen |-> 0]
           /\ objs'[Len(pages) + 1] = [last |-> rpc[r].clock.at, gen |-> 0, life |-> used.restarts]
           /\ hook' \in [Containers -> 0 .. Len(pages')]
<1> DEFINE p == [c |-> rpc[r].c, inc |-> rpc[r].inc, clock |-> rpc[r].clock, gen |-> 0]
           o == [last |-> rpc[r].clock.at, gen |-> 0, life |-> used.restarts]
<1>1. rpc[r] \in Rpc(Len(pages)) /\ Len(pages) \in Nat
  BY Facts
<1>2. p \in Page
  BY <1>1 DEF Page, Rpc
<1>3. o \in HandleEntry
  BY <1>1, SettingAt DEF HandleEntry, Rpc, TypeOK, Setting
<1>4. pages \in Seq(Page) /\ objs \in Seq(HandleEntry) /\ Len(objs) = Len(pages)
  BY DEF TypeOK
<1>5. pages' = Append(pages, p) /\ objs' = Append(objs, o)
  BY DEF Mapped
<1> HIDE DEF p, o
<1>6. /\ pages' \in Seq(Page) /\ Len(pages') = Len(pages) + 1
      /\ \A h \in 1 .. Len(pages) : pages'[h] = pages[h]
      /\ pages'[Len(pages) + 1] = p
  BY <1>2, <1>4, <1>5, AppendProperties
<1>7. /\ objs' \in Seq(HandleEntry) /\ Len(objs') = Len(pages) + 1
      /\ \A h \in 1 .. Len(pages) : objs'[h] = objs[h]
      /\ objs'[Len(pages) + 1] = o
  BY <1>3, <1>4, <1>5, AppendProperties
<1>8. hook' \in [Containers -> 0 .. Len(pages')]
  BY <1>1, <1>6 DEF Mapped, TypeOK
<1>9. DOMAIN pages' = 1 .. (Len(pages) + 1)
  BY <1>6, LenProperties
<1> QED
  BY <1>6, <1>7, <1>8, <1>9 DEF p, o

\* A write through a handle changes one page.
LEMMA PageFacts ==
    ASSUME TypeOK, NEW h \in DOMAIN pages, NEW p \in Page, pages' = [pages EXCEPT ![h] = p]
    PROVE  /\ pages' \in Seq(Page) /\ Len(pages') = Len(pages) /\ DOMAIN pages' = DOMAIN pages
           /\ \A j \in DOMAIN pages \ {h} : pages'[j] = pages[j]
           /\ pages'[h] = p
<1>1. /\ pages' \in Seq(Page) /\ Len(pages') = Len(pages)
      /\ \A j \in 1 .. Len(pages) : pages'[j] = IF j = h THEN p ELSE pages[j]
  BY Facts, ExceptSeq DEF TypeOK
<1>2. DOMAIN pages = 1 .. Len(pages) /\ DOMAIN pages' = DOMAIN pages
  BY <1>1, Facts, LenProperties
<1> QED
  BY <1>1, <1>2

\* Writing lastTarget or the generation of a handle changes one entry.
LEMMA EntryFacts ==
    ASSUME TypeOK, NEW h \in DOMAIN pages, NEW e \in HandleEntry, objs' = [objs EXCEPT ![h] = e]
    PROVE  /\ objs' \in Seq(HandleEntry) /\ Len(objs') = Len(pages)
           /\ \A j \in DOMAIN pages \ {h} : objs'[j] = objs[j]
           /\ objs'[h] = e
  BY Facts, ExceptSeq DEF TypeOK

UsedType == [calls : Nat, faults : Nat, restarts : 0 .. MaxAgentRestarts]

\* Counting a call or a fault keeps the counters' type and counts no restart.
LEMMA UsedKept ==
    ASSUME TypeOK
    PROVE  /\ used \in UsedType
           /\ Fault => used' \in UsedType /\ used'.restarts = used.restarts
           /\ Call => used' \in UsedType /\ used'.restarts = used.restarts
<1>1. used \in UsedType
  BY DEF TypeOK, UsedType
<1>2. ASSUME Fault PROVE used' \in UsedType /\ used'.restarts = used.restarts
  BY ONLY <1>1, <1>2 DEF UsedType, Fault
<1>3. ASSUME Call PROVE used' \in UsedType /\ used'.restarts = used.restarts
  BY ONLY <1>1, <1>3 DEF UsedType, Call
<1> QED
  BY <1>1, <1>2, <1>3

\* One goroutine moves, the others stay where they are.
LEMMA RpcTo ==
    ASSUME NEW n \in Nat, rpc \in [Rpcs -> Rpc(n)], NEW m \in Nat, n <= m,
           NEW r \in Rpcs, NEW x \in Rpc(m), rpc' = [rpc EXCEPT ![r] = x]
    PROVE  /\ rpc' \in [Rpcs -> Rpc(m)]
           /\ rpc'[r] = x
           /\ \A q \in Rpcs \ {r} : rpc'[q] = rpc[q]
<1>1. \A q \in Rpcs : rpc[q] \in Rpc(m)
  BY DEF Rpc
<1> QED
  BY <1>1

\* The goroutine answers.
LEMMA Answers ==
    ASSUME TypeOK, NEW r \in Rpcs, rpc' = [rpc EXCEPT ![r] = Idle]
    PROVE  /\ rpc' \in [Rpcs -> Rpc(Len(pages))]
           /\ rpc'[r].pc = "idle"
           /\ \A q \in Rpcs \ {r} : rpc'[q] = rpc[q]
  BY Facts, IdleRpc, RpcTo DEF TypeOK

\* What Inject begins with.
LEMMA InjectFacts ==
    ASSUME TypeOK, NEW r \in Rpcs, NEW c \in Containers, NEW k \in Settings, Inject(r, c, k)
    PROVE  /\ rpc' \in [Rpcs -> Rpc(Len(pages))]
           /\ rpc'[r].pc = "inject" /\ rpc'[r].c = c
           /\ \A q \in Rpcs \ {r} : rpc'[q] = rpc[q]
<1> DEFINE x == [Idle EXCEPT !.pc = "inject", !.c = c, !.inc = inc[c], !.clock = k]
<1>1. Idle \in Rpc(Len(pages)) /\ Len(pages) \in Nat /\ inc[c] \in 0 .. MaxRestarts
  BY Facts, IdleRpc DEF TypeOK
<1>2. x \in Rpc(Len(pages)) /\ x.pc = "inject" /\ x.c = c
  BY <1>1 DEF Rpc
<1>3. rpc' = [rpc EXCEPT ![r] = x]
  BY DEF Inject
<1> HIDE DEF x
<1> QED
  BY <1>1, <1>2, <1>3, RpcTo DEF TypeOK

\* What SetTime and Reset begin with.
LEMMA SetTimeFacts ==
    ASSUME TypeOK, NEW r \in Rpcs, NEW h \in filed, NEW k \in Setting, SetTime(r, h, k)
    PROVE  /\ rpc' \in [Rpcs -> Rpc(Len(pages))]
           /\ rpc'[r].pc = "load" /\ rpc'[r].h = h
           /\ \A q \in Rpcs \ {r} : rpc'[q] = rpc[q]
<1> DEFINE x == [Idle EXCEPT !.pc = "load", !.h = h, !.clock = k]
<1>1. Idle \in Rpc(Len(pages)) /\ Len(pages) \in Nat /\ h \in 1 .. Len(pages)
  BY Facts, IdleRpc
<1>2. x \in Rpc(Len(pages)) /\ x.pc = "load" /\ x.h = h
  <2>1. h \in 0 .. Len(pages) /\ k \in Settings \union {Real}
    BY <1>1 DEF Setting
  <2> QED
    BY ONLY <1>1, <2>1 DEF Rpc
<1>3. rpc' = [rpc EXCEPT ![r] = x]
  BY DEF SetTime
<1> HIDE DEF x
<1> QED
  BY <1>1, <1>2, <1>3, RpcTo DEF TypeOK

\* The injection has mapped its page, whose handle is not filed yet.
LEMMA InjectOkFacts ==
    ASSUME TypeOK, NEW r \in Rpcs, Len(pages') = Len(pages) + 1,
           rpc' = [rpc EXCEPT ![r].pc = "file", ![r].h = Len(pages) + 1]
    PROVE  /\ rpc' \in [Rpcs -> Rpc(Len(pages'))]
           /\ rpc'[r].pc = "file" /\ rpc'[r].h = Len(pages) + 1
           /\ \A q \in Rpcs \ {r} : rpc'[q] = rpc[q]
<1> DEFINE x == [rpc[r] EXCEPT !.pc = "file", !.h = Len(pages) + 1]
<1>1. rpc[r] \in Rpc(Len(pages)) /\ Len(pages) \in Nat
  BY Facts
<1>2. x \in Rpc(Len(pages) + 1) /\ x.pc = "file" /\ x.h = Len(pages) + 1
  <2>1. Len(pages) + 1 \in 0 .. (Len(pages) + 1)
    BY <1>1
  <2> QED
    BY ONLY <1>1, <2>1 DEF Rpc
<1>3. rpc' = [rpc EXCEPT ![r] = x]
  OBVIOUS
<1> HIDE DEF x
<1> QED
  <2>1. rpc \in [Rpcs -> Rpc(Len(pages))] /\ Len(pages) + 1 \in Nat /\ Len(pages) <= Len(pages) + 1
    BY <1>1 DEF TypeOK
  <2>2. /\ rpc' \in [Rpcs -> Rpc(Len(pages) + 1)] /\ rpc'[r] = x
        /\ \A q \in Rpcs \ {r} : rpc'[q] = rpc[q]
    BY ONLY <1>1, <1>2, <1>3, <2>1, RpcTo, r \in Rpcs
  <2> QED
    BY <1>2, <2>2

\* A writing RPC goes on with the handle and the setting it was called with.
LEMMA WriterFacts ==
    ASSUME TypeOK, NEW r \in Rpcs, NEW pc \in WritePC, NEW g \in Int,
           rpc' = [rpc EXCEPT ![r] = [rpc[r] EXCEPT !.pc = pc, !.gen = g]]
    PROVE  /\ rpc' \in [Rpcs -> Rpc(Len(pages))]
           /\ rpc'[r].pc = pc /\ rpc'[r].h = rpc[r].h
           /\ rpc'[r].clock = rpc[r].clock /\ rpc'[r].gen = g
           /\ \A q \in Rpcs \ {r} : rpc'[q] = rpc[q]
<1> DEFINE x == [rpc[r] EXCEPT !.pc = pc, !.gen = g]
<1>1. rpc[r] \in Rpc(Len(pages)) /\ Len(pages) \in Nat
  BY Facts
<1>2. x \in Rpc(Len(pages)) /\ x.pc = pc /\ x.h = rpc[r].h /\ x.clock = rpc[r].clock /\ x.gen = g
  BY <1>1 DEF Rpc, WritePC
<1> HIDE DEF x
<1>3. rpc' = [rpc EXCEPT ![r] = x]
  BY DEF x
<1> QED
  BY ONLY <1>1, <1>2, <1>3, RpcTo, TypeOK, r \in Rpcs DEF TypeOK

\* The same when only the program counter moves.
LEMMA WriterMoves ==
    ASSUME TypeOK, NEW r \in Rpcs, NEW pc \in WritePC, rpc' = [rpc EXCEPT ![r].pc = pc]
    PROVE  /\ rpc' \in [Rpcs -> Rpc(Len(pages))]
           /\ rpc'[r].pc = pc /\ rpc'[r].h = rpc[r].h
           /\ rpc'[r].clock = rpc[r].clock /\ rpc'[r].gen = rpc[r].gen
           /\ \A q \in Rpcs \ {r} : rpc'[q] = rpc[q]
<1> DEFINE x == [rpc[r] EXCEPT !.pc = pc]
<1>1. rpc[r] \in Rpc(Len(pages)) /\ Len(pages) \in Nat
  BY Facts
<1>2. x \in Rpc(Len(pages)) /\ x.pc = pc /\ x.h = rpc[r].h /\ x.clock = rpc[r].clock /\ x.gen = rpc[r].gen
  BY <1>1 DEF Rpc, WritePC
<1> HIDE DEF x
<1>3. rpc' = [rpc EXCEPT ![r] = x]
  BY DEF x
<1> QED
  BY ONLY <1>1, <1>2, <1>3, RpcTo, TypeOK, r \in Rpcs DEF TypeOK

(***************************************************************************)
(* The steps of a writing RPC, on the page and on the entry of its handle. *)
(***************************************************************************)

\* h.gen is read.
LEMMA LoadGenFacts ==
    ASSUME TypeOK, NEW r \in Rpcs, LoadGen(r), rpc[r].h \in filed
    PROVE  /\ rpc' \in [Rpcs -> Rpc(Len(pages))]
           /\ rpc'[r].pc = "bump" /\ rpc'[r].h = rpc[r].h
           /\ rpc'[r].clock = rpc[r].clock /\ rpc'[r].gen = objs[rpc[r].h].gen + 1
           /\ \A q \in Rpcs \ {r} : rpc'[q] = rpc[q]
<1>1. objs[rpc[r].h] \in HandleEntry /\ rpc[r].h \in 1 .. Len(pages)
  BY Facts
<1>2. objs[rpc[r].h].gen + 1 \in Int
  BY <1>1 DEF HandleEntry
<1>3. rpc' = [rpc EXCEPT ![r] = [rpc[r] EXCEPT !.pc = "bump", !.gen = objs[rpc[r].h].gen + 1]]
  BY DEF LoadGen
<1> QED
  BY <1>2, <1>3, WriterFacts DEF WritePC

\* h.gen is stored.
LEMMA StoreGenFacts ==
    ASSUME TypeOK, NEW r \in Rpcs, StoreGen(r), rpc[r].h \in filed
    PROVE  /\ rpc' \in [Rpcs -> Rpc(Len(pages))]
           /\ rpc'[r].pc = "write" /\ rpc'[r].h = rpc[r].h
           /\ rpc'[r].clock = rpc[r].clock /\ rpc'[r].gen = rpc[r].gen
           /\ \A q \in Rpcs \ {r} : rpc'[q] = rpc[q]
           /\ objs' \in Seq(HandleEntry) /\ Len(objs') = Len(pages)
           /\ \A j \in DOMAIN pages \ {rpc[r].h} : objs'[j] = objs[j]
           /\ objs'[rpc[r].h].last = objs[rpc[r].h].last
           /\ objs'[rpc[r].h].life = objs[rpc[r].h].life
           /\ objs'[rpc[r].h].gen = rpc[r].gen
<1> DEFINE h == rpc[r].h
           e == [objs[h] EXCEPT !.gen = rpc[r].gen]
<1>1. objs[h] \in HandleEntry /\ h \in DOMAIN pages /\ rpc[r].gen \in Int
  BY Facts DEF Rpc
<1>2. /\ e \in HandleEntry /\ e.last = objs[h].last /\ e.life = objs[h].life /\ e.gen = rpc[r].gen
  BY <1>1 DEF HandleEntry
<1>3. objs' = [objs EXCEPT ![h] = e]
  BY DEF StoreGen
<1> HIDE DEF e
<1>4. /\ objs' \in Seq(HandleEntry) /\ Len(objs') = Len(pages)
      /\ \A j \in DOMAIN pages \ {h} : objs'[j] = objs[j]
      /\ objs'[h] = e
  BY <1>1, <1>2, <1>3, EntryFacts
<1>5. rpc' = [rpc EXCEPT ![r].pc = "write"]
  BY DEF StoreGen
<1>6. /\ rpc' \in [Rpcs -> Rpc(Len(pages))]
      /\ rpc'[r].pc = "write" /\ rpc'[r].h = rpc[r].h
      /\ rpc'[r].clock = rpc[r].clock /\ rpc'[r].gen = rpc[r].gen
      /\ \A q \in Rpcs \ {r} : rpc'[q] = rpc[q]
  BY <1>5, WriterMoves DEF WritePC
<1> QED
  BY <1>2, <1>4, <1>6

\* The page is written, with the generation the RPC stored or finds now.
LEMMA WriteOkFacts ==
    ASSUME TypeOK, NEW r \in Rpcs, WriteOk(r), rpc[r].h \in filed
    PROVE  /\ rpc' \in [Rpcs -> Rpc(Len(pages))]
           /\ rpc'[r].pc = "note" /\ rpc'[r].h = rpc[r].h
           /\ rpc'[r].clock = rpc[r].clock
           /\ \A q \in Rpcs \ {r} : rpc'[q] = rpc[q]
           /\ pages' \in Seq(Page) /\ Len(pages') = Len(pages) /\ DOMAIN pages' = DOMAIN pages
           /\ \A j \in DOMAIN pages \ {rpc[r].h} : pages'[j] = pages[j]
           /\ pages'[rpc[r].h].c = pages[rpc[r].h].c /\ pages'[rpc[r].h].inc = pages[rpc[r].h].inc
           /\ pages'[rpc[r].h].clock = rpc[r].clock
           /\ pages'[rpc[r].h].gen \in {rpc[r].gen, objs[rpc[r].h].gen}
<1>1. /\ objs[rpc[r].h] \in HandleEntry /\ rpc[r].h \in DOMAIN pages
      /\ rpc[r].gen \in Int /\ rpc[r].clock \in Setting
  BY Facts DEF Rpc, Setting
<1>2. objs[rpc[r].h].gen \in Int
  BY <1>1 DEF HandleEntry
<1>3. PICK g \in {rpc[r].gen, objs[rpc[r].h].gen} :
         pages' = [pages EXCEPT ![rpc[r].h].clock = rpc[r].clock, ![rpc[r].h].gen = g]
  BY DEF WriteOk
<1>4. /\ pages' \in Seq(Page) /\ Len(pages') = Len(pages) /\ DOMAIN pages' = DOMAIN pages
      /\ \A j \in DOMAIN pages \ {rpc[r].h} : pages'[j] = pages[j]
      /\ pages'[rpc[r].h].c = pages[rpc[r].h].c /\ pages'[rpc[r].h].inc = pages[rpc[r].h].inc
      /\ pages'[rpc[r].h].clock = rpc[r].clock /\ pages'[rpc[r].h].gen = g
  <2>1. g \in Int
    BY <1>1, <1>2
  <2> DEFINE h == rpc[r].h
             p == [pages[h] EXCEPT !.clock = rpc[r].clock, !.gen = g]
  <2>2. pages[h] \in Page
    BY <1>1, Facts
  <2>3. /\ p \in Page /\ p.c = pages[h].c /\ p.inc = pages[h].inc
        /\ p.clock = rpc[r].clock /\ p.gen = g
    BY <1>1, <2>1, <2>2 DEF Page, Setting
  <2>4. pages' = [pages EXCEPT ![h] = p]
    BY <1>3
  <2> HIDE DEF p
  <2>5. /\ pages' \in Seq(Page) /\ Len(pages') = Len(pages) /\ DOMAIN pages' = DOMAIN pages
        /\ \A j \in DOMAIN pages \ {h} : pages'[j] = pages[j]
        /\ pages'[h] = p
    BY <1>1, <2>3, <2>4, PageFacts
  <2> QED
    BY <2>3, <2>5
<1>5. rpc' = [rpc EXCEPT ![r].pc = "note"]
  BY DEF WriteOk
<1>6. /\ rpc' \in [Rpcs -> Rpc(Len(pages))]
      /\ rpc'[r].pc = "note" /\ rpc'[r].h = rpc[r].h
      /\ rpc'[r].clock = rpc[r].clock
      /\ \A q \in Rpcs \ {r} : rpc'[q] = rpc[q]
  BY <1>5, WriterMoves DEF WritePC
<1> QED
  BY <1>3, <1>4, <1>6

\* The write failed and the generation is taken back.
LEMMA WriteErrFacts ==
    ASSUME TypeOK, NEW r \in Rpcs, WriteErr(r), rpc[r].h \in filed
    PROVE  /\ objs' \in Seq(HandleEntry) /\ Len(objs') = Len(pages)
           /\ \A j \in DOMAIN pages \ {rpc[r].h} : objs'[j] = objs[j]
           /\ objs'[rpc[r].h].last = objs[rpc[r].h].last
           /\ objs'[rpc[r].h].life = objs[rpc[r].h].life
           /\ objs'[rpc[r].h].gen = objs[rpc[r].h].gen - 1
<1> DEFINE h == rpc[r].h
           e == [objs[h] EXCEPT !.gen = @ - 1]
<1>1. objs[h] \in HandleEntry /\ h \in DOMAIN pages
  BY Facts
<1>2. /\ e \in HandleEntry /\ e.last = objs[h].last /\ e.life = objs[h].life
      /\ e.gen = objs[h].gen - 1
  BY <1>1 DEF HandleEntry
<1>3. objs' = [objs EXCEPT ![h] = e]
  BY DEF WriteErr
<1> HIDE DEF e
<1>4. /\ objs' \in Seq(HandleEntry) /\ Len(objs') = Len(pages)
      /\ \A j \in DOMAIN pages \ {h} : objs'[j] = objs[j]
      /\ objs'[h] = e
  BY <1>1, <1>2, <1>3, EntryFacts
<1> QED
  BY <1>2, <1>4

\* lastTarget is noted.
LEMMA NoteFacts ==
    ASSUME TypeOK, NEW r \in Rpcs, Note(r), rpc[r].h \in filed
    PROVE  /\ objs' \in Seq(HandleEntry) /\ Len(objs') = Len(pages)
           /\ \A j \in DOMAIN pages \ {rpc[r].h} : objs'[j] = objs[j]
           /\ objs'[rpc[r].h].last = rpc[r].clock.at
           /\ objs'[rpc[r].h].life = objs[rpc[r].h].life
           /\ objs'[rpc[r].h].gen = objs[rpc[r].h].gen
<1> DEFINE h == rpc[r].h
           e == [objs[h] EXCEPT !.last = rpc[r].clock.at]
<1>1. objs[h] \in HandleEntry /\ h \in DOMAIN pages /\ rpc[r].clock.at \in Int
  BY Facts, SettingAt DEF Rpc, Setting
<1>2. /\ e \in HandleEntry /\ e.last = rpc[r].clock.at /\ e.life = objs[h].life
      /\ e.gen = objs[h].gen
  BY <1>1 DEF HandleEntry
<1>3. objs' = [objs EXCEPT ![h] = e]
  BY DEF Note
<1> HIDE DEF e
<1>4. /\ objs' \in Seq(HandleEntry) /\ Len(objs') = Len(pages)
      /\ \A j \in DOMAIN pages \ {h} : objs'[j] = objs[j]
      /\ objs'[h] = e
  BY <1>1, <1>2, <1>3, EntryFacts
<1> QED
  BY <1>2, <1>4

\* resetNow of drain.
LEMMA DrainResetFacts ==
    ASSUME TypeOK, NEW h \in snap, DrainReset(h)
    PROVE  /\ pages' \in Seq(Page) /\ Len(pages') = Len(pages) /\ DOMAIN pages' = DOMAIN pages
           /\ \A j \in DOMAIN pages \ {h} : pages'[j] = pages[j] /\ objs'[j] = objs[j]
           /\ pages'[h].c = pages[h].c /\ pages'[h].inc = pages[h].inc /\ pages'[h].clock = Real
           /\ objs' \in Seq(HandleEntry) /\ Len(objs') = Len(pages)
           /\ objs'[h].life = objs[h].life
<1> DEFINE e == [objs[h] EXCEPT !.gen = @ + 1]
<1>1. objs[h] \in HandleEntry /\ h \in DOMAIN pages
  BY Facts DEF TypeOK
<1>2. e \in HandleEntry /\ e.life = objs[h].life /\ objs[h].gen + 1 \in Int
  BY <1>1 DEF HandleEntry
<1>3. objs' = [objs EXCEPT ![h] = e]
  BY DEF DrainReset
<1> HIDE DEF e
<1>4. /\ objs' \in Seq(HandleEntry) /\ Len(objs') = Len(pages)
      /\ \A j \in DOMAIN pages \ {h} : objs'[j] = objs[j]
      /\ objs'[h] = e
  BY <1>1, <1>2, <1>3, EntryFacts
<1> DEFINE p == [pages[h] EXCEPT !.clock = Real, !.gen = objs[h].gen + 1]
<1>5. pages[h] \in Page
  BY <1>1, Facts
<1>6. p \in Page /\ p.c = pages[h].c /\ p.inc = pages[h].inc /\ p.clock = Real
  BY <1>2, <1>5 DEF Page
<1>7. pages' = [pages EXCEPT ![h] = p]
  BY DEF DrainReset
<1> HIDE DEF p
<1>8. /\ pages' \in Seq(Page) /\ Len(pages') = Len(pages) /\ DOMAIN pages' = DOMAIN pages
      /\ \A j \in DOMAIN pages \ {h} : pages'[j] = pages[j]
      /\ pages'[h] = p
  BY <1>1, <1>6, <1>7, PageFacts
<1> QED
  BY <1>2, <1>4, <1>6, <1>8

(***************************************************************************)
(* What each action does, index by index, and that it keeps the types.     *)
(***************************************************************************)
Others(r) == \A q \in Rpcs \ {r} : rpc'[q] = rpc[q]

SameLife == used'.restarts = used.restarts

\* Goroutine r leaves the server alone, except that it moves.
LocalEffect(r) ==
    /\ UNCHANGED <<target, objs, phase, snap>> /\ SameLife
    /\ Others(r)

\* Goroutine r writes into the entry of its handle.
EntryEffect(r, last, gen) ==
    /\ UNCHANGED <<target, filed, phase, snap, lost, crossed>> /\ SameLife
    /\ \A j \in DOMAIN pages \ {rpc[r].h} : objs'[j] = objs[j]
    /\ objs'[rpc[r].h].last = last /\ objs'[rpc[r].h].gen = gen
    /\ objs'[rpc[r].h].life = objs[rpc[r].h].life
    /\ Others(r)

\* A page is mapped for the container and with the clock of goroutine r.
MapEffect(r) ==
    /\ UNCHANGED <<up, inc, filed, phase, snap, crossed>> /\ SameLife
    /\ Len(pages') = Len(pages) + 1
    /\ DOMAIN pages' = 1 .. (Len(pages) + 1)
    /\ \A h \in DOMAIN pages : pages'[h] = pages[h] /\ objs'[h] = objs[h]
    /\ pages'[Len(pages) + 1]
         = [c |-> rpc[r].c, inc |-> rpc[r].inc, clock |-> rpc[r].clock, gen |-> 0]
    /\ objs'[Len(pages) + 1] = [last |-> rpc[r].clock.at, gen |-> 0, life |-> used.restarts]
    /\ Others(r)

\* Inject has looked the process up.
LEMMA InjectStep ==
    ASSUME TypeOK, NEW r \in Rpcs, NEW c \in Containers, NEW k \in Settings, Inject(r, c, k)
    PROVE  /\ TypeOK'
           /\ LocalEffect(r) /\ UNCHANGED <<filed, lost, crossed>>
           /\ phase = "serving" /\ rpc[r].pc = "idle"
           /\ rpc'[r].pc = "inject" /\ rpc'[r].c \in Containers
<1>1. /\ rpc' \in [Rpcs -> Rpc(Len(pages))] /\ rpc'[r].pc = "inject" /\ rpc'[r].c = c /\ Others(r)
  BY InjectFacts DEF Others
<1>2. UNCHANGED <<target, server, history>> /\ phase = "serving" /\ rpc[r].pc = "idle"
  BY DEF Inject, Call
<1>3. used' \in UsedType /\ SameLife
  BY UsedKept DEF Inject, SameLife
<1> QED
  BY <1>1, <1>2, <1>3 DEF TypeOK, LocalEffect, target, server, history, UsedType

\* SetTime or Reset has looked its handle up.
LEMMA SetTimeStep ==
    ASSUME TypeOK, NEW r \in Rpcs, NEW h \in filed, NEW k \in Setting, SetTime(r, h, k)
    PROVE  /\ TypeOK'
           /\ LocalEffect(r) /\ UNCHANGED <<filed, lost>>
           /\ phase = "serving" /\ rpc[r].pc = "idle"
           /\ rpc'[r].pc = "load" /\ rpc'[r].h = h
           /\ crossed \subseteq crossed'
           /\ h \in crossed' \/ \A q \in Rpcs : ~Writes(q, h)
<1>1. /\ rpc' \in [Rpcs -> Rpc(Len(pages))] /\ rpc'[r].pc = "load" /\ rpc'[r].h = h /\ Others(r)
  BY SetTimeFacts DEF Others
<1>2. UNCHANGED <<target, server, lost>> /\ phase = "serving" /\ rpc[r].pc = "idle"
  BY DEF SetTime, Call
<1>3. used' \in UsedType /\ SameLife
  BY UsedKept DEF SetTime, SameLife
<1>4. crossed' = IF Writing(h) = {} THEN crossed ELSE crossed \union {h}
  BY DEF SetTime
<1>5. Writing(h) = {} => \A q \in Rpcs : ~Writes(q, h)
  BY DEF Writing, Writes, WritePC
<1>6. crossed' \subseteq DOMAIN pages
  BY <1>4 DEF TypeOK
<1> QED
  BY <1>1, <1>2, <1>3, <1>4, <1>5, <1>6 DEF TypeOK, LocalEffect, target, server, UsedType

\* The page is mapped and the jumps are in place.
LEMMA InjectOkStep ==
    ASSUME MapInv, NEW r \in Rpcs, InjectOk(r)
    PROVE  /\ TypeOK'
           /\ MapEffect(r) /\ lost' = lost
           /\ Running(rpc[r].c, rpc[r].inc) /\ hook' = [hook EXCEPT ![rpc[r].c] = Len(pages) + 1]
           /\ rpc[r].pc = "inject"
           /\ rpc'[r].pc = "file" /\ rpc'[r].h = Len(pages) + 1
<1> TypeOK /\ rpc[r].c \in Containers
  BY DEF MapInv, InjectOk
<1>1. Mapped(r) /\ UNCHANGED <<used, lost>>
  BY DEF InjectOk
<1>2. /\ pages' \in Seq(Page) /\ objs' \in Seq(HandleEntry)
      /\ Len(pages') = Len(pages) + 1 /\ Len(objs') = Len(pages) + 1
      /\ DOMAIN pages' = 1 .. (Len(pages) + 1)
      /\ \A h \in 1 .. Len(pages) : pages'[h] = pages[h] /\ objs'[h] = objs[h]
      /\ pages'[Len(pages) + 1]
           = [c |-> rpc[r].c, inc |-> rpc[r].inc, clock |-> rpc[r].clock, gen |-> 0]
      /\ objs'[Len(pages) + 1] = [last |-> rpc[r].clock.at, gen |-> 0, life |-> used.restarts]
      /\ hook' \in [Containers -> 0 .. Len(pages')]
  BY <1>1, MappedFacts
<1>3. rpc' = [rpc EXCEPT ![r].pc = "file", ![r].h = Len(pages) + 1]
  BY DEF InjectOk
<1>4. /\ rpc' \in [Rpcs -> Rpc(Len(pages'))] /\ rpc'[r].pc = "file" /\ rpc'[r].h = Len(pages) + 1
      /\ Others(r)
  BY <1>2, <1>3, InjectOkFacts DEF Others
<1>5. UNCHANGED <<up, inc, filed, phase, snap, crossed>> /\ hook' = [hook EXCEPT ![rpc[r].c] = Len(pages) + 1]
  BY <1>1 DEF Mapped
<1>6. DOMAIN pages = 1 .. Len(pages) /\ Len(pages) \in Nat
  BY Facts
<1>7. DOMAIN pages \subseteq DOMAIN pages'
  BY <1>2, <1>6
<1>8. MapEffect(r)
  BY <1>1, <1>2, <1>4, <1>5, <1>6 DEF MapEffect, SameLife
<1>9. filed' \subseteq DOMAIN pages' /\ lost' \union crossed' \subseteq DOMAIN pages'
  BY <1>1, <1>5, <1>7 DEF TypeOK
<1>10. TypeOK'
  BY <1>1, <1>2, <1>4, <1>5, <1>9 DEF TypeOK
<1> QED
  BY <1>1, <1>4, <1>5, <1>8, <1>10 DEF InjectOk

\* The injection failed with the first jump in place.
LEMMA InjectHalfStep ==
    ASSUME MapInv, NEW r \in Rpcs, InjectHalf(r)
    PROVE  /\ TypeOK'
           /\ MapEffect(r) /\ lost' = lost \union {Len(pages) + 1}
           /\ Running(rpc[r].c, rpc[r].inc) /\ hook' = [hook EXCEPT ![rpc[r].c] = Len(pages) + 1]
           /\ rpc[r].pc = "inject"
           /\ rpc'[r].pc = "idle"
<1> TypeOK /\ rpc[r].c \in Containers
  BY DEF MapInv, InjectHalf
<1>1. Mapped(r) /\ lost' = lost \union {Len(pages) + 1}
  BY DEF InjectHalf
<1>2. /\ pages' \in Seq(Page) /\ objs' \in Seq(HandleEntry)
      /\ Len(pages') = Len(pages) + 1 /\ Len(objs') = Len(pages) + 1
      /\ DOMAIN pages' = 1 .. (Len(pages) + 1)
      /\ \A h \in 1 .. Len(pages) : pages'[h] = pages[h] /\ objs'[h] = objs[h]
      /\ pages'[Len(pages) + 1]
           = [c |-> rpc[r].c, inc |-> rpc[r].inc, clock |-> rpc[r].clock, gen |-> 0]
      /\ objs'[Len(pages) + 1] = [last |-> rpc[r].clock.at, gen |-> 0, life |-> used.restarts]
      /\ hook' \in [Containers -> 0 .. Len(pages')]
  BY <1>1, MappedFacts
<1>3. rpc' = [rpc EXCEPT ![r] = Idle] /\ rpc \in [Rpcs -> Rpc(Len(pages))] /\ Len(pages) \in Nat
  BY Facts DEF InjectHalf, TypeOK
<1>4. /\ rpc' \in [Rpcs -> Rpc(Len(pages'))] /\ rpc'[r].pc = "idle"
      /\ Others(r)
  <2>1. Len(pages') \in Nat /\ Len(pages) <= Len(pages') /\ Idle \in Rpc(Len(pages')) /\ Idle.pc = "idle"
    BY <1>2, <1>3, IdleRpc
  <2> QED
    BY ONLY r \in Rpcs, <1>3, <2>1, RpcTo DEF Others
<1>5. UNCHANGED <<up, inc, filed, phase, snap, crossed>> /\ hook' = [hook EXCEPT ![rpc[r].c] = Len(pages) + 1]
  BY <1>1 DEF Mapped
<1>6. DOMAIN pages = 1 .. Len(pages)
  BY Facts
<1>7. DOMAIN pages \subseteq DOMAIN pages' /\ Len(pages) + 1 \in DOMAIN pages'
  BY <1>2, <1>3, <1>6
<1>8. used' \in UsedType /\ SameLife
  BY UsedKept DEF InjectHalf, SameLife
<1>9. MapEffect(r)
  BY <1>2, <1>4, <1>5, <1>6, <1>8 DEF MapEffect
<1>10. filed' \subseteq DOMAIN pages' /\ lost' \union crossed' \subseteq DOMAIN pages'
  BY <1>1, <1>5, <1>7 DEF TypeOK
<1>11. TypeOK'
  BY <1>2, <1>4, <1>5, <1>8, <1>10 DEF TypeOK, UsedType
<1> QED
  BY <1>1, <1>4, <1>5, <1>9, <1>11 DEF InjectHalf

\* The injection failed and changed nothing.
LEMMA InjectErrStep ==
    ASSUME TypeOK, NEW r \in Rpcs, InjectErr(r)
    PROVE  /\ TypeOK'
           /\ LocalEffect(r) /\ UNCHANGED <<filed, lost, crossed>>
           /\ rpc[r].pc = "inject" /\ rpc'[r].pc = "idle"
<1>1. rpc' \in [Rpcs -> Rpc(Len(pages))] /\ rpc'[r].pc = "idle" /\ Others(r)
  BY Answers DEF InjectErr, Others
<1>2. UNCHANGED <<target, server, history>> /\ rpc[r].pc = "inject"
  BY DEF InjectErr
<1>3. used' \in UsedType /\ SameLife
  BY UsedKept DEF InjectErr, SameLife
<1> QED
  BY <1>1, <1>2, <1>3 DEF TypeOK, LocalEffect, target, server, history, UsedType

\* The handle is filed.
LEMMA FileStep ==
    ASSUME MapInv, NEW r \in Rpcs, File(r)
    PROVE  /\ TypeOK'
           /\ LocalEffect(r) /\ UNCHANGED <<lost, crossed>>
           /\ filed' = filed \union {rpc[r].h}
           /\ rpc[r].pc = "file" /\ rpc'[r].pc = "idle"
<1> TypeOK /\ rpc[r].h \in DOMAIN pages
  BY DEF MapInv, File
<1>1. rpc' \in [Rpcs -> Rpc(Len(pages))] /\ rpc'[r].pc = "idle" /\ Others(r)
  BY Answers DEF File, Others
<1>2. UNCHANGED <<target, objs, phase, snap, used, history>> /\ rpc[r].pc = "file" /\ filed' = filed \union {rpc[r].h}
  BY DEF File
<1> QED
  BY <1>1, <1>2 DEF TypeOK, LocalEffect, target, history, SameLife

\* The generation is read.
LEMMA LoadGenStep ==
    ASSUME MapInv, NEW r \in Rpcs, LoadGen(r)
    PROVE  /\ TypeOK'
           /\ LocalEffect(r) /\ UNCHANGED <<filed, lost, crossed>>
           /\ rpc[r].pc = "load" /\ rpc'[r].pc = "bump" /\ rpc'[r].h = rpc[r].h
           /\ rpc'[r].gen = objs[rpc[r].h].gen + 1
<1> TypeOK /\ rpc[r].h \in filed
  BY DEF MapInv, LoadGen, WritePC
<1>1. /\ rpc' \in [Rpcs -> Rpc(Len(pages))]
      /\ rpc'[r].pc = "bump" /\ rpc'[r].h = rpc[r].h
      /\ rpc'[r].gen = objs[rpc[r].h].gen + 1
      /\ Others(r)
  BY LoadGenFacts DEF Others
<1>2. UNCHANGED <<target, server, used, history>> /\ rpc[r].pc = "load"
  BY DEF LoadGen
<1> QED
  BY <1>1, <1>2 DEF TypeOK, LocalEffect, target, server, history, SameLife

\* The generation is stored.
LEMMA StoreGenStep ==
    ASSUME MapInv, NEW r \in Rpcs, StoreGen(r)
    PROVE  /\ TypeOK'
           /\ EntryEffect(r, objs[rpc[r].h].last, rpc[r].gen)
           /\ rpc[r].pc = "bump" /\ rpc'[r].pc = "write" /\ rpc'[r].h = rpc[r].h
           /\ rpc'[r].gen = rpc[r].gen
<1> TypeOK /\ rpc[r].h \in filed
  BY DEF MapInv, StoreGen, WritePC
<1>1. /\ rpc' \in [Rpcs -> Rpc(Len(pages))]
      /\ rpc'[r].pc = "write" /\ rpc'[r].h = rpc[r].h
      /\ rpc'[r].gen = rpc[r].gen
      /\ Others(r)
      /\ objs' \in Seq(HandleEntry) /\ Len(objs') = Len(pages)
      /\ \A j \in DOMAIN pages \ {rpc[r].h} : objs'[j] = objs[j]
      /\ objs'[rpc[r].h].last = objs[rpc[r].h].last
      /\ objs'[rpc[r].h].life = objs[rpc[r].h].life
      /\ objs'[rpc[r].h].gen = rpc[r].gen
  BY StoreGenFacts DEF Others
<1>2. UNCHANGED <<target, filed, phase, snap, used, history>> /\ rpc[r].pc = "bump"
  BY DEF StoreGen
<1> QED
  BY <1>1, <1>2 DEF TypeOK, EntryEffect, target, history, SameLife

\* The page is written.
LEMMA WriteOkStep ==
    ASSUME MapInv, NEW r \in Rpcs, WriteOk(r)
    PROVE  /\ TypeOK'
           /\ UNCHANGED <<up, inc, hook, server, history>> /\ SameLife /\ Others(r)
           /\ ProcessAlive(rpc[r].h)
           /\ rpc[r].pc = "write" /\ rpc'[r].pc = "note" /\ rpc'[r].h = rpc[r].h
           /\ rpc'[r].clock = rpc[r].clock
           /\ DOMAIN pages' = DOMAIN pages
           /\ \A j \in DOMAIN pages \ {rpc[r].h} : pages'[j] = pages[j]
           /\ pages'[rpc[r].h].c = pages[rpc[r].h].c /\ pages'[rpc[r].h].inc = pages[rpc[r].h].inc
           /\ pages'[rpc[r].h].clock = rpc[r].clock
           /\ pages'[rpc[r].h].gen \in {rpc[r].gen, objs[rpc[r].h].gen}
<1> TypeOK /\ rpc[r].h \in filed
  BY DEF MapInv, WriteOk, WritePC
<1>1. /\ rpc' \in [Rpcs -> Rpc(Len(pages))]
      /\ rpc'[r].pc = "note" /\ rpc'[r].h = rpc[r].h
      /\ rpc'[r].clock = rpc[r].clock
      /\ Others(r)
      /\ pages' \in Seq(Page) /\ Len(pages') = Len(pages) /\ DOMAIN pages' = DOMAIN pages
      /\ \A j \in DOMAIN pages \ {rpc[r].h} : pages'[j] = pages[j]
      /\ pages'[rpc[r].h].c = pages[rpc[r].h].c /\ pages'[rpc[r].h].inc = pages[rpc[r].h].inc
      /\ pages'[rpc[r].h].clock = rpc[r].clock
      /\ pages'[rpc[r].h].gen \in {rpc[r].gen, objs[rpc[r].h].gen}
  BY WriteOkFacts DEF Others
<1>2. UNCHANGED <<up, inc, hook, server, used, history>> /\ rpc[r].pc = "write" /\ ProcessAlive(rpc[r].h)
  BY DEF WriteOk
<1>3. TypeOK'
  BY <1>1, <1>2 DEF TypeOK, server, history
<1> QED
  BY <1>1, <1>2, <1>3 DEF SameLife

\* The write failed.
LEMMA WriteErrStep ==
    ASSUME MapInv, NEW r \in Rpcs, WriteErr(r)
    PROVE  /\ TypeOK'
           /\ EntryEffect(r, objs[rpc[r].h].last, objs[rpc[r].h].gen - 1)
           /\ rpc[r].pc = "write" /\ rpc'[r].pc = "idle"
<1> TypeOK /\ rpc[r].h \in filed
  BY DEF MapInv, WriteErr, WritePC
<1>1. rpc' \in [Rpcs -> Rpc(Len(pages))] /\ rpc'[r].pc = "idle" /\ Others(r)
  BY Answers DEF WriteErr, Others
<1>2. UNCHANGED <<target, filed, phase, snap, history>> /\ rpc[r].pc = "write"
  BY DEF WriteErr
<1>3. used' \in UsedType /\ SameLife
  BY UsedKept DEF WriteErr, SameLife
<1> QED
  BY <1>1, <1>2, <1>3, WriteErrFacts DEF TypeOK, EntryEffect, target, history, UsedType

\* The new target is noted.
LEMMA NoteStep ==
    ASSUME MapInv, NEW r \in Rpcs, Note(r)
    PROVE  /\ TypeOK'
           /\ EntryEffect(r, rpc[r].clock.at, objs[rpc[r].h].gen)
           /\ rpc[r].pc = "note" /\ rpc'[r].pc = "idle"
<1> TypeOK /\ rpc[r].h \in filed
  BY DEF MapInv, Note, WritePC
<1>1. rpc' \in [Rpcs -> Rpc(Len(pages))] /\ rpc'[r].pc = "idle" /\ Others(r)
  BY Answers DEF Note, Others
<1>2. UNCHANGED <<target, filed, phase, snap, used, history>> /\ rpc[r].pc = "note"
  BY DEF Note
<1> QED
  BY <1>1, <1>2, NoteFacts DEF TypeOK, EntryEffect, target, history, SameLife

\* The agent ends: the map and the goroutines are gone.
LEMMA ExitStep ==
    ASSUME TypeOK, Exit
    PROVE  /\ TypeOK' /\ \A r \in Rpcs : rpc'[r].pc = "idle"
           /\ used'.restarts = used.restarts + 1
<1>1. \A n \in Nat : Idle \in Rpc(n) /\ Idle.pc = "idle"
  BY IdleRpc
<1>2. rpc' \in [Rpcs -> Rpc(Len(pages))] /\ \A r \in Rpcs : rpc'[r].pc = "idle"
  BY <1>1, Facts DEF Exit
<1>3. used' \in UsedType /\ used'.restarts = used.restarts + 1
  <2>1. used \in UsedType
    BY UsedKept
  <2>2. used.restarts + 1 \in 0 .. MaxAgentRestarts
    BY <2>1, AgentAssumption DEF UsedType, Exit
  <2>3. used' = [used EXCEPT !.restarts = @ + 1]
    BY DEF Exit
  <2> QED
    BY ONLY <2>1, <2>2, <2>3 DEF UsedType
<1> QED
  BY <1>2, <1>3 DEF Exit, TypeOK, UsedType, target

\* A container is started again.
LEMMA ContainerStartStep ==
    ASSUME MapInv, TypeOK, NEW c \in Containers, ContainerStart(c)
    PROVE  TypeOK'
<1>1. inc[c] + 1 \in 0 .. MaxRestarts
  BY AgentAssumption DEF TypeOK, ContainerStart, MapInv
<1> QED
  BY <1>1 DEF TypeOK, ContainerStart, server, history

\* Every step keeps the types and the map.
LEMMA MapStep == MapInv /\ [Next]_vars => MapInv'
<1> SUFFICES ASSUME MapInv, [Next]_vars PROVE MapInv'
  OBVIOUS
<1>0. /\ TypeOK /\ DOMAIN pages = 1 .. Len(pages) /\ Len(pages) \in Nat
      /\ \A r \in Rpcs : /\ rpc[r].pc = "inject" => rpc[r].c \in Containers
                         /\ rpc[r].pc \in WritePC => rpc[r].h \in filed
                         /\ rpc[r].pc = "file" => rpc[r].h \in DOMAIN pages
  BY Facts DEF MapInv
<1> USE DEF target, server, history
<1>1. ASSUME NEW r \in Rpcs, NEW c \in Containers, NEW k \in Settings, Inject(r, c, k) PROVE MapInv'
  BY <1>0, <1>1, InjectStep DEF MapInv, WritePC, LocalEffect, Others
<1>2. ASSUME NEW r \in Rpcs, NEW h \in filed, NEW k \in Setting, SetTime(r, h, k) PROVE MapInv'
  BY <1>0, <1>2, SetTimeStep DEF MapInv, WritePC, LocalEffect, Others
<1>3. ASSUME NEW r \in Rpcs, InjectOk(r) PROVE MapInv'
  <2>1. /\ TypeOK' /\ rpc[r].pc = "inject" /\ rpc'[r].pc = "file" /\ rpc'[r].h = Len(pages) + 1
        /\ lost' = lost
    BY <1>3, InjectOkStep
  <2>2. /\ UNCHANGED <<up, inc, filed, phase>>
        /\ DOMAIN pages' = 1 .. (Len(pages) + 1)
        /\ \A q \in Rpcs \ {r} : rpc'[q] = rpc[q]
    BY <1>3, InjectOkStep DEF MapEffect, Others
  <2>3. Len(pages) + 1 \notin DOMAIN pages /\ filed \subseteq DOMAIN pages
    BY <1>0 DEF TypeOK
  <2>4. \A q \in Rpcs :
          /\ rpc'[q].pc = "inject" => rpc'[q].c \in Containers
          /\ rpc'[q].pc = "file" => /\ rpc'[q].h \in DOMAIN pages'
                                   /\ rpc'[q].h \notin filed'
                                   /\ \A u \in Rpcs \ {q} : rpc'[u].pc = "file" => rpc'[u].h # rpc'[q].h
          /\ rpc'[q].pc \in WritePC => rpc'[q].h \in filed'
          /\ phase' \notin {"serving", "stopping"} => rpc'[q].pc = "idle"
    BY <1>0, <2>1, <2>2, <2>3 DEF MapInv, WritePC
  <2>5. ASSUME NEW h \in DOMAIN pages'
        PROVE  h \in filed' \/ h \in lost' \/ \E q \in Rpcs : rpc'[q].pc = "file" /\ rpc'[q].h = h
    <3>1. CASE h = Len(pages) + 1
      BY <2>1, <3>1
    <3>2. CASE h # Len(pages) + 1
      <4>1. h \in DOMAIN pages
        BY <1>0, <2>2, <2>5, <3>2
      <4>2. h \in filed \/ h \in lost \/ \E q \in Rpcs : rpc[q].pc = "file" /\ rpc[q].h = h
        BY <4>1 DEF MapInv
      <4> QED
        BY <2>1, <2>2, <4>2
    <3> QED
      BY <3>1, <3>2
  <2> QED
    BY <2>1, <2>2, <2>4, <2>5 DEF MapInv
<1>4. ASSUME NEW r \in Rpcs, InjectErr(r) PROVE MapInv'
  BY <1>0, <1>4, InjectErrStep DEF MapInv, WritePC, LocalEffect, Others
<1>5. ASSUME NEW r \in Rpcs, InjectHalf(r) PROVE MapInv'
  <2>1. /\ TypeOK' /\ rpc[r].pc = "inject" /\ rpc'[r].pc = "idle"
        /\ lost' = lost \union {Len(pages) + 1}
    BY <1>5, InjectHalfStep
  <2>2. /\ UNCHANGED <<up, inc, filed, phase>>
        /\ DOMAIN pages' = 1 .. (Len(pages) + 1)
        /\ \A q \in Rpcs \ {r} : rpc'[q] = rpc[q]
    BY <1>5, InjectHalfStep DEF MapEffect, Others
  <2>3. Len(pages) + 1 \notin DOMAIN pages /\ filed \subseteq DOMAIN pages
    BY <1>0 DEF TypeOK
  <2>4. \A q \in Rpcs :
          /\ rpc'[q].pc = "inject" => rpc'[q].c \in Containers
          /\ rpc'[q].pc = "file" => /\ rpc'[q].h \in DOMAIN pages'
                                   /\ rpc'[q].h \notin filed'
                                   /\ \A u \in Rpcs \ {q} : rpc'[u].pc = "file" => rpc'[u].h # rpc'[q].h
          /\ rpc'[q].pc \in WritePC => rpc'[q].h \in filed'
          /\ phase' \notin {"serving", "stopping"} => rpc'[q].pc = "idle"
    BY <1>0, <2>1, <2>2, <2>3 DEF MapInv, WritePC
  <2>5. ASSUME NEW h \in DOMAIN pages'
        PROVE  h \in filed' \/ h \in lost' \/ \E q \in Rpcs : rpc'[q].pc = "file" /\ rpc'[q].h = h
    <3>1. CASE h = Len(pages) + 1
      BY <2>1, <3>1
    <3>2. CASE h # Len(pages) + 1
      <4>1. h \in DOMAIN pages
        BY <1>0, <2>2, <2>5, <3>2
      <4>2. h \in filed \/ h \in lost \/ \E q \in Rpcs : rpc[q].pc = "file" /\ rpc[q].h = h
        BY <4>1 DEF MapInv
      <4> QED
        BY <2>1, <2>2, <4>2
    <3> QED
      BY <3>1, <3>2
  <2> QED
    BY <2>1, <2>2, <2>4, <2>5 DEF MapInv
<1>6. ASSUME NEW r \in Rpcs, File(r) PROVE MapInv'
  BY <1>0, <1>6, FileStep DEF MapInv, WritePC, LocalEffect, Others
<1>7. ASSUME NEW r \in Rpcs, LoadGen(r) PROVE MapInv'
  BY <1>0, <1>7, LoadGenStep DEF MapInv, WritePC, LocalEffect, Others
<1>8. ASSUME NEW r \in Rpcs, StoreGen(r) PROVE MapInv'
  BY <1>0, <1>8, StoreGenStep DEF MapInv, WritePC, EntryEffect, Others
<1>9. ASSUME NEW r \in Rpcs, WriteOk(r) PROVE MapInv'
  BY <1>0, <1>9, WriteOkStep DEF MapInv, WritePC, Others
<1>10. ASSUME NEW r \in Rpcs, WriteErr(r) PROVE MapInv'
  BY <1>0, <1>10, WriteErrStep DEF MapInv, WritePC, EntryEffect, Others
<1>11. ASSUME NEW r \in Rpcs, Note(r) PROVE MapInv'
  BY <1>0, <1>11, NoteStep DEF MapInv, WritePC, EntryEffect, Others
<1>12. ASSUME Sigterm PROVE MapInv'
  BY <1>0, <1>12 DEF MapInv, WritePC, Sigterm, TypeOK
<1>13. ASSUME Drain PROVE MapInv'
  BY <1>0, <1>13 DEF MapInv, WritePC, Drain, TypeOK
<1>14. ASSUME DrainTimeout PROVE MapInv'
  BY <1>0, <1>14, UsedKept DEF MapInv, WritePC, DrainTimeout, TypeOK, UsedType
<1>15. ASSUME DrainEnd PROVE MapInv'
  BY <1>0, <1>15 DEF MapInv, WritePC, DrainEnd, TypeOK
<1>16. ASSUME Exit PROVE MapInv'
  BY <1>0, <1>16, ExitStep DEF MapInv, WritePC, Exit
<1>17. ASSUME Start PROVE MapInv'
  BY <1>0, <1>17 DEF MapInv, WritePC, Start, TypeOK
<1>18. ASSUME NEW h \in snap, DrainReset(h) PROVE MapInv'
  BY <1>0, <1>18, DrainResetFacts DEF MapInv, WritePC, DrainReset, TypeOK
<1>19. ASSUME NEW h \in snap, DrainErr(h) PROVE MapInv'
  BY <1>0, <1>19, UsedKept DEF MapInv, WritePC, DrainErr, TypeOK, UsedType
<1>20. ASSUME NEW c \in Containers, ContainerStop(c) PROVE MapInv'
  BY <1>0, <1>20 DEF MapInv, WritePC, ContainerStop, TypeOK
<1>21. ASSUME NEW c \in Containers, ContainerStart(c) PROVE MapInv'
  BY <1>0, <1>21, ContainerStartStep DEF MapInv, WritePC, ContainerStart, TypeOK
<1>22. CASE UNCHANGED vars
  BY <1>22 DEF vars, MapInv, TypeOK
<1> QED
  BY <1>1, <1>2, <1>3, <1>4, <1>5, <1>6, <1>7, <1>8, <1>9, <1>10, <1>11, <1>12, <1>13,
     <1>14, <1>15, <1>16, <1>17, <1>18, <1>19, <1>20, <1>21, <1>22 DEF Next, RpcStep,
     Setting

(***************************************************************************)
(* Status, drain, and the agent processes' lives.                          *)
(***************************************************************************)

\* What drain has been through stays real until the agent ends.
LEMMA DrainStep == MapInv /\ DrainInv /\ [Next]_vars => DrainInv'
<1> SUFFICES ASSUME MapInv, DrainInv, [Next]_vars PROVE DrainInv'
  OBVIOUS
<1>0. /\ TypeOK /\ DOMAIN pages = 1 .. Len(pages) /\ Len(pages) \in Nat
      /\ filed \subseteq DOMAIN pages /\ snap \subseteq filed
      /\ \A r \in Rpcs : /\ rpc[r].pc \in WritePC => rpc[r].h \in filed
                        /\ rpc[r].pc = "file" => /\ rpc[r].h \in DOMAIN pages /\ rpc[r].h \notin filed
                                                 /\ \A q \in Rpcs \ {r} : rpc[q].pc = "file" => rpc[q].h # rpc[r].h
      /\ phase = "down" => filed = {}
  BY Facts DEF MapInv, TypeOK
<1>p. \A r \in Rpcs : rpc[r].pc # "idle" => phase \in {"serving", "stopping"}
  BY DEF MapInv
<1> USE DEF target, server, history
<1>1. ASSUME NEW r \in Rpcs, NEW c \in Containers, NEW k \in Settings, Inject(r, c, k) PROVE DrainInv'
  BY <1>0, <1>1, InjectStep DEF DrainInv, LocalEffect, Others
<1>2. ASSUME NEW r \in Rpcs, NEW h \in filed, NEW k \in Setting, SetTime(r, h, k) PROVE DrainInv'
  BY <1>0, <1>2, SetTimeStep DEF DrainInv, LocalEffect, Others
<1>3. ASSUME NEW r \in Rpcs, RpcStep(r) PROVE DrainInv'
  <2>1. phase' = phase /\ rpc[r].pc # "idle"
    BY <1>3 DEF RpcStep, InjectOk, InjectErr, InjectHalf, File, LoadGen, StoreGen,
       WriteOk, WriteErr,
                Note, Mapped
  <2>2. phase \in {"serving", "stopping"}
    BY <1>p, <2>1
  <2> QED
    BY <2>1, <2>2 DEF DrainInv
<1>12. ASSUME Sigterm PROVE DrainInv'
  BY <1>0, <1>12 DEF DrainInv, Sigterm
<1>13. ASSUME Drain PROVE DrainInv'
  BY <1>0, <1>13 DEF DrainInv, Drain
<1>14. ASSUME DrainTimeout PROVE DrainInv'
  BY <1>0, <1>14 DEF DrainInv, DrainTimeout
<1>15. ASSUME DrainEnd PROVE DrainInv'
  BY <1>0, <1>15 DEF DrainInv, DrainEnd
<1>16. ASSUME Exit PROVE DrainInv'
  BY <1>0, <1>16, ExitStep DEF DrainInv, Exit
<1>17. ASSUME Start PROVE DrainInv'
  BY <1>0, <1>17 DEF DrainInv, Start
<1>18. ASSUME NEW h \in snap, DrainReset(h) PROVE DrainInv'
  BY <1>0, <1>18, DrainResetFacts DEF DrainInv, DrainReset
<1>19. ASSUME NEW h \in snap, DrainErr(h) PROVE DrainInv'
  BY <1>0, <1>19 DEF DrainInv, DrainErr
<1>20. ASSUME NEW c \in Containers, ContainerStop(c) PROVE DrainInv'
  BY <1>0, <1>20 DEF DrainInv, ContainerStop
<1>21. ASSUME NEW c \in Containers, ContainerStart(c) PROVE DrainInv'
  BY <1>0, <1>21 DEF DrainInv, ContainerStart
<1>22. CASE UNCHANGED vars
  BY <1>22 DEF vars, DrainInv
<1> QED
  BY <1>1, <1>2, <1>3, <1>12, <1>13, <1>14, <1>15, <1>16, <1>17, <1>18, <1>19, <1>20,
     <1>21, <1>22 DEF Next, Setting

\* No entry is of a later process than this one.
LEMMA LifeStep == MapInv /\ LifeInv /\ [Next]_vars => LifeInv'
<1> SUFFICES ASSUME MapInv, LifeInv, [Next]_vars PROVE LifeInv'
  OBVIOUS
<1>0. /\ TypeOK /\ DOMAIN pages = 1 .. Len(pages) /\ Len(pages) \in Nat
      /\ filed \subseteq DOMAIN pages /\ snap \subseteq filed
      /\ \A r \in Rpcs : /\ rpc[r].pc \in WritePC => rpc[r].h \in filed
                        /\ rpc[r].pc = "file" => /\ rpc[r].h \in DOMAIN pages /\ rpc[r].h \notin filed
                                                 /\ \A q \in Rpcs \ {r} : rpc[q].pc = "file" => rpc[q].h # rpc[r].h
      /\ phase = "down" => filed = {}
  BY Facts DEF MapInv, TypeOK
<1>p. \A r \in Rpcs : rpc[r].pc # "idle" => phase \in {"serving", "stopping"}
  BY DEF MapInv
<1>l. /\ \A h \in DOMAIN pages : objs[h].life \in Int
      /\ used.restarts \in Int /\ (Fault => SameLife)
  <2>1. \A h \in DOMAIN pages : objs[h] \in HandleEntry
    BY <1>0, Facts
  <2>2. used \in UsedType /\ (Fault => SameLife)
    BY <1>0, UsedKept DEF SameLife
  <2> QED
    BY <2>1, <2>2 DEF HandleEntry, UsedType
<1> USE DEF target, server, history
<1>1. ASSUME NEW r \in Rpcs, NEW c \in Containers, NEW k \in Settings, Inject(r, c, k) PROVE LifeInv'
  BY <1>0, <1>1, InjectStep DEF LifeInv, SameLife, LocalEffect, Others
<1>2. ASSUME NEW r \in Rpcs, NEW h \in filed, NEW k \in Setting, SetTime(r, h, k) PROVE LifeInv'
  BY <1>0, <1>2, SetTimeStep DEF LifeInv, SameLife, LocalEffect, Others
<1>3. ASSUME NEW r \in Rpcs, InjectOk(r) PROVE LifeInv'
  <2>1. /\ DOMAIN pages' = 1 .. (Len(pages) + 1) /\ phase' = phase /\ SameLife
        /\ \A h \in DOMAIN pages : objs'[h] = objs[h]
        /\ objs'[Len(pages) + 1].life = used.restarts
    <3>1. MapEffect(r)
      BY <1>3, InjectOkStep
    <3> QED
      BY <3>1 DEF MapEffect
  <2>2. phase # "down"
    <3>1. rpc[r].pc = "inject"
      BY <1>3, InjectOkStep
    <3> QED
      BY <1>p, <3>1
  <2>3. \A h \in DOMAIN pages' : h = Len(pages) + 1 \/ h \in DOMAIN pages
    BY <1>0, <2>1
  <2> QED
    BY <1>l, <2>1, <2>2, <2>3 DEF LifeInv, SameLife
<1>4. ASSUME NEW r \in Rpcs, InjectErr(r) PROVE LifeInv'
  BY <1>0, <1>4, InjectErrStep DEF LifeInv, SameLife, LocalEffect, Others
<1>5. ASSUME NEW r \in Rpcs, InjectHalf(r) PROVE LifeInv'
  <2>1. /\ DOMAIN pages' = 1 .. (Len(pages) + 1) /\ phase' = phase /\ SameLife
        /\ \A h \in DOMAIN pages : objs'[h] = objs[h]
        /\ objs'[Len(pages) + 1].life = used.restarts
    <3>1. MapEffect(r)
      BY <1>5, InjectHalfStep
    <3> QED
      BY <3>1 DEF MapEffect
  <2>2. phase # "down"
    <3>1. rpc[r].pc = "inject"
      BY <1>5, InjectHalfStep
    <3> QED
      BY <1>p, <3>1
  <2>3. \A h \in DOMAIN pages' : h = Len(pages) + 1 \/ h \in DOMAIN pages
    BY <1>0, <2>1
  <2> QED
    BY <1>l, <2>1, <2>2, <2>3 DEF LifeInv, SameLife
<1>6. ASSUME NEW r \in Rpcs, File(r) PROVE LifeInv'
  BY <1>0, <1>6, FileStep DEF LifeInv, SameLife, LocalEffect, Others
<1>7. ASSUME NEW r \in Rpcs, LoadGen(r) PROVE LifeInv'
  BY <1>0, <1>7, LoadGenStep DEF LifeInv, SameLife, LocalEffect, Others
<1>8. ASSUME NEW r \in Rpcs, StoreGen(r) PROVE LifeInv'
  BY <1>0, <1>8, StoreGenStep DEF LifeInv, SameLife, EntryEffect, Others
<1>9. ASSUME NEW r \in Rpcs, WriteOk(r) PROVE LifeInv'
  BY <1>0, <1>9, WriteOkStep DEF LifeInv, SameLife, Others
<1>10. ASSUME NEW r \in Rpcs, WriteErr(r) PROVE LifeInv'
  BY <1>0, <1>10, WriteErrStep DEF LifeInv, SameLife, EntryEffect, Others
<1>11. ASSUME NEW r \in Rpcs, Note(r) PROVE LifeInv'
  BY <1>0, <1>11, NoteStep DEF LifeInv, SameLife, EntryEffect, Others
<1>12. ASSUME Sigterm PROVE LifeInv'
  BY <1>0, <1>12 DEF LifeInv, SameLife, Sigterm
<1>13. ASSUME Drain PROVE LifeInv'
  BY <1>0, <1>13 DEF LifeInv, SameLife, Drain
<1>14. ASSUME DrainTimeout PROVE LifeInv'
  BY <1>0, <1>l, <1>14 DEF LifeInv, SameLife, DrainTimeout
<1>15. ASSUME DrainEnd PROVE LifeInv'
  BY <1>0, <1>15 DEF LifeInv, SameLife, DrainEnd
<1>16. ASSUME Exit PROVE LifeInv'
  <2>1. UNCHANGED <<pages, objs>> /\ used'.restarts = used.restarts + 1
    BY <1>0, <1>16, ExitStep DEF Exit
  <2> QED
    BY <1>l, <2>1 DEF LifeInv
<1>17. ASSUME Start PROVE LifeInv'
  BY <1>0, <1>17 DEF LifeInv, SameLife, Start
<1>18. ASSUME NEW h \in snap, DrainReset(h) PROVE LifeInv'
  BY <1>0, <1>18, DrainResetFacts DEF LifeInv, SameLife, DrainReset
<1>19. ASSUME NEW h \in snap, DrainErr(h) PROVE LifeInv'
  BY <1>0, <1>l, <1>19 DEF LifeInv, SameLife, DrainErr
<1>20. ASSUME NEW c \in Containers, ContainerStop(c) PROVE LifeInv'
  BY <1>0, <1>20 DEF LifeInv, SameLife, ContainerStop
<1>21. ASSUME NEW c \in Containers, ContainerStart(c) PROVE LifeInv'
  BY <1>0, <1>21 DEF LifeInv, SameLife, ContainerStart
<1>22. CASE UNCHANGED vars
  BY <1>22 DEF vars, LifeInv, SameLife
<1> QED
  BY <1>1, <1>2, <1>3, <1>4, <1>5, <1>6, <1>7, <1>8, <1>9, <1>10, <1>11, <1>12, <1>13,
     <1>14, <1>15, <1>16, <1>17, <1>18, <1>19, <1>20, <1>21, <1>22 DEF Next, RpcStep,
     Setting

\* A step of the one writer of a handle is judged on that handle alone.
LEMMA StatusOwn ==
    ASSUME MapInv, StatusInv, NEW r \in Rpcs, rpc[r].pc \in WritePC, Others(r),
           NEW own, own = rpc[r].h,
           UNCHANGED <<filed, crossed, phase>>,
           \A j \in DOMAIN pages \ {own} : objs'[j] = objs[j] /\ pages'[j] = pages[j],
           \/ rpc'[r].pc \in WritePC /\ rpc'[r].h = own
           \/ rpc'[r].pc = "idle",
           own \notin crossed /\ WriterAgrees(r) =>
               IF rpc'[r].pc = "idle" THEN Same(own)' ELSE WriterAgrees(r)'
    PROVE  StatusInv'
<1>1. /\ filed \subseteq DOMAIN pages /\ own \in filed /\ phase \in {"serving", "stopping"}
      /\ \A q \in Rpcs : /\ rpc[q].pc \in WritePC => rpc[q].h \in filed
                        /\ rpc[q].pc = "file" => rpc[q].h \in DOMAIN pages /\ rpc[q].h \notin filed
  BY DEF MapInv, TypeOK, WritePC
<1>2. \A q \in Rpcs \ {r} : rpc'[q] = rpc[q]
  BY DEF Others
<1>3. rpc'[r].pc # "file"
  BY DEF WritePC
<1>4. ASSUME NEW q \in Rpcs, rpc'[q].pc = "file" PROVE Same(rpc[q].h)'
  <2>1. q # r /\ rpc'[q] = rpc[q]
    BY <1>2, <1>3, <1>4
  <2>2. PICK h : h = rpc[q].h
    OBVIOUS
  <2>3. rpc[q].pc = "file" /\ rpc'[q].h = h
    BY <1>4, <2>1, <2>2
  <2>4. h \in DOMAIN pages /\ h \notin filed
    <3>1. rpc[q].h \in DOMAIN pages /\ rpc[q].h \notin filed
      BY <2>3 DEF MapInv
    <3> QED
      BY ONLY <2>2, <3>1
  <2>5. Same(h)
    BY <2>2, <2>3 DEF StatusInv
  <2>6. objs'[h] = objs[h] /\ pages'[h] = pages[h]
    BY <1>1, <2>4
  <2> QED
    BY <2>3, <2>5, <2>6 DEF Same
<1>5. ASSUME NEW h \in filed, h \notin crossed, h # own
      PROVE  /\ (\A q \in Rpcs : ~Writes(q, h)') => Same(h)'
             /\ \A q \in Rpcs : Writes(q, h)' =>
                   /\ WriterAgrees(q)'
                   /\ \A u \in Rpcs \ {q} : ~Writes(u, h)'
  <2>1. objs'[h] = objs[h] /\ pages'[h] = pages[h]
    BY <1>1, <1>5
  <2>2. \A q \in Rpcs : Writes(q, h)' <=> Writes(q, h)
    BY <1>2, <1>5 DEF Writes, WritePC
  <2>3. ASSUME NEW q \in Rpcs, Writes(q, h) PROVE WriterAgrees(q)' <=> WriterAgrees(q)
    <3>1. q # r /\ rpc'[q] = rpc[q] /\ rpc[q].h = h
      BY <1>2, <1>5, <2>3 DEF Writes
    <3> QED
      BY <2>1, <3>1 DEF WriterAgrees, Same
  <2>4. Same(h)' <=> Same(h)
    BY <2>1 DEF Same
  <2> QED
    BY <1>1, <1>5, <2>2, <2>3, <2>4 DEF StatusInv
<1>6. ASSUME own \notin crossed
      PROVE  /\ (\A q \in Rpcs : ~Writes(q, own)') => Same(own)'
             /\ \A q \in Rpcs : Writes(q, own)' =>
                   /\ WriterAgrees(q)'
                   /\ \A u \in Rpcs \ {q} : ~Writes(u, own)'
  <2>1. Writes(r, own)
    BY DEF Writes
  <2>2. WriterAgrees(r) /\ \A q \in Rpcs \ {r} : ~Writes(q, own)
    BY <1>1, <1>6, <2>1 DEF StatusInv
  <2>3. \A q \in Rpcs \ {r} : ~Writes(q, own)'
    BY <1>2, <2>2 DEF Writes
  <2>4. CASE rpc'[r].pc = "idle"
    BY <1>6, <2>2, <2>3, <2>4 DEF Writes, WritePC
  <2>5. CASE rpc'[r].pc \in WritePC /\ rpc'[r].h = own
    <3>1. rpc'[r].pc # "idle" /\ Writes(r, own)'
      BY <2>5 DEF Writes, WritePC
    <3> QED
      BY <1>6, <2>2, <2>3, <3>1
  <2> QED
    BY <2>4, <2>5
<1> QED
  BY <1>4, <1>5, <1>6 DEF StatusInv

\* The entry follows the page, one step of its writer after the other.
LEMMA StatusStep == MapInv /\ StatusInv /\ [Next]_vars => StatusInv'
<1> SUFFICES ASSUME MapInv, StatusInv, [Next]_vars PROVE StatusInv'
  OBVIOUS
<1>0. /\ TypeOK /\ DOMAIN pages = 1 .. Len(pages) /\ Len(pages) \in Nat
      /\ filed \subseteq DOMAIN pages /\ snap \subseteq filed
      /\ \A r \in Rpcs : /\ rpc[r].pc \in WritePC => rpc[r].h \in filed
                        /\ rpc[r].pc = "file" => /\ rpc[r].h \in DOMAIN pages /\ rpc[r].h \notin filed
                                                 /\ \A q \in Rpcs \ {r} : rpc[q].pc = "file" => rpc[q].h # rpc[r].h
      /\ phase = "down" => filed = {}
  BY Facts DEF MapInv, TypeOK
<1>d. filed \subseteq DOMAIN pages
  BY DEF MapInv, TypeOK
<1>w. \A r \in Rpcs : rpc[r].pc \in WritePC => rpc[r].h \in filed
  BY DEF MapInv
<1>f. \A r \in Rpcs : rpc[r].pc = "file" =>
         /\ rpc[r].h \in DOMAIN pages /\ rpc[r].h \notin filed
         /\ \A q \in Rpcs \ {r} : rpc[q].pc = "file" => rpc[q].h # rpc[r].h
  BY DEF MapInv
<1>p. \A r \in Rpcs : rpc[r].pc # "idle" => phase \in {"serving", "stopping"}
  BY DEF MapInv
<1> USE DEF target, server, history
<1>1. ASSUME NEW r \in Rpcs, NEW c \in Containers, NEW k \in Settings, Inject(r, c, k) PROVE StatusInv'
  BY <1>0, <1>1, InjectStep DEF StatusInv, Writes, WriterAgrees, Same, WritePC, LocalEffect, Others
<1>2. ASSUME NEW r \in Rpcs, NEW h \in filed, NEW k \in Setting, SetTime(r, h, k) PROVE StatusInv'
  <2>1. /\ UNCHANGED <<target, objs, filed, phase>> /\ Others(r)
        /\ rpc[r].pc = "idle" /\ rpc'[r].pc = "load" /\ rpc'[r].h = h
        /\ crossed \subseteq crossed'
        /\ h \in crossed' \/ \A q \in Rpcs : ~Writes(q, h)
    BY <1>0, <1>2, SetTimeStep DEF LocalEffect
  <2>2. \A q \in Rpcs \ {r} : rpc'[q] = rpc[q]
    BY <2>1 DEF Others
  <2>3. \A j : Same(j)' <=> Same(j)
    BY <2>1 DEF Same
  <2>4. \A q \in Rpcs \ {r} : WriterAgrees(q)' <=> WriterAgrees(q)
    BY <2>1, <2>2 DEF WriterAgrees, Same
  <2>5. \A j \in filed, q \in Rpcs : Writes(q, j)' <=> (Writes(q, j) \/ (q = r /\ j = h))
    BY <2>1, <2>2 DEF Writes, WritePC
  <2>6. ASSUME NEW j \in filed, phase \in {"serving", "stopping"}, j \notin crossed'
        PROVE  /\ (\A q \in Rpcs : ~Writes(q, j)') => Same(j)'
               /\ \A q \in Rpcs : Writes(q, j)' =>
                     /\ WriterAgrees(q)'
                     /\ \A u \in Rpcs \ {q} : ~Writes(u, j)'
    <3>1. CASE j # h
      <4>1. \A q \in Rpcs : Writes(q, j)' <=> Writes(q, j)
        BY <2>5, <3>1
      <4>2. ~Writes(r, j)
        BY <2>1 DEF Writes, WritePC
      <4> QED
        BY <2>1, <2>3, <2>4, <2>6, <4>1, <4>2 DEF StatusInv
    <3>2. CASE j = h
      <4>1. \A q \in Rpcs : ~Writes(q, h)
        BY <2>1, <2>6, <3>2
      <4>2. Same(h)
        BY <2>1, <2>6, <3>2, <4>1 DEF StatusInv
      <4>3. WriterAgrees(r)'
        BY <2>1, <4>2 DEF WriterAgrees, Same
      <4> QED
        BY <2>5, <3>2, <4>1, <4>3
    <3> QED
      BY <3>1, <3>2
  <2>7. \A q \in Rpcs : (rpc[q].pc = "file" => Same(rpc[q].h))'
    BY <2>1, <2>2, <2>3 DEF StatusInv
  <2> QED
    BY <2>1, <2>6, <2>7 DEF StatusInv
<1>3. ASSUME NEW r \in Rpcs, InjectOk(r) PROVE StatusInv'
  <2>1. /\ UNCHANGED <<filed, phase, crossed>> /\ rpc[r].pc = "inject" /\ rpc'[r].pc = "file" /\ rpc'[r].h = Len(pages) + 1
        /\ \A h \in DOMAIN pages : pages'[h] = pages[h] /\ objs'[h] = objs[h]
        /\ \A q \in Rpcs \ {r} : rpc'[q] = rpc[q]
    BY <1>3, InjectOkStep DEF MapEffect, Others
  <2>2. PICK n \in Nat : n = Len(pages) + 1
    BY <1>0
  <2>8. Same(n)'
    <3>1. MapEffect(r)
      BY <1>3, InjectOkStep
    <3>2. pages'[n].clock.at = objs'[n].last /\ pages'[n].gen = objs'[n].gen
      BY <2>2, <3>1 DEF MapEffect
    <3> QED
      BY <3>2 DEF Same
  <2>3. \A h \in DOMAIN pages : Same(h)' <=> Same(h)
    BY <2>1 DEF Same
  <2>4. \A h \in filed, q \in Rpcs : Writes(q, h)' <=> Writes(q, h)
    BY <2>1 DEF Writes, WritePC
  <2>5. \A h \in filed, q \in Rpcs : Writes(q, h) => (WriterAgrees(q)' <=> WriterAgrees(q))
    BY <1>0, <2>1 DEF Writes, WriterAgrees, Same, WritePC
  <2>6. ASSUME NEW q \in Rpcs, rpc'[q].pc = "file" PROVE Same(rpc[q].h)'
    <3>1. CASE q = r
      BY <2>1, <2>2, <2>6, <2>8, <3>1 DEF Same
    <3>2. CASE q # r
      <4>1. PICK h : h = rpc[q].h
        OBVIOUS
      <4>2. rpc[q].pc = "file" /\ rpc'[q].h = h
        BY <2>1, <2>6, <3>2, <4>1
      <4>3. h \in DOMAIN pages
        BY <1>f, <4>1, <4>2
      <4>4. Same(h)
        BY <4>1, <4>2 DEF StatusInv
      <4> QED
        BY <2>1, <4>2, <4>3, <4>4 DEF Same
    <3> QED
      BY <3>1, <3>2
  <2>7. \A h \in filed : Same(h)' <=> Same(h)
    BY <1>0, <2>3
  <2> QED
    BY <2>1, <2>4, <2>5, <2>6, <2>7 DEF StatusInv
<1>4. ASSUME NEW r \in Rpcs, InjectErr(r) PROVE StatusInv'
  BY <1>0, <1>4, InjectErrStep DEF StatusInv, Writes, WriterAgrees, Same, WritePC,
     LocalEffect, Others
<1>5. ASSUME NEW r \in Rpcs, InjectHalf(r) PROVE StatusInv'
  <2>1. /\ UNCHANGED <<filed, phase, crossed>> /\ rpc[r].pc = "inject" /\ rpc'[r].pc = "idle"
        /\ \A h \in DOMAIN pages : pages'[h] = pages[h] /\ objs'[h] = objs[h]
        /\ \A q \in Rpcs \ {r} : rpc'[q] = rpc[q]
    BY <1>5, InjectHalfStep DEF MapEffect, Others
  <2>2. PICK n \in Nat : n = Len(pages) + 1
    BY <1>0
  <2>8. Same(n)'
    <3>1. MapEffect(r)
      BY <1>5, InjectHalfStep
    <3>2. pages'[n].clock.at = objs'[n].last /\ pages'[n].gen = objs'[n].gen
      BY <2>2, <3>1 DEF MapEffect
    <3> QED
      BY <3>2 DEF Same
  <2>3. \A h \in DOMAIN pages : Same(h)' <=> Same(h)
    BY <2>1 DEF Same
  <2>4. \A h \in filed, q \in Rpcs : Writes(q, h)' <=> Writes(q, h)
    BY <2>1 DEF Writes, WritePC
  <2>5. \A h \in filed, q \in Rpcs : Writes(q, h) => (WriterAgrees(q)' <=> WriterAgrees(q))
    BY <1>0, <2>1 DEF Writes, WriterAgrees, Same, WritePC
  <2>6. ASSUME NEW q \in Rpcs, rpc'[q].pc = "file" PROVE Same(rpc[q].h)'
    <3>1. CASE q = r
      BY <2>1, <2>2, <2>6, <2>8, <3>1 DEF Same
    <3>2. CASE q # r
      <4>1. PICK h : h = rpc[q].h
        OBVIOUS
      <4>2. rpc[q].pc = "file" /\ rpc'[q].h = h
        BY <2>1, <2>6, <3>2, <4>1
      <4>3. h \in DOMAIN pages
        BY <1>f, <4>1, <4>2
      <4>4. Same(h)
        BY <4>1, <4>2 DEF StatusInv
      <4> QED
        BY <2>1, <4>2, <4>3, <4>4 DEF Same
    <3> QED
      BY <3>1, <3>2
  <2>7. \A h \in filed : Same(h)' <=> Same(h)
    BY <1>0, <2>3
  <2> QED
    BY <2>1, <2>4, <2>5, <2>6, <2>7 DEF StatusInv
<1>6. ASSUME NEW r \in Rpcs, File(r) PROVE StatusInv'
  <2>1. /\ UNCHANGED <<target, objs, phase, crossed>> /\ rpc[r].pc = "file" /\ rpc'[r].pc = "idle"
        /\ filed' = filed \union {rpc[r].h}
        /\ \A q \in Rpcs \ {r} : rpc'[q] = rpc[q]
    BY <1>6, FileStep DEF LocalEffect, Others
  <2>2. \A h : Same(h)' <=> Same(h)
    BY <2>1 DEF Same
  <2>3. \A h : \A q \in Rpcs : Writes(q, h)' <=> Writes(q, h)
    BY <2>1 DEF Writes, WritePC
  <2>4. \A h \in filed, q \in Rpcs : Writes(q, h) => (WriterAgrees(q)' <=> WriterAgrees(q))
    BY <2>1 DEF Writes, WriterAgrees, Same, WritePC
  <2>5. PICK own : own = rpc[r].h
    OBVIOUS
  <2>6. Same(own)
    BY <2>1, <2>5 DEF StatusInv
  <2>7. \A q \in Rpcs : ~Writes(q, own)
    BY <1>f, <1>w, <2>1, <2>5 DEF Writes
  <2>8. \A q \in Rpcs : (rpc[q].pc = "file" => Same(rpc[q].h))'
    BY <2>1, <2>2 DEF StatusInv
  <2>9. ASSUME NEW h \in filed', phase \in {"serving", "stopping"}, h \notin crossed
        PROVE  /\ (\A q \in Rpcs : ~Writes(q, h)') => Same(h)'
               /\ \A q \in Rpcs : Writes(q, h)' =>
                     /\ WriterAgrees(q)'
                     /\ \A u \in Rpcs \ {q} : ~Writes(u, h)'
    <3>1. CASE h = own
      <4>1. \A q \in Rpcs : ~Writes(q, h)'
        BY ONLY <2>3, <2>7, <3>1
      <4>2. Same(h)'
        BY ONLY <2>2, <2>6, <3>1
      <4> QED
        BY ONLY <4>1, <4>2
    <3>2. CASE h \in filed
      <4>1. /\ (\A q \in Rpcs : ~Writes(q, h)) => Same(h)
            /\ \A q \in Rpcs : Writes(q, h) =>
                  /\ WriterAgrees(q)
                  /\ \A u \in Rpcs \ {q} : ~Writes(u, h)
        BY <2>9, <3>2 DEF StatusInv
      <4>2. \A q \in Rpcs : Writes(q, h)' <=> Writes(q, h)
        BY ONLY <2>3
      <4>3. Same(h)' <=> Same(h)
        BY ONLY <2>2
      <4>4. \A q \in Rpcs : Writes(q, h) => (WriterAgrees(q)' <=> WriterAgrees(q))
        BY ONLY <2>4, <3>2
      <4> QED
        BY ONLY <4>1, <4>2, <4>3, <4>4
    <3> QED
      BY <2>1, <2>5, <2>9, <3>1, <3>2
  <2> QED
    BY <2>1, <2>8, <2>9 DEF StatusInv
<1>7. ASSUME NEW r \in Rpcs, LoadGen(r) PROVE StatusInv'
  <2>0. PICK own : own = rpc[r].h
    OBVIOUS
  <2>1. LocalEffect(r) /\ UNCHANGED <<filed, crossed>>
    BY <1>7, LoadGenStep
  <2>2. /\ rpc[r].pc = "load" /\ rpc'[r].pc = "bump" /\ rpc'[r].h = own
    BY <1>7, <2>0, LoadGenStep
  <2>3. own \in DOMAIN pages
    BY <1>d, <1>w, <2>0, <2>2 DEF WritePC
  <2>4. /\ Others(r) /\ UNCHANGED <<filed, crossed, phase>>
        /\ \A j \in DOMAIN pages \ {own} : objs'[j] = objs[j] /\ pages'[j] = pages[j]
    BY <2>0, <2>1 DEF LocalEffect
  <2>5. /\ objs'[own] = objs[own] /\ pages'[own] = pages[own]
        /\ rpc'[r].gen = objs[own].gen + 1
    BY <1>7, <2>0, <2>1, LoadGenStep DEF LocalEffect
  <2>6. ASSUME WriterAgrees(r) PROVE WriterAgrees(r)'
    BY <2>0, <2>2, <2>5, <2>6 DEF WriterAgrees, Same
  <2>7. \/ rpc'[r].pc \in WritePC /\ rpc'[r].h = own
        \/ rpc'[r].pc = "idle"
    BY <2>2 DEF WritePC
  <2>8. rpc[r].pc \in WritePC
    BY <2>2 DEF WritePC
  <2> QED
    BY <2>0, <2>2, <2>4, <2>6, <2>7, <2>8, StatusOwn
<1>8. ASSUME NEW r \in Rpcs, StoreGen(r) PROVE StatusInv'
  <2>0. PICK own : own = rpc[r].h
    OBVIOUS
  <2>1. EntryEffect(r, objs[rpc[r].h].last, rpc[r].gen)
    BY <1>8, StoreGenStep
  <2>2. /\ rpc[r].pc = "bump" /\ rpc'[r].pc = "write" /\ rpc'[r].h = own
    BY <1>8, <2>0, StoreGenStep
  <2>3. own \in DOMAIN pages
    BY <1>d, <1>w, <2>0, <2>2 DEF WritePC
  <2>4. /\ Others(r) /\ UNCHANGED <<filed, crossed, phase>>
        /\ \A j \in DOMAIN pages \ {own} : objs'[j] = objs[j] /\ pages'[j] = pages[j]
    BY <2>0, <2>1 DEF EntryEffect
  <2>5. /\ objs'[own].last = objs[own].last /\ objs'[own].gen = rpc[r].gen /\ pages'[own] = pages[own]
        /\ rpc'[r].gen = rpc[r].gen
        /\ objs[own].gen + 1 = pages[own].gen + 1 <=> objs[own].gen = pages[own].gen
    <3>1. objs[own] \in HandleEntry /\ pages[own] \in Page
      BY <1>0, <2>3, Facts
    <3>2. objs[own].gen \in Int /\ pages[own].gen \in Int
      BY <3>1 DEF HandleEntry, Page
    <3>3. rpc'[r].gen = rpc[r].gen
      BY <1>8, StoreGenStep
    <3> QED
      BY <2>0, <2>1, <3>2, <3>3 DEF EntryEffect
  <2>6. ASSUME WriterAgrees(r) PROVE WriterAgrees(r)'
    BY <2>0, <2>2, <2>5, <2>6 DEF WriterAgrees, Same
  <2>7. \/ rpc'[r].pc \in WritePC /\ rpc'[r].h = own
        \/ rpc'[r].pc = "idle"
    BY <2>2 DEF WritePC
  <2>8. rpc[r].pc \in WritePC
    BY <2>2 DEF WritePC
  <2> QED
    BY <2>0, <2>2, <2>4, <2>6, <2>7, <2>8, StatusOwn
<1>9. ASSUME NEW r \in Rpcs, WriteOk(r) PROVE StatusInv'
  <2>0. PICK own : own = rpc[r].h
    OBVIOUS
  <2>1. UNCHANGED <<up, inc, hook, server, history>> /\ Others(r)
    BY <1>9, WriteOkStep
  <2>2. /\ rpc[r].pc = "write" /\ rpc'[r].pc = "note" /\ rpc'[r].h = own
    BY <1>9, <2>0, WriteOkStep
  <2>3. own \in DOMAIN pages
    BY <1>d, <1>w, <2>0, <2>2 DEF WritePC
  <2>4. /\ Others(r) /\ UNCHANGED <<filed, crossed, phase>>
        /\ \A j \in DOMAIN pages \ {own} : objs'[j] = objs[j] /\ pages'[j] = pages[j]
    <3>1. \A j \in DOMAIN pages \ {own} : pages'[j] = pages[j]
      BY <1>9, <2>0, WriteOkStep
    <3> QED
      BY <2>1, <3>1
  <2>5. /\ objs' = objs /\ pages'[own].clock = rpc[r].clock
        /\ pages'[own].gen \in {rpc[r].gen, objs[own].gen}
        /\ rpc'[r].clock = rpc[r].clock
    BY <1>9, <2>0, <2>1, WriteOkStep
  <2>6. ASSUME WriterAgrees(r) PROVE WriterAgrees(r)'
    BY <2>0, <2>2, <2>5, <2>6 DEF WriterAgrees, Same
  <2>7. \/ rpc'[r].pc \in WritePC /\ rpc'[r].h = own
        \/ rpc'[r].pc = "idle"
    BY <2>2 DEF WritePC
  <2>8. rpc[r].pc \in WritePC
    BY <2>2 DEF WritePC
  <2> QED
    BY <2>0, <2>2, <2>4, <2>6, <2>7, <2>8, StatusOwn
<1>10. ASSUME NEW r \in Rpcs, WriteErr(r) PROVE StatusInv'
  <2>0. PICK own : own = rpc[r].h
    OBVIOUS
  <2>1. EntryEffect(r, objs[rpc[r].h].last, objs[rpc[r].h].gen - 1)
    BY <1>10, WriteErrStep
  <2>2. /\ rpc[r].pc = "write" /\ rpc'[r].pc = "idle"
    BY <1>10, <2>0, WriteErrStep
  <2>3. own \in DOMAIN pages
    BY <1>d, <1>w, <2>0, <2>2 DEF WritePC
  <2>4. /\ Others(r) /\ UNCHANGED <<filed, crossed, phase>>
        /\ \A j \in DOMAIN pages \ {own} : objs'[j] = objs[j] /\ pages'[j] = pages[j]
    BY <2>0, <2>1 DEF EntryEffect
  <2>5. /\ objs'[own].last = objs[own].last /\ objs'[own].gen = objs[own].gen - 1
        /\ pages'[own] = pages[own] /\ (pages[own].gen + 1) - 1 = pages[own].gen
    <3>1. pages[own] \in Page
      BY <1>0, <2>3, Facts
    <3>2. pages[own].gen \in Int
      BY <3>1 DEF Page
    <3> QED
      BY <2>0, <2>1, <3>2 DEF EntryEffect
  <2>6. ASSUME WriterAgrees(r) PROVE Same(own)'
    BY <2>0, <2>2, <2>5, <2>6 DEF WriterAgrees, Same
  <2>7. \/ rpc'[r].pc \in WritePC /\ rpc'[r].h = own
        \/ rpc'[r].pc = "idle"
    BY <2>2 DEF WritePC
  <2>8. rpc[r].pc \in WritePC
    BY <2>2 DEF WritePC
  <2> QED
    BY <2>0, <2>2, <2>4, <2>6, <2>7, <2>8, StatusOwn
<1>11. ASSUME NEW r \in Rpcs, Note(r) PROVE StatusInv'
  <2>0. PICK own : own = rpc[r].h
    OBVIOUS
  <2>1. EntryEffect(r, rpc[r].clock.at, objs[rpc[r].h].gen)
    BY <1>11, NoteStep
  <2>2. /\ rpc[r].pc = "note" /\ rpc'[r].pc = "idle"
    BY <1>11, <2>0, NoteStep
  <2>3. own \in DOMAIN pages
    BY <1>d, <1>w, <2>0, <2>2 DEF WritePC
  <2>4. /\ Others(r) /\ UNCHANGED <<filed, crossed, phase>>
        /\ \A j \in DOMAIN pages \ {own} : objs'[j] = objs[j] /\ pages'[j] = pages[j]
    BY <2>0, <2>1 DEF EntryEffect
  <2>5. /\ objs'[own].last = rpc[r].clock.at /\ objs'[own].gen = objs[own].gen
        /\ pages'[own] = pages[own]
    BY <2>0, <2>1 DEF EntryEffect
  <2>6. ASSUME WriterAgrees(r) PROVE Same(own)'
    BY <2>0, <2>2, <2>5, <2>6 DEF WriterAgrees, Same
  <2>7. \/ rpc'[r].pc \in WritePC /\ rpc'[r].h = own
        \/ rpc'[r].pc = "idle"
    BY <2>2 DEF WritePC
  <2>8. rpc[r].pc \in WritePC
    BY <2>2 DEF WritePC
  <2> QED
    BY <2>0, <2>2, <2>4, <2>6, <2>7, <2>8, StatusOwn
<1>12. ASSUME Sigterm PROVE StatusInv'
  BY <1>0, <1>12 DEF StatusInv, Writes, WriterAgrees, Same, WritePC, Sigterm
<1>13. ASSUME Drain PROVE StatusInv'
  BY <1>0, <1>13 DEF StatusInv, Writes, WriterAgrees, Same, WritePC, Drain
<1>14. ASSUME DrainTimeout PROVE StatusInv'
  BY <1>0, <1>14 DEF StatusInv, Writes, WriterAgrees, Same, WritePC, DrainTimeout
<1>15. ASSUME DrainEnd PROVE StatusInv'
  BY <1>0, <1>15 DEF StatusInv, Writes, WriterAgrees, Same, WritePC, DrainEnd
<1>16. ASSUME Exit PROVE StatusInv'
  BY <1>0, <1>16, ExitStep DEF StatusInv, Writes, WriterAgrees, Same, WritePC, Exit
<1>17. ASSUME Start PROVE StatusInv'
  BY <1>0, <1>17 DEF StatusInv, Writes, WriterAgrees, Same, WritePC, Start
<1>18. ASSUME NEW h \in snap, DrainReset(h) PROVE StatusInv'
  <2>1. phase' = "draining" /\ phase = "draining" /\ rpc' = rpc
    BY <1>18 DEF DrainReset
  <2> QED
    BY <1>p, <2>1 DEF StatusInv
<1>19. ASSUME NEW h \in snap, DrainErr(h) PROVE StatusInv'
  BY <1>0, <1>19 DEF StatusInv, Writes, WriterAgrees, Same, WritePC, DrainErr
<1>20. ASSUME NEW c \in Containers, ContainerStop(c) PROVE StatusInv'
  BY <1>0, <1>20 DEF StatusInv, Writes, WriterAgrees, Same, WritePC, ContainerStop
<1>21. ASSUME NEW c \in Containers, ContainerStart(c) PROVE StatusInv'
  BY <1>0, <1>21 DEF StatusInv, Writes, WriterAgrees, Same, WritePC, ContainerStart
<1>22. CASE UNCHANGED vars
  BY <1>22 DEF vars, StatusInv, Writes, WriterAgrees, Same, WritePC
<1> QED
  BY <1>1, <1>2, <1>3, <1>4, <1>5, <1>6, <1>7, <1>8, <1>9, <1>10, <1>11, <1>12, <1>13,
     <1>14, <1>15, <1>16, <1>17, <1>18, <1>19, <1>20, <1>21, <1>22 DEF Next, RpcStep,
     Setting

(***************************************************************************)
(* The theorems.                                                           *)
(***************************************************************************)
\* newServer has no handle and no goroutine.
LEMMA InitInv == Init => MapInv /\ StatusInv /\ DrainInv /\ LifeInv
<1> SUFFICES ASSUME Init PROVE MapInv /\ StatusInv /\ DrainInv /\ LifeInv
  OBVIOUS
<1>1. pages = <<>> /\ objs = <<>> /\ filed = {} /\ snap = {} /\ lost = {} /\ crossed = {}
  BY DEF Init
<1>2. /\ pages \in Seq(Page) /\ objs \in Seq(HandleEntry) /\ DOMAIN pages = {}
      /\ Len(pages) = 0 /\ Len(objs) = 0
  BY <1>1, EmptySeq
<1>3. rpc \in [Rpcs -> Rpc(Len(pages))] /\ \A r \in Rpcs : rpc[r].pc = "idle"
  BY <1>2, IdleRpc DEF Init
<1>4. up \in [Containers -> BOOLEAN]
  BY Zenon DEF Init
<1>5. /\ inc \in [Containers -> 0 .. MaxRestarts]
      /\ hook \in [Containers -> 0 .. Len(pages)]
      /\ used \in [calls : Nat, faults : Nat, restarts : 0 .. MaxAgentRestarts]
      /\ phase = "serving"
  BY <1>2, AgentAssumption DEF Init
<1>6. \A c \in Containers : up[c]
  BY DEF Init
<1>7. TypeOK
  BY <1>1, <1>2, <1>3, <1>4, <1>5 DEF TypeOK
<1>8. MapInv
  BY <1>1, <1>2, <1>3, <1>5, <1>6, <1>7 DEF MapInv, WritePC
<1>9. StatusInv /\ DrainInv /\ LifeInv
  BY <1>1, <1>2, <1>3, <1>5 DEF StatusInv, DrainInv, LifeInv
<1> QED
  BY <1>8, <1>9

\* The invariants hold in every state of every behaviour.
LEMMA Invariants == Spec => [](MapInv /\ StatusInv /\ DrainInv /\ LifeInv)
<1>1. Init => MapInv /\ StatusInv /\ DrainInv /\ LifeInv
  BY InitInv
<1>2. /\ MapInv /\ StatusInv /\ DrainInv /\ LifeInv /\ [Next]_vars
      => (MapInv /\ StatusInv /\ DrainInv /\ LifeInv)'
  BY MapStep, StatusStep, DrainStep, LifeStep
<1> QED
  BY <1>1, <1>2, PTL DEF Spec

\* Every variable keeps its type: in particular an RPC's handle and the page
\* that a vDSO jumps to always exist, and what drain has still to reset is in
\* the agent's map.
THEOREM TypeCorrect == Spec => []TypeOK
<1>1. MapInv => TypeOK
  BY DEF MapInv
<1> QED
  BY <1>1, Invariants, PTL

\* Status tells the target and the generation that are in the page, for any
\* number of RPCs, handles and failures, unless two writes of the handle
\* overlapped.
THEOREM StatusAgreesHolds == Spec => []StatusAgrees
<1>1. ASSUME StatusInv PROVE StatusAgrees
  <2>1. SUFFICES ASSUME NEW h \in filed, phase \in {"serving", "stopping"},
                        Writing(h) = {}, h \notin crossed
                 PROVE  Status(h) = [last |-> pages[h].clock.at, gen |-> pages[h].gen]
    BY DEF StatusAgrees
  <2>2. \A r \in Rpcs : ~Writes(r, h)
    BY <2>1 DEF Writing, Writes, WritePC
  <2>3. Same(h)
    BY <1>1, <2>1, <2>2 DEF StatusInv
  <2> QED
    BY <2>3 DEF Same, Status
<1> QED
  BY <1>1, Invariants, PTL

\* After the drain every running process whose page this agent still reaches
\* is on the real clock, whatever was under way when SIGTERM came.
THEOREM DrainedRealHolds == Spec => []DrainedReal
<1>1. ASSUME MapInv, DrainInv PROVE DrainedReal
  <2>1. SUFFICES ASSUME phase = "drained", NEW c \in Containers, hook[c] \notin lost \union {0}
                 PROVE  pages[hook[c]].clock = Real
    BY DEF DrainedReal
  <2>2. hook[c] \in DOMAIN pages
    BY <1>1, <2>1, Facts DEF MapInv, TypeOK
  <2>3. \A r \in Rpcs : rpc[r].pc # "file"
    BY <1>1, <2>1 DEF MapInv
  <2>4. hook[c] \in filed
    BY <1>1, <2>1, <2>2, <2>3 DEF MapInv
  <2> QED
    BY <1>1, <2>1, <2>4 DEF DrainInv
<1> QED
  BY <1>1, Invariants, PTL

(***************************************************************************)
(* The agent of Cluster.tla.                                               *)
(***************************************************************************)
View(p) == [h \in DOMAIN p |-> [c |-> p[h].c, inc |-> p[h].inc, clock |-> p[h].clock]]

ClusterPage == [c : Containers, inc : 0 .. MaxRestarts, clock : Setting]

\* The pages that the cluster sees are a sequence, page by page the agent's.
LEMMA ViewFacts ==
    ASSUME NEW p \in Seq(Page)
    PROVE  /\ View(p) \in Seq(ClusterPage) /\ Len(View(p)) = Len(p) /\ DOMAIN View(p) = DOMAIN p
           /\ \A h \in 1 .. Len(p) :
                 View(p)[h] = [c |-> p[h].c, inc |-> p[h].inc, clock |-> p[h].clock]
<1>1. DOMAIN p = 1 .. Len(p) /\ Len(p) \in Nat /\ \A h \in 1 .. Len(p) : p[h] \in Page
  BY LenProperties, ElementOfSeq
<1>2. \A h \in 1 .. Len(p) :
         [c |-> p[h].c, inc |-> p[h].inc, clock |-> p[h].clock] \in ClusterPage
  BY <1>1 DEF Page, Setting, ClusterPage
<1> QED
  BY <1>1, <1>2 DEF View

\* It sees a page that is mapped,
LEMMA ViewAppend ==
    ASSUME NEW p \in Seq(Page), NEW q \in Seq(Page), Len(q) = Len(p) + 1,
           NEW e \in ClusterPage, q[Len(p) + 1] = [c |-> e.c, inc |-> e.inc, clock |-> e.clock, gen |-> 0],
           \A h \in 1 .. Len(p) : q[h] = p[h]
    PROVE  View(q) = Append(View(p), e)
<1> DEFINE a == Append(View(p), e)
           v == View(q)
<1>1. /\ View(p) \in Seq(ClusterPage) /\ Len(View(p)) = Len(p)
      /\ \A h \in 1 .. Len(p) :
            View(p)[h] = [c |-> p[h].c, inc |-> p[h].inc, clock |-> p[h].clock]
  BY ViewFacts
<1>2. /\ v \in Seq(ClusterPage) /\ Len(v) = Len(q)
      /\ \A h \in 1 .. Len(q) :
            v[h] = [c |-> q[h].c, inc |-> q[h].inc, clock |-> q[h].clock]
  BY ViewFacts
<1>3. Len(p) \in Nat
  BY LenProperties
<1>4. /\ a \in Seq(ClusterPage) /\ Len(a) = Len(p) + 1
      /\ \A h \in 1 .. Len(p) : a[h] = View(p)[h]
      /\ a[Len(p) + 1] = e
  BY <1>1, AppendProperties
<1> HIDE DEF a, v
<1>5. ASSUME NEW h \in 1 .. Len(p) PROVE v[h] = a[h]
  <2>1. h \in 1 .. Len(q)
    BY <1>3
  <2>2. v[h] = [c |-> q[h].c, inc |-> q[h].inc, clock |-> q[h].clock]
    BY <1>2, <2>1
  <2>3. a[h] = [c |-> p[h].c, inc |-> p[h].inc, clock |-> p[h].clock]
    BY <1>1, <1>4
  <2> QED
    BY <2>2, <2>3
<1>6. v[Len(p) + 1] = e
  <2>1. Len(p) + 1 \in 1 .. Len(q)
    BY <1>3
  <2>2. v[Len(p) + 1] = [c |-> e.c, inc |-> e.inc, clock |-> e.clock]
    BY <1>2, <2>1
  <2> QED
    BY <2>2 DEF ClusterPage
<1>7. \A h \in 1 .. Len(v) : v[h] = a[h]
  BY <1>2, <1>3, <1>4, <1>5, <1>6
<1>8. v = a
  BY <1>2, <1>4, <1>7, SeqEqual
<1> QED
  BY <1>8 DEF a, v

\* and the clock that is written into a page.
LEMMA ViewWrite ==
    ASSUME NEW p \in Seq(Page), NEW q \in Seq(Page), NEW h \in DOMAIN p,
           DOMAIN q = DOMAIN p, q[h].c = p[h].c, q[h].inc = p[h].inc,
           \A j \in DOMAIN p \ {h} : q[j] = p[j]
    PROVE  View(q) = [View(p) EXCEPT ![h].clock = q[h].clock]
<1> QED
  BY DEF View

\* A handle is in the map of the abstract agent.
IsHeld(h) ==
    /\ phase # "down"
    /\ \/ h \in filed
       \/ \E r \in Rpcs : rpc[r].pc = "file" /\ rpc[r].h = h
       \/ h \in lost /\ objs[h].life = used.restarts

LEMMA HeldFacts == \A h : h \in Held <=> IsHeld(h)
  BY DEF Held, IsHeld

\* What the cluster does not see.
Unseen == /\ UNCHANGED <<up, inc, hook>> /\ SameLife
          /\ Mapping' = Mapping
          /\ Held' = Held

LEMMA UnseenStep == Unseen => UNCHANGED C!clusterVars
  BY DEF Unseen, SameLife, C!clusterVars

\* A step that neither files, loses nor forgets a handle keeps the map.
LEMMA HeldKept ==
    ASSUME MapInv, UNCHANGED <<filed, lost>>, SameLife,
           phase = "down" <=> phase' = "down",
           \A h \in DOMAIN pages : objs'[h].life = objs[h].life,
           \A r \in Rpcs : \/ rpc'[r].pc = rpc[r].pc /\ rpc'[r].h = rpc[r].h
                           \/ rpc[r].pc # "file" /\ rpc'[r].pc # "file"
    PROVE  Held' = Held
<1>1. lost \subseteq DOMAIN pages
  BY DEF MapInv, TypeOK
<1>2. \A h : IsHeld(h)' <=> IsHeld(h)
  BY <1>1 DEF IsHeld, SameLife
<1>3. \A h : h \in Held' <=> IsHeld(h)'
  BY DEF Held, IsHeld
<1>4. \A h : h \in Held <=> IsHeld(h)
  BY HeldFacts
<1>5. \A h : h \in Held' <=> h \in Held
  BY ONLY <1>2, <1>3, <1>4
<1> QED
  BY ONLY <1>5, Zenon

\* The two levels of HeldFacts, for a step.
LEMMA HeldStep == /\ \A h : h \in Held <=> IsHeld(h)
                  /\ \A h : h \in Held' <=> IsHeld(h)'
  BY DEF Held, IsHeld

\* Mapping a page is Install, whether its handle will be filed or is lost.
LEMMA InstallStep ==
    ASSUME MapInv, TypeOK', NEW r \in Rpcs, rpc[r].pc = "inject",
           MapEffect(r), Running(rpc[r].c, rpc[r].inc),
           hook' = [hook EXCEPT ![rpc[r].c] = Len(pages) + 1],
           \/ rpc'[r].pc = "file" /\ rpc'[r].h = Len(pages) + 1 /\ lost' = lost
           \/ rpc'[r].pc # "file" /\ lost' = lost \union {Len(pages) + 1}
    PROVE  ClusterStep
<1> DEFINE cid == [c |-> rpc[r].c, inc |-> rpc[r].inc]
           e == [c |-> rpc[r].c, inc |-> rpc[r].inc, clock |-> rpc[r].clock]
           n == Len(pages) + 1
<1>1. /\ TypeOK /\ rpc[r].c \in Containers /\ phase # "down"
      /\ lost \subseteq DOMAIN pages
  BY DEF MapInv, TypeOK
<1>2. /\ Len(pages) \in Nat /\ DOMAIN pages = 1 .. Len(pages)
      /\ pages \in Seq(Page) /\ pages' \in Seq(Page) /\ rpc[r] \in Rpc(Len(pages))
  BY <1>1, Facts DEF TypeOK
<1>3. /\ UNCHANGED <<up, inc, filed, phase>> /\ SameLife /\ Len(pages') = n
      /\ \A h \in 1 .. Len(pages) : pages'[h] = pages[h] /\ objs'[h] = objs[h]
      /\ pages'[n] = [c |-> rpc[r].c, inc |-> rpc[r].inc, clock |-> rpc[r].clock, gen |-> 0]
      /\ objs'[n].life = used.restarts
      /\ \A q \in Rpcs \ {r} : rpc'[q] = rpc[q]
  <2>1. objs'[n] = [last |-> rpc[r].clock.at, gen |-> 0, life |-> used.restarts]
    BY Zenon DEF MapEffect
  <2>2. objs'[n].life = used.restarts
    BY ONLY <2>1
  <2>3. \A h \in 1 .. Len(pages) : pages'[h] = pages[h] /\ objs'[h] = objs[h]
    BY <1>2, Zenon DEF MapEffect
  <2> QED
    BY <2>2, <2>3, Zenon DEF MapEffect, Others
<1>4. Mapping' = Append(Mapping, e)
  <2>1. e \in ClusterPage /\ e.c = rpc[r].c /\ e.inc = rpc[r].inc /\ e.clock = rpc[r].clock
    BY <1>1, <1>2 DEF ClusterPage, Rpc, Setting
  <2> HIDE DEF e
  <2>2. View(pages') = Append(View(pages), e)
    BY <1>2, <1>3, <2>1, ViewAppend
  <2> QED
    BY <2>2 DEF Mapping, View
<1>5. Len(Mapping) = Len(pages)
  BY <1>2, ViewFacts DEF Mapping, View
<1>6. Held' = Held \union {n}
  <2>1. n \notin DOMAIN pages
    BY <1>2
  <2>2. \A h : IsHeld(h)' <=> IsHeld(h) \/ h = n
    BY <1>1, <1>2, <1>3, <2>1 DEF IsHeld, SameLife
  <2>3. \A h : h \in Held' <=> h \in Held \/ h = n
    BY ONLY <2>2, HeldStep
  <2> QED
    BY ONLY <2>3, Zenon
<1>7. C!Running(cid)
  BY DEF C!Running, Running
<1>8. C!Install(cid, rpc[r].clock)
  BY <1>1, <1>3, <1>4, <1>5, <1>6 DEF C!Install, C!NewHandle, SameLife
<1> QED
  BY <1>7, <1>8 DEF ClusterStep

\* A write through a filed handle into a live process is WritePage.
LEMMA WritePageStep ==
    ASSUME MapInv, TypeOK', NEW h \in filed, ProcessAlive(h),
           UNCHANGED <<up, inc, hook, phase>>, SameLife, Held' = Held, phase # "down",
           DOMAIN pages' = DOMAIN pages,
           pages'[h].c = pages[h].c, pages'[h].inc = pages[h].inc,
           \A j \in DOMAIN pages \ {h} : pages'[j] = pages[j]
    PROVE  ClusterStep
<1>1. /\ h \in DOMAIN pages /\ pages \in Seq(Page) /\ pages' \in Seq(Page)
      /\ pages[h].c \in Containers
  BY Facts DEF MapInv, TypeOK, Page
<1>2. Mapping' = [Mapping EXCEPT ![h].clock = pages'[h].clock]
  BY <1>1, ViewWrite DEF Mapping, View
<1>3. h \in Held
  BY DEF Held
<1>4. Mapping[h].c = pages[h].c /\ Mapping[h].inc = pages[h].inc
  BY <1>1 DEF Mapping
<1>5. C!Known(h, pages[h].c)
  BY <1>1, <1>3 DEF C!Known
<1>6. C!ProcessAlive(h)
  BY <1>4 DEF C!ProcessAlive, C!Running, ProcessAlive, Running
<1>7. C!WritePage(h, pages'[h].clock)
  BY <1>2 DEF C!WritePage, SameLife
<1> QED
  BY <1>1, <1>5, <1>6, <1>7 DEF ClusterStep

\* Every step of the agent is a step of the cluster, or the cluster does not see it.
LEMMA ClusterRefined == MapInv /\ LifeInv /\ [Next]_vars => [ClusterStep]_C!clusterVars
<1> SUFFICES ASSUME MapInv, LifeInv, [Next]_vars, ~UNCHANGED C!clusterVars PROVE ClusterStep
  OBVIOUS
<1>0. TypeOK /\ DOMAIN pages = 1 .. Len(pages) /\ Len(pages) \in Nat
  BY Facts DEF MapInv
<1>f. snap \subseteq filed /\ filed \subseteq DOMAIN pages /\ lost \subseteq DOMAIN pages
  BY DEF MapInv, TypeOK
<1>s. ~Unseen
  BY UnseenStep
<1> USE DEF target, server, history
<1>1. ASSUME NEW r \in Rpcs, NEW c \in Containers, NEW k \in Settings, Inject(r, c, k) PROVE Unseen
  <2>1. LocalEffect(r) /\ UNCHANGED <<filed, lost>> /\ rpc[r].pc = "idle" /\ rpc'[r].pc = "inject"
    BY <1>0, <1>1, InjectStep
  <2>2. Held' = Held
    BY <2>1, HeldKept DEF LocalEffect, Others
  <2> QED
    BY <2>1, <2>2 DEF Unseen, Mapping, LocalEffect
<1>2. ASSUME NEW r \in Rpcs, NEW h \in filed, NEW k \in Setting, SetTime(r, h, k) PROVE Unseen
  <2>1. LocalEffect(r) /\ UNCHANGED <<filed, lost>> /\ rpc[r].pc = "idle" /\ rpc'[r].pc = "load"
    BY <1>0, <1>2, SetTimeStep
  <2>2. Held' = Held
    BY <2>1, HeldKept DEF LocalEffect, Others
  <2> QED
    BY <2>1, <2>2 DEF Unseen, Mapping, LocalEffect
<1>3. ASSUME NEW r \in Rpcs, InjectOk(r) PROVE ClusterStep
  BY <1>3, InjectOkStep, InstallStep
<1>4. ASSUME NEW r \in Rpcs, InjectErr(r) PROVE Unseen
  <2>1. LocalEffect(r) /\ UNCHANGED <<filed, lost>> /\ rpc[r].pc = "inject" /\ rpc'[r].pc = "idle"
    BY <1>0, <1>4, InjectErrStep
  <2>2. Held' = Held
    BY <2>1, HeldKept DEF LocalEffect, Others
  <2> QED
    BY <2>1, <2>2 DEF Unseen, Mapping, LocalEffect
<1>5. ASSUME NEW r \in Rpcs, InjectHalf(r) PROVE ClusterStep
  BY <1>5, InjectHalfStep, InstallStep
<1>6. ASSUME NEW r \in Rpcs, File(r) PROVE Unseen
  <2>1. /\ LocalEffect(r) /\ UNCHANGED lost /\ filed' = filed \union {rpc[r].h}
        /\ rpc[r].pc = "file" /\ rpc'[r].pc = "idle"
    BY <1>6, FileStep
  <2>2. phase # "down"
    BY <2>1 DEF MapInv
  <2>3. \A h : IsHeld(h)' <=> IsHeld(h)
    BY <2>1, <2>2 DEF IsHeld, LocalEffect, Others, SameLife
  <2>4. \A h : h \in Held' <=> h \in Held
    BY ONLY <2>3, HeldStep
  <2>5. Held' = Held
    BY ONLY <2>4, Zenon
  <2> QED
    BY <2>1, <2>5 DEF Unseen, Mapping, LocalEffect
<1>7. ASSUME NEW r \in Rpcs, LoadGen(r) PROVE Unseen
  <2>1. LocalEffect(r) /\ UNCHANGED <<filed, lost>> /\ rpc[r].pc = "load" /\ rpc'[r].pc = "bump"
    BY <1>0, <1>7, LoadGenStep
  <2>2. Held' = Held
    BY <2>1, HeldKept DEF LocalEffect, Others
  <2> QED
    BY <2>1, <2>2 DEF Unseen, Mapping, LocalEffect
<1>8. ASSUME NEW r \in Rpcs, StoreGen(r) PROVE Unseen
  <2>1. /\ EntryEffect(r, objs[rpc[r].h].last, rpc[r].gen)
        /\ rpc[r].pc = "bump" /\ rpc'[r].pc = "write"
    BY <1>8, StoreGenStep
  <2>2. Held' = Held
    BY <2>1, HeldKept DEF EntryEffect, Others
  <2> QED
    BY <2>1, <2>2 DEF Unseen, Mapping, EntryEffect
<1>9. ASSUME NEW r \in Rpcs, WriteOk(r) PROVE ClusterStep
  <2>1. /\ TypeOK' /\ UNCHANGED <<up, inc, hook, server, history>> /\ SameLife /\ Others(r)
        /\ ProcessAlive(rpc[r].h) /\ rpc[r].pc = "write" /\ rpc'[r].pc = "note"
        /\ DOMAIN pages' = DOMAIN pages
        /\ \A j \in DOMAIN pages \ {rpc[r].h} : pages'[j] = pages[j]
        /\ pages'[rpc[r].h].c = pages[rpc[r].h].c /\ pages'[rpc[r].h].inc = pages[rpc[r].h].inc
    BY <1>9, WriteOkStep
  <2>2. rpc[r].h \in filed /\ phase # "down"
    BY <2>1 DEF MapInv, WritePC
  <2>3. Held' = Held
    BY <2>1, HeldKept DEF Others
  <2> QED
    BY <2>1, <2>2, <2>3, WritePageStep
<1>10. ASSUME NEW r \in Rpcs, WriteErr(r) PROVE Unseen
  <2>1. /\ EntryEffect(r, objs[rpc[r].h].last, objs[rpc[r].h].gen - 1)
        /\ rpc[r].pc = "write" /\ rpc'[r].pc = "idle"
    BY <1>10, WriteErrStep
  <2>2. Held' = Held
    BY <2>1, HeldKept DEF EntryEffect, Others
  <2> QED
    BY <2>1, <2>2 DEF Unseen, Mapping, EntryEffect
<1>11. ASSUME NEW r \in Rpcs, Note(r) PROVE Unseen
  <2>1. /\ EntryEffect(r, rpc[r].clock.at, objs[rpc[r].h].gen)
        /\ rpc[r].pc = "note" /\ rpc'[r].pc = "idle"
    BY <1>11, NoteStep
  <2>2. Held' = Held
    BY <2>1, HeldKept DEF EntryEffect, Others
  <2> QED
    BY <2>1, <2>2 DEF Unseen, Mapping, EntryEffect
<1>12. ASSUME Sigterm PROVE Unseen
  <2>1. Held' = Held
    BY <1>12, HeldKept DEF Sigterm, SameLife
  <2> QED
    BY <1>12, <2>1 DEF Unseen, Mapping, Sigterm, SameLife
<1>13. ASSUME Drain PROVE Unseen
  <2>1. Held' = Held
    BY <1>13, HeldKept DEF Drain, SameLife
  <2> QED
    BY <1>13, <2>1 DEF Unseen, Mapping, Drain, SameLife
<1>14. ASSUME DrainTimeout PROVE Unseen
  <2>1. /\ UNCHANGED <<target, objs, filed, rpc>> /\ SameLife /\ lost' = lost \union snap
        /\ phase = "draining" /\ phase' = "drained"
    BY <1>0, <1>14 DEF DrainTimeout, Fault, SameLife, TypeOK
  <2>2. \A h : IsHeld(h)' <=> IsHeld(h)
    BY <1>f, <2>1 DEF IsHeld, SameLife
  <2>3. \A h : h \in Held' <=> h \in Held
    BY ONLY <2>2, HeldStep
  <2>4. Held' = Held
    BY ONLY <2>3, Zenon
  <2> QED
    BY <2>1, <2>4 DEF Unseen, Mapping
<1>15. ASSUME DrainEnd PROVE Unseen
  <2>1. Held' = Held
    BY <1>15, HeldKept DEF DrainEnd, SameLife
  <2> QED
    BY <1>15, <2>1 DEF Unseen, Mapping, DrainEnd, SameLife
<1>16. ASSUME Exit PROVE ClusterStep
  <2>1. /\ UNCHANGED <<target>> /\ used'.restarts = used.restarts + 1
        /\ used.restarts < MaxAgentRestarts /\ phase' = "down"
    BY <1>0, <1>16, ExitStep DEF Exit
  <2>2. Held' = {} /\ Mapping' = Mapping
    BY <2>1 DEF Held, Mapping
  <2>3. C!AgentCrash("node")
    BY <2>1, <2>2 DEF C!AgentCrash
  <2> QED
    BY <2>3 DEF ClusterStep, C!ClusterNext
<1>17. ASSUME Start PROVE Unseen
  <2>1. /\ UNCHANGED <<target, objs, filed, rpc, used, lost>>
        /\ phase = "down" /\ phase' = "serving"
    BY <1>17 DEF Start
  <2>2. filed = {} /\ \A r \in Rpcs : rpc[r].pc = "idle"
    BY <2>1 DEF MapInv
  <2>3. \A h \in lost : objs[h].life # used.restarts
    <3>1. \A h \in lost : objs[h].life < used.restarts
      BY <1>f, <2>1 DEF LifeInv
    <3>2. \A h \in lost : objs[h] \in HandleEntry
      BY <1>0, <1>f, Facts
    <3>3. \A h \in lost : objs[h].life \in Int /\ used.restarts \in Int
      BY <1>0, <3>2, AgentAssumption DEF HandleEntry, TypeOK
    <3> QED
      BY <3>1, <3>3
  <2>4. \A h : IsHeld(h)' <=> IsHeld(h)
    BY <2>1, <2>2, <2>3 DEF IsHeld
  <2>5. \A h : h \in Held' <=> h \in Held
    BY ONLY <2>4, HeldStep
  <2>6. Held' = Held
    BY ONLY <2>5, Zenon
  <2> QED
    BY <2>1, <2>6 DEF Unseen, Mapping, SameLife
<1>18. ASSUME NEW h \in snap, DrainReset(h) PROVE ClusterStep
  <2>1. /\ UNCHANGED <<up, inc, hook, filed, phase, rpc, used, lost>> /\ phase = "draining"
        /\ ProcessAlive(h)
    BY <1>18 DEF DrainReset
  <2>2. h \in filed
    BY <1>f
  <2>t. TypeOK'
    BY MapStep DEF MapInv
  <2>3. /\ DOMAIN pages' = DOMAIN pages
        /\ pages'[h].c = pages[h].c /\ pages'[h].inc = pages[h].inc
        /\ \A j \in DOMAIN pages \ {h} : pages'[j] = pages[j]
        /\ \A j \in DOMAIN pages : objs'[j].life = objs[j].life
    BY <1>0, <1>18, DrainResetFacts
  <2>4. Held' = Held
    BY <2>1, <2>3, HeldKept DEF SameLife
  <2> QED
    BY <2>1, <2>2, <2>3, <2>4, <2>t, WritePageStep DEF SameLife
<1>19. ASSUME NEW h \in snap, DrainErr(h) PROVE Unseen
  <2>1. /\ UNCHANGED <<target, objs, filed, rpc, phase>> /\ SameLife /\ lost' = lost \union {h}
    BY <1>0, <1>19 DEF DrainErr, Fault, SameLife, TypeOK
  <2>2. \A j : IsHeld(j)' <=> IsHeld(j)
    BY <1>f, <2>1 DEF IsHeld, SameLife
  <2>3. \A j : j \in Held' <=> j \in Held
    BY ONLY <2>2, HeldStep
  <2>4. Held' = Held
    BY ONLY <2>3, Zenon
  <2> QED
    BY <2>1, <2>4 DEF Unseen, Mapping
<1>20. ASSUME NEW c \in Containers, ContainerStop(c) PROVE ClusterStep
  <2>1. Held' = Held /\ Mapping' = Mapping
    BY <1>20 DEF ContainerStop, Held, Mapping
  <2>2. C!ContainerStop(c)
    BY <1>20, <2>1 DEF C!ContainerStop, ContainerStop
  <2> QED
    BY <2>2 DEF ClusterStep, C!ClusterNext
<1>21. ASSUME NEW c \in Containers, ContainerStart(c) PROVE ClusterStep
  <2>1. Held' = Held /\ Mapping' = Mapping
    BY <1>21 DEF ContainerStart, Held, Mapping
  <2>2. C!ContainerStart(c)
    BY <1>21, <2>1 DEF C!ContainerStart, ContainerStart
  <2> QED
    BY <2>2 DEF ClusterStep, C!ClusterNext
<1>22. CASE UNCHANGED vars
  <2>1. Held' = Held /\ Mapping' = Mapping
    BY <1>22 DEF vars, Held, Mapping
  <2>2. Unseen
    BY <1>22, <2>1 DEF vars, Unseen, SameLife
  <2> QED
    BY <1>s, <2>2
<1> QED
  BY <1>s, <1>1, <1>2, <1>3, <1>4, <1>5, <1>6, <1>7, <1>8, <1>9, <1>10, <1>11, <1>12,
     <1>13, <1>14, <1>15, <1>16, <1>17, <1>18, <1>19, <1>20, <1>21, <1>22
     DEF Next, RpcStep, Setting

\* The agent, with its goroutines, its lock-free writes, its drain and its
\* crashes, is the agent of Cluster.tla, whose RPCs are one step each: what is
\* proved of the controller against that one holds against this one.
THEOREM ImplementsClusterHolds == Spec => ImplementsCluster
<1>1. Init => C!ClusterInit
  <2> SUFFICES ASSUME Init PROVE C!ClusterInit
    OBVIOUS
  <2>2. Mapping = <<>>
    BY DEF Init, Mapping
  <2>3. \A r \in Rpcs : rpc[r].pc = "idle"
    BY DEF Init, Idle
  <2>4. Held = {}
    BY <2>3 DEF Init, Held
  <2>5. used.restarts = 0
    BY DEF Init
  <2> QED
    BY <2>2, <2>4, <2>5 DEF C!ClusterInit, Init
<1>2. MapInv /\ LifeInv /\ [Next]_vars => [ClusterStep]_C!clusterVars
  BY ClusterRefined
<1> QED
  BY <1>1, <1>2, Invariants, PTL DEF Spec, ImplementsCluster
============================================================================
